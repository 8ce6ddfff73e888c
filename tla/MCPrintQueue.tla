---------------------------- MODULE MCPrintQueue ----------------------------
(* The print queue of one device on small instances. *)
EXTENDS PrintQueue, TLC

Symmetry == Permutations(Jobs)
=============================================================================
