----------------------------- MODULE MCJobLink -----------------------------
(* Instances of JobLink for TLC. *)
EXTENDS JobLinkClaims
=============================================================================
