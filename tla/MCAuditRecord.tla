--------------------------- MODULE MCAuditRecord ---------------------------
(* The audit record on a small instance. *)
EXTENDS AuditRecord
=============================================================================
