------------------------------- MODULE MCAudit -------------------------------
(* Small instances of AuditLog for TLC. *)
EXTENDS AuditLog, TLC

(* Recorders are interchangeable. *)
Symmetry == Permutations(Recorders)
=============================================================================
