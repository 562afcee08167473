----------------------------- MODULE MCAuditLog -----------------------------
(***************************************************************************)
(* Small instances of AuditLog.                                            *)
(***************************************************************************)
EXTENDS AuditLog, TLC

CONSTANTS server, cli, e1, e2

(* The two events may be told apart by nothing but their names.            *)
EventSymmetry == Permutations({e1, e2})
=============================================================================
