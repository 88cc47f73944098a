------------------------------ MODULE MCAuditLog ------------------------------
(* An instance of AuditLog for TLC.                                        *)
EXTENDS AuditLog, TLC

CONSTANTS e1, e2, e3, e4
MCFour == {e1, e2, e3, e4}
Interchangeable == Permutations(MCFour)
=============================================================================
