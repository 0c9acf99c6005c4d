----------------------------- MODULE MCAuditLog -----------------------------
(***************************************************************************)
(* Two processes and four events.                                          *)
(***************************************************************************)
EXTENDS AuditLog, TLC

CONSTANTS p1, p2, e1, e2, e3, e4

MCProcs == {p1, p2}
MCEvents == {e1, e2, e3, e4}
MCFaults == FaultNames

Symmetry == Permutations(MCProcs) \cup Permutations(MCEvents)
=============================================================================
