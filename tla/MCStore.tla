------------------------------ MODULE MCStore ------------------------------
(***************************************************************************)
(* Two processes on one path, and three saves between them.                *)
(***************************************************************************)
EXTENDS Store, TLC

CONSTANTS p1, p2, f1, f2, f3

MCProcs == {p1, p2}
MCFiles == {f1, f2, f3}
MCFaults == FaultNames

Symmetry == Permutations(MCProcs) \cup Permutations(MCFiles)
=============================================================================
