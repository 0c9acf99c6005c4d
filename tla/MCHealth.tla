------------------------------ MODULE MCHealth ------------------------------
(***************************************************************************)
(* A runner of two ticks, started twice, and one other process.            *)
(***************************************************************************)
EXTENDS Health

CONSTANT w1

MCWriters == {w1}
MCFaults == FaultNames
=============================================================================
