----------------------------- MODULE MCOutcomes -----------------------------
(* Small instances of Outcomes for TLC, on those of Daemon. *)
EXTENDS MCDaemon, Outcomes
=============================================================================
