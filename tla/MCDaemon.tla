------------------------------ MODULE MCDaemon ------------------------------
(* Small instances of Daemon for TLC. *)
EXTENDS Daemon, TLC

CONSTANTS a, b, c, m    \* three auto_submit rules and a dry_run one

Wired == [once |-> FALSE, canary |-> TRUE, phrase |-> TRUE, assume |-> TRUE]

\* A daemon that may send canaries, and a single tick that may not.
SerialLaunches == {[Wired EXCEPT !.assume = FALSE],
                   [Wired EXCEPT !.once = TRUE, !.canary = FALSE]}
RunnerLaunches == {[Wired EXCEPT !.assume = FALSE]}
OnceLaunches   == {[Wired EXCEPT !.once = TRUE]}

Symmetric == Permutations(Daemons)
AllFaults    == FaultNames
AllCommands  == CommandNames
AllGates     == GateNames
=============================================================================
