-------------------------------- MODULE Health --------------------------------
(***************************************************************************)
(* DaemonRunner.run and the health it keeps in the state file, which is    *)
(* how a trader sees whether the daemon is alive and what its ticks get.   *)
(*                                                                         *)
(* Marks and ticks load the file and save it whole, and so do the commands *)
(* and run --once: these write the health back as they loaded it.  Time is *)
(* a count of the calls of utc_now, so no two stamps are the same; 0 is    *)
(* the stamp of what has not been yet.  active_rules_count and             *)
(* last_blocked_reasons are left out.                                      *)
(***************************************************************************)
EXTENDS Naturals

CONSTANTS Writers,         \* commands, and other processes that run one tick
          MaxIterations,   \* --max-iterations
          MaxStarts,       \* bound on how often the runner is started
          Faults           \* what may go wrong, and a request to stop

FaultNames == {"raise", "kill", "interrupt", "stop"}

ASSUME HealthAssumption ==
  /\ MaxIterations \in Nat \ {0}
  /\ MaxStarts \in Nat
  /\ Faults \subseteq FaultNames

VARIABLES
  file,         \* the health in the state file
  held,         \* the health each writer loaded
  pc,           \* where the runner is
  copy,         \* the health the runner loaded last
  result,       \* what the last tick got
  startedAt,    \* when the tick was started
  iterations, starts, clock,
  streak,       \* ticks that failed since the last that did not
  lost          \* a tick's result or the end of a run was not saved, or an older
                \* copy was saved over it, and no good tick was saved since

vars == <<file, held, pc, copy, result, startedAt, iterations, starts, clock, streak, lost>>

DaemonHealth == [mode : {"idle", "running", "stopped"},
                 started : Nat, completed : Nat, account : Nat, market : Nat,
                 failures : Nat, error : BOOLEAN]

TickResult == [account : BOOLEAN, market : BOOLEAN]

NewHealth == [mode |-> "idle", started |-> 0, completed |-> 0, account |-> 0,
              market |-> 0, failures |-> 0, error |-> FALSE]

Ticking == {"tick load", "tick", "tick save", "completed"}
Marking == {"started", "started save", "completed save", "heartbeat"}
Looping == {"loop", "after", "sleep"} \cup Ticking \cup Marking
Stopping == {"stopped", "stopped save"}
Labels == {"off", "dead"} \cup Looping \cup Stopping

TypeOK ==
  /\ file \in DaemonHealth /\ copy \in DaemonHealth
  /\ held \in [Writers -> DaemonHealth]
  /\ pc \in Labels
  /\ result \in TickResult
  /\ startedAt \in Nat /\ clock \in Nat
  /\ iterations \in 0..MaxIterations
  /\ starts \in 0..MaxStarts
  /\ streak \in Nat
  /\ lost \in BOOLEAN

Init ==
  /\ file = NewHealth /\ copy = NewHealth
  /\ held = [w \in Writers |-> NewHealth]
  /\ pc = "off"
  /\ result = [account |-> FALSE, market |-> FALSE]
  /\ startedAt = 0 /\ clock = 0
  /\ iterations = 0 /\ starts = 0
  /\ streak = 0
  /\ lost = FALSE

Goes(from, to) == pc = from /\ pc' = to

-----------------------------------------------------------------------------
(* DaemonRunner.run *)

Start ==
  /\ pc \in {"off", "dead"} /\ starts < MaxStarts
  /\ pc' = "loop"
  /\ starts' = starts + 1
  /\ iterations' = 0
  /\ UNCHANGED <<file, held, copy, result, startedAt, clock, streak, lost>>

Begin ==
  /\ Goes("loop", "started")
  /\ clock' = clock + 1 /\ startedAt' = clock + 1
  /\ UNCHANGED <<file, held, copy, result, iterations, starts, streak, lost>>

\* should_stop is asked before a tick and after it.
AskedToStop ==
  /\ "stop" \in Faults
  /\ pc \in {"loop", "sleep"} /\ pc' = "stopped"
  /\ UNCHANGED <<file, held, copy, result, startedAt, iterations, starts, clock, streak, lost>>

\* Mutant of MarkStarted: the health of a new daemon is a new one.
MarkStartedAfresh ==
  /\ Goes("started", "started save")
  /\ copy' = [NewHealth EXCEPT !.mode = "running", !.started = startedAt]
  /\ UNCHANGED <<file, held, result, startedAt, iterations, starts, clock, streak, lost>>

MarkStarted ==
  /\ Goes("started", "started save")
  /\ copy' = [file EXCEPT !.mode = "running", !.started = startedAt]
  /\ UNCHANGED <<file, held, result, startedAt, iterations, starts, clock, streak, lost>>

SaveStarted ==
  /\ Goes("started save", "tick load")
  /\ file' = copy
  /\ UNCHANGED <<held, copy, result, startedAt, iterations, starts, clock, streak, lost>>

-----------------------------------------------------------------------------
(* run_once, as far as health goes *)

Succeeded(r) == r.account /\ r.market

\* The tick is over, and this is what it got.
Ends(r) ==
  /\ pc' = "completed"
  /\ result' = r
  /\ streak' = IF Succeeded(r) THEN 0 ELSE streak + 1

Nothing == [account |-> FALSE, market |-> FALSE]

TickLoads ==
  /\ Goes("tick load", "tick")
  /\ copy' = file
  /\ UNCHANGED <<file, held, result, startedAt, iterations, starts, clock, streak, lost>>

\* An exit was triggered, and is saved before it is sent.
TickSavesTrigger ==
  /\ pc = "tick"
  /\ file' = copy
  /\ UNCHANGED <<held, pc, copy, result, startedAt, iterations, starts, clock, streak, lost>>

\* Mutant of AccountFails: no market was asked, so none failed.
AccountFailsAlone ==
  /\ pc = "tick"
  /\ Ends([account |-> FALSE, market |-> TRUE])
  /\ UNCHANGED <<file, held, copy, startedAt, iterations, starts, clock, lost>>

AccountFails ==
  /\ pc = "tick"
  /\ Ends(Nothing)
  /\ UNCHANGED <<file, held, copy, startedAt, iterations, starts, clock, lost>>

\* The rules were gone through, and the mark of each was there, or not.
TickGoesThrough ==
  /\ Goes("tick", "tick save")
  /\ \E m \in BOOLEAN : result' = [account |-> TRUE, market |-> m]
  /\ UNCHANGED <<file, held, copy, startedAt, iterations, starts, clock, streak, lost>>

TickSaves ==
  /\ pc = "tick save"
  /\ file' = copy
  /\ Ends(result)
  /\ UNCHANGED <<held, copy, startedAt, iterations, starts, clock, lost>>

\* Whatever raises in run_once is caught; a save may raise when it has replaced the
\* file.
TickRaises ==
  /\ "raise" \in Faults
  /\ pc \in {"tick load", "tick", "tick save"}
  /\ file' \in IF pc = "tick load" THEN {file} ELSE {file, copy}
  /\ Ends(Nothing)
  /\ UNCHANGED <<held, copy, startedAt, iterations, starts, clock, lost>>

-----------------------------------------------------------------------------
(* _mark_completed *)

Marked(h, r, now) ==
  [h EXCEPT !.mode = "running", !.started = startedAt, !.completed = now,
            !.account = IF r.account THEN now ELSE h.account,
            !.market = IF r.market THEN now ELSE h.market,
            !.failures = IF Succeeded(r) THEN 0 ELSE h.failures + 1,
            !.error = ~Succeeded(r)]

MarkCompleted ==
  /\ Goes("completed", "completed save")
  /\ clock' = clock + 1
  /\ copy' = Marked(file, result, clock + 1)
  /\ UNCHANGED <<file, held, result, startedAt, iterations, starts, streak, lost>>

SaveCompleted ==
  /\ Goes("completed save", "heartbeat")
  /\ file' = copy
  /\ lost' = (lost /\ ~Succeeded(result))
  /\ UNCHANGED <<held, copy, result, startedAt, iterations, starts, clock, streak>>

Heartbeat ==
  /\ Goes("heartbeat", "after")
  /\ UNCHANGED <<file, held, copy, result, startedAt, iterations, starts, clock, streak, lost>>

\* Mutant of After: one tick too many.
AfterOneMore ==
  /\ pc = "after"
  /\ iterations' = iterations + 1
  /\ pc' = IF iterations' > MaxIterations THEN "stopped" ELSE "sleep"
  /\ UNCHANGED <<file, held, copy, result, startedAt, starts, clock, streak, lost>>

After ==
  /\ pc = "after"
  /\ iterations' = iterations + 1
  /\ pc' = IF iterations' >= MaxIterations THEN "stopped" ELSE "sleep"
  /\ UNCHANGED <<file, held, copy, result, startedAt, starts, clock, streak, lost>>

Wake ==
  /\ Goes("sleep", "loop")
  /\ UNCHANGED <<file, held, copy, result, startedAt, iterations, starts, clock, streak, lost>>

-----------------------------------------------------------------------------
(* What ends a run, and _mark_stopped *)

\* The result of a tick is there and not saved.
Unsaved == pc \in {"completed", "completed save"}

\* Mutant of MarkRaises: nothing is marked when the run is left by an exception.
MarkRaisesOut ==
  /\ "raise" \in Faults
  /\ pc \in Marking \cup {"completed"} /\ pc' = "off"
  /\ file' \in IF pc \in {"started save", "completed save"} THEN {file, copy} ELSE {file}
  /\ lost' = (lost \/ Unsaved)
  /\ UNCHANGED <<held, copy, result, startedAt, iterations, starts, clock, streak>>

\* A load or a save of a mark raises, or an append to the audit log does: the run
\* ends, by way of the finally.
MarkRaises ==
  /\ "raise" \in Faults
  /\ pc \in Marking \cup {"completed"} /\ pc' = "stopped"
  /\ file' \in IF pc \in {"started save", "completed save"} THEN {file, copy} ELSE {file}
  /\ lost' = (lost \/ Unsaved)
  /\ UNCHANGED <<held, copy, result, startedAt, iterations, starts, clock, streak>>

\* Control-C, which no handler but the finally sees.
Interrupt ==
  /\ "interrupt" \in Faults
  /\ pc \in Looping /\ pc' = "stopped"
  /\ lost' = (lost \/ Unsaved)
  /\ UNCHANGED <<file, held, copy, result, startedAt, iterations, starts, clock, streak>>

MarkStopped ==
  /\ Goes("stopped", "stopped save")
  /\ copy' = [file EXCEPT !.mode = "stopped"]
  /\ UNCHANGED <<file, held, result, startedAt, iterations, starts, clock, streak, lost>>

\* Mutant of SaveStopped: mode stays as the last tick marked it.
SaveStoppedRunning ==
  /\ Goes("stopped save", "off")
  /\ file' = [copy EXCEPT !.mode = "running"]
  /\ UNCHANGED <<held, copy, result, startedAt, iterations, starts, clock, streak, lost>>

SaveStopped ==
  /\ Goes("stopped save", "off")
  /\ file' = copy
  /\ UNCHANGED <<held, copy, result, startedAt, iterations, starts, clock, streak, lost>>

\* _mark_stopped raises, or is interrupted.
StopRaises ==
  /\ Faults \cap {"raise", "interrupt"} # {}
  /\ pc \in Stopping /\ pc' = "off"
  /\ file' \in IF pc = "stopped save" THEN {file, copy} ELSE {file}
  /\ lost' = TRUE
  /\ UNCHANGED <<held, copy, result, startedAt, iterations, starts, clock, streak>>

Kill ==
  /\ "kill" \in Faults
  /\ pc \in Looping \cup Stopping /\ pc' = "dead"
  /\ lost' = (lost \/ Unsaved)
  /\ UNCHANGED <<file, held, copy, result, startedAt, iterations, starts, clock, streak>>

-----------------------------------------------------------------------------
(* Other processes *)

WriterLoads(w) ==
  /\ held' = [held EXCEPT ![w] = file]
  /\ UNCHANGED <<file, pc, copy, result, startedAt, iterations, starts, clock, streak, lost>>

WriterSaves(w) ==
  /\ file' = held[w]
  /\ lost' = (lost \/ file' # file)
  /\ UNCHANGED <<held, pc, copy, result, startedAt, iterations, starts, clock, streak>>

-----------------------------------------------------------------------------
\* What the runner does when it is left alone.
Run ==
  \/ Begin \/ MarkStarted \/ SaveStarted
  \/ TickLoads \/ AccountFails \/ TickGoesThrough \/ TickSaves \/ TickRaises
  \/ MarkCompleted \/ SaveCompleted \/ Heartbeat \/ After \/ Wake
  \/ MarkStopped \/ SaveStopped

Next ==
  \/ Start \/ Run
  \/ AskedToStop \/ TickSavesTrigger
  \/ MarkRaises \/ Interrupt \/ StopRaises \/ Kill
  \/ \E w \in Writers : WriterLoads(w) \/ WriterSaves(w)

Spec == Init /\ [][Next]_vars

\* The runner is scheduled, its calls return and its sleeps end.
FairSpec == Spec /\ WF_vars(Run)

-----------------------------------------------------------------------------
(* Properties. *)

Agree(h) ==
  /\ h.market <= h.account /\ h.account <= h.completed
  /\ h.completed > 0 => (h.failures = 0 <=> h.market = h.completed)
  /\ h.error <=> h.failures > 0

\* Whoever wrote the file last, the health in it is that of one moment: no failures
\* and no error are shown just when the tick completed last got the account and
\* every mark, and no market snapshot is shown later than an account snapshot.
StampsAgree == Agree(file)

\* consecutive_failures counts every tick that failed since the last good one,
\* whatever raised, over runs and restarts; until a result is lost.
FailuresCounted == ~Unsaved /\ ~lost => file.failures = streak

\* mode is that of the runner: running while it ticks, stopped when a run is over
\* that was not killed.
ModeTells ==
  ~lost => /\ pc \in Ticking \cup {"completed save", "heartbeat", "after", "sleep"}
                => file.mode = "running"
           /\ pc = "off" /\ starts > 0 => file.mode = "stopped"

\* A run is over some time, whatever its ticks raise, and says so: it is marked as
\* stopped, unless it was killed, or the mark could not be saved or was lost.
RunEnds ==
  pc \in Looping ~> \/ pc = "dead"
                    \/ pc = "off" /\ (file.mode = "stopped" \/ lost)
=============================================================================
