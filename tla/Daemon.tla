------------------------------- MODULE Daemon -------------------------------
(***************************************************************************)
(* Daemon processes and operator commands around one state.json.           *)
(*                                                                         *)
(* Nothing locks the file.  A daemon tick, each of the runner's health     *)
(* marks, and every command load the whole snapshot, change their copy,    *)
(* and save the whole copy, and between the load and the save any other    *)
(* process may do the same.  The steps below are the accesses to the file  *)
(* and the calls that another process's steps can fall between.            *)
(*                                                                         *)
(* Whether a mark price crosses a rule's stop is a choice here; the        *)
(* trailing arithmetic and the protected sizes are modelled apart.         *)
(***************************************************************************)
EXTENDS OrderState, Submission

CONSTANTS Daemons,      \* processes of `run`
          Operators,    \* processes of the other commands
          Launches,     \* the option sets a daemon may be started with
          Commands,     \* the commands operators give
          Vouched,      \* auto_submit rules whose dry-run evidence is supplied
                        \* from outside: no run of the program produces it
          Faults,       \* what may go wrong; see FaultNames
          Gates,        \* readiness inputs that may fail; see GateNames
          QuietMarks,   \* whether a mark may leave an untriggered rule alone
          NoRule

CommandNames == {"init", "create", "disable", "promote", "reset", "kill on", "kill off"}
FaultNames   == {"account", "raise", "audit", "save", "interrupt", "crash"}
GateNames    == {"key", "market", "age"}
LaunchOptions == [once : BOOLEAN, canary : BOOLEAN, phrase : BOOLEAN, assume : BOOLEAN]

ASSUME DaemonAssumption ==
  /\ Daemons \cap Operators = {}
  /\ Launches \subseteq LaunchOptions
  /\ Commands \subseteq CommandNames
  /\ Vouched \subseteq AutoSubmit
  /\ Faults \subseteq FaultNames
  /\ Gates \subseteq GateNames
  /\ QuietMarks \in BOOLEAN
  /\ NoRule \notin Rules

Procs == Daemons \cup Operators

VARIABLES
  disk,       \* state.json
  evidence,   \* rules with a dry_run_exit event in the audit log
  ledger,     \* what the exchange was last asked for each rule
  created,    \* ids already given out
  overrun,    \* daemons that sent an exit while the kill switch was on in disk
  pc, task,   \* where each process is, and in which of its jobs
  mem,        \* the snapshot each process holds
  cur,        \* the rule each process is handling
  todo,       \* the rules the tick has still to look at
  run         \* how each daemon was started, and what it was wired with

local == <<pc, task, mem, cur, todo>>
vars  == <<disk, evidence, ledger, created, overrun, local, run>>

Labels == {"off", "load", "account", "rules", "merge", "write", "handle",
           "answer", "sleep"}
Tasks  == {"idle", "started", "tick", "completed", "stopped"} \cup CommandNames
Orders == {"none", "sent", "accepted", "failed"}
Wiring == [once : BOOLEAN, canary : BOOLEAN, phrase : BOOLEAN, assume : BOOLEAN,
           wired : BOOLEAN]

TypeOK ==
  /\ disk \in Snapshot
  /\ evidence \subseteq Rules
  /\ ledger \in [Rules -> Orders]
  /\ created \subseteq Rules
  /\ overrun \subseteq Daemons
  /\ pc \in [Procs -> Labels]
  /\ task \in [Procs -> Tasks]
  /\ mem \in [Procs -> Snapshot]
  /\ cur \in [Procs -> Rules \cup {NoRule}]
  /\ todo \in [Procs -> SUBSET Rules]
  /\ run \in [Daemons -> Wiring]

Unstarted == [once |-> FALSE, canary |-> FALSE, phrase |-> FALSE,
              assume |-> FALSE, wired |-> FALSE]

Init ==
  /\ disk = EmptyState
  /\ evidence = Vouched
  /\ ledger = [r \in Rules |-> "none"]
  /\ created = {}
  /\ overrun = {}
  /\ pc = [p \in Procs |-> "off"]
  /\ task = [p \in Procs |-> "idle"]
  /\ mem = [p \in Procs |-> EmptyState]
  /\ cur = [p \in Procs |-> NoRule]
  /\ todo = [p \in Procs |-> {}]
  /\ run = [d \in Daemons |-> Unstarted]

-----------------------------------------------------------------------------
(* How a process moves between its jobs. *)

\* Drop what is held and go on with job t at label l.
Switch(p, l, t) ==
  /\ pc'   = [pc   EXCEPT ![p] = l]
  /\ task' = [task EXCEPT ![p] = t]
  /\ mem'  = [mem  EXCEPT ![p] = EmptyState]
  /\ cur'  = [cur  EXCEPT ![p] = NoRule]
  /\ todo' = [todo EXCEPT ![p] = {}]

Leave(p) == Switch(p, "off", "idle")

\* run_once is over, with or without an exception: `run --once` ends, the
\* runner marks the tick completed.
EndTick(d) ==
  \/ run[d].once  /\ Leave(d)
  \/ ~run[d].once /\ Switch(d, "load", "completed")

\* run_once has failed: the same, unless the runner's own audit append raises
\* too, which takes it to its finally.
TickFails(d) ==
  \/ EndTick(d)
  \/ "audit" \in Faults /\ ~run[d].once /\ Switch(d, "load", "stopped")

-----------------------------------------------------------------------------
(* Daemon: starting, loading. *)

\* What the daemon is wired with depends on the rules `run` finds, and stays for
\* the daemon's life.  The live options are required only if it is wired.
WiringOf(o) ==
  [once |-> o.once, canary |-> o.canary, phrase |-> o.phrase, assume |-> o.assume,
   wired |-> \E r \in AutoSubmit : disk.rule[r].status = "active"]

Start(d) ==
  /\ pc[d] = "off"
  /\ \E o \in Launches :
       /\ run' = [run EXCEPT ![d] = WiringOf(o)]
       /\ Switch(d, "load", IF o.once THEN "tick" ELSE "started")
  /\ UNCHANGED <<disk, evidence, ledger, created, overrun>>

\* The load that opens run_once or a health mark.  The marks change health
\* fields only, so their copy is the loaded one.
Load(d) ==
  /\ pc[d] = "load"
  /\ mem' = [mem EXCEPT ![d] = disk]
  /\ pc'  = [pc EXCEPT ![d] = IF task[d] = "tick" THEN "account" ELSE "merge"]
  /\ UNCHANGED <<disk, evidence, ledger, created, overrun, task, cur, todo, run>>

-----------------------------------------------------------------------------
(* Daemon: run_once. *)

\* Mutant of AccountLoaded: disabled rules are not skipped.
AccountLoadedAll(d) ==
  /\ pc[d] = "account"
  /\ pc'   = [pc EXCEPT ![d] = "rules"]
  /\ todo' = [todo EXCEPT ![d] = {r \in Rules : mem[d].rule[r].status # "none"}]
  /\ UNCHANGED <<disk, evidence, ledger, created, overrun, task, mem, cur, run>>

AccountLoaded(d) ==
  /\ pc[d] = "account"
  /\ pc'   = [pc EXCEPT ![d] = "rules"]
  /\ todo' = [todo EXCEPT ![d] = {r \in Rules : mem[d].rule[r].status = "active"}]
  /\ UNCHANGED <<disk, evidence, ledger, created, overrun, task, mem, cur, run>>

\* The tick returns before it has looked at a rule, and saves nothing.
AccountFails(d) ==
  /\ "account" \in Faults
  /\ pc[d] = "account"
  /\ TickFails(d)
  /\ UNCHANGED <<disk, evidence, ledger, created, overrun, run>>

\* No price, a mid price, no protected size, or a mark that does not cross.
Pass(d) ==
  /\ pc[d] = "rules"
  /\ \E r \in todo[d] :
       /\ mem[d].rule[r].triggered \/ QuietMarks
       /\ todo' = [todo EXCEPT ![d] = @ \ {r}]
  /\ UNCHANGED <<disk, evidence, ledger, created, overrun, pc, task, mem, cur, run>>

\* Mutant of Trigger: no save before a live exit is handled.
TriggerUnsaved(d) ==
  /\ pc[d] = "rules"
  /\ \E r \in todo[d] :
       /\ ~mem[d].rule[r].triggered
       /\ mem'  = [mem EXCEPT ![d] = Triggered(mem[d], r)]
       /\ cur'  = [cur EXCEPT ![d] = r]
       /\ todo' = [todo EXCEPT ![d] = @ \ {r}]
       /\ pc'   = [pc EXCEPT ![d] = "handle"]
  /\ UNCHANGED <<disk, evidence, ledger, created, overrun, task, run>>

\* observe returns an exit.  Only a live one is saved before it is handled.
Trigger(d) ==
  /\ pc[d] = "rules"
  /\ \E r \in todo[d] :
       /\ ~mem[d].rule[r].triggered
       /\ mem'  = [mem EXCEPT ![d] = Triggered(mem[d], r)]
       /\ cur'  = [cur EXCEPT ![d] = r]
       /\ todo' = [todo EXCEPT ![d] = @ \ {r}]
       /\ pc'   = [pc EXCEPT ![d] = IF r \in AutoSubmit THEN "merge" ELSE "handle"]
  /\ UNCHANGED <<disk, evidence, ledger, created, overrun, task, run>>

\* Every rule has been looked at.
Finish(d) ==
  /\ pc[d] = "rules"
  /\ todo[d] = {}
  /\ pc' = [pc EXCEPT ![d] = "merge"]
  /\ UNCHANGED <<disk, evidence, ledger, created, overrun, task, mem, cur, todo, run>>

\* The outcome of one exit is in the copy; the loop goes on.
NextRule(d, s) ==
  /\ mem' = [mem EXCEPT ![d] = s]
  /\ cur' = [cur EXCEPT ![d] = NoRule]
  /\ pc'  = [pc EXCEPT ![d] = "rules"]

RecordDryRun(d) ==
  /\ pc[d] = "handle"
  /\ cur[d] \in Rules \ AutoSubmit
  /\ evidence' = evidence \cup {cur[d]}
  /\ NextRule(d, mem[d])
  /\ UNCHANGED <<disk, ledger, created, overrun, task, todo, run>>

\* What the readiness inputs outside the program may be: those not in Gates
\* are always in order.
GateValues == {g \in [GateNames -> BOOLEAN] : \A n \in GateNames \ Gates : g[n]}

\* Mutants of ContextFor: the daemon's copy of the kill switch is not put in,
\* and dry-run events are counted whatever rule they are for.
ContextWithoutKill(d, g) ==
  [market   |-> run[d].assume \/ g["market"],
   mark     |-> run[d].assume \/ g["age"],
   kill     |-> FALSE,
   evidence |-> cur[d] \in evidence,
   phrase   |-> run[d].phrase]

ContextAnyEvidence(d, g) ==
  [market   |-> run[d].assume \/ g["market"],
   mark     |-> run[d].assume \/ g["age"],
   kill     |-> mem[d].kill,
   evidence |-> evidence # {},
   phrase   |-> run[d].phrase]

\* The context _readiness_context_for builds.  The rule's mark has just been
\* observed; --market-exists skips the metadata lookup and the mark's age.
ContextFor(d, g) ==
  [market   |-> run[d].assume \/ g["market"],
   mark     |-> run[d].assume \/ g["age"],
   kill     |-> mem[d].kill,
   evidence |-> cur[d] \in evidence,
   phrase   |-> run[d].phrase]

ReasonsFor(d, g) ==
  BlockedReasons(run[d].wired, run[d].canary, mem[d].rule[cur[d]].live,
                 g["age"], g["key"], ContextFor(d, g))

Block(d) ==
  /\ pc[d] = "handle"
  /\ cur[d] \in AutoSubmit
  /\ \E g \in GateValues : ReasonsFor(d, g) # {}
  /\ NextRule(d, Rearmed(mem[d], cur[d]))
  /\ UNCHANGED <<disk, evidence, ledger, created, overrun, task, todo, run>>

\* The exit goes to the exchange; the answer is a later step.
Attempt(d) ==
  /\ pc[d] = "handle"
  /\ cur[d] \in AutoSubmit
  /\ \E g \in GateValues : ReasonsFor(d, g) = {}
  /\ ledger'  = [ledger EXCEPT ![cur[d]] = "sent"]
  /\ overrun' = IF disk.kill THEN overrun \cup {d} ELSE overrun
  /\ pc' = [pc EXCEPT ![d] = "answer"]
  /\ UNCHANGED <<disk, evidence, created, task, mem, cur, todo, run>>

\* The audit append that announces the attempt raises inside the try, or the
\* exchange gateway cannot be built there (no key, the SDK's set-up), and the exit
\* counts as failed although nothing was sent.
AttemptNotSent(d) ==
  /\ "audit" \in Faults \/ "raise" \in Faults
  /\ pc[d] = "handle"
  /\ cur[d] \in AutoSubmit
  /\ \E g \in GateValues : ReasonsFor(d, g) = {}
  /\ NextRule(d, ManualReview(mem[d], cur[d]))
  /\ UNCHANGED <<disk, evidence, ledger, created, overrun, task, todo, run>>

Accepted(d) ==
  /\ pc[d] = "answer"
  /\ ledger' = [ledger EXCEPT ![cur[d]] = "accepted"]
  /\ NextRule(d, LiveSuccess(mem[d], cur[d]))
  /\ UNCHANGED <<disk, evidence, created, overrun, task, todo, run>>

\* An exception, an error in the response, or a response that is not ok.
Failed(d) ==
  /\ pc[d] = "answer"
  /\ ledger' = [ledger EXCEPT ![cur[d]] = "failed"]
  /\ NextRule(d, ManualReview(mem[d], cur[d]))
  /\ UNCHANGED <<disk, evidence, created, overrun, task, todo, run>>

\* What run_once does not catch: the metadata lookup, the keychain and the
\* audit file while an exit is handled, the audit file elsewhere, and an answer of
\* the exchange that is no record, which comes to the same as the latter.  The tick is
\* over and what it changed since its last save is lost.
Raise(d) ==
  /\ \/ "raise" \in Faults /\ pc[d] = "handle" /\ run[d].wired
     \/ "audit" \in Faults /\ pc[d] \in {"rules", "handle", "answer"}
  /\ TickFails(d)
  /\ UNCHANGED <<disk, evidence, ledger, created, overrun, run>>

-----------------------------------------------------------------------------
(* Saving.  save_preserving_active_kill_switch is two accesses to the file. *)

Merge(p) ==
  /\ pc[p] = "merge"
  /\ mem' = [mem EXCEPT ![p] = KillMerged(mem[p], disk)]
  /\ pc'  = [pc EXCEPT ![p] = "write"]
  /\ UNCHANGED <<disk, evidence, ledger, created, overrun, task, cur, todo, run>>

\* The atomic replace of the file by p's copy.  A reset is the operator's word
\* that the rule's last exit is settled.
Replace(p) ==
  /\ disk'    = mem[p]
  /\ overrun' = IF mem[p].kill THEN overrun ELSE {}
  /\ ledger'  = IF task[p] = "reset" THEN [ledger EXCEPT ![cur[p]] = "none"] ELSE ledger

\* Where p goes once its save has returned.
AfterSave(p) ==
  \/ task[p] = "started"   /\ Switch(p, "load", "tick")
  \/ /\ task[p] = "tick" /\ cur[p] # NoRule
     /\ pc' = [pc EXCEPT ![p] = "handle"]
     /\ UNCHANGED <<task, mem, cur, todo>>
  \/ task[p] = "tick" /\ cur[p] = NoRule /\ EndTick(p)
  \/ task[p] = "completed" /\ Switch(p, "sleep", "idle")
  \/ task[p] \in {"stopped"} \cup CommandNames /\ Leave(p)

Save(p) ==
  /\ pc[p] = "write"
  /\ Replace(p)
  /\ AfterSave(p)
  /\ UNCHANGED <<evidence, created, run>>

\* Where p goes when its save raises: run_once ends, a mark of the runner goes
\* through its finally, and the last mark or a command ends the process.
AfterFailedSave(p) ==
  \/ task[p] = "tick" /\ TickFails(p)
  \/ task[p] \in {"started", "completed"} /\ Switch(p, "load", "stopped")
  \/ task[p] \in {"stopped"} \cup CommandNames /\ Leave(p)

\* The write, or the replace, or the fsync of the directory after the replace.
SaveFails(p) ==
  /\ "save" \in Faults
  /\ pc[p] = "write"
  /\ Replace(p) \/ UNCHANGED <<disk, overrun, ledger>>
  /\ AfterFailedSave(p)
  /\ UNCHANGED <<evidence, created, run>>

-----------------------------------------------------------------------------
(* Daemon: the runner's loop. *)

Wake(d) ==
  /\ pc[d] = "sleep"
  /\ Switch(d, "load", "started")
  /\ UNCHANGED <<disk, evidence, ledger, created, overrun, run>>

\* The last of --max-iterations.
Stop(d) ==
  /\ pc[d] = "sleep"
  /\ Switch(d, "load", "stopped")
  /\ UNCHANGED <<disk, evidence, ledger, created, overrun, run>>

\* Ctrl-C is no Exception: nothing but the runner's finally sees it.
Interrupt(d) ==
  /\ "interrupt" \in Faults
  /\ pc[d] # "off"
  /\ \/ ~run[d].once /\ task[d] # "stopped" /\ Switch(d, "load", "stopped")
     \/ (run[d].once \/ task[d] = "stopped") /\ Leave(d)
  /\ UNCHANGED <<disk, evidence, ledger, created, overrun, run>>

Crash(p) ==
  /\ "crash" \in Faults
  /\ pc[p] # "off"
  /\ Leave(p)
  /\ UNCHANGED <<disk, evidence, ledger, created, overrun, run>>

-----------------------------------------------------------------------------
(* Operators.  A command loads, checks and changes its copy at once; what can *)
(* come between that and its save is any step of another process.             *)

Command(p, name, r, label, s) ==
  /\ name \in Commands
  /\ pc[p] = "off"
  /\ pc'   = [pc   EXCEPT ![p] = label]
  /\ task' = [task EXCEPT ![p] = name]
  /\ cur'  = [cur  EXCEPT ![p] = r]
  /\ mem'  = [mem  EXCEPT ![p] = s]
  /\ UNCHANGED <<disk, evidence, ledger, overrun, todo, run>>

Known(r) == disk.rule[r].status # "none"

\* Mutant of InitState: a new state in place of the one there is.
InitAfresh(p) == Command(p, "init", NoRule, "write", EmptyState) /\ UNCHANGED created

InitState(p) == Command(p, "init", NoRule, "write", disk) /\ UNCHANGED created

\* The id is a fresh uuid.
Create(p) ==
  \E r \in Rules \ created :
    /\ Command(p, "create", r, "write", Created(disk, r))
    /\ created' = created \cup {r}

Disable(p) ==
  \E r \in Rules :
    /\ Known(r)
    /\ Command(p, "disable", r, "write", Disabled(disk, r))
    /\ UNCHANGED created

\* Mutant of Promote: the live status is not looked at.
PromoteAny(p) ==
  \E r \in Rules :
    /\ Known(r)
    /\ Command(p, "promote", r, "write", Promoted(disk, r))
    /\ UNCHANGED created

Promote(p) ==
  \E r \in Rules :
    /\ Known(r)
    /\ disk.rule[r].live = "canary_succeeded"
    /\ Command(p, "promote", r, "write", Promoted(disk, r))
    /\ UNCHANGED created

\* The account has a position on the rule's side: otherwise nothing is saved.
ResetTriggered(p) ==
  \E r \in Rules :
    /\ Known(r)
    /\ Command(p, "reset", r, "merge", Reset(disk, r))
    /\ UNCHANGED created

KillOn(p)  == Command(p, "kill on", NoRule, "write", KillSet(disk, TRUE))
              /\ UNCHANGED created

KillOff(p) == Command(p, "kill off", NoRule, "write", KillSet(disk, FALSE))
              /\ UNCHANGED created

-----------------------------------------------------------------------------
DaemonStep(d) ==
  \/ Start(d) \/ Load(d) \/ AccountLoaded(d) \/ AccountFails(d)
  \/ Pass(d) \/ Trigger(d) \/ Finish(d)
  \/ RecordDryRun(d) \/ Block(d) \/ Attempt(d) \/ AttemptNotSent(d)
  \/ Accepted(d) \/ Failed(d) \/ Raise(d)
  \/ Wake(d) \/ Stop(d) \/ Interrupt(d)

OperatorStep(p) ==
  \/ InitState(p) \/ Create(p) \/ Disable(p) \/ Promote(p) \/ ResetTriggered(p)
  \/ KillOn(p) \/ KillOff(p)

SharedStep(p) == Merge(p) \/ Save(p) \/ SaveFails(p) \/ Crash(p)

Next ==
  \/ \E d \in Daemons : DaemonStep(d)
  \/ \E p \in Operators : OperatorStep(p)
  \/ \E p \in Procs : SharedStep(p)

Spec == Init /\ [][Next]_vars

\* A process that has loaded and not yet finished with its copy.
Holds(p) == pc[p] \notin {"off", "load", "sleep"}

\* At most one process holds a copy of the file.
Serial == \A p, q \in Procs : Holds(p) /\ Holds(q) => p = q

\* What the program would do if a lock were held around every load ... save.
\* The program has no such lock: the properties checked of SerialSpec are the
\* ones its steps keep when they do not interleave, crashes included.
SerialSpec == Init /\ [][Next /\ Serial']_vars

-----------------------------------------------------------------------------
(* Properties that hold however the processes interleave. *)

\* The call of submit_market_close.
Sends(d) == pc[d] = "handle" /\ pc'[d] = "answer"

Spent(s) == \A r \in Rules :
  s.rule[r].live \in {"canary_succeeded", "normal_live"} => s.rule[r].triggered

\* A rule whose canary has succeeded keeps its trigger spent, in the file and
\* in every copy: success records canary_succeeded and leaves triggered set,
\* promote-live does not clear it, and reset-triggered, which does, takes the
\* rule back to canary_pending.
SpentAfterCanary == Spent(disk) /\ \A p \in Procs : Spent(mem[p])

\* Every exit that reaches the exchange is a canary: the rule is
\* canary_pending and the daemon runs with --canary.
EveryAttemptIsCanary ==
  [][\A d \in Daemons : Sends(d) =>
       mem[d].rule[cur[d]].live = "canary_pending" /\ run[d].canary]_vars

\* While the kill switch stays on in state.json, each daemon sends at most one
\* more exit: the one that had passed its last look at the file.
KillInFlight ==
  [][\A d \in Daemons : Sends(d) /\ disk.kill => d \notin overrun]_vars

\* An exit is sent only for a rule whose dry-run evidence came from outside:
\* dry_run_exit events are written for dry_run rules, and counted by rule id.
OnlyVouched ==
  [][\A d \in Daemons : Sends(d) => cur[d] \in Vouched]_vars

-----------------------------------------------------------------------------
(* Properties that need the loads and saves not to interleave. *)

\* A rule's exit is not sent again before an operator has reset the rule,
\* wherever a daemon stops or fails in between.
NoSecondExit ==
  [][\A d \in Daemons : Sends(d) => ledger[cur[d]] = "none"]_vars

\* No exit is sent while the kill switch is on in state.json.
NoAttemptUnderKill ==
  [][\A d \in Daemons : Sends(d) => ~disk.kill]_vars

\* The kill switch in state.json changes only when an operator's kill-switch
\* command saves, and to what it said.
KillOnlyByCommand ==
  [][disk'.kill # disk.kill =>
       \E p \in Operators :
         pc[p] = "write" /\ task[p] = IF disk'.kill THEN "kill on" ELSE "kill off"]_vars

\* A disabled rule stays disabled: no command enables one.
DisabledSticks ==
  [][\A r \in Rules : disk.rule[r].status = "disabled"
                        => disk'.rule[r].status = "disabled"]_vars

\* A rule that create-trailing has saved stays in the file.
CreatedStays ==
  [][\A r \in Rules : disk.rule[r].status # "none"
                        => disk'.rule[r].status # "none"]_vars

\* Only reset-triggered takes a rule out of manual review.
ReviewOnlyByReset ==
  [][\A r \in Rules :
       disk.rule[r].live = "manual_review" /\ disk'.rule[r].live # "manual_review"
         => \E p \in Operators : task[p] = "reset" /\ cur[p] = r]_vars

\* canary_succeeded and normal_live in the file are backed by an exit that the
\* exchange accepted after the rule's last reset.
SuccessIsReal ==
  \A r \in Rules :
    disk.rule[r].live \in {"canary_succeeded", "normal_live"} => ledger[r] = "accepted"

-----------------------------------------------------------------------------
(* What the steps amount to for the rules. *)

\* How far a rule has come, by what a snapshot says of it.
StageOf(x) ==
  CASE x.live = "canary_succeeded" -> "succeeded"
    [] x.live = "normal_live"      -> "live"
    [] x.live = "manual_review"    -> "review"
    [] OTHER -> IF x.triggered THEN "spent" ELSE "armed"

Life == INSTANCE Lifecycle WITH
  status <- [r \in Rules |-> disk.rule[r].status],
  stage  <- [r \in Rules |-> StageOf(disk.rule[r])],
  asked  <- ledger

\* Every rule has the life that Lifecycle promises: whatever crashes, fails or
\* raises, its trigger is spent in the file before its exit is asked for, it is
\* asked for once and only while the rule is active, and the file calls it
\* succeeded, in review or armed again only after an exit that the exchange
\* accepted, refused, or was never asked for.
HasLife == Life!Spec

-----------------------------------------------------------------------------
(* A property that also needs every tick to run to its end; Outcomes has what *)
(* holds whether it does or not.                                              *)

Ticking(d) == task[d] = "tick" /\ Holds(d)

\* A rule that is left triggered in the file without an outcome is being
\* handled: no tick leaves it unable to fire again and unknown to review.
NoSilentWedge ==
  \A r \in AutoSubmit :
    disk.rule[r].triggered /\ disk.rule[r].live = "canary_pending"
      => \E d \in Daemons : Ticking(d)

-----------------------------------------------------------------------------
(* Liveness. *)

\* A daemon that runs keeps running: its calls return, by an answer, an
\* exception or the client's timeout, and its sleeps end.
Progress(d) ==
  \/ Load(d) \/ AccountLoaded(d) \/ Pass(d) \/ Trigger(d) \/ Finish(d)
  \/ RecordDryRun(d) \/ Block(d) \/ Attempt(d) \/ Accepted(d) \/ Failed(d)
  \/ Merge(d) \/ Save(d) \/ Wake(d)

\* Account and readiness failures are transient: a daemon that keeps asking is
\* not refused every time.  Nothing makes operators or restarts happen.
LiveSpec ==
  /\ Spec
  /\ \A d \in Daemons : /\ WF_vars(Progress(d))
                        /\ SF_vars(AccountLoaded(d))
                        /\ SF_vars(Attempt(d))

\* d runs, and no other process does.
Undisturbed(d) ==
  /\ pc[d] # "off" /\ task[d] # "stopped"
  /\ \A p \in Procs \ {d} : pc[p] = "off"

\* d was started as the runbook says to send exits, and nothing forbids it.
MaySend(d) == run[d].wired /\ run[d].canary /\ run[d].phrase /\ ~disk.kill /\ ~Holds(d)

Sending(d, r) == pc[d] = "answer" /\ cur[d] = r

\* An exit that is blocked, or not reached because the account snapshot failed,
\* is tried again on later ticks until it is sent.
BlockedExitIsRetried ==
  \A d \in Daemons, r \in Vouched :
    /\ Undisturbed(d) /\ MaySend(d)
    /\ disk.rule[r] = [status |-> "active", live |-> "canary_pending", triggered |-> FALSE]
    ~> Sending(d, r) \/ ~Undisturbed(d)

\* A promoted rule whose stop is crossed is sent by a daemon that is wired for live
\* exits and started with --canary, which forbids least.
PromotedExitIsSent ==
  \A d \in Daemons, r \in Vouched :
    /\ Undisturbed(d) /\ MaySend(d)
    /\ disk.rule[r].status = "active" /\ disk.rule[r].live = "normal_live"
    ~> Sending(d, r) \/ ~Undisturbed(d)

\* Once the dry-run evidence the runbook asks for is in the audit log, a canary
\* run sends a crossed auto_submit rule.
EvidencedCanaryIsSent ==
  \A d \in Daemons, r \in AutoSubmit :
    /\ Undisturbed(d) /\ MaySend(d)
    /\ disk.rule[r].status = "active" /\ disk.rule[r].live = "canary_pending"
    /\ evidence # {}
    ~> Sending(d, r) \/ ~Undisturbed(d)
=============================================================================
