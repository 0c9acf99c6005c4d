--------------------------- MODULE OutcomesProofs ---------------------------
(***************************************************************************)
(* What becomes of the exits of a tick, whatever cuts it short: theorems   *)
(* about OutcomeSpec, for every set of rules, daemons and operators and    *)
(* every fault.                                                            *)
(*                                                                         *)
(* Within a tick the file is behind what has happened.  The invariant says *)
(* that the tick's copy is not, but for the rule in hand, so that a save   *)
(* makes the file true again of every other rule; and that no tick touches *)
(* a rule that an earlier one has dropped.                                 *)
(***************************************************************************)
EXTENDS LifecycleProofs, Outcomes

\* x tells all there is to tell of rule r, of whose exit the exchange said w.
Settled(r, x, w) ==
  /\ r \in AutoSubmit /\ x.triggered => x.live # "canary_pending"
  /\ w # "none" => IF w = "accepted"
                   THEN x.live \in {"canary_succeeded", "normal_live"}
                   ELSE x.live = "manual_review"

FileSettled == \A r \in Rules \ dropped : Settled(r, disk.rule[r], ledger[r])

\* p's copy tells all of rule r that it is to tell: a tick's, unless r is in hand;
\* a reset's is about to settle what was asked of the exchange.
Tells(p, r) ==
  \/ task[p] = "tick" /\ cur[p] = r
  \/ Settled(r, mem[p].rule[r], IF Resets(p, r) THEN "none" ELSE ledger[r])

CopySettled(p) == \A r \in Rules \ dropped : Tells(p, r)

\* A dropped rule is spent in the file, and no tick has to do with it.
DroppedInv ==
  \A r \in dropped : r \in AutoSubmit /\ StageOf(disk.rule[r]) = "spent"

Untouched(p) ==
  task[p] = "tick" => \A r \in dropped : cur[p] # r /\ mem[p].rule[r] = disk.rule[r]

OutcomeInv ==
  /\ LifeInv
  /\ Resting => FileSettled
  /\ DroppedInv
  /\ \A p \in Procs : Holds(p) => CopySettled(p) /\ Untouched(p)

-----------------------------------------------------------------------------
(* Copies that are taken from a settled file. *)

\* A process that takes a copy finds no tick under way.
LEMMA FileFound ==
  ASSUME OutcomeInv, NEW p \in Procs, StepOf(p), ~Holds(p), Holds(p)', Serial'
  PROVE  FileSettled
  <1>1. TypeOK
    BY LifeFacts DEF OutcomeInv
  <1>2. ASSUME NEW d \in Daemons, Holds(d)
        PROVE  FALSE
    <2>1. d \in Procs /\ d # p
      BY <1>2 DEF Procs
    <2>2. Keeps(d)
      BY <1>1, <2>1, StepKeepsOthers
    <2>3. Holds(d)'
      BY <1>2, <2>2 DEF Keeps, Holds
    <2> QED BY <2>1, <2>3 DEF Serial
  <1> QED BY <1>2 DEF OutcomeInv, Resting, Ticking

LEMMA LoadIsSettled ==
  ASSUME OutcomeInv, FileSettled, NEW d \in Daemons, Load(d)
  PROVE  \A r \in Rules \ dropped : Tells(d, r)'
  <1>1. d \in Procs
    BY DEF Procs
  <1>2. TypeOK /\ task[d] \notin CommandNames
    BY <1>1, LifeFacts DEF OutcomeInv
  <1>3. mem'[d] = disk /\ task' = task /\ ledger' = ledger
    BY <1>1, <1>2 DEF Load, TypeOK
  <1>4. \A r \in Rules : ~Resets(d, r)'
    BY <1>2, <1>3 DEF Resets, CommandNames
  <1> QED BY <1>3, <1>4 DEF Tells, FileSettled

\* s is the file but for what command name tells of rule r.
CommandSettled(name, r, s) ==
  \A x \in Rules \ dropped :
    \/ s.rule[x] = disk.rule[x] /\ ~(name = "reset" /\ r = x)
    \/ Settled(x, s.rule[x], IF name = "reset" /\ r = x THEN "none" ELSE ledger[x])

LEMMA CommandIsSettled ==
  ASSUME OutcomeInv, FileSettled, NEW p \in Operators, NEW name \in CommandNames,
         NEW r, NEW s, NEW l, Command(p, name, r, l, s),
         CommandSettled(name, r, s)
  PROVE  \A x \in Rules \ dropped : Tells(p, x)'
  <1>1. p \in Procs
    BY DEF Procs
  <1>2. TypeOK
    BY <1>1, LifeFacts DEF OutcomeInv
  <1>3. task'[p] = name /\ cur'[p] = r /\ mem'[p] = s /\ ledger' = ledger
    BY <1>1, <1>2 DEF Command, TypeOK
  <1>4. \A x \in Rules : Resets(p, x)' <=> name = "reset" /\ r = x
    BY <1>3 DEF Resets
  <1>5. \A x \in Rules \ dropped :
          Settled(x, s.rule[x], IF name = "reset" /\ r = x THEN "none" ELSE ledger[x])
    BY DEF FileSettled, CommandSettled
  <1> QED BY <1>3, <1>4, <1>5 DEF Tells

LEMMA OperatorIsSettled ==
  ASSUME OutcomeInv, FileSettled, NEW p \in Operators, OperatorStep(p)
  PROVE  \A r \in Rules \ dropped : Tells(p, r)'
  <1>0. p \in Procs /\ LifeInv
    BY DEF Procs, OutcomeInv
  <1>1. disk \in Snapshot /\ FileInv /\ Honest(disk)
    BY <1>0, LifeFacts
  <1>2. CASE InitState(p)
    <2>1. CommandSettled("init", NoRule, disk)
      BY DEF CommandSettled
    <2> QED BY <1>2, <2>1, CommandIsSettled DEF InitState, CommandNames
  <1>3. CASE Create(p)
    <2> PICK r \in Rules \ created : Command(p, "create", r, "write", Created(disk, r))
      BY <1>3 DEF Create
    <2>1. /\ Says(Created(disk, r).rule[r], "active", InitialLive(r), FALSE)
          /\ \A y \in Rules \ {r} : Created(disk, r).rule[y] = disk.rule[y]
      BY <1>1, CreatedOf
    <2>2. ledger[r] = "none"
      BY <1>1 DEF FileInv
    <2>3. Settled(r, Created(disk, r).rule[r], ledger[r])
      BY <2>1, <2>2 DEF Settled, Says
    <2>4. CommandSettled("create", r, Created(disk, r))
      BY <2>1, <2>3 DEF CommandSettled
    <2> QED BY <2>4, CommandIsSettled DEF CommandNames
  <1>4. CASE Disable(p)
    <2> PICK r \in Rules : Command(p, "disable", r, "write", Disabled(disk, r))
      BY <1>4 DEF Disable
    <2>1. /\ Says(Disabled(disk, r).rule[r], "disabled", disk.rule[r].live, disk.rule[r].triggered)
          /\ \A y \in Rules \ {r} : Disabled(disk, r).rule[y] = disk.rule[y]
      BY <1>1, ChangeOf
    <2>2. r \notin dropped => Settled(r, Disabled(disk, r).rule[r], ledger[r])
      BY <2>1 DEF FileSettled, Settled, Says
    <2>3. CommandSettled("disable", r, Disabled(disk, r))
      BY <2>1, <2>2 DEF CommandSettled
    <2> QED BY <2>3, CommandIsSettled DEF CommandNames
  <1>5. CASE Promote(p)
    <2> PICK r \in Rules :
          /\ disk.rule[r].live = "canary_succeeded"
          /\ Command(p, "promote", r, "write", Promoted(disk, r))
      BY <1>5 DEF Promote
    <2>1. \A l : /\ Says(WithLive(disk, r, l).rule[r], disk.rule[r].status, l,
                         disk.rule[r].triggered)
                 /\ \A y \in Rules \ {r} : WithLive(disk, r, l).rule[y] = disk.rule[y]
      BY <1>1, ChangeOf
    <2>2. /\ Says(Promoted(disk, r).rule[r], disk.rule[r].status, "normal_live",
                  disk.rule[r].triggered)
          /\ \A y \in Rules \ {r} : Promoted(disk, r).rule[y] = disk.rule[y]
      BY <2>1, Zenon DEF Promoted
    <2>3. r \notin dropped => ledger[r] \in {"none", "accepted"}
      BY DEF FileSettled, Settled
    <2>4. r \notin dropped => Settled(r, Promoted(disk, r).rule[r], ledger[r])
      BY <2>2, <2>3 DEF Settled, Says
    <2>5. CommandSettled("promote", r, Promoted(disk, r))
      BY <2>2, <2>4 DEF CommandSettled
    <2> QED BY <2>5, CommandIsSettled DEF CommandNames
  <1>6. CASE ResetTriggered(p)
    <2> PICK r \in Rules : Command(p, "reset", r, "merge", Reset(disk, r))
      BY <1>6 DEF ResetTriggered
    <2>1. /\ StageOf(Reset(disk, r).rule[r]) = "armed"
          /\ \A y \in Rules \ {r} : Reset(disk, r).rule[y] = disk.rule[y]
      BY <1>1, ResetOf
    <2>2. Settled(r, Reset(disk, r).rule[r], "none")
      BY <2>1 DEF Settled, StageOf
    <2>3. CommandSettled("reset", r, Reset(disk, r))
      BY <2>1, <2>2 DEF CommandSettled
    <2> QED BY <2>3, CommandIsSettled DEF CommandNames
  <1>7. CASE KillOn(p)
    <2>1. KillSet(disk, TRUE).rule = disk.rule
      BY <1>1, KillChange
    <2>2. CommandSettled("kill on", NoRule, KillSet(disk, TRUE))
      BY <2>1 DEF CommandSettled
    <2> QED BY <1>7, <2>2, CommandIsSettled DEF KillOn, CommandNames
  <1>8. CASE KillOff(p)
    <2>1. KillSet(disk, FALSE).rule = disk.rule
      BY <1>1, KillChange
    <2>2. CommandSettled("kill off", NoRule, KillSet(disk, FALSE))
      BY <2>1 DEF CommandSettled
    <2> QED BY <1>8, <2>2, CommandIsSettled DEF KillOff, CommandNames
  <1> QED BY <1>2, <1>3, <1>4, <1>5, <1>6, <1>7, <1>8 DEF OperatorStep

-----------------------------------------------------------------------------
(* Steps of a tick that keep its copy. *)

\* Between two rules, the copy is as it was.
LEMMA WalkIsSettled ==
  ASSUME OutcomeInv, NEW d \in Daemons, AccountLoaded(d) \/ Pass(d) \/ Finish(d)
  PROVE  \A r \in Rules \ dropped : Tells(d, r)'
  <1>1. d \in Procs /\ Holds(d)
    BY DEF Procs, Holds, AccountLoaded, Pass, Finish
  <1>2. CopySettled(d)
    BY <1>1 DEF OutcomeInv
  <1>3. UNCHANGED <<mem, cur, task, ledger>>
    BY DEF AccountLoaded, Pass, Finish
  <1> QED BY <1>2, <1>3 DEF CopySettled, Tells, Resets

\* The rule that triggers is in hand from now on.
LEMMA TriggerIsSettled ==
  ASSUME OutcomeInv, NEW d \in Daemons, Trigger(d)
  PROVE  \A r \in Rules \ dropped : Tells(d, r)'
  <1>1. d \in Procs /\ Holds(d) /\ pc[d] = "rules"
    BY DEF Procs, Holds, Trigger
  <1>2. /\ TypeOK /\ CopySettled(d) /\ HandlesFresh(d) /\ NoRule \notin Rules
        /\ mem[d] \in Snapshot /\ task[d] = "tick"
    BY <1>1, LifeFacts DEF OutcomeInv, Roles
  <1> PICK r \in todo[d] : mem' = [mem EXCEPT ![d] = Triggered(mem[d], r)]
                           /\ cur' = [cur EXCEPT ![d] = r]
    BY DEF Trigger
  <1>3. /\ r \in Rules /\ mem'[d] = Triggered(mem[d], r) /\ cur'[d] = r
        /\ task' = task /\ ledger' = ledger
    BY <1>1, <1>2 DEF Trigger, TypeOK
  <1>4. \A y \in Rules \ {r} : mem'[d].rule[y] = mem[d].rule[y]
    BY <1>2, <1>3, ChangeOf
  <1>5. cur[d] = NoRule
    BY <1>1, <1>2 DEF HandlesFresh
  <1>6. \A y \in Rules \ dropped : Settled(y, mem[d].rule[y], ledger[y])
    BY <1>2, <1>5 DEF CopySettled, Tells, Resets
  <1> QED BY <1>2, <1>3, <1>4, <1>6 DEF CopySettled, Tells, Resets

\* What the exchange is asked is about the rule in hand.
LEMMA AttemptIsSettled ==
  ASSUME OutcomeInv, NEW d \in Daemons, Attempt(d)
  PROVE  \A r \in Rules \ dropped : Tells(d, r)'
  <1>1. d \in Procs /\ Holds(d) /\ pc[d] = "handle" /\ cur[d] \in AutoSubmit
    BY DEF Procs, Holds, Attempt
  <1>2. TypeOK /\ CopySettled(d) /\ task[d] = "tick"
    BY <1>1, LifeFacts DEF OutcomeInv, Roles
  <1>3. /\ UNCHANGED <<mem, cur, task>>
        /\ \A y \in Rules \ {cur[d]} : ledger'[y] = ledger[y]
    BY <1>2 DEF Attempt, TypeOK
  <1> QED BY <1>2, <1>3 DEF CopySettled, Tells, Resets

\* The outcome of the exit in hand goes into the copy, and tells all of it.
LEMMA NextRuleIsSettled ==
  ASSUME OutcomeInv, NEW d \in Daemons, NEW s, NextRule(d, s),
         pc[d] \in {"handle", "answer"}, NEW r \in Rules, r = cur[d],
         Settled(r, s.rule[r], ledger'[r]),
         \A x \in Rules \ {r} : s.rule[x] = mem[d].rule[x] /\ ledger'[x] = ledger[x],
         UNCHANGED task
  PROVE  \A x \in Rules \ dropped : Tells(d, x)'
  <1>1. d \in Procs /\ Holds(d)
    BY DEF Procs, Holds
  <1>2. TypeOK /\ CopySettled(d) /\ task[d] = "tick"
    BY <1>1, LifeFacts DEF OutcomeInv, Roles
  <1>3. mem'[d] = s
    BY <1>1, <1>2 DEF NextRule, TypeOK
  <1>4. \A x \in Rules \ (dropped \cup {r}) : Settled(x, s.rule[x], ledger'[x])
    BY <1>2 DEF CopySettled, Tells, Resets
  <1> QED BY <1>2, <1>3, <1>4 DEF CopySettled, Tells, Resets

LEMMA OutcomesAreSettled ==
  ASSUME OutcomeInv, NEW d \in Daemons,
         RecordDryRun(d) \/ Block(d) \/ AttemptNotSent(d) \/ Accepted(d) \/ Failed(d)
  PROVE  \A r \in Rules \ dropped : Tells(d, r)'
  <1> DEFINE r == cur[d]
             x == mem[d].rule[r]
  <1>1. LifeInv /\ d \in Procs /\ pc[d] \in {"handle", "answer"}
    BY DEF OutcomeInv, Procs, RecordDryRun, Block, AttemptNotSent, Accepted, Failed
  <1>2. CASE RecordDryRun(d)
    <2>1. r \in Rules \ AutoSubmit /\ ledger' = ledger
      BY <1>2 DEF RecordDryRun
    <2>2. ledger[r] = "none"
      BY <1>1, <2>1, BackedFile
    <2>3. Settled(r, x, ledger'[r])
      BY <2>1, <2>2 DEF Settled
    <2> QED BY <1>1, <1>2, <2>1, <2>3, NextRuleIsSettled DEF RecordDryRun
  <1>3. r \in AutoSubmit \/ RecordDryRun(d)
    BY <1>1, LifeFacts DEF Block, AttemptNotSent, Accepted, Failed, SerialInv, SpentInv,
         TypeInv, AnswerIsLive
  <1>4. CASE Block(d)
    <2>1. r \in AutoSubmit /\ pc[d] = "handle"
      BY <1>4 DEF Block
    <2>2. r \in Rules /\ mem[d] \in Snapshot /\ ledger[r] = "none"
      BY <1>1, <2>1, InHand
    <2>3. /\ Says(Rearmed(mem[d], r).rule[r], x.status, x.live, FALSE)
          /\ \A y \in Rules \ {r} : Rearmed(mem[d], r).rule[y] = mem[d].rule[y]
      BY <2>2, ChangeOf
    <2>4. Settled(r, Rearmed(mem[d], r).rule[r], ledger[r])
      BY <2>2, <2>3 DEF Settled, Says
    <2> QED BY <1>1, <1>4, <2>2, <2>3, <2>4, NextRuleIsSettled DEF Block
  <1>5. CASE AttemptNotSent(d)
    <2>1. r \in AutoSubmit /\ pc[d] = "handle"
      BY <1>5 DEF AttemptNotSent
    <2>2. r \in Rules /\ mem[d] \in Snapshot /\ ledger[r] = "none"
      BY <1>1, <2>1, InHand
    <2>3. /\ Says(ManualReview(mem[d], r).rule[r], x.status, "manual_review", x.triggered)
          /\ \A y \in Rules \ {r} : ManualReview(mem[d], r).rule[y] = mem[d].rule[y]
      BY <2>1, <2>2, ManualReviewOf
    <2>4. Settled(r, ManualReview(mem[d], r).rule[r], ledger[r])
      BY <2>2, <2>3 DEF Settled, Says
    <2> QED BY <1>1, <1>5, <2>2, <2>3, <2>4, NextRuleIsSettled DEF AttemptNotSent
  <1>6. CASE Failed(d)
    <2>1. r \in AutoSubmit /\ pc[d] = "answer"
      BY <1>3, <1>6 DEF Failed, RecordDryRun
    <2>2. r \in Rules /\ mem[d] \in Snapshot /\ TypeOK
      BY <1>1, <2>1, InHand
    <2>3. /\ Says(ManualReview(mem[d], r).rule[r], x.status, "manual_review", x.triggered)
          /\ \A y \in Rules \ {r} : ManualReview(mem[d], r).rule[y] = mem[d].rule[y]
      BY <2>1, <2>2, ManualReviewOf
    <2>4. ledger'[r] = "failed" /\ \A y \in Rules \ {r} : ledger'[y] = ledger[y]
      BY <1>6, <2>2 DEF Failed, TypeOK
    <2>5. Settled(r, ManualReview(mem[d], r).rule[r], ledger'[r])
      BY <2>3, <2>4 DEF Settled, Says
    <2> QED BY <1>1, <1>6, <2>2, <2>3, <2>4, <2>5, NextRuleIsSettled DEF Failed
  <1>7. CASE Accepted(d)
    <2>1. r \in AutoSubmit /\ pc[d] = "answer"
      BY <1>3, <1>7 DEF Accepted, RecordDryRun
    <2>2. /\ r \in Rules /\ mem[d] \in Snapshot /\ TypeOK /\ x = disk.rule[r]
          /\ StageOf(disk.rule[r]) = "spent" /\ disk.rule[r] \in RuleState
      BY <1>1, <2>1, InHand, LifeFacts
    <2>3. ledger'[r] = "accepted" /\ \A y \in Rules \ {r} : ledger'[y] = ledger[y]
      BY <1>7, <2>2 DEF Accepted, TypeOK
    <2>4. x.live = "canary_pending"
      <3>1. disk.rule[r].live # "dry_run"
        BY <1>1, <2>1, <2>2, LifeFacts DEF Honest
      <3> QED BY <2>2, <3>1 DEF StageOf, RuleState, LiveStatus
    <2>5. /\ Says(LiveSuccess(mem[d], r).rule[r], x.status, "canary_succeeded", x.triggered)
          /\ \A y \in Rules \ {r} : LiveSuccess(mem[d], r).rule[y] = mem[d].rule[y]
      BY <2>2, <2>4, LiveSuccessOf
    <2>6. Settled(r, LiveSuccess(mem[d], r).rule[r], ledger'[r])
      BY <2>3, <2>5 DEF Settled, Says
    <2> QED BY <1>1, <1>7, <2>2, <2>3, <2>5, <2>6, NextRuleIsSettled DEF Accepted
  <1> QED BY <1>2, <1>4, <1>5, <1>6, <1>7
-----------------------------------------------------------------------------
(* Steps that concern the file. *)

LEMMA MergeIsSettled ==
  ASSUME OutcomeInv, NEW p \in Procs, Merge(p)
  PROVE  \A r \in Rules \ dropped : Tells(p, r)'
  <1>1. Holds(p)
    BY DEF Merge, Holds
  <1>2. TypeOK /\ CopySettled(p) /\ mem[p] \in Snapshot /\ disk \in Snapshot
    BY <1>1, LifeFacts DEF OutcomeInv
  <1>3. /\ mem'[p].rule = mem[p].rule
        /\ UNCHANGED <<task, cur, ledger>>
    BY <1>2, KillChange DEF Merge, TypeOK
  <1> QED BY <1>2, <1>3 DEF CopySettled, Tells, Resets

\* A save that does not end the job is the one before a live exit is handled.
LEMMA MidTickSave ==
  ASSUME OutcomeInv, NEW p \in Procs, Save(p) \/ SaveFails(p), Holds(p)'
  PROVE  /\ task[p] = "tick" /\ UNCHANGED <<task, mem, cur>>
         /\ disk' = mem[p] /\ ledger' = ledger
  <1>1. TypeOK
    BY LifeFacts DEF OutcomeInv
  <1>2. \A l \in {"off", "load", "sleep"} : \A t : ~Switch(p, l, t)
    BY <1>1, LetsGo
  <1>3. CASE Save(p)
    <2>1. AfterSave(p) /\ Replace(p)
      BY <1>3 DEF Save
    <2>2. task[p] = "tick" /\ UNCHANGED <<task, mem, cur>>
      BY <1>2, <2>1 DEF AfterSave, EndTick, Leave
    <2> QED BY <2>1, <2>2 DEF Replace
  <1>4. CASE SaveFails(p)
    <2>1. AfterFailedSave(p)
      BY <1>4 DEF SaveFails
    <2> QED BY <1>2, <2>1 DEF AfterFailedSave, EndTick, TickFails, Leave
  <1> QED BY <1>3, <1>4

LEMMA SavesAreSettled ==
  ASSUME OutcomeInv, NEW p \in Procs, Save(p) \/ SaveFails(p), Holds(p)'
  PROVE  \A r \in Rules \ dropped : Tells(p, r)'
  <1>1. Holds(p)
    BY DEF Save, SaveFails, Holds
  <1>2. CopySettled(p)
    BY <1>1 DEF OutcomeInv
  <1>3. task[p] = "tick" /\ UNCHANGED <<task, mem, cur, ledger>>
    BY MidTickSave
  <1> QED BY <1>2, <1>3 DEF CopySettled, Tells, Resets

LEMMA StepIsSettled ==
  ASSUME OutcomeInv, NEW p \in Procs, StepOf(p), Holds(p)', Serial'
  PROVE  \A r \in Rules \ dropped : Tells(p, r)'
  <1>0. TypeOK
    BY LifeFacts DEF OutcomeInv
  <1>1. ~Holds(p) => FileSettled
    BY FileFound
  <1>2. CASE p \in Daemons /\ DaemonStep(p)
    <2>1. Load(p) => ~Holds(p)
      BY DEF Load, Holds
    <2> QED
      BY <1>0, <1>1, <1>2, <2>1, StartsLetGo, LoadIsSettled, WalkIsSettled, TriggerIsSettled,
         OutcomesAreSettled, AttemptIsSettled DEF DaemonStep
  <1>3. CASE p \in Operators /\ OperatorStep(p)
    <2>1. ~Holds(p)
      BY <1>3 DEF OperatorStep, InitState, Create, Disable, Promote, ResetTriggered, KillOn,
           KillOff, Command, Holds
    <2> QED BY <1>1, <1>3, <2>1, OperatorIsSettled
  <1>4. CASE SharedStep(p)
    <2>1. ~Crash(p)
      BY <1>0, LetsGo DEF Crash, Leave
    <2> QED BY <1>4, <2>1, MergeIsSettled, SavesAreSettled DEF SharedStep
  <1> QED BY <1>2, <1>3, <1>4 DEF StepOf

-----------------------------------------------------------------------------
(* What is dropped. *)

\* A tick that has a copy after its step is the one that had it before.
LEMMA StillTicking ==
  ASSUME TypeOK, NEW d \in Daemons, StepOf(d), Ticking(d), Holds(d)'
  PROVE  Ticking(d)'
  <1>1. d \in Procs /\ d \notin Operators /\ task[d] = "tick"
    BY DaemonAssumption DEF Procs, Ticking
  <1>2. \A l \in {"off", "load", "sleep"} : \A t : ~Switch(d, l, t)
    BY <1>1, LetsGo
  <1>3. CASE DaemonStep(d)
    <2>1. task' = task
      BY <1>1, <1>3, StartsLetGo
         DEF DaemonStep, Load, AccountLoaded, Pass, Trigger, Finish, RecordDryRun, Block,
             Attempt, AttemptNotSent, Accepted, Failed
    <2> QED BY <1>1, <2>1 DEF Ticking
  <1>4. CASE SharedStep(d)
    <2>1. task' = task
      BY <1>1, <1>2, <1>4 DEF SharedStep, Merge, Save, SaveFails, AfterSave, AfterFailedSave,
         EndTick, TickFails, Crash, Leave
    <2> QED BY <1>1, <2>1 DEF Ticking
  <1> QED BY <1>1, <1>3, <1>4 DEF StepOf

\* Only the tick that ends with the step drops rules.
LEMMA DropsOf ==
  ASSUME OutcomeInv, NEW p \in Procs, StepOf(p), Drop, NEW r \in dropped'
  PROVE  /\ r \in AutoSubmit /\ r \in Rules /\ disk'.rule[r].triggered
         /\ \/ r \in dropped
            \/ p \in Daemons /\ Ticking(p) /\ ~(Holds(p)') /\ r \in Unsaved(p)
  <1>0. TypeOK
    BY LifeFacts DEF OutcomeInv
  <1>1. r \in AutoSubmit /\ r \in Rules /\ disk'.rule[r].triggered
    BY AutoSubmitAssumption DEF Drop
  <1>2. CASE r \in dropped
    BY <1>1, <1>2
  <1>3. CASE r \notin dropped
    <2> PICK d \in Daemons : Ticking(d) /\ ~(Ticking(d)') /\ r \in Unsaved(d)
      BY <1>3 DEF Drop
    <2>1. d = p
      <3>1. ASSUME d # p
            PROVE  FALSE
        <4>1. Keeps(d)
          BY <1>0, <3>1, StepKeepsOthers DEF Procs
        <4> QED BY <4>1 DEF Keeps, Ticking, Holds
      <3> QED BY <3>1
    <2>2. ~(Holds(p)')
      BY <1>0, <2>1, StillTicking
    <2> QED BY <1>1, <2>1, <2>2
  <1> QED BY <1>2, <1>3

\* A rule is no longer dropped once a reset has armed it in the file.
LEMMA UndroppedOf ==
  ASSUME OutcomeInv, Drop, NEW r \in dropped, r \notin dropped'
  PROVE  r \in AutoSubmit /\ ~disk'.rule[r].triggered
  BY DEF OutcomeInv, DroppedInv, Drop

LEMMA StagesOf ==
  ASSUME NEW x
  PROVE  /\ StageOf(x) = "armed" => ~x.triggered
         /\ StageOf(x) = "spent" => x.triggered
  BY DEF StageOf

LEMMA DroppedStep ==
  ASSUME OutcomeInv, NEW p \in Procs, StepOf(p), Drop
  PROVE  DroppedInv'
  <1>0. TypeOK /\ LifeInv
    BY LifeFacts DEF OutcomeInv
  <1> SUFFICES ASSUME NEW r \in dropped'
               PROVE  r \in AutoSubmit /\ StageOf(disk'.rule[r]) = "spent"
    BY DEF DroppedInv
  <1> DEFINE x == mem[p].rule[r]
             y == disk.rule[r]
  <1>1. r \in AutoSubmit /\ r \in Rules /\ disk'.rule[r].triggered
    BY DropsOf
  <1>2. disk' # disk => pc[p] = "write" /\ Holds(p) /\ disk' = mem[p]
    BY <1>0, OnlyReplaceWrites DEF Holds
  <1>3. CASE r \in dropped
    <2>1. StageOf(y) = "spent"
      BY <1>3 DEF OutcomeInv, DroppedInv
    <2>2. CASE disk' = disk
      BY <1>1, <2>1, <2>2
    <2>3. CASE disk' # disk
      <3>1. AheadInv(p) /\ Untouched(p) /\ disk'.rule[r] = x
        BY <1>0, <1>2, <2>3, LifeFacts DEF LifeCopy, OutcomeInv
      <3>2. ~Resets(p, r)
        BY <1>1, <3>1, StagesOf DEF AheadInv
      <3>3. CASE x = y
        BY <1>1, <2>1, <3>1, <3>3
      <3>4. CASE task[p] = "tick"
        BY <1>1, <1>3, <2>1, <3>1, <3>4 DEF Untouched
      <3>5. CASE CommandAhead(task[p], x, y)
        <4>1. y.status # "none"
          BY <1>0, <1>1, <2>1, BackedFile
        <4> QED BY <1>1, <2>1, <3>1, <3>5, <4>1 DEF CommandAhead
      <3> QED BY <1>1, <3>1, <3>2, <3>3, <3>4, <3>5 DEF AheadInv
    <2> QED BY <2>2, <2>3
  <1>4. CASE r \notin dropped
    <2>1. p \in Daemons /\ Ticking(p) /\ Holds(p) /\ r \in Unsaved(p)
      BY <1>4, DropsOf DEF Ticking
    <2>2. HandInv(p)
      BY <1>0, <2>1, LifeFacts DEF LifeCopy
    <2>3. r = cur[p] => StageOf(x) = "spent"
      BY <1>1, <2>1, <2>2 DEF HandInv
    <2>4. CASE disk' # disk
      BY <1>1, <1>2, <2>1, <2>3, <2>4 DEF Unsaved
    <2>5. CASE disk' = disk
      <3>1. x = y \/ TickAhead(r, x, y, ledger[r])
        BY <1>0, <1>1, <2>1, DaemonAhead
      <3>2. CASE x = y
        BY <1>1, <2>1, <2>3, <2>5, <3>2 DEF Unsaved
      <3>3. CASE TickAhead(r, x, y, ledger[r])
        BY <1>1, <2>5, <3>3, StagesOf DEF TickAhead
      <3> QED BY <3>1, <3>2, <3>3
    <2> QED BY <2>4, <2>5
  <1> QED BY <1>3, <1>4

-----------------------------------------------------------------------------
(* What a process that keeps its copy keeps of the others' rules. *)

\* A step of a tick changes its copy of the rule in hand, or takes one in hand that
\* had not triggered.
LEMMA OnlyInHand ==
  ASSUME LifeInv, NEW d \in Daemons, DaemonStep(d), Holds(d), Holds(d)'
  PROVE  /\ disk' = disk /\ task' = task
         /\ cur'[d] # cur[d] /\ cur'[d] # NoRule => ~mem[d].rule[cur'[d]].triggered
         /\ \A r \in Rules : cur[d] # r /\ cur'[d] # r => mem'[d].rule[r] = mem[d].rule[r]
  <1>1. /\ d \in Procs /\ TypeOK /\ mem[d] \in Snapshot /\ cur[d] \in Rules \cup {NoRule}
    BY LifeFacts DEF Procs, TypeOK
  <1>2. CASE AccountLoaded(d) \/ Pass(d) \/ Finish(d) \/ Attempt(d)
    BY <1>2 DEF AccountLoaded, Pass, Finish, Attempt
  <1>3. CASE Trigger(d)
    <2> PICK r \in todo[d] : /\ ~mem[d].rule[r].triggered
                             /\ mem' = [mem EXCEPT ![d] = Triggered(mem[d], r)]
                             /\ cur' = [cur EXCEPT ![d] = r]
      BY <1>3 DEF Trigger
    <2>1. /\ r \in Rules /\ mem'[d] = Triggered(mem[d], r) /\ cur'[d] = r
          /\ disk' = disk /\ task' = task
      BY <1>1, <1>3 DEF Trigger, TypeOK
    <2>2. \A y \in Rules \ {r} : Triggered(mem[d], r).rule[y] = mem[d].rule[y]
      BY <1>1, <2>1, ChangeOf
    <2> QED BY <2>1, <2>2
  <1>4. ASSUME NEW s, NextRule(d, s), cur[d] \in Rules, disk' = disk, task' = task,
               \A y \in Rules \ {cur[d]} : s.rule[y] = mem[d].rule[y]
        PROVE  /\ cur'[d] = NoRule
               /\ \A y \in Rules \ {cur[d]} : mem'[d].rule[y] = mem[d].rule[y]
    BY <1>1, <1>4 DEF NextRule, TypeOK
  <1>5. CASE RecordDryRun(d)
    BY <1>4, <1>5 DEF RecordDryRun
  <1>6. CASE Block(d) \/ AttemptNotSent(d) \/ Accepted(d) \/ Failed(d)
    <2>1. cur[d] \in AutoSubmit /\ cur[d] \in Rules
      BY <1>1, <1>6, LifeFacts, AutoSubmitAssumption
         DEF Block, AttemptNotSent, Accepted, Failed, SerialInv, SpentInv, TypeInv, AnswerIsLive
    <2>2. \A y \in Rules \ {cur[d]} :
            /\ Rearmed(mem[d], cur[d]).rule[y] = mem[d].rule[y]
            /\ ManualReview(mem[d], cur[d]).rule[y] = mem[d].rule[y]
      BY <1>1, <2>1, ChangeOf, ManualReviewOf
    <2>3. \A y \in Rules \ {cur[d]} : LiveSuccess(mem[d], cur[d]).rule[y] = mem[d].rule[y]
      BY <1>1, <2>1, LiveSuccessOf DEF LiveSuccess
    <2> QED BY <1>4, <1>6, <2>1, <2>2, <2>3 DEF Block, AttemptNotSent, Accepted, Failed
  <1>7. ~Load(d)
    BY DEF Load, Holds
  <1> QED BY <1>1, <1>2, <1>3, <1>5, <1>6, <1>7, StartsLetGo DEF DaemonStep

LEMMA StaysUntouched ==
  ASSUME OutcomeInv, NEW p \in Procs, StepOf(p), Holds(p)', Drop
  PROVE  Untouched(p)'
  <1>0. /\ TypeOK /\ LifeInv /\ Roles(p) /\ mem[p] \in Snapshot /\ disk \in Snapshot
        /\ NoRule \notin Rules /\ (p \in Daemons => HandlesFresh(p))
        /\ p \in Daemons => p \notin Operators
    BY LifeFacts DEF OutcomeInv
  <1> SUFFICES ASSUME task'[p] = "tick", NEW r \in dropped'
               PROVE  cur'[p] # r /\ mem'[p].rule[r] = disk'.rule[r]
    BY DEF Untouched
  <1>1. r \in dropped /\ r \in Rules
    BY DropsOf
  <1>2. disk.rule[r].triggered
    BY <1>1, StagesOf DEF OutcomeInv, DroppedInv
  <1>3. Holds(p) /\ task[p] = "tick" => cur[p] # r /\ mem[p].rule[r] = disk.rule[r]
    BY <1>1 DEF OutcomeInv, Untouched
  <1>4. CASE p \in Daemons /\ Load(p)
    BY <1>0, <1>1, <1>4 DEF Load, HandlesFresh, TypeOK
  <1>5. CASE p \in Daemons /\ DaemonStep(p) /\ ~Load(p)
    <2>1. Holds(p)
      BY <1>0, <1>5, StartsLetGo
         DEF DaemonStep, Holds, AccountLoaded, Pass, Trigger, Finish, RecordDryRun, Block,
             Attempt, AttemptNotSent, Accepted, Failed
    <2>2. /\ disk' = disk /\ task' = task
          /\ cur'[p] # cur[p] /\ cur'[p] # NoRule => ~mem[p].rule[cur'[p]].triggered
          /\ cur[p] # r /\ cur'[p] # r => mem'[p].rule[r] = mem[p].rule[r]
      BY <1>0, <1>1, <1>5, <2>1, OnlyInHand
    <2>3. cur'[p] # r
      BY <1>0, <1>1, <1>2, <1>3, <2>1, <2>2
    <2> QED BY <1>3, <2>1, <2>2, <2>3
  <1>6. CASE p \in Operators /\ OperatorStep(p)
    <2>1. task'[p] \in CommandNames
      BY <1>0, <1>6 DEF OperatorStep, InitState, Create, Disable, Promote, ResetTriggered,
         KillOn, KillOff, Command, CommandNames, TypeOK
    <2> QED BY <2>1 DEF CommandNames
  <1>7. CASE Merge(p)
    <2>1. mem'[p].rule = mem[p].rule /\ UNCHANGED <<task, cur, disk>>
      BY <1>0, <1>7, KillChange DEF Merge, TypeOK
    <2> QED BY <1>3, <1>7, <2>1 DEF Merge, Holds
  <1>8. CASE Save(p) \/ SaveFails(p)
    <2>1. task[p] = "tick" /\ UNCHANGED <<task, mem, cur>> /\ disk' = mem[p]
      BY <1>8, MidTickSave
    <2> QED BY <1>3, <1>8, <2>1 DEF Save, SaveFails, Holds
  <1>9. ~Crash(p)
    BY <1>0, LetsGo DEF Crash, Leave
  <1> QED BY <1>4, <1>5, <1>6, <1>7, <1>8, <1>9 DEF StepOf, SharedStep

LEMMA StaysSettled ==
  ASSUME OutcomeInv, NEW p \in Procs, StepOf(p), Holds(p)', Serial', Drop
  PROVE  CopySettled(p)'
  <1>0. TypeOK /\ LifeInv
    BY LifeFacts DEF OutcomeInv
  <1>1. \A r \in Rules \ dropped : Tells(p, r)'
    BY StepIsSettled
  <1>2. ASSUME NEW r \in dropped, r \notin dropped'
        PROVE  FALSE
    <2>1. disk.rule[r].triggered /\ ~disk'.rule[r].triggered
      BY <1>2, StagesOf, UndroppedOf DEF OutcomeInv, DroppedInv
    <2>2. pc[p] = "write"
      BY <1>0, <2>1, OnlyReplaceWrites
    <2>3. Save(p) \/ SaveFails(p)
      BY <1>0, <2>1, <2>2
         DEF StepOf, DaemonStep, Start, Load, AccountLoaded, AccountFails, Pass, Trigger, Finish,
             RecordDryRun, Block, Attempt, AttemptNotSent, Accepted, Failed, Raise, Wake, Stop,
             Interrupt, OperatorStep, InitState, Create, Disable, Promote, ResetTriggered,
             KillOn, KillOff, Command, SharedStep, Merge, Crash
    <2>4. task[p] = "tick" /\ disk' = mem[p]
      BY <2>3, MidTickSave
    <2> QED BY <1>2, <2>1, <2>2, <2>4 DEF OutcomeInv, Untouched, Holds
  <1> QED BY <1>1, <1>2 DEF CopySettled

-----------------------------------------------------------------------------
(* The file between ticks. *)

\* An armed rule and a dry_run one have nothing to tell.
ArmedSettled ==
  \A r \in Rules :
    ~disk.rule[r].triggered \/ r \notin AutoSubmit => Settled(r, disk.rule[r], ledger[r])

LEMMA ArmedIsSettled == LifeInv => ArmedSettled
  <1> SUFFICES ASSUME LifeInv, NEW r \in Rules,
                      ~disk.rule[r].triggered \/ r \notin AutoSubmit
               PROVE  Settled(r, disk.rule[r], ledger[r])
    BY DEF ArmedSettled
  <1>1. Honest(disk) /\ Sound(disk)
    BY DEF LifeInv, SerialInv, SpentInv
  <1>2. ~disk.rule[r].triggered => StageOf(disk.rule[r]) = "armed"
    BY <1>1 DEF Honest, Sound, StageOf
  <1>3. ledger[r] = "none"
    BY <1>2, BackedFile
  <1> QED BY <1>3 DEF Settled

LEMMA FileStaysSettled ==
  ASSUME OutcomeInv, NEW p \in Procs, StepOf(p), Drop, ArmedSettled', Resting'
  PROVE  FileSettled'
  <1>0. TypeOK /\ LifeInv /\ Roles(p)
    BY LifeFacts DEF OutcomeInv
  <1> SUFFICES ASSUME NEW r \in Rules \ dropped'
               PROVE  Settled(r, disk'.rule[r], ledger'[r])
    BY DEF FileSettled
  <1>1. CASE ~disk'.rule[r].triggered \/ r \notin AutoSubmit
    BY <1>1 DEF ArmedSettled
  <1>2. CASE disk'.rule[r].triggered /\ r \in AutoSubmit
    <2>1. r \notin dropped
      BY <1>2 DEF Drop
    <2>2. pc[p] = "write" /\ Replace(p) =>
            /\ disk' = mem[p]
            /\ ledger'[r] = IF Resets(p, r) THEN "none" ELSE ledger[r]
      BY <1>0 DEF Replace, Resets, TypeOK
    <2>3. CASE p \in Daemons /\ Ticking(p)
      \* What the tick leaves unsaved it drops; the rest is as its copy tells.
      <3>1. cur[p] # r /\ mem[p].rule[r] = disk'.rule[r]
        <4>1. r \notin Unsaved(p)
          BY <1>2, <2>3 DEF Resting, Drop
        <4> QED BY <1>2, <4>1 DEF Unsaved
      <3>2. task[p] = "tick" /\ Holds(p) /\ ~Resets(p, r)
        BY <2>3 DEF Ticking, Resets
      <3>3. Settled(r, mem[p].rule[r], ledger[r])
        BY <2>1, <3>1, <3>2 DEF OutcomeInv, CopySettled, Tells
      <3>4. ledger'[r] = ledger[r]
        <4>1. CASE p \in Daemons /\ (Attempt(p) \/ Accepted(p) \/ Failed(p))
          BY <1>0, <3>1, <4>1 DEF Attempt, Accepted, Failed, TypeOK
        <4> QED BY <1>0, <2>2, <3>2, <4>1, VisibleSteps
      <3> QED BY <3>1, <3>3, <3>4
    <2>4. CASE ~(p \in Daemons /\ Ticking(p))
      <3>1. Resting
        <4>1. ASSUME NEW d \in Daemons, Ticking(d)
              PROVE  FALSE
          <5>1. d \in Procs \ {p}
            BY <2>4, <4>1 DEF Procs
          <5>2. Keeps(d)
            BY <1>0, <5>1, StepKeepsOthers
          <5> QED BY <4>1, <5>2 DEF Keeps, Ticking, Holds, Resting
        <4> QED BY <4>1 DEF Resting
      <3>2. Settled(r, disk.rule[r], ledger[r])
        BY <2>1, <3>1 DEF OutcomeInv, FileSettled
      <3>3. CASE disk' = disk /\ ledger' = ledger
        BY <3>2, <3>3
      <3>4. CASE p \in Daemons /\ (Attempt(p) \/ Accepted(p) \/ Failed(p))
        BY <1>0, <2>4, <3>4 DEF Attempt, Accepted, Failed, Ticking, Holds, Roles
      <3>5. CASE pc[p] = "write" /\ Replace(p)
        <4>1. Holds(p) /\ task[p] # "tick"
          BY <1>0, <2>4, <3>5 DEF Holds, Ticking, Roles, Procs, CommandNames
        <4>2. Settled(r, mem[p].rule[r], IF Resets(p, r) THEN "none" ELSE ledger[r])
          BY <2>1, <4>1 DEF OutcomeInv, CopySettled, Tells
        <4> QED BY <2>2, <3>5, <4>2
      <3> QED BY <1>0, <3>3, <3>4, <3>5, VisibleSteps
    <2> QED BY <2>3, <2>4
  <1> QED BY <1>1, <1>2

-----------------------------------------------------------------------------
LEMMA OutcomeInvStep == OutcomeInv /\ [Next /\ Serial' /\ Drop]_history => OutcomeInv'
  <1>1. ASSUME OutcomeInv, Next, Serial', Drop
        PROVE  OutcomeInv'
    <2> PICK p \in Procs : StepOf(p)
      BY <1>1, StepsHaveOwners
    <2>1. TypeOK /\ SerialInv /\ Serial
      BY <1>1, LifeFacts DEF OutcomeInv, SerialInv
    <2>2. LifeInv'
      BY <1>1, LifeInvStep DEF OutcomeInv
    <2>3. ArmedSettled'
      BY <2>2, ArmedIsSettled, PTL
    <2>4. Resting' => FileSettled'
      BY <1>1, <2>3, FileStaysSettled
    <2>5. DroppedInv'
      BY <1>1, DroppedStep
    <2>6. ASSUME NEW q \in Procs, Holds(q)'
          PROVE  CopySettled(q)' /\ Untouched(q)'
      <3>1. CASE q = p
        BY <1>1, <2>6, <3>1, StaysSettled, StaysUntouched
      <3>2. CASE q # p
        <4>1. Keeps(q)
          BY <2>1, <3>2, StepKeepsOthers
        <4>2. Holds(q) /\ ~Holds(p) /\ ~(Holds(p)')
          BY <1>1, <2>1, <2>6, <3>2, <4>1 DEF Holds, Keeps, Serial
        <4>3. disk' = disk /\ ledger' = ledger
          BY <2>1, <4>2, IdleStep
        <4>4. \A r : r \in dropped' <=> r \in dropped
          <5>1. ASSUME NEW r \in dropped'
                PROVE  r \in dropped
            BY <1>1, <4>2, <5>1, DropsOf DEF Ticking
          <5>2. ASSUME NEW r \in dropped, r \notin dropped'
                PROVE  FALSE
            BY <1>1, <4>3, <5>2, UndroppedOf, StagesOf DEF OutcomeInv, DroppedInv
          <5> QED BY <5>1, <5>2
        <4>5. CopySettled(q) /\ Untouched(q)
          BY <1>1, <4>2 DEF OutcomeInv
        <4>6. CopySettled(q)'
          BY <4>1, <4>3, <4>4, <4>5 DEF CopySettled, Tells, Resets, Keeps
        <4>7. Untouched(q)'
          BY <4>1, <4>3, <4>4, <4>5 DEF Untouched, Keeps
        <4> QED BY <4>6, <4>7
      <3> QED BY <3>1, <3>2
    <2> QED BY <2>2, <2>4, <2>5, <2>6 DEF OutcomeInv
  <1>2. ASSUME OutcomeInv, UNCHANGED history
        PROVE  OutcomeInv'
    <2>1. UNCHANGED vars /\ dropped' = dropped /\ UNCHANGED local
      BY <1>2 DEF history, vars
    <2>2. LifeInv'
      BY <1>2, <2>1, LifeInvStep DEF OutcomeInv
    <2>3. disk' = disk /\ ledger' = ledger /\ UNCHANGED <<pc, task, mem, cur>>
      BY <2>1 DEF vars, local
    <2>4. (Resting' => FileSettled') /\ DroppedInv'
      BY <1>2, <2>1, <2>3 DEF OutcomeInv, Resting, Ticking, Holds, FileSettled, DroppedInv
    <2>5. ASSUME NEW q \in Procs, Holds(q)'
          PROVE  CopySettled(q)' /\ Untouched(q)'
      <3>1. CopySettled(q) /\ Untouched(q)
        BY <1>2, <2>3, <2>5 DEF OutcomeInv, Holds
      <3>2. CopySettled(q)'
        BY <2>1, <2>3, <3>1 DEF CopySettled, Tells, Resets
      <3>3. Untouched(q)'
        BY <2>1, <2>3, <3>1 DEF Untouched
      <3> QED BY <3>2, <3>3
    <2> QED BY <2>2, <2>4, <2>5 DEF OutcomeInv
  <1> QED BY <1>1, <1>2

LEMMA OutcomeInvHolds == OutcomeSpec => []OutcomeInv
  <1>1. Init /\ dropped = {} => OutcomeInv
    <2> SUFFICES ASSUME Init, dropped = {}
                 PROVE  OutcomeInv
      OBVIOUS
    <2>1. LifeInv
      BY LifeStarts
    <2>2. ArmedSettled
      BY <2>1, ArmedIsSettled
    <2>3. \A r \in Rules : ~disk.rule[r].triggered
      BY DEF Init, EmptyState
    <2>4. \A p \in Procs : ~Holds(p)
      BY DEF Init, Holds
    <2> QED BY <2>1, <2>2, <2>3, <2>4 DEF OutcomeInv, FileSettled, ArmedSettled, DroppedInv
  <1> QED BY <1>1, OutcomeInvStep, PTL DEF OutcomeSpec

-----------------------------------------------------------------------------
(* The theorems. *)

\* Between ticks, the rules that are left triggered without an outcome are those
\* whose exit a tick had in hand, or had settled since its last save, when it was
\* cut short, and no others.
THEOREM WedgeTheorem == OutcomeSpec => []WedgedMeansDropped
  <1>1. ASSUME OutcomeInv, Resting, NEW r \in AutoSubmit
        PROVE  disk.rule[r].triggered /\ disk.rule[r].live = "canary_pending" <=> r \in dropped
    <2>1. r \in Rules
      BY AutoSubmitAssumption
    <2>2. Honest(disk) /\ disk.rule[r] \in RuleState
      BY <1>1, <2>1 DEF OutcomeInv, LifeInv, SerialInv, SpentInv, TypeInv, TypeOK, Snapshot
    <2>3. CASE r \in dropped
      <3>1. StageOf(disk.rule[r]) = "spent"
        BY <1>1, <2>3 DEF OutcomeInv, DroppedInv
      <3>2. disk.rule[r].live # "dry_run"
        BY <2>1, <2>2 DEF Honest
      <3> QED BY <2>2, <2>3, <3>1, <3>2 DEF StageOf, RuleState, LiveStatus
    <2>4. CASE r \notin dropped
      BY <1>1, <2>1, <2>4 DEF OutcomeInv, FileSettled, Settled
    <2> QED BY <2>3, <2>4
  <1>2. OutcomeInv => WedgedMeansDropped
    BY <1>1 DEF WedgedMeansDropped
  <1> QED BY <1>2, OutcomeInvHolds, PTL

\* Between ticks, the file says of every exit that was sent and not dropped what
\* the exchange said of it.
THEOREM RecordedTheorem == OutcomeSpec => []RecordedOrDropped
  <1>1. OutcomeInv => RecordedOrDropped
    BY DEF OutcomeInv, FileSettled, Settled, RecordedOrDropped
  <1> QED BY <1>1, OutcomeInvHolds, PTL
=============================================================================
