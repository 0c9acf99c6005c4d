---------------------------- MODULE DaemonProofs ----------------------------
(* Theorems about Daemon, for every set of rules, daemons and operators. *)
EXTENDS Daemon, TLAPS

-----------------------------------------------------------------------------
(* Typing. *)

LEMMA WithLiveIsTyped ==
  ASSUME NEW s \in Snapshot, NEW r \in Rules, NEW l \in LiveStatus
  PROVE  WithLive(s, r, l) \in Snapshot
  BY DEF WithLive, Snapshot, RuleState

\* Every change a function makes to a snapshot gives a snapshot.
LEMMA ChangesAreTyped ==
  ASSUME NEW s \in Snapshot, NEW latest \in Snapshot, NEW r \in Rules, NEW k \in BOOLEAN
  PROVE  /\ Created(s, r) \in Snapshot
         /\ Disabled(s, r) \in Snapshot
         /\ Promoted(s, r) \in Snapshot
         /\ KillSet(s, k) \in Snapshot
         /\ KillMerged(s, latest) \in Snapshot
         /\ Triggered(s, r) \in Snapshot
         /\ Rearmed(s, r) \in Snapshot
         /\ LiveSuccess(s, r) \in Snapshot
         /\ ManualReview(s, r) \in Snapshot
         /\ Reset(s, r) \in Snapshot
  <1>1. Created(s, r) \in Snapshot
    BY DEF Created, InitialLive, Snapshot, RuleState, RuleStatus, LiveStatus
  <1>2. Disabled(s, r) \in Snapshot
    BY DEF Disabled, Snapshot, RuleState, RuleStatus
  <1>3. KillSet(s, k) \in Snapshot /\ KillMerged(s, latest) \in Snapshot
    BY DEF KillSet, KillMerged, Snapshot
  <1>4. Triggered(s, r) \in Snapshot /\ Rearmed(s, r) \in Snapshot
    BY DEF Triggered, Rearmed, Snapshot, RuleState
  <1>5. Promoted(s, r) \in Snapshot
    BY WithLiveIsTyped DEF Promoted, LiveStatus
  <1>6. LiveSuccess(s, r) \in Snapshot
    BY WithLiveIsTyped DEF LiveSuccess, LiveStatus
  <1>7. ManualReview(s, r) \in Snapshot
    BY WithLiveIsTyped DEF ManualReview, LiveStatus
  <1>8. Reset(s, r) \in Snapshot
    BY <1>4, WithLiveIsTyped DEF Reset, LiveStatus
  <1> QED BY <1>1, <1>2, <1>3, <1>4, <1>5, <1>6, <1>7, <1>8

LEMMA EmptyIsTyped == EmptyState \in Snapshot
  BY DEF EmptyState, Snapshot, RuleState, RuleStatus, LiveStatus, InitialLive

LEMMA SwitchIsTyped ==
  ASSUME TypeOK, NEW p \in Procs, NEW l \in Labels, NEW t \in Tasks, Switch(p, l, t)
  PROVE  /\ pc' \in [Procs -> Labels]
         /\ task' \in [Procs -> Tasks]
         /\ mem' \in [Procs -> Snapshot]
         /\ cur' \in [Procs -> Rules \cup {NoRule}]
         /\ todo' \in [Procs -> SUBSET Rules]
  BY EmptyIsTyped DEF TypeOK, Switch

LEMMA TickFailsIsTyped ==
  ASSUME TypeOK, NEW d \in Daemons, TickFails(d)
  PROVE  /\ pc' \in [Procs -> Labels]
         /\ task' \in [Procs -> Tasks]
         /\ mem' \in [Procs -> Snapshot]
         /\ cur' \in [Procs -> Rules \cup {NoRule}]
         /\ todo' \in [Procs -> SUBSET Rules]
  <1>1. d \in Procs
    BY DEF Procs
  <1>2. CASE Switch(d, "off", "idle")
    BY <1>1, <1>2, SwitchIsTyped DEF Labels, Tasks
  <1>3. CASE Switch(d, "load", "completed")
    BY <1>1, <1>3, SwitchIsTyped DEF Labels, Tasks
  <1>4. CASE Switch(d, "load", "stopped")
    BY <1>1, <1>4, SwitchIsTyped DEF Labels, Tasks
  <1> QED BY <1>2, <1>3, <1>4 DEF EndTick, TickFails, Leave

LEMMA NextRuleIsTyped ==
  ASSUME TypeOK, NEW d \in Daemons, NEW s \in Snapshot, NextRule(d, s)
  PROVE  /\ pc' \in [Procs -> Labels]
         /\ mem' \in [Procs -> Snapshot]
         /\ cur' \in [Procs -> Rules \cup {NoRule}]
  BY DEF TypeOK, NextRule, Labels, Procs

\* The exit whose answer a daemon waits for is an auto_submit rule's.
AnswerIsLive == \A d \in Daemons : pc[d] = "answer" => cur[d] \in AutoSubmit

TypeInv == TypeOK /\ AnswerIsLive

LEMMA DaemonStepIsTyped ==
  ASSUME TypeInv, NEW d \in Daemons, DaemonStep(d)
  PROVE  TypeOK'
  <1>0. TypeOK /\ d \in Procs /\ mem[d] \in Snapshot
    BY DEF TypeInv, TypeOK, Procs
  <1>1. CASE Start(d)
    <2> PICK o \in Launches :
          /\ run' = [run EXCEPT ![d] = WiringOf(o)]
          /\ Switch(d, "load", IF o.once THEN "tick" ELSE "started")
      BY <1>1 DEF Start
    <2>1. WiringOf(o) \in Wiring
      BY DaemonAssumption DEF LaunchOptions, Wiring, WiringOf
    <2>2. (IF o.once THEN "tick" ELSE "started") \in Tasks
      BY DEF Tasks
    <2> QED
      BY <1>0, <1>1, <2>1, <2>2, SwitchIsTyped DEF Start, TypeOK, Labels
  <1>2. CASE Load(d)
    BY <1>0, <1>2 DEF Load, TypeOK, Labels
  <1>3. CASE AccountLoaded(d)
    BY <1>0, <1>3 DEF AccountLoaded, TypeOK, Labels
  <1>4. CASE AccountFails(d)
    BY <1>0, <1>4, TickFailsIsTyped DEF AccountFails, TypeOK
  <1>5. CASE Pass(d)
    BY <1>0, <1>5 DEF Pass, TypeOK
  <1>6. CASE Trigger(d)
    <2> PICK r \in todo[d] :
          /\ mem'  = [mem EXCEPT ![d] = Triggered(mem[d], r)]
          /\ cur'  = [cur EXCEPT ![d] = r]
          /\ todo' = [todo EXCEPT ![d] = @ \ {r}]
          /\ pc'   = [pc EXCEPT ![d] = IF r \in AutoSubmit THEN "merge" ELSE "handle"]
      BY <1>6 DEF Trigger
    <2>1. r \in Rules
      BY <1>0 DEF TypeOK
    <2>2. Triggered(mem[d], r) \in Snapshot
      BY <1>0, <2>1, ChangesAreTyped
    <2> QED BY <1>0, <1>6, <2>1, <2>2 DEF Trigger, TypeOK, Labels
  <1>7. CASE Finish(d)
    BY <1>0, <1>7 DEF Finish, TypeOK, Labels
  <1>8. CASE RecordDryRun(d)
    BY <1>0, <1>8, NextRuleIsTyped DEF RecordDryRun, TypeOK
  <1>9. CASE Block(d)
    <2>1. Rearmed(mem[d], cur[d]) \in Snapshot
      BY <1>0, <1>9, ChangesAreTyped, AutoSubmitAssumption DEF Block
    <2> QED BY <1>0, <1>9, <2>1, NextRuleIsTyped DEF Block, TypeOK
  <1>10. CASE Attempt(d)
    BY <1>0, <1>10, AutoSubmitAssumption DEF Attempt, TypeOK, Labels, Orders
  <1>11. CASE AttemptNotSent(d)
    <2>1. ManualReview(mem[d], cur[d]) \in Snapshot
      BY <1>0, <1>11, ChangesAreTyped, AutoSubmitAssumption DEF AttemptNotSent
    <2> QED BY <1>0, <1>11, <2>1, NextRuleIsTyped DEF AttemptNotSent, TypeOK
  <1>12. CASE Accepted(d)
    <2>1. cur[d] \in Rules
      <3>1. pc[d] = "answer"
        BY <1>12 DEF Accepted
      <3> QED BY <3>1, AutoSubmitAssumption DEF TypeInv, AnswerIsLive
    <2>2. LiveSuccess(mem[d], cur[d]) \in Snapshot
      BY <1>0, <2>1, ChangesAreTyped
    <2> QED BY <1>0, <1>12, <2>1, <2>2, NextRuleIsTyped DEF Accepted, TypeOK, Orders
  <1>13. CASE Failed(d)
    <2>1. cur[d] \in Rules
      <3>1. pc[d] = "answer"
        BY <1>13 DEF Failed
      <3> QED BY <3>1, AutoSubmitAssumption DEF TypeInv, AnswerIsLive
    <2>2. ManualReview(mem[d], cur[d]) \in Snapshot
      BY <1>0, <2>1, ChangesAreTyped
    <2> QED BY <1>0, <1>13, <2>1, <2>2, NextRuleIsTyped DEF Failed, TypeOK, Orders
  <1>14. CASE Raise(d)
    BY <1>0, <1>14, TickFailsIsTyped DEF Raise, TypeOK
  <1>15. CASE Wake(d)
    BY <1>0, <1>15, SwitchIsTyped DEF Wake, TypeOK, Labels, Tasks
  <1>16. CASE Stop(d)
    BY <1>0, <1>16, SwitchIsTyped DEF Stop, TypeOK, Labels, Tasks
  <1>17. CASE Interrupt(d)
    <2>1. CASE Switch(d, "load", "stopped")
      BY <1>0, <1>17, <2>1, SwitchIsTyped DEF Interrupt, TypeOK, Labels, Tasks
    <2>2. CASE Switch(d, "off", "idle")
      BY <1>0, <1>17, <2>2, SwitchIsTyped DEF Interrupt, TypeOK, Labels, Tasks
    <2> QED BY <1>17, <2>1, <2>2 DEF Interrupt, Leave
  <1> QED
    BY <1>1, <1>2, <1>3, <1>4, <1>5, <1>6, <1>7, <1>8, <1>9, <1>10, <1>11, <1>12,
       <1>13, <1>14, <1>15, <1>16, <1>17 DEF DaemonStep

LEMMA OperatorStepIsTyped ==
  ASSUME TypeOK, NEW p \in Operators, OperatorStep(p)
  PROVE  TypeOK'
  <1>0. p \in Procs /\ disk \in Snapshot /\ \A r \in Rules : r \in Rules \cup {NoRule}
    BY DEF TypeOK, Procs
  <1>1. ASSUME NEW name, NEW r \in Rules \cup {NoRule}, NEW l \in Labels, NEW s \in Snapshot,
               Command(p, name, r, l, s), created' \subseteq Rules
        PROVE  TypeOK'
    <2>1. name \in Tasks
      BY <1>1, DaemonAssumption DEF Command, Tasks
    <2> QED BY <1>0, <1>1, <2>1 DEF Command, TypeOK
  <1>2. "write" \in Labels /\ "merge" \in Labels /\ created \subseteq Rules
    BY DEF Labels, TypeOK
  <1>3. CASE InitState(p)
    BY <1>0, <1>1, <1>2, <1>3 DEF InitState
  <1>4. CASE Create(p)
    <2> PICK r \in Rules \ created :
          Command(p, "create", r, "write", Created(disk, r)) /\ created' = created \cup {r}
      BY <1>4 DEF Create
    <2> QED BY <1>0, <1>1, <1>2, ChangesAreTyped
  <1>5. CASE Disable(p)
    <2> PICK r \in Rules :
          Command(p, "disable", r, "write", Disabled(disk, r)) /\ UNCHANGED created
      BY <1>5 DEF Disable
    <2> QED BY <1>0, <1>1, <1>2, ChangesAreTyped
  <1>6. CASE Promote(p)
    <2> PICK r \in Rules :
          Command(p, "promote", r, "write", Promoted(disk, r)) /\ UNCHANGED created
      BY <1>6 DEF Promote
    <2> QED BY <1>0, <1>1, <1>2, ChangesAreTyped
  <1>7. CASE ResetTriggered(p)
    <2> PICK r \in Rules :
          Command(p, "reset", r, "merge", Reset(disk, r)) /\ UNCHANGED created
      BY <1>7 DEF ResetTriggered
    <2> QED BY <1>0, <1>1, <1>2, ChangesAreTyped
  <1>8. CASE KillOn(p)
    <2>1. KillSet(disk, TRUE) \in Snapshot
      BY <1>0 DEF KillSet, Snapshot
    <2> QED BY <1>1, <1>2, <1>8, <2>1 DEF KillOn
  <1>9. CASE KillOff(p)
    <2>1. KillSet(disk, FALSE) \in Snapshot
      BY <1>0 DEF KillSet, Snapshot
    <2> QED BY <1>1, <1>2, <1>9, <2>1 DEF KillOff
  <1> QED
    BY <1>3, <1>4, <1>5, <1>6, <1>7, <1>8, <1>9 DEF OperatorStep

\* Where a process goes after a save, whether or not the save raised.
LEMMA AfterSaveIsTyped ==
  ASSUME TypeOK, NEW p \in Procs, AfterSave(p) \/ AfterFailedSave(p)
  PROVE  /\ pc' \in [Procs -> Labels]
         /\ task' \in [Procs -> Tasks]
         /\ mem' \in [Procs -> Snapshot]
         /\ cur' \in [Procs -> Rules \cup {NoRule}]
         /\ todo' \in [Procs -> SUBSET Rules]
  <1>1. ASSUME NEW l \in Labels, NEW t \in Tasks, Switch(p, l, t)
        PROVE  /\ pc' \in [Procs -> Labels]
               /\ task' \in [Procs -> Tasks]
               /\ mem' \in [Procs -> Snapshot]
               /\ cur' \in [Procs -> Rules \cup {NoRule}]
               /\ todo' \in [Procs -> SUBSET Rules]
    BY <1>1, SwitchIsTyped
  <1>2. CASE \E l \in Labels, t \in Tasks : Switch(p, l, t)
    BY <1>1, <1>2
  <1>3. CASE pc' = [pc EXCEPT ![p] = "handle"] /\ UNCHANGED <<task, mem, cur, todo>>
    BY <1>3 DEF TypeOK, Labels
  <1>4. {"load", "sleep", "off"} \subseteq Labels
        /\ {"tick", "idle", "completed", "stopped"} \subseteq Tasks
    BY DEF Labels, Tasks
  <1> QED
    BY <1>2, <1>3, <1>4 DEF AfterSave, AfterFailedSave, EndTick, TickFails, Leave

LEMMA SharedStepIsTyped ==
  ASSUME TypeOK, NEW p \in Procs, SharedStep(p)
  PROVE  TypeOK'
  <1>1. CASE Merge(p)
    <2>1. KillMerged(mem[p], disk) \in Snapshot
      BY DEF TypeOK, KillMerged, Snapshot
    <2> QED BY <1>1, <2>1 DEF Merge, TypeOK, Labels
  <1>2. ASSUME Replace(p)
        PROVE  disk' \in Snapshot /\ overrun' \subseteq Daemons /\ ledger' \in [Rules -> Orders]
    BY <1>2 DEF Replace, TypeOK, Orders
  <1>3. CASE Save(p)
    BY <1>2, <1>3, AfterSaveIsTyped DEF Save, TypeOK
  <1>4. CASE SaveFails(p)
    BY <1>2, <1>4, AfterSaveIsTyped DEF SaveFails, TypeOK
  <1>5. CASE Crash(p)
    BY <1>5, SwitchIsTyped DEF Crash, Leave, TypeOK, Labels, Tasks
  <1> QED BY <1>1, <1>3, <1>4, <1>5 DEF SharedStep

-----------------------------------------------------------------------------
(* A step is one process's, and leaves the others where they are. *)

StepOf(p) == \/ p \in Daemons /\ DaemonStep(p)
             \/ p \in Operators /\ OperatorStep(p)
             \/ SharedStep(p)

Keeps(q) == /\ pc'[q] = pc[q]
            /\ task'[q] = task[q]
            /\ mem'[q] = mem[q]
            /\ cur'[q] = cur[q]

LEMMA StepsHaveOwners ==
  ASSUME Next
  PROVE  \E p \in Procs : StepOf(p)
  BY DEF Next, Procs, StepOf

LEMMA SwitchKeepsOthers ==
  ASSUME TypeOK, NEW p \in Procs, NEW l, NEW t, Switch(p, l, t), NEW q \in Procs \ {p}
  PROVE  Keeps(q)
  BY DEF Switch, TypeOK, Keeps

LEMMA DaemonKeepsOthers ==
  ASSUME TypeOK, NEW d \in Daemons, DaemonStep(d), NEW q \in Procs \ {d}
  PROVE  Keeps(q)
  <1>0. d \in Procs
    BY DEF Procs
  <1>1. CASE \E l, t : Switch(d, l, t)
    BY <1>0, <1>1, SwitchKeepsOthers
  <1>2. CASE Load(d) \/ AccountLoaded(d) \/ Pass(d) \/ Trigger(d) \/ Finish(d) \/ Attempt(d)
    BY <1>0, <1>2 DEF Load, AccountLoaded, Pass, Trigger, Finish, Attempt, TypeOK, Keeps
  <1>3. CASE \E s : NextRule(d, s) /\ UNCHANGED task
    BY <1>0, <1>3 DEF NextRule, TypeOK, Keeps
  <1>4. CASE Start(d) \/ Wake(d) \/ Stop(d) \/ Interrupt(d)
    BY <1>1, <1>4 DEF Start, Wake, Stop, Interrupt, Leave
  <1>5. CASE AccountFails(d) \/ Raise(d)
    BY <1>1, <1>5 DEF AccountFails, Raise, EndTick, TickFails, Leave
  <1>6. CASE RecordDryRun(d) \/ Block(d) \/ AttemptNotSent(d) \/ Accepted(d) \/ Failed(d)
    BY <1>3, <1>6 DEF RecordDryRun, Block, AttemptNotSent, Accepted, Failed
  <1> QED BY <1>2, <1>4, <1>5, <1>6 DEF DaemonStep

LEMMA OperatorKeepsOthers ==
  ASSUME TypeOK, NEW p \in Operators, OperatorStep(p), NEW q \in Procs \ {p}
  PROVE  Keeps(q)
  <1>0. p \in Procs
    BY DEF Procs
  <1>1. \E name, r, l, s : Command(p, name, r, l, s)
    BY DEF OperatorStep, InitState, Create, Disable, Promote, ResetTriggered, KillOn, KillOff
  <1> QED BY <1>0, <1>1 DEF Command, TypeOK, Keeps

LEMMA SharedKeepsOthers ==
  ASSUME TypeOK, NEW p \in Procs, SharedStep(p), NEW q \in Procs \ {p}
  PROVE  Keeps(q)
  <1>1. CASE \E l, t : Switch(p, l, t)
    BY <1>1, SwitchKeepsOthers
  <1>2. CASE Merge(p)
    BY <1>2 DEF Merge, TypeOK, Keeps
  <1>3. CASE pc' = [pc EXCEPT ![p] = "handle"] /\ UNCHANGED <<task, mem, cur, todo>>
    BY <1>3 DEF TypeOK, Keeps
  <1>4. CASE Save(p) \/ SaveFails(p)
    BY <1>1, <1>3, <1>4 DEF Save, SaveFails, AfterSave, AfterFailedSave, EndTick, TickFails, Leave
  <1>5. CASE Crash(p)
    BY <1>1, <1>5 DEF Crash, Leave
  <1> QED BY <1>2, <1>4, <1>5 DEF SharedStep

LEMMA StepKeepsOthers ==
  ASSUME TypeOK, NEW p \in Procs, StepOf(p), NEW q \in Procs \ {p}
  PROVE  Keeps(q)
  BY DaemonKeepsOthers, OperatorKeepsOthers, SharedKeepsOthers DEF StepOf

-----------------------------------------------------------------------------
(* Type correctness. *)

\* The exchange's answer is awaited after an attempt only.
LEMMA AnswerByAttempt ==
  ASSUME TypeOK, NEW d \in Daemons, StepOf(d), pc'[d] = "answer"
  PROVE  Attempt(d)
  <1>0. d \in Procs
    BY DEF Procs
  <1>1. \A l, t : Switch(d, l, t) => l = "answer"
    BY <1>0 DEF Switch, TypeOK
  <1>2. \A s : ~NextRule(d, s)
    BY <1>0 DEF NextRule, TypeOK
  <1>3. ~SharedStep(d)
    BY <1>0, <1>1
       DEF SharedStep, Merge, Save, SaveFails, AfterSave, AfterFailedSave, EndTick, TickFails,
           Crash, Leave, TypeOK
  <1>4. ~Start(d) /\ ~Wake(d) /\ ~Stop(d) /\ ~Interrupt(d) /\ ~AccountFails(d) /\ ~Raise(d)
    BY <1>1 DEF Start, Wake, Stop, Interrupt, AccountFails, Raise, EndTick, TickFails, Leave
  <1>5. ~RecordDryRun(d) /\ ~Block(d) /\ ~AttemptNotSent(d) /\ ~Accepted(d) /\ ~Failed(d)
    BY <1>2 DEF RecordDryRun, Block, AttemptNotSent, Accepted, Failed
  <1>6. ~Load(d) /\ ~AccountLoaded(d) /\ ~Pass(d) /\ ~Trigger(d) /\ ~Finish(d)
    BY <1>0 DEF Load, AccountLoaded, Pass, Trigger, Finish, TypeOK
  <1> QED BY <1>3, <1>4, <1>5, <1>6, DaemonAssumption DEF StepOf, DaemonStep

LEMMA AnswerIsLiveStep ==
  ASSUME TypeInv, NEW p \in Procs, StepOf(p)
  PROVE  AnswerIsLive'
  <1>0. TypeOK
    BY DEF TypeInv
  <1> SUFFICES ASSUME NEW d \in Daemons, pc'[d] = "answer"
               PROVE  cur'[d] \in AutoSubmit
    BY DEF AnswerIsLive
  <1>1. CASE d # p
    BY <1>0, <1>1, StepKeepsOthers DEF TypeInv, AnswerIsLive, Keeps, Procs
  <1>2. CASE d = p
    BY <1>0, <1>2, AnswerByAttempt DEF Attempt
  <1> QED BY <1>1, <1>2

LEMMA TypeInvStep == TypeInv /\ [Next]_vars => TypeInv'
  <1>1. ASSUME TypeInv, Next
        PROVE  TypeInv'
    <2> PICK p \in Procs : StepOf(p)
      BY <1>1, StepsHaveOwners
    <2>1. TypeOK'
      BY <1>1, DaemonStepIsTyped, OperatorStepIsTyped, SharedStepIsTyped DEF StepOf, TypeInv
    <2> QED BY <1>1, <2>1, AnswerIsLiveStep DEF TypeInv
  <1>2. ASSUME TypeInv, UNCHANGED vars
        PROVE  TypeInv'
    BY <1>2 DEF TypeInv, TypeOK, AnswerIsLive, vars, local
  <1> QED BY <1>1, <1>2

LEMMA InitTypeInv == Init => TypeInv
  BY EmptyIsTyped, DaemonAssumption, AutoSubmitAssumption
     DEF Init, TypeInv, TypeOK, AnswerIsLive, Orders, Labels, Tasks, Wiring, Unstarted, Procs

LEMMA TypeInvHolds == Spec => []TypeInv
  BY InitTypeInv, TypeInvStep, PTL DEF Spec

\* Every variable keeps its type.
THEOREM TypeCorrect == Spec => []TypeOK
  <1>1. TypeInv => TypeOK
    BY DEF TypeInv
  <1> QED BY <1>1, TypeInvHolds, PTL

-----------------------------------------------------------------------------
(* A succeeded canary keeps its trigger spent.                             *)
(*                                                                         *)
(* SpentAfterCanary alone is not inductive: a blocked exit is re-armed, so *)
(* one must know that a rule whose exit is being handled had not succeeded *)
(* before, and a reset clears the trigger of a dry_run rule without        *)
(* touching its live status, so one must know that status is dry_run.      *)

Honest(s) == \A r \in Rules :
  /\ s.rule[r].live \in {"canary_succeeded", "normal_live"} => s.rule[r].triggered
  /\ s.rule[r].live = "dry_run" <=> r \notin AutoSubmit

\* A daemon handles a rule that has just triggered in its own copy.
HandlesFresh(d) == cur[d] # NoRule =>
  /\ pc[d] \in {"merge", "write", "handle", "answer"}
  /\ mem[d].rule[cur[d]].triggered
  /\ mem[d].rule[cur[d]].live \notin {"canary_succeeded", "normal_live"}

SpentInv == /\ TypeInv
            /\ Honest(disk)
            /\ \A p \in Procs : Honest(mem[p])
            /\ \A d \in Daemons : HandlesFresh(d)

LEMMA EmptyIsHonest == Honest(EmptyState)
  BY DEF Honest, EmptyState, InitialLive

LEMMA LiveOf ==
  ASSUME NEW s \in Snapshot, NEW r \in Rules, NEW l, NEW x \in Rules
  PROVE  /\ WithLive(s, r, l).rule[x].live = IF x = r THEN l ELSE s.rule[x].live
         /\ WithLive(s, r, l).rule[x].triggered = s.rule[x].triggered
  BY DEF WithLive, Snapshot, RuleState

LEMMA RearmedRule ==
  ASSUME NEW s \in Snapshot, NEW r \in Rules, NEW x \in Rules
  PROVE  /\ Rearmed(s, r).rule[x].live = s.rule[x].live
         /\ Rearmed(s, r).rule[x].triggered = IF x = r THEN FALSE ELSE s.rule[x].triggered
  BY DEF Rearmed, Snapshot, RuleState

\* The changes that keep a snapshot honest whatever the rule.
LEMMA CommandsAreHonest ==
  ASSUME NEW s \in Snapshot, Honest(s), NEW r \in Rules, NEW k, NEW latest \in Snapshot
  PROVE  /\ Created(s, r).rule[r].live = InitialLive(r)
         /\ Honest(Created(s, r))
         /\ Honest(Disabled(s, r))
         /\ Honest(KillSet(s, k))
         /\ Honest(KillMerged(s, latest))
         /\ Honest(Triggered(s, r))
         /\ Honest(ManualReview(s, r))
         /\ Honest(Reset(s, r))
  <1>1. Created(s, r).rule[r].live = InitialLive(r) /\ Honest(Created(s, r))
    BY DEF Created, Honest, InitialLive, Snapshot, RuleState
  <1>2. Honest(Disabled(s, r))
    BY DEF Disabled, Honest, Snapshot, RuleState
  <1>3. Honest(KillSet(s, k)) /\ Honest(KillMerged(s, latest))
    BY DEF KillSet, KillMerged, Honest, Snapshot
  <1>4. Honest(Triggered(s, r))
    BY DEF Triggered, Honest, Snapshot, RuleState
  <1>5. Honest(ManualReview(s, r))
    BY LiveOf DEF ManualReview, Honest
  <1>6. Rearmed(s, r) \in Snapshot
    BY DEF Rearmed, Snapshot, RuleState
  <1>7. Honest(Reset(s, r))
    <2> SUFFICES ASSUME NEW x \in Rules
                 PROVE  /\ Reset(s, r).rule[x].live \in {"canary_succeeded", "normal_live"}
                             => Reset(s, r).rule[x].triggered
                        /\ Reset(s, r).rule[x].live = "dry_run" <=> x \notin AutoSubmit
      BY DEF Honest
    <2> DEFINE t == Rearmed(s, r)
    <2>1. /\ t.rule[x].live = s.rule[x].live
          /\ t.rule[x].triggered = IF x = r THEN FALSE ELSE s.rule[x].triggered
      BY RearmedRule
    <2>2. CASE r \in AutoSubmit
      <3>1. /\ WithLive(t, r, "canary_pending").rule[x].live
                  = IF x = r THEN "canary_pending" ELSE t.rule[x].live
            /\ WithLive(t, r, "canary_pending").rule[x].triggered = t.rule[x].triggered
        BY <1>6, LiveOf
      <3> QED BY <2>1, <2>2, <3>1 DEF Reset, Honest
    <2>3. CASE r \notin AutoSubmit
      BY <2>1, <2>3 DEF Reset, Honest
    <2> QED BY <2>2, <2>3
  <1> QED BY <1>1, <1>2, <1>3, <1>4, <1>5, <1>7

\* The changes that need to know the rule they are made to.
LEMMA OutcomesAreHonest ==
  ASSUME NEW s \in Snapshot, Honest(s), NEW r \in Rules
  PROVE  /\ s.rule[r].live = "canary_succeeded" => Honest(Promoted(s, r))
         /\ s.rule[r].live \notin {"canary_succeeded", "normal_live"} => Honest(Rearmed(s, r))
         /\ s.rule[r].triggered => Honest(LiveSuccess(s, r))
  <1>1. s.rule[r].live = "canary_succeeded" => Honest(Promoted(s, r))
    BY LiveOf DEF Promoted, Honest
  <1>2. s.rule[r].live \notin {"canary_succeeded", "normal_live"} => Honest(Rearmed(s, r))
    <2> SUFFICES ASSUME s.rule[r].live \notin {"canary_succeeded", "normal_live"},
                        NEW x \in Rules
                 PROVE  /\ Rearmed(s, r).rule[x].live \in {"canary_succeeded", "normal_live"}
                             => Rearmed(s, r).rule[x].triggered
                        /\ Rearmed(s, r).rule[x].live = "dry_run" <=> x \notin AutoSubmit
      BY DEF Honest
    <2>1. /\ Rearmed(s, r).rule[x].live = s.rule[x].live
          /\ Rearmed(s, r).rule[x].triggered = IF x = r THEN FALSE ELSE s.rule[x].triggered
      BY RearmedRule
    <2> QED BY <2>1 DEF Honest
  <1>3. s.rule[r].triggered => Honest(LiveSuccess(s, r))
    BY LiveOf DEF LiveSuccess, Honest
  <1> QED BY <1>1, <1>2, <1>3

\* A process that goes on with another job holds nothing.
LEMMA SwitchIsHonest ==
  ASSUME TypeOK, NEW p \in Procs, NEW l, NEW t, Switch(p, l, t)
  PROVE  Honest(mem'[p]) /\ cur'[p] = NoRule
  BY EmptyIsHonest DEF Switch, TypeOK

LEMMA DaemonIsHonest ==
  ASSUME SpentInv, NEW d \in Daemons, DaemonStep(d)
  PROVE  disk' = disk /\ Honest(mem'[d]) /\ HandlesFresh(d)'
  <1>0. /\ TypeOK /\ d \in Procs /\ mem[d] \in Snapshot /\ disk \in Snapshot
        /\ Honest(disk) /\ Honest(mem[d]) /\ HandlesFresh(d) /\ NoRule \notin Rules
    BY DaemonAssumption DEF SpentInv, TypeInv, TypeOK, Procs
  <1>1. disk' = disk
    BY DEF DaemonStep, Start, Load, AccountLoaded, AccountFails, Pass, Trigger, Finish,
           RecordDryRun, Block, Attempt, AttemptNotSent, Accepted, Failed, Raise, Wake,
           Stop, Interrupt
  <1>2. CASE \E l, t : Switch(d, l, t)
    BY <1>0, <1>1, <1>2, SwitchIsHonest DEF HandlesFresh
  <1>3. ASSUME NEW s, Honest(s), NextRule(d, s)
        PROVE  Honest(mem'[d]) /\ HandlesFresh(d)'
    BY <1>0, <1>3 DEF NextRule, HandlesFresh, TypeOK
  <1>4. CASE Load(d) \/ AccountLoaded(d) \/ Pass(d) \/ Finish(d)
    <2>1. cur[d] = NoRule /\ cur' = cur
      BY <1>0, <1>4 DEF HandlesFresh, Load, AccountLoaded, Pass, Finish
    <2>2. Honest(mem'[d])
      BY <1>0, <1>4 DEF Load, AccountLoaded, Pass, Finish, TypeOK
    <2> QED BY <1>1, <2>1, <2>2 DEF HandlesFresh
  <1>5. CASE Trigger(d)
    <2> PICK r \in todo[d] :
          /\ ~mem[d].rule[r].triggered
          /\ mem' = [mem EXCEPT ![d] = Triggered(mem[d], r)]
          /\ cur' = [cur EXCEPT ![d] = r]
          /\ pc'  = [pc EXCEPT ![d] = IF r \in AutoSubmit THEN "merge" ELSE "handle"]
      BY <1>5 DEF Trigger
    <2>1. r \in Rules
      BY <1>0 DEF TypeOK
    <2>2. mem'[d] = Triggered(mem[d], r) /\ cur'[d] = r /\ pc'[d] \in {"merge", "handle"}
      BY <1>0 DEF TypeOK
    <2>3. Honest(Triggered(mem[d], r))
      BY <1>0, <2>1, CommandsAreHonest
    <2>4. /\ Triggered(mem[d], r).rule[r].triggered
          /\ Triggered(mem[d], r).rule[r].live = mem[d].rule[r].live
      BY <1>0, <2>1 DEF Triggered, Snapshot, RuleState
    <2>5. mem[d].rule[r].live \notin {"canary_succeeded", "normal_live"}
      BY <1>0, <2>1 DEF Honest
    <2> QED BY <1>1, <2>2, <2>3, <2>4, <2>5 DEF HandlesFresh
  <1>6. CASE RecordDryRun(d)
    BY <1>0, <1>1, <1>3, <1>6 DEF RecordDryRun
  <1>7. cur[d] \in AutoSubmit => cur[d] \in Rules /\ cur[d] # NoRule
    BY <1>0, AutoSubmitAssumption
  <1>8. CASE Block(d)
    <2>1. Honest(Rearmed(mem[d], cur[d]))
      BY <1>0, <1>7, <1>8, OutcomesAreHonest DEF Block, HandlesFresh
    <2> QED BY <1>1, <1>3, <1>8, <2>1 DEF Block
  <1>9. CASE Attempt(d)
    BY <1>0, <1>1, <1>9 DEF Attempt, HandlesFresh, TypeOK
  <1>10. CASE AttemptNotSent(d)
    <2>1. Honest(ManualReview(mem[d], cur[d]))
      BY <1>0, <1>7, <1>10, CommandsAreHonest DEF AttemptNotSent
    <2> QED BY <1>1, <1>3, <1>10, <2>1 DEF AttemptNotSent
  <1>11. pc[d] = "answer" => cur[d] \in AutoSubmit
    BY DEF SpentInv, TypeInv, AnswerIsLive
  <1>12. CASE Accepted(d)
    <2>1. Honest(LiveSuccess(mem[d], cur[d]))
      BY <1>0, <1>7, <1>11, <1>12, OutcomesAreHonest DEF Accepted, HandlesFresh
    <2> QED BY <1>1, <1>3, <1>12, <2>1 DEF Accepted
  <1>13. CASE Failed(d)
    <2>1. Honest(ManualReview(mem[d], cur[d]))
      BY <1>0, <1>7, <1>11, <1>13, CommandsAreHonest DEF Failed
    <2> QED BY <1>1, <1>3, <1>13, <2>1 DEF Failed
  <1>14. CASE Start(d) \/ Wake(d) \/ Stop(d) \/ Interrupt(d)
    BY <1>2, <1>14 DEF Start, Wake, Stop, Interrupt, Leave
  <1>15. CASE AccountFails(d) \/ Raise(d)
    BY <1>2, <1>15 DEF AccountFails, Raise, EndTick, TickFails, Leave
  <1> QED
    BY <1>4, <1>5, <1>6, <1>8, <1>9, <1>10, <1>12, <1>13, <1>14, <1>15 DEF DaemonStep

LEMMA OperatorIsHonest ==
  ASSUME SpentInv, NEW p \in Operators, OperatorStep(p)
  PROVE  disk' = disk /\ Honest(mem'[p])
  <1>0. TypeOK /\ p \in Procs /\ disk \in Snapshot /\ Honest(disk)
    BY DEF SpentInv, TypeInv, TypeOK, Procs
  <1>1. ASSUME NEW name, NEW r, NEW l, NEW s, Honest(s), Command(p, name, r, l, s)
        PROVE  disk' = disk /\ Honest(mem'[p])
    BY <1>0, <1>1 DEF Command, TypeOK
  <1>2. ASSUME NEW r \in Rules
        PROVE  /\ Honest(Created(disk, r)) /\ Honest(Disabled(disk, r)) /\ Honest(Reset(disk, r))
               /\ disk.rule[r].live = "canary_succeeded" => Honest(Promoted(disk, r))
    BY <1>0, CommandsAreHonest, OutcomesAreHonest
  <1>3. Honest(KillSet(disk, TRUE)) /\ Honest(KillSet(disk, FALSE))
    BY <1>0 DEF KillSet, Honest, Snapshot
  <1> QED
    BY <1>0, <1>1, <1>2, <1>3
       DEF OperatorStep, InitState, Create, Disable, Promote, ResetTriggered, KillOn, KillOff

LEMMA SharedIsHonest ==
  ASSUME SpentInv, NEW p \in Procs, SharedStep(p)
  PROVE  Honest(disk') /\ Honest(mem'[p]) /\ (p \in Daemons => HandlesFresh(p)')
  <1>0. /\ TypeOK /\ mem[p] \in Snapshot /\ disk \in Snapshot
        /\ Honest(disk) /\ Honest(mem[p]) /\ (p \in Daemons => HandlesFresh(p))
    BY DEF SpentInv, TypeInv, TypeOK
  <1>1. CASE \E l, t : Switch(p, l, t)
    <2>1. Honest(mem'[p]) /\ cur'[p] = NoRule
      BY <1>0, <1>1, SwitchIsHonest
    <2>2. disk' = disk \/ disk' = mem[p]
      <3>1. SharedStep(p) => Merge(p) \/ Save(p) \/ SaveFails(p) \/ Crash(p)
        BY DEF SharedStep
      <3> QED BY <3>1 DEF Merge, Save, SaveFails, Crash, Replace
    <2> QED BY <1>0, <2>1, <2>2 DEF HandlesFresh
  <1>2. CASE Merge(p)
    <2>1. mem'[p] = KillMerged(mem[p], disk) /\ disk' = disk /\ cur' = cur /\ pc'[p] = "write"
      BY <1>0, <1>2 DEF Merge, TypeOK
    <2>2. KillMerged(mem[p], disk).rule = mem[p].rule
      BY <1>0 DEF KillMerged, Snapshot
    <2> QED BY <1>0, <2>1, <2>2 DEF Honest, HandlesFresh
  <1>3. CASE Save(p) /\ pc' = [pc EXCEPT ![p] = "handle"] /\ UNCHANGED <<task, mem, cur, todo>>
    BY <1>0, <1>3 DEF Save, Replace, HandlesFresh, TypeOK
  <1> QED
    BY <1>1, <1>2, <1>3
       DEF SharedStep, Save, SaveFails, AfterSave, AfterFailedSave, EndTick, TickFails, Crash, Leave

LEMMA SpentInvStep == SpentInv /\ [Next]_vars => SpentInv'
  <1>1. ASSUME SpentInv, Next
        PROVE  SpentInv'
    <2> PICK p \in Procs : StepOf(p)
      BY <1>1, StepsHaveOwners
    <2>1. TypeInv' /\ TypeOK
      BY <1>1, TypeInvStep DEF SpentInv, TypeInv
    <2>2. Honest(disk') /\ Honest(mem'[p]) /\ (p \in Daemons => HandlesFresh(p)')
      <3>1. CASE p \in Daemons /\ DaemonStep(p)
        BY <1>1, <3>1, DaemonIsHonest DEF SpentInv
      <3>2. CASE p \in Operators /\ OperatorStep(p)
        BY <1>1, <3>2, OperatorIsHonest, DaemonAssumption DEF SpentInv
      <3>3. CASE SharedStep(p)
        BY <1>1, <3>3, SharedIsHonest
      <3> QED BY <3>1, <3>2, <3>3 DEF StepOf
    <2>3. \A q \in Procs \ {p} : Keeps(q)
      BY <2>1, StepKeepsOthers
    <2>4. \A q \in Procs : Honest(mem'[q])
      BY <1>1, <2>2, <2>3 DEF SpentInv, Keeps
    <2>5. \A d \in Daemons : HandlesFresh(d)'
      BY <1>1, <2>2, <2>3 DEF SpentInv, Keeps, HandlesFresh, Procs
    <2> QED BY <2>1, <2>2, <2>4, <2>5 DEF SpentInv, Honest
  <1>2. ASSUME SpentInv, UNCHANGED vars
        PROVE  SpentInv'
    <2>1. TypeInv'
      BY <1>2, TypeInvStep DEF SpentInv
    <2> QED BY <1>2, <2>1 DEF SpentInv, Honest, HandlesFresh, vars, local
  <1> QED BY <1>1, <1>2

LEMMA SpentInvHolds == Spec => []SpentInv
  <1>1. Init => SpentInv
    BY InitTypeInv, EmptyIsHonest DEF Init, SpentInv, HandlesFresh, Procs
  <1> QED BY <1>1, SpentInvStep, PTL DEF Spec

\* A rule whose canary succeeded keeps its trigger spent, in the file and in
\* every copy, whatever daemons and commands interleave.
THEOREM SpentTheorem == Spec => []SpentAfterCanary
  <1>1. SpentInv => SpentAfterCanary
    BY DEF SpentInv, SpentAfterCanary, Spent, Honest
  <1> QED BY <1>1, SpentInvHolds, PTL

-----------------------------------------------------------------------------
(* What is known of an exit that is sent. *)

\* An empty set of reasons, read back.
LEMMA NoReasons ==
  ASSUME NEW wired, NEW canary, NEW live, NEW fresh, NEW key, NEW context,
         BlockedReasons(wired, canary, live, fresh, key, context) = {}
  PROVE  /\ wired /\ ~context.kill /\ context.evidence
         /\ live # "manual_review" /\ live # "dry_run"
         /\ live = "canary_pending" => canary
  <1>1. "unwired" \notin BlockedReasons(wired, canary, live, fresh, key, context)
        /\ "review" \notin BlockedReasons(wired, canary, live, fresh, key, context)
        /\ "canary" \notin BlockedReasons(wired, canary, live, fresh, key, context)
        /\ "not live" \notin BlockedReasons(wired, canary, live, fresh, key, context)
        /\ "kill" \notin BlockedReasons(wired, canary, live, fresh, key, context)
        /\ "evidence" \notin BlockedReasons(wired, canary, live, fresh, key, context)
    OBVIOUS
  <1>2. wired /\ live # "manual_review" /\ live # "dry_run"
        /\ (live = "canary_pending" => canary)
    BY <1>1 DEF BlockedReasons
  <1>3. ~context.kill
    BY <1>1 DEF BlockedReasons, ReadinessReasons
  <1>4. context.evidence
    BY <1>1, <1>2 DEF BlockedReasons, ReadinessReasons
  <1> QED BY <1>2, <1>3, <1>4

\* Only Attempt calls the exchange.
LEMMA OnlyAttemptSends ==
  ASSUME TypeOK, Next, NEW d \in Daemons, Sends(d)
  PROVE  Attempt(d)
  <1> PICK p \in Procs : StepOf(p)
    BY StepsHaveOwners
  <1>0. d \in Procs /\ pc[d] = "handle" /\ pc'[d] = "answer"
    BY DEF Procs, Sends
  <1>1. p = d
    <2> SUFFICES ASSUME p # d
                 PROVE  FALSE
      OBVIOUS
    <2>1. Keeps(d)
      BY <1>0, StepKeepsOthers
    <2> QED BY <1>0, <2>1 DEF Keeps
  <1> QED BY <1>0, <1>1, AnswerByAttempt

LEMMA AttemptPassesGates ==
  ASSUME NEW d \in Daemons, Attempt(d)
  PROVE  /\ cur[d] \in AutoSubmit /\ pc[d] = "handle"
         /\ run[d].wired /\ ~mem[d].kill /\ cur[d] \in evidence
         /\ mem[d].rule[cur[d]].live \notin {"manual_review", "dry_run"}
         /\ mem[d].rule[cur[d]].live = "canary_pending" => run[d].canary
  <1> PICK g \in GateValues : ReasonsFor(d, g) = {}
    BY DEF Attempt
  <1>1. ContextFor(d, g).kill = mem[d].kill /\ ContextFor(d, g).evidence = (cur[d] \in evidence)
    BY DEF ContextFor
  <1>2. /\ run[d].wired /\ ~ContextFor(d, g).kill /\ ContextFor(d, g).evidence
        /\ mem[d].rule[cur[d]].live # "manual_review" /\ mem[d].rule[cur[d]].live # "dry_run"
        /\ mem[d].rule[cur[d]].live = "canary_pending" => run[d].canary
    BY NoReasons DEF ReasonsFor
  <1> QED BY <1>1, <1>2 DEF Attempt

\* Every exit that is sent is a canary_pending rule's, sent with --canary.
THEOREM CanaryTheorem == Spec => EveryAttemptIsCanary
  <1>1. ASSUME SpentInv, Next, NEW d \in Daemons, Sends(d)
        PROVE  mem[d].rule[cur[d]].live = "canary_pending" /\ run[d].canary
    <2>1. TypeOK /\ Attempt(d)
      BY <1>1, OnlyAttemptSends DEF SpentInv, TypeInv
    <2>2. cur[d] \in Rules /\ cur[d] # NoRule
      BY <2>1, AttemptPassesGates, AutoSubmitAssumption, DaemonAssumption
    <2>3. mem[d].rule[cur[d]].live \notin {"canary_succeeded", "normal_live"}
      BY <1>1, <2>2 DEF SpentInv, HandlesFresh
    <2>4. mem[d].rule[cur[d]].live \in LiveStatus
      BY <2>1, <2>2 DEF TypeOK, Snapshot, RuleState, Procs
    <2> QED BY <2>1, <2>3, <2>4, AttemptPassesGates DEF LiveStatus
  <1>2. SpentInv /\ [Next]_vars =>
          [\A d \in Daemons : Sends(d) =>
             mem[d].rule[cur[d]].live = "canary_pending" /\ run[d].canary]_vars
    BY <1>1
  <1> QED BY <1>2, SpentInvHolds, PTL DEF Spec, EveryAttemptIsCanary

-----------------------------------------------------------------------------
(* The program never makes the evidence it asks an auto_submit rule for. *)

VouchedInv == TypeInv /\ evidence \cap AutoSubmit \subseteq Vouched

LEMMA VouchedInvStep == VouchedInv /\ [Next]_vars => VouchedInv'
  <1>1. ASSUME VouchedInv, Next
        PROVE  VouchedInv'
    <2>1. TypeInv'
      BY <1>1, TypeInvStep DEF VouchedInv
    <2>2. \/ evidence' = evidence
          \/ \E d \in Daemons : RecordDryRun(d)
      <3>1. ASSUME NEW d \in Daemons, DaemonStep(d)
            PROVE  evidence' = evidence \/ RecordDryRun(d)
        BY <3>1 DEF DaemonStep, Start, Load, AccountLoaded, AccountFails, Pass, Trigger,
             Finish, Block, Attempt, AttemptNotSent, Accepted, Failed, Raise, Wake, Stop,
             Interrupt
      <3>2. ASSUME NEW p \in Operators, OperatorStep(p)
            PROVE  evidence' = evidence
        BY <3>2 DEF OperatorStep, InitState, Create, Disable, Promote, ResetTriggered,
             KillOn, KillOff, Command
      <3>3. ASSUME NEW p \in Procs, SharedStep(p)
            PROVE  evidence' = evidence
        BY <3>3 DEF SharedStep, Merge, Save, SaveFails, Crash
      <3> QED BY <1>1, <3>1, <3>2, <3>3 DEF Next
    <2> QED BY <1>1, <2>1, <2>2 DEF VouchedInv, RecordDryRun
  <1>2. ASSUME VouchedInv, UNCHANGED vars
        PROVE  VouchedInv'
    BY <1>2, TypeInvStep DEF VouchedInv, vars
  <1> QED BY <1>1, <1>2

\* An exit is sent only for a rule vouched for from outside the program.
THEOREM VouchedTheorem == Spec => OnlyVouched
  <1>1. Init => VouchedInv
    BY InitTypeInv DEF Init, VouchedInv
  <1>2. ASSUME VouchedInv, Next, NEW d \in Daemons, Sends(d)
        PROVE  cur[d] \in Vouched
    BY <1>2, OnlyAttemptSends, AttemptPassesGates DEF VouchedInv, TypeInv
  <1>3. VouchedInv /\ [Next]_vars => [\A d \in Daemons : Sends(d) => cur[d] \in Vouched]_vars
    BY <1>2
  <1> QED BY <1>1, <1>3, VouchedInvStep, PTL DEF Spec, OnlyVouched

-----------------------------------------------------------------------------
(* The kill switch stops a daemon after the exit in flight.                *)
(*                                                                         *)
(* A daemon that has sent one while the switch was on knows of the switch  *)
(* by the time it decides on the next live exit, because that exit's save  *)
(* merges the flag.                                                        *)

Overran(d) == d \in overrun /\ cur[d] \in AutoSubmit /\ pc[d] \in {"write", "handle"}

KillInv == /\ TypeInv
           /\ overrun # {} => disk.kill
           /\ \A d \in Daemons : Overran(d) => mem[d].kill

\* Who is in overrun, and what that says of the file.
LEMMA OverrunStep ==
  ASSUME KillInv, NEW p \in Procs, StepOf(p)
  PROVE  /\ overrun' # {} => disk'.kill
         /\ overrun' \subseteq overrun \cup {p}
         /\ overrun' \subseteq overrun \/ Attempt(p)
  <1>1. CASE p \in Daemons /\ DaemonStep(p)
    <2>1. CASE Attempt(p)
      BY <2>1 DEF Attempt, KillInv
    <2>2. CASE ~Attempt(p)
      BY <1>1, <2>2
         DEF KillInv, DaemonStep, Start, Load, AccountLoaded, AccountFails, Pass, Trigger,
             Finish, RecordDryRun, Block, AttemptNotSent, Accepted, Failed, Raise, Wake,
             Stop, Interrupt
    <2> QED BY <2>1, <2>2
  <1>2. CASE p \in Operators /\ OperatorStep(p)
    BY <1>2 DEF KillInv, OperatorStep, InitState, Create, Disable, Promote, ResetTriggered,
         KillOn, KillOff, Command
  <1>3. CASE SharedStep(p)
    BY <1>3 DEF KillInv, SharedStep, Merge, Save, SaveFails, Crash, Replace
  <1> QED BY <1>1, <1>2, <1>3 DEF StepOf

LEMMA OverranStep ==
  ASSUME KillInv, NEW d \in Daemons, StepOf(d), Overran(d)'
  PROVE  mem'[d].kill
  <1>0. /\ TypeOK /\ d \in Procs /\ mem[d] \in Snapshot /\ disk \in Snapshot
        /\ NoRule \notin AutoSubmit
    BY AutoSubmitAssumption, DaemonAssumption DEF KillInv, TypeInv, TypeOK, Procs
  <1>1. cur'[d] \in AutoSubmit /\ pc'[d] \in {"write", "handle"} /\ d \in overrun'
    BY DEF Overran
  <1>2. ~Attempt(d)
    BY <1>0, <1>1 DEF Attempt, TypeOK
  <1>3. d \in overrun
    BY <1>0, <1>1, <1>2, OverrunStep
  <1>4. \A l, t : ~Switch(d, l, t)
    BY <1>0, <1>1 DEF Switch, TypeOK
  <1>5. \A s : ~NextRule(d, s)
    BY <1>0, <1>1 DEF NextRule, TypeOK
  <1>6. DaemonStep(d) \/ SharedStep(d)
    BY DaemonAssumption DEF StepOf
  <1>7. ~DaemonStep(d)
    <2>1. ~Start(d) /\ ~Wake(d) /\ ~Stop(d) /\ ~Interrupt(d) /\ ~AccountFails(d) /\ ~Raise(d)
      BY <1>4 DEF Start, Wake, Stop, Interrupt, AccountFails, Raise, EndTick, TickFails, Leave
    <2>2. ~RecordDryRun(d) /\ ~Block(d) /\ ~AttemptNotSent(d) /\ ~Accepted(d) /\ ~Failed(d)
      BY <1>5 DEF RecordDryRun, Block, AttemptNotSent, Accepted, Failed
    <2>3. ~Load(d) /\ ~AccountLoaded(d) /\ ~Pass(d) /\ ~Finish(d)
      BY <1>0, <1>1 DEF Load, AccountLoaded, Pass, Finish, TypeOK
    <2>4. ~Trigger(d)
      BY <1>0, <1>1 DEF Trigger, TypeOK
    <2> QED BY <1>2, <2>1, <2>2, <2>3, <2>4 DEF DaemonStep
  <1>8. CASE Merge(d)
    <2>1. disk.kill
      BY <1>3 DEF KillInv
    <2>2. mem'[d] = KillMerged(mem[d], disk)
      BY <1>0, <1>8 DEF Merge, TypeOK
    <2> QED BY <1>0, <2>1, <2>2 DEF KillMerged, Snapshot
  <1>9. CASE Save(d)
    <2>1. pc[d] = "write" /\ mem' = mem /\ cur' = cur
      BY <1>4, <1>9 DEF Save, AfterSave, EndTick, TickFails, Leave
    <2>2. Overran(d)
      BY <1>1, <1>3, <2>1 DEF Overran
    <2> QED BY <2>1, <2>2 DEF KillInv
  <1>10. ~SaveFails(d) /\ ~Crash(d)
    BY <1>4 DEF SaveFails, AfterFailedSave, EndTick, TickFails, Crash, Leave
  <1> QED BY <1>6, <1>7, <1>8, <1>9, <1>10 DEF SharedStep

LEMMA KillInvStep == KillInv /\ [Next]_vars => KillInv'
  <1>1. ASSUME KillInv, Next
        PROVE  KillInv'
    <2> PICK p \in Procs : StepOf(p)
      BY <1>1, StepsHaveOwners
    <2>1. TypeInv' /\ TypeOK
      BY <1>1, TypeInvStep DEF KillInv, TypeInv
    <2>2. (overrun' # {} => disk'.kill) /\ overrun' \subseteq overrun \cup {p}
      BY <1>1, OverrunStep
    <2>3. ASSUME NEW d \in Daemons, Overran(d)'
          PROVE  mem'[d].kill
      <3>1. CASE d = p
        BY <1>1, <2>3, <3>1, OverranStep
      <3>2. CASE d # p
        <4>1. Keeps(d)
          BY <2>1, <3>2, StepKeepsOthers DEF Procs
        <4>2. Overran(d)
          BY <2>2, <2>3, <3>2, <4>1 DEF Overran, Keeps
        <4> QED BY <1>1, <4>1, <4>2 DEF KillInv, Keeps
      <3> QED BY <3>1, <3>2
    <2> QED BY <2>1, <2>2, <2>3 DEF KillInv
  <1>2. ASSUME KillInv, UNCHANGED vars
        PROVE  KillInv'
    BY <1>2, TypeInvStep DEF KillInv, Overran, vars, local
  <1> QED BY <1>1, <1>2

\* While the kill switch stays on in the file, a daemon that has sent one exit
\* sends no other.
THEOREM KillTheorem == Spec => KillInFlight
  <1>1. Init => KillInv
    BY InitTypeInv DEF Init, KillInv, Overran
  <1>2. ASSUME KillInv, Next, NEW d \in Daemons, Sends(d), disk.kill
        PROVE  d \notin overrun
    <2>1. Attempt(d)
      BY <1>2, OnlyAttemptSends DEF KillInv, TypeInv
    <2>2. cur[d] \in AutoSubmit /\ pc[d] = "handle" /\ ~mem[d].kill
      BY <2>1, AttemptPassesGates
    <2> QED BY <1>2, <2>2 DEF KillInv, Overran
  <1>3. KillInv /\ [Next]_vars =>
          [\A d \in Daemons : Sends(d) /\ disk.kill => d \notin overrun]_vars
    BY <1>2
  <1> QED BY <1>1, <1>3, KillInvStep, PTL DEF Spec, KillInFlight
=============================================================================
