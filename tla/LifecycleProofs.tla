-------------------------- MODULE LifecycleProofs --------------------------
(***************************************************************************)
(* SerialSpec of Daemon implements Lifecycle, for every set of rules,      *)
(* daemons and operators and every fault; and what follows from that.      *)
(*                                                                         *)
(* The invariant says that the snapshot of the one process that holds one  *)
(* is, of each rule, the file or one step of the rule's life ahead of it.  *)
(***************************************************************************)
EXTENDS SerialProofs

\* A rule in review has its trigger spent.
Sound(s) == \A r \in Rules : s.rule[r].live = "manual_review" => s.rule[r].triggered

\* What a tick's copy may say of rule x, where the file says y and the exchange
\* was asked a.
TickAhead(r, x, y, a) ==
  /\ x.status = "active" /\ y.status = "active"
  /\ \/ StageOf(y) = "armed" /\ StageOf(x) = "spent"
     \/ r \in AutoSubmit /\ StageOf(y) = "spent" /\ StageOf(x) = "armed" /\ a = "none"
     \/ StageOf(y) = "spent" /\ StageOf(x) = "succeeded" /\ a = "accepted"
     \/ /\ r \in AutoSubmit
        /\ StageOf(y) = "spent" /\ StageOf(x) = "review" /\ a \in {"none", "failed"}

\* What a command's copy may say of the rule it is about.
CommandAhead(name, x, y) ==
  \/ name = "create" /\ y.status = "none" /\ x.status = "active" /\ StageOf(x) = "armed"
  \/ name = "disable" /\ y.status # "none" /\ x.status = "disabled" /\ StageOf(x) = StageOf(y)
  \/ name = "promote" /\ x.status = y.status
     /\ StageOf(y) = "succeeded" /\ StageOf(x) = "live"

AheadInv(p) ==
  \A r \in Rules :
    LET x == mem[p].rule[r]
        y == disk.rule[r]
    IN  IF Resets(p, r)
        THEN y.status # "none" /\ x.status = y.status /\ StageOf(x) = "armed"
        ELSE \/ x = y
             \/ task[p] = "tick" /\ TickAhead(r, x, y, ledger[r])
             \/ cur[p] = r /\ CommandAhead(task[p], x, y)

\* A tick has not touched the rules it has still to look at.
TodoInv(p) ==
  task[p] = "tick" =>
    IF pc[p] = "account"
    THEN \A r \in Rules : mem[p].rule[r] = disk.rule[r]
    ELSE \A r \in todo[p] : mem[p].rule[r] = disk.rule[r] /\ disk.rule[r].status = "active"

\* The exit in hand is of an active rule that has just been spent, and a live one
\* is spent in the file before it is handled.
HandInv(d) ==
  d \in Daemons /\ cur[d] \in Rules =>
    /\ mem[d].rule[cur[d]].status = "active" /\ StageOf(mem[d].rule[cur[d]]) = "spent"
    /\ cur[d] \notin todo[d]
    /\ pc[d] \in {"handle", "answer"} /\ cur[d] \in AutoSubmit
         => mem[d].rule[cur[d]] = disk.rule[cur[d]]
    /\ pc[d] = "answer" => ledger[cur[d]] = "sent"

LifeCopy(p) == Sound(mem[p]) /\ AheadInv(p) /\ TodoInv(p) /\ HandInv(p)

LifeInv ==
  /\ SerialInv
  /\ Sound(disk)
  /\ Life!Backed
  /\ \A p \in Procs : Holds(p) => LifeCopy(p)

-----------------------------------------------------------------------------
(* The abstract specification by itself. *)

\* What Backed says follows from the life alone.
LEMMA BackedStep == Life!Backed /\ [Life!Next]_(Life!life) => Life!Backed'
  <1>1. ASSUME Life!Backed, Life!Next
        PROVE  Life!Backed'
    BY <1>1 DEF Life!Backed, Life!Next, Life!Shape, Life!Step, Life!Rest, Life!Create,
         Life!Disable, Life!Spend, Life!Block, Life!Ask, Life!Answer, Life!Succeed,
         Life!Fail, Life!Promote, Life!Reset, Life!Becomes, Life!Stages
  <1>2. ASSUME Life!Backed, UNCHANGED Life!life
        PROVE  Life!Backed'
    BY <1>2 DEF Life!Backed, Life!Shape, Life!life
  <1> QED BY <1>1, <1>2
-----------------------------------------------------------------------------
(* What each change makes of a rule. *)

Says(x, status, live, triggered) ==
  x.status = status /\ x.live = live /\ x.triggered = triggered

LEMMA ChangeOf ==
  ASSUME NEW s \in Snapshot, NEW r \in Rules, NEW l
  PROVE  /\ Says(WithLive(s, r, l).rule[r], s.rule[r].status, l, s.rule[r].triggered)
         /\ Says(Rearmed(s, r).rule[r], s.rule[r].status, s.rule[r].live, FALSE)
         /\ Says(Triggered(s, r).rule[r], s.rule[r].status, s.rule[r].live, TRUE)
         /\ Says(Disabled(s, r).rule[r], "disabled", s.rule[r].live, s.rule[r].triggered)
         /\ \A y \in Rules \ {r} :
              /\ WithLive(s, r, l).rule[y] = s.rule[y]
              /\ Rearmed(s, r).rule[y] = s.rule[y]
              /\ Triggered(s, r).rule[y] = s.rule[y]
              /\ Disabled(s, r).rule[y] = s.rule[y]
  <1> DEFINE x == s.rule[r]
  <1>1. /\ Says(WithLive(s, r, l).rule[r], x.status, l, x.triggered)
        /\ \A y \in Rules \ {r} : WithLive(s, r, l).rule[y] = s.rule[y]
    BY DEF WithLive, Says, Snapshot, RuleState
  <1>2. /\ Says(Rearmed(s, r).rule[r], x.status, x.live, FALSE)
        /\ \A y \in Rules \ {r} : Rearmed(s, r).rule[y] = s.rule[y]
    BY DEF Rearmed, Says, Snapshot, RuleState
  <1>3. /\ Says(Triggered(s, r).rule[r], x.status, x.live, TRUE)
        /\ \A y \in Rules \ {r} : Triggered(s, r).rule[y] = s.rule[y]
    BY DEF Triggered, Says, Snapshot, RuleState
  <1>4. /\ Says(Disabled(s, r).rule[r], "disabled", x.live, x.triggered)
        /\ \A y \in Rules \ {r} : Disabled(s, r).rule[y] = s.rule[y]
    BY DEF Disabled, Says, Snapshot, RuleState
  <1> QED BY <1>1, <1>2, <1>3, <1>4

LEMMA CreatedOf ==
  ASSUME NEW s \in Snapshot, NEW r \in Rules
  PROVE  /\ Says(Created(s, r).rule[r], "active", InitialLive(r), FALSE)
         /\ \A y \in Rules \ {r} : Created(s, r).rule[y] = s.rule[y]
  BY DEF Created, Says, Snapshot

-----------------------------------------------------------------------------
(* What a step of p keeps of p's copy. *)

LEMMA LifeFacts ==
  ASSUME LifeInv, NEW p \in Procs
  PROVE  /\ SerialInv /\ TypeOK /\ FileInv /\ Roles(p)
         /\ mem[p] \in Snapshot /\ disk \in Snapshot
         /\ \A r \in Rules : mem[p].rule[r] \in RuleState /\ disk.rule[r] \in RuleState
         /\ Honest(disk) /\ Honest(mem[p]) /\ Sound(disk)
         /\ p \in Daemons => HandlesFresh(p)
         /\ Holds(p) => CopyInv(p) /\ LifeCopy(p)
         /\ p \in Daemons => p \notin Operators /\ task[p] \notin CommandNames
         /\ NoRule \notin Rules
  <1>1. SerialInv /\ Sound(disk) /\ (Holds(p) => LifeCopy(p))
    BY DEF LifeInv
  <1>2. /\ TypeOK /\ FileInv /\ Roles(p) /\ (Holds(p) => CopyInv(p))
        /\ mem[p] \in Snapshot /\ disk \in Snapshot /\ (p \in Daemons => HandlesFresh(p))
    BY <1>1, FactsOf DEF Ok
  <1>3. \A r \in Rules : mem[p].rule[r] \in RuleState /\ disk.rule[r] \in RuleState
    BY <1>2 DEF Snapshot
  <1>4. Honest(disk) /\ Honest(mem[p])
    BY <1>1 DEF SerialInv, SpentInv
  <1> QED BY <1>1, <1>2, <1>3, <1>4, DaemonAssumption DEF Roles

\* The file and the exchange, as the abstract invariant reads them.
LEMMA BackedFile ==
  ASSUME LifeInv, NEW r \in Rules
  PROVE  /\ StageOf(disk.rule[r]) \in {"succeeded", "live"} => ledger[r] = "accepted"
         /\ ledger[r] # "none" => r \in AutoSubmit /\ StageOf(disk.rule[r]) # "armed"
         /\ disk.rule[r].status = "none" => StageOf(disk.rule[r]) = "armed"
  BY DEF LifeInv, Life!Backed, Life!Stages

\* What a daemon's copy may say of a rule.
LEMMA DaemonAhead ==
  ASSUME LifeInv, NEW d \in Daemons, Holds(d), NEW r \in Rules
  PROVE  \/ mem[d].rule[r] = disk.rule[r]
         \/ task[d] = "tick" /\ TickAhead(r, mem[d].rule[r], disk.rule[r], ledger[r])
  <1>1. d \in Procs
    BY DEF Procs
  <1>2. LifeCopy(d) /\ task[d] \notin CommandNames
    BY <1>1, LifeFacts
  <1> QED BY <1>2 DEF LifeCopy, AheadInv, Resets, CommandAhead, CommandNames

LEMMA LoadIsLife ==
  ASSUME LifeInv, NEW d \in Daemons, Load(d)
  PROVE  LifeCopy(d)'
  <1>1. d \in Procs
    BY DEF Procs
  <1>2. /\ TypeOK /\ HandlesFresh(d) /\ Sound(disk) /\ NoRule \notin Rules
        /\ task[d] \notin CommandNames /\ pc[d] = "load"
    BY <1>1, LifeFacts DEF Load
  <1>3. /\ mem'[d] = disk /\ cur'[d] = cur[d] /\ task' = task /\ disk' = disk
        /\ pc'[d] = IF task[d] = "tick" THEN "account" ELSE "merge"
    BY <1>1, <1>2 DEF Load, TypeOK
  <1>4. cur[d] = NoRule
    BY <1>2 DEF HandlesFresh
  <1>5. Sound(mem[d])' /\ HandInv(d)'
    BY <1>2, <1>3, <1>4 DEF Sound, HandInv
  <1>6. AheadInv(d)'
    BY <1>2, <1>3 DEF AheadInv, Resets, CommandNames
  <1>7. TodoInv(d)'
    BY <1>3 DEF TodoInv
  <1> QED BY <1>5, <1>6, <1>7 DEF LifeCopy

LEMMA AccountIsLife ==
  ASSUME LifeInv, NEW d \in Daemons, AccountLoaded(d)
  PROVE  LifeCopy(d)'
  <1>1. d \in Procs
    BY DEF Procs
  <1>2. TypeOK /\ HandlesFresh(d) /\ NoRule \notin Rules /\ LifeCopy(d) /\ pc[d] = "account"
    BY <1>1, LifeFacts DEF AccountLoaded, Holds
  <1>3. /\ mem' = mem /\ cur' = cur /\ task' = task /\ disk' = disk /\ ledger' = ledger
        /\ todo'[d] = {r \in Rules : mem[d].rule[r].status = "active"}
    BY <1>1, <1>2 DEF AccountLoaded, TypeOK
  <1>4. cur[d] = NoRule
    BY <1>2 DEF HandlesFresh
  <1>5. task[d] = "tick" /\ \A r \in Rules : mem[d].rule[r] = disk.rule[r]
    <2>1. task[d] = "tick"
      BY <1>1, <1>2, LifeFacts DEF Roles
    <2> QED BY <1>2, <2>1 DEF LifeCopy, TodoInv
  <1>6. Sound(mem[d])' /\ HandInv(d)'
    BY <1>2, <1>3, <1>4 DEF LifeCopy, Sound, HandInv
  <1>7. AheadInv(d)'
    BY <1>3, <1>5 DEF AheadInv, Resets
  <1>8. TodoInv(d)'
    BY <1>1, <1>2, <1>3, <1>5 DEF TodoInv, AccountLoaded, TypeOK
  <1> QED BY <1>6, <1>7, <1>8 DEF LifeCopy

\* A tick between two rules: the copy stays, and no new rule is to be looked at.
LEMMA WalkIsLife ==
  ASSUME LifeInv, NEW d \in Daemons, Pass(d) \/ Finish(d)
  PROVE  LifeCopy(d)'
  <1>1. d \in Procs
    BY DEF Procs
  <1>2. /\ TypeOK /\ HandlesFresh(d) /\ NoRule \notin Rules /\ LifeCopy(d)
        /\ pc[d] = "rules" /\ task[d] = "tick"
    BY <1>1, LifeFacts DEF Pass, Finish, Holds, Roles
  <1>3. /\ mem' = mem /\ cur' = cur /\ task' = task /\ disk' = disk /\ ledger' = ledger
        /\ todo'[d] \subseteq todo[d] /\ pc'[d] \in {"rules", "merge"}
    BY <1>1, <1>2 DEF Pass, Finish, TypeOK
  <1>4. cur[d] = NoRule
    BY <1>2 DEF HandlesFresh
  <1>5. Sound(mem[d])' /\ HandInv(d)'
    BY <1>2, <1>3, <1>4 DEF LifeCopy, Sound, HandInv
  <1>6. AheadInv(d)'
    BY <1>2, <1>3 DEF LifeCopy, AheadInv, Resets
  <1>7. TodoInv(d)'
    BY <1>2, <1>3 DEF LifeCopy, TodoInv
  <1> QED BY <1>5, <1>6, <1>7 DEF LifeCopy

LEMMA TriggerIsLife ==
  ASSUME LifeInv, NEW d \in Daemons, Trigger(d)
  PROVE  LifeCopy(d)'
  <1>1. d \in Procs
    BY DEF Procs
  <1>2. /\ TypeOK /\ NoRule \notin Rules /\ LifeCopy(d) /\ Honest(disk) /\ Sound(disk)
        /\ mem[d] \in Snapshot /\ pc[d] = "rules" /\ task[d] = "tick" /\ Holds(d)
    BY <1>1, LifeFacts DEF Trigger, Holds, Roles
  <1> PICK r \in todo[d] :
        /\ ~mem[d].rule[r].triggered
        /\ mem'  = [mem EXCEPT ![d] = Triggered(mem[d], r)]
        /\ cur'  = [cur EXCEPT ![d] = r]
        /\ todo' = [todo EXCEPT ![d] = @ \ {r}]
        /\ pc'   = [pc EXCEPT ![d] = IF r \in AutoSubmit THEN "merge" ELSE "handle"]
    BY DEF Trigger
  <1> DEFINE x == mem[d].rule[r]
  <1>3. /\ r \in Rules /\ mem'[d] = Triggered(mem[d], r) /\ cur'[d] = r /\ task' = task
        /\ todo'[d] = todo[d] \ {r} /\ disk' = disk /\ ledger' = ledger
        /\ pc'[d] = IF r \in AutoSubmit THEN "merge" ELSE "handle"
    BY <1>1, <1>2 DEF Trigger, TypeOK
  <1>4. x = disk.rule[r] /\ x.status = "active" /\ ~x.triggered /\ x \in RuleState
    BY <1>1, <1>2, <1>3, LifeFacts DEF LifeCopy, TodoInv
  <1>5. StageOf(x) = "armed"
    BY <1>2, <1>3, <1>4 DEF Honest, Sound, StageOf
  <1>6. /\ Says(mem'[d].rule[r], "active", x.live, TRUE)
        /\ \A y \in Rules \ {r} : mem'[d].rule[y] = mem[d].rule[y]
    <2>1. /\ Says(Triggered(mem[d], r).rule[r], x.status, x.live, TRUE)
          /\ \A y \in Rules \ {r} : Triggered(mem[d], r).rule[y] = mem[d].rule[y]
      BY <1>2, <1>3, ChangeOf
    <2> QED BY <1>3, <1>4, <2>1
  <1>7. mem'[d].rule[r].status = "active" /\ StageOf(mem'[d].rule[r]) = "spent"
    BY <1>5, <1>6 DEF Says, StageOf
  <1>8. Sound(mem[d])'
    BY <1>2, <1>6 DEF LifeCopy, Sound, Says
  <1>9. HandInv(d)'
    BY <1>3, <1>7 DEF HandInv
  <1>10. AheadInv(d)'
    <2>1. TickAhead(r, mem'[d].rule[r], disk.rule[r], ledger[r])
      BY <1>4, <1>5, <1>7 DEF TickAhead
    <2>2. \A y \in Rules \ {r} :
            \/ mem'[d].rule[y] = disk.rule[y]
            \/ TickAhead(y, mem'[d].rule[y], disk.rule[y], ledger[y])
      BY <1>2, <1>6, DaemonAhead
    <2> QED BY <1>2, <1>3, <2>1, <2>2 DEF AheadInv, Resets
  <1>11. TodoInv(d)'
    BY <1>2, <1>3, <1>6 DEF LifeCopy, TodoInv, TypeOK
  <1> QED BY <1>8, <1>9, <1>10, <1>11 DEF LifeCopy
\* The outcome of the exit in hand goes into the copy.
LEMMA NextRuleIsLife ==
  ASSUME LifeInv, NEW d \in Daemons, NEW s, NextRule(d, s), pc[d] \in {"handle", "answer"},
         NEW r \in Rules, r = cur[d], Sound(s),
         \/ s.rule[r] = mem[d].rule[r] /\ UNCHANGED ledger
         \/ s.rule[r] = disk.rule[r]
         \/ TickAhead(r, s.rule[r], disk.rule[r], ledger'[r]),
         \A x \in Rules \ {r} : s.rule[x] = mem[d].rule[x] /\ ledger'[x] = ledger[x],
         UNCHANGED <<disk, task, todo>>
  PROVE  LifeCopy(d)'
  <1>1. d \in Procs
    BY DEF Procs
  <1>2. /\ TypeOK /\ NoRule \notin Rules /\ LifeCopy(d) /\ Holds(d) /\ task[d] = "tick"
    BY <1>1, LifeFacts DEF Holds, Roles
  <1>3. mem'[d] = s /\ cur'[d] = NoRule /\ pc'[d] = "rules" /\ task' = task /\ disk' = disk
    BY <1>1, <1>2 DEF NextRule, TypeOK
  <1>4. r \notin todo[d]
    BY <1>2 DEF LifeCopy, HandInv
  <1>5. Sound(mem[d])' /\ HandInv(d)'
    BY <1>2, <1>3 DEF HandInv
  <1>6. AheadInv(d)'
    <2>1. ASSUME NEW x \in Rules
          PROVE  s.rule[x] = disk.rule[x] \/ TickAhead(x, s.rule[x], disk.rule[x], ledger'[x])
      <3>1. \/ mem[d].rule[x] = disk.rule[x]
            \/ TickAhead(x, mem[d].rule[x], disk.rule[x], ledger[x])
        BY <1>2, DaemonAhead
      <3> QED BY <3>1
    <2> QED BY <1>2, <1>3, <2>1 DEF AheadInv, Resets
  <1>7. TodoInv(d)'
    <2>1. /\ todo'[d] = todo[d] /\ todo[d] \subseteq Rules
          /\ \A x \in todo[d] : mem[d].rule[x] = disk.rule[x] /\ disk.rule[x].status = "active"
      BY <1>1, <1>2 DEF LifeCopy, TodoInv, TypeOK
    <2>2. \A x \in todo[d] : s.rule[x] = mem[d].rule[x]
      BY <1>4, <2>1
    <2> QED BY <1>3, <2>1, <2>2 DEF TodoInv
  <1> QED BY <1>5, <1>6, <1>7 DEF LifeCopy

\* What is known of the rule whose exit daemon d has in hand.
LEMMA InHand ==
  ASSUME LifeInv, NEW d \in Daemons, pc[d] \in {"handle", "answer"},
         cur[d] \in AutoSubmit
  PROVE  /\ d \in Procs /\ cur[d] \in Rules /\ TypeOK /\ mem[d] \in Snapshot
         /\ mem[d].rule[cur[d]] = disk.rule[cur[d]]
         /\ disk.rule[cur[d]].status = "active" /\ StageOf(disk.rule[cur[d]]) = "spent"
         /\ disk.rule[cur[d]].triggered
         /\ pc[d] = "handle" => ledger[cur[d]] = "none"
         /\ pc[d] = "answer" => ledger[cur[d]] = "sent"
         /\ Sound(mem[d])
  <1>1. d \in Procs /\ cur[d] \in Rules /\ Holds(d)
    BY AutoSubmitAssumption DEF Procs, Holds
  <1>2. /\ LifeCopy(d) /\ CopyInv(d) /\ TypeOK /\ mem[d] \in Snapshot
    BY <1>1, LifeFacts
  <1>3. ExitInv(d) /\ HandInv(d) /\ Sound(mem[d])
    BY <1>2 DEF CopyInv, LifeCopy
  <1> QED BY <1>1, <1>2, <1>3 DEF ExitInv, HandInv

LEMMA ManualReviewOf ==
  ASSUME NEW s \in Snapshot, NEW r \in AutoSubmit
  PROVE  /\ Says(ManualReview(s, r).rule[r], s.rule[r].status, "manual_review", s.rule[r].triggered)
         /\ \A y \in Rules \ {r} : ManualReview(s, r).rule[y] = s.rule[y]
  <1>1. r \in Rules
    BY AutoSubmitAssumption
  <1> QED BY <1>1, ChangeOf DEF ManualReview

LEMMA LiveSuccessOf ==
  ASSUME NEW s \in Snapshot, NEW r \in Rules, s.rule[r].live = "canary_pending"
  PROVE  /\ Says(LiveSuccess(s, r).rule[r], s.rule[r].status, "canary_succeeded", s.rule[r].triggered)
         /\ \A y \in Rules \ {r} : LiveSuccess(s, r).rule[y] = s.rule[y]
  <1>1. LiveSuccess(s, r) = WithLive(s, r, "canary_succeeded")
    BY DEF LiveSuccess
  <1>2. \A l : /\ Says(WithLive(s, r, l).rule[r], s.rule[r].status, l, s.rule[r].triggered)
               /\ \A y \in Rules \ {r} : WithLive(s, r, l).rule[y] = s.rule[y]
    BY ChangeOf
  <1> QED BY <1>1, <1>2, Zenon

LEMMA OutcomesAreLife ==
  ASSUME LifeInv, NEW d \in Daemons,
         RecordDryRun(d) \/ Block(d) \/ AttemptNotSent(d) \/ Accepted(d) \/ Failed(d)
  PROVE  LifeCopy(d)'
  <1> DEFINE r == cur[d]
             x == mem[d].rule[r]
  <1>1. d \in Procs /\ pc[d] \in {"handle", "answer"} /\ Holds(d)
    BY DEF Procs, Holds, RecordDryRun, Block, AttemptNotSent, Accepted, Failed
  <1>2. CASE RecordDryRun(d)
    <2>1. r \in Rules /\ Sound(mem[d])
      BY <1>1, <1>2, LifeFacts DEF RecordDryRun, LifeCopy
    <2> QED BY <1>1, <1>2, <2>1, NextRuleIsLife DEF RecordDryRun
  <1>3. r \in AutoSubmit \/ RecordDryRun(d)
    BY <1>1, LifeFacts DEF Block, AttemptNotSent, Accepted, Failed, SerialInv, SpentInv,
         TypeInv, AnswerIsLive
  <1>4. CASE Block(d)
    <2>1. r \in AutoSubmit /\ pc[d] = "handle"
      BY <1>4 DEF Block
    <2>2. /\ r \in Rules /\ mem[d] \in Snapshot /\ x = disk.rule[r] /\ x.status = "active"
          /\ StageOf(x) = "spent" /\ ledger[r] = "none" /\ Sound(mem[d])
      BY <2>1, InHand
    <2>3. /\ Says(Rearmed(mem[d], r).rule[r], x.status, x.live, FALSE)
          /\ \A y \in Rules \ {r} : Rearmed(mem[d], r).rule[y] = mem[d].rule[y]
      BY <2>2, ChangeOf
    <2>4. StageOf(Rearmed(mem[d], r).rule[r]) = "armed"
      BY <2>2, <2>3 DEF Says, StageOf
    <2>5. TickAhead(r, Rearmed(mem[d], r).rule[r], disk.rule[r], ledger[r])
      BY <2>1, <2>2, <2>3, <2>4 DEF TickAhead, Says
    <2>6. Sound(Rearmed(mem[d], r))
      BY <2>2, <2>3 DEF Sound, Says, StageOf
    <2> QED BY <1>1, <1>4, <2>2, <2>3, <2>5, <2>6, NextRuleIsLife DEF Block
  <1>5. CASE AttemptNotSent(d)
    <2>1. r \in AutoSubmit /\ pc[d] = "handle"
      BY <1>5 DEF AttemptNotSent
    <2>2. /\ r \in Rules /\ mem[d] \in Snapshot /\ x = disk.rule[r] /\ x.status = "active"
          /\ StageOf(x) = "spent" /\ x.triggered /\ ledger[r] = "none" /\ Sound(mem[d])
      BY <2>1, InHand
    <2>3. /\ Says(ManualReview(mem[d], r).rule[r], x.status, "manual_review", x.triggered)
          /\ \A y \in Rules \ {r} : ManualReview(mem[d], r).rule[y] = mem[d].rule[y]
      BY <2>1, <2>2, ManualReviewOf
    <2>4. TickAhead(r, ManualReview(mem[d], r).rule[r], disk.rule[r], ledger[r])
      BY <2>1, <2>2, <2>3 DEF TickAhead, Says, StageOf
    <2>5. Sound(ManualReview(mem[d], r))
      BY <2>2, <2>3 DEF Sound, Says
    <2> QED BY <1>1, <1>5, <2>2, <2>3, <2>4, <2>5, NextRuleIsLife DEF AttemptNotSent
  <1>6. CASE Failed(d)
    <2>1. r \in AutoSubmit /\ pc[d] = "answer"
      BY <1>3, <1>6 DEF Failed, RecordDryRun
    <2>2. /\ r \in Rules /\ mem[d] \in Snapshot /\ x = disk.rule[r] /\ x.status = "active"
          /\ StageOf(x) = "spent" /\ x.triggered /\ Sound(mem[d]) /\ TypeOK
      BY <2>1, InHand
    <2>3. /\ Says(ManualReview(mem[d], r).rule[r], x.status, "manual_review", x.triggered)
          /\ \A y \in Rules \ {r} : ManualReview(mem[d], r).rule[y] = mem[d].rule[y]
      BY <2>1, <2>2, ManualReviewOf
    <2>4. ledger'[r] = "failed" /\ \A y \in Rules \ {r} : ledger'[y] = ledger[y]
      BY <1>6, <2>2 DEF Failed, TypeOK
    <2>5. TickAhead(r, ManualReview(mem[d], r).rule[r], disk.rule[r], ledger'[r])
      BY <2>1, <2>2, <2>3, <2>4 DEF TickAhead, Says, StageOf
    <2>6. Sound(ManualReview(mem[d], r))
      BY <2>2, <2>3 DEF Sound, Says
    <2> QED BY <1>1, <1>6, <2>2, <2>3, <2>4, <2>5, <2>6, NextRuleIsLife DEF Failed
  <1>7. CASE Accepted(d)
    <2>1. r \in AutoSubmit /\ pc[d] = "answer"
      BY <1>3, <1>7 DEF Accepted, RecordDryRun
    <2>2. /\ r \in Rules /\ mem[d] \in Snapshot /\ x = disk.rule[r] /\ x.status = "active"
          /\ StageOf(x) = "spent" /\ x.triggered /\ Sound(mem[d]) /\ TypeOK
      BY <2>1, InHand
    <2>4. ledger'[r] = "accepted" /\ \A y \in Rules \ {r} : ledger'[y] = ledger[y]
      BY <1>7, <2>2 DEF Accepted, TypeOK
    <2>5. CASE x.live = "canary_pending"
      <3>2. /\ Says(LiveSuccess(mem[d], r).rule[r], x.status, "canary_succeeded", x.triggered)
            /\ \A y \in Rules \ {r} : LiveSuccess(mem[d], r).rule[y] = mem[d].rule[y]
        BY <2>2, <2>5, LiveSuccessOf
      <3>3. TickAhead(r, LiveSuccess(mem[d], r).rule[r], disk.rule[r], ledger'[r])
        BY <2>2, <2>4, <3>2 DEF TickAhead, Says, StageOf
      <3>4. Sound(LiveSuccess(mem[d], r))
        BY <2>2, <3>2 DEF Sound, Says
      <3> QED BY <1>1, <1>7, <2>2, <2>4, <3>2, <3>3, <3>4, NextRuleIsLife DEF Accepted
    <2>6. CASE x.live # "canary_pending"
      <3>1. LiveSuccess(mem[d], r) = mem[d]
        BY <2>6 DEF LiveSuccess
      <3> QED BY <1>1, <1>7, <2>2, <2>4, <3>1, NextRuleIsLife DEF Accepted
    <2> QED BY <2>5, <2>6
  <1> QED BY <1>2, <1>4, <1>5, <1>6, <1>7

LEMMA AttemptIsLife ==
  ASSUME LifeInv, NEW d \in Daemons, Attempt(d)
  PROVE  LifeCopy(d)'
  <1> DEFINE r == cur[d]
  <1>1. pc[d] = "handle" /\ r \in AutoSubmit /\ Holds(d)
    BY DEF Attempt, Holds
  <1>2. /\ d \in Procs /\ r \in Rules /\ TypeOK /\ mem[d].rule[r] = disk.rule[r]
        /\ disk.rule[r].status = "active" /\ StageOf(disk.rule[r]) = "spent" /\ Sound(mem[d])
    BY <1>1, InHand
  <1>3. LifeCopy(d) /\ task[d] = "tick"
    BY <1>1, <1>2, LifeFacts DEF Roles
  <1>4. /\ mem' = mem /\ cur' = cur /\ task' = task /\ todo' = todo /\ disk' = disk
        /\ pc'[d] = "answer"
        /\ ledger'[r] = "sent" /\ \A x \in Rules \ {r} : ledger'[x] = ledger[x]
    BY <1>1, <1>2 DEF Attempt, TypeOK
  <1>5. Sound(mem[d])'
    BY <1>2, <1>4 DEF Sound
  <1>6. HandInv(d)'
    BY <1>1, <1>2, <1>3, <1>4 DEF LifeCopy, HandInv
  <1>7. AheadInv(d)'
    <2>1. ASSUME NEW x \in Rules
          PROVE  \/ mem[d].rule[x] = disk.rule[x]
                 \/ TickAhead(x, mem[d].rule[x], disk.rule[x], ledger'[x])
      BY <1>1, <1>2, <1>4, DaemonAhead
    <2> QED BY <1>3, <1>4, <2>1 DEF AheadInv, Resets
  <1>8. TodoInv(d)'
    BY <1>1, <1>3, <1>4 DEF LifeCopy, TodoInv
  <1> QED BY <1>5, <1>6, <1>7, <1>8 DEF LifeCopy

LEMMA MergeIsLife ==
  ASSUME LifeInv, NEW p \in Procs, Merge(p)
  PROVE  LifeCopy(p)'
  <1>1. /\ TypeOK /\ mem[p] \in Snapshot /\ disk \in Snapshot /\ pc[p] = "merge"
        /\ LifeCopy(p)
    BY LifeFacts DEF Merge, Holds
  <1>2. /\ mem'[p] = KillMerged(mem[p], disk) /\ pc'[p] = "write"
        /\ disk' = disk /\ ledger' = ledger /\ task' = task /\ cur' = cur /\ todo' = todo
    BY <1>1 DEF Merge, TypeOK
  <1>3. mem'[p].rule = mem[p].rule
    BY <1>1, <1>2, KillChange
  <1>4. Sound(mem[p])' /\ HandInv(p)'
    BY <1>1, <1>2, <1>3 DEF LifeCopy, Sound, HandInv
  <1>5. AheadInv(p)'
    BY <1>1, <1>2, <1>3 DEF LifeCopy, AheadInv, Resets
  <1>6. TodoInv(p)'
    BY <1>1, <1>2, <1>3 DEF LifeCopy, TodoInv
  <1> QED BY <1>4, <1>5, <1>6 DEF LifeCopy

\* A process that lets go of its copy has nothing to compare.
LEMMA LetsGo ==
  ASSUME TypeOK, NEW p \in Procs, NEW l \in {"off", "load", "sleep"}, NEW t, Switch(p, l, t)
  PROVE  ~(Holds(p)')
  BY DEF Switch, TypeOK, Holds

LEMMA StartsLetGo ==
  ASSUME TypeOK, NEW d \in Daemons,
         Start(d) \/ Wake(d) \/ Stop(d) \/ Interrupt(d) \/ AccountFails(d) \/ Raise(d)
  PROVE  ~(Holds(d)')
  <1>1. d \in Procs
    BY DEF Procs
  <1>2. \E l \in {"off", "load"} : \E t : Switch(d, l, t)
    BY DEF Start, Wake, Stop, Interrupt, AccountFails, Raise, TickFails, EndTick, Leave
  <1> QED BY <1>1, <1>2, LetsGo

\* Only the save before a live exit is handled keeps the copy, which is then the
\* file.
LEMMA SavesAreLife ==
  ASSUME LifeInv, NEW p \in Procs, Save(p) \/ SaveFails(p), Holds(p)'
  PROVE  LifeCopy(p)'
  <1>1. TypeOK /\ pc[p] = "write" /\ LifeCopy(p) /\ NoRule \notin Rules
    BY LifeFacts DEF Save, SaveFails, Holds
  <1>2. \A l \in {"off", "load", "sleep"} : \A t : ~Switch(p, l, t)
    BY <1>1, LetsGo
  <1>3. /\ Save(p) /\ task[p] = "tick" /\ cur[p] # NoRule
        /\ pc' = [pc EXCEPT ![p] = "handle"] /\ UNCHANGED <<task, mem, cur, todo>>
    <2>1. CASE Save(p)
      <3>1. AfterSave(p)
        BY <2>1 DEF Save
      <3> QED BY <1>2, <2>1, <3>1 DEF AfterSave, EndTick, Leave
    <2>2. CASE SaveFails(p)
      <3>1. AfterFailedSave(p)
        BY <2>2 DEF SaveFails
      <3> QED BY <1>2, <3>1 DEF AfterFailedSave, EndTick, TickFails, Leave
    <2> QED BY <2>1, <2>2
  <1>4. disk' = mem[p] /\ mem' = mem /\ pc'[p] = "handle"
    BY <1>1, <1>3 DEF Save, Replace, TypeOK
  <1>5. Sound(mem[p])' /\ AheadInv(p)'
    BY <1>1, <1>3, <1>4 DEF LifeCopy, Sound, AheadInv, Resets
  <1>6. HandInv(p)'
    BY <1>1, <1>3, <1>4 DEF LifeCopy, HandInv
  <1>7. TodoInv(p)'
    BY <1>1, <1>3, <1>4 DEF LifeCopy, TodoInv
  <1> QED BY <1>5, <1>6, <1>7 DEF LifeCopy

LEMMA ResetOf ==
  ASSUME NEW s \in Snapshot, NEW r \in Rules, Honest(s)
  PROVE  /\ Reset(s, r).rule[r].status = s.rule[r].status
         /\ StageOf(Reset(s, r).rule[r]) = "armed"
         /\ Reset(s, r).rule[r].live # "manual_review"
         /\ \A y \in Rules \ {r} : Reset(s, r).rule[y] = s.rule[y]
  <1>1. /\ Says(Rearmed(s, r).rule[r], s.rule[r].status, s.rule[r].live, FALSE)
        /\ \A y \in Rules \ {r} : Rearmed(s, r).rule[y] = s.rule[y]
    BY ChangeOf
  <1>2. CASE r \in AutoSubmit
    <2>1. Rearmed(s, r) \in Snapshot
      BY ChangesAreTyped
    <2>2. \A l : /\ Says(WithLive(Rearmed(s, r), r, l).rule[r],
                         Rearmed(s, r).rule[r].status, l, Rearmed(s, r).rule[r].triggered)
                 /\ \A y \in Rules \ {r} :
                      WithLive(Rearmed(s, r), r, l).rule[y] = Rearmed(s, r).rule[y]
      BY <2>1, ChangeOf
    <2>3. Reset(s, r) = WithLive(Rearmed(s, r), r, "canary_pending")
      BY <1>2 DEF Reset
    <2>4. /\ Says(Reset(s, r).rule[r], Rearmed(s, r).rule[r].status, "canary_pending",
                  Rearmed(s, r).rule[r].triggered)
          /\ \A y \in Rules \ {r} : Reset(s, r).rule[y] = Rearmed(s, r).rule[y]
      BY <2>2, <2>3, Zenon
    <2> QED BY <1>1, <2>4 DEF Says, StageOf
  <1>3. CASE r \notin AutoSubmit
    <2>1. Reset(s, r) = Rearmed(s, r) /\ s.rule[r].live = "dry_run"
      BY <1>3 DEF Reset, Honest
    <2> QED BY <1>1, <2>1 DEF Says, StageOf
  <1> QED BY <1>2, <1>3

\* A command's copy is the file with one step of the rule it is about.
CommandFits(name, r, s) ==
  \A x \in Rules :
    IF name = "reset" /\ r = x
    THEN /\ disk.rule[x].status # "none" /\ s.rule[x].status = disk.rule[x].status
         /\ StageOf(s.rule[x]) = "armed"
    ELSE \/ s.rule[x] = disk.rule[x]
         \/ r = x /\ CommandAhead(name, s.rule[x], disk.rule[x])

LEMMA CommandIsLife ==
  ASSUME LifeInv, NEW p \in Operators, NEW name \in CommandNames, NEW r, NEW s,
         NEW l \in {"merge", "write"}, Command(p, name, r, l, s), Sound(s),
         CommandFits(name, r, s)
  PROVE  LifeCopy(p)'
  <1>1. p \in Procs /\ p \notin Daemons
    BY DaemonAssumption DEF Procs
  <1>2. TypeOK
    BY <1>1, LifeFacts
  <1>3. /\ task'[p] = name /\ cur'[p] = r /\ mem'[p] = s /\ disk' = disk /\ ledger' = ledger
        /\ name # "tick"
    BY <1>1, <1>2 DEF Command, TypeOK, CommandNames
  <1>4. Sound(mem[p])' /\ HandInv(p)' /\ TodoInv(p)'
    BY <1>1, <1>3 DEF Sound, HandInv, TodoInv
  <1>5. AheadInv(p)'
    BY <1>3 DEF AheadInv, Resets, CommandFits
  <1> QED BY <1>4, <1>5 DEF LifeCopy

LEMMA OperatorIsLife ==
  ASSUME LifeInv, NEW p \in Operators, OperatorStep(p)
  PROVE  LifeCopy(p)'
  <1>1. disk \in Snapshot /\ FileInv /\ Sound(disk) /\ Honest(disk)
    BY LifeFacts DEF Procs
  <1>2. CASE InitState(p)
    <2>1. CommandFits("init", NoRule, disk)
      BY DEF CommandFits
    <2> QED BY <1>1, <1>2, <2>1, CommandIsLife DEF InitState, CommandNames
  <1>3. CASE Create(p)
    <2> PICK r \in Rules \ created : Command(p, "create", r, "write", Created(disk, r))
      BY <1>3 DEF Create
    <2>1. /\ Says(Created(disk, r).rule[r], "active", InitialLive(r), FALSE)
          /\ \A y \in Rules \ {r} : Created(disk, r).rule[y] = disk.rule[y]
      BY <1>1, CreatedOf
    <2>2. disk.rule[r].status = "none"
      BY <1>1 DEF FileInv
    <2>3. CommandAhead("create", Created(disk, r).rule[r], disk.rule[r])
      BY <2>1, <2>2 DEF CommandAhead, Says, StageOf, InitialLive
    <2>4. Sound(Created(disk, r))
      BY <1>1, <2>1 DEF Sound, Says, InitialLive
    <2>5. CommandFits("create", r, Created(disk, r))
      BY <2>1, <2>3 DEF CommandFits
    <2> QED BY <2>4, <2>5, CommandIsLife DEF CommandNames
  <1>4. CASE Disable(p)
    <2> PICK r \in Rules : Known(r) /\ Command(p, "disable", r, "write", Disabled(disk, r))
      BY <1>4 DEF Disable
    <2>1. /\ Says(Disabled(disk, r).rule[r], "disabled", disk.rule[r].live, disk.rule[r].triggered)
          /\ \A y \in Rules \ {r} : Disabled(disk, r).rule[y] = disk.rule[y]
      BY <1>1, ChangeOf
    <2>2. CommandAhead("disable", Disabled(disk, r).rule[r], disk.rule[r])
      BY <2>1 DEF CommandAhead, Says, StageOf, Known
    <2>3. Sound(Disabled(disk, r))
      BY <1>1, <2>1 DEF Sound, Says
    <2>4. CommandFits("disable", r, Disabled(disk, r))
      BY <2>1, <2>2 DEF CommandFits
    <2> QED BY <2>3, <2>4, CommandIsLife DEF CommandNames
  <1>5. CASE Promote(p)
    <2> PICK r \in Rules :
          /\ disk.rule[r].live = "canary_succeeded"
          /\ Command(p, "promote", r, "write", Promoted(disk, r))
      BY <1>5 DEF Promote
    <2>1. \A l : /\ Says(WithLive(disk, r, l).rule[r], disk.rule[r].status, l,
                         disk.rule[r].triggered)
                 /\ \A y \in Rules \ {r} : WithLive(disk, r, l).rule[y] = disk.rule[y]
      BY <1>1, ChangeOf
    <2>2. /\ Says(Promoted(disk, r).rule[r], disk.rule[r].status, "normal_live",
                  disk.rule[r].triggered)
          /\ \A y \in Rules \ {r} : Promoted(disk, r).rule[y] = disk.rule[y]
      BY <2>1, Zenon DEF Promoted
    <2>3. CommandAhead("promote", Promoted(disk, r).rule[r], disk.rule[r])
      BY <2>2 DEF CommandAhead, Says, StageOf
    <2>4. Sound(Promoted(disk, r))
      BY <1>1, <2>2 DEF Sound, Says
    <2>5. CommandFits("promote", r, Promoted(disk, r))
      BY <2>2, <2>3 DEF CommandFits
    <2> QED BY <2>4, <2>5, CommandIsLife DEF CommandNames
  <1>6. CASE ResetTriggered(p)
    <2> PICK r \in Rules : Known(r) /\ Command(p, "reset", r, "merge", Reset(disk, r))
      BY <1>6 DEF ResetTriggered
    <2>1. /\ Reset(disk, r).rule[r].status = disk.rule[r].status
          /\ StageOf(Reset(disk, r).rule[r]) = "armed"
          /\ Reset(disk, r).rule[r].live # "manual_review"
          /\ \A y \in Rules \ {r} : Reset(disk, r).rule[y] = disk.rule[y]
      BY <1>1, ResetOf
    <2>2. Sound(Reset(disk, r))
      BY <1>1, <2>1 DEF Sound
    <2>3. CommandFits("reset", r, Reset(disk, r))
      BY <2>1 DEF CommandFits, Known
    <2> QED BY <2>2, <2>3, CommandIsLife DEF CommandNames
  <1>7. CASE KillOn(p)
    <2>1. KillSet(disk, TRUE).rule = disk.rule
      BY <1>1, KillChange
    <2>2. Sound(KillSet(disk, TRUE))
      BY <1>1, <2>1 DEF Sound
    <2>3. CommandFits("kill on", NoRule, KillSet(disk, TRUE))
      BY <2>1 DEF CommandFits
    <2> QED BY <1>7, <2>2, <2>3, CommandIsLife DEF KillOn, CommandNames
  <1>8. CASE KillOff(p)
    <2>1. KillSet(disk, FALSE).rule = disk.rule
      BY <1>1, KillChange
    <2>2. Sound(KillSet(disk, FALSE))
      BY <1>1, <2>1 DEF Sound
    <2>3. CommandFits("kill off", NoRule, KillSet(disk, FALSE))
      BY <2>1 DEF CommandFits
    <2> QED BY <1>8, <2>2, <2>3, CommandIsLife DEF KillOff, CommandNames
  <1> QED BY <1>2, <1>3, <1>4, <1>5, <1>6, <1>7, <1>8 DEF OperatorStep

LEMMA StepIsLife ==
  ASSUME LifeInv, NEW p \in Procs, StepOf(p), Holds(p)'
  PROVE  LifeCopy(p)'
  <1>0. TypeOK
    BY LifeFacts
  <1>1. CASE p \in Daemons /\ DaemonStep(p)
    BY <1>0, <1>1, StartsLetGo, LoadIsLife, AccountIsLife, WalkIsLife, TriggerIsLife,
       OutcomesAreLife, AttemptIsLife DEF DaemonStep
  <1>2. CASE p \in Operators /\ OperatorStep(p)
    BY <1>2, OperatorIsLife
  <1>3. CASE SharedStep(p)
    <2>1. ~Crash(p)
      BY <1>0, LetsGo DEF Crash, Leave
    <2> QED BY <1>3, <2>1, MergeIsLife, SavesAreLife DEF SharedStep
  <1> QED BY <1>1, <1>2, <1>3 DEF StepOf

-----------------------------------------------------------------------------
(* Every step is a step of the lives, or none. *)

LEMMA RestOf ==
  ASSUME NEW r \in Rules, disk'.rule[r] = disk.rule[r], ledger'[r] = ledger[r]
  PROVE  Life!Rest(r)
  BY DEF Life!Rest, Life!Becomes

LEMMA ShapeOf == TypeOK => Life!Shape
  <1> SUFFICES ASSUME TypeOK
               PROVE  Life!Shape
    OBVIOUS
  <1>1. \A r \in Rules : disk.rule[r].status \in Life!Statuses
    BY DEF TypeOK, Snapshot, RuleState, RuleStatus, Life!Statuses
  <1>2. \A r \in Rules : StageOf(disk.rule[r]) \in Life!Stages
    BY DEF StageOf, Life!Stages
  <1>3. ledger \in [Rules -> Life!Answers]
    BY DEF TypeOK, Orders, Life!Answers
  <1> QED BY <1>1, <1>2, <1>3 DEF Life!Shape

\* The steps that the lives can see.
LEMMA VisibleSteps ==
  ASSUME TypeOK, NEW p \in Procs, StepOf(p)
  PROVE  \/ disk' = disk /\ ledger' = ledger
         \/ p \in Daemons /\ (Attempt(p) \/ Accepted(p) \/ Failed(p))
         \/ pc[p] = "write" /\ Replace(p)
  BY DEF StepOf, DaemonStep, Start, Load, AccountLoaded, AccountFails, Pass, Trigger, Finish,
       RecordDryRun, Block, AttemptNotSent, Raise, Wake, Stop, Interrupt, OperatorStep,
       InitState, Create, Disable, Promote, ResetTriggered, KillOn, KillOff, Command,
       SharedStep, Merge, Save, SaveFails, Crash

LEMMA AskingIsLife ==
  ASSUME LifeInv, NEW d \in Daemons, Attempt(d) \/ Accepted(d) \/ Failed(d), NEW r \in Rules
  PROVE  Life!Step(r) \/ Life!Rest(r)
  <1>1. cur[d] \in AutoSubmit /\ pc[d] \in {"handle", "answer"}
    BY DEF Attempt, Accepted, Failed, LifeInv, SerialInv, SpentInv, TypeInv, AnswerIsLive
  <1>2. TypeOK
    BY <1>1, InHand
  <1>3. CASE r # cur[d]
    <2>1. disk'.rule[r] = disk.rule[r] /\ ledger'[r] = ledger[r]
      BY <1>2, <1>3 DEF Attempt, Accepted, Failed, TypeOK
    <2> QED BY <2>1, RestOf
  <1>4. CASE r = cur[d]
    <2>1. /\ r \in AutoSubmit /\ disk.rule[r].status = "active" /\ StageOf(disk.rule[r]) = "spent"
          /\ pc[d] = "handle" => ledger[r] = "none"
          /\ pc[d] = "answer" => ledger[r] = "sent"
      BY <1>1, <1>4, InHand
    <2>2. /\ disk' = disk
          /\ \/ pc[d] = "handle" /\ ledger'[r] = "sent"
             \/ pc[d] = "answer" /\ ledger'[r] \in {"accepted", "failed"}
      BY <1>2, <1>4 DEF Attempt, Accepted, Failed, TypeOK
    <2>3. CASE pc[d] = "handle" /\ ledger'[r] = "sent"
      BY <2>1, <2>2, <2>3 DEF Life!Step, Life!Ask, Life!Becomes
    <2>4. CASE pc[d] = "answer" /\ ledger'[r] \in {"accepted", "failed"}
      BY <2>1, <2>2, <2>4 DEF Life!Step, Life!Answer, Life!Becomes
    <2> QED BY <2>2, <2>3, <2>4
  <1> QED BY <1>3, <1>4

LEMMA ReplaceIsLife ==
  ASSUME LifeInv, NEW p \in Procs, pc[p] = "write", Replace(p), NEW r \in Rules
  PROVE  Life!Step(r) \/ Life!Rest(r)
  <1> DEFINE x == disk'.rule[r]
             y == disk.rule[r]
  <1>1. /\ TypeOK /\ x = mem[p].rule[r] /\ AheadInv(p)
        /\ ledger'[r] = IF Resets(p, r) THEN "none" ELSE ledger[r]
    BY LifeFacts DEF Replace, Holds, LifeCopy, Resets, TypeOK
  <1>2. CASE Resets(p, r)
    <2>1. y.status # "none" /\ x.status = y.status /\ StageOf(x) = "armed"
      BY <1>1, <1>2 DEF AheadInv
    <2> QED BY <1>1, <1>2, <2>1 DEF Life!Step, Life!Reset, Life!Becomes
  <1>3. CASE ~Resets(p, r)
    <2>1. ledger'[r] = ledger[r]
      BY <1>1, <1>3
    <2>2. \/ x = y
          \/ TickAhead(r, x, y, ledger[r])
          \/ CommandAhead(task[p], x, y)
      BY <1>1, <1>3 DEF AheadInv
    <2>3. CASE x = y
      BY <2>1, <2>3, RestOf
    <2>4. CASE TickAhead(r, x, y, ledger[r])
      <3>1. x.status = "active" /\ y.status = "active"
        BY <2>4 DEF TickAhead
      <3>2. CASE StageOf(y) = "armed" /\ StageOf(x) = "spent"
        BY <2>1, <3>1, <3>2 DEF Life!Step, Life!Spend, Life!Becomes
      <3>3. CASE r \in AutoSubmit /\ StageOf(y) = "spent" /\ StageOf(x) = "armed" /\ ledger[r] = "none"
        BY <2>1, <3>1, <3>3 DEF Life!Step, Life!Block, Life!Becomes
      <3>4. CASE StageOf(y) = "spent" /\ StageOf(x) = "succeeded" /\ ledger[r] = "accepted"
        BY <2>1, <3>1, <3>4 DEF Life!Step, Life!Succeed, Life!Becomes
      <3>5. CASE /\ r \in AutoSubmit
                 /\ StageOf(y) = "spent" /\ StageOf(x) = "review" /\ ledger[r] \in {"none", "failed"}
        BY <2>1, <3>1, <3>5 DEF Life!Step, Life!Fail, Life!Becomes
      <3> QED BY <2>4, <3>2, <3>3, <3>4, <3>5 DEF TickAhead
    <2>5. CASE CommandAhead(task[p], x, y)
      <3>1. CASE y.status = "none" /\ x.status = "active" /\ StageOf(x) = "armed"
        <4>1. StageOf(y) = "armed"
          BY <3>1, BackedFile
        <4> QED BY <2>1, <3>1, <4>1 DEF Life!Step, Life!Create, Life!Becomes
      <3>2. CASE y.status # "none" /\ x.status = "disabled" /\ StageOf(x) = StageOf(y)
        <4>1. y.status \in {"active", "disabled"}
          BY <1>1, <3>2 DEF TypeOK, Snapshot, RuleState, RuleStatus
        <4> QED BY <2>1, <3>2, <4>1 DEF Life!Step, Life!Disable, Life!Rest, Life!Becomes
      <3>3. CASE x.status = y.status /\ StageOf(y) = "succeeded" /\ StageOf(x) = "live"
        BY <2>1, <3>3 DEF Life!Step, Life!Promote, Life!Becomes
      <3> QED BY <2>5, <3>1, <3>2, <3>3 DEF CommandAhead
    <2> QED BY <2>2, <2>3, <2>4, <2>5
  <1> QED BY <1>2, <1>3

LEMMA StepRefines ==
  ASSUME LifeInv, Next, TypeOK'
  PROVE  [Life!Next]_(Life!life)
  <1> PICK p \in Procs : StepOf(p)
    BY StepsHaveOwners
  <1>1. TypeOK
    BY LifeFacts
  <1>2. Life!Shape'
    BY ShapeOf, PTL
  <1>3. CASE disk' = disk /\ ledger' = ledger
    BY <1>3 DEF Life!life
  <1>4. CASE p \in Daemons /\ (Attempt(p) \/ Accepted(p) \/ Failed(p))
    BY <1>2, <1>4, AskingIsLife DEF Life!Next
  <1>5. CASE pc[p] = "write" /\ Replace(p)
    BY <1>2, <1>5, ReplaceIsLife DEF Life!Next
  <1> QED BY <1>1, <1>3, <1>4, <1>5, VisibleSteps

LEMMA LifeInvStep == LifeInv /\ [Next /\ Serial']_vars => LifeInv'
  <1>1. ASSUME LifeInv, Next, Serial'
        PROVE  LifeInv'
    <2> PICK p \in Procs : StepOf(p)
      BY <1>1, StepsHaveOwners
    <2>1. TypeOK /\ SerialInv /\ Serial /\ Sound(disk) /\ Life!Backed
      BY <1>1 DEF LifeInv, SerialInv, SpentInv, TypeInv
    <2>2. SerialInv'
      BY <1>1, <2>1, SerialInvStep
    <2>3. Life!Backed'
      <3>1. TypeOK'
        BY <2>2 DEF SerialInv, SpentInv, TypeInv
      <3> QED BY <1>1, <2>1, <3>1, StepRefines, BackedStep
    <2>4. Sound(disk)'
      <3>1. CASE disk' = disk
        BY <2>1, <3>1 DEF Sound
      <3>2. CASE pc[p] = "write" /\ Replace(p)
        BY <1>1, <3>2, LifeFacts DEF Holds, LifeCopy, Replace, Sound
      <3>3. Attempt(p) \/ Accepted(p) \/ Failed(p) => disk' = disk
        BY DEF Attempt, Accepted, Failed
      <3> QED BY <2>1, <3>1, <3>2, <3>3, VisibleSteps
    <2>5. ASSUME NEW q \in Procs, Holds(q)'
          PROVE  LifeCopy(q)'
      <3>1. CASE q = p
        BY <1>1, <2>5, <3>1, StepIsLife
      <3>2. CASE q # p
        <4>1. Keeps(q) /\ todo'[q] = todo[q]
          BY <2>1, <3>2, StepKeepsOthers, TodoOfOthers
        <4>2. Holds(q) /\ ~Holds(p) /\ ~(Holds(p)')
          BY <1>1, <2>1, <2>5, <3>2, <4>1 DEF Holds, Keeps, Serial
        <4>3. disk' = disk /\ ledger' = ledger
          BY <2>1, <4>2, IdleStep
        <4>4. LifeCopy(q)
          BY <1>1, <4>2 DEF LifeInv
        <4>5. Sound(mem[q])' /\ AheadInv(q)'
          BY <4>1, <4>3, <4>4 DEF LifeCopy, Sound, AheadInv, Resets, Keeps
        <4>6. TodoInv(q)' /\ HandInv(q)'
          BY <4>1, <4>3, <4>4 DEF LifeCopy, TodoInv, HandInv, Keeps
        <4> QED BY <4>5, <4>6 DEF LifeCopy
      <3> QED BY <3>1, <3>2
    <2> QED BY <2>2, <2>3, <2>4, <2>5 DEF LifeInv
  <1>2. ASSUME LifeInv, UNCHANGED vars
        PROVE  LifeInv'
    <2>1. SerialInv'
      BY <1>2, SerialInvStep DEF LifeInv
    <2>2. disk' = disk /\ ledger' = ledger /\ UNCHANGED local
      BY <1>2 DEF vars
    <2>3. Sound(disk)' /\ Life!Backed'
      <3>1. UNCHANGED Life!life
        BY <2>2 DEF Life!life
      <3> QED BY <1>2, <2>2, <3>1, BackedStep DEF LifeInv, Sound
    <2>4. ASSUME NEW q \in Procs, Holds(q)'
          PROVE  LifeCopy(q)'
      <3>1. LifeCopy(q)
        BY <1>2, <2>2, <2>4 DEF LifeInv, Holds, local
      <3>2. Sound(mem[q])' /\ AheadInv(q)'
        BY <2>2, <3>1 DEF LifeCopy, Sound, AheadInv, Resets, local
      <3>3. TodoInv(q)' /\ HandInv(q)'
        BY <2>2, <3>1 DEF LifeCopy, TodoInv, HandInv, local
      <3> QED BY <3>2, <3>3 DEF LifeCopy
    <2> QED BY <2>1, <2>3, <2>4 DEF LifeInv
  <1> QED BY <1>1, <1>2

LEMMA LifeStarts == Init => Life!Init /\ LifeInv
  <1> SUFFICES ASSUME Init
               PROVE  Life!Init /\ LifeInv
    OBVIOUS
  <1>1. SerialInv /\ TypeOK
    <2>1. SpentInv
      BY InitTypeInv, EmptyIsHonest DEF Init, SpentInv, HandlesFresh, Procs
    <2>2. FileInv
      BY DEF Init, FileInv, EmptyState
    <2>3. ASSUME NEW p \in Procs
          PROVE  Roles(p) /\ ~Holds(p)
      BY <2>3 DEF Init, Roles, Holds, CommandNames
    <2> QED BY <2>1, <2>2, <2>3 DEF SerialInv, Serial, SpentInv, TypeInv
  <1>2. \A r \in Rules : /\ disk.rule[r].status = "none" /\ StageOf(disk.rule[r]) = "armed"
                         /\ disk.rule[r].live # "manual_review" /\ ledger[r] = "none"
    BY DEF Init, EmptyState, InitialLive, StageOf
  <1>3. Life!Init
    BY <1>2 DEF Init, Life!Init
  <1>4. Life!Backed
    BY <1>1, <1>2, ShapeOf DEF Life!Backed
  <1>5. \A p \in Procs : ~Holds(p)
    BY DEF Init, Holds
  <1> QED BY <1>1, <1>2, <1>3, <1>4, <1>5 DEF LifeInv, Sound

LEMMA LifeInvHolds == SerialSpec => []LifeInv
  BY LifeStarts, LifeInvStep, PTL DEF SerialSpec

-----------------------------------------------------------------------------
(* The theorems. *)

\* Seen from outside, every rule has the life that Lifecycle promises, whatever
\* crashes, fails or raises.
THEOREM HasLifeTheorem == SerialSpec => HasLife
  <1>1. LifeInv /\ LifeInv' /\ [Next /\ Serial']_vars => [Life!Next]_(Life!life)
    <2>1. ASSUME LifeInv, LifeInv', Next
          PROVE  [Life!Next]_(Life!life)
      <3>1. TypeOK'
        BY <2>1 DEF LifeInv, SerialInv, SpentInv, TypeInv
      <3> QED BY <2>1, <3>1, StepRefines
    <2>2. UNCHANGED vars => UNCHANGED Life!life
      BY DEF vars, Life!life
    <2> QED BY <2>1, <2>2
  <1> QED BY <1>1, LifeStarts, LifeInvHolds, PTL DEF SerialSpec, HasLife, Life!Spec

\* A succeeded or promoted rule in the file has an exit that the exchange
\* accepted since its last reset.
THEOREM SuccessTheorem == SerialSpec => []SuccessIsReal
  <1>1. LifeInv => SuccessIsReal
    BY BackedFile DEF SuccessIsReal, StageOf
  <1> QED BY <1>1, LifeInvHolds, PTL

\* Only an operator's reset takes a rule out of manual review.
THEOREM ReviewTheorem == SerialSpec => ReviewOnlyByReset
  <1>1. ASSUME LifeInv, Next, NEW r \in Rules,
               disk.rule[r].live = "manual_review", disk'.rule[r].live # "manual_review"
        PROVE  \E p \in Operators : task[p] = "reset" /\ cur[p] = r
    <2> PICK p \in Procs : StepOf(p)
      BY <1>1, StepsHaveOwners
    <2>1. TypeOK /\ disk' # disk
      BY <1>1, LifeFacts
    <2>2. pc[p] = "write" /\ disk' = mem[p]
      BY <2>1, OnlyReplaceWrites
    <2>3. AheadInv(p) /\ Sound(mem[p]) /\ Roles(p)
      BY <1>1, <2>2, LifeFacts DEF Holds, LifeCopy
    <2>4. StageOf(disk.rule[r]) = "review"
      BY <1>1 DEF StageOf
    <2>5. StageOf(mem[p].rule[r]) # "review"
      BY <1>1, <2>2 DEF StageOf
    <2>6. Resets(p, r)
      <3>1. disk.rule[r].status # "none"
        BY <1>1, <2>4, BackedFile
      <3>2. ~TickAhead(r, mem[p].rule[r], disk.rule[r], ledger[r])
        BY <2>4 DEF TickAhead
      <3>3. ~CommandAhead(task[p], mem[p].rule[r], disk.rule[r])
        BY <2>4, <2>5, <3>1 DEF CommandAhead
      <3> QED BY <1>1, <2>3, <2>4, <2>5, <3>2, <3>3 DEF AheadInv
    <2> QED BY <2>3, <2>6 DEF Resets, Roles, Procs, CommandNames
  <1>2. LifeInv /\ [Next /\ Serial']_vars =>
          [\A r \in Rules :
             disk.rule[r].live = "manual_review" /\ disk'.rule[r].live # "manual_review"
               => \E p \in Operators : task[p] = "reset" /\ cur[p] = r]_vars
    BY <1>1
  <1> QED BY <1>2, LifeInvHolds, PTL DEF SerialSpec, ReviewOnlyByReset
=============================================================================
