---------------------------- MODULE SerialProofs ----------------------------
(***************************************************************************)
(* Theorems about SerialSpec: what the steps of one process keep while no  *)
(* other holds a snapshot, for every set of rules, daemons and operators   *)
(* and every fault.                                                        *)
(*                                                                         *)
(* The invariant compares the snapshot of the one process that holds one   *)
(* with the file, and both with what was asked of the exchange.            *)
(***************************************************************************)
EXTENDS DaemonProofs

\* What is in the file is of rules that exist, and an exit that was asked of the
\* exchange has its trigger spent there.
FileInv ==
  \A r \in Rules :
    /\ disk.rule[r].status # "none" => r \in created
    /\ ledger[r] # "none" => r \in created /\ disk.rule[r].triggered

\* What daemons do and what operators do are different jobs.
Roles(p) ==
  /\ todo[p] \subseteq created
  /\ p \in Daemons => /\ task[p] \notin CommandNames
                      /\ pc[p] \in {"account", "rules", "handle", "answer"} => task[p] = "tick"
  /\ p \in Operators => /\ pc[p] \in {"off", "merge", "write"}
                        /\ pc[p] # "off" => task[p] \in CommandNames

\* p is resetting r, so what was asked of the exchange is about to be settled.
Resets(p, r) == task[p] = "reset" /\ cur[p] = r

\* How the rules of the snapshot p holds compare with the file.
RulesInv(p) ==
  \A r \in Rules :
    /\ mem[p].rule[r].status # "none" => r \in created
    /\ disk.rule[r].status # "none" => mem[p].rule[r].status # "none"
    /\ disk.rule[r].status = "disabled" => mem[p].rule[r].status = "disabled"
    /\ ledger[r] # "none" => mem[p].rule[r].triggered \/ Resets(p, r)

\* The kill switch in the snapshot p holds is the file's, or what the command says.
SwitchInv(p) ==
  /\ task[p] \notin {"kill on", "kill off"} => mem[p].kill = disk.kill
  /\ task[p] = "kill on" => mem[p].kill
  /\ task[p] = "kill off" => ~mem[p].kill
  /\ pc[p] = "merge" => task[p] \notin {"kill on", "kill off"}

\* The live exit that daemon p is handling has not been sent before, and is
\* spent in the file before it is sent.
ExitInv(p) == p \in Daemons /\ cur[p] \in AutoSubmit =>
  /\ cur[p] \in created
  /\ pc[p] \in {"merge", "write", "handle"} => ledger[cur[p]] = "none"
  /\ pc[p] \in {"handle", "answer"} => disk.rule[cur[p]].triggered

CopyInv(p) == RulesInv(p) /\ SwitchInv(p) /\ ExitInv(p)

SerialInv ==
  /\ SpentInv
  /\ Serial
  /\ FileInv
  /\ \A p \in Procs : Roles(p) /\ (Holds(p) => CopyInv(p))

-----------------------------------------------------------------------------
(* What each change does to the parts of a snapshot the invariant reads. *)

\* t has the kill switch, the statuses and the triggers of s.
Alike(s, t) ==
  /\ t.kill = s.kill
  /\ \A r \in Rules : /\ t.rule[r].status = s.rule[r].status
                      /\ t.rule[r].triggered = s.rule[r].triggered

\* The same, but for the trigger of rule r.
AlikeBut(s, t, r) ==
  /\ t.kill = s.kill
  /\ \A x \in Rules : /\ t.rule[x].status = s.rule[x].status
                      /\ x # r => t.rule[x].triggered = s.rule[x].triggered

LEMMA AlikeChanges ==
  ASSUME NEW s \in Snapshot, NEW r \in Rules, NEW l
  PROVE  /\ Alike(s, WithLive(s, r, l))
         /\ Alike(s, Promoted(s, r))
         /\ Alike(s, LiveSuccess(s, r))
         /\ Alike(s, ManualReview(s, r))
         /\ AlikeBut(s, Rearmed(s, r), r)
         /\ AlikeBut(s, Triggered(s, r), r) /\ Triggered(s, r).rule[r].triggered
         /\ AlikeBut(s, Reset(s, r), r)
  <1>1. \A k : Alike(s, WithLive(s, r, k))
    BY DEF Alike, WithLive, Snapshot, RuleState
  <1>2. AlikeBut(s, Rearmed(s, r), r)
    BY DEF AlikeBut, Rearmed, Snapshot, RuleState
  <1>3. AlikeBut(s, Triggered(s, r), r) /\ Triggered(s, r).rule[r].triggered
    BY DEF AlikeBut, Triggered, Snapshot, RuleState
  <1>4. Alike(s, s)
    BY DEF Alike
  <1>5. Rearmed(s, r) \in Snapshot
    BY DEF Rearmed, Snapshot, RuleState
  <1>6. AlikeBut(s, WithLive(Rearmed(s, r), r, "canary_pending"), r)
    <2>1. Alike(Rearmed(s, r), WithLive(Rearmed(s, r), r, "canary_pending"))
      BY <1>5 DEF Alike, WithLive, Snapshot, RuleState
    <2> QED BY <1>2, <2>1 DEF Alike, AlikeBut
  <1> QED
    BY <1>1, <1>2, <1>3, <1>4, <1>6 DEF Promoted, LiveSuccess, ManualReview, Reset

LEMMA CreatedChange ==
  ASSUME NEW s \in Snapshot, NEW r \in Rules
  PROVE  /\ Created(s, r).kill = s.kill
         /\ Created(s, r).rule[r].status = "active"
         /\ \A x \in Rules \ {r} : Created(s, r).rule[x] = s.rule[x]
  BY DEF Created, Snapshot

LEMMA DisabledChange ==
  ASSUME NEW s \in Snapshot, NEW r \in Rules
  PROVE  /\ Disabled(s, r).kill = s.kill
         /\ \A x \in Rules :
              /\ Disabled(s, r).rule[x].triggered = s.rule[x].triggered
              /\ Disabled(s, r).rule[x].status = IF x = r THEN "disabled" ELSE s.rule[x].status
  BY DEF Disabled, Snapshot, RuleState

LEMMA KillChange ==
  ASSUME NEW s \in Snapshot, NEW latest \in Snapshot, NEW k
  PROVE  /\ KillSet(s, k).kill = k /\ KillSet(s, k).rule = s.rule
         /\ KillMerged(s, latest).kill = (s.kill \/ latest.kill)
         /\ KillMerged(s, latest).rule = s.rule
  BY DEF KillSet, KillMerged, Snapshot

-----------------------------------------------------------------------------
(* What a step of p keeps of p and of the file. *)

Ok(p) == FileInv /\ Roles(p) /\ (Holds(p) => CopyInv(p))

LEMMA FactsOf ==
  ASSUME SerialInv, NEW p \in Procs
  PROVE  /\ TypeOK /\ Ok(p) /\ AnswerIsLive
         /\ mem[p] \in Snapshot /\ disk \in Snapshot
         /\ cur[p] \in Rules \cup {NoRule} /\ todo[p] \subseteq Rules
         /\ p \in Daemons => HandlesFresh(p)
  BY DEF SerialInv, SpentInv, TypeInv, TypeOK, Ok

\* p lets go of its snapshot, and nothing else changes.
LEMMA SwitchIsOk ==
  ASSUME SerialInv, NEW p \in Procs, NEW l \in {"off", "load", "sleep"},
         NEW t, t \notin CommandNames, Switch(p, l, t),
         p \in Operators => l = "off",
         FileInv'
  PROVE  Ok(p)'
  <1>1. pc'[p] = l /\ task'[p] = t /\ todo'[p] = {}
    BY FactsOf DEF Switch, TypeOK
  <1> QED BY <1>1, DaemonAssumption DEF Ok, Roles, Holds

LEMMA StartsAreOk ==
  ASSUME SerialInv, NEW d \in Daemons,
         Start(d) \/ Wake(d) \/ Stop(d) \/ Interrupt(d) \/ AccountFails(d) \/ Raise(d)
  PROVE  Ok(d)'
  <1>1. d \in Procs /\ d \notin Operators /\ FileInv
    BY DaemonAssumption DEF Procs, SerialInv
  <1>2. FileInv'
    BY <1>1 DEF FileInv, Start, Wake, Stop, Interrupt, AccountFails, Raise
  <1>3. \A t \in {"idle", "started", "tick", "completed", "stopped"} : t \notin CommandNames
    BY DEF CommandNames
  <1>4. \E l \in {"off", "load"}, t \in {"idle", "started", "tick", "completed", "stopped"} :
          Switch(d, l, t)
    BY DEF Start, Wake, Stop, Interrupt, AccountFails, Raise, TickFails, EndTick, Leave
  <1> QED BY <1>1, <1>2, <1>3, <1>4, SwitchIsOk

LEMMA LoadIsOk ==
  ASSUME SerialInv, NEW d \in Daemons, Load(d)
  PROVE  Ok(d)'
  <1>1. d \in Procs /\ d \notin Operators
    BY DaemonAssumption DEF Procs
  <1>2. TypeOK /\ Ok(d) /\ HandlesFresh(d) /\ pc[d] = "load"
    BY <1>1, FactsOf DEF Load
  <1>3. /\ mem'[d] = disk /\ cur'[d] = cur[d] /\ task' = task /\ todo' = todo
        /\ disk' = disk /\ ledger' = ledger /\ created' = created
        /\ pc'[d] \in {"account", "merge"} /\ (pc'[d] = "account" => task[d] = "tick")
    BY <1>1, <1>2 DEF Load, TypeOK
  <1>4. cur[d] = NoRule
    BY <1>2 DEF HandlesFresh
  <1>5. FileInv' /\ Roles(d)'
    BY <1>1, <1>2, <1>3 DEF Ok, FileInv, Roles
  <1>6. RulesInv(d)' /\ SwitchInv(d)' /\ ExitInv(d)'
    BY <1>1, <1>2, <1>3, <1>4, AutoSubmitAssumption, DaemonAssumption
       DEF Ok, FileInv, Roles, RulesInv, SwitchInv, ExitInv, CommandNames
  <1> QED BY <1>5, <1>6 DEF Ok, CopyInv

LEMMA WalksAreOk ==
  ASSUME SerialInv, NEW d \in Daemons, AccountLoaded(d) \/ Pass(d) \/ Finish(d)
  PROVE  Ok(d)'
  <1>1. d \in Procs /\ d \notin Operators
    BY DaemonAssumption DEF Procs
  <1>2. TypeOK /\ Ok(d) /\ HandlesFresh(d) /\ pc[d] \in {"account", "rules"} /\ todo[d] \subseteq Rules
    BY <1>1, FactsOf DEF AccountLoaded, Pass, Finish
  <1>3. /\ mem' = mem /\ cur' = cur /\ task' = task
        /\ disk' = disk /\ ledger' = ledger /\ created' = created
        /\ pc'[d] \in {"rules", "merge"}
    BY <1>1, <1>2 DEF AccountLoaded, Pass, Finish, TypeOK
  <1>4. CopyInv(d) /\ cur[d] = NoRule /\ task[d] = "tick" /\ FileInv /\ Roles(d)
    BY <1>2 DEF Ok, Holds, Roles, HandlesFresh
  <1>5. todo'[d] \subseteq created
    <2>1. CASE AccountLoaded(d)
      <3>1. todo'[d] = {r \in Rules : mem[d].rule[r].status = "active"}
        BY <1>1, <1>2, <2>1 DEF AccountLoaded, TypeOK
      <3> QED BY <1>4, <3>1 DEF CopyInv, RulesInv
    <2>2. CASE Pass(d) \/ Finish(d)
      BY <1>1, <1>2, <1>4, <2>2 DEF Pass, Finish, TypeOK, Roles
    <2> QED BY <2>1, <2>2
  <1>6. FileInv' /\ Roles(d)'
    BY <1>1, <1>3, <1>4, <1>5 DEF FileInv, Roles
  <1>7. RulesInv(d)' /\ SwitchInv(d)' /\ ExitInv(d)'
    BY <1>1, <1>3, <1>4, AutoSubmitAssumption, DaemonAssumption
       DEF CopyInv, RulesInv, SwitchInv, ExitInv, Resets
  <1> QED BY <1>6, <1>7 DEF Ok, CopyInv

LEMMA TriggerIsOk ==
  ASSUME SerialInv, NEW d \in Daemons, Trigger(d)
  PROVE  Ok(d)'
  <1>1. d \in Procs /\ d \notin Operators
    BY DaemonAssumption DEF Procs
  <1>2. TypeOK /\ Ok(d) /\ mem[d] \in Snapshot /\ todo[d] \subseteq Rules /\ pc[d] = "rules"
    BY <1>1, FactsOf DEF Trigger
  <1>3. CopyInv(d) /\ task[d] = "tick" /\ FileInv /\ Roles(d)
    BY <1>1, <1>2 DEF Ok, Holds, Roles
  <1> PICK r \in todo[d] :
        /\ ~mem[d].rule[r].triggered
        /\ mem'  = [mem EXCEPT ![d] = Triggered(mem[d], r)]
        /\ cur'  = [cur EXCEPT ![d] = r]
        /\ todo' = [todo EXCEPT ![d] = @ \ {r}]
        /\ pc'   = [pc EXCEPT ![d] = IF r \in AutoSubmit THEN "merge" ELSE "handle"]
    BY DEF Trigger
  <1>4. /\ r \in Rules /\ r \in created
        /\ mem'[d] = Triggered(mem[d], r) /\ cur'[d] = r /\ task' = task
        /\ todo'[d] = todo[d] \ {r}
        /\ disk' = disk /\ ledger' = ledger /\ created' = created
        /\ pc'[d] = IF r \in AutoSubmit THEN "merge" ELSE "handle"
    BY <1>1, <1>2, <1>3 DEF Trigger, TypeOK, Roles
  <1>5. AlikeBut(mem[d], mem'[d], r) /\ mem'[d].rule[r].triggered
    BY <1>2, <1>4, AlikeChanges
  <1>6. ledger[r] = "none"
    BY <1>3, <1>4 DEF CopyInv, RulesInv, Resets
  <1>7. FileInv' /\ Roles(d)'
    BY <1>1, <1>3, <1>4 DEF FileInv, Roles
  <1>8. RulesInv(d)'
    BY <1>3, <1>4, <1>5 DEF CopyInv, RulesInv, Resets, AlikeBut
  <1>9. SwitchInv(d)'
    BY <1>3, <1>4, <1>5 DEF CopyInv, SwitchInv, AlikeBut
  <1>10. ExitInv(d)'
    BY <1>4, <1>6 DEF ExitInv
  <1> QED BY <1>7, <1>8, <1>9, <1>10 DEF Ok, CopyInv

\* The outcome of an exit goes into the copy; what the exchange was asked may
\* only change for the rule that was handled.
LEMMA NextRuleIsOk ==
  ASSUME SerialInv, NEW d \in Daemons, NEW s, NextRule(d, s),
         pc[d] \in {"handle", "answer"},
         NEW r \in Rules, r = cur[d],
         Alike(mem[d], s) \/ (AlikeBut(mem[d], s, r) /\ ledger'[r] = "none"),
         \A x \in Rules \ {r} : ledger'[x] = ledger[x],
         ledger'[r] # "none" => mem[d].rule[r].triggered,
         FileInv',
         UNCHANGED <<disk, created, task, todo>>
  PROVE  Ok(d)'
  <1>1. d \in Procs /\ d \notin Operators
    BY DaemonAssumption DEF Procs
  <1>2. TypeOK /\ Ok(d)
    BY <1>1, FactsOf
  <1>3. CopyInv(d) /\ task[d] = "tick" /\ FileInv /\ Roles(d)
    BY <1>1, <1>2 DEF Ok, Holds, Roles
  <1>4. mem'[d] = s /\ cur'[d] = NoRule /\ pc'[d] = "rules"
    BY <1>1, <1>2 DEF NextRule, TypeOK
  <1>5. Roles(d)'
    BY <1>1, <1>3, <1>4 DEF Roles
  <1>6. RulesInv(d)'
    <2>1. ASSUME NEW x \in Rules
          PROVE  /\ s.rule[x].status = mem[d].rule[x].status
                 /\ ledger'[x] # "none" => s.rule[x].triggered
      BY <1>3, <2>1 DEF CopyInv, RulesInv, Resets, Alike, AlikeBut
    <2> QED BY <1>3, <1>4, <2>1 DEF CopyInv, RulesInv
  <1>7. SwitchInv(d)'
    BY <1>3, <1>4 DEF CopyInv, SwitchInv, Alike, AlikeBut
  <1>8. ExitInv(d)'
    BY <1>4, AutoSubmitAssumption, DaemonAssumption DEF ExitInv
  <1> QED BY <1>5, <1>6, <1>7, <1>8 DEF Ok, CopyInv

LEMMA OutcomesAreOk ==
  ASSUME SerialInv, NEW d \in Daemons,
         RecordDryRun(d) \/ Block(d) \/ AttemptNotSent(d) \/ Accepted(d) \/ Failed(d)
  PROVE  Ok(d)'
  <1> DEFINE r == cur[d]
  <1>1. d \in Procs /\ d \notin Operators
    BY DaemonAssumption DEF Procs
  <1>2. /\ TypeOK /\ Ok(d) /\ AnswerIsLive /\ HandlesFresh(d) /\ mem[d] \in Snapshot
        /\ r \in Rules \cup {NoRule} /\ pc[d] \in {"handle", "answer"}
    BY <1>1, FactsOf DEF RecordDryRun, Block, AttemptNotSent, Accepted, Failed
  <1>3. CopyInv(d) /\ task[d] = "tick" /\ FileInv /\ Roles(d)
    BY <1>1, <1>2 DEF Ok, Holds, Roles
  <1>4. r \in Rules
    BY <1>2, AutoSubmitAssumption
       DEF RecordDryRun, Block, AttemptNotSent, Accepted, Failed, AnswerIsLive
  <1>5. mem[d].rule[r].triggered
    BY <1>2, <1>4, DaemonAssumption DEF HandlesFresh
  <1>6. Alike(mem[d], mem[d])
    BY DEF Alike
  <1>7. CASE RecordDryRun(d)
    <2>1. FileInv'
      BY <1>3, <1>7 DEF RecordDryRun, FileInv
    <2> QED BY <1>2, <1>4, <1>5, <1>6, <1>7, <2>1, NextRuleIsOk DEF RecordDryRun
  <1>8. CASE AttemptNotSent(d)
    <2>1. FileInv'
      BY <1>3, <1>8 DEF AttemptNotSent, FileInv
    <2> QED BY <1>2, <1>4, <1>5, <1>8, <2>1, AlikeChanges, NextRuleIsOk DEF AttemptNotSent
  <1>9. CASE Block(d)
    <2>1. FileInv'
      BY <1>3, <1>9 DEF Block, FileInv
    <2>2. ledger'[r] = "none"
      BY <1>3, <1>9 DEF Block, CopyInv, ExitInv
    <2> QED BY <1>2, <1>4, <1>5, <1>9, <2>1, <2>2, AlikeChanges, NextRuleIsOk DEF Block
  <1>10. CASE Accepted(d) \/ Failed(d)
    <2>1. r \in AutoSubmit
      BY <1>2, <1>10 DEF Accepted, Failed, AnswerIsLive
    <2>2. r \in created /\ disk.rule[r].triggered
      BY <1>2, <1>3, <1>10, <2>1 DEF CopyInv, ExitInv, Accepted, Failed
    <2>3. (\A x \in Rules \ {r} : ledger'[x] = ledger[x]) /\ disk' = disk /\ created' = created
      BY <1>2, <1>10 DEF Accepted, Failed, TypeOK
    <2>4. FileInv'
      BY <1>3, <2>2, <2>3 DEF FileInv
    <2> QED
      BY <1>2, <1>4, <1>5, <1>10, <2>3, <2>4, AlikeChanges, NextRuleIsOk DEF Accepted, Failed
  <1> QED BY <1>7, <1>8, <1>9, <1>10

LEMMA AttemptIsOk ==
  ASSUME SerialInv, NEW d \in Daemons, Attempt(d)
  PROVE  Ok(d)'
  <1> DEFINE r == cur[d]
  <1>1. d \in Procs /\ d \notin Operators
    BY DaemonAssumption DEF Procs
  <1>2. TypeOK /\ Ok(d) /\ HandlesFresh(d) /\ pc[d] = "handle" /\ r \in AutoSubmit /\ r \in Rules
    BY <1>1, FactsOf, AutoSubmitAssumption DEF Attempt
  <1>3. CopyInv(d) /\ task[d] = "tick" /\ FileInv /\ Roles(d)
    BY <1>1, <1>2 DEF Ok, Holds, Roles
  <1>4. r \in created /\ disk.rule[r].triggered /\ mem[d].rule[r].triggered
    BY <1>2, <1>3, DaemonAssumption DEF CopyInv, ExitInv, HandlesFresh
  <1>5. /\ disk' = disk /\ created' = created /\ mem' = mem /\ cur' = cur /\ task' = task /\ todo' = todo
        /\ pc'[d] = "answer"
        /\ \A x \in Rules \ {r} : ledger'[x] = ledger[x]
    BY <1>1, <1>2 DEF Attempt, TypeOK
  <1>6. FileInv' /\ Roles(d)'
    BY <1>1, <1>3, <1>4, <1>5 DEF FileInv, Roles
  <1>7. RulesInv(d)'
    BY <1>3, <1>4, <1>5 DEF CopyInv, RulesInv, Resets
  <1>8. SwitchInv(d)' /\ ExitInv(d)'
    BY <1>3, <1>4, <1>5 DEF CopyInv, SwitchInv, ExitInv
  <1> QED BY <1>6, <1>7, <1>8 DEF Ok, CopyInv

LEMMA MergeIsOk ==
  ASSUME SerialInv, NEW p \in Procs, Merge(p)
  PROVE  Ok(p)'
  <1>1. TypeOK /\ Ok(p) /\ mem[p] \in Snapshot /\ disk \in Snapshot /\ pc[p] = "merge"
    BY FactsOf DEF Merge
  <1>2. CopyInv(p) /\ FileInv /\ Roles(p)
    BY <1>1 DEF Ok, Holds
  <1>3. /\ mem'[p] = KillMerged(mem[p], disk) /\ pc'[p] = "write"
        /\ disk' = disk /\ ledger' = ledger /\ created' = created
        /\ task' = task /\ cur' = cur /\ todo' = todo
    BY <1>1 DEF Merge, TypeOK
  <1>4. mem'[p].rule = mem[p].rule /\ mem'[p].kill = disk.kill
    <2>1. mem[p].kill = disk.kill /\ disk.kill \in BOOLEAN
      BY <1>1, <1>2 DEF CopyInv, SwitchInv, Snapshot
    <2> QED BY <1>1, <1>3, <2>1, KillChange
  <1>5. FileInv' /\ Roles(p)'
    BY <1>1, <1>2, <1>3 DEF FileInv, Roles
  <1>6. RulesInv(p)'
    BY <1>2, <1>3, <1>4 DEF CopyInv, RulesInv, Resets
  <1>7. SwitchInv(p)'
    BY <1>1, <1>2, <1>3, <1>4 DEF CopyInv, SwitchInv
  <1>8. ExitInv(p)'
    BY <1>1, <1>2, <1>3 DEF CopyInv, ExitInv
  <1> QED BY <1>5, <1>6, <1>7, <1>8 DEF Ok, CopyInv

\* Replacing the file by the copy keeps what is asked of the file.
LEMMA ReplaceKeepsFile ==
  ASSUME SerialInv, NEW p \in Procs, pc[p] = "write",
         Replace(p) \/ UNCHANGED <<disk, overrun, ledger>>, UNCHANGED created
  PROVE  FileInv'
  <1>1. TypeOK /\ CopyInv(p) /\ FileInv
    BY FactsOf DEF Ok, Holds
  <1>2. CASE UNCHANGED <<disk, overrun, ledger>>
    BY <1>1, <1>2 DEF FileInv
  <1>3. CASE Replace(p)
    <2>1. ASSUME NEW r \in Rules
          PROVE  /\ disk'.rule[r].status # "none" => r \in created
                 /\ ledger'[r] # "none" => r \in created /\ disk'.rule[r].triggered
      BY <1>1, <1>3, <2>1 DEF Replace, TypeOK, CopyInv, RulesInv, Resets, FileInv
    <2> QED BY <2>1 DEF FileInv
  <1> QED BY <1>2, <1>3

\* A save that lets go of the copy.
LEMMA LettingGoIsOk ==
  ASSUME SerialInv, NEW p \in Procs, pc[p] = "write",
         Replace(p) \/ UNCHANGED <<disk, overrun, ledger>>, UNCHANGED created,
         NEW l, NEW t, Switch(p, l, t),
         <<l, t>> \in {<<"load", "tick">>, <<"load", "completed">>, <<"load", "stopped">>,
                       <<"sleep", "idle">>, <<"off", "idle">>},
         p \in Operators => l = "off"
  PROVE  Ok(p)'
  <1>1. FileInv'
    BY ReplaceKeepsFile
  <1>2. l \in {"off", "load", "sleep"} /\ t \notin CommandNames
    BY DEF CommandNames
  <1> QED BY <1>1, <1>2, SwitchIsOk

LEMMA SavesAreOk ==
  ASSUME SerialInv, NEW p \in Procs, Save(p) \/ SaveFails(p)
  PROVE  Ok(p)'
  <1>1. /\ TypeOK /\ Ok(p) /\ mem[p] \in Snapshot /\ pc[p] = "write"
        /\ CopyInv(p) /\ FileInv /\ Roles(p) /\ (p \in Daemons => HandlesFresh(p))
    BY FactsOf DEF Ok, Holds, Save, SaveFails
  <1>2. p \in Operators => task[p] \in CommandNames
    BY <1>1 DEF Roles
  <1>3. ASSUME NEW l, NEW t, Switch(p, l, t),
               <<l, t>> \in {<<"load", "tick">>, <<"load", "completed">>, <<"load", "stopped">>,
                             <<"sleep", "idle">>, <<"off", "idle">>},
               p \in Operators => l = "off"
        PROVE  Ok(p)'
    BY <1>1, <1>3, LettingGoIsOk DEF Save, SaveFails
  <1>4. CASE /\ task[p] = "tick" /\ cur[p] # NoRule
             /\ Replace(p) /\ UNCHANGED created
             /\ pc' = [pc EXCEPT ![p] = "handle"]
             /\ UNCHANGED <<task, mem, cur, todo>>
    <2>1. p \notin Operators /\ p \in Daemons
      BY <1>2, <1>4 DEF CommandNames, Procs
    <2>2. disk' = mem[p] /\ ledger' = ledger /\ pc'[p] = "handle"
      BY <1>1, <1>4 DEF Replace, TypeOK
    <2>3. FileInv'
      BY <1>1, <1>4, ReplaceKeepsFile
    <2>4. Roles(p)'
      BY <1>1, <1>4, <2>1, <2>2 DEF Roles
    <2>5. RulesInv(p)'
      BY <1>1, <1>4, <2>2 DEF CopyInv, RulesInv, Resets
    <2>6. SwitchInv(p)'
      BY <1>4, <2>2 DEF SwitchInv
    <2>7. ExitInv(p)'
      BY <1>1, <1>4, <2>2 DEF CopyInv, ExitInv, HandlesFresh
    <2> QED BY <2>3, <2>4, <2>5, <2>6, <2>7 DEF Ok, CopyInv
  <1>5. CASE Save(p) /\ ~(task[p] = "tick" /\ cur[p] # NoRule)
    <2>1. AfterSave(p)
      BY <1>5 DEF Save
    <2> QED BY <1>2, <1>3, <1>5, <2>1 DEF AfterSave, EndTick, Leave, CommandNames
  <1>6. CASE SaveFails(p)
    <2>1. AfterFailedSave(p)
      BY <1>6 DEF SaveFails
    <2> QED
      BY <1>2, <1>3, <2>1 DEF AfterFailedSave, TickFails, EndTick, Leave, CommandNames
  <1>7. CASE Save(p) /\ task[p] = "tick" /\ cur[p] # NoRule
    <2>1. AfterSave(p) /\ Replace(p) /\ UNCHANGED created
      BY <1>7 DEF Save
    <2> QED BY <1>4, <1>7, <2>1 DEF AfterSave, CommandNames
  <1> QED BY <1>5, <1>6, <1>7

LEMMA CrashIsOk ==
  ASSUME SerialInv, NEW p \in Procs, Crash(p)
  PROVE  Ok(p)'
  <1>1. FileInv'
    BY DEF SerialInv, FileInv, Crash
  <1>2. "idle" \notin CommandNames
    BY DEF CommandNames
  <1> QED BY <1>1, <1>2, SwitchIsOk DEF Crash, Leave

\* A command's copy is the file with its change made.
Fits(name, r, s) ==
  /\ \A x \in Rules :
       /\ s.rule[x].status # "none" => x \in created'
       /\ disk.rule[x].status # "none" => s.rule[x].status # "none"
       /\ disk.rule[x].status = "disabled" => s.rule[x].status = "disabled"
       /\ ledger[x] # "none" => s.rule[x].triggered \/ (name = "reset" /\ r = x)
  /\ name \notin {"kill on", "kill off"} => s.kill = disk.kill
  /\ name = "kill on" => s.kill
  /\ name = "kill off" => ~s.kill

LEMMA CommandIsOk ==
  ASSUME SerialInv, NEW p \in Operators, NEW name \in CommandNames, NEW r, NEW s,
         NEW l \in {"merge", "write"}, Command(p, name, r, l, s), Fits(name, r, s),
         created \subseteq created', l = "merge" => name = "reset"
  PROVE  Ok(p)'
  <1>1. p \in Procs /\ p \notin Daemons
    BY DaemonAssumption DEF Procs
  <1>2. TypeOK /\ FileInv /\ Roles(p)
    BY <1>1, FactsOf DEF Ok
  <1>3. /\ pc'[p] = l /\ task'[p] = name /\ cur'[p] = r /\ mem'[p] = s /\ todo' = todo
        /\ disk' = disk /\ ledger' = ledger
    BY <1>1, <1>2 DEF Command, TypeOK
  <1>4. FileInv' /\ Roles(p)'
    BY <1>1, <1>2, <1>3 DEF FileInv, Roles
  <1>5. RulesInv(p)'
    BY <1>3 DEF RulesInv, Resets, Fits
  <1>6. SwitchInv(p)' /\ ExitInv(p)'
    BY <1>1, <1>3 DEF SwitchInv, ExitInv, Fits
  <1> QED BY <1>4, <1>5, <1>6 DEF Ok, CopyInv

LEMMA OperatorIsOk ==
  ASSUME SerialInv, NEW p \in Operators, OperatorStep(p)
  PROVE  Ok(p)'
  <1>1. TypeOK /\ FileInv /\ disk \in Snapshot
    BY FactsOf DEF Ok, Procs
  <1>2. CASE InitState(p)
    <2>1. Fits("init", NoRule, disk) /\ created' = created
      BY <1>1, <1>2 DEF Fits, FileInv, InitState
    <2> QED BY <1>2, <2>1, CommandIsOk DEF InitState, CommandNames
  <1>3. CASE Create(p)
    <2> PICK r \in Rules \ created :
          Command(p, "create", r, "write", Created(disk, r)) /\ created' = created \cup {r}
      BY <1>3 DEF Create
    <2>1. disk.rule[r].status = "none" /\ ledger[r] = "none"
      BY <1>1 DEF FileInv
    <2>2. Fits("create", r, Created(disk, r))
      BY <1>1, <2>1, CreatedChange DEF FileInv, Fits
    <2> QED BY <2>2, CommandIsOk DEF CommandNames
  <1>4. CASE Disable(p)
    <2> PICK r \in Rules :
          /\ Known(r)
          /\ Command(p, "disable", r, "write", Disabled(disk, r))
          /\ UNCHANGED created
      BY <1>4 DEF Disable
    <2>1. Fits("disable", r, Disabled(disk, r))
      BY <1>1, DisabledChange DEF FileInv, Known, Fits
    <2> QED BY <2>1, CommandIsOk DEF CommandNames
  <1>5. CASE Promote(p)
    <2> PICK r \in Rules :
          Command(p, "promote", r, "write", Promoted(disk, r)) /\ UNCHANGED created
      BY <1>5 DEF Promote
    <2>1. Alike(disk, Promoted(disk, r))
      BY <1>1, AlikeChanges
    <2>2. Fits("promote", r, Promoted(disk, r))
      BY <1>1, <2>1 DEF FileInv, Alike, Fits
    <2> QED BY <2>2, CommandIsOk DEF CommandNames
  <1>6. CASE ResetTriggered(p)
    <2> PICK r \in Rules :
          Command(p, "reset", r, "merge", Reset(disk, r)) /\ UNCHANGED created
      BY <1>6 DEF ResetTriggered
    <2>1. AlikeBut(disk, Reset(disk, r), r)
      BY <1>1, AlikeChanges
    <2>2. Fits("reset", r, Reset(disk, r))
      BY <1>1, <2>1 DEF FileInv, AlikeBut, Fits
    <2> QED BY <2>2, CommandIsOk DEF CommandNames
  <1>7. CASE KillOn(p)
    <2>1. KillSet(disk, TRUE).kill /\ KillSet(disk, TRUE).rule = disk.rule
      BY <1>1 DEF KillSet, Snapshot
    <2>2. Fits("kill on", NoRule, KillSet(disk, TRUE)) /\ created' = created
      BY <1>1, <1>7, <2>1 DEF KillOn, FileInv, Fits
    <2> QED BY <1>7, <2>2, CommandIsOk DEF KillOn, CommandNames
  <1>8. CASE KillOff(p)
    <2>1. ~KillSet(disk, FALSE).kill /\ KillSet(disk, FALSE).rule = disk.rule
      BY <1>1 DEF KillSet, Snapshot
    <2>2. Fits("kill off", NoRule, KillSet(disk, FALSE)) /\ created' = created
      BY <1>1, <1>8, <2>1 DEF KillOff, FileInv, Fits
    <2> QED BY <1>8, <2>2, CommandIsOk DEF KillOff, CommandNames
  <1> QED BY <1>2, <1>3, <1>4, <1>5, <1>6, <1>7, <1>8 DEF OperatorStep

LEMMA StepIsOk ==
  ASSUME SerialInv, NEW p \in Procs, StepOf(p)
  PROVE  Ok(p)'
  <1>1. CASE p \in Daemons /\ DaemonStep(p)
    BY <1>1, StartsAreOk, LoadIsOk, WalksAreOk, TriggerIsOk, OutcomesAreOk, AttemptIsOk
       DEF DaemonStep
  <1>2. CASE p \in Operators /\ OperatorStep(p)
    BY <1>2, OperatorIsOk
  <1>3. CASE SharedStep(p)
    BY <1>3, MergeIsOk, SavesAreOk, CrashIsOk DEF SharedStep
  <1> QED BY <1>1, <1>2, <1>3 DEF StepOf

-----------------------------------------------------------------------------
(* What a step of p leaves true of the others. *)

LEMMA TodoOfOthers ==
  ASSUME TypeOK, NEW p \in Procs, StepOf(p), NEW q \in Procs \ {p}
  PROVE  todo'[q] = todo[q] /\ created \subseteq created'
  <1>1. \A l, t : Switch(p, l, t) => todo'[q] = todo[q]
    BY DEF Switch, TypeOK
  <1>2. CASE p \in Daemons /\ DaemonStep(p)
    <2>1. created' = created
      BY <1>2 DEF DaemonStep, Start, Load, AccountLoaded, AccountFails, Pass, Trigger,
           Finish, RecordDryRun, Block, Attempt, AttemptNotSent, Accepted, Failed, Raise,
           Wake, Stop, Interrupt
    <2>2. CASE Start(p) \/ Wake(p) \/ Stop(p) \/ Interrupt(p) \/ AccountFails(p) \/ Raise(p)
      BY <1>1, <2>1, <2>2
         DEF Start, Wake, Stop, Interrupt, AccountFails, Raise, TickFails, EndTick, Leave
    <2>3. CASE AccountLoaded(p) \/ Pass(p) \/ Trigger(p)
      BY <2>1, <2>3 DEF AccountLoaded, Pass, Trigger, TypeOK
    <2>4. CASE Load(p) \/ Finish(p) \/ RecordDryRun(p) \/ Block(p) \/ Attempt(p)
               \/ AttemptNotSent(p) \/ Accepted(p) \/ Failed(p)
      BY <2>1, <2>4 DEF Load, Finish, RecordDryRun, Block, Attempt, AttemptNotSent, Accepted, Failed
    <2> QED BY <1>2, <2>2, <2>3, <2>4 DEF DaemonStep
  <1>3. CASE p \in Operators /\ OperatorStep(p)
    <2>1. created \subseteq created'
      BY <1>3 DEF OperatorStep, InitState, Create, Disable, Promote, ResetTriggered, KillOn, KillOff
    <2>2. todo' = todo
      BY <1>3 DEF OperatorStep, InitState, Create, Disable, Promote, ResetTriggered, KillOn,
           KillOff, Command
    <2> QED BY <2>1, <2>2
  <1>4. CASE SharedStep(p)
    <2>1. created' = created
      BY <1>4 DEF SharedStep, Merge, Save, SaveFails, Crash
    <2>2. todo'[q] = todo[q]
      BY <1>1, <1>4
         DEF SharedStep, Merge, Save, SaveFails, AfterSave, AfterFailedSave, EndTick, TickFails,
             Crash, Leave
    <2> QED BY <2>1, <2>2
  <1> QED BY <1>2, <1>3, <1>4 DEF StepOf

\* A process that holds no snapshot before its step and none after it has
\* touched neither the file nor the exchange.
LEMMA IdleStep ==
  ASSUME SerialInv, NEW p \in Procs, StepOf(p), ~Holds(p), ~(Holds(p)')
  PROVE  disk' = disk /\ ledger' = ledger /\ created' = created
  <1>0. TypeOK /\ pc[p] \in {"off", "load", "sleep"} /\ pc'[p] \in {"off", "load", "sleep"}
    BY FactsOf DEF Holds
  <1>1. CASE p \in Daemons /\ DaemonStep(p)
    BY <1>0, <1>1 DEF DaemonStep, Start, Load, AccountLoaded, AccountFails, Pass, Trigger,
         Finish, RecordDryRun, Block, Attempt, AttemptNotSent, Accepted, Failed, Raise,
         Wake, Stop, Interrupt
  <1>2. CASE p \in Operators /\ OperatorStep(p)
    <2>1. ASSUME NEW name, NEW r, NEW s, NEW l \in {"merge", "write"}, Command(p, name, r, l, s)
          PROVE  FALSE
      BY <1>0, <2>1 DEF Command, TypeOK
    <2> QED
      BY <1>2, <2>1
         DEF OperatorStep, InitState, Create, Disable, Promote, ResetTriggered, KillOn, KillOff
  <1>3. CASE SharedStep(p)
    BY <1>0, <1>3 DEF SharedStep, Merge, Save, SaveFails, Crash
  <1> QED BY <1>1, <1>2, <1>3 DEF StepOf

LEMMA SerialInvStep == SerialInv /\ [Next /\ Serial']_vars => SerialInv'
  <1>1. ASSUME SerialInv, Next, Serial'
        PROVE  SerialInv'
    <2> PICK p \in Procs : StepOf(p)
      BY <1>1, StepsHaveOwners
    <2>1. SpentInv' /\ TypeOK /\ Serial
      BY <1>1, SpentInvStep DEF SerialInv, SpentInv, TypeInv
    <2>2. Ok(p)'
      BY <1>1, StepIsOk
    <2>3. ASSUME NEW q \in Procs \ {p}
          PROVE  Roles(q)' /\ (Holds(q)' => CopyInv(q)')
      <3>1. Roles(q) /\ (Holds(q) => CopyInv(q))
        BY <1>1 DEF SerialInv
      <3>2. Keeps(q) /\ todo'[q] = todo[q] /\ created \subseteq created'
        BY <2>1, StepKeepsOthers, TodoOfOthers
      <3>3. Roles(q)'
        BY <3>1, <3>2 DEF Roles, Keeps
      <3>4. ASSUME Holds(q)'
            PROVE  CopyInv(q)'
        <4>1. Holds(q) /\ ~Holds(p) /\ ~(Holds(p)')
          BY <1>1, <2>1, <3>2, <3>4 DEF Holds, Keeps, Serial
        <4>2. disk' = disk /\ ledger' = ledger /\ created' = created
          BY <1>1, <4>1, IdleStep
        <4>3. RulesInv(q)' /\ SwitchInv(q)'
          BY <3>1, <3>2, <4>1, <4>2 DEF CopyInv, RulesInv, SwitchInv, Resets, Keeps
        <4>4. ExitInv(q)'
          BY <3>1, <3>2, <4>1, <4>2 DEF CopyInv, ExitInv, Keeps
        <4> QED BY <4>3, <4>4 DEF CopyInv
      <3> QED BY <3>3, <3>4
    <2> QED BY <1>1, <2>1, <2>2, <2>3 DEF SerialInv, Ok
  <1>2. ASSUME SerialInv, UNCHANGED vars
        PROVE  SerialInv'
    <2>1. SpentInv'
      BY <1>2, SpentInvStep DEF SerialInv
    <2>2. Serial' /\ FileInv'
      BY <1>2 DEF SerialInv, Serial, FileInv, Holds, vars, local
    <2>3. ASSUME NEW p \in Procs
          PROVE  Roles(p)' /\ (Holds(p)' => CopyInv(p)')
      <3>1. Roles(p) /\ (Holds(p) => CopyInv(p))
        BY <1>2 DEF SerialInv
      <3>2. Roles(p)' /\ (Holds(p)' => Holds(p))
        BY <1>2, <3>1 DEF Roles, Holds, vars, local
      <3>3. CopyInv(p) => RulesInv(p)' /\ SwitchInv(p)'
        BY <1>2 DEF CopyInv, RulesInv, SwitchInv, Resets, vars, local
      <3>4. CopyInv(p) => ExitInv(p)'
        BY <1>2 DEF CopyInv, ExitInv, vars, local
      <3> QED BY <3>1, <3>2, <3>3, <3>4 DEF CopyInv
    <2> QED BY <2>1, <2>2, <2>3 DEF SerialInv
  <1> QED BY <1>1, <1>2

LEMMA SerialInvHolds == SerialSpec => []SerialInv
  <1>1. Init => SerialInv
    <2> SUFFICES ASSUME Init
                 PROVE  SerialInv
      OBVIOUS
    <2>1. SpentInv
      BY InitTypeInv, EmptyIsHonest DEF Init, SpentInv, HandlesFresh, Procs
    <2>2. FileInv
      BY DEF Init, FileInv, EmptyState
    <2>3. ASSUME NEW p \in Procs
          PROVE  Roles(p) /\ ~Holds(p)
      BY <2>3 DEF Init, Roles, Holds, CommandNames
    <2> QED BY <2>1, <2>2, <2>3 DEF SerialInv, Serial
  <1> QED BY <1>1, SerialInvStep, PTL DEF SerialSpec

-----------------------------------------------------------------------------
(* The theorems. *)

LEMMA OnlyReplaceWrites ==
  ASSUME TypeOK, NEW p \in Procs, StepOf(p), disk' # disk
  PROVE  pc[p] = "write" /\ disk' = mem[p]
  BY DEF StepOf, DaemonStep, Start, Load, AccountLoaded, AccountFails, Pass, Trigger, Finish,
       RecordDryRun, Block, Attempt, AttemptNotSent, Accepted, Failed, Raise, Wake, Stop,
       Interrupt, OperatorStep, InitState, Create, Disable, Promote, ResetTriggered, KillOn,
       KillOff, Command, SharedStep, Merge, Save, SaveFails, Crash, Replace

\* No exit is sent again before an operator has reset its rule, whatever crashes,
\* fails or raises in between.
THEOREM SecondExitTheorem == SerialSpec => NoSecondExit
  <1>1. ASSUME SerialInv, Next, NEW d \in Daemons, Sends(d)
        PROVE  ledger[cur[d]] = "none"
    <2>1. d \in Procs /\ TypeOK
      BY <1>1 DEF Procs, SerialInv, SpentInv, TypeInv
    <2>2. cur[d] \in AutoSubmit /\ pc[d] = "handle"
      BY <1>1, <2>1, OnlyAttemptSends, AttemptPassesGates
    <2>3. ExitInv(d)
      BY <1>1, <2>1, <2>2 DEF SerialInv, Holds, CopyInv
    <2> QED BY <2>2, <2>3 DEF ExitInv
  <1>2. SerialInv /\ [Next /\ Serial']_vars =>
          [\A d \in Daemons : Sends(d) => ledger[cur[d]] = "none"]_vars
    BY <1>1
  <1> QED BY <1>2, SerialInvHolds, PTL DEF SerialSpec, NoSecondExit

\* No exit is sent while the kill switch is on in the file.
THEOREM KillGateTheorem == SerialSpec => NoAttemptUnderKill
  <1>1. ASSUME SerialInv, Next, NEW d \in Daemons, Sends(d)
        PROVE  ~disk.kill
    <2>1. d \in Procs /\ TypeOK
      BY <1>1 DEF Procs, SerialInv, SpentInv, TypeInv
    <2>2. ~mem[d].kill /\ pc[d] = "handle"
      BY <1>1, <2>1, OnlyAttemptSends, AttemptPassesGates
    <2>3. SwitchInv(d) /\ task[d] \notin CommandNames
      BY <1>1, <2>1, <2>2 DEF SerialInv, Holds, CopyInv, Roles
    <2> QED BY <2>2, <2>3 DEF SwitchInv, CommandNames
  <1>2. SerialInv /\ [Next /\ Serial']_vars =>
          [\A d \in Daemons : Sends(d) => ~disk.kill]_vars
    BY <1>1
  <1> QED BY <1>2, SerialInvHolds, PTL DEF SerialSpec, NoAttemptUnderKill

\* The kill switch in the file changes only when a kill-switch command saves.
THEOREM KillCommandTheorem == SerialSpec => KillOnlyByCommand
  <1>1. ASSUME SerialInv, Next, disk'.kill # disk.kill
        PROVE  \E p \in Operators :
                 pc[p] = "write" /\ task[p] = IF disk'.kill THEN "kill on" ELSE "kill off"
    <2> PICK p \in Procs : StepOf(p)
      BY <1>1, StepsHaveOwners
    <2>1. TypeOK /\ SpentInv
      BY <1>1 DEF SerialInv, SpentInv, TypeInv
    <2>2. pc[p] = "write" /\ disk' = mem[p]
      BY <1>1, <2>1, OnlyReplaceWrites
    <2>3. SwitchInv(p) /\ Roles(p)
      BY <1>1, <2>2 DEF SerialInv, Holds, CopyInv
    <2>4. task[p] \in {"kill on", "kill off"} /\ p \in Operators
      BY <1>1, <2>2, <2>3 DEF SwitchInv, Roles, Procs, CommandNames
    <2> QED BY <2>2, <2>3, <2>4 DEF SwitchInv
  <1>2. SerialInv /\ [Next /\ Serial']_vars =>
          [disk'.kill # disk.kill =>
             \E p \in Operators :
               pc[p] = "write" /\ task[p] = IF disk'.kill THEN "kill on" ELSE "kill off"]_vars
    BY <1>1
  <1> QED BY <1>2, SerialInvHolds, PTL DEF SerialSpec, KillOnlyByCommand

\* Every save keeps of each rule what the file says of its status, as far as that
\* may not change.
LEMMA StatusesStay ==
  ASSUME SerialInv, Next, NEW r \in Rules
  PROVE  /\ disk.rule[r].status = "disabled" => disk'.rule[r].status = "disabled"
         /\ disk.rule[r].status # "none" => disk'.rule[r].status # "none"
  <1> PICK p \in Procs : StepOf(p)
    BY StepsHaveOwners
  <1>1. TypeOK
    BY DEF SerialInv, SpentInv, TypeInv
  <1>2. CASE disk' = disk
    BY <1>2
  <1>3. CASE disk' # disk
    <2>1. pc[p] = "write" /\ disk' = mem[p]
      BY <1>1, <1>3, OnlyReplaceWrites
    <2>2. RulesInv(p)
      BY <2>1 DEF SerialInv, Holds, CopyInv
    <2> QED BY <2>1, <2>2 DEF RulesInv
  <1> QED BY <1>2, <1>3

\* No command and no tick enables a rule that is disabled in the file.
THEOREM DisabledTheorem == SerialSpec => DisabledSticks
  <1>1. SerialInv /\ [Next /\ Serial']_vars =>
          [\A r \in Rules : disk.rule[r].status = "disabled"
                               => disk'.rule[r].status = "disabled"]_vars
    BY StatusesStay
  <1> QED BY <1>1, SerialInvHolds, PTL DEF SerialSpec, DisabledSticks

\* A rule that has been saved stays in the file.
THEOREM CreatedTheorem == SerialSpec => CreatedStays
  <1>1. SerialInv /\ [Next /\ Serial']_vars =>
          [\A r \in Rules : disk.rule[r].status # "none"
                               => disk'.rule[r].status # "none"]_vars
    BY StatusesStay
  <1> QED BY <1>1, SerialInvHolds, PTL DEF SerialSpec, CreatedStays
=============================================================================
