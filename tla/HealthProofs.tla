---------------------------- MODULE HealthProofs ----------------------------
(***************************************************************************)
(* Theorems about Health, for any writers, iterations, starts and faults.  *)
(***************************************************************************)
EXTENDS Health, TLAPS

\* A health that may be in a file when the time is n.
Good(h, n) == h \in DaemonHealth /\ Agree(h) /\ h.completed <= n

GoodInv ==
  /\ Good(file, clock) /\ Good(copy, clock)
  /\ \A w \in Writers : Good(held[w], clock)
  /\ result.market => result.account

\* How the failures in the file and in the copy stand to those there were.
CountInv ==
  ~lost =>
    /\ ~Unsaved => file.failures = streak
    /\ pc \in {"started save", "tick", "tick save", "stopped save"} => copy.failures = streak
    /\ Unsaved /\ ~Succeeded(result) => streak = file.failures + 1

ResultInv ==
  /\ Unsaved /\ Succeeded(result) => streak = 0
  /\ pc = "completed save" /\ Succeeded(result) => copy.failures = 0
  /\ ~lost /\ pc = "completed save" /\ ~Succeeded(result) => copy.failures = streak

\* The mode in the copy, by where the runner is; in the file it is ModeTells.
ModeInv ==
  /\ pc \in {"started save", "completed save"} => copy.mode = "running"
  /\ ~lost /\ pc \in {"tick", "tick save"} => copy.mode = "running"
  /\ pc = "stopped save" => copy.mode = "stopped"

\* A run goes on only while it has ticks left.
RoundInv == pc \in Looping => iterations < MaxIterations

HealthInv == TypeOK /\ GoodInv /\ CountInv /\ ResultInv /\ ModeInv /\ ModeTells /\ RoundInv

-----------------------------------------------------------------------------
(* What the marks make of a health. *)

\* The fields of a mark.
LEMMA StartedFields ==
  ASSUME NEW h \in DaemonHealth, NEW m \in {"running", "stopped"}, NEW s \in Nat
  PROVE  /\ [h EXCEPT !.mode = m, !.started = s] \in DaemonHealth
         /\ [h EXCEPT !.mode = m, !.started = s].mode = m
         /\ [h EXCEPT !.mode = m, !.started = s].failures = h.failures
         /\ Agree(h) => Agree([h EXCEPT !.mode = m, !.started = s])
         /\ [h EXCEPT !.mode = m, !.started = s].completed = h.completed
  BY DEF DaemonHealth, Agree

LEMMA StoppedFields ==
  ASSUME NEW h \in DaemonHealth
  PROVE  /\ [h EXCEPT !.mode = "stopped"] \in DaemonHealth
         /\ [h EXCEPT !.mode = "stopped"].mode = "stopped"
         /\ [h EXCEPT !.mode = "stopped"].failures = h.failures
         /\ Agree(h) => Agree([h EXCEPT !.mode = "stopped"])
         /\ [h EXCEPT !.mode = "stopped"].completed = h.completed
  BY DEF DaemonHealth, Agree

LEMMA MarkedFields ==
  ASSUME NEW h \in DaemonHealth, NEW r \in TickResult, NEW n \in Nat,
         startedAt \in Nat, Agree(h), h.completed < n, r.market => r.account
  PROVE  /\ Marked(h, r, n) \in DaemonHealth
         /\ Marked(h, r, n).mode = "running"
         /\ Marked(h, r, n).completed = n
         /\ Marked(h, r, n).failures = IF Succeeded(r) THEN 0 ELSE h.failures + 1
         /\ Agree(Marked(h, r, n))
  <1> DEFINE m == Marked(h, r, n)
  <1>1. /\ h.failures \in Nat /\ h.market \in Nat /\ h.account \in Nat /\ h.completed \in Nat
        /\ r.account \in BOOLEAN /\ r.market \in BOOLEAN
    BY DEF DaemonHealth, TickResult
  <1>2. /\ m.mode = "running" /\ m.completed = n
        /\ m.failures = IF Succeeded(r) THEN 0 ELSE h.failures + 1
        /\ m.account = IF r.account THEN n ELSE h.account
        /\ m.market = IF r.market THEN n ELSE h.market
        /\ m.error = ~Succeeded(r)
    BY DEF Marked, DaemonHealth
  <1>3. m \in DaemonHealth
    <2>1. /\ (IF r.account THEN n ELSE h.account) \in Nat
          /\ (IF r.market THEN n ELSE h.market) \in Nat
          /\ (IF Succeeded(r) THEN 0 ELSE h.failures + 1) \in Nat
      BY <1>1
    <2>2. (~Succeeded(r)) \in BOOLEAN
      OBVIOUS
    <2> QED BY <2>1, <2>2 DEF Marked, DaemonHealth
  <1>4. Agree(m)
    <2> HIDE DEF m
    <2>1. h.market <= h.account /\ h.account <= h.completed
      BY DEF Agree
    <2>2. m.market <= m.account /\ m.account <= m.completed
      BY <1>1, <1>2, <2>1
    <2>3. m.failures = 0 <=> Succeeded(r)
      BY <1>1, <1>2
    <2>4. m.market = n <=> r.market
      BY <1>1, <1>2, <2>1
    <2>5. m.failures > 0 <=> ~Succeeded(r)
      BY <1>1, <1>2
    <2> QED BY <1>2, <2>2, <2>3, <2>4, <2>5 DEF Agree, Succeeded
  <1> QED BY <1>2, <1>3, <1>4
-----------------------------------------------------------------------------
(* What each step keeps. *)

LEMMA InitHealth == Init => HealthInv
  <1> SUFFICES ASSUME Init
               PROVE  HealthInv
    OBVIOUS
  <1>1. NewHealth \in DaemonHealth /\ Agree(NewHealth) /\ NewHealth.completed = 0
        /\ NewHealth.failures = 0
    BY DEF NewHealth, DaemonHealth, Agree
  <1>2. TypeOK
    <2>1. pc \in Labels /\ iterations \in 0..MaxIterations /\ starts \in 0..MaxStarts
      BY HealthAssumption DEF Init, Labels
    <2>2. result \in TickResult
      BY DEF Init, TickResult
    <2> QED BY <1>1, <2>1, <2>2 DEF Init, TypeOK
  <1>3. GoodInv
    BY <1>1 DEF Init, GoodInv, Good
  <1>4. CountInv /\ ResultInv /\ ModeInv /\ ModeTells /\ RoundInv
    BY <1>1 DEF Init, CountInv, ResultInv, ModeInv, ModeTells, Unsaved, Ticking, RoundInv,
                Looping, Marking
  <1> QED BY <1>2, <1>3, <1>4 DEF HealthInv

LEMMA StartKeeps ==
  ASSUME HealthInv, Start
  PROVE  HealthInv'
  <1>1. TypeOK /\ GoodInv /\ CountInv /\ ResultInv /\ ModeInv /\ ModeTells /\ RoundInv
    BY DEF HealthInv
  <1>2. /\ pc \in {"off", "dead"} /\ pc' = "loop"
        /\ starts < MaxStarts /\ starts' = starts + 1 /\ iterations' = 0
        /\ UNCHANGED <<file, held, copy, result, startedAt, clock, streak, lost>>
    BY <1>1 DEF Start, Goes, Ends, TypeOK
  <1>3. TypeOK'
    <2>1. starts' \in 0..MaxStarts /\ iterations' \in 0..MaxIterations
      BY <1>1, <1>2, HealthAssumption DEF TypeOK
    <2>2. pc' \in Labels
      BY <1>2 DEF Labels, Looping
    <2> QED BY <1>1, <1>2, <2>1, <2>2 DEF TypeOK
  <1>4. GoodInv'
    BY <1>1, <1>2 DEF GoodInv, Good, TypeOK, DaemonHealth, TickResult, Nothing
  <1>5. CountInv' /\ ResultInv'
    BY <1>1, <1>2 DEF CountInv, ResultInv, Unsaved, TypeOK, Succeeded, Nothing, Looping, Ticking, Marking, Stopping
  <1>6. ModeInv' /\ ModeTells'
    BY <1>1, <1>2 DEF ModeInv, ModeTells, Unsaved, TypeOK, Looping, Ticking, Marking, Stopping
  <1>8. RoundInv'
    BY <1>2, HealthAssumption DEF RoundInv
  <1> QED BY <1>3, <1>4, <1>5, <1>6, <1>8 DEF HealthInv

LEMMA BeginKeeps ==
  ASSUME HealthInv, Begin
  PROVE  HealthInv'
  <1>1. TypeOK /\ GoodInv /\ CountInv /\ ResultInv /\ ModeInv /\ ModeTells /\ RoundInv
    BY DEF HealthInv
  <1>2. /\ pc = "loop" /\ pc' = "started"
        /\ clock' = clock + 1 /\ startedAt' = clock + 1
        /\ UNCHANGED <<file, held, copy, result, iterations, starts, streak, lost>>
    BY <1>1 DEF Begin, Goes, Ends, TypeOK
  <1>3. TypeOK'
    BY <1>1, <1>2, HealthAssumption DEF TypeOK, Labels, Looping, Ticking, Marking, Stopping, TickResult, Nothing
  <1>4. GoodInv'
    BY <1>1, <1>2 DEF GoodInv, Good, TypeOK, DaemonHealth, TickResult, Nothing
  <1>5. CountInv' /\ ResultInv'
    BY <1>1, <1>2 DEF CountInv, ResultInv, Unsaved, TypeOK, Succeeded, Nothing, Looping, Ticking, Marking, Stopping
  <1>6. ModeInv' /\ ModeTells'
    BY <1>1, <1>2 DEF ModeInv, ModeTells, Unsaved, TypeOK, Looping, Ticking, Marking, Stopping
  <1>8. RoundInv'
    BY <1>1, <1>2, HealthAssumption DEF RoundInv, TypeOK, Looping, Ticking, Marking, Stopping
  <1> QED BY <1>3, <1>4, <1>5, <1>6, <1>8 DEF HealthInv

LEMMA AskedToStopKeeps ==
  ASSUME HealthInv, AskedToStop
  PROVE  HealthInv'
  <1>1. TypeOK /\ GoodInv /\ CountInv /\ ResultInv /\ ModeInv /\ ModeTells /\ RoundInv
    BY DEF HealthInv
  <1>2. /\ pc \in {"loop", "sleep"} /\ pc' = "stopped"
        /\ UNCHANGED <<file, held, copy, result, startedAt, iterations, starts, clock, streak, lost>>
    BY <1>1 DEF AskedToStop, Goes, Ends, TypeOK
  <1>3. TypeOK'
    BY <1>1, <1>2, HealthAssumption DEF TypeOK, Labels, Looping, Ticking, Marking, Stopping, TickResult, Nothing
  <1>4. GoodInv'
    BY <1>1, <1>2 DEF GoodInv, Good, TypeOK, DaemonHealth, TickResult, Nothing
  <1>5. CountInv' /\ ResultInv'
    BY <1>1, <1>2 DEF CountInv, ResultInv, Unsaved, TypeOK, Succeeded, Nothing, Looping, Ticking, Marking, Stopping
  <1>6. ModeInv' /\ ModeTells'
    BY <1>1, <1>2 DEF ModeInv, ModeTells, Unsaved, TypeOK, Looping, Ticking, Marking, Stopping
  <1>8. RoundInv'
    BY <1>1, <1>2, HealthAssumption DEF RoundInv, TypeOK, Looping, Ticking, Marking, Stopping
  <1> QED BY <1>3, <1>4, <1>5, <1>6, <1>8 DEF HealthInv

LEMMA MarkStartedKeeps ==
  ASSUME HealthInv, MarkStarted
  PROVE  HealthInv'
  <1>1. TypeOK /\ GoodInv /\ CountInv /\ ResultInv /\ ModeInv /\ ModeTells /\ RoundInv
    BY DEF HealthInv
  <1>2. /\ pc = "started" /\ pc' = "started save"
        /\ copy' \in DaemonHealth /\ Agree(copy')
        /\ copy'.mode = "running" /\ copy'.failures = file.failures /\ copy'.completed = file.completed
        /\ UNCHANGED <<file, held, result, startedAt, iterations, starts, clock, streak, lost>>
    BY <1>1, StartedFields DEF MarkStarted, Goes, Ends, TypeOK, GoodInv, Good
  <1>3. TypeOK'
    BY <1>1, <1>2, HealthAssumption DEF TypeOK, Labels, Looping, Ticking, Marking, Stopping, TickResult, Nothing
  <1>4. GoodInv'
    BY <1>1, <1>2 DEF GoodInv, Good, TypeOK, DaemonHealth, TickResult, Nothing
  <1>5. CountInv' /\ ResultInv'
    BY <1>1, <1>2 DEF CountInv, ResultInv, Unsaved, TypeOK, Succeeded, Nothing, Looping, Ticking, Marking, Stopping
  <1>6. ModeInv' /\ ModeTells'
    BY <1>1, <1>2 DEF ModeInv, ModeTells, Unsaved, TypeOK, Looping, Ticking, Marking, Stopping
  <1>8. RoundInv'
    BY <1>1, <1>2, HealthAssumption DEF RoundInv, TypeOK, Looping, Ticking, Marking, Stopping
  <1> QED BY <1>3, <1>4, <1>5, <1>6, <1>8 DEF HealthInv

LEMMA SaveStartedKeeps ==
  ASSUME HealthInv, SaveStarted
  PROVE  HealthInv'
  <1>1. TypeOK /\ GoodInv /\ CountInv /\ ResultInv /\ ModeInv /\ ModeTells /\ RoundInv
    BY DEF HealthInv
  <1>2. /\ pc = "started save" /\ pc' = "tick load"
        /\ file' = copy
        /\ UNCHANGED <<held, copy, result, startedAt, iterations, starts, clock, streak, lost>>
    BY <1>1 DEF SaveStarted, Goes, Ends, TypeOK
  <1>3. TypeOK'
    BY <1>1, <1>2, HealthAssumption DEF TypeOK, Labels, Looping, Ticking, Marking, Stopping, TickResult, Nothing
  <1>4. GoodInv'
    BY <1>1, <1>2 DEF GoodInv, Good, TypeOK, DaemonHealth, TickResult, Nothing
  <1>5. CountInv' /\ ResultInv'
    BY <1>1, <1>2 DEF CountInv, ResultInv, Unsaved, TypeOK, Succeeded, Nothing, Looping, Ticking, Marking, Stopping
  <1>6. ModeInv' /\ ModeTells'
    BY <1>1, <1>2 DEF ModeInv, ModeTells, Unsaved, TypeOK, Looping, Ticking, Marking, Stopping
  <1>8. RoundInv'
    BY <1>1, <1>2, HealthAssumption DEF RoundInv, TypeOK, Looping, Ticking, Marking, Stopping
  <1> QED BY <1>3, <1>4, <1>5, <1>6, <1>8 DEF HealthInv

LEMMA TickLoadsKeeps ==
  ASSUME HealthInv, TickLoads
  PROVE  HealthInv'
  <1>1. TypeOK /\ GoodInv /\ CountInv /\ ResultInv /\ ModeInv /\ ModeTells /\ RoundInv
    BY DEF HealthInv
  <1>2. /\ pc = "tick load" /\ pc' = "tick"
        /\ copy' = file
        /\ UNCHANGED <<file, held, result, startedAt, iterations, starts, clock, streak, lost>>
    BY <1>1 DEF TickLoads, Goes, Ends, TypeOK
  <1>3. TypeOK'
    BY <1>1, <1>2, HealthAssumption DEF TypeOK, Labels, Looping, Ticking, Marking, Stopping, TickResult, Nothing
  <1>4. GoodInv'
    BY <1>1, <1>2 DEF GoodInv, Good, TypeOK, DaemonHealth, TickResult, Nothing
  <1>5. CountInv' /\ ResultInv'
    BY <1>1, <1>2 DEF CountInv, ResultInv, Unsaved, TypeOK, Succeeded, Nothing, Looping, Ticking, Marking, Stopping
  <1>6. ModeInv' /\ ModeTells'
    BY <1>1, <1>2 DEF ModeInv, ModeTells, Unsaved, TypeOK, Looping, Ticking, Marking, Stopping
  <1>8. RoundInv'
    BY <1>1, <1>2, HealthAssumption DEF RoundInv, TypeOK, Looping, Ticking, Marking, Stopping
  <1> QED BY <1>3, <1>4, <1>5, <1>6, <1>8 DEF HealthInv

LEMMA TickSavesTriggerKeeps ==
  ASSUME HealthInv, TickSavesTrigger
  PROVE  HealthInv'
  <1>1. TypeOK /\ GoodInv /\ CountInv /\ ResultInv /\ ModeInv /\ ModeTells /\ RoundInv
    BY DEF HealthInv
  <1>2. /\ pc = "tick"
        /\ file' = copy
        /\ UNCHANGED <<held, pc, copy, result, startedAt, iterations, starts, clock, streak, lost>>
    BY <1>1 DEF TickSavesTrigger, Goes, Ends, TypeOK
  <1>3. TypeOK'
    BY <1>1, <1>2, HealthAssumption DEF TypeOK, Labels, Looping, Ticking, Marking, Stopping, TickResult, Nothing
  <1>4. GoodInv'
    BY <1>1, <1>2 DEF GoodInv, Good, TypeOK, DaemonHealth, TickResult, Nothing
  <1>5. CountInv' /\ ResultInv'
    BY <1>1, <1>2 DEF CountInv, ResultInv, Unsaved, TypeOK, Succeeded, Nothing, Looping, Ticking, Marking, Stopping
  <1>6. ModeInv' /\ ModeTells'
    BY <1>1, <1>2 DEF ModeInv, ModeTells, Unsaved, TypeOK, Looping, Ticking, Marking, Stopping
  <1>8. RoundInv'
    BY <1>1, <1>2, HealthAssumption DEF RoundInv, TypeOK, Looping, Ticking, Marking, Stopping
  <1> QED BY <1>3, <1>4, <1>5, <1>6, <1>8 DEF HealthInv

LEMMA AccountFailsKeeps ==
  ASSUME HealthInv, AccountFails
  PROVE  HealthInv'
  <1>1. TypeOK /\ GoodInv /\ CountInv /\ ResultInv /\ ModeInv /\ ModeTells /\ RoundInv
    BY DEF HealthInv
  <1>2. /\ pc = "tick" /\ pc' = "completed"
        /\ result' = Nothing /\ streak' = streak + 1
        /\ UNCHANGED <<file, held, copy, startedAt, iterations, starts, clock, lost>>
    BY <1>1 DEF AccountFails, Goes, Ends, TypeOK, Nothing, Succeeded
  <1>3. TypeOK'
    BY <1>1, <1>2, HealthAssumption DEF TypeOK, Labels, Looping, Ticking, Marking, Stopping, TickResult, Nothing
  <1>4. GoodInv'
    BY <1>1, <1>2 DEF GoodInv, Good, TypeOK, DaemonHealth, TickResult, Nothing
  <1>5. CountInv' /\ ResultInv'
    BY <1>1, <1>2 DEF CountInv, ResultInv, Unsaved, TypeOK, Succeeded, Nothing, Looping, Ticking, Marking, Stopping
  <1>6. ModeInv' /\ ModeTells'
    BY <1>1, <1>2 DEF ModeInv, ModeTells, Unsaved, TypeOK, Looping, Ticking, Marking, Stopping
  <1>8. RoundInv'
    BY <1>1, <1>2, HealthAssumption DEF RoundInv, TypeOK, Looping, Ticking, Marking, Stopping
  <1> QED BY <1>3, <1>4, <1>5, <1>6, <1>8 DEF HealthInv

LEMMA TickGoesThroughKeeps ==
  ASSUME HealthInv, TickGoesThrough
  PROVE  HealthInv'
  <1>1. TypeOK /\ GoodInv /\ CountInv /\ ResultInv /\ ModeInv /\ ModeTells /\ RoundInv
    BY DEF HealthInv
  <1>2. /\ pc = "tick" /\ pc' = "tick save"
        /\ result' \in TickResult /\ result'.account
        /\ UNCHANGED <<file, held, copy, startedAt, iterations, starts, clock, streak, lost>>
    <2>1. PICK m \in BOOLEAN : result' = [account |-> TRUE, market |-> m]
      BY DEF TickGoesThrough
    <2>2. result' \in TickResult /\ result'.account
      BY <2>1 DEF TickResult
    <2> QED BY <2>2 DEF TickGoesThrough, Goes
  <1>3. TypeOK'
    BY <1>1, <1>2, HealthAssumption DEF TypeOK, Labels, Looping, Ticking, Marking, Stopping, TickResult, Nothing
  <1>4. GoodInv'
    BY <1>1, <1>2 DEF GoodInv, Good, TypeOK, DaemonHealth, TickResult, Nothing
  <1>5. CountInv' /\ ResultInv'
    BY <1>1, <1>2 DEF CountInv, ResultInv, Unsaved, TypeOK, Succeeded, Nothing, Looping, Ticking, Marking, Stopping
  <1>6. ModeInv' /\ ModeTells'
    BY <1>1, <1>2 DEF ModeInv, ModeTells, Unsaved, TypeOK, Looping, Ticking, Marking, Stopping
  <1>8. RoundInv'
    BY <1>1, <1>2, HealthAssumption DEF RoundInv, TypeOK, Looping, Ticking, Marking, Stopping
  <1> QED BY <1>3, <1>4, <1>5, <1>6, <1>8 DEF HealthInv

LEMMA TickSavesKeeps ==
  ASSUME HealthInv, TickSaves
  PROVE  HealthInv'
  <1>1. TypeOK /\ GoodInv /\ CountInv /\ ResultInv /\ ModeInv /\ ModeTells /\ RoundInv
    BY DEF HealthInv
  <1>2. /\ pc = "tick save" /\ pc' = "completed"
        /\ file' = copy
        /\ streak' = IF Succeeded(result) THEN 0 ELSE streak + 1
        /\ result' = result
        /\ UNCHANGED <<held, copy, startedAt, iterations, starts, clock, lost>>
    BY <1>1 DEF TickSaves, Goes, Ends, TypeOK
  <1>3. TypeOK'
    <2>1. streak' \in Nat
      <3>1. streak \in Nat
        BY <1>1 DEF TypeOK
      <3>2. streak' = 0 \/ streak' = streak + 1
        BY <1>2
      <3> QED BY <3>1, <3>2
    <2>2. pc' \in Labels
      BY <1>2 DEF Labels, Looping, Ticking
    <2> QED BY <1>1, <1>2, <2>1, <2>2 DEF TypeOK
  <1>4. GoodInv'
    BY <1>1, <1>2 DEF GoodInv, Good, TypeOK, DaemonHealth, TickResult, Nothing
  <1>5. CountInv' /\ ResultInv'
    BY <1>1, <1>2 DEF CountInv, ResultInv, Unsaved, TypeOK, Succeeded, Nothing, Looping, Ticking, Marking, Stopping
  <1>6. ModeInv' /\ ModeTells'
    BY <1>1, <1>2 DEF ModeInv, ModeTells, Unsaved, TypeOK, Looping, Ticking, Marking, Stopping
  <1>8. RoundInv'
    BY <1>1, <1>2, HealthAssumption DEF RoundInv, TypeOK, Looping, Ticking, Marking, Stopping
  <1> QED BY <1>3, <1>4, <1>5, <1>6, <1>8 DEF HealthInv

LEMMA TickRaisesKeeps ==
  ASSUME HealthInv, TickRaises
  PROVE  HealthInv'
  <1>1. TypeOK /\ GoodInv /\ CountInv /\ ResultInv /\ ModeInv /\ ModeTells /\ RoundInv
    BY DEF HealthInv
  <1>2. /\ pc \in {"tick load", "tick", "tick save"} /\ pc' = "completed"
        /\ file' \in IF pc = "tick load" THEN {file} ELSE {file, copy}
        /\ result' = Nothing /\ streak' = streak + 1
        /\ UNCHANGED <<held, copy, startedAt, iterations, starts, clock, lost>>
    BY <1>1 DEF TickRaises, Goes, Ends, TypeOK, Nothing, Succeeded
  <1>3. TypeOK'
    <2>1. streak' \in Nat
      <3>1. streak \in Nat
        BY <1>1 DEF TypeOK
      <3>2. streak' = streak + 1
        BY <1>2
      <3> QED BY <3>1, <3>2
    <2>4. file' \in DaemonHealth
      BY <1>1 DEF TypeOK, TickRaises
    <2>2. pc' \in Labels
      BY <1>2 DEF Labels, Looping, Ticking
    <2>3. result' \in TickResult
      BY <1>2 DEF TickResult, Nothing
    <2> QED BY <1>1, <1>2, <2>1, <2>2, <2>3, <2>4 DEF TypeOK
  <1>4. GoodInv'
    BY <1>1, <1>2 DEF GoodInv, Good, TypeOK, DaemonHealth, TickResult, Nothing
  <1>5. CountInv' /\ ResultInv'
    BY <1>1, <1>2 DEF CountInv, ResultInv, Unsaved, TypeOK, Succeeded, Nothing, Looping, Ticking, Marking, Stopping
  <1>6. ModeInv' /\ ModeTells'
    BY <1>1, <1>2 DEF ModeInv, ModeTells, Unsaved, TypeOK, Looping, Ticking, Marking, Stopping
  <1>8. RoundInv'
    BY <1>1, <1>2, HealthAssumption DEF RoundInv, TypeOK, Looping, Ticking, Marking, Stopping
  <1> QED BY <1>3, <1>4, <1>5, <1>6, <1>8 DEF HealthInv

LEMMA MarkCompletedKeeps ==
  ASSUME HealthInv, MarkCompleted
  PROVE  HealthInv'
  <1>1. TypeOK /\ GoodInv /\ CountInv /\ ResultInv /\ ModeInv /\ ModeTells /\ RoundInv
    BY DEF HealthInv
  <1>7. file.completed < clock + 1 /\ file.completed \in Nat /\ clock + 1 \in Nat
    BY <1>1 DEF GoodInv, Good, TypeOK, DaemonHealth
  <1>2. /\ pc = "completed" /\ pc' = "completed save"
        /\ clock' = clock + 1
        /\ copy' \in DaemonHealth /\ Agree(copy') /\ copy'.completed = clock + 1
        /\ copy'.mode = "running" /\ copy'.failures = IF Succeeded(result) THEN 0 ELSE file.failures + 1
        /\ UNCHANGED <<file, held, result, startedAt, iterations, starts, streak, lost>>
    BY <1>1, <1>7, MarkedFields DEF MarkCompleted, Goes, Ends, TypeOK, GoodInv, Good
  <1>3. TypeOK'
    <2>1. clock' \in Nat
      <3>1. clock \in Nat
        BY <1>1 DEF TypeOK
      <3>2. clock' = clock + 1
        BY <1>2
      <3> QED BY <3>1, <3>2
    <2>2. pc' \in Labels
      BY <1>2 DEF Labels, Looping, Marking
    <2> QED BY <1>1, <1>2, <2>1, <2>2 DEF TypeOK
  <1>4. GoodInv'
    <2>1. ASSUME NEW h, Good(h, clock)
          PROVE  Good(h, clock')
      <3>1. h.completed \in Nat /\ clock \in Nat /\ clock' = clock + 1
        BY <1>1, <1>2, <2>1 DEF Good, DaemonHealth, TypeOK
      <3> QED BY <2>1, <3>1 DEF Good
    <2>2. Good(copy', clock')
      <3>1. copy' \in DaemonHealth /\ Agree(copy') /\ copy'.completed = clock'
        BY <1>2
      <3>2. clock \in Nat
        BY <1>1 DEF TypeOK
      <3>3. clock' = clock + 1
        BY <1>2
      <3>4. clock' \in Nat
        BY <3>2, <3>3
      <3> QED BY <3>1, <3>4 DEF Good
    <2> QED BY <1>1, <1>2, <2>1, <2>2 DEF GoodInv
  <1>5. CountInv' /\ ResultInv'
    BY <1>1, <1>2 DEF CountInv, ResultInv, Unsaved, TypeOK, Succeeded, Nothing, Looping, Ticking, Marking, Stopping
  <1>6. ModeInv' /\ ModeTells'
    BY <1>1, <1>2 DEF ModeInv, ModeTells, Unsaved, TypeOK, Looping, Ticking, Marking, Stopping
  <1>8. RoundInv'
    BY <1>1, <1>2, HealthAssumption DEF RoundInv, TypeOK, Looping, Ticking, Marking, Stopping
  <1> QED BY <1>3, <1>4, <1>5, <1>6, <1>8 DEF HealthInv

LEMMA SaveCompletedKeeps ==
  ASSUME HealthInv, SaveCompleted
  PROVE  HealthInv'
  <1>1. TypeOK /\ GoodInv /\ CountInv /\ ResultInv /\ ModeInv /\ ModeTells /\ RoundInv
    BY DEF HealthInv
  <1>2. /\ pc = "completed save" /\ pc' = "heartbeat"
        /\ file' = copy
        /\ lost' = (lost /\ ~Succeeded(result))
        /\ UNCHANGED <<held, copy, result, startedAt, iterations, starts, clock, streak>>
    BY <1>1 DEF SaveCompleted, Goes, Ends, TypeOK
  <1>3. TypeOK'
    BY <1>1, <1>2, HealthAssumption DEF TypeOK, Labels, Looping, Ticking, Marking, Stopping, TickResult, Nothing
  <1>4. GoodInv'
    BY <1>1, <1>2 DEF GoodInv, Good, TypeOK, DaemonHealth, TickResult, Nothing
  <1>5. CountInv' /\ ResultInv'
    BY <1>1, <1>2 DEF CountInv, ResultInv, Unsaved, TypeOK, Succeeded, Nothing, Looping, Ticking, Marking, Stopping
  <1>6. ModeInv' /\ ModeTells'
    BY <1>1, <1>2 DEF ModeInv, ModeTells, Unsaved, TypeOK, Looping, Ticking, Marking, Stopping
  <1>8. RoundInv'
    BY <1>1, <1>2, HealthAssumption DEF RoundInv, TypeOK, Looping, Ticking, Marking, Stopping
  <1> QED BY <1>3, <1>4, <1>5, <1>6, <1>8 DEF HealthInv

LEMMA HeartbeatKeeps ==
  ASSUME HealthInv, Heartbeat
  PROVE  HealthInv'
  <1>1. TypeOK /\ GoodInv /\ CountInv /\ ResultInv /\ ModeInv /\ ModeTells /\ RoundInv
    BY DEF HealthInv
  <1>2. /\ pc = "heartbeat" /\ pc' = "after"
        /\ UNCHANGED <<file, held, copy, result, startedAt, iterations, starts, clock, streak, lost>>
    BY <1>1 DEF Heartbeat, Goes, Ends, TypeOK
  <1>3. TypeOK'
    BY <1>1, <1>2, HealthAssumption DEF TypeOK, Labels, Looping, Ticking, Marking, Stopping, TickResult, Nothing
  <1>4. GoodInv'
    BY <1>1, <1>2 DEF GoodInv, Good, TypeOK, DaemonHealth, TickResult, Nothing
  <1>5. CountInv' /\ ResultInv'
    BY <1>1, <1>2 DEF CountInv, ResultInv, Unsaved, TypeOK, Succeeded, Nothing, Looping, Ticking, Marking, Stopping
  <1>6. ModeInv' /\ ModeTells'
    BY <1>1, <1>2 DEF ModeInv, ModeTells, Unsaved, TypeOK, Looping, Ticking, Marking, Stopping
  <1>8. RoundInv'
    BY <1>1, <1>2, HealthAssumption DEF RoundInv, TypeOK, Looping, Ticking, Marking, Stopping
  <1> QED BY <1>3, <1>4, <1>5, <1>6, <1>8 DEF HealthInv

LEMMA AfterKeeps ==
  ASSUME HealthInv, After
  PROVE  HealthInv'
  <1>1. TypeOK /\ GoodInv /\ CountInv /\ ResultInv /\ ModeInv /\ ModeTells /\ RoundInv
    BY DEF HealthInv
  <1>2. /\ pc = "after" /\ pc' \in {"stopped", "sleep"}
        /\ iterations' \in 0..MaxIterations
        /\ pc' = "sleep" => iterations' < MaxIterations
        /\ UNCHANGED <<file, held, copy, result, startedAt, starts, clock, streak, lost>>
    BY <1>1, HealthAssumption DEF After, Goes, Ends, TypeOK, RoundInv, Looping
  <1>3. TypeOK'
    BY <1>1, <1>2, HealthAssumption DEF TypeOK, Labels, Looping, Ticking, Marking, Stopping, TickResult, Nothing
  <1>4. GoodInv'
    BY <1>1, <1>2 DEF GoodInv, Good, TypeOK, DaemonHealth, TickResult, Nothing
  <1>5. CountInv' /\ ResultInv'
    BY <1>1, <1>2 DEF CountInv, ResultInv, Unsaved, TypeOK, Succeeded, Nothing, Looping, Ticking, Marking, Stopping
  <1>6. ModeInv' /\ ModeTells'
    BY <1>1, <1>2 DEF ModeInv, ModeTells, Unsaved, TypeOK, Looping, Ticking, Marking, Stopping
  <1>8. RoundInv'
    BY <1>1, <1>2, HealthAssumption DEF RoundInv, TypeOK, Looping, Ticking, Marking, Stopping
  <1> QED BY <1>3, <1>4, <1>5, <1>6, <1>8 DEF HealthInv

LEMMA WakeKeeps ==
  ASSUME HealthInv, Wake
  PROVE  HealthInv'
  <1>1. TypeOK /\ GoodInv /\ CountInv /\ ResultInv /\ ModeInv /\ ModeTells /\ RoundInv
    BY DEF HealthInv
  <1>2. /\ pc = "sleep" /\ pc' = "loop"
        /\ UNCHANGED <<file, held, copy, result, startedAt, iterations, starts, clock, streak, lost>>
    BY <1>1 DEF Wake, Goes, Ends, TypeOK
  <1>3. TypeOK'
    BY <1>1, <1>2, HealthAssumption DEF TypeOK, Labels, Looping, Ticking, Marking, Stopping, TickResult, Nothing
  <1>4. GoodInv'
    BY <1>1, <1>2 DEF GoodInv, Good, TypeOK, DaemonHealth, TickResult, Nothing
  <1>5. CountInv' /\ ResultInv'
    BY <1>1, <1>2 DEF CountInv, ResultInv, Unsaved, TypeOK, Succeeded, Nothing, Looping, Ticking, Marking, Stopping
  <1>6. ModeInv' /\ ModeTells'
    BY <1>1, <1>2 DEF ModeInv, ModeTells, Unsaved, TypeOK, Looping, Ticking, Marking, Stopping
  <1>8. RoundInv'
    BY <1>1, <1>2, HealthAssumption DEF RoundInv, TypeOK, Looping, Ticking, Marking, Stopping
  <1> QED BY <1>3, <1>4, <1>5, <1>6, <1>8 DEF HealthInv

LEMMA MarkRaisesKeeps ==
  ASSUME HealthInv, MarkRaises
  PROVE  HealthInv'
  <1>1. TypeOK /\ GoodInv /\ CountInv /\ ResultInv /\ ModeInv /\ ModeTells /\ RoundInv
    BY DEF HealthInv
  <1>2. /\ pc \in Marking \cup {"completed"} /\ pc' = "stopped"
        /\ file' \in IF pc \in {"started save", "completed save"} THEN {file, copy} ELSE {file}
        /\ lost' = (lost \/ Unsaved)
        /\ UNCHANGED <<held, copy, result, startedAt, iterations, starts, clock, streak>>
    BY <1>1 DEF MarkRaises, Goes, Ends, TypeOK
  <1>3. TypeOK'
    BY <1>1, <1>2, HealthAssumption DEF TypeOK, Labels, Looping, Ticking, Marking, Stopping, TickResult, Nothing
  <1>4. GoodInv'
    BY <1>1, <1>2 DEF GoodInv, Good, TypeOK, DaemonHealth, TickResult, Nothing
  <1>5. CountInv' /\ ResultInv'
    BY <1>1, <1>2 DEF CountInv, ResultInv, Unsaved, TypeOK, Succeeded, Nothing, Looping, Ticking, Marking, Stopping
  <1>6. ModeInv' /\ ModeTells'
    BY <1>1, <1>2 DEF ModeInv, ModeTells, Unsaved, TypeOK, Looping, Ticking, Marking, Stopping
  <1>8. RoundInv'
    BY <1>1, <1>2, HealthAssumption DEF RoundInv, TypeOK, Looping, Ticking, Marking, Stopping
  <1> QED BY <1>3, <1>4, <1>5, <1>6, <1>8 DEF HealthInv

LEMMA InterruptKeeps ==
  ASSUME HealthInv, Interrupt
  PROVE  HealthInv'
  <1>1. TypeOK /\ GoodInv /\ CountInv /\ ResultInv /\ ModeInv /\ ModeTells /\ RoundInv
    BY DEF HealthInv
  <1>2. /\ pc \in Looping /\ pc' = "stopped"
        /\ lost' = (lost \/ Unsaved)
        /\ UNCHANGED <<file, held, copy, result, startedAt, iterations, starts, clock, streak>>
    BY <1>1 DEF Interrupt, Goes, Ends, TypeOK
  <1>3. TypeOK'
    BY <1>1, <1>2, HealthAssumption DEF TypeOK, Labels, Looping, Ticking, Marking, Stopping, TickResult, Nothing
  <1>4. GoodInv'
    BY <1>1, <1>2 DEF GoodInv, Good, TypeOK, DaemonHealth, TickResult, Nothing
  <1>5. CountInv' /\ ResultInv'
    BY <1>1, <1>2 DEF CountInv, ResultInv, Unsaved, TypeOK, Succeeded, Nothing, Looping, Ticking, Marking, Stopping
  <1>6. ModeInv' /\ ModeTells'
    BY <1>1, <1>2 DEF ModeInv, ModeTells, Unsaved, TypeOK, Looping, Ticking, Marking, Stopping
  <1>8. RoundInv'
    BY <1>1, <1>2, HealthAssumption DEF RoundInv, TypeOK, Looping, Ticking, Marking, Stopping
  <1> QED BY <1>3, <1>4, <1>5, <1>6, <1>8 DEF HealthInv

LEMMA MarkStoppedKeeps ==
  ASSUME HealthInv, MarkStopped
  PROVE  HealthInv'
  <1>1. TypeOK /\ GoodInv /\ CountInv /\ ResultInv /\ ModeInv /\ ModeTells /\ RoundInv
    BY DEF HealthInv
  <1>2. /\ pc = "stopped" /\ pc' = "stopped save"
        /\ copy' \in DaemonHealth /\ Agree(copy')
        /\ copy'.mode = "stopped" /\ copy'.failures = file.failures /\ copy'.completed = file.completed
        /\ UNCHANGED <<file, held, result, startedAt, iterations, starts, clock, streak, lost>>
    BY <1>1, StoppedFields DEF MarkStopped, Goes, Ends, TypeOK, GoodInv, Good
  <1>3. TypeOK'
    BY <1>1, <1>2, HealthAssumption DEF TypeOK, Labels, Looping, Ticking, Marking, Stopping, TickResult, Nothing
  <1>4. GoodInv'
    BY <1>1, <1>2 DEF GoodInv, Good, TypeOK, DaemonHealth, TickResult, Nothing
  <1>5. CountInv' /\ ResultInv'
    BY <1>1, <1>2 DEF CountInv, ResultInv, Unsaved, TypeOK, Succeeded, Nothing, Looping, Ticking, Marking, Stopping
  <1>6. ModeInv' /\ ModeTells'
    BY <1>1, <1>2 DEF ModeInv, ModeTells, Unsaved, TypeOK, Looping, Ticking, Marking, Stopping
  <1>8. RoundInv'
    BY <1>1, <1>2, HealthAssumption DEF RoundInv, TypeOK, Looping, Ticking, Marking, Stopping
  <1> QED BY <1>3, <1>4, <1>5, <1>6, <1>8 DEF HealthInv

LEMMA SaveStoppedKeeps ==
  ASSUME HealthInv, SaveStopped
  PROVE  HealthInv'
  <1>1. TypeOK /\ GoodInv /\ CountInv /\ ResultInv /\ ModeInv /\ ModeTells /\ RoundInv
    BY DEF HealthInv
  <1>2. /\ pc = "stopped save" /\ pc' = "off"
        /\ file' = copy
        /\ UNCHANGED <<held, copy, result, startedAt, iterations, starts, clock, streak, lost>>
    BY <1>1 DEF SaveStopped, Goes, Ends, TypeOK
  <1>3. TypeOK'
    BY <1>1, <1>2, HealthAssumption DEF TypeOK, Labels, Looping, Ticking, Marking, Stopping, TickResult, Nothing
  <1>4. GoodInv'
    BY <1>1, <1>2 DEF GoodInv, Good, TypeOK, DaemonHealth, TickResult, Nothing
  <1>5. CountInv' /\ ResultInv'
    BY <1>1, <1>2 DEF CountInv, ResultInv, Unsaved, TypeOK, Succeeded, Nothing, Looping, Ticking, Marking, Stopping
  <1>6. ModeInv' /\ ModeTells'
    BY <1>1, <1>2 DEF ModeInv, ModeTells, Unsaved, TypeOK, Looping, Ticking, Marking, Stopping
  <1>8. RoundInv'
    BY <1>1, <1>2, HealthAssumption DEF RoundInv, TypeOK, Looping, Ticking, Marking, Stopping
  <1> QED BY <1>3, <1>4, <1>5, <1>6, <1>8 DEF HealthInv

LEMMA StopRaisesKeeps ==
  ASSUME HealthInv, StopRaises
  PROVE  HealthInv'
  <1>1. TypeOK /\ GoodInv /\ CountInv /\ ResultInv /\ ModeInv /\ ModeTells /\ RoundInv
    BY DEF HealthInv
  <1>2. /\ pc \in Stopping /\ pc' = "off"
        /\ file' \in {file, copy}
        /\ lost'
        /\ UNCHANGED <<held, copy, result, startedAt, iterations, starts, clock, streak>>
    BY <1>1 DEF StopRaises, Goes, Ends, TypeOK
  <1>3. TypeOK'
    BY <1>1, <1>2, HealthAssumption DEF TypeOK, Labels, Looping, Ticking, Marking, Stopping, TickResult, Nothing
  <1>4. GoodInv'
    BY <1>1, <1>2 DEF GoodInv, Good, TypeOK, DaemonHealth, TickResult, Nothing
  <1>5. CountInv' /\ ResultInv'
    BY <1>1, <1>2 DEF CountInv, ResultInv, Unsaved, TypeOK, Succeeded, Nothing, Looping, Ticking, Marking, Stopping
  <1>6. ModeInv' /\ ModeTells'
    BY <1>1, <1>2 DEF ModeInv, ModeTells, Unsaved, TypeOK, Looping, Ticking, Marking, Stopping
  <1>8. RoundInv'
    BY <1>1, <1>2, HealthAssumption DEF RoundInv, TypeOK, Looping, Ticking, Marking, Stopping
  <1> QED BY <1>3, <1>4, <1>5, <1>6, <1>8 DEF HealthInv

LEMMA KillKeeps ==
  ASSUME HealthInv, Kill
  PROVE  HealthInv'
  <1>1. TypeOK /\ GoodInv /\ CountInv /\ ResultInv /\ ModeInv /\ ModeTells /\ RoundInv
    BY DEF HealthInv
  <1>2. /\ pc \in Looping \cup Stopping /\ pc' = "dead"
        /\ lost' = (lost \/ Unsaved)
        /\ UNCHANGED <<file, held, copy, result, startedAt, iterations, starts, clock, streak>>
    BY <1>1 DEF Kill, Goes, Ends, TypeOK
  <1>3. TypeOK'
    BY <1>1, <1>2, HealthAssumption DEF TypeOK, Labels, Looping, Ticking, Marking, Stopping, TickResult, Nothing
  <1>4. GoodInv'
    BY <1>1, <1>2 DEF GoodInv, Good, TypeOK, DaemonHealth, TickResult, Nothing
  <1>5. CountInv' /\ ResultInv'
    BY <1>1, <1>2 DEF CountInv, ResultInv, Unsaved, TypeOK, Succeeded, Nothing, Looping, Ticking, Marking, Stopping
  <1>6. ModeInv' /\ ModeTells'
    BY <1>1, <1>2 DEF ModeInv, ModeTells, Unsaved, TypeOK, Looping, Ticking, Marking, Stopping
  <1>8. RoundInv'
    BY <1>1, <1>2, HealthAssumption DEF RoundInv, TypeOK, Looping, Ticking, Marking, Stopping
  <1> QED BY <1>3, <1>4, <1>5, <1>6, <1>8 DEF HealthInv

LEMMA WriterLoadsKeeps ==
  ASSUME HealthInv, NEW w \in Writers, WriterLoads(w)
  PROVE  HealthInv'
  <1>1. TypeOK /\ GoodInv /\ CountInv /\ ResultInv /\ ModeInv /\ ModeTells /\ RoundInv
    BY DEF HealthInv
  <1>2. /\ held' = [held EXCEPT ![w] = file]
        /\ UNCHANGED <<file, pc, copy, result, startedAt, iterations, starts, clock, streak, lost>>
    BY <1>1 DEF WriterLoads, Goes, Ends, TypeOK
  <1>3. TypeOK'
    BY <1>1, <1>2, HealthAssumption DEF TypeOK, Labels, Looping, Ticking, Marking, Stopping, TickResult, Nothing
  <1>4. GoodInv'
    BY <1>1, <1>2 DEF GoodInv, Good, TypeOK, DaemonHealth, TickResult, Nothing
  <1>5. CountInv' /\ ResultInv'
    BY <1>1, <1>2 DEF CountInv, ResultInv, Unsaved, TypeOK, Succeeded, Nothing, Looping, Ticking, Marking, Stopping
  <1>6. ModeInv' /\ ModeTells'
    BY <1>1, <1>2 DEF ModeInv, ModeTells, Unsaved, TypeOK, Looping, Ticking, Marking, Stopping
  <1>8. RoundInv'
    BY <1>1, <1>2, HealthAssumption DEF RoundInv, TypeOK, Looping, Ticking, Marking, Stopping
  <1> QED BY <1>3, <1>4, <1>5, <1>6, <1>8 DEF HealthInv

LEMMA WriterSavesKeeps ==
  ASSUME HealthInv, NEW w \in Writers, WriterSaves(w)
  PROVE  HealthInv'
  <1>1. TypeOK /\ GoodInv /\ CountInv /\ ResultInv /\ ModeInv /\ ModeTells /\ RoundInv
    BY DEF HealthInv
  <1>2. /\ file' = held[w]
        /\ lost' = (lost \/ file' # file)
        /\ UNCHANGED <<held, pc, copy, result, startedAt, iterations, starts, clock, streak>>
    BY <1>1 DEF WriterSaves, Goes, Ends, TypeOK
  <1>3. TypeOK'
    BY <1>1, <1>2, HealthAssumption DEF TypeOK, Labels, Looping, Ticking, Marking, Stopping, TickResult, Nothing
  <1>4. GoodInv'
    BY <1>1, <1>2 DEF GoodInv, Good, TypeOK, DaemonHealth, TickResult, Nothing
  <1>5. CountInv' /\ ResultInv'
    BY <1>1, <1>2 DEF CountInv, ResultInv, Unsaved, TypeOK, Succeeded, Nothing, Looping, Ticking, Marking, Stopping
  <1>6. ModeInv' /\ ModeTells'
    BY <1>1, <1>2 DEF ModeInv, ModeTells, Unsaved, TypeOK, Looping, Ticking, Marking, Stopping
  <1>8. RoundInv'
    BY <1>1, <1>2, HealthAssumption DEF RoundInv, TypeOK, Looping, Ticking, Marking, Stopping
  <1> QED BY <1>3, <1>4, <1>5, <1>6, <1>8 DEF HealthInv

LEMMA HealthStutters ==
  ASSUME HealthInv, UNCHANGED vars
  PROVE  HealthInv'
  <1>1. TypeOK' /\ GoodInv'
    BY DEF HealthInv, vars, TypeOK, GoodInv
  <1>2. CountInv' /\ ResultInv'
    BY DEF HealthInv, vars, CountInv, ResultInv, Unsaved
  <1>3. ModeInv' /\ ModeTells' /\ RoundInv'
    BY DEF HealthInv, vars, ModeInv, ModeTells, RoundInv
  <1> QED BY <1>1, <1>2, <1>3 DEF HealthInv

-----------------------------------------------------------------------------
(* The theorems. *)

LEMMA HealthInvHolds == Spec => []HealthInv
  <1>1. HealthInv /\ [Next]_vars => HealthInv'
    <2> SUFFICES ASSUME HealthInv, [Next]_vars
                 PROVE  HealthInv'
      OBVIOUS
    <2>1. CASE Run
      BY <2>1, BeginKeeps, MarkStartedKeeps, SaveStartedKeeps, TickLoadsKeeps,
         AccountFailsKeeps, TickGoesThroughKeeps, TickSavesKeeps, TickRaisesKeeps,
         MarkCompletedKeeps, SaveCompletedKeeps, HeartbeatKeeps, AfterKeeps, WakeKeeps,
         MarkStoppedKeeps, SaveStoppedKeeps DEF Run
    <2>2. CASE Start \/ AskedToStop \/ TickSavesTrigger
      BY <2>2, StartKeeps, AskedToStopKeeps, TickSavesTriggerKeeps
    <2>3. CASE MarkRaises \/ Interrupt \/ StopRaises \/ Kill
      BY <2>3, MarkRaisesKeeps, InterruptKeeps, StopRaisesKeeps, KillKeeps
    <2>4. ASSUME NEW w \in Writers, WriterLoads(w) \/ WriterSaves(w)
          PROVE  HealthInv'
      BY <2>4, WriterLoadsKeeps, WriterSavesKeeps
    <2>5. CASE UNCHANGED vars
      BY <2>5, HealthStutters
    <2> QED BY <2>1, <2>2, <2>3, <2>4, <2>5 DEF Next
  <1> QED BY <1>1, InitHealth, PTL DEF Spec

\* Every variable of the runner keeps its type; no run has more than MaxIterations
\* ticks.
THEOREM HealthTypeCorrect == Spec => []TypeOK
  BY HealthInvHolds, PTL DEF HealthInv

\* The health in the file is that of one moment, whoever wrote it last: what every
\* process holds is a copy of one that _mark_completed made.
THEOREM StampsTheorem == Spec => []StampsAgree
  <1>1. HealthInv => StampsAgree
    BY DEF HealthInv, GoodInv, Good, StampsAgree
  <1> QED BY <1>1, HealthInvHolds, PTL

\* consecutive_failures is the number of failed ticks since the last good one, over
\* any number of runs.
THEOREM CountTheorem == Spec => []FailuresCounted
  <1>1. HealthInv => FailuresCounted
    BY DEF HealthInv, CountInv, FailuresCounted
  <1> QED BY <1>1, HealthInvHolds, PTL

\* mode is that of the runner, as long as nothing was lost.
THEOREM ModeTheorem == Spec => []ModeTells
  BY HealthInvHolds, PTL DEF HealthInv
=============================================================================
