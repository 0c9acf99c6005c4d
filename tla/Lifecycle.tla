----------------------------- MODULE Lifecycle -----------------------------
(***************************************************************************)
(* What the program promises of each rule, seen from its operator: what    *)
(* state.json says of the rule, and what the exchange has been asked for   *)
(* it.  There are no processes, copies, saves, crashes or exceptions here: *)
(* Daemon has them, and its serial behaviours are to look like these.      *)
(* One save may carry a step of several rules.                             *)
(***************************************************************************)

CONSTANTS Rules, AutoSubmit

VARIABLES status,   \* whether the rule exists, and is watched
          stage,    \* how far it has come
          asked     \* what the exchange was last asked for it, and said

life == <<status, stage, asked>>

Statuses == {"none", "active", "disabled"}
Stages   == {"armed", "spent", "succeeded", "live", "review"}
Answers  == {"none", "sent", "accepted", "failed"}

Shape ==
  /\ status \in [Rules -> Statuses]
  /\ stage \in [Rules -> Stages]
  /\ asked \in [Rules -> Answers]

Init ==
  /\ status = [r \in Rules |-> "none"]
  /\ stage  = [r \in Rules |-> "armed"]
  /\ asked  = [r \in Rules |-> "none"]

Becomes(r, s, g, a) == status'[r] = s /\ stage'[r] = g /\ asked'[r] = a

Rest(r) == Becomes(r, status[r], stage[r], asked[r])

Create(r) ==
  /\ status[r] = "none"
  /\ Becomes(r, "active", stage[r], asked[r])

Disable(r) ==
  /\ status[r] = "active"
  /\ Becomes(r, "disabled", stage[r], asked[r])

\* The rule gives up its trigger before anything is asked for it.
Spend(r) ==
  /\ status[r] = "active" /\ stage[r] = "armed"
  /\ Becomes(r, status[r], "spent", asked[r])

\* A blocked exit: nothing was asked, and the rule may fire again.
Block(r) ==
  /\ r \in AutoSubmit
  /\ status[r] = "active" /\ stage[r] = "spent" /\ asked[r] = "none"
  /\ Becomes(r, status[r], "armed", asked[r])

Ask(r) ==
  /\ r \in AutoSubmit
  /\ status[r] = "active" /\ stage[r] = "spent" /\ asked[r] = "none"
  /\ Becomes(r, status[r], stage[r], "sent")

Answer(r) ==
  /\ asked[r] = "sent"
  /\ \E a \in {"accepted", "failed"} : Becomes(r, status[r], stage[r], a)

\* Success is what the exchange accepted, ...
Succeed(r) ==
  /\ stage[r] = "spent" /\ asked[r] = "accepted"
  /\ Becomes(r, status[r], "succeeded", asked[r])

\* ... and review is for what it refused, or was not asked after all.
Fail(r) ==
  /\ r \in AutoSubmit
  /\ stage[r] = "spent" /\ asked[r] \in {"none", "failed"}
  /\ Becomes(r, status[r], "review", asked[r])

Promote(r) ==
  /\ stage[r] = "succeeded"
  /\ Becomes(r, status[r], "live", asked[r])

\* The one way back, by the operator, from wherever the rule is.
Reset(r) ==
  /\ status[r] # "none"
  /\ Becomes(r, status[r], "armed", "none")

Step(r) ==
  \/ Create(r) \/ Disable(r) \/ Spend(r) \/ Block(r) \/ Ask(r) \/ Answer(r)
  \/ Succeed(r) \/ Fail(r) \/ Promote(r) \/ Reset(r)

Next == Shape' /\ \A r \in Rules : Step(r) \/ Rest(r)

Spec == Init /\ [][Next]_life

-----------------------------------------------------------------------------
\* What follows from the promise alone: a stage past the canary rests on an exit
\* the exchange accepted, and only a rule that gave up its trigger was asked for.
Backed ==
  /\ Shape
  /\ \A r \in Rules :
       /\ stage[r] \in {"succeeded", "live"} => asked[r] = "accepted"
       /\ asked[r] # "none" => r \in AutoSubmit /\ stage[r] # "armed"
       /\ status[r] = "none" => stage[r] = "armed"
=============================================================================
