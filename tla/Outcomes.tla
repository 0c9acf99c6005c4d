------------------------------ MODULE Outcomes ------------------------------
(***************************************************************************)
(* What a tick that is cut short costs.                                    *)
(*                                                                         *)
(* run_once saves the outcomes of the exits it handled once, at its end.   *)
(* This is Daemon with a history variable: the rules whose exit a tick had *)
(* to do with and let go of with the outcome unsaved, by an exception,     *)
(* Control-C, a crash or a failing save, and which no operator has reset   *)
(* since.                                                                  *)
(***************************************************************************)
EXTENDS Daemon

VARIABLE dropped

history == <<vars, dropped>>

\* What daemon d has that is not in the file after the step.
Unsaved(d) == {r \in AutoSubmit : r = cur[d] \/ mem[d].rule[r] # disk'.rule[r]}

\* A tick that ends drops what it has not saved.  A rule that is armed in the file
\* is as it was before the tick, or as an operator's reset has left it.
Drop ==
  dropped' = {r \in AutoSubmit :
    /\ disk'.rule[r].triggered
    /\ \/ r \in dropped
       \/ \E d \in Daemons : Ticking(d) /\ ~(Ticking(d)') /\ r \in Unsaved(d)}

OutcomeSpec ==
  /\ Init /\ dropped = {}
  /\ [][Next /\ Serial' /\ Drop]_history

-----------------------------------------------------------------------------
Resting == \A d \in Daemons : ~Ticking(d)

\* Between ticks, a rule is left triggered without an outcome, unable to fire
\* again and unknown to review, exactly if a tick has dropped its exit.  Blocked,
\* failed and accepted exits never end like that, nor do the rules that a tick
\* which is cut short has settled with an earlier save, nor does any command do it.
WedgedMeansDropped ==
  Resting => \A r \in AutoSubmit :
    disk.rule[r].triggered /\ disk.rule[r].live = "canary_pending" <=> r \in dropped

\* Between ticks, an exit that the exchange has accepted is recorded, and one that
\* it has not has its rule in manual review, unless a tick has dropped it.
RecordedOrDropped ==
  Resting => \A r \in Rules \ dropped :
    ledger[r] # "none" =>
      IF ledger[r] = "accepted"
      THEN disk.rule[r].live \in {"canary_succeeded", "normal_live"}
      ELSE disk.rule[r].live = "manual_review"
=============================================================================
