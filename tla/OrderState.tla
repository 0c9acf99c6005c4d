----------------------------- MODULE OrderState -----------------------------
(***************************************************************************)
(* The snapshot that storage.py keeps in state.json, and the pure changes  *)
(* that the daemon (daemon.py, trailing.py), the reset (recovery.py) and   *)
(* the commands (cli.py) make to a snapshot they hold in memory.           *)
(*                                                                         *)
(* A rule's execution mode never changes after it is created, so it is a   *)
(* constant: AutoSubmit is the set of auto_submit rules, the others are dry_run. *)
(* Sizes, prices and health text are not part of this module.              *)
(***************************************************************************)

CONSTANTS Rules,   \* the identities a rule may get
          AutoSubmit     \* those created with --execution-mode auto_submit

ASSUME AutoSubmitAssumption == AutoSubmit \subseteq Rules

\* "none" is an id that is in no dict: the rule was not created, or a later
\* save of an older snapshot has dropped it.
RuleStatus == {"none", "active", "disabled"}

LiveStatus == {"dry_run", "canary_pending", "canary_succeeded",
               "normal_live", "manual_review"}

RuleState == [status : RuleStatus, live : LiveStatus, triggered : BOOLEAN]

Snapshot == [kill : BOOLEAN, rule : [Rules -> RuleState]]

\* __post_init__: an auto_submit rule starts as canary_pending, and a dry_run
\* rule's live status is dry_run whatever was asked for.
InitialLive(r) == IF r \in AutoSubmit THEN "canary_pending" ELSE "dry_run"

\* LocalDaemonState(), what load returns while there is no file.
EmptyState ==
  [kill |-> FALSE,
   rule |-> [r \in Rules |->
               [status |-> "none", live |-> InitialLive(r), triggered |-> FALSE]]]

-----------------------------------------------------------------------------
(* The changes.  Each is what one function does to the snapshot it loaded. *)

Created(s, r)   == [s EXCEPT !.rule[r] = [status    |-> "active",
                                          live      |-> InitialLive(r),
                                          triggered |-> FALSE]]

Disabled(s, r)  == [s EXCEPT !.rule[r].status = "disabled"]

\* replace(rule, live_status = l), put back in both dicts.
WithLive(s, r, l) == [s EXCEPT !.rule[r].live = l]

Promoted(s, r)  == WithLive(s, r, "normal_live")

KillSet(s, b)   == [s EXCEPT !.kill = b]

\* The merge of save_preserving_active_kill_switch: only the flag is merged.
KillMerged(s, latest) == [s EXCEPT !.kill = s.kill \/ latest.kill]

Triggered(s, r) == [s EXCEPT !.rule[r].triggered = TRUE]

\* Mutant of Rearmed: a blocked exit stays triggered.
NotRearmed(s, r) == s

\* LIVE_BLOCKED: the exit may fire again on a later tick.
Rearmed(s, r)   == [s EXCEPT !.rule[r].triggered = FALSE]

\* Mutant of LiveSuccess: the trigger is cleared with the success.
LiveSuccessRearmed(s, r) ==
  IF s.rule[r].live = "canary_pending" THEN WithLive(Rearmed(s, r), r, "canary_succeeded")
  ELSE Rearmed(s, r)

\* LIVE_SUBMITTED: the trigger stays spent.
LiveSuccess(s, r) ==
  IF s.rule[r].live = "canary_pending" THEN WithLive(s, r, "canary_succeeded") ELSE s

\* Mutants of ManualReview: the outcome's name is stored as the status, and
\* the failure is not stored.
OutcomeAsStatus(s, r) == IF r \in AutoSubmit THEN WithLive(s, r, "live_failed") ELSE s

FailureForgotten(s, r) == s

\* LIVE_FAILED.
ManualReview(s, r) ==
  IF r \in AutoSubmit THEN WithLive(s, r, "manual_review") ELSE s

\* Mutants of Reset: the live status is kept, and the rule is enabled again.
ResetKeepsLive(s, r) == Rearmed(s, r)

ResetEnables(s, r) ==
  [WithLive(Rearmed(s, r), r, InitialLive(r)) EXCEPT !.rule[r].status = "active"]

\* reset-triggered, after the account showed a position to protect.
Reset(s, r) ==
  IF r \in AutoSubmit THEN WithLive(Rearmed(s, r), r, "canary_pending") ELSE Rearmed(s, r)
=============================================================================
