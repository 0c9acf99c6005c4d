----------------------------- MODULE Submission -----------------------------
(***************************************************************************)
(* What submission.py and readiness.py decide for a triggered auto_submit  *)
(* exit: the set of reasons that block it, empty when it is sent.          *)
(***************************************************************************)

\* ReadinessContext, each field reduced to whether the check on it is met.
Context == [market : BOOLEAN, mark : BOOLEAN, kill : BOOLEAN,
            evidence : BOOLEAN, phrase : BOOLEAN]

\* Mutant of ReadinessReasons: the kill switch is not looked at.
ReadinessReasonsNoKill(key, context) ==
  {reason \in {"key", "market", "mark", "evidence", "phrase"} :
     \/ reason = "key"      /\ ~key
     \/ reason = "market"   /\ ~context.market
     \/ reason = "mark"     /\ ~context.mark
     \/ reason = "evidence" /\ ~context.evidence
     \/ reason = "phrase"   /\ ~context.phrase}

\* ReadinessChecker.check_mainnet_auto_submit.  The kill switch is always
\* available: no caller builds a context that says otherwise.
ReadinessReasons(key, context) ==
  {reason \in {"key", "market", "mark", "kill", "evidence", "phrase"} :
     \/ reason = "key"      /\ ~key
     \/ reason = "market"   /\ ~context.market
     \/ reason = "mark"     /\ ~context.mark
     \/ reason = "kill"     /\ context.kill
     \/ reason = "evidence" /\ ~context.evidence
     \/ reason = "phrase"   /\ ~context.phrase}

\* Mutant of BlockedReasons: a pending canary does not ask for --canary.
ReasonsWithoutCanary(wired, canary, live, fresh, key, context) ==
  {reason \in {"unwired", "stale mark", "review", "not live"} :
     \/ reason = "unwired"    /\ ~wired
     \/ reason = "stale mark" /\ ~fresh
     \/ reason = "review"     /\ live = "manual_review"
     \/ reason = "not live"   /\ live = "dry_run"}
  \cup {reason \in ReadinessReasons(key, context) : wired \/ reason = "kill"}

\* SubmissionPolicy._blocked_reasons.  A policy that is not wired has neither
\* exchange nor checker, and its daemon has no context factory.
BlockedReasons(wired, canary, live, fresh, key, context) ==
  {reason \in {"unwired", "stale mark", "canary", "review", "not live"} :
     \/ reason = "unwired"    /\ ~wired
     \/ reason = "stale mark" /\ ~fresh
     \/ reason = "canary"     /\ live = "canary_pending" /\ ~canary
     \/ reason = "review"     /\ live = "manual_review"
     \/ reason = "not live"   /\ live = "dry_run"}
  \cup {reason \in ReadinessReasons(key, context) : wired \/ reason = "kill"}
=============================================================================
