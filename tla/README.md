# Verification of hyperliquid-advanced-orders

The program is a local daemon that watches trailing stops on Hyperliquid
positions and, for rules an operator has brought through a canary, sends
reduce-only market exits; the operator drives it with a command line that edits
the same state file. These TLA+ modules model the daemon, its commands, the
file they share, how that file gets to the disk, and the health and the audit log
kept beside it. TLC checks small instances; TLAPS proves the safety
properties for every value of the constants.

Paths below are relative to `src/src/hl_advanced_orders/`.

## The system

| Part | State it keeps | Operations |
|---|---|---|
| State file (`storage.py`, `models.py`) | `state.json`: kill switch, rules, runtime states, fills seen, marks seen, health | `load`, `save` (temporary file, fsync, replace, fsync of the directory), `save_preserving_active_kill_switch` |
| Daemon tick (`daemon.py`, `DaemonService`) | a snapshot for the length of the tick | `run_once`: account snapshot, then per active rule: protected size, mark, `observe`, exit, outcome; one save at the end, one more before each live exit |
| Runner (`daemon.py`, `DaemonRunner`) | iteration count | started mark, tick, completed mark, sleep, stopped mark in a `finally`; each mark is a load and a save of the whole file |
| Submission policy (`submission.py`), readiness (`readiness.py`, `preflight.py`) | none | blocked reasons, attempt, outcome |
| Commands (`cli.py`, `recovery.py`) | a snapshot for the length of the command | `init`, `run`, `create-trailing`, `disable`, `promote-live`, `reset-triggered`, `kill-switch`; the others leave the state file alone: `readiness` and `emergency-cancel` append to the audit log, `emergency-cancel` calls the exchange, `store-key` writes the keychain |
| Trailing engine (`trailing.py`) | high-water mark, stop, moving window, trigger per rule | `observe` |
| Gateways (`hyperliquid_client.py`), keychain (`secrets.py`) | outside the program | marks, metadata, positions, fills, market close, key lookup |
| Audit log (`audit.py`) | `audit.jsonl` | append; the readiness gate counts its `dry_run_exit` events |

How the parts interact. Every process of the program, daemon or command, works
on a whole snapshot that it loaded, and saves the whole snapshot. Nothing locks
the file. The one concession is the kill switch: saves of the daemon and of
`reset-triggered` load the file once more and keep the switch on if it is on
there. The exchange is told of an exit in the middle of a tick, between two
saves. What the daemon is wired with is decided once, at its start, from the
rules active then.

What is hard here, and what each part must get right:

* **Interleaving** of read-modify-write cycles on one file: no operator decision
  and no recorded outcome may be lost, an exit may not be sent twice.
* **Crashes and exceptions** between the save that spends the trigger, the
  exit, and the save of its outcome. An exception leaves `run_once` for the
  runner, which carries on.
* **The life of a rule**: created, canary, promoted, reset, disabled, reviewed.
  A rule must not go live without a canary, and must be able to go live.
* **The readiness gates** are evaluated on copies that may be stale.
* **Liveness**: a blocked exit is to be tried again.
* **Disks**: a snapshot or an audit line must be whole after a failed call, a
  kill or a power loss, and must not be lost once somebody has relied on it.
* **Health** must say what the ticks got, although it is copied about with the
  rest of the snapshot.
* The trailing arithmetic: a stop never loosens, fires exactly when crossed.
* Protected sizes: never more than the rule's size, never of an older position,
  no fill counted twice and none that was shown forgotten.

PROJECT.json lists these as hazards, each at its line.

## Modules

| Module | Models |
|---|---|
| `OrderState` | the snapshot and the pure changes made to it |
| `Submission` | the reasons that block an exit |
| `Daemon` | daemon processes and operator commands around one file |
| `Lifecycle` | abstract: the life of a rule as its operator sees it; `Daemon` under `SerialSpec` implements it |
| `Outcomes` | `Daemon` with one history variable: the rules whose exit a tick that was cut short had unsaved |
| `TrailingStop` | `trailing.py` and `_update_protected_size`: one rule over sequences of marks, positions and fills |
| `AtomicFile` | abstract: what `load` and `save` promise of `state.json` |
| `Store` | `LocalStateStore` a system call at a time, with failures, kills and power losses; implements `AtomicFile` |
| `Health` | `DaemonRunner.run` and the health fields over ticks, failures and restarts |
| `AuditLog` | `JsonlAuditLog.append` by several processes, and the evidence count |
| `MC...` | instances of the above for TLC |
| `DaemonProofs`, `SerialProofs`, `LifecycleProofs` | theorems about `Daemon`: under `Spec`, under `SerialSpec`, and that it implements `Lifecycle` |
| `OutcomesProofs` | theorems about `Outcomes` |
| `TrailingStopProofs`, `StoreProofs`, `HealthProofs`, `AuditProofs` | theorems about the module in their name |

`Daemon` extends `OrderState` and `Submission`. It takes as given what the other
modules look into. Its `Load` and `Replace` are one step each; `Store` has the
calls behind them, and that it implements `AtomicFile` is what justifies the one step. Whether a mark
triggers an exit is a choice in `Daemon`; `TrailingStop` decides it, for one rule,
with the account moving within the tick. That an append may raise is a choice in `Daemon`;
`AuditLog` has what it leaves in the file. `Health` follows the same runner as
`Daemon` through the same loads and saves, but of the health fields only, and
with what a tick got as a choice.

### State and actions of `Daemon`

`disk` is `state.json`; `EmptyState` is what `load` returns while there is no
file. `mem[p]` is the snapshot process `p` holds, `cur[p]` the rule it is
handling, `todo[p]` the rules its tick has still to look at. `pc[p]` says where
it is: `load`, `account` (`get_positions`, `get_fills`), `rules` (the loop),
`handle` (context and `SubmissionPolicy.handle`), `answer` (in
`submit_market_close`), `merge` and `write` (the two file accesses of a merging
save; a plain save has the second only), `sleep`, `off`. `task[p]` is the job:
the tick, one of the runner's three marks, or a command. `run[d]` is how daemon
`d` was started and whether it was wired for live submission.

Three variables are not in the program. `ledger` is what the exchange was last
asked for each rule, `created` the ids already given out (ids are fresh), and
`overrun` the daemons that sent an exit while the switch was on in the file; the
last is there for `KillInFlight` alone. `evidence` stands for the audit log: the
rules that have a `dry_run_exit` event. Evidence of an `auto_submit` rule
(`Vouched`) can only be supplied from outside, as the tests do by writing the
event into the log.

A step is one access to the file or one call between which other processes may
act; everything the code does between two of them is part of the step. A command
loads, checks and changes its copy in one step and saves in another. A rule's
execution mode never changes, so it is a constant (`AutoSubmit`). Whether a mark
price crosses a stop is a choice of `Trigger` against `Pass`. The readiness
inputs outside the program (key, market metadata, age of the mark) are a choice
among `GateValues`.

Faults, each switched on by its name in `Faults`: `account` (the snapshot
fails), `raise` (building the context of any rule in hand, or the key lookup, raises; or
the exchange gateway cannot be built, which counts as a failed exit although
nothing was sent: `AttemptNotSent`), `audit` (an append raises), `save` (a save raises, before or after the replace),
`interrupt` (Ctrl-C), `crash`.

`Spec` lets processes interleave freely. `SerialSpec` allows a step only if
afterwards at most one process holds a snapshot, as a lock around load ... save
would. **The program has no such lock.** `SerialSpec` tells apart the two ways a
property can fail: what holds under it and not under `Spec` is lost to
interleaving alone, and what fails under it as well is wrong in one process's
own sequence of steps.

### `Lifecycle`, and how `Daemon` maps to it

Of each rule `Lifecycle` has its `status` in the file, its `stage` (armed, spent,
succeeded, live, in review) and what the exchange was `asked` for it. Its steps are
what may happen to a rule: it gives up its trigger before an exit is asked for, is
asked for once, is called succeeded or sent to review by the answer, and
comes back by a reset. There are no processes, copies or saves. `Daemon` maps to
it by reading the file alone (`StageOf`) and the ledger. So a crash between the
exit and its save, or a save that raises before or after the replace, has to look
like a rule that stays spent, and a save that carries the changes of several rules
like one step of each.

### The history of `Outcomes`

`run_once` saves the outcomes of its exits once, at its end (and those of earlier
exits whenever it saves a later one's trigger). `dropped` has the rules a tick let
go of with something unsaved: the exit in hand, and whatever its copy says that the
file does not (`Unsaved`), when the tick ends by an exception, Ctrl-C, a crash or a
save that raises before its replace. A rule leaves `dropped` when it is armed in
the file again, which takes a reset. `OutcomeSpec` is `SerialSpec` with this
variable, which no step reads.

### State and actions of `TrailingStop`

`rule` is the rule, any that `__post_init__` accepts. `protected`, `favorable`,
`stop`, `window` and `triggered` are the fields of its `TrailingStopState`;
`filled` is its entry in `filled_size_by_order`, `known` are the fills of its order in
`last_fill_seen_by_order`. `position` and `opened` are the account: the position on
its coin and side, and the fills of its order. `marks`, `since` and `answers` are
history: the marks the trail has taken in, the sizes the position has had since
the tick's snapshot, and what each answer of `get_fills` has shown of the order.

A tick is three steps. `AccountSnapshot` is `get_positions` and `get_fills`; what
they answer is `snapshot`, until the tick is done with the rule. `Observe` updates
the protected size from it and hands the mark to the trail; `TickWithoutMark` is a
tick whose mark does not get that far. If the trail triggers, `Exit` follows: the
exit is taken (dry run, sent or failed) with the protected size, or blocked, which
arms the rule again. `Reset` is `reset-triggered`. The account moves whenever it
likes (`AccountMoves`), so also between the snapshot and the exit.

Fills have an identity, and `get_fills` may show any of those there are: it returns
one page of the account's fills, off which old ones go. The code remembers which it
has seen, but what it protects is the larger of the total it had and the total of
the fills now shown. So a fill that has left the page and a new one are not added up
(`KnownFillsProtected`, refuted by `BugFills`). `FillsProtected` is what remains: as
much is protected as any one answer has shown, and no more than all fills known.

A tick runs to its end here and commands come between ticks. A tick that is cut short,
or whose save an older snapshot overwrites, loses what it did to the trail: the
file then has an older favorable price and stop. How that can happen is the subject
of `Daemon`; `ExitsAtTrail` and `StopNeverLoosens` are about the engine and do not
survive it.

Prices are whole numbers of a unit, percentages of `Hundred`, and a stop is kept
in units of 1/`Hundred` of a price, so the percent and the absolute modes are
exact, as `Decimal` is. An average that does not come out even is rounded down
(in Python at the 28th digit); in the run all averages come out even.

What the trail does not know: it starts with the rule, not with the position.
`favorable_price`, the window and the stop stay when a position is closed and
another one opened, and through `reset-triggered`, so a rule that is reset while
the price is still beyond its old stop exits on the next mark. No document says otherwise;
`ExitsAtTrail` states it as it is.

### State and actions of `Store`

`now` is the file at the path, `content` how much of each file was written,
`synced` the files whose content is on the disk, and `may` the entries that the
path has had since the directory was synced: a power loss puts any of them back, with
nothing, part or all of a file that was not synced. `temps` are files under a
temporary name. Each save makes a file of its own, so a snapshot is
named by its file. `MakeTemp`, `WritePart`, `Write`, `FsyncFile`, `Replace` and `FsyncDir` are the calls
of `save`; any of them may raise (`Fail`), and the handler unlinks and raises
(`Unlink`). `load` asks whether there is a file (`LoadNothing`, `Exists`), opens
it and reads it: in between it may be replaced, and what was opened is read.
`Kill` is also Ctrl-C, which `except Exception` does not catch, and a failing
`unlink`. `clock`, `rank`, `returned` and `orphans` are history.

The directory is taken to be there. `save` makes it when it is not and does not
sync its parent; in practice `init` makes it.

### State and actions of `Health`

`file` is the health in the state file, `copy` the one the runner holds, `held`
those that other processes hold: commands and `run --once` save the health as
they loaded it, and nothing else of theirs concerns it. `pc` goes around the loop of
`run`; a mark is a load, a change and a save. What raises in a tick is caught
(`TickRaises`), what raises in a mark or in the heartbeat leaves the loop by the
`finally` (`MarkRaises`), as Ctrl-C does (`Interrupt`). `Kill` is a kill without
the `finally`; SIGTERM is one, since the program installs no handler. Time is the
count of calls of `utc_now`. The run without `--max-iterations` is the same loop
without its first exit and is left out, so that `RunEnds` can be stated.
`streak` and `lost` are history: the ticks that failed since the last good one, and whether a result
was lost, be it unsaved or overwritten by an older copy.

### State and actions of `AuditLog`

`file` is the sequence of what the writers left: a line, one without its end, or
part of one. `append` opens (`O_APPEND`), writes and flushes, and syncs. Two
appends may overlap in any way but inside one write, which the system keeps whole
on a file opened for appending; an event is a few hundred bytes and goes out
with one write at the flush. A full disk writes part of it (`WriteShort`). `linked` says whether the file's name is
on the disk: `append` never syncs the directory, but any save of the state does.
`Send` is the one caller that goes on to send an exit. `Unreadable` is what
`json.loads` makes of a line in `count_rule_events`: a write without its end makes
one line with the next.

## Runs

`TwoDaemons`, `Retried` and all violations but `BugFills` use `MCDaemon`, and
`Serial` uses `MCOutcomes`, which extends it. Their bounds: up to three rules and one operator;
one daemon, two in `TwoDaemons`. Every property speaks of one rule or of two
processes. A lost update needs two processes; one daemon and one operator give
every pair of roles, and two daemons the remaining pair. Two rules are needed
where a step of one rule affects another: in `Serial` one tick sends two
exits and is cut short between the saves that concern the one and the other, while
a third rule has no evidence and must not profit from theirs. The daemon of `Serial` is
launched to send canaries on and on, or for one tick without `--canary`, so a rule meets
both what lets it fire and what blocks it; `--market-exists` is in `TwoDaemons`, a
`dry_run` rule in `Retried`, and that nothing changes with such rules about what
`Serial` checks is what the theorems say. An id is used once, so the number of rules bounds the
`create-trailing` commands; nothing else grows. `Retried` has no
`kill-switch --disable`: it leads back to a file there was before, and its property
starts where the daemon holds no copy.

| Run | Behaviours | Shows |
|---|---|---|
| `TwoDaemons` | `Spec`, two daemons and an operator who creates, promotes, resets and uses the kill switch, every fault, daemons symmetric | `TypeOK`, `SpentAfterCanary`, `KillInFlight` |
| `Serial` | `OutcomeSpec`, which is `SerialSpec` with the history of `Outcomes`; every fault, gate and command, three `auto_submit` rules of which two have evidence | `NoSecondExit`, `NoAttemptUnderKill`, `EveryAttemptIsCanary`, `KillOnlyByCommand`, `DisabledSticks`, `CreatedStays`, `ReviewOnlyByReset`, `SuccessIsReal`, `OnlyVouched`, `WedgedMeansDropped`, `RecordedOrDropped`, and `HasLife`, the refinement of `Lifecycle` |
| `Retried` | `LiveSpec`, an `auto_submit` rule and a `dry_run` one, a daemon that runs on and every command but `init` and `kill-switch --disable`, account failures and failing gates | `BlockedExitIsRetried` |
| `Trailing` | one rule of each of eight kinds, two fills, five marks | `ExitsAtTrail`, `StopNeverLoosens`, `ExitIsOfThisTick`, `FillsProtected`, `TypeOK` |
| `Store` | two processes, three files, every fault | `TypeOK`, `ReturnedSavesSurvive`, `NothingLeftBehind`, and `SavesAreAtomic`, the refinement of `AtomicFile` |
| `Health` | two runs of two ticks, one other process, every fault, fair runner | `TypeOK`, `StampsAgree`, `FailuresCounted`, `ModeTells`, `RunEnds` |
| `AuditLog` | two processes, four events, every fault | `TypeOK`, `SentIsLogged`, `EvidenceGrows` |

`Trailing` has a window of two, so that it fills and slides three times in five
marks; three prices of which the middle one is exactly at the trail from the
best (8 to 6 is two units and a quarter), so that equality happens; a rule size
between the two sizes a position can have, so that the cap matters. The kinds are
both sides in each of the three modes, unattached, and attached a long rule by
percent and a short one by moving average: size and trail meet only in `Observe`,
which is one for all. The two fills differ in size, and an attached rule's size is
between the larger and their sum, so that the total, the larger one and the cap are all
told apart. Only the history of marks grows without end, and `MaxMarks` bounds it.

`Store` has three files so that a save can fall between two others, or be lost
with an older and a newer one beside it; two processes give each pair of calls.
`Health` has two runs so that one starts from what another left, killed or not,
and two ticks so that failures add up within a run and over runs; the other process
may hold a copy for as long as it likes. `AuditLog` has an event more than it takes
for a short write to be glued to a next line and a third to follow.

Runs that TLC refutes, each a sentence of the documents (quoted in PROJECT.json
under `findings`) that the code does not keep:

| Run | The code does |
|---|---|
| `BugSecondExit` | a command's plain save re-arms a rule whose exit was sent |
| `BugWedge` (serial) | an exception while the context is built leaves the rule triggered for good, and not in review |
| `BugPromoted` (fair) | a promoted rule can never fire: its trigger stays spent, even for a daemon wired for live exits and started with `--canary`, which forbids least |
| `BugEvidence` (fair) | an `auto_submit` rule can never produce the evidence its gate asks for |
| `BugFills` | a new fill adds nothing to the protected size when an old one is no longer shown |

`NoSecondExit`, `KillOnlyByCommand`, `NoAttemptUnderKill`, `DisabledSticks`,
`CreatedStays` and `HasLife` hold under `SerialSpec` and fail under `Spec` by the same cause,
a save of an older snapshot; `BugSecondExit` stands for them all. What is left of
the kill switch when processes interleave is `KillInFlight`. `NoSilentWedge`, that no rule
is left triggered without an outcome, fails by any tick that is cut short
(`BugWedge`), for the one reason that outcomes are saved only at its end. `Serial`
shows that there is no other reason: between ticks, the rules in that state are
those in `dropped` and no others, and the file tells the outcome of every exit that
was sent but not dropped. `AuditLog` shows one way into that wedge that does not go away: once a
line is torn, the evidence count raises in every tick that has a live exit
(`EvidenceGrows`: what could not be read is not read again).

Fairness (`LiveSpec`). A daemon that runs keeps running (`WF` of `Progress`):
its calls end in an answer, an exception or the client's timeout, and its sleeps
end. The account snapshot and the readiness gates do not fail for ever
(`SF` of `AccountLoaded` and `Attempt`): the property is about transient
failures. Operators and restarts are never forced, so the liveness properties
speak of a daemon that no other process disturbs (`Undisturbed`), and are met
when that ends. In these runs a mark crosses whenever a rule may fire
(`QuietMarks = FALSE`).

`FairSpec` of `Health` is `WF` of `Run`, the steps the runner takes when left
alone: it is scheduled, its calls return or raise, and its sleeps end. Faults, the
request to stop and the other processes are not forced. The starts are bounded
(`MaxStarts`), so a run is not started over for ever.

Deadlock is checked in every run. Where the runs are bounded, what remains
possible is what the code can always do: a daemon wakes, a command loads.

## Proofs

`DaemonProofs` proves, for any constants that satisfy `DaemonAssumption` and
`AutoSubmitAssumption`:

* `TypeCorrect`: `Spec => []TypeOK`. The transformers of `OrderState` map
  snapshots to snapshots (`ChangesAreTyped`); each step of a daemon, an operator
  or a shared save keeps the types.
* `SpentTheorem`: `Spec => []SpentAfterCanary`. The invariant is inductive only
  with what a daemon in the middle of an exit knows: the rule it is handling is
  triggered in its copy. Otherwise `Accepted` could record `canary_succeeded`
  on an armed rule. The copies have to be in the invariant because any of them
  may become the file.
* `CanaryTheorem`: `Spec => EveryAttemptIsCanary`. A daemon triggers only a rule
  that is not triggered in its copy, which by the spent invariant is
  neither `canary_succeeded` nor `normal_live`; the gates exclude the rest.
* `VouchedTheorem`: `Spec => OnlyVouched`. Evidence grows only by dry_run rules.
* `KillTheorem`: `Spec => KillInFlight`. A daemon in `overrun` that is at a point
  where it may still send holds a copy with the switch on: it reaches such a
  point only through a merge, and while the switch stays on in the file, the
  merge copies it.

`SerialProofs` proves, about `SerialSpec`:

* `SecondExitTheorem`: `SerialSpec => NoSecondExit`;
* `KillGateTheorem`: `SerialSpec => NoAttemptUnderKill`;
* `KillCommandTheorem`: `SerialSpec => KillOnlyByCommand`;
* `DisabledTheorem`: `SerialSpec => DisabledSticks`;
* `CreatedTheorem`: `SerialSpec => CreatedStays`.

One inductive invariant, `SerialInv`, serves all five. It says how the snapshot
of the one process that holds one compares with the file and with the exchange:
no rule is missing from it, none is enabled that is disabled in the file, what
was asked of the exchange is spent in both (`RulesInv`); its switch is the file's
or what the command says (`SwitchInv`); the live exit in hand is spent in the
file before it is sent and has not been sent (`ExitInv`). `FileInv` is what is
left of that when nobody holds a snapshot. The properties alone are not
inductive: a failed or crashed save leaves the file behind the snapshot, and only
`RulesInv` says by how much. A process without a snapshot changes neither file nor
exchange (`IdleStep`), which carries the invariant over the other processes' steps.

`LifecycleProofs` proves, about `SerialSpec`:

* `HasLifeTheorem`: `SerialSpec => HasLife`, the refinement;
* `SuccessTheorem`: `SerialSpec => []SuccessIsReal`;
* `ReviewTheorem`: `SerialSpec => ReviewOnlyByReset`.

Its invariant `LifeInv` adds to `SerialInv` how far the copy of a process may be
ahead of the file: rule by rule, by one step of its life at most, given what the
exchange has been asked. So whatever save succeeds, the file takes one step per rule; and when
a save fails, or its process dies, the file stays where it was, which is a
stutter. `SuccessIsReal` and `ReviewOnlyByReset` follow from that and from what
`Lifecycle` allows (`Backed`).

`OutcomesProofs` proves, about `OutcomeSpec`:

* `WedgeTheorem`: `OutcomeSpec => []WedgedMeansDropped`;
* `RecordedTheorem`: `OutcomeSpec => []RecordedOrDropped`.

Both properties speak of the file between ticks. Within a tick the file is behind, so
the invariant `OutcomeInv` says instead that the tick's *copy* tells the
outcome of every rule but the one in hand (`CopySettled`), and the file does when no
tick is under way (`FileSettled`). A save carries the one over to the other, and a
tick that ends without it drops just what differs. That needs three more facts. A
dropped rule is spent in the file (`DroppedInv`), which makes the first property an
equivalence. A later tick leaves it as it found it (`Untouched`), so that no save
but a reset's brings it back; a trigger that is spent in the copy does
not trigger. And a rule that is armed in the file has no exit to tell of
(`ArmedIsSettled`), by `Backed` of `LifeInv`. TLC finds these parts of `OutcomeInv`
true on the instance of the run.

`TrailingStopProofs` proves, for every set of valid rules, every set of prices
and every window length:

* `TrailTypeCorrect`: `Spec => []TypeOK`;
* `TrailExact`: `Spec => ExitsAtTrail`;
* `StopTheorem`: `Spec => StopNeverLoosens`;
* `SizeTheorem`: `Spec => ExitIsOfThisTick`;
* `FillsTheorem`: `Spec => FillsProtected`.

The invariant `TrailInv` says what the two things the rule keeps of the past are
in terms of all of it: the window is the last `Window` marks (`WindowSlides`), the
best price is one of the signals and no signal is better (`ObservedBest`). That
what reaches the distance from one signal reaches it from the best one
(`ReachGrows`) needs a percentage below 100, which `__post_init__` demands. That
the average of a window of prices is a number is `AverageAssumption`: a sum is a
recursion, whose value for every window TLAPS cannot prove. For the same reason
`TotalAssumption` says that the size of a set of fills is a number and no smaller than
that of a part of it. TLC evaluates both on the instance.

The other parts of `TrailInv` are about the tick. The snapshot's size is one the position has
had since the tick began, and an exit in hand is of no more than that (`TickInv`); that needs
`Observe` to take the size from the snapshot before the trail can trigger, and every
later move of the account to leave the earlier sizes in `since`. Each answer's total
is at most `filled`, `filled` is at most the total of `known`, and what an answer has shown is
known (`FillsInv`): the maximum over answers is between any one of them and
their union.

`StoreProofs` proves, for any processes and files:

* `StoreTypeCorrect`: `Spec => []TypeOK`;
* `AtomicTheorem`: `Spec => SavesAreAtomic`, the refinement;
* `SurviveTheorem`: `Spec => []ReturnedSavesSurvive`;
* `CleanTheorem`: `Spec => []NothingLeftBehind`.

The invariant says, of what is at the path, may come back there or is being read, that it is whole,
synced and has no temporary name; and of each process in a save what
its file is by then, and that it is its own. `ReturnedSavesSurvive` needs the order: `now` was put there last,
nothing in `may` is older than a save that has returned.

`HealthProofs` proves, for any number of other processes, ticks and starts:

* `HealthTypeCorrect`: `Spec => []TypeOK`;
* `StampsTheorem`: `Spec => []StampsAgree`;
* `CountTheorem`: `Spec => []FailuresCounted`;
* `ModeTheorem`: `Spec => []ModeTells`.

`StampsAgree` is inductive once it is said of every copy, with no stamp ahead of the
clock. `FailuresCounted` needs how far `streak` is ahead of the file at each point
of the loop: by the result in hand, from the end of a tick to its save.

`AuditProofs` proves, for any processes and events:

* `AuditTypeCorrect`: `Spec => []TypeOK`;
* `SentTheorem`: `Spec => []SentIsLogged`;
* `EvidenceTheorem`: `Spec => EvidenceGrows`.

The invariant says where the line of each process is: in the file before the sync,
on the disk before `append` returns. Nothing that is on the disk is lost (`Stays`), but with the
file (`adrift`).

Every safety and action property and every refinement that a run checks and TLC
finds true is proved. Only model-checked: liveness (`BlockedExitIsRetried`, `RunEnds`
and what the fair violation runs refute), which is outside what TLAPS proves.

## Not modelled

* Several rules on one position: each of two unattached rules takes the whole of it, and
  only the exchange's reduce-only close limits what both exit. No document says
  how they should share it.
* `active_rules_count` and `last_blocked_reasons`, which the readiness plan (R2) asks
  `health` to show: copies of a tick's result, that no step reads.
* The size of an attached rule against the position: the one does not follow the other,
  and the program leaves it to the exchange's reduce-only close (see the hazards).
* "Max consecutive failures", which the first plan mentions: the code only counts.
* The JSON encoding and the schema migration: conversions of a whole file.
* Gateways and keychain: parsing and SDK set-up. Their answers are choices.
* The inspection commands, `emergency-cancel` and the keychain commands: they leave the
  state file alone, and nothing reads the events that two of them append.
* Redaction and the text of audit events: formatting.
