---------------------------- MODULE TrailingStop ----------------------------
(***************************************************************************)
(* The trailing stop of one rule: what TrailingStopEngine.observe does     *)
(* with the marks that DaemonService.run_once hands it, how run_once keeps *)
(* the protected size, and reset-triggered.                                *)
(*                                                                         *)
(* The account moves whenever it likes: between ticks, and within one from *)
(* the snapshot of the account over the mark to the exit.  A tick runs to  *)
(* its end here and commands come between ticks: what cuts a tick short,   *)
(* and what saves an older copy over its own, is the subject of Daemon.    *)
(*                                                                         *)
(* Prices are whole numbers of some unit.  A percentage is a whole number  *)
(* too, of which Hundred make the whole, and a stop is kept in units of    *)
(* 1/Hundred of a price, so that no percentage is rounded.                 *)
(***************************************************************************)
EXTENDS Integers, Sequences
LOCAL INSTANCE Functions

CONSTANTS Rules,    \* the rules that may have been created
          Prices,   \* the mark prices
          Sizes,    \* sizes of positions
          Fills,    \* the fills that the attached order may have
          SizeOf,   \* the size of each fill
          Window,   \* moving_average_window
          Hundred,  \* what 100 percent is in the unit of trail_value
          NoPrice,  \* None
          MaxMarks  \* bound on the marks observed

TrailMode == {"percent", "absolute", "moving_average"}

\* The rules that __post_init__ accepts.  attached: it has an attached_order_id.
ValidRule ==
  {r \in [side : {"long", "short"}, trail_mode : TrailMode, trail_value : Nat \ {0},
          size : Nat \ {0}, attached : BOOLEAN] :
     r.trail_mode = "percent" => r.trail_value < Hundred}

\* The size of a set of fills.
Total(some) == SumFunctionOnSet(SizeOf, some)

\* sum(moving_window) / len(moving_window).
Average(w) == SumFunction(w) \div Len(w)

ASSUME RuleAssumption ==
  /\ \A r \in Rules : r \in ValidRule
  /\ Prices \subseteq Nat \ {0} /\ NoPrice \notin Nat
  /\ Sizes \subseteq Nat /\ SizeOf \in [Fills -> Nat \ {0}]
  /\ Window \in Nat \ {0} /\ Hundred \in Nat \ {0} /\ MaxMarks \in Nat

\* The average of a window of prices is a number.
ASSUME AverageAssumption ==
  \A n \in 1 .. Window : \A w \in [1 .. n -> Prices] : Average(w) \in Nat

\* A sum of sizes is a number, and no smaller than that of a part of them.
ASSUME TotalAssumption ==
  \A some \in SUBSET Fills :
    /\ Total(some) \in Nat
    /\ \A part \in SUBSET some : Total(part) <= Total(some)

VARIABLES rule,       \* the rule; it never changes
          pc,         \* run_once: "idle", "ticking" with a snapshot, "exiting"
          snapshot,   \* what get_positions and get_fills have answered the tick
          protected,  \* protected_size
          favorable,  \* favorable_price
          stop,       \* stop_price
          window,     \* moving_window
          triggered,
          filled,     \* filled_size_by_order of the attached order
          known,      \* the fills of it in last_fill_seen_by_order
          position,   \* size of the position on the rule's coin and side
          opened,     \* the fills of the attached order so far
          marks,      \* history: the marks observe has taken into the trail
          since,      \* history: the sizes of the position since the tick's snapshot
          answers     \* history: what get_fills has shown of the order, tick by tick

trail == <<favorable, stop, window, marks>>
fills == <<filled, known, answers>>
account == <<position, opened>>
tick == <<pc, snapshot, since>>
vars == <<rule, protected, trail, triggered, fills, account, tick>>

\* Between ticks there is no snapshot.
NoSnapshot == [size |-> 0, fills |-> {}]

Smaller(m, n) == IF m < n THEN m ELSE n
Larger(m, n) == IF m > n THEN m ELSE n

\* The rule's order has filled total in all, by the fills shown so far.  Each new one
\* first adds to the protected size, but if any is shown the total replaces that.
FillsSeen(total) ==
  /\ filled' = total
  /\ protected' = IF snapshot.fills # {} THEN Smaller(rule.size, total) ELSE protected
  /\ known' = known \cup snapshot.fills
  /\ answers' = answers \cup ({snapshot.fills} \ {{}})

-----------------------------------------------------------------------------
(* Definitions changed the way a mistake in the code would. *)

\* A short position follows rising prices as well.
BestHighest(r, old, new) == IF old = NoPrice THEN new ELSE Larger(old, new)

\* The window keeps one mark too few.
SlidShort(w, mark) ==
  LET longer == Append(w, mark)
  IN  SubSeq(longer, Larger(1, Len(longer) - Window + 2), Len(longer))

\* The protected size of a position that is gone is left as it was.
UpdateWithoutClearing ==
  IF rule.attached
  THEN FillsSeen(Larger(filled, Total(snapshot.fills)))
  ELSE /\ protected' = IF snapshot.size > 0 THEN Smaller(rule.size, snapshot.size) ELSE protected
       /\ UNCHANGED fills

\* Fills already counted are added again.
UpdateByAdding ==
  IF rule.attached
  THEN FillsSeen(filled + Total(snapshot.fills))
  ELSE /\ protected' = Smaller(rule.size, snapshot.size)
       /\ UNCHANGED fills

\* The protected size is not capped at the rule's.
UpdateUncapped ==
  IF rule.attached
  THEN FillsSeen(Larger(filled, Total(snapshot.fills)))
  ELSE /\ protected' = snapshot.size
       /\ UNCHANGED fills

-----------------------------------------------------------------------------
(* The arithmetic of the trail. *)

\* The window after a mark: the oldest prices beyond its length are dropped.
Slid(w, mark) ==
  LET longer == Append(w, mark)
  IN  SubSeq(longer, Larger(1, Len(longer) - Window + 1), Len(longer))

\* The more favorable of the best price so far and a new one.
Best(r, old, new) ==
  IF old = NoPrice THEN new
  ELSE IF r.side = "long" THEN Larger(old, new) ELSE Smaller(old, new)

\* How far the stop is from the best price.
Distance(r, best) ==
  IF r.trail_mode = "percent" THEN best * r.trail_value ELSE Hundred * r.trail_value

StopPrice(r, best) ==
  IF r.side = "long" THEN Hundred * best - Distance(r, best)
                     ELSE Hundred * best + Distance(r, best)

Crossed(r, mark, at) ==
  IF r.side = "long" THEN Hundred * mark <= at ELSE Hundred * mark >= at

-----------------------------------------------------------------------------
(* The actions. *)

Init ==
  /\ rule \in Rules
  /\ protected = 0 /\ filled = 0 /\ known = {} /\ triggered = FALSE
  /\ favorable = NoPrice /\ stop = NoPrice /\ window = <<>> /\ marks = <<>>
  /\ position \in Sizes /\ opened = {} /\ answers = {}
  /\ pc = "idle" /\ snapshot = NoSnapshot /\ since = {}

\* get_positions and get_fills, of which a rule uses one.  Fills of an old order
\* need not all be on the page of fills that the exchange returns.
AccountSnapshot ==
  /\ pc = "idle"
  /\ pc' = "ticking"
  /\ \E shown \in SUBSET opened : snapshot' = [size |-> position, fills |-> shown]
  /\ since' = {position}
  /\ UNCHANGED <<rule, protected, trail, triggered, fills, account>>

\* run_once goes on to the exit, or is done with the rule and its snapshot.
Goes(to) ==
  /\ pc' = to
  /\ IF to = "idle" THEN snapshot' = NoSnapshot /\ since' = {} ELSE UNCHANGED <<snapshot, since>>

\* _update_protected_size.  An unattached rule protects the position there is, an
\* attached one what its order has filled: the most that one answer has shown.
UpdateProtectedSize ==
  IF rule.attached
  THEN FillsSeen(Larger(filled, Total(snapshot.fills)))
  ELSE /\ protected' = Smaller(rule.size, snapshot.size)
       /\ UNCHANGED fills

\* A tick that gives the trail no mark: it cannot be had, is of another coin or
\* source, or observe returns before it looks at it.
TickWithoutMark ==
  /\ pc = "ticking"
  /\ UpdateProtectedSize
  /\ Goes("idle")
  /\ UNCHANGED <<rule, trail, triggered, account>>

\* A tick whose mark the trail follows.
Observe(mark) ==
  /\ pc = "ticking" /\ Len(marks) < MaxMarks
  /\ UpdateProtectedSize
  /\ ~triggered /\ protected' > 0
  /\ window' = IF rule.trail_mode = "moving_average" THEN Slid(window, mark) ELSE window
  /\ favorable' = Best(rule, favorable,
                       IF rule.trail_mode = "moving_average" THEN Average(window') ELSE mark)
  /\ stop' = StopPrice(rule, favorable')
  /\ triggered' = Crossed(rule, mark, stop')
  /\ Goes(IF triggered' THEN "exiting" ELSE "idle")
  /\ marks' = Append(marks, mark)
  /\ UNCHANGED <<rule, account>>

\* The exit is taken, with the protected size (dry run, sent or failed), or it is
\* blocked, which arms the rule again.
Exit(blocked) ==
  /\ pc = "exiting"
  /\ triggered' = ~blocked
  /\ Goes("idle")
  /\ UNCHANGED <<rule, protected, trail, fills, account>>

\* reset-triggered, which needs a position and keeps the trail.
Reset ==
  /\ pc = "idle" /\ position > 0
  /\ triggered' = FALSE
  /\ protected' = Smaller(rule.size, position)
  /\ UNCHANGED <<rule, trail, fills, account, tick>>

\* The account moves: the attached order fills, positions open and close.
AccountMoves ==
  /\ position' \in Sizes
  /\ opened' \in {S \in SUBSET Fills : opened \subseteq S /\ (S # opened => rule.attached)}
  /\ since' = IF pc = "idle" THEN since ELSE since \cup {position'}
  /\ UNCHANGED <<rule, protected, trail, triggered, fills, pc, snapshot>>

Next ==
  \/ AccountSnapshot
  \/ TickWithoutMark
  \/ \E mark \in Prices : Observe(mark)
  \/ \E blocked \in BOOLEAN : Exit(blocked)
  \/ Reset
  \/ AccountMoves

Spec == Init /\ [][Next]_vars

-----------------------------------------------------------------------------
(* Properties. *)

TypeOK ==
  /\ rule \in Rules
  /\ pc \in {"idle", "ticking", "exiting"}
  /\ snapshot \in [size : Nat, fills : SUBSET Fills]
  /\ protected \in 0 .. rule.size /\ filled \in Nat
  /\ position \in Sizes /\ since \subseteq Sizes
  /\ opened \subseteq Fills /\ known \subseteq Fills /\ answers \subseteq SUBSET Fills
  /\ triggered \in BOOLEAN
  /\ marks \in Seq(Prices) /\ window \in Seq(Prices)
  /\ favorable \in Nat \cup {NoPrice}
  /\ stop \in Int \cup {NoPrice}

\* The last Window of the first k marks.
Recent(ms, k) == SubSeq(ms, Larger(1, k - Window + 1), k)

\* The k-th price the trail was to follow: the mark, or the average of the window.
SignalAt(ms, k) ==
  IF rule.trail_mode = "moving_average" THEN Average(Recent(ms, k)) ELSE ms[k]

\* The mark is the rule's distance or more on the wrong side of a price that the
\* trail was to follow at some time since the rule was created.
Reached(ms, mark) ==
  \E k \in 1 .. Len(ms) :
    LET signal == SignalAt(ms, k)
        move == IF rule.side = "long" THEN signal - mark ELSE mark - signal
    IN  Hundred * move >= Distance(rule, signal)

\* trailing.py 53: a mark triggers the exit exactly when it has reached the trail's
\* distance from some earlier price; the one best price and the one sliding window
\* that the rule keeps, over blocks, resets and pauses, lose nothing of the past.
ExitsAtTrail ==
  [][\A mark \in Prices : Observe(mark) => (triggered' <=> Reached(marks', mark))]_vars

\* trailing.py 77: once set, the stop only moves in the position's favor, in every
\* mode and whatever a block, a reset or a closed position does in between.
StopNeverLoosens ==
  [][stop # NoPrice => IF rule.side = "long" THEN stop' >= stop ELSE stop' <= stop]_vars

\* daemon.py 180: the position may change after the tick has looked at it, and
\* before the exit is handed over.  An exit of an unattached rule is of no more
\* than the position was at some moment of this tick: no size of an earlier tick,
\* of a position since closed, or of a reset gets through to it.
ExitIsOfThisTick ==
  [][~rule.attached /\ Exit(FALSE) => \E size \in since : protected \in 1 .. size]_vars

\* The tick handles the rule, and its order's fills were in the answer it got.
SeesFills == pc = "ticking" /\ pc' # "ticking" /\ rule.attached /\ snapshot.fills # {}

\* daemon.py 173: a tick that sees fills of the attached order protects as much, up
\* to the rule's size, as any one answer has shown, this one or an earlier one of
\* which fills have since gone; and never counts a fill twice.  It follows that
\* all known fills are protected once one answer has shown them all.
FillsProtected ==
  [][SeesFills =>
       /\ \A shown \in answers' : protected' >= Smaller(rule.size, Total(shown))
       /\ protected' <= Smaller(rule.size, Total(known'))]_vars

-----------------------------------------------------------------------------
(* A property that also needs every answer to show the fills there were. *)

\* A tick that sees fills of the attached order protects all the fills of it that
\* the daemon knows of, up to the rule's size.
KnownFillsProtected ==
  [][SeesFills => protected' >= Smaller(rule.size, Total(known'))]_vars

=============================================================================
