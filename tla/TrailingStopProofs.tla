------------------------- MODULE TrailingStopProofs -------------------------
(***************************************************************************)
(* Theorems about TrailingStop, for every set of rules, prices and sizes   *)
(* and every length of the window.                                         *)
(*                                                                         *)
(* The rule keeps one best price, one window and one total of its order's  *)
(* fills; the invariant says what they are in terms of all the marks that  *)
(* were observed and all the answers that showed fills.                    *)
(***************************************************************************)
EXTENDS TrailingStop, SequenceTheorems, TLAPS

\* at is at least as favorable as price to the position.
AsGood(at, price) == IF rule.side = "long" THEN at >= price ELSE at <= price

WindowInv == rule.trail_mode = "moving_average" => window = Recent(marks, Len(marks))

BestInv ==
  /\ marks = <<>> => favorable = NoPrice /\ stop = NoPrice
  /\ marks # <<>> =>
       /\ favorable \in Nat /\ stop = StopPrice(rule, favorable)
       /\ \E k \in 1 .. Len(marks) : favorable = SignalAt(marks, k)
       /\ \A k \in 1 .. Len(marks) : AsGood(favorable, SignalAt(marks, k))

\* The total is of one answer's fills, and as large as that of any.
FillsInv ==
  /\ filled <= Total(known)
  /\ \A shown \in answers : Total(shown) <= filled

\* What a tick works on is what the position was after it began.
TickInv ==
  /\ pc # "idle" => snapshot.size \in since
  /\ pc = "exiting" /\ ~rule.attached => protected \in 1 .. snapshot.size

TrailInv == TypeOK /\ FillsInv /\ TickInv /\ WindowInv /\ BestInv

-----------------------------------------------------------------------------
(* Windows and signals. *)

LEMMA RecentProperties ==
  ASSUME NEW ms \in Seq(Prices), NEW k \in 0 .. Len(ms)
  PROVE  /\ Recent(ms, k) \in Seq(Prices)
         /\ Len(Recent(ms, k)) = Smaller(k, Window)
         /\ \A i \in 1 .. Smaller(k, Window) : Recent(ms, k)[i] = ms[k - Smaller(k, Window) + i]
  <1> DEFINE m == Larger(1, k - Window + 1)
  <1>1. k \in Int /\ m \in Int /\ Window \in Nat \ {0} /\ Len(ms) \in Nat
    BY RuleAssumption DEF Larger
  <1>2. m >= 1 /\ k - m + 1 = Smaller(k, Window) /\ m - 1 = k - Smaller(k, Window)
    BY <1>1 DEF Larger, Smaller
  <1>3. \A i \in m .. k : ms[i] \in Prices
    BY <1>1, <1>2, ElementOfSeq
  <1>4. /\ SubSeq(ms, m, k) \in Seq(Prices)
        /\ Len(SubSeq(ms, m, k)) = IF m <= k THEN k - m + 1 ELSE 0
        /\ \A i \in 1 .. k - m + 1 : SubSeq(ms, m, k)[i] = ms[m + i - 1]
    <2> HIDE DEF m
    <2> QED BY <1>1, <1>3, SubSeqProperties
  <1>5. Len(SubSeq(ms, m, k)) = Smaller(k, Window)
    BY <1>1, <1>2, <1>4 DEF Smaller, Larger
  <1>6. \A i \in 1 .. Smaller(k, Window) : m + i - 1 = k - Smaller(k, Window) + i
    BY <1>1, <1>2 DEF Smaller
  <1>7. \A i \in 1 .. Smaller(k, Window) : SubSeq(ms, m, k)[i] = ms[k - Smaller(k, Window) + i]
    BY <1>2, <1>4, <1>6
  <1> QED BY <1>4, <1>5, <1>7 DEF Recent

\* The window of an earlier moment does not change when a mark is added.
LEMMA RecentStays ==
  ASSUME NEW ms \in Seq(Prices), NEW mark \in Prices, NEW k \in 0 .. Len(ms)
  PROVE  Recent(Append(ms, mark), k) = Recent(ms, k)
  <1>1. Len(ms) \in Nat /\ Window \in Nat \ {0} /\ k \in Nat
    BY RuleAssumption
  <1>2. /\ Append(ms, mark) \in Seq(Prices) /\ Len(Append(ms, mark)) = Len(ms) + 1
        /\ \A i \in 1 .. Len(ms) : Append(ms, mark)[i] = ms[i]
    BY AppendProperties
  <1>3. k \in 0 .. Len(Append(ms, mark))
    BY <1>1, <1>2
  <1>4. \A i \in 1 .. Smaller(k, Window) : k - Smaller(k, Window) + i \in 1 .. Len(ms)
    BY <1>1 DEF Smaller
  <1> DEFINE j == Smaller(k, Window)
             a == Recent(Append(ms, mark), k)
             b == Recent(ms, k)
  <1>5. a \in Seq(Prices) /\ Len(a) = j /\ \A i \in 1 .. j : a[i] = Append(ms, mark)[k - j + i]
    BY <1>2, <1>3, RecentProperties
  <1>6. b \in Seq(Prices) /\ Len(b) = j /\ \A i \in 1 .. j : b[i] = ms[k - j + i]
    BY RecentProperties
  <1>7. \A i \in 1 .. j : a[i] = b[i]
    BY <1>2, <1>4, <1>5, <1>6
  <1> HIDE DEF a, b, j
  <1>8. a = b
    BY <1>5, <1>6, <1>7, SeqEqual
  <1> QED BY <1>8 DEF a, b

\* Sliding the window is taking the last marks of the longer history.
LEMMA WindowSlides ==
  ASSUME NEW ms \in Seq(Prices), NEW mark \in Prices
  PROVE  Slid(Recent(ms, Len(ms)), mark) = Recent(Append(ms, mark), Len(ms) + 1)
  <1> DEFINE w == Recent(ms, Len(ms))
             longer == Append(w, mark)
             n == Len(ms)
             all == Append(ms, mark)
  <1>1. n \in Nat /\ Window \in Nat \ {0}
    BY RuleAssumption
  <1>2. /\ w \in Seq(Prices) /\ Len(w) = Smaller(n, Window)
        /\ \A i \in 1 .. Smaller(n, Window) : w[i] = ms[n - Smaller(n, Window) + i]
    BY <1>1, RecentProperties
  <1>3. /\ longer \in Seq(Prices) /\ Len(longer) = Smaller(n, Window) + 1
        /\ \A i \in 1 .. Smaller(n, Window) : longer[i] = ms[n - Smaller(n, Window) + i]
        /\ longer[Smaller(n, Window) + 1] = mark
    BY <1>2, AppendProperties
  <1>4. /\ all \in Seq(Prices) /\ Len(all) = n + 1 /\ all[n + 1] = mark
        /\ \A i \in 1 .. n : all[i] = ms[i]
    BY <1>1, AppendProperties
  <1>5. \A i \in 1 .. Len(longer) : longer[i] = all[n + 1 - Len(longer) + i]
    <2>1. SUFFICES ASSUME NEW i \in 1 .. Len(longer)
                   PROVE  longer[i] = all[n + 1 - Len(longer) + i]
      OBVIOUS
    <2> HIDE DEF longer, n, all
    <2>2. CASE i = Len(longer)
      <3>1. n + 1 - Len(longer) + i = n + 1
        BY <1>1, <1>3, <2>2 DEF Smaller
      <3> QED BY <1>3, <1>4, <2>2, <3>1
    <2>3. CASE i # Len(longer)
      <3>1. /\ i \in 1 .. Smaller(n, Window) /\ n - Smaller(n, Window) + i \in 1 .. n
            /\ n + 1 - Len(longer) + i = n - Smaller(n, Window) + i
        BY <1>1, <1>3, <2>3 DEF Smaller
      <3> QED BY <1>3, <1>4, <3>1 DEF n
    <2> QED BY <2>2, <2>3
  <1> DEFINE j == Smaller(n + 1, Window)
  <1>6. Slid(w, mark) = Recent(longer, Len(longer))
    BY DEF Slid, Recent
  <1>7. Smaller(Len(longer), Window) = j /\ Len(longer) \in Nat /\ Len(longer) >= j /\ j \in Nat
    BY <1>1, <1>3 DEF Smaller
  <1> HIDE DEF w, longer, n, all, j
  <1>8. /\ Recent(longer, Len(longer)) \in Seq(Prices) /\ Len(Recent(longer, Len(longer))) = j
        /\ \A i \in 1 .. j : Recent(longer, Len(longer))[i] = longer[Len(longer) - j + i]
    <2>1. Len(longer) \in 0 .. Len(longer)
      BY <1>7
    <2> QED BY <1>3, <1>7, <2>1, RecentProperties
  <1>9. /\ Recent(all, Len(all)) \in Seq(Prices) /\ Len(Recent(all, Len(all))) = j
        /\ \A i \in 1 .. j : Recent(all, Len(all))[i] = all[Len(all) - j + i]
    <2>1. Len(all) \in 0 .. Len(all) /\ j = Smaller(Len(all), Window)
      BY <1>1, <1>4 DEF j
    <2> QED BY <1>4, <2>1, RecentProperties
  <1>10. \A i \in 1 .. j : Len(longer) - j + i \in 1 .. Len(longer)
    BY <1>7
  <1>11. \A i \in 1 .. j : longer[Len(longer) - j + i] = all[Len(all) - j + i]
    BY <1>1, <1>4, <1>5, <1>7, <1>10
  <1>12. Recent(longer, Len(longer)) = Recent(all, Len(all))
    BY <1>8, <1>9, <1>11, SeqEqual
  <1> QED BY <1>4, <1>6, <1>12 DEF w, n, all

\* The prices the trail was to follow are numbers; a new mark adds one and
\* changes none.
LEMMA AverageIsTyped ==
  ASSUME NEW w \in Seq(Prices), Len(w) \in 1 .. Window
  PROVE  Average(w) \in Nat
  <1>1. w \in [1 .. Len(w) -> Prices]
    BY LenProperties
  <1> QED BY <1>1, AverageAssumption

LEMMA SignalIsTyped ==
  ASSUME NEW ms \in Seq(Prices), NEW k \in 1 .. Len(ms)
  PROVE  SignalAt(ms, k) \in Nat
  <1>1. ms[k] \in Nat
    BY ElementOfSeq, RuleAssumption
  <1>2. Len(ms) \in Nat /\ Window \in Nat \ {0} /\ k \in 0 .. Len(ms)
    BY RuleAssumption
  <1>3. Recent(ms, k) \in Seq(Prices) /\ Len(Recent(ms, k)) = Smaller(k, Window)
    BY <1>2, RecentProperties
  <1>4. Len(Recent(ms, k)) \in 1 .. Window
    BY <1>2, <1>3 DEF Smaller
  <1>5. Average(Recent(ms, k)) \in Nat
    BY <1>3, <1>4, AverageIsTyped
  <1> QED BY <1>1, <1>5 DEF SignalAt

LEMMA SignalStays ==
  ASSUME NEW ms \in Seq(Prices), NEW mark \in Prices, NEW k \in 1 .. Len(ms)
  PROVE  SignalAt(Append(ms, mark), k) = SignalAt(ms, k)
  <1>1. k \in 0 .. Len(ms)
    OBVIOUS
  <1>2. Append(ms, mark)[k] = ms[k]
    BY AppendProperties
  <1> QED BY <1>1, <1>2, RecentStays DEF SignalAt

LEMMA NewSignal ==
  ASSUME NEW ms \in Seq(Prices), NEW mark \in Prices
  PROVE  SignalAt(Append(ms, mark), Len(ms) + 1) =
           IF rule.trail_mode = "moving_average"
           THEN Average(Slid(Recent(ms, Len(ms)), mark)) ELSE mark
  BY WindowSlides, AppendProperties DEF SignalAt

-----------------------------------------------------------------------------
(* The arithmetic of the stop. *)

\* The mark is the distance of rule r or more on the wrong side of best.
Reach(r, best, mark) ==
  Hundred * (IF r.side = "long" THEN best - mark ELSE mark - best) >= Distance(r, best)

LEMMA ProductGrows ==
  ASSUME NEW a \in Nat, NEW b \in Nat, NEW c \in Nat, a <= b
  PROVE  a * c <= b * c /\ c * a <= c * b
  OBVIOUS

LEMMA CrossedIsReach ==
  ASSUME NEW r \in ValidRule, NEW best \in Nat, NEW mark \in Nat
  PROVE  Crossed(r, mark, StopPrice(r, best)) <=> Reach(r, best, mark)
  <1>1. Distance(r, best) \in Nat /\ Hundred \in Nat
    BY RuleAssumption DEF Distance, ValidRule
  <1>2. /\ Hundred * (best - mark) = Hundred * best - Hundred * mark
        /\ Hundred * (mark - best) = Hundred * mark - Hundred * best
        /\ Hundred * best \in Int /\ Hundred * mark \in Int
    BY <1>1
  <1> DEFINE d == Distance(r, best)
             x == Hundred * best
             y == Hundred * mark
  <1>3. d \in Int /\ x \in Int /\ y \in Int
    BY <1>1, <1>2
  <1>4. (y <= x - d) <=> (x - y >= d)
    <2> HIDE DEF d, x, y
    <2> QED BY <1>3
  <1>5. (y >= x + d) <=> (y - x >= d)
    <2> HIDE DEF d, x, y
    <2> QED BY <1>3
  <1> QED BY <1>2, <1>4, <1>5 DEF Crossed, StopPrice, Reach

\* What is far enough from one price is far enough from a better one.
LEMMA ReachGrows ==
  ASSUME NEW r \in ValidRule, NEW s \in Nat, NEW best \in Nat, NEW mark \in Nat,
         IF r.side = "long" THEN best >= s ELSE best <= s,
         Reach(r, s, mark)
  PROVE  Reach(r, best, mark)
  <1> DEFINE v == r.trail_value
  <1>1. v \in Nat /\ Hundred \in Nat /\ (r.trail_mode = "percent" => v <= Hundred)
    BY RuleAssumption DEF ValidRule
  <1> HIDE DEF v
  <1>2. CASE r.side = "long"
    <2> DEFINE up == best - s
    <2>1. up \in Nat /\ best = s + up
      BY <1>2
    <2>2. Hundred * (best - mark) = Hundred * (s - mark) + Hundred * up
      BY <1>1, <2>1
    <2>3. CASE r.trail_mode = "percent"
      <3>1. Hundred * (s - mark) >= s * v
        BY <1>2, <2>3 DEF Reach, Distance, v
      <3>2. v * up <= Hundred * up
        BY <1>1, <2>1, <2>3, ProductGrows
      <3>3. best * v = s * v + v * up
        BY <1>1, <2>1
      <3>4. Hundred * (best - mark) >= best * v
        BY <1>1, <2>1, <2>2, <3>1, <3>2, <3>3
      <3> QED BY <1>2, <2>3, <3>4 DEF Reach, Distance, v
    <2>4. CASE r.trail_mode # "percent"
      <3>1. Hundred * (s - mark) >= Hundred * v
        BY <1>2, <2>4 DEF Reach, Distance, v
      <3>2. Hundred * up >= 0
        BY <1>1, <2>1
      <3>3. Hundred * (best - mark) >= Hundred * v
        BY <1>1, <2>1, <2>2, <3>1, <3>2
      <3> QED BY <1>2, <2>4, <3>3 DEF Reach, Distance, v
    <2> QED BY <2>3, <2>4
  <1>3. CASE r.side # "long"
    <2> DEFINE down == s - best
    <2>1. down \in Nat /\ s = best + down
      BY <1>3
    <2>2. Hundred * (mark - best) = Hundred * (mark - s) + Hundred * down /\ Hundred * down >= 0
      BY <1>1, <2>1
    <2>3. CASE r.trail_mode = "percent"
      <3>1. Hundred * (mark - s) >= s * v
        BY <1>3, <2>3 DEF Reach, Distance, v
      <3>2. best * v <= s * v
        BY <1>1, <2>1, ProductGrows
      <3>3. Hundred * (mark - best) >= best * v
        BY <1>1, <2>1, <2>2, <3>1, <3>2
      <3> QED BY <1>3, <2>3, <3>3 DEF Reach, Distance, v
    <2>4. CASE r.trail_mode # "percent"
      <3>1. Hundred * (mark - s) >= Hundred * v
        BY <1>3, <2>4 DEF Reach, Distance, v
      <3>3. Hundred * (mark - best) >= Hundred * v
        BY <1>1, <2>1, <2>2, <3>1
      <3> QED BY <1>3, <2>4, <3>3 DEF Reach, Distance, v
    <2> QED BY <2>3, <2>4
  <1> QED BY <1>2, <1>3

\* A better best price gives a tighter stop.
LEMMA StopTightens ==
  ASSUME NEW r \in ValidRule, NEW old \in Nat, NEW new \in Nat,
         IF r.side = "long" THEN new >= old ELSE new <= old
  PROVE  IF r.side = "long" THEN StopPrice(r, new) >= StopPrice(r, old)
                            ELSE StopPrice(r, new) <= StopPrice(r, old)
  <1> DEFINE v == r.trail_value
  <1>1. v \in Nat /\ Hundred \in Nat /\ (r.trail_mode = "percent" => v <= Hundred)
    BY RuleAssumption DEF ValidRule
  <1> HIDE DEF v
  <1>2. CASE r.side = "long"
    <2> DEFINE up == new - old
    <2>1. up \in Nat /\ new = old + up
      BY <1>2
    <2>2. /\ Hundred * new = Hundred * old + Hundred * up /\ new * v = old * v + v * up
          /\ Hundred * up >= 0
      BY <1>1, <2>1
    <2>3. r.trail_mode = "percent" => v * up <= Hundred * up
      BY <1>1, <2>1, ProductGrows
    <2>4. CASE r.trail_mode = "percent"
      <3>1. Hundred * new - new * v >= Hundred * old - old * v
        BY <1>1, <2>1, <2>2, <2>3, <2>4
      <3> QED BY <1>2, <2>4, <3>1 DEF StopPrice, Distance, v
    <2>5. CASE r.trail_mode # "percent"
      <3>1. Hundred * new - Hundred * v >= Hundred * old - Hundred * v
        BY <1>1, <2>1, <2>2
      <3> QED BY <1>2, <2>5, <3>1 DEF StopPrice, Distance, v
    <2> QED BY <2>4, <2>5
  <1>3. CASE r.side # "long"
    <2>1. Hundred * new <= Hundred * old /\ new * v <= old * v
      BY <1>1, <1>3, ProductGrows
    <2>2. CASE r.trail_mode = "percent"
      <3>1. Hundred * new + new * v <= Hundred * old + old * v
        BY <1>1, <2>1
      <3> QED BY <1>3, <2>2, <3>1 DEF StopPrice, Distance, v
    <2>3. CASE r.trail_mode # "percent"
      <3>1. Hundred * new + Hundred * v <= Hundred * old + Hundred * v
        BY <1>1, <2>1
      <3> QED BY <1>3, <2>3, <3>1 DEF StopPrice, Distance, v
    <2> QED BY <2>2, <2>3
  <1> QED BY <1>2, <1>3

-----------------------------------------------------------------------------
(* The invariant. *)

\* The protected size after an update, and the total it leaves.
LEMMA UpdateIsTyped ==
  ASSUME TypeOK, FillsInv, UpdateProtectedSize
  PROVE  /\ protected' \in 0 .. rule.size /\ filled' \in Nat
         /\ known' \subseteq Fills /\ answers' \subseteq SUBSET Fills
         /\ FillsInv'
         /\ ~rule.attached => protected' = Smaller(rule.size, snapshot.size)
         /\ rule.attached /\ snapshot.fills # {} => protected' = Smaller(rule.size, filled')
  <1> DEFINE shown == snapshot.fills
  <1>1. /\ rule.size \in Nat \ {0} /\ snapshot.size \in Nat /\ filled \in Nat
        /\ protected \in 0 .. rule.size /\ shown \in SUBSET Fills /\ known \in SUBSET Fills
    BY RuleAssumption DEF TypeOK, ValidRule
  <1>2. CASE ~rule.attached
    <2>1. protected' = Smaller(rule.size, snapshot.size) /\ UNCHANGED <<filled, known, answers>>
      BY <1>2 DEF UpdateProtectedSize, fills
    <2>2. FillsInv'
      BY <2>1 DEF FillsInv
    <2>3. protected' \in 0 .. rule.size
      BY <1>1, <2>1 DEF Smaller
    <2> QED BY <1>1, <1>2, <2>1, <2>2, <2>3 DEF TypeOK
  <1>3. CASE rule.attached
    <2>1. /\ filled' = Larger(filled, Total(shown)) /\ known' = known \cup shown
          /\ answers' = answers \cup ({shown} \ {{}})
          /\ protected' = IF shown # {} THEN Smaller(rule.size, filled') ELSE protected
      BY <1>3 DEF UpdateProtectedSize, FillsSeen
    <2>2. known' \in SUBSET Fills /\ answers' \subseteq SUBSET Fills
      BY <1>1, <2>1 DEF TypeOK
    <2>3. shown \in SUBSET known' /\ known \in SUBSET known'
      BY <2>1
    <2> HIDE DEF shown
    <2>4. Total(shown) \in Nat /\ Total(known) \in Nat /\ Total(known') \in Nat
      BY <1>1, <2>2, TotalAssumption
    <2>5. Total(shown) <= Total(known') /\ Total(known) <= Total(known')
      BY <2>2, <2>3, TotalAssumption
    <2>6. filled <= Total(known)
      BY DEF FillsInv
    <2>7. filled' \in Nat /\ filled' <= Total(known') /\ filled <= filled' /\ Total(shown) <= filled'
      BY <1>1, <2>1, <2>4, <2>5, <2>6 DEF Larger
    <2>8. ASSUME NEW s \in answers'
          PROVE  Total(s) <= filled'
      <3>1. CASE s = shown
        BY <2>7, <3>1
      <3>2. CASE s # shown
        <4>1. s \in answers
          BY <2>1, <2>8, <3>2
        <4>2. s \in SUBSET Fills /\ Total(s) <= filled
          BY <4>1 DEF FillsInv, TypeOK
        <4>3. Total(s) \in Nat
          BY <4>2, TotalAssumption
        <4> QED BY <1>1, <2>7, <4>2, <4>3
      <3> QED BY <3>1, <3>2
    <2>9. FillsInv'
      BY <2>7, <2>8 DEF FillsInv
    <2>10. protected' \in 0 .. rule.size
      BY <1>1, <2>1, <2>7 DEF Smaller
    <2> QED BY <1>3, <2>1, <2>2, <2>7, <2>9, <2>10 DEF shown
  <1> QED BY <1>2, <1>3

\* The signal that an observation hands to the trail.
LEMMA ObservedSignal ==
  ASSUME TrailInv, NEW mark \in Prices, Observe(mark)
  PROVE  LET signal == SignalAt(marks', Len(marks'))
         IN  /\ marks' \in Seq(Prices) /\ Len(marks') = Len(marks) + 1 /\ Len(marks) \in Nat
             /\ marks' # <<>> /\ marks' = Append(marks, mark)
             /\ signal \in Nat
             /\ favorable' = Best(rule, favorable, signal)
             /\ rule.trail_mode = "moving_average" => window' = Recent(marks', Len(marks'))
             /\ rule.trail_mode # "moving_average" => window' = window
  <1>1. marks \in Seq(Prices) /\ marks' = Append(marks, mark)
    BY DEF TrailInv, TypeOK, Observe
  <1>2. /\ marks' \in Seq(Prices) /\ Len(marks') = Len(marks) + 1 /\ Len(marks) \in Nat
        /\ marks' # <<>>
    BY <1>1, AppendProperties, LenProperties
  <1>3. Len(marks') \in 1 .. Len(marks')
    BY <1>2
  <1>4. SignalAt(marks', Len(marks')) \in Nat
    BY <1>2, <1>3, SignalIsTyped
  <1>5. rule.trail_mode = "moving_average" => window' = Slid(Recent(marks, Len(marks)), mark)
    BY DEF TrailInv, WindowInv, Observe
  <1>6. SignalAt(marks', Len(marks')) =
          IF rule.trail_mode = "moving_average" THEN Average(window') ELSE mark
    BY <1>1, <1>2, <1>5, NewSignal
  <1>7. rule.trail_mode = "moving_average" => window' = Recent(marks', Len(marks'))
    BY <1>1, <1>2, <1>5, WindowSlides
  <1>8. favorable' = Best(rule, favorable, SignalAt(marks', Len(marks')))
    BY <1>6 DEF Observe
  <1>9. rule.trail_mode # "moving_average" => window' = window
    BY DEF Observe
  <1> QED BY <1>1, <1>2, <1>4, <1>7, <1>8, <1>9

\* Afterwards the best price is the best of all signals, the new one included.
LEMMA ObservedBest ==
  ASSUME TrailInv, NEW mark \in Prices, Observe(mark)
  PROVE  /\ favorable' \in Nat
         /\ favorable # NoPrice => favorable \in Nat /\ AsGood(favorable', favorable)
         /\ \E k \in 1 .. Len(marks') : favorable' = SignalAt(marks', k)
         /\ \A k \in 1 .. Len(marks') : AsGood(favorable', SignalAt(marks', k))
  <1> DEFINE n == Len(marks')
             signal == SignalAt(marks', n)
  <1>1. /\ marks \in Seq(Prices) /\ n = Len(marks) + 1 /\ Len(marks) \in Nat
        /\ marks' = Append(marks, mark) /\ signal \in Nat
        /\ favorable' = Best(rule, favorable, signal)
    BY ObservedSignal DEF TrailInv, TypeOK
  <1>2. \A k \in 1 .. Len(marks) : SignalAt(marks', k) = SignalAt(marks, k) /\ SignalAt(marks, k) \in Nat
    BY <1>1, SignalStays, SignalIsTyped
  <1>3. CASE marks = <<>>
    <2>1. favorable = NoPrice /\ n = 1
      BY <1>1, <1>3 DEF TrailInv, BestInv
    <2>2. favorable' = signal /\ AsGood(signal, signal)
      BY <1>1, <2>1 DEF Best, AsGood
    <2>3. \A k \in 1 .. n : k = n
      BY <2>1
    <2> HIDE DEF n
    <2>4. n \in 1 .. n
      BY <2>1
    <2> QED BY <1>1, <2>1, <2>2, <2>3, <2>4
  <1>4. CASE marks # <<>>
    <2>1. /\ favorable \in Nat /\ favorable # NoPrice
          /\ \E k \in 1 .. Len(marks) : favorable = SignalAt(marks, k)
          /\ \A k \in 1 .. Len(marks) : AsGood(favorable, SignalAt(marks, k))
      BY <1>4, RuleAssumption DEF TrailInv, BestInv
    <2> HIDE DEF signal
    <2>2. /\ favorable' \in {favorable, signal} /\ favorable' \in Nat
          /\ AsGood(favorable', favorable) /\ AsGood(favorable', signal)
      BY <1>1, <2>1 DEF Best, AsGood, Larger, Smaller
    <2>3. \A k \in 1 .. n : k = n \/ k \in 1 .. Len(marks)
      BY <1>1
    <2>4. n \in 1 .. n /\ \A k \in 1 .. Len(marks) : k \in 1 .. n
      BY <1>1
    <2>5. \A k \in 1 .. Len(marks) : AsGood(favorable', SignalAt(marks', k))
      BY <1>2, <2>1, <2>2 DEF AsGood
    <2>6. \A k \in 1 .. n : AsGood(favorable', SignalAt(marks', k))
      BY <2>2, <2>3, <2>5 DEF signal
    <2>7. \E k \in 1 .. n : favorable' = SignalAt(marks', k)
      BY <1>2, <2>1, <2>2, <2>4 DEF signal
    <2> QED BY <2>1, <2>2, <2>6, <2>7
  <1> QED BY <1>3, <1>4

LEMMA InitTrailInv == Init => TrailInv
  <1> SUFFICES ASSUME Init
               PROVE  TrailInv
    OBVIOUS
  <1>1. rule \in ValidRule /\ rule.size \in Nat
    BY RuleAssumption DEF Init, ValidRule
  <1>2. TypeOK
    <2>1. marks \in Seq(Prices) /\ window \in Seq(Prices)
      BY EmptySeq DEF Init
    <2>2. protected \in 0 .. rule.size
      BY <1>1 DEF Init
    <2>3. /\ rule \in Rules /\ position \in Sizes /\ triggered \in BOOLEAN
          /\ pc \in {"idle", "ticking", "exiting"} /\ since \subseteq Sizes
          /\ snapshot \in [size : Nat, fills : SUBSET Fills]
      BY DEF Init, NoSnapshot
    <2>4. /\ filled \in Nat /\ opened \subseteq Fills
          /\ known \subseteq Fills /\ answers \subseteq SUBSET Fills
          /\ favorable \in Nat \cup {NoPrice} /\ stop \in Int \cup {NoPrice}
      BY DEF Init
    <2> QED BY <2>1, <2>2, <2>3, <2>4 DEF TypeOK
  <1>3. WindowInv
    <2>1. Recent(<<>>, 0) = <<>>
      <3>1. Larger(1, 0 - Window + 1) \in Int /\ 0 < Larger(1, 0 - Window + 1)
        BY RuleAssumption DEF Larger
      <3> QED BY <3>1, SubSeqEmpty DEF Recent
    <2>2. Len(marks) = 0 /\ marks = <<>> /\ window = <<>>
      BY DEF Init
    <2> QED BY <2>1, <2>2 DEF WindowInv
  <1>4. BestInv
    BY DEF Init, BestInv
  <1>5. FillsInv /\ TickInv
    <2>1. known = {} /\ answers = {} /\ filled = 0 /\ pc = "idle"
      BY DEF Init
    <2>2. Total({}) \in Nat
      BY TotalAssumption
    <2> QED BY <2>1, <2>2 DEF FillsInv, TickInv
  <1> QED BY <1>2, <1>3, <1>4, <1>5 DEF TrailInv

\* A step that leaves rule and trail alone keeps what is said of them.
LEMMA TrailStays ==
  ASSUME WindowInv, BestInv, UNCHANGED <<rule, trail>>
  PROVE  WindowInv' /\ BestInv'
  <1>1. rule' = rule /\ favorable' = favorable /\ stop' = stop /\ window' = window /\ marks' = marks
    BY DEF trail
  <1> QED BY <1>1 DEF WindowInv, BestInv, AsGood, SignalAt

LEMMA FillsStay ==
  ASSUME FillsInv, UNCHANGED fills
  PROVE  FillsInv'
  <1>1. filled' = filled /\ known' = known /\ answers' = answers
    BY DEF fills
  <1> QED BY <1>1 DEF FillsInv

LEMMA TrailInvStep == TrailInv /\ [Next]_vars => TrailInv'
  <1> SUFFICES ASSUME TrailInv, [Next]_vars
               PROVE  TrailInv'
    OBVIOUS
  <1>0. /\ TypeOK /\ FillsInv /\ TickInv /\ WindowInv /\ BestInv
        /\ rule \in ValidRule /\ rule.size \in Nat \ {0}
        /\ position \in Nat /\ snapshot.size \in Nat /\ NoSnapshot \in [size : Nat, fills : SUBSET Fills]
    BY RuleAssumption DEF TrailInv, TypeOK, ValidRule, NoSnapshot
  <1>1. CASE AccountSnapshot
    <2>1. /\ UNCHANGED <<rule, trail, fills>>
          /\ UNCHANGED <<protected, triggered, position, opened, filled, known, answers>>
          /\ UNCHANGED <<favorable, stop, window, marks>>
          /\ pc' = "ticking" /\ since' = {position}
      BY <1>1 DEF AccountSnapshot, fills, account, trail
    <2>2. /\ snapshot' \in [size : Nat, fills : SUBSET Fills] /\ snapshot'.size = position
      BY <1>0, <1>1 DEF AccountSnapshot, TypeOK
    <2>3. TypeOK'
      BY <1>0, <2>1, <2>2 DEF TypeOK
    <2>4. TickInv'
      BY <2>1, <2>2 DEF TickInv
    <2> QED BY <1>0, <2>1, <2>3, <2>4, TrailStays, FillsStay DEF TrailInv
  <1>2. CASE TickWithoutMark
    <2>1. /\ UpdateProtectedSize /\ UNCHANGED <<rule, trail>>
          /\ UNCHANGED <<triggered, position, opened, favorable, stop, window, marks>>
          /\ pc' = "idle" /\ since' = {} /\ snapshot' = NoSnapshot
      BY <1>2 DEF TickWithoutMark, Goes, account, trail
    <2>2. /\ protected' \in 0 .. rule.size /\ filled' \in Nat
          /\ known' \subseteq Fills /\ answers' \subseteq SUBSET Fills /\ FillsInv'
      BY <1>0, <2>1, UpdateIsTyped
    <2>3. TypeOK'
      BY <1>0, <2>1, <2>2 DEF TypeOK
    <2>4. TickInv'
      BY <2>1 DEF TickInv
    <2> QED BY <1>0, <2>1, <2>2, <2>3, <2>4, TrailStays DEF TrailInv
  <1>3. ASSUME NEW mark \in Prices, Observe(mark)
        PROVE  TrailInv'
    <2>1. /\ UpdateProtectedSize /\ UNCHANGED <<rule, position, opened>>
          /\ pc = "ticking" /\ protected' > 0
          /\ stop' = StopPrice(rule, favorable') /\ triggered' = Crossed(rule, mark, stop')
      BY <1>3 DEF Observe, account
    <2>2. /\ protected' \in 0 .. rule.size /\ filled' \in Nat
          /\ known' \subseteq Fills /\ answers' \subseteq SUBSET Fills /\ FillsInv'
          /\ ~rule.attached => protected' = Smaller(rule.size, snapshot.size)
      BY <1>0, <2>1, UpdateIsTyped
    <2>3. /\ marks' \in Seq(Prices) /\ marks' # <<>>
          /\ rule.trail_mode = "moving_average" => window' = Recent(marks', Len(marks'))
          /\ rule.trail_mode # "moving_average" => window' = window
      BY <1>3, ObservedSignal
    <2>4. window' \in Seq(Prices)
      <3>1. Len(marks') \in 0 .. Len(marks')
        BY <2>3, LenProperties
      <3> QED BY <1>0, <2>3, <3>1, RecentProperties DEF TypeOK
    <2>5. /\ favorable' \in Nat
          /\ \E k \in 1 .. Len(marks') : favorable' = SignalAt(marks', k)
          /\ \A k \in 1 .. Len(marks') : AsGood(favorable', SignalAt(marks', k))
      BY <1>3, ObservedBest
    <2>6. stop' \in Int
      BY <1>0, <2>1, <2>5, RuleAssumption DEF StopPrice, Distance, ValidRule
    <2>7. \/ pc' = "idle" /\ snapshot' = NoSnapshot /\ since' = {}
          \/ pc' = "exiting" /\ UNCHANGED <<snapshot, since>>
      BY <1>3 DEF Observe, Goes
    <2>8. triggered' \in BOOLEAN
      <3>1. (Hundred * mark <= stop') \in BOOLEAN /\ (Hundred * mark >= stop') \in BOOLEAN
        OBVIOUS
      <3>2. Crossed(rule, mark, stop') \in BOOLEAN
        BY <3>1, Zenon DEF Crossed
      <3> QED BY <2>1, <3>2, Zenon
    <2>9. TypeOK'
      <3>1. /\ pc' \in {"idle", "ticking", "exiting"} /\ since' \subseteq Sizes
            /\ snapshot' \in [size : Nat, fills : SUBSET Fills]
        BY <1>0, <2>7 DEF TypeOK
      <3> QED BY <1>0, <2>1, <2>2, <2>3, <2>4, <2>5, <2>6, <2>8, <3>1 DEF TypeOK
    <2>10. TickInv'
      <3>1. ~rule.attached => protected' \in 1 .. snapshot.size
        BY <1>0, <2>1, <2>2 DEF Smaller
      <3>2. snapshot.size \in since
        BY <1>0, <2>1 DEF TickInv
      <3> QED BY <2>1, <2>7, <3>1, <3>2 DEF TickInv
    <2>11. WindowInv'
      BY <2>1, <2>3 DEF WindowInv
    <2>12. BestInv'
      BY <2>1, <2>3, <2>5 DEF BestInv, AsGood, SignalAt
    <2> QED BY <2>2, <2>9, <2>10, <2>11, <2>12 DEF TrailInv
  <1>4. ASSUME NEW blocked \in BOOLEAN, Exit(blocked)
        PROVE  TrailInv'
    <2>1. /\ UNCHANGED <<rule, trail, fills>>
          /\ UNCHANGED <<protected, position, opened, filled, known, answers>>
          /\ UNCHANGED <<favorable, stop, window, marks>>
          /\ triggered' \in BOOLEAN /\ pc' = "idle" /\ since' = {} /\ snapshot' = NoSnapshot
      BY <1>4 DEF Exit, Goes, fills, account, trail
    <2>2. TypeOK'
      BY <1>0, <2>1 DEF TypeOK
    <2>3. TickInv'
      BY <2>1 DEF TickInv
    <2> QED BY <1>0, <2>1, <2>2, <2>3, TrailStays, FillsStay DEF TrailInv
  <1>5. CASE Reset
    <2>1. /\ UNCHANGED <<rule, trail, fills>>
          /\ UNCHANGED <<position, opened, filled, known, answers, pc, snapshot, since>>
          /\ UNCHANGED <<favorable, stop, window, marks>>
          /\ triggered' = FALSE /\ pc = "idle" /\ protected' = Smaller(rule.size, position)
      BY <1>5 DEF Reset, fills, account, trail, tick
    <2>2. protected' \in 0 .. rule.size
      BY <1>0, <2>1 DEF Smaller
    <2>3. TypeOK'
      BY <1>0, <2>1, <2>2 DEF TypeOK
    <2>4. TickInv'
      BY <2>1 DEF TickInv
    <2> QED BY <1>0, <2>1, <2>3, <2>4, TrailStays, FillsStay DEF TrailInv
  <1>6. CASE AccountMoves
    <2>1. /\ UNCHANGED <<rule, trail, fills>>
          /\ UNCHANGED <<protected, triggered, filled, known, answers, pc, snapshot>>
          /\ UNCHANGED <<favorable, stop, window, marks>>
          /\ position' \in Sizes /\ opened' \subseteq Fills
          /\ since' = IF pc = "idle" THEN since ELSE since \cup {position'}
      BY <1>6 DEF AccountMoves, fills, trail
    <2>2. TypeOK'
      BY <1>0, <2>1 DEF TypeOK
    <2>3. TickInv'
      BY <1>0, <2>1 DEF TickInv
    <2> QED BY <1>0, <2>1, <2>2, <2>3, TrailStays, FillsStay DEF TrailInv
  <1>7. CASE UNCHANGED vars
    <2>1. /\ UNCHANGED <<rule, trail, fills>> /\ TypeOK' /\ TickInv'
      BY <1>0, <1>7 DEF TypeOK, TickInv, vars, trail, fills, account, tick
    <2> QED BY <1>0, <2>1, TrailStays, FillsStay DEF TrailInv
  <1> QED BY <1>1, <1>2, <1>3, <1>4, <1>5, <1>6, <1>7 DEF Next

LEMMA TrailInvHolds == Spec => []TrailInv
  BY InitTrailInv, TrailInvStep, PTL DEF Spec

-----------------------------------------------------------------------------
(* The theorems. *)

\* The state is well typed.
THEOREM TrailTypeCorrect == Spec => []TypeOK
  <1>1. TrailInv => TypeOK
    BY DEF TrailInv
  <1> QED BY <1>1, TrailInvHolds, PTL

\* A mark triggers the exit exactly when it has reached the trail's distance from
\* some price the trail was to follow since the rule was created.
THEOREM TrailExact == Spec => ExitsAtTrail
  <1>1. ASSUME TrailInv, NEW mark \in Prices, Observe(mark)
        PROVE  triggered' <=> Reached(marks', mark)
    <2>1. rule \in ValidRule /\ mark \in Nat
      BY <1>1, RuleAssumption DEF TrailInv, TypeOK
    <2>2. /\ favorable' \in Nat
          /\ \E k \in 1 .. Len(marks') : favorable' = SignalAt(marks', k)
          /\ \A k \in 1 .. Len(marks') : AsGood(favorable', SignalAt(marks', k))
      BY <1>1, ObservedBest
    <2>3. triggered' <=> Crossed(rule, mark, StopPrice(rule, favorable'))
      BY <1>1 DEF Observe
    <2>4. Crossed(rule, mark, StopPrice(rule, favorable')) <=> Reach(rule, favorable', mark)
      BY <2>1, <2>2, CrossedIsReach
    <2>5. Reached(marks', mark) <=>
            \E k \in 1 .. Len(marks') : Reach(rule, SignalAt(marks', k), mark)
      BY DEF Reached, Reach
    <2>6. Reach(rule, favorable', mark) => Reached(marks', mark)
      BY <2>2, <2>5
    <2>7. ASSUME Reached(marks', mark)
          PROVE  Reach(rule, favorable', mark)
      <3> PICK k \in 1 .. Len(marks') : Reach(rule, SignalAt(marks', k), mark)
        BY <2>5, <2>7
      <3>1. marks' \in Seq(Prices)
        BY <1>1, ObservedSignal
      <3>2. SignalAt(marks', k) \in Nat
        BY <3>1, SignalIsTyped
      <3>3. AsGood(favorable', SignalAt(marks', k))
        BY <2>2
      <3> QED BY <2>1, <2>2, <3>2, <3>3, ReachGrows DEF AsGood
    <2> QED BY <2>3, <2>4, <2>6, <2>7
  <1>2. TrailInv /\ [Next]_vars =>
          [\A mark \in Prices : Observe(mark) => (triggered' <=> Reached(marks', mark))]_vars
    BY <1>1
  <1> QED BY <1>2, TrailInvHolds, PTL DEF Spec, ExitsAtTrail

\* The stop only ever moves in the position's favor.
THEOREM StopTheorem == Spec => StopNeverLoosens
  <1>1. ASSUME TrailInv, Next, stop # NoPrice
        PROVE  IF rule.side = "long" THEN stop' >= stop ELSE stop' <= stop
    <2>1. rule \in ValidRule /\ stop \in Int
      BY <1>1, RuleAssumption DEF TrailInv, TypeOK
    <2>2. CASE stop' = stop
      BY <2>1, <2>2
    <2>3. CASE stop' # stop
      <3> PICK mark \in Prices : Observe(mark)
        BY <1>1, <2>3 DEF Next, AccountSnapshot, TickWithoutMark, Exit, Reset, AccountMoves, trail
      <3>1. marks # <<>> /\ favorable \in Nat /\ stop = StopPrice(rule, favorable)
        BY <1>1 DEF TrailInv, BestInv
      <3>2. favorable # NoPrice
        BY <3>1, RuleAssumption
      <3>3. favorable' \in Nat /\ AsGood(favorable', favorable)
        BY <1>1, <3>2, ObservedBest
      <3>4. stop' = StopPrice(rule, favorable')
        BY DEF Observe
      <3> QED BY <2>1, <3>1, <3>3, <3>4, StopTightens DEF AsGood
    <2> QED BY <2>2, <2>3
  <1>2. TrailInv /\ [Next]_vars =>
          [stop # NoPrice => IF rule.side = "long" THEN stop' >= stop ELSE stop' <= stop]_vars
    BY <1>1
  <1> QED BY <1>2, TrailInvHolds, PTL DEF Spec, StopNeverLoosens

\* An exit of an unattached rule is of no more than the position was at some moment
\* of its tick.
THEOREM SizeTheorem == Spec => ExitIsOfThisTick
  <1>1. TrailInv /\ ~rule.attached /\ Exit(FALSE) => \E size \in since : protected \in 1 .. size
    BY DEF TrailInv, TickInv, Exit
  <1>2. TrailInv /\ [Next]_vars =>
          [~rule.attached /\ Exit(FALSE) => \E size \in since : protected \in 1 .. size]_vars
    BY <1>1
  <1> QED BY <1>2, TrailInvHolds, PTL DEF Spec, ExitIsOfThisTick

\* A tick that sees fills of its order protects what any one answer has shown, and
\* no more than the fills that are known.
THEOREM FillsTheorem == Spec => FillsProtected
  <1>1. ASSUME TrailInv, Next, SeesFills
        PROVE  /\ \A shown \in answers' : protected' >= Smaller(rule.size, Total(shown))
               /\ protected' <= Smaller(rule.size, Total(known'))
    <2>1. UpdateProtectedSize
      BY <1>1 DEF Next, SeesFills, AccountSnapshot, TickWithoutMark, Observe, Exit, Reset,
                  AccountMoves
    <2>2. /\ filled' \in Nat /\ known' \in SUBSET Fills /\ answers' \subseteq SUBSET Fills
          /\ FillsInv' /\ protected' = Smaller(rule.size, filled')
      BY <1>1, <2>1, UpdateIsTyped DEF TrailInv, SeesFills
    <2>3. rule.size \in Nat
      BY <1>1, RuleAssumption DEF TrailInv, TypeOK, ValidRule
    <2>4. Total(known') \in Nat /\ filled' <= Total(known')
      BY <2>2, TotalAssumption DEF FillsInv
    <2>5. ASSUME NEW shown \in answers'
          PROVE  protected' >= Smaller(rule.size, Total(shown))
      <3>1. Total(shown) \in Nat /\ Total(shown) <= filled'
        BY <2>2, TotalAssumption DEF FillsInv
      <3> QED BY <2>2, <2>3, <3>1 DEF Smaller
    <2>6. protected' <= Smaller(rule.size, Total(known'))
      BY <2>2, <2>3, <2>4 DEF Smaller
    <2> QED BY <2>5, <2>6
  <1>2. TrailInv /\ [Next]_vars =>
          [SeesFills =>
             /\ \A shown \in answers' : protected' >= Smaller(rule.size, Total(shown))
             /\ protected' <= Smaller(rule.size, Total(known'))]_vars
    BY <1>1
  <1> QED BY <1>2, TrailInvHolds, PTL DEF Spec, FillsProtected
=============================================================================
