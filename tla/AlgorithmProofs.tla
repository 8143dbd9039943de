--------------------------- MODULE AlgorithmProofs ---------------------------
(***************************************************************************)
(* Proofs about the two algorithms that need no other process.  For any    *)
(* lines, any length of a year and any tolerances, the corrected times of  *)
(* a type never increase.  For any manifest, filter, warm buffer, page and *)
(* window sizes, every page, search and total is what its reference        *)
(* definition says, although the code scans in windows of three sizes from *)
(* both ends of a file that is stored in the other order.                  *)
(*                                                                         *)
(* The loops of the code are recursive functions.  What they compute is    *)
(* proved by induction, here in the form of sets: LeastNatural, AllBelow   *)
(* and UpTo; Recursion gives a recursive function its equations.           *)
(***************************************************************************)
EXTENDS TimeSeries, Paging, FiniteSetTheorems, TLAPS

USE SMTT(30), Zenon   \* of every step that names no prover: SMT with 30 s, then Zenon

(* A time, or none yet. *)
Stamp == Int \cup {NoTs}

SeriesTypeOK ==
  /\ raw \in Seq(Lines) /\ series \in Seq(Int)
  /\ stitcher \in [shift : Int, last : Stamp]
  /\ corrector \in [last : Stamp, offset : Int]

(* The corrector remembers the last time it gave out. *)
RemembersLast ==
  /\ series = <<>> => corrector.last = NoTs
  /\ series # <<>> => corrector.last = series[Len(series)]

SeriesInv == SeriesTypeOK /\ RemembersLast /\ SeriesDescends

-----------------------------------------------------------------------------
(* What apply gives back is a time. *)
LEMMA StitchType ==
  ASSUME NEW st \in [shift : Int, last : Stamp], NEW ts \in Int,
         NEW yearless \in BOOLEAN
  PROVE  /\ Stitch(st, ts, yearless) \in [shift : Int, last : Stamp]
         /\ Stitched(st, ts, yearless) \in Int
<1> DEFINE shifted == ShiftByYears(ts, st.shift)
           back == YearsBack(shifted, st.last)
<1>1. shifted \in Int
  BY TimeAssumption DEF ShiftByYears
<1>2. st.last # NoTs => st.last \in Int /\ back \in Int
  BY <1>1, TimeAssumption DEF YearsBack, Stamp
<1>3. CASE ~yearless
  BY <1>3 DEF Stitch, Stitched, Stamp
<1>4. CASE yearless /\ (st.last = NoTs \/ shifted <= st.last)
  BY <1>1, <1>4 DEF Stitch, Stitched, Stamp
<1>5. CASE /\ yearless /\ ~(st.last = NoTs \/ shifted <= st.last)
           /\ \/ shifted \div Second = st.last \div Second
              \/ shifted - st.last <= Jitter
  <2>1. Stitch(st, ts, yearless) = [st EXCEPT !.last = @ - 1]
    BY <1>5 DEF Stitch
  <2>2. [st EXCEPT !.last = @ - 1] = [shift |-> st.shift, last |-> st.last - 1]
    OBVIOUS
  <2>3. st.last - 1 \in Int /\ st.shift \in Int
    BY <1>2, <1>5
  <2>4. Stitched(st, ts, yearless) = st.last - 1
    BY <1>5, <2>1, <2>2, Zenon DEF Stitched
  <2> QED
    BY <2>1, <2>2, <2>3, <2>4 DEF Stamp
<1>6. CASE /\ yearless /\ ~(st.last = NoTs \/ shifted <= st.last)
           /\ ~ \/ shifted \div Second = st.last \div Second
                \/ shifted - st.last <= Jitter
  <2>1. Stitch(st, ts, yearless) =
          [shift |-> st.shift - back, last |-> shifted - back * Year]
    BY <1>6 DEF Stitch
  <2>3. back \in Int /\ st.shift \in Int
    BY <1>2, <1>6
  <2> HIDE DEF shifted, back
  <2>2. Stitched(st, ts, yearless) = shifted - back * Year
    <3>1. Stitched(st, ts, yearless) = Stitch(st, ts, yearless).last
      BY <1>6 DEF Stitched
    <3> QED
      BY <2>1, <3>1
  <2>4. back * Year \in Int
    BY <2>3, TimeAssumption
  <2>5. shifted - back * Year \in Int /\ st.shift - back \in Int
    BY <1>1, <2>3, <2>4
  <2> QED
    BY <2>1, <2>2, <2>5 DEF Stamp
<1> QED
  BY <1>3, <1>4, <1>5, <1>6

(* What adjust gives back is a time, and not above the one before. *)
LEMMA AdjustDescends ==
  ASSUME NEW c \in [last : Stamp, offset : Int], NEW ts \in Int
  PROVE  /\ Adjust(c, ts) \in [last : Stamp, offset : Int]
         /\ Adjust(c, ts).last \in Int
         /\ c.last # NoTs => Adjust(c, ts).last <= c.last
<1> DEFINE t == ts + c.offset
<1>1. CASE c.last = NoTs \/ t <= c.last
  <2>1. Adjust(c, ts) = [c EXCEPT !.last = t]
    BY <1>1 DEF Adjust
  <2> QED
    BY <1>1, <2>1 DEF Stamp
<1>2. CASE ~(c.last = NoTs \/ t <= c.last) /\ t - c.last <= Jitter
  <2>1. Adjust(c, ts) = [c EXCEPT !.last = @ - 1]
    BY <1>2 DEF Adjust
  <2> QED
    BY <1>2, <2>1 DEF Stamp
<1>3. CASE ~(c.last = NoTs \/ t <= c.last) /\ ~(t - c.last <= Jitter)
  BY <1>3 DEF Adjust, Stamp
<1> QED
  BY <1>1, <1>2, <1>3

LEMMA FeedKeepsInv ==
  ASSUME SeriesInv, Feed
  PROVE  SeriesInv'
<1> DEFINE l == raw[Len(series) + 1]
           ts == Stitched(stitcher, l.ts, l.yearless)
<1>1. l \in Lines /\ l.ts \in Int /\ l.yearless \in BOOLEAN
  <2>1. Len(series) + 1 \in 1..Len(raw)
    BY DEF SeriesInv, SeriesTypeOK, Feed
  <2>2. l \in Lines
    BY <2>1 DEF SeriesInv, SeriesTypeOK
  <2> QED
    BY <2>2 DEF Lines
<1>2. stitcher' \in [shift : Int, last : Stamp] /\ ts \in Int
  BY <1>1, StitchType DEF SeriesInv, SeriesTypeOK, Feed
<1>3. /\ corrector' \in [last : Stamp, offset : Int]
      /\ corrector'.last \in Int
      /\ corrector.last # NoTs => corrector'.last <= corrector.last
  <2>1. corrector' = Adjust(corrector, ts)
    BY DEF Feed
  <2>2. corrector \in [last : Stamp, offset : Int]
    BY DEF SeriesInv, SeriesTypeOK
  <2> QED
    BY <1>2, <2>1, <2>2, AdjustDescends
<1>4. /\ series' \in Seq(Int)
      /\ Len(series') = Len(series) + 1
      /\ series'[Len(series) + 1] = corrector'.last
      /\ \A i \in 1..Len(series) : series'[i] = series[i]
  BY <1>3 DEF SeriesInv, SeriesTypeOK, Feed
<1>5. SeriesTypeOK' /\ RemembersLast'
  BY <1>2, <1>3, <1>4 DEF SeriesInv, SeriesTypeOK, RemembersLast, Feed
<1>6. SeriesDescends'
  <2> SUFFICES ASSUME NEW i \in 1..Len(series'), NEW j \in 1..Len(series'),
                      i < j
               PROVE  series'[j] <= series'[i]
    BY DEF SeriesDescends
  <2>0. series \in Seq(Int) /\ Len(series) \in Nat
    BY DEF SeriesInv, SeriesTypeOK
  <2>1. CASE j <= Len(series)
    <3>1. i \in 1..Len(series) /\ j \in 1..Len(series)
      BY <2>0, <2>1
    <3>2. series[j] <= series[i]
      BY <3>1 DEF SeriesInv, SeriesDescends
    <3> QED
      BY <1>4, <3>1, <3>2
  <2>2. CASE j = Len(series) + 1
    <3>1. i \in 1..Len(series) /\ series # <<>>
      BY <1>4, <2>0, <2>2
    <3>2. corrector.last = series[Len(series)] /\ corrector.last \in Int
      BY <2>0, <3>1 DEF SeriesInv, RemembersLast
    <3>3. series[Len(series)] <= series[i]
      BY <2>0, <3>1 DEF SeriesInv, SeriesDescends
    <3>4. corrector'.last <= corrector.last
      BY <1>3, <3>2, TimeAssumption
    <3>5. series[i] \in Int /\ corrector'.last \in Int
      BY <1>3, <2>0, <3>1
    <3>6. series'[j] = corrector'.last /\ series'[i] = series[i]
      BY <1>4, <2>2, <3>1
    <3> QED
      BY <3>2, <3>3, <3>4, <3>5, <3>6
  <2> QED
    BY <1>4, <2>0, <2>1, <2>2
<1> QED
  BY <1>5, <1>6 DEF SeriesInv

LEMMA StartKeepsInv ==
  ASSUME NEW lines \in Seq(Lines), StartSeries(lines)
  PROVE  SeriesInv'
BY DEF StartSeries, SeriesInv, SeriesTypeOK, RemembersLast, SeriesDescends,
       NewStitcher, NewCorrector, Stamp

(* Each file type's corrected times descend, for every sequence of lines   *)
(* read and for any year length and tolerance: MonotonicCorrector.adjust   *)
(* never gives out a time above its last.                                  *)
THEOREM SeriesAlwaysDescends == SeriesSpec => []SeriesDescends
<1>1. SeriesInit => SeriesInv
  BY DEF SeriesInit, SeriesInv, SeriesTypeOK, RemembersLast, SeriesDescends,
         NewStitcher, NewCorrector, Stamp
<1>2. SeriesInv /\ [SeriesNext]_seriesVars => SeriesInv'
  <2> SUFFICES ASSUME SeriesInv, [SeriesNext]_seriesVars
               PROVE  SeriesInv'
    OBVIOUS
  <2>1. CASE Feed
    BY <2>1, FeedKeepsInv
  <2>2. CASE \E lines \in Seq(Lines) : StartSeries(lines)
    BY <2>2, StartKeepsInv
  <2>3. CASE UNCHANGED seriesVars
    BY <2>3 DEF seriesVars, SeriesInv, SeriesTypeOK, RemembersLast,
                SeriesDescends
  <2> QED
    BY <2>1, <2>2, <2>3 DEF SeriesNext
<1>3. SeriesInv => SeriesDescends
  BY DEF SeriesInv
<1> QED
  BY <1>1, <1>2, <1>3, PTL DEF SeriesSpec

-----------------------------------------------------------------------------
(* The windows around a row. *)

(* mapAscToDescRange: the physical range of the shown rows s..e has as     *)
(* many lines, lies within the file, and mirrors each row: row i is the    *)
(* physical line total - i.                                                *)
THEOREM MapIsMirror ==
  ASSUME NEW total \in Nat, NEW s \in 1..total, NEW e \in s..total
  PROVE  LET m == MapAscToDescRange(total, s, e)
         IN  /\ m.physStart \in 0..total /\ m.physEndExcl \in 0..total
             /\ m.physEndExcl - m.physStart = e - s + 1
             /\ \A i \in 1..total :
                  i \in s..e <=> total - i >= m.physStart /\ total - i < m.physEndExcl
  BY DEF MapAscToDescRange, Greatest, Least

(* Half a page is within the page. *)
LEMMA HalfBound ==
  ASSUME NEW n \in Nat \ {0}
  PROVE  n \div 2 \in Nat /\ n \div 2 < n
  OBVIOUS

(* s..e0: the window of w rows that starts h rows before idx, cut at both  *)
(* ends (s0..e0) and then extended to the front.                           *)
Centred(total, idx, w, h, s0, e0, s) ==
  /\ s0 = Greatest(1, idx - h)
  /\ e0 = Least(total, s0 + w - 1)
  /\ s = IF e0 - s0 + 1 < w THEN Greatest(1, e0 - w + 1) ELSE s0

Covers(total, idx, w, s, e) ==
  /\ s \in 1..total /\ e \in 1..total
  /\ idx \in s..e
  /\ e - s + 1 <= w
  /\ e - s + 1 = Least(w, total)

(* Such a window has the row it is centred on and is as long as it can be. *)
LEMMA CentredWindow ==
  ASSUME NEW total \in Nat, NEW idx \in 1..total, NEW w \in Nat \ {0}, NEW h \in Nat, h < w,
         NEW s0, NEW e0, NEW s, Centred(total, idx, w, h, s0, e0, s)
  PROVE  Covers(total, idx, w, s, e0)
<1>0. /\ s0 = Greatest(1, idx - h)
      /\ e0 = Least(total, s0 + w - 1)
      /\ s = IF e0 - s0 + 1 < w THEN Greatest(1, e0 - w + 1) ELSE s0
  BY Zenon DEF Centred
<1>1. /\ s0 \in Nat /\ s0 >= 1 /\ s0 <= idx /\ s0 >= idx - h
      /\ s0 = 1 \/ s0 = idx - h
  BY <1>0 DEF Greatest
<1>2. /\ e0 \in Nat /\ e0 <= total /\ e0 <= s0 + w - 1
      /\ e0 = total \/ e0 = s0 + w - 1
  BY <1>0, <1>1 DEF Least
<1>3. idx <= e0
  BY <1>1, <1>2
<1>4. CASE e0 - s0 + 1 < w
  <2>1. e0 = total /\ s = Greatest(1, total - w + 1)
    <3>1. e0 = total
      BY <1>1, <1>2, <1>4
    <3> QED BY <1>0, <1>4, <3>1, Zenon
  <2>2. /\ s \in Nat /\ s >= 1 /\ s >= total - w + 1
        /\ s = 1 \/ s = total - w + 1
    BY <2>1 DEF Greatest
  <2>3. s <= s0 /\ (s = 1 => total <= w)
    BY <1>1, <1>4, <2>1, <2>2
  <2> QED BY <1>1, <1>3, <2>1, <2>2, <2>3 DEF Covers, Least
<1>5. CASE ~(e0 - s0 + 1 < w)
  <2>1. s = s0 /\ e0 = s0 + w - 1
    BY <1>0, <1>1, <1>2, <1>5
  <2> QED BY <1>1, <1>2, <1>3, <2>1 DEF Covers, Least
<1> QED BY <1>4, <1>5, Zenon

(* logs.jump: whatever the mode, the window lies within the view and has   *)
(* the target, and a centred one is as long as a page allows.              *)
THEOREM JumpCoversTarget ==
  ASSUME NEW total \in Nat, NEW idx \in 1..total, NEW mode
  PROVE  LET r == JumpRange(total, idx, mode)
         IN  /\ r.s \in 1..total /\ r.e \in 1..total
             /\ idx \in r.s..r.e
             /\ r.e - r.s + 1 <= PageSize
             /\ mode \notin {"top", "bottom"} => r.e - r.s + 1 = Least(PageSize, total)
<1> DEFINE r == JumpRange(total, idx, mode)
<1>1. PageSize \in Nat \ {0}
  BY PagingAssumption, Zenon
<1>2. /\ Greatest(1, idx) = idx /\ Least(total, idx) = idx
      /\ \A x \in Int : Least(total, x) \in {total, x} /\ Least(total, x) <= x /\ Least(total, x) <= total
      /\ \A x \in Int : Greatest(1, x) \in {1, x} /\ Greatest(1, x) >= x /\ Greatest(1, x) >= 1
  BY DEF Greatest, Least
<1>3. CASE mode = "top"
  <2> DEFINE e == Least(total, idx + PageSize - 1)
  <2>1. r = [s |-> idx, e |-> e]
    BY <1>2, <1>3, Zenon DEF JumpRange
  <2>2. e \in {total, idx + PageSize - 1} /\ e <= total /\ e <= idx + PageSize - 1
    BY <1>1, <1>2
  <2> HIDE DEF e, r
  <2>3. r.s = idx /\ r.e = e
    BY <2>1, Zenon
  <2>4. e \in 1..total /\ idx \in idx..e /\ e - idx + 1 <= PageSize
    BY <1>1, <2>2
  <2> QED BY <1>3, <2>3, <2>4, Zenon DEF r
<1>4. CASE mode = "bottom"
  <2> DEFINE s == Greatest(1, idx - PageSize + 1)
  <2>1. r = [s |-> s, e |-> idx]
    BY <1>2, <1>4, Zenon DEF JumpRange
  <2>2. s \in {1, idx - PageSize + 1} /\ s >= 1 /\ s >= idx - PageSize + 1
    BY <1>1, <1>2
  <2> HIDE DEF s, r
  <2>3. r.s = s /\ r.e = idx
    BY <2>1, Zenon
  <2>4. s \in 1..total /\ idx \in s..idx /\ idx - s + 1 <= PageSize
    BY <1>1, <2>2
  <2> QED BY <1>4, <2>3, <2>4, Zenon DEF r
<1>5. CASE mode \notin {"top", "bottom"}
  <2> DEFINE h == PageSize \div 2
             s0 == Greatest(1, idx - h)
             e0 == Least(total, s0 + PageSize - 1)
             s == IF e0 - s0 + 1 < PageSize THEN Greatest(1, e0 - PageSize + 1) ELSE s0
  <2>1. r = [s |-> s, e |-> e0]
    BY <1>5, Zenon DEF JumpRange
  <2>2. h \in Nat /\ h < PageSize
    BY <1>1, HalfBound, Zenon
  <2>0. Centred(total, idx, PageSize, h, s0, e0, s)
    BY Zenon DEF Centred
  <2> HIDE DEF h, r, s0, e0, s
  <2>3. /\ s \in 1..total /\ e0 \in 1..total /\ idx \in s..e0
        /\ e0 - s + 1 <= PageSize /\ e0 - s + 1 = Least(PageSize, total)
    <3>1. Covers(total, idx, PageSize, s, e0)
      BY <1>1, <2>0, <2>2, CentredWindow, Zenon
    <3> QED BY <3>1, Zenon DEF Covers
  <2>4. r.s = s /\ r.e = e0
    BY <2>1, Zenon
  <2> QED BY <1>5, <2>3, <2>4, Zenon DEF r
<1> QED BY <1>3, <1>4, <1>5, Zenon

(* logs.refresh: the window the viewer asks for lies within the view, has  *)
(* the anchor, and is as long as the viewer's window allows.               *)
THEOREM RefreshCoversAnchor ==
  ASSUME NEW total \in Nat, NEW anchor \in 1..total
  PROVE  LET r == RefreshRange(total, anchor)
         IN  /\ r.s \in 1..total /\ r.e \in 1..total
             /\ anchor \in r.s..r.e
             /\ r.e - r.s + 1 = Least(WindowSize, total)
<1> DEFINE r == RefreshRange(total, anchor)
           h == WindowSize \div 2
           s0 == Greatest(1, anchor - h)
           e0 == Least(total, s0 + WindowSize - 1)
           s == IF e0 - s0 + 1 < WindowSize THEN Greatest(1, e0 - WindowSize + 1) ELSE s0
<1>1. WindowSize \in Nat \ {0}
  BY PagingAssumption, Zenon
<1>2. r = [s |-> s, e |-> e0]
  BY Zenon DEF RefreshRange
<1>3. h \in Nat /\ h < WindowSize
  BY <1>1, HalfBound, Zenon
<1>0. Centred(total, anchor, WindowSize, h, s0, e0, s)
  BY Zenon DEF Centred
<1> HIDE DEF h, r, s0, e0, s
<1>4. /\ s \in 1..total /\ e0 \in 1..total /\ anchor \in s..e0
      /\ e0 - s + 1 = Least(WindowSize, total)
  <2>1. Covers(total, anchor, WindowSize, s, e0)
    BY <1>0, <1>1, <1>3, CentredWindow, Zenon
  <2> QED BY <2>1, Zenon DEF Covers
<1>5. r.s = s /\ r.e = e0
  BY <1>2, Zenon
<1> QED BY <1>4, <1>5, Zenon DEF r

-----------------------------------------------------------------------------
(* Induction and recursion over numbers, by sets and functions. *)

(* Every set of naturals that is not empty has a least element. *)
LEMMA LeastNatural ==
  ASSUME NEW T \in SUBSET Nat, T # {}
  PROVE  \E x \in T : \A y \in T : x <= y
<1> DEFINE R == StrictSubsetOrdering(Nat)
           F == {0..x : x \in T}
<1>1. IsWellFoundedOn(R, FiniteSubsetsOf(Nat))
  BY FS_StrictSubsetOrderingWellFounded
<1>2. \A x \in T : 0..x \in FiniteSubsetsOf(Nat)
  BY FS_Interval DEF FiniteSubsetsOf
<1>3. F \subseteq FiniteSubsetsOf(Nat) /\ F # {}
  BY <1>2, Zenon
<1>4. \E x \in F : \A y \in F : ~ (<<y, x>> \in R)
  <2> HIDE DEF R, F
  <2> QED BY <1>1, <1>3, WFMin DEF R
<1>5. PICK x \in T : \A y \in T : ~ (<<0..y, 0..x>> \in R)
  BY <1>4, Zenon
<1>6. ASSUME NEW y \in T, y < x PROVE FALSE
  <2>1. 0..y \subseteq 0..x /\ x \in 0..x /\ x \notin 0..y
    BY <1>6
  <2>2. <<0..y, 0..x>> \in R
    BY <2>1 DEF StrictSubsetOrdering
  <2> QED BY <1>5, <2>2
<1> HIDE DEF R, F
<1> QED BY <1>6

(* A set of numbers up to m that has every number all smaller ones of      *)
(* which it has, has them all.                                             *)
LEMMA AllBelow ==
  ASSUME NEW m \in Nat, NEW S,
         \A n \in 0..m : (\A k \in 0..(n - 1) : k \in S) => n \in S
  PROVE  \A n \in 0..m : n \in S
<1> DEFINE T == {n \in 0..m : n \notin S}
<1> SUFFICES ASSUME T # {} PROVE FALSE
  OBVIOUS
<1>1. PICK x \in T : \A y \in T : x <= y
  <2>1. T \in SUBSET Nat
    OBVIOUS
  <2> QED BY <2>1, LeastNatural, Zenon
<1>2. \A k \in 0..(x - 1) : k \in S
  BY <1>1
<1> QED BY <1>1, <1>2

LEMMA UpTo ==
  ASSUME NEW m \in Nat, NEW S, 0 \in S,
         \A n \in 0..(m - 1) : n \in S => n + 1 \in S
  PROVE  \A n \in 0..m : n \in S
<1>1. ASSUME NEW n \in 0..m, \A k \in 0..(n - 1) : k \in S
      PROVE  n \in S
  <2>1. CASE n # 0
    <3>1. n - 1 \in 0..(m - 1) /\ n - 1 \in 0..(n - 1) /\ (n - 1) + 1 = n
      BY <2>1
    <3> QED BY <1>1, <3>1
  <2> QED BY <2>1
<1> QED BY <1>1, AllBelow

(* A recursion over the numbers up to m defines a function: the value at n *)
(* comes from the value at a smaller number.                               *)
Follows(f, m, x0, step, prev) ==
  f[0] = x0 /\ \A n \in 1..m : f[n] = step[n][f[prev[n]]]

LEMMA Recursion ==
  ASSUME NEW m \in Nat, NEW X, NEW x0 \in X, NEW step \in [1..m -> [X -> X]],
         NEW prev \in [1..m -> Nat], \A n \in 1..m : prev[n] < n
  PROVE  \E f \in [0..m -> X] : Follows(f, m, x0, step, prev)
<1> DEFINE Good(n, f) == f[0] = x0 /\ \A i \in 1..n : f[i] = step[i][f[prev[i]]]
           S == {n \in 0..m : \E f \in [0..n -> X] : Good(n, f)}
<1>1. 0 \in S
  <2>1. [i \in 0..0 |-> x0] \in [0..0 -> X] /\ Good(0, [i \in 0..0 |-> x0])
    OBVIOUS
  <2> HIDE DEF Good
  <2> QED BY <2>1
<1>2. ASSUME NEW n \in 0..m-1, n \in S PROVE n+1 \in S
  <2>1. PICK f \in [0..n -> X] : Good(n, f)
    BY <1>2, Zenon
  <2> DEFINE g == [i \in 0..n+1 |-> IF i = n+1 THEN step[n+1][f[prev[n+1]]] ELSE f[i]]
  <2>0. n + 1 \in 1..m /\ prev[n+1] \in 0..n /\ \A i \in 1..n : prev[i] \in 0..n
    OBVIOUS
  <2>2. g \in [0..n+1 -> X]
    BY <2>0
  <2>3. Good(n+1, g)
    BY <2>0, <2>1
  <2> HIDE DEF g, Good
  <2> QED BY <2>2, <2>3
<1>3. \A n \in 0..m : n \in S
  <2> HIDE DEF S
  <2> QED BY <1>1, <1>2, UpTo, Zenon
<1> QED BY <1>3 DEF Follows

-----------------------------------------------------------------------------
(* The loops, step by step. *)

LEMMA FilteredSteps ==
  ASSUME NEW st, NEW lines \in Seq(Int)
  PROVE  \E kept \in [0..Len(lines) -> Seq(Int)] :
           /\ kept[0] = <<>> /\ Filtered(st, lines) = kept[Len(lines)]
           /\ \A i \in 1..Len(lines) :
                kept[i] = IF Matches(st, lines[i]) THEN Append(kept[i - 1], lines[i])
                          ELSE kept[i - 1]
<1> DEFINE X == Seq(Int)
           m == Len(lines)
           x0 == <<>>
           Body(i, x) == IF Matches(st, lines[i]) THEN Append(x, lines[i]) ELSE x
           Rec(f) == [i \in 0..m |-> IF i = 0 THEN x0 ELSE Body(i, f[i - 1])]
           g == CHOOSE f : f = Rec(f)
           step == [i \in 1..m |-> [x \in X |-> Body(i, x)]]
           prev == [i \in 1..m |-> i - 1]
<1>1. Filtered(st, lines) = g[m]
  BY DEF Filtered
<1>2. m \in Nat /\ x0 \in X /\ \A i \in 1..m, x \in X : Body(i, x) \in X
  OBVIOUS
<1> HIDE DEF m, X, x0, Body
<1>3. /\ step \in [1..m -> [X -> X]] /\ prev \in [1..m -> Nat]
      /\ \A i \in 1..m : prev[i] < i /\ prev[i] = i - 1
      /\ \A i \in 1..m, x \in X : step[i][x] = Body(i, x)
  BY <1>2
<1> HIDE DEF step, prev
<1>4. PICK f \in [0..m -> X] : Follows(f, m, x0, step, prev)
  BY <1>2, <1>3, Recursion, Zenon
<1>5. f = Rec(f)
  <2>1. ASSUME NEW i \in 1..m PROVE f[i] = Body(i, f[i - 1])
    <3>1. i - 1 \in 0..m
      BY <1>2
    <3> QED BY <1>3, <1>4, <3>1, ZenonT(30) DEF Follows
  <2> QED BY <1>2, <1>4, <2>1 DEF Follows
<1>6. g = Rec(g)
  <2> HIDE DEF Rec
  <2> QED BY <1>5
<1> HIDE DEF g
<1>7. g[0] = x0 /\ \A i \in 1..m : g[i] = Body(i, g[i - 1])
  <2>1. 0 \in 0..m /\ \A i \in 1..m : i \in 0..m /\ i # 0
    BY <1>2
  <2> QED BY <1>6, <2>1, Zenon
<1>8. \A i \in 0..m : g[i] \in X
  <2> DEFINE T == {k \in 0..m : g[k] \in X}
  <2>1. 0 \in T
    BY <1>2, <1>7
  <2>2. ASSUME NEW i \in 0..(m - 1), i \in T PROVE i + 1 \in T
    <3>1. i + 1 \in 1..m /\ (i + 1) - 1 = i /\ i + 1 \in 0..m
      BY <1>2
    <3> QED BY <1>2, <1>7, <2>2, <3>1
  <2>3. \A i \in 0..m : i \in T
    <3> HIDE DEF T
    <3> QED BY <1>2, <2>1, <2>2, UpTo, Zenon
  <2> QED BY <2>3
<1>9. g \in [0..m -> X]
  BY <1>6, <1>8
<1> QED BY <1>1, <1>7, <1>9, Zenon DEF m, X, x0, Body

-----------------------------------------------------------------------------
(* Sequences that name the members of a set in order. *)

Up(s, S) ==
  /\ s \in Seq(Int)
  /\ \A i, j \in 1..Len(s) : i < j => s[i] < s[j]
  /\ \A i \in 1..Len(s) : s[i] \in S
  /\ \A x \in S : \E i \in 1..Len(s) : s[i] = x

Down(s, S) ==
  /\ s \in Seq(Int)
  /\ \A i, j \in 1..Len(s) : i < j => s[i] > s[j]
  /\ \A i \in 1..Len(s) : s[i] \in S
  /\ \A x \in S : \E i \in 1..Len(s) : s[i] = x

LEMMA ConcatIs ==
  ASSUME NEW s \in Seq(Int), NEW t \in Seq(Int)
  PROVE  /\ s \o t \in Seq(Int) /\ Len(s \o t) = Len(s) + Len(t)
         /\ \A i \in 1..Len(s) : (s \o t)[i] = s[i]
         /\ \A i \in 1..Len(t) : (s \o t)[Len(s) + i] = t[i]
         /\ \A i \in (Len(s) + 1)..(Len(s) + Len(t)) : (s \o t)[i] = t[i - Len(s)]
  OBVIOUS

LEMMA UpConcat ==
  ASSUME NEW s, NEW t, NEW S, NEW T, Up(s, S), Up(t, T),
         \A x \in S, y \in T : x < y
  PROVE  Up(s \o t, S \cup T)
<1> DEFINE u == s \o t
           m == Len(s)
           n == Len(t)
<1>1. /\ u \in Seq(Int) /\ Len(u) = m + n /\ m \in Nat /\ n \in Nat
      /\ \A i \in 1..m : u[i] = s[i]
      /\ \A i \in 1..n : u[m + i] = t[i]
      /\ \A i \in (m + 1)..(m + n) : u[i] = t[i - m]
  BY ConcatIs DEF Up
<1>2. /\ \A i \in 1..m : s[i] \in Int /\ s[i] \in S
      /\ \A i \in 1..n : t[i] \in Int /\ t[i] \in T
  BY DEF Up
<1>3. /\ \A i, j \in 1..m : i < j => s[i] < s[j]
      /\ \A i, j \in 1..n : i < j => t[i] < t[j]
  BY DEF Up
<1>4. /\ \A x \in S : \E i \in 1..m : s[i] = x
      /\ \A x \in T : \E i \in 1..n : t[i] = x
  BY DEF Up
<1> HIDE DEF u, m, n
<1>5. ASSUME NEW i \in 1..(m + n), NEW j \in 1..(m + n), i < j
      PROVE  u[i] < u[j]
  <2>0. m \in Nat /\ n \in Nat
    BY <1>1, Zenon
  <2>1. CASE j <= m
    <3>1. i \in 1..m /\ j \in 1..m
      BY <1>5, <2>0, <2>1
    <3>2. u[i] = s[i] /\ u[j] = s[j]
      BY <1>1, <3>1, Zenon
    <3> QED BY <1>3, <1>5, <3>1, <3>2, Zenon
  <2>2. CASE i > m
    <3>1. i - m \in 1..n /\ j - m \in 1..n /\ i - m < j - m
      BY <1>5, <2>0, <2>2
    <3>a. i \in (m + 1)..(m + n) /\ j \in (m + 1)..(m + n)
      BY <1>5, <2>0, <2>2
    <3>2. u[i] = t[i - m] /\ u[j] = t[j - m]
      BY <1>1, <3>a, Zenon
    <3>3. t[i - m] < t[j - m]
      BY <1>3, <3>1, ZenonT(30)
    <3> QED BY <3>2, <3>3, Zenon
  <2>3. CASE i <= m /\ j > m
    <3>1. j - m \in 1..n /\ i \in 1..m /\ j \in (m + 1)..(m + n)
      BY <2>0, <2>3
    <3>2. u[j] = t[j - m] /\ u[i] = s[i]
      BY <1>1, <3>1, Zenon
    <3> QED BY <1>2, <3>1, <3>2, Zenon
  <2> QED BY <2>0, <2>1, <2>2, <2>3
<1>6. ASSUME NEW i \in 1..(m + n) PROVE u[i] \in S \cup T
  <2>1. CASE i > m
    <3>a. m \in Nat /\ n \in Nat
      BY <1>1, Zenon
    <3>b. i - m \in 1..n /\ i \in (m + 1)..(m + n)
      BY <2>1, <3>a
    <3>1. i - m \in 1..n /\ u[i] = t[i - m]
      BY <1>1, <3>b, Zenon
    <3> QED BY <1>2, <3>1, Zenon
  <2>2. CASE i <= m
    <3>a. m \in Nat /\ n \in Nat
      BY <1>1, Zenon
    <3>b. i \in 1..m
      BY <2>2, <3>a
    <3>1. i \in 1..m /\ u[i] = s[i]
      BY <1>1, <3>b, Zenon
    <3> QED BY <1>2, <3>1
  <2> QED BY <1>1, <2>1, <2>2
<1>7. ASSUME NEW x \in S \cup T PROVE \E i \in 1..(m + n) : u[i] = x
  <2>1. CASE x \in T
    <3>1. PICK i \in 1..n : t[i] = x
      BY <1>4, <2>1
    <3>a. m \in Nat /\ n \in Nat
      BY <1>1, Zenon
    <3>b. m + i \in 1..(m + n)
      BY <3>a
    <3>2. m + i \in 1..(m + n) /\ u[m + i] = x
      BY <1>1, <3>1, <3>b, Zenon
    <3> QED BY <3>2
  <2>2. CASE x \in S
    <3>1. PICK i \in 1..m : s[i] = x
      BY <1>4, <2>2
    <3>a. m \in Nat /\ n \in Nat
      BY <1>1, Zenon
    <3>b. i \in 1..(m + n)
      BY <3>a
    <3>2. i \in 1..(m + n) /\ u[i] = x
      BY <1>1, <3>1, <3>b, Zenon
    <3> QED BY <3>2
  <2> QED BY <2>1, <2>2
<1> QED BY <1>1, <1>5, <1>6, <1>7, Zenon DEF Up, u

LEMMA ReversedIs ==
  ASSUME NEW s \in Seq(Int)
  PROVE  /\ Reversed(s) \in Seq(Int) /\ Len(Reversed(s)) = Len(s)
         /\ \A i \in 1..Len(s) : Reversed(s)[i] = s[Len(s) + 1 - i]
<1>1. Len(s) \in Nat /\ \A i \in 1..Len(s) : Len(s) + 1 - i \in 1..Len(s)
  OBVIOUS
<1>2. \A i \in 1..Len(s) : s[Len(s) + 1 - i] \in Int
  BY <1>1
<1> QED BY <1>1, <1>2 DEF Reversed

LEMMA ReversedUp ==
  ASSUME NEW s, NEW S, Up(s, S)
  PROVE  Down(Reversed(s), S)
<1> DEFINE r == Reversed(s)
<1>1. /\ r \in Seq(Int) /\ Len(r) = Len(s) /\ Len(s) \in Nat
      /\ \A i \in 1..Len(s) : r[i] = s[Len(s) + 1 - i] /\ Len(s) + 1 - i \in 1..Len(s)
  BY ReversedIs DEF Up
<1> HIDE DEF r
<1>2. ASSUME NEW x \in S PROVE \E i \in 1..Len(r) : r[i] = x
  <2>1. PICK i \in 1..Len(s) : s[i] = x
    BY DEF Up
  <2>2. Len(s) + 1 - i \in 1..Len(s) /\ Len(s) + 1 - (Len(s) + 1 - i) = i
    BY <1>1
  <2> QED BY <1>1, <2>1, <2>2, ZenonT(30)
<1>3. ASSUME NEW i \in 1..Len(r), NEW j \in 1..Len(r), i < j
      PROVE  r[i] > r[j]
  <2>0. Len(r) = Len(s) /\ Len(s) \in Nat
    BY <1>1, Zenon
  <2>1. /\ i \in 1..Len(s) /\ j \in 1..Len(s)
        /\ Len(s) + 1 - j < Len(s) + 1 - i
    BY <1>3, <2>0
  <2>2. /\ r[i] = s[Len(s) + 1 - i] /\ Len(s) + 1 - i \in 1..Len(s)
        /\ r[j] = s[Len(s) + 1 - j] /\ Len(s) + 1 - j \in 1..Len(s)
    BY <1>1, <2>1, Zenon
  <2>3. s[Len(s) + 1 - j] < s[Len(s) + 1 - i]
    BY <2>1, <2>2, Zenon DEF Up
  <2>4. s[Len(s) + 1 - j] \in Int /\ s[Len(s) + 1 - i] \in Int
    <3>1. s \in Seq(Int)
      BY Zenon DEF Up
    <3> QED BY <2>2, <3>1
  <2> QED BY <2>2, <2>3, <2>4
<1> QED BY <1>1, <1>2, <1>3, Zenon DEF Up, Down, r

LEMMA DownConcat ==
  ASSUME NEW s, NEW t, NEW S, NEW T, Down(s, S), Down(t, T),
         \A x \in S, y \in T : x > y
  PROVE  Down(s \o t, S \cup T)
<1> DEFINE u == s \o t
           m == Len(s)
           n == Len(t)
<1>1. /\ u \in Seq(Int) /\ Len(u) = m + n /\ m \in Nat /\ n \in Nat
      /\ \A i \in 1..m : u[i] = s[i]
      /\ \A i \in 1..n : u[m + i] = t[i]
      /\ \A i \in (m + 1)..(m + n) : u[i] = t[i - m]
  BY ConcatIs DEF Down
<1>2. /\ \A i \in 1..m : s[i] \in Int /\ s[i] \in S
      /\ \A i \in 1..n : t[i] \in Int /\ t[i] \in T
  BY DEF Down
<1>3. /\ \A i, j \in 1..m : i < j => s[i] > s[j]
      /\ \A i, j \in 1..n : i < j => t[i] > t[j]
  BY DEF Down
<1>4. /\ \A x \in S : \E i \in 1..m : s[i] = x
      /\ \A x \in T : \E i \in 1..n : t[i] = x
  BY DEF Down
<1> HIDE DEF u, m, n
<1>5. ASSUME NEW i \in 1..(m + n), NEW j \in 1..(m + n), i < j
      PROVE  u[i] > u[j]
  <2>0. m \in Nat /\ n \in Nat
    BY <1>1, Zenon
  <2>1. CASE j <= m
    <3>1. i \in 1..m /\ j \in 1..m
      BY <1>5, <2>0, <2>1
    <3>2. u[i] = s[i] /\ u[j] = s[j]
      BY <1>1, <3>1, Zenon
    <3> QED BY <1>3, <1>5, <3>1, <3>2, Zenon
  <2>2. CASE i > m
    <3>1. i - m \in 1..n /\ j - m \in 1..n /\ i - m < j - m
      BY <1>5, <2>0, <2>2
    <3>a. i \in (m + 1)..(m + n) /\ j \in (m + 1)..(m + n)
      BY <1>5, <2>0, <2>2
    <3>2. u[i] = t[i - m] /\ u[j] = t[j - m]
      BY <1>1, <3>a, Zenon
    <3> QED BY <1>3, <3>1, <3>2, Zenon
  <2>3. CASE i <= m /\ j > m
    <3>1. j - m \in 1..n /\ i \in 1..m /\ j \in (m + 1)..(m + n)
      BY <2>0, <2>3
    <3>2. u[j] = t[j - m] /\ u[i] = s[i]
      BY <1>1, <3>1, Zenon
    <3> QED BY <1>2, <3>1, <3>2
  <2> QED BY <2>0, <2>1, <2>2, <2>3
<1>6. ASSUME NEW i \in 1..(m + n) PROVE u[i] \in S \cup T
  <2>1. CASE i > m
    <3>a. m \in Nat /\ n \in Nat
      BY <1>1, Zenon
    <3>b. i - m \in 1..n /\ i \in (m + 1)..(m + n)
      BY <2>1, <3>a
    <3>1. i - m \in 1..n /\ u[i] = t[i - m]
      BY <1>1, <3>b, Zenon
    <3> QED BY <1>2, <3>1, Zenon
  <2>2. CASE i <= m
    <3>a. m \in Nat /\ n \in Nat
      BY <1>1, Zenon
    <3>b. i \in 1..m
      BY <2>2, <3>a
    <3>1. i \in 1..m /\ u[i] = s[i]
      BY <1>1, <3>b, Zenon
    <3> QED BY <1>2, <3>1
  <2> QED BY <1>1, <2>1, <2>2
<1>7. ASSUME NEW x \in S \cup T PROVE \E i \in 1..(m + n) : u[i] = x
  <2>1. CASE x \in T
    <3>1. PICK i \in 1..n : t[i] = x
      BY <1>4, <2>1
    <3>a. m \in Nat /\ n \in Nat
      BY <1>1, Zenon
    <3>b. m + i \in 1..(m + n)
      BY <3>a
    <3>2. m + i \in 1..(m + n) /\ u[m + i] = x
      BY <1>1, <3>1, <3>b, Zenon
    <3> QED BY <3>2
  <2>2. CASE x \in S
    <3>1. PICK i \in 1..m : s[i] = x
      BY <1>4, <2>2
    <3>a. m \in Nat /\ n \in Nat
      BY <1>1, Zenon
    <3>b. i \in 1..(m + n)
      BY <3>a
    <3>2. i \in 1..(m + n) /\ u[i] = x
      BY <1>1, <3>1, <3>b, Zenon
    <3> QED BY <3>2
  <2> QED BY <2>1, <2>2
<1> QED BY <1>1, <1>5, <1>6, <1>7, Zenon DEF Down, u

(* A set has one sequence that names its members in falling order. *)
LEMMA DownUnique ==
  ASSUME NEW s, NEW t, NEW S, Down(s, S), Down(t, S)
  PROVE  s = t
<1> DEFINE m == Len(s)
           n == Len(t)
<1>0. /\ s \in Seq(Int) /\ t \in Seq(Int) /\ m \in Nat /\ n \in Nat
      /\ \A i \in 1..m : s[i] \in Int /\ s[i] \in S
      /\ \A i \in 1..n : t[i] \in Int /\ t[i] \in S
  <2>1. s \in Seq(Int) /\ t \in Seq(Int)
    BY Zenon DEF Down
  <2>2. /\ m \in Nat /\ n \in Nat
        /\ \A i \in 1..m : s[i] \in Int
        /\ \A i \in 1..n : t[i] \in Int
    BY <2>1
  <2> QED BY <2>1, <2>2, Zenon DEF Down
<1>a. /\ \A i, j \in 1..m : i < j => s[i] > s[j]
      /\ \A i, j \in 1..n : i < j => t[i] > t[j]
  BY DEF Down
<1>b. /\ \A x \in S : \E i \in 1..m : s[i] = x
      /\ \A x \in S : \E i \in 1..n : t[i] = x
  BY DEF Down
<1>c. (m = n /\ \A i \in 1..m : s[i] = t[i]) => s = t
  <2>1. s \in Seq(Int) /\ t \in Seq(Int)
    BY <1>0, Zenon
  <2> QED BY <2>1
<1> DEFINE D == {i \in 1..m : i > n \/ s[i] # t[i]}
<1> HIDE DEF m, n
<1>1. D = {}
  <2> SUFFICES ASSUME D # {} PROVE FALSE
    OBVIOUS
  <2>1. PICK i \in D : \A j \in D : i <= j
    <3>1. D \in SUBSET Nat
      BY <1>0
    <3> HIDE DEF D
    <3> QED BY <3>1, LeastNatural, Zenon
  <2>2. i \in 1..m /\ (i > n \/ s[i] # t[i])
    BY <2>1, Zenon
  <2>3. ASSUME NEW j \in 1..m, j < i PROVE j \in 1..n /\ s[j] = t[j]
    <3>1. j \notin D
      BY <1>0, <2>1, <2>2, <2>3
    <3> QED BY <1>0, <3>1
  <2> HIDE DEF D
  <2>4. PICK k \in 1..n : t[k] = s[i]
    BY <1>0, <1>b, <2>2, Zenon
  <2>5. k >= i
    <3> SUFFICES ASSUME k < i PROVE FALSE
      BY <2>2, <2>4
    <3>1. k \in 1..m /\ s[k] = t[k]
      BY <1>0, <2>2, <2>3, <2>4
    <3>2. s[k] > s[i]
      BY <1>a, <2>2, <3>1
    <3>3. s[i] \in Int /\ s[k] = s[i]
      BY <1>0, <2>2, <2>4, <3>1, Zenon
    <3> QED BY <3>2, <3>3
  <2>6. i \in 1..n /\ s[i] # t[i] /\ i < k
    BY <1>0, <2>2, <2>4, <2>5
  <2>7. t[i] > s[i]
    BY <1>a, <2>4, <2>6
  <2>8. PICK h \in 1..m : s[h] = t[i]
    BY <1>0, <1>b, <2>6, Zenon
  <2>9. CASE h < i
    <3>1. h \in 1..n /\ s[h] = t[h]
      BY <2>3, <2>8, <2>9
    <3>2. t[h] > t[i]
      BY <1>a, <2>6, <2>9, <3>1
    <3>3. t[i] \in Int /\ t[h] = t[i]
      BY <1>0, <2>6, <2>8, <3>1, Zenon
    <3> QED BY <3>2, <3>3
  <2>10. CASE h >= i
    <3>1. h = i \/ s[i] > s[h]
      BY <1>a, <2>2, <2>8, <2>10
    <3>2. s[h] = t[i] /\ s[i] \in Int /\ t[i] \in Int /\ s[i] # t[i]
      BY <1>0, <2>2, <2>6, <2>8, Zenon
    <3> QED BY <2>7, <3>1, <3>2
  <2> QED BY <1>0, <2>2, <2>8, <2>9, <2>10
<1>2. ASSUME NEW i \in 1..m PROVE i <= n /\ s[i] = t[i]
  <2>1. i \notin D
    BY <1>1, Zenon
  <2> QED BY <1>0, <2>1
<1> HIDE DEF D
<1>3. m <= n
  BY <1>0, <1>2
<1>4. m >= n
  <2> SUFFICES ASSUME m < n PROVE FALSE
    BY <1>0
  <2>1. m + 1 \in 1..n /\ t[m + 1] \in S
    BY <1>0
  <2>2. PICK i \in 1..m : s[i] = t[m + 1]
    BY <1>b, <2>1, Zenon
  <2>3. i \in 1..n /\ i < m + 1 /\ t[i] = s[i]
    BY <1>0, <1>2, <2>2
  <2>4. t[i] > t[m + 1]
    BY <1>a, <2>1, <2>3, Zenon
  <2>5. t[m + 1] \in Int /\ t[i] = t[m + 1]
    BY <1>0, <2>1, <2>2, <2>3, Zenon
  <2> QED BY <2>4, <2>5
<1>5. m = n
  <2>1. m \in Nat /\ n \in Nat
    BY <1>0, Zenon
  <2> QED BY <1>3, <1>4, <2>1
<1> QED BY <1>2, <1>5, <1>c, Zenon

(* A rising sequence within a..b-1 has at most b - a members; with b - a   *)
(* of them it has them all.                                                *)
LEMMA UpSize ==
  ASSUME NEW s, NEW S, Up(s, S), NEW a \in Int, NEW b \in Int, a <= b,
         \A x \in S : a <= x /\ x < b
  PROVE  /\ Len(s) <= b - a
         /\ Len(s) = b - a => \A x \in Int : a <= x /\ x < b => x \in S
<1> DEFINE n == Len(s)
<1>1. /\ n \in Nat
      /\ \A i \in 1..n : s[i] \in Int /\ s[i] \in S
      /\ \A i, j \in 1..n : i < j => s[i] < s[j]
  BY DEF Up
<1> HIDE DEF n
<1>2. \A i \in 1..n : a <= s[i] /\ s[i] < b
  BY <1>1
<1>3. \A k \in 0..n : k >= 1 => s[k] >= a + k - 1
  <2> DEFINE T == {k \in 0..n : k >= 1 => s[k] >= a + k - 1}
  <2>1. 0 \in T
    BY <1>1
  <2>2. ASSUME NEW k \in 0..(n - 1), k \in T PROVE k + 1 \in T
    <3>1. k + 1 \in 1..n /\ s[k + 1] \in Int /\ s[k + 1] >= a
      BY <1>1, <1>2
    <3>2. CASE k >= 1
      <4>1. k \in 1..n /\ s[k] \in Int /\ s[k] >= a + k - 1
        BY <1>1, <2>2, <3>2
      <4>2. s[k] < s[k + 1]
        BY <1>1, <3>1, <4>1
      <4> QED BY <1>1, <3>1, <4>1, <4>2
    <3> QED BY <1>1, <3>1, <3>2
  <2>3. \A k \in 0..n : k \in T
    <3> HIDE DEF T
    <3> QED BY <1>1, <2>1, <2>2, UpTo, Zenon
  <2> QED BY <2>3
<1>4. n <= b - a
  <2>1. CASE n >= 1
    <3>1. n \in 1..n /\ n \in 0..n
      BY <1>1, <2>1
    <3>2. s[n] \in Int /\ s[n] >= a + n - 1 /\ s[n] < b
      BY <1>1, <1>2, <1>3, <2>1, <3>1, Zenon
    <3> QED BY <1>1, <3>2
  <2> QED BY <1>1, <2>1
<1>5. ASSUME n = b - a, NEW x \in Int, a <= x, x < b PROVE x \in S
  <2>1. \A k \in 0..n : k <= n - 1 => s[n - k] <= b - 1 - k
    <3> DEFINE T == {k \in 0..n : k <= n - 1 => s[n - k] <= b - 1 - k}
    <3>1. 0 \in T
      <4>1. CASE n >= 1
        BY <1>1, <1>2, <4>1
      <4> QED BY <1>1, <4>1
    <3>2. ASSUME NEW k \in 0..(n - 1), k \in T PROVE k + 1 \in T
      <4>1. CASE k + 1 <= n - 1
        <5>1. n - k \in 1..n /\ n - (k + 1) \in 1..n /\ n - (k + 1) < n - k
          BY <1>1, <4>1
        <5>2. s[n - k] \in Int /\ s[n - (k + 1)] \in Int /\ s[n - (k + 1)] < s[n - k]
          BY <1>1, <5>1, Zenon
        <5>3. s[n - k] <= b - 1 - k
          BY <1>1, <3>2
        <5> QED BY <1>1, <4>1, <5>2, <5>3
      <4> QED BY <1>1, <4>1
    <3>3. \A k \in 0..n : k \in T
      <4> HIDE DEF T
      <4> QED BY <1>1, <3>1, <3>2, UpTo, Zenon
    <3> QED BY <3>3, Zenon
  <2> DEFINE k == x - a + 1
  <2>2. k \in 1..n /\ n - k \in 0..n /\ n - k <= n - 1 /\ n - (n - k) = k /\ k \in 0..n
    BY <1>1, <1>5
  <2>3. s[k] <= b - 1 - (n - k)
    BY <2>1, <2>2, Zenon
  <2>4. s[k] >= a + k - 1 /\ s[k] \in Int /\ s[k] \in S
    BY <1>1, <1>3, <2>2
  <2>5. s[k] = x
    BY <1>1, <1>5, <2>3, <2>4
  <2> QED BY <2>4, <2>5, Zenon
<1> QED BY <1>4, <1>5, Zenon DEF n

-----------------------------------------------------------------------------
(* The lines a read covers. *)

(* The lines of chunk k. *)
LinesOf(st, k) ==
  {l \in Int : st.chunks[k].start <= l /\ l < st.chunks[k].start + st.chunks[k].lines}

(* Those from a to b - 1. *)
SliceOf(st, k, a, b) == {l \in LinesOf(st, k) : a <= l /\ l < b}

(* The lines from a to b - 1 of the first n chunks whose file is there. *)
There(st, n, a, b) ==
  {l \in Int : a <= l /\ l < b /\ \E k \in 1..n : k \notin st.missing /\ l \in LinesOf(st, k)}

(* What StoreOK says of the chunks, without records. *)
LEMMA ChunksAre ==
  ASSUME NEW st, StoreOK(st)
  PROVE  /\ Len(st.chunks) \in Nat
         /\ \A k \in 1..Len(st.chunks) :
              st.chunks[k].start \in Nat /\ st.chunks[k].lines \in Nat
         /\ \A k \in 1..Len(st.chunks) :
              k > 1 => st.chunks[k].start = st.chunks[k - 1].start + st.chunks[k - 1].lines
         /\ 1 \in 1..Len(st.chunks) => st.chunks[1].start = 0
<1>1. st.chunks \in Seq(Chunks)
  BY DEF StoreOK
<1>2. DOMAIN st.chunks = 1..Len(st.chunks) /\ Len(st.chunks) \in Nat
      /\ \A k \in 1..Len(st.chunks) : st.chunks[k] \in Chunks
  BY <1>1
<1>3. \A k \in 1..Len(st.chunks) :
        st.chunks[k].start = IF k = 1 THEN 0
                             ELSE st.chunks[k - 1].start + st.chunks[k - 1].lines
  BY <1>2, Zenon DEF StoreOK
<1>4. \A k \in 1..Len(st.chunks) :
        st.chunks[k].start \in Nat /\ st.chunks[k].lines \in Nat
  BY <1>2 DEF Chunks
<1> QED BY <1>2, <1>3, <1>4

(* The chunks follow each other. *)
LEMMA ChunksFollow ==
  ASSUME NEW st, StoreOK(st), NEW n \in 1..Len(st.chunks), NEW k \in 1..(n - 1)
  PROVE  st.chunks[k].start + st.chunks[k].lines <= st.chunks[n].start
<1> DEFINE m == Len(st.chunks)
           From(i) == st.chunks[i].start
           Size(i) == st.chunks[i].lines
<1>1. /\ m \in Nat /\ \A i \in 1..m : From(i) \in Nat /\ Size(i) \in Nat
      /\ \A i \in 1..m : i > 1 => From(i) = From(i - 1) + Size(i - 1)
  BY ChunksAre
<1>0. n \in 1..m
  OBVIOUS
<1> HIDE DEF m, From, Size
<1> DEFINE T == {d \in 0..m : k + 1 + d <= n => From(k) + Size(k) <= From(k + 1 + d)}
<1>2. 0 \in T
  <2>1. k + 1 \in 1..m /\ k + 1 > 1 /\ (k + 1) - 1 = k /\ k \in 1..m
    BY <1>0, <1>1
  <2>2. From(k + 1) = From(k) + Size(k) /\ From(k) \in Nat /\ Size(k) \in Nat
    BY <1>1, <2>1
  <2> QED BY <1>1, <2>2
<1>3. ASSUME NEW d \in 0..(m - 1), d \in T PROVE d + 1 \in T
  <2>1. CASE k + 1 + (d + 1) <= n
    <3> DEFINE h == k + 1 + d
    <3>1. h \in 1..m /\ h + 1 \in 1..m /\ h + 1 > 1 /\ (h + 1) - 1 = h
          /\ k + 1 + (d + 1) = h + 1 /\ h <= n /\ k \in 1..m
      BY <1>0, <1>1, <2>1
    <3>2. From(k) + Size(k) <= From(h)
      BY <1>3, <3>1, Zenon
    <3> HIDE DEF h
    <3>3. From(h + 1) = From(h) + Size(h) /\ From(h) \in Nat /\ Size(h) \in Nat
      BY <1>1, <3>1, Zenon
    <3>4. From(k) \in Nat /\ Size(k) \in Nat
      BY <1>1, <3>1, Zenon
    <3>5. From(k) + Size(k) <= From(h + 1)
      BY <3>2, <3>3, <3>4
    <3>6. From(k + 1 + (d + 1)) = From(h + 1)
      BY <3>1, Zenon
    <3> QED BY <1>1, <3>5, <3>6
  <2> QED BY <1>1, <2>1
<1>4. \A d \in 0..m : d \in T
  <2> HIDE DEF T
  <2> QED BY <1>1, <1>2, <1>3, UpTo, Zenon
<1>5. n - k - 1 \in T
  <2>1. n - k - 1 \in 0..m
    BY <1>0, <1>1
  <2> HIDE DEF T
  <2> QED BY <1>4, <2>1
<1>6. k + 1 + (n - k - 1) = n
  BY <1>0, <1>1
<1>7. From(k) + Size(k) <= From(n)
  BY <1>0, <1>1, <1>5, <1>6
<1> QED BY <1>7, Zenon DEF From, Size

(* The part of a chunk that is read, when it has lines of the range. *)
LEMMA SliceUp ==
  ASSUME NEW st, StoreOK(st), NEW n \in 1..Len(st.chunks), NEW a \in Int, NEW b \in Int,
         a < b, ~Skipped(st, n, a, b)
  PROVE  Up(Slice(st.chunks[n], a, b), SliceOf(st, n, a, b))
<1> DEFINE f == st.chunks[n].start
           z == st.chunks[n].lines
           from == Greatest(0, a - f)
           to == Least(z, b - f)
           r == Slice(st.chunks[n], a, b)
<1>1. f \in Nat /\ z \in Nat
  BY ChunksAre
<1>2. f + z > a /\ f < b
  BY <1>1 DEF Skipped
<1>3. r = [i \in 1..(to - from) |-> f + from + i - 1]
  BY DEF Slice
<1>4. SliceOf(st, n, a, b) = {l \in Int : f <= l /\ l < f + z /\ a <= l /\ l < b}
  BY DEF SliceOf, LinesOf
<1> HIDE DEF f, z, r
<1>5. from \in Nat /\ to \in Nat /\ to - from \in Nat
  BY <1>1, <1>2 DEF Greatest, Least
<1>6. \A l \in Int : (f <= l /\ l < f + z /\ a <= l /\ l < b) <=> (f + from <= l /\ l < f + to)
  BY <1>1, <1>2 DEF Greatest, Least
<1> HIDE DEF from, to
<1>7. /\ r \in Seq(Int) /\ Len(r) = to - from
      /\ \A i \in 1..(to - from) : r[i] = f + from + i - 1
  BY <1>1, <1>3, <1>5
<1>8. \A i, j \in 1..(to - from) : i < j => r[i] < r[j]
  BY <1>1, <1>5, <1>7
<1>9. \A i \in 1..(to - from) : r[i] \in Int /\ f + from <= r[i] /\ r[i] < f + to
  BY <1>1, <1>5, <1>7
<1>10. ASSUME NEW l \in Int, f + from <= l, l < f + to
       PROVE  \E i \in 1..(to - from) : r[i] = l
  <2>1. l - (f + from) + 1 \in 1..(to - from)
    BY <1>1, <1>5, <1>10
  <2>2. r[l - (f + from) + 1] = l
    BY <1>1, <1>5, <1>7, <2>1
  <2> QED BY <2>1, <2>2
<1> DEFINE S == {l \in Int : f <= l /\ l < f + z /\ a <= l /\ l < b}
<1>11. (\A i \in 1..(to - from) : r[i] \in S) /\ \A l \in S : \E i \in 1..(to - from) : r[i] = l
  BY <1>6, <1>9, <1>10
<1> HIDE DEF S
<1>12. Up(r, S)
  BY <1>7, <1>8, <1>11 DEF Up
<1> QED BY <1>4, <1>12 DEF r, S

LEMMA ReadChunksSteps ==
  ASSUME NEW st, StoreOK(st), NEW a \in Int, NEW b \in Int
  PROVE  \E out \in [0..Len(st.chunks) -> Seq(Int)] :
           /\ out[0] = <<>> /\ ReadChunks(st, a, b) = out[Len(st.chunks)]
           /\ \A n \in 1..Len(st.chunks) :
                out[n] = IF Len(out[n - 1]) >= b - a \/ Skipped(st, n, a, b) THEN out[n - 1]
                         ELSE out[n - 1] \o Slice(st.chunks[n], a, b)
<1> DEFINE X == Seq(Int)
           m == Len(st.chunks)
           x0 == <<>>
           Body(n, x) == IF Len(x) >= b - a \/ Skipped(st, n, a, b) THEN x
                         ELSE x \o Slice(st.chunks[n], a, b)
           Prev(n) == n - 1
           Rec(f) == [n \in 0..m |-> IF n = 0 THEN x0 ELSE Body(n, f[Prev(n)])]
           g == CHOOSE f : f = Rec(f)
           step == [n \in 1..m |-> [x \in X |-> Body(n, x)]]
           prev == [n \in 1..m |-> Prev(n)]
<1>1. ReadChunks(st, a, b) = g[m]
  BY DEF ReadChunks
<1>2. m \in Nat /\ x0 \in X
  BY ChunksAre
<1>a. ASSUME NEW n \in 1..m, NEW x \in X PROVE Body(n, x) \in X
  <2>1. CASE Len(x) < b - a /\ ~Skipped(st, n, a, b)
    <3>1. a < b
      BY <2>1
    <3>2. Slice(st.chunks[n], a, b) \in Seq(Int)
      BY <2>1, <3>1, SliceUp DEF Up
    <3> QED BY <2>1, <3>2
  <2> QED BY <2>1
<1>b. ASSUME NEW n \in 1..m PROVE Prev(n) \in 0..m /\ Prev(n) < n
  BY <1>2
<1> HIDE DEF m, X, x0, Body, Prev
<1>3. /\ step \in [1..m -> [X -> X]] /\ prev \in [1..m -> Nat]
      /\ \A i \in 1..m : prev[i] < i /\ prev[i] = Prev(i)
      /\ \A i \in 1..m, x \in X : step[i][x] = Body(i, x)
  BY <1>2, <1>a, <1>b
<1> HIDE DEF step, prev
<1>4. PICK f \in [0..m -> X] : Follows(f, m, x0, step, prev)
  BY <1>2, <1>3, Recursion, Zenon
<1>5. f = Rec(f)
  <2>1. ASSUME NEW i \in 1..m PROVE f[i] = Body(i, f[Prev(i)])
    BY <1>b, <1>3, <1>4, ZenonT(30) DEF Follows
  <2> QED BY <1>2, <1>4, <2>1 DEF Follows
<1>6. g = Rec(g)
  <2> HIDE DEF Rec
  <2> QED BY <1>5
<1> HIDE DEF g
<1>7. g[0] = x0 /\ \A i \in 1..m : g[i] = Body(i, g[Prev(i)])
  <2>1. 0 \in 0..m /\ \A i \in 1..m : i \in 0..m /\ i # 0
    BY <1>2
  <2> QED BY <1>6, <2>1, Zenon
<1>8. \A i \in 0..m : g[i] \in X
  <2> DEFINE T == {k \in 0..m : g[k] \in X}
  <2>1. ASSUME NEW i \in 0..m, \A k \in 0..(i - 1) : k \in T PROVE i \in T
    <3>1. CASE i = 0
      BY <1>2, <1>7, <3>1, Zenon
    <3>2. CASE i \in 1..m
      <4>1. Prev(i) \in 0..(i - 1)
        BY <1>2, <1>b, <3>2
      <4>2. g[Prev(i)] \in X
        BY <2>1, <4>1
      <4> QED BY <1>7, <1>a, <3>2, <4>2, Zenon
    <3> QED BY <1>2, <3>1, <3>2
  <2>2. \A i \in 0..m : i \in T
    <3> HIDE DEF T
    <3> QED BY <1>2, <2>1, AllBelow, Zenon
  <2> QED BY <2>2, Zenon
<1>9. g \in [0..m -> X]
  BY <1>6, <1>8
<1> QED BY <1>1, <1>7, <1>9, Zenon DEF m, X, x0, Body, Prev

LEMMA ThereGrows ==
  ASSUME NEW st, StoreOK(st), NEW n \in 1..Len(st.chunks), NEW a \in Int, NEW b \in Int
  PROVE  There(st, n, a, b)
           = There(st, n - 1, a, b) \cup
             (IF n \in st.missing THEN {} ELSE SliceOf(st, n, a, b))
<1>1. \A k : k \in 1..n <=> (k \in 1..(n - 1) \/ k = n)
  BY ChunksAre
<1>2. ASSUME NEW l
      PROVE  l \in There(st, n, a, b)
               <=> \/ l \in There(st, n - 1, a, b)
                   \/ n \notin st.missing /\ l \in SliceOf(st, n, a, b)
  <2>1. (\E k \in 1..n : k \notin st.missing /\ l \in LinesOf(st, k))
          <=> \/ \E k \in 1..(n - 1) : k \notin st.missing /\ l \in LinesOf(st, k)
              \/ n \notin st.missing /\ l \in LinesOf(st, n)
    BY <1>1, Zenon
  <2>2. l \in LinesOf(st, n) => l \in Int
    BY Zenon DEF LinesOf
  <2> QED BY <2>1, <2>2, Zenon DEF There, SliceOf
<1> QED BY <1>2, Zenon

LEMMA ThereBelow ==
  ASSUME NEW st, StoreOK(st), NEW n \in 1..Len(st.chunks), NEW a \in Int, NEW b \in Int
  PROVE  \A x \in There(st, n - 1, a, b), y \in LinesOf(st, n) : x < y
<1> SUFFICES ASSUME NEW x \in There(st, n - 1, a, b), NEW y \in LinesOf(st, n)
             PROVE  x < y
  OBVIOUS
<1>1. PICK k \in 1..(n - 1) : x \in LinesOf(st, k)
  BY DEF There
<1>2. st.chunks[k].start + st.chunks[k].lines <= st.chunks[n].start
  BY ChunksFollow
<1>3. k \in 1..Len(st.chunks)
  BY ChunksAre
<1>4. /\ st.chunks[k].start \in Nat /\ st.chunks[k].lines \in Nat
      /\ st.chunks[n].start \in Nat
  BY <1>3, ChunksAre, Zenon
<1>5. /\ x \in Int /\ x < st.chunks[k].start + st.chunks[k].lines
      /\ y \in Int /\ st.chunks[n].start <= y
  BY <1>1 DEF LinesOf
<1> DEFINE p == st.chunks[k].start + st.chunks[k].lines
           q == st.chunks[n].start
<1>6. p \in Int /\ q \in Int /\ p <= q /\ x < p /\ q <= y
  <2>1. p \in Int /\ q \in Int
    BY <1>4
  <2> QED BY <1>2, <1>5, <2>1, Zenon
<1> HIDE DEF p, q
<1> QED BY <1>5, <1>6

LEMMA EmptyUp == Up(<<>>, {}) /\ Down(<<>>, {})
  BY DEF Up, Down

LEMMA ReadChunksUp ==
  ASSUME NEW st, StoreOK(st), NEW a \in Int, NEW b \in Int, a <= b
  PROVE  Up(ReadChunks(st, a, b), There(st, Len(st.chunks), a, b))
<1> DEFINE m == Len(st.chunks)
<1>1. PICK out \in [0..m -> Seq(Int)] :
        /\ out[0] = <<>> /\ ReadChunks(st, a, b) = out[m]
        /\ \A n \in 1..m :
             out[n] = IF Len(out[n - 1]) >= b - a \/ Skipped(st, n, a, b) THEN out[n - 1]
                      ELSE out[n - 1] \o Slice(st.chunks[n], a, b)
  BY ReadChunksSteps, Zenon
<1>0. m \in Nat
  BY ChunksAre
<1> DEFINE T == {n \in 0..m : Up(out[n], There(st, n, a, b))}
<1>2. 0 \in T
  <2>1. There(st, 0, a, b) = {}
    BY DEF There
  <2>2. Up(out[0], There(st, 0, a, b))
    BY <1>1, <2>1, EmptyUp, Zenon
  <2> QED BY <1>0, <2>2
<1>3. ASSUME NEW i \in 0..(m - 1), i \in T PROVE i + 1 \in T
  <2> DEFINE n == i + 1
  <2>0. n \in 1..m /\ n \in 0..m /\ n - 1 = i /\ i \in 0..m
    BY <1>0, <1>3
  <2> HIDE DEF m
  <2>1. Up(out[n - 1], There(st, n - 1, a, b))
    BY <1>3, <2>0
  <2> DEFINE P == There(st, n - 1, a, b)
             L == SliceOf(st, n, a, b)
  <2> HIDE DEF n
  <2>2. There(st, n, a, b) = P \cup (IF n \in st.missing THEN {} ELSE L)
    BY <2>0, ThereGrows, Zenon DEF m
  <2>3. CASE Len(out[n - 1]) >= b - a
    <3>1. \A x \in P : a <= x /\ x < b
      BY DEF There
    <3>2. out[n - 1] \in Seq(Int) /\ Len(out[n - 1]) \in Nat
      BY <2>0
    <3> HIDE DEF P
    <3>3. Len(out[n - 1]) <= b - a /\ (Len(out[n - 1]) = b - a =>
            \A x \in Int : a <= x /\ x < b => x \in P)
      BY <2>1, <3>1, UpSize, Zenon DEF P
    <3>4. \A x \in Int : a <= x /\ x < b => x \in P
      BY <2>3, <3>2, <3>3
    <3>5. \A l \in L : l \in P
      BY <3>4 DEF SliceOf, LinesOf
    <3>6. out[n] = out[n - 1]
      BY <1>1, <2>0, <2>3
    <3> HIDE DEF L
    <3>7. There(st, n, a, b) = P
      BY <2>2, <3>5, Zenon
    <3>8. Up(out[n], There(st, n, a, b))
      BY <2>1, <3>6, <3>7 DEF P
    <3> QED BY <2>0, <3>8 DEF n
  <2>4. CASE Len(out[n - 1]) < b - a /\ Skipped(st, n, a, b)
    <3>1. st.chunks[n].start \in Nat /\ st.chunks[n].lines \in Nat
      BY <2>0, ChunksAre DEF m
    <3>2. n \notin st.missing => L = {}
      BY <2>4, <3>1 DEF Skipped, SliceOf, LinesOf
    <3>6. out[n] = out[n - 1]
      BY <1>1, <2>0, <2>4
    <3> HIDE DEF L
    <3>7. There(st, n, a, b) = P
      BY <2>2, <3>2, Zenon
    <3>8. Up(out[n], There(st, n, a, b))
      BY <2>1, <3>6, <3>7 DEF P
    <3> QED BY <2>0, <3>8 DEF n
  <2>5. CASE Len(out[n - 1]) < b - a /\ ~Skipped(st, n, a, b)
    <3>1. out[n - 1] \in Seq(Int) /\ Len(out[n - 1]) \in Nat
      BY <2>0
    <3>2. a < b
      BY <2>5, <3>1
    <3>a. n \in 1..Len(st.chunks)
      BY <2>0 DEF m
    <3>3. Up(Slice(st.chunks[n], a, b), L)
      BY <2>5, <3>a, <3>2, SliceUp, Zenon
    <3>4. \A x \in P, y \in L : x < y
      BY <2>0, ThereBelow DEF m, SliceOf
    <3>b. ~(Len(out[n - 1]) >= b - a)
      BY <2>5, <3>1
    <3>5. out[n] = out[n - 1] \o Slice(st.chunks[n], a, b)
      BY <1>1, <2>0, <2>5, <3>b, Zenon
    <3>6. n \notin st.missing
      BY <2>5, Zenon DEF Skipped
    <3> HIDE DEF L, P
    <3>7. Up(out[n], P \cup L)
      BY <2>1, <3>3, <3>4, <3>5, UpConcat DEF P
    <3>8. Up(out[n], There(st, n, a, b))
      BY <2>2, <3>6, <3>7
    <3> QED BY <2>0, <3>8 DEF n
  <2>6. Len(out[n - 1]) \in Nat
    BY <2>0
  <2> QED BY <2>3, <2>4, <2>5, <2>6
<1>4. \A n \in 0..m : n \in T
  <2> HIDE DEF T, m
  <2> QED BY <1>0, <1>2, <1>3, UpTo, Zenon
<1>5. m \in T
  <2> HIDE DEF T, m
  <2> QED BY <1>0, <1>4
<1> QED BY <1>1, <1>5, Zenon

(* What is read is what is there, in order. *)
LEMMA ReadLineRangeUp ==
  ASSUME NEW st, StoreOK(st), NEW a \in Int, NEW b \in Int
  PROVE  Up(ReadLineRange(st, a, b), There(st, Len(st.chunks), a, b))
<1> DEFINE out == ReadChunks(st, a, b)
           W == There(st, Len(st.chunks), a, b)
<1>1. CASE b <= a
  <2>1. W = {}
    BY <1>1 DEF There
  <2>2. ReadLineRange(st, a, b) = <<>>
    BY <1>1 DEF ReadLineRange
  <2> QED BY <2>1, <2>2, EmptyUp
<1>2. CASE a < b
  <2>1. Up(out, W)
    BY <1>2, ReadChunksUp
  <2>2. \A x \in W : a <= x /\ x < b
    BY DEF There
  <2>0. ~(b <= a)
    BY <1>2
  <2>3. ReadLineRange(st, a, b) = SubSeq(out, 1, Least(b - a, Len(out)))
    BY <2>0, Zenon DEF ReadLineRange
  <2> HIDE DEF out, W
  <2>4. Len(out) <= b - a
    BY <1>2, <2>1, <2>2, UpSize
  <2>5. out \in Seq(Int) /\ Len(out) \in Nat
    BY <2>1 DEF Up
  <2>6. Least(b - a, Len(out)) = Len(out)
    BY <2>4, <2>5 DEF Least
  <2>7. SubSeq(out, 1, Len(out)) = out
    BY <2>5
  <2> QED BY <2>1, <2>3, <2>6, <2>7, Zenon DEF W
<1> QED BY <1>1, <1>2

LEMMA MergedIs ==
  ASSUME NEW st, StoreOK(st)
  PROVE  /\ MergedLines(st) \in Nat
         /\ Len(st.chunks) >= 1 => MergedLines(st) = st.chunks[Len(st.chunks)].start
                                                     + st.chunks[Len(st.chunks)].lines
         /\ Len(st.chunks) = 0 => MergedLines(st) = 0
<1>1. CASE Len(st.chunks) >= 1
  <2>1. Len(st.chunks) \in 1..Len(st.chunks) /\ Len(st.chunks) # 0
    BY <1>1, ChunksAre
  <2>2. st.chunks[Len(st.chunks)].start \in Nat /\ st.chunks[Len(st.chunks)].lines \in Nat
    BY <2>1, ChunksAre
  <2>3. MergedLines(st) = st.chunks[Len(st.chunks)].start + st.chunks[Len(st.chunks)].lines
    BY <2>1, Zenon DEF MergedLines
  <2> QED BY <1>1, <2>1, <2>2, <2>3
<1>2. CASE Len(st.chunks) = 0
  BY <1>2 DEF MergedLines
<1> QED BY <1>1, <1>2, ChunksAre

(* The lines from a to b - 1. *)
Span(a, b) == {l \in Int : a <= l /\ l < b}

(* When no file is missing, every merged line is there. *)
LEMMA ThereWhole ==
  ASSUME NEW st, StoreOK(st), Whole(st), NEW a \in Nat, NEW b \in Int, b <= MergedLines(st)
  PROVE  There(st, Len(st.chunks), a, b) = Span(a, b)
<1> DEFINE m == Len(st.chunks)
           From(k) == st.chunks[k].start
           Size(k) == st.chunks[k].lines
           Has(n, l) == \E k \in 1..n : l \in LinesOf(st, k)
           T == {n \in 0..m : \A l \in Nat : n >= 1 /\ l < From(n) + Size(n) => Has(n, l)}
<1>0. /\ m \in Nat /\ \A k \in 1..m : From(k) \in Nat /\ Size(k) \in Nat
      /\ \A k \in 1..m : k > 1 => From(k) = From(k - 1) + Size(k - 1)
      /\ 1 \in 1..m => From(1) = 0
  BY ChunksAre
<1>1. \A k \in 1..m, l \in Int : From(k) <= l /\ l < From(k) + Size(k) => l \in LinesOf(st, k)
  BY DEF LinesOf
<1> HIDE DEF m, From, Size
<1>2. 0 \in T
  BY <1>0
<1>3. ASSUME NEW i \in 0..(m - 1), i \in T PROVE i + 1 \in T
  <2> DEFINE n == i + 1
  <2>0. n \in 1..m /\ n - 1 = i
    BY <1>0
  <2>1. ASSUME NEW l \in Nat, l < From(n) + Size(n) PROVE Has(n, l)
    <3>1. CASE From(n) <= l
      <4>1. l \in LinesOf(st, n) /\ n \in 1..n
        BY <1>0, <1>1, <2>0, <2>1, <3>1
      <4> HIDE DEF n
      <4> QED BY <4>1
    <3>2. CASE l < From(n)
      <4>1. n > 1
        BY <1>0, <2>0, <3>2
      <4>2. From(n) = From(n - 1) + Size(n - 1)
        BY <1>0, <2>0, <4>1
      <4>3. i >= 1 /\ l < From(i) + Size(i)
        <5>1. From(n - 1) = From(i) /\ Size(n - 1) = Size(i)
          BY <2>0, Zenon
        <5> QED BY <2>0, <3>2, <4>1, <4>2, <5>1
      <4>4. Has(i, l)
        BY <1>3, <4>3
      <4>5. PICK k \in 1..i : l \in LinesOf(st, k)
        BY <4>4
      <4>6. k \in 1..n
        OBVIOUS
      <4> QED BY <4>5, <4>6
    <3>3. From(n) \in Nat
      BY <1>0, <2>0
    <3> QED BY <3>1, <3>2, <3>3
  <2> HIDE DEF Has
  <2> QED BY <1>0, <2>0, <2>1
<1>4. \A n \in 0..m : n \in T
  <2> HIDE DEF T
  <2> QED BY <1>0, <1>2, <1>3, UpTo
<1>5. ASSUME NEW l \in Int, a <= l, l < b PROVE Has(m, l)
  <2>1. l \in Nat /\ l < MergedLines(st) /\ MergedLines(st) \in Nat
    BY <1>5, MergedIs
  <2>2. m >= 1 /\ MergedLines(st) = From(m) + Size(m)
    BY <1>0, <2>1, MergedIs DEF m, From, Size
  <2>3. m \in T
    <3> HIDE DEF T
    <3> QED BY <1>0, <1>4
  <2> HIDE DEF Has
  <2> QED BY <2>1, <2>2, <2>3
<1>6. \A l \in Int : a <= l /\ l < b => \E k \in 1..Len(st.chunks) : k \notin st.missing /\ l \in LinesOf(st, k)
  BY <1>5 DEF Whole, m
<1> QED BY <1>6, Zenon DEF There, Span

LEMMA ThereSplit ==
  ASSUME NEW st, NEW n, NEW a \in Int, NEW b \in Int, NEW c \in Int, a <= c, c <= b
  PROVE  /\ There(st, n, a, b) = There(st, n, c, b) \cup There(st, n, a, c)
         /\ \A x \in There(st, n, c, b), y \in There(st, n, a, c) : x > y
<1> DEFINE Ok(l) == \E k \in 1..n : k \notin st.missing /\ l \in LinesOf(st, k)
<1>1. \A x, y : There(st, n, x, y) = {l \in Int : x <= l /\ l < y /\ Ok(l)}
  BY DEF There
<1> HIDE DEF Ok
<1>2. \A l \in Int : (a <= l /\ l < b) <=> ((c <= l /\ l < b) \/ (a <= l /\ l < c))
  OBVIOUS
<1>3. There(st, n, a, b) = There(st, n, c, b) \cup There(st, n, a, c)
  BY <1>1, <1>2, ZenonT(40)
<1>4. \A x \in There(st, n, c, b), y \in There(st, n, a, c) : x > y
  BY <1>1
<1> QED BY <1>3, <1>4

(* One window of a scan. *)
LEMMA WindowDown ==
  ASSUME NEW st, StoreOK(st), NEW tail \in Nat, NEW w \in Nat
  PROVE  Down(WindowAsc(st, tail, w), There(st, Len(st.chunks), Greatest(0, tail - w), tail))
<1>1. Greatest(0, tail - w) \in Int
  BY DEF Greatest
<1> QED BY <1>1, ReadLineRangeUp, ReversedUp DEF WindowAsc

LEMMA ScannedSteps ==
  ASSUME NEW st, StoreOK(st), NEW w \in Nat \ {0}
  PROVE  \E below \in [0..MergedLines(st) -> Seq(Int)] :
           /\ below[0] = <<>> /\ Scanned(st, w) = below[MergedLines(st)]
           /\ \A tail \in 1..MergedLines(st) :
                below[tail] = WindowAsc(st, tail, w) \o below[Greatest(0, tail - w)]
<1> DEFINE X == Seq(Int)
           m == MergedLines(st)
           x0 == <<>>
           Body(tail, x) == WindowAsc(st, tail, w) \o x
           Prev(tail) == Greatest(0, tail - w)
           Rec(f) == [tail \in 0..m |-> IF tail = 0 THEN x0 ELSE Body(tail, f[Prev(tail)])]
           g == CHOOSE f : f = Rec(f)
           step == [tail \in 1..m |-> [x \in X |-> Body(tail, x)]]
           prev == [tail \in 1..m |-> Prev(tail)]
<1>1. Scanned(st, w) = g[m]
  BY DEF Scanned
<1>2. m \in Nat /\ x0 \in X
  BY MergedIs
<1>a. ASSUME NEW tail \in 1..m, NEW x \in X PROVE Body(tail, x) \in X
  <2>1. WindowAsc(st, tail, w) \in Seq(Int)
    BY <1>2, WindowDown DEF Down
  <2> QED BY <2>1
<1>b. ASSUME NEW tail \in 1..m PROVE Prev(tail) \in 0..m /\ Prev(tail) < tail
  BY <1>2 DEF Greatest
<1> HIDE DEF m, X, x0, Body, Prev
<1>3. /\ step \in [1..m -> [X -> X]] /\ prev \in [1..m -> Nat]
      /\ \A i \in 1..m : prev[i] < i /\ prev[i] = Prev(i)
      /\ \A i \in 1..m, x \in X : step[i][x] = Body(i, x)
  BY <1>2, <1>a, <1>b
<1> HIDE DEF step, prev
<1>4. PICK f \in [0..m -> X] : Follows(f, m, x0, step, prev)
  BY <1>2, <1>3, Recursion, Zenon
<1>5. f = Rec(f)
  <2>1. ASSUME NEW i \in 1..m PROVE f[i] = Body(i, f[Prev(i)])
    BY <1>b, <1>3, <1>4 DEF Follows
  <2> QED BY <1>2, <1>4, <2>1 DEF Follows
<1>6. g = Rec(g)
  <2> HIDE DEF Rec
  <2> QED BY <1>5
<1> HIDE DEF g
<1>7. g[0] = x0 /\ \A i \in 1..m : g[i] = Body(i, g[Prev(i)])
  <2>1. 0 \in 0..m /\ \A i \in 1..m : i \in 0..m /\ i # 0
    BY <1>2
  <2> QED BY <1>6, <2>1, Zenon
<1>8. \A i \in 0..m : g[i] \in X
  <2> DEFINE T == {k \in 0..m : g[k] \in X}
  <2>1. ASSUME NEW i \in 0..m, \A k \in 0..(i - 1) : k \in T PROVE i \in T
    <3>1. CASE i = 0
      BY <1>2, <1>7, <3>1
    <3>2. CASE i \in 1..m
      <4>1. Prev(i) \in 0..(i - 1)
        BY <1>2, <1>b, <3>2
      <4>2. g[Prev(i)] \in X
        BY <2>1, <4>1
      <4> QED BY <1>7, <1>a, <3>2, <4>2
    <3> QED BY <1>2, <3>1, <3>2
  <2>2. \A i \in 0..m : i \in T
    <3> HIDE DEF T
    <3> QED BY <1>2, <2>1, AllBelow
  <2> QED BY <2>2
<1>9. g \in [0..m -> X]
  BY <1>6, <1>8
<1> QED BY <1>1, <1>7, <1>9, Zenon DEF m, X, x0, Body, Prev


(* A scan reads all that is there, oldest first, whatever its window. *)
LEMMA ScannedDown ==
  ASSUME NEW st, StoreOK(st), NEW w \in Nat \ {0}
  PROVE  Down(Scanned(st, w), There(st, Len(st.chunks), 0, MergedLines(st)))
<1> DEFINE m == MergedLines(st)
           All(tail) == There(st, Len(st.chunks), 0, tail)
<1>1. PICK below \in [0..m -> Seq(Int)] :
        /\ below[0] = <<>> /\ Scanned(st, w) = below[m]
        /\ \A tail \in 1..m : below[tail] = WindowAsc(st, tail, w) \o below[Greatest(0, tail - w)]
  BY ScannedSteps, Zenon
<1>0. m \in Nat
  BY MergedIs
<1> DEFINE T == {tail \in 0..m : Down(below[tail], All(tail))}
<1>a. All(0) = {}
  BY DEF There
<1> HIDE DEF m
<1>2. ASSUME NEW tail \in 0..m, \A k \in 0..(tail - 1) : k \in T PROVE tail \in T
  <2>1. CASE tail = 0
    <3>1. Down(below[tail], All(tail))
      BY <1>1, <1>a, <2>1, EmptyUp, Zenon
    <3> QED BY <3>1
  <2>2. CASE tail \in 1..m
    <3> DEFINE c == Greatest(0, tail - w)
               W == There(st, Len(st.chunks), c, tail)
    <3>1. c \in 0..(tail - 1) /\ c \in Int /\ 0 <= c /\ c <= tail /\ tail \in Nat /\ tail \in Int
      BY <1>0, <2>2 DEF Greatest
    <3>2. Down(WindowAsc(st, tail, w), W)
      BY <3>1, WindowDown
    <3>3. below[tail] = WindowAsc(st, tail, w) \o below[c]
      BY <1>1, <2>2, Zenon
    <3> HIDE DEF c
    <3>4. c \in T
      BY <1>2, <3>1, Zenon
    <3>5. Down(below[c], All(c))
      BY <3>4
    <3>6. All(tail) = W \cup All(c) /\ \A x \in W, y \in All(c) : x > y
      <4>1. 0 \in Int
        OBVIOUS
      <4> QED BY <3>1, <4>1, ThereSplit, Zenon
    <3> HIDE DEF W, All
    <3>7. Down(below[tail], All(tail))
      BY <3>2, <3>3, <3>5, <3>6, DownConcat
    <3> QED BY <3>7
  <2> QED BY <1>0, <2>1, <2>2
<1>3. \A tail \in 0..m : tail \in T
  <2> HIDE DEF T
  <2> QED BY <1>0, <1>2, AllBelow, Zenon
<1>4. m \in T
  <2> HIDE DEF T
  <2> QED BY <1>0, <1>3
<1>5. Down(below[m], All(m))
  BY <1>4
<1> QED BY <1>1, <1>5 DEF m

-----------------------------------------------------------------------------
(* Filtering keeps the order, and drops what does not match. *)

Kept(st, S) == {l \in S : Matches(st, l)}

LEMMA OneLine ==
  ASSUME NEW x \in Int
  PROVE  Up(<<x>>, {x}) /\ Down(<<x>>, {x}) /\ \A s \in Seq(Int) : Append(s, x) = s \o <<x>>
  BY DEF Up, Down

LEMMA FilteredUp ==
  ASSUME NEW st, NEW lines, NEW S, Up(lines, S)
  PROVE  Up(Filtered(st, lines), Kept(st, S))
<1> DEFINE m == Len(lines)
<1>0. /\ lines \in Seq(Int) /\ m \in Nat
      /\ \A i \in 1..m : lines[i] \in Int /\ lines[i] \in S
      /\ \A i, j \in 1..m : i < j => lines[i] < lines[j]
      /\ \A x \in S : \E i \in 1..m : lines[i] = x
  BY DEF Up
<1>1. PICK kept \in [0..m -> Seq(Int)] :
        /\ kept[0] = <<>> /\ Filtered(st, lines) = kept[m]
        /\ \A i \in 1..m : kept[i] = IF Matches(st, lines[i]) THEN Append(kept[i - 1], lines[i])
                                     ELSE kept[i - 1]
  <2>1. lines \in Seq(Int)
    BY <1>0, Zenon
  <2> QED BY <2>1, FilteredSteps, Zenon
<1> HIDE DEF m
<1> DEFINE Pre(i) == {x \in S : Matches(st, x) /\ \E j \in 1..i : lines[j] = x}
           T == {i \in 0..m : Up(kept[i], Pre(i))}
<1>2. 0 \in T
  <2>1. Pre(0) = {}
    OBVIOUS
  <2>2. Up(kept[0], Pre(0))
    BY <1>1, <2>1, EmptyUp, Zenon
  <2>3. 0 \in 0..m
    BY <1>0
  <2> HIDE DEF Pre
  <2> QED BY <2>2, <2>3
<1>3. ASSUME NEW i \in 0..(m - 1), i \in T PROVE i + 1 \in T
  <2> DEFINE n == i + 1
             x == lines[n]
  <2>0. n \in 1..m /\ n \in 0..m /\ n - 1 = i /\ i \in 0..m /\ \A j : j \in 1..n <=> (j \in 1..i \/ j = n)
    BY <1>0
  <2>1. Up(kept[i], Pre(i)) /\ kept[i] \in Seq(Int)
    BY <1>3, <2>0
  <2>2. x \in Int /\ x \in S
    BY <1>0, <2>0, Zenon
  <2>3. kept[n] = IF Matches(st, x) THEN Append(kept[i], x) ELSE kept[i]
    BY <1>1, <2>0, Zenon
  <2>4. \A y \in Pre(i) : y < x
    <3> SUFFICES ASSUME NEW j \in 1..i PROVE lines[j] < x
      BY Zenon
    <3>1. j \in 1..m /\ j < n
      BY <1>0, <2>0
    <3> QED BY <1>0, <2>0, <3>1
  <2> HIDE DEF n
  <2>5. \A y : (\E j \in 1..n : lines[j] = y) <=> (y = x \/ \E j \in 1..i : lines[j] = y)
    BY <2>0, Zenon
  <2>6. CASE Matches(st, x)
    <3>1. Pre(n) = Pre(i) \cup {x}
      BY <2>2, <2>5, <2>6, Zenon
    <3>2. Up(<<x>>, {x}) /\ kept[n] = kept[i] \o <<x>>
      BY <2>1, <2>2, <2>3, <2>6, OneLine, Zenon
    <3>3. \A y \in Pre(i), z \in {x} : y < z
      BY <2>4, Zenon
    <3> HIDE DEF Pre, x
    <3>4. Up(kept[n], Pre(n))
      BY <2>1, <3>1, <3>2, <3>3, UpConcat
    <3> QED BY <2>0, <3>4 DEF n
  <2>7. CASE ~Matches(st, x)
    <3>1. Pre(n) = Pre(i)
      BY <2>5, <2>7, Zenon
    <3>2. kept[n] = kept[i]
      BY <2>3, <2>7, Zenon
    <3> HIDE DEF Pre, x
    <3>3. Up(kept[n], Pre(n))
      BY <2>1, <3>1, <3>2, Zenon
    <3> QED BY <2>0, <3>3 DEF n
  <2> QED BY <2>6, <2>7
<1>4. \A i \in 0..m : i \in T
  <2> HIDE DEF T
  <2> QED BY <1>0, <1>2, <1>3, UpTo, Zenon
<1>5. m \in T
  <2> HIDE DEF T
  <2> QED BY <1>0, <1>4
<1>6. Pre(m) = Kept(st, S)
  BY <1>0, Zenon DEF Kept
<1> HIDE DEF Pre
<1>7. Up(kept[m], Pre(m))
  BY <1>5
<1> QED BY <1>1, <1>6, <1>7, Zenon

LEMMA FilteredDown ==
  ASSUME NEW st, NEW lines, NEW S, Down(lines, S)
  PROVE  Down(Filtered(st, lines), Kept(st, S))
<1> DEFINE m == Len(lines)
<1>0. /\ lines \in Seq(Int) /\ m \in Nat
      /\ \A i \in 1..m : lines[i] \in Int /\ lines[i] \in S
      /\ \A i, j \in 1..m : i < j => lines[i] > lines[j]
      /\ \A x \in S : \E i \in 1..m : lines[i] = x
  BY DEF Down
<1>1. PICK kept \in [0..m -> Seq(Int)] :
        /\ kept[0] = <<>> /\ Filtered(st, lines) = kept[m]
        /\ \A i \in 1..m : kept[i] = IF Matches(st, lines[i]) THEN Append(kept[i - 1], lines[i])
                                     ELSE kept[i - 1]
  <2>1. lines \in Seq(Int)
    BY <1>0, Zenon
  <2> QED BY <2>1, FilteredSteps, Zenon
<1> HIDE DEF m
<1> DEFINE Pre(i) == {x \in S : Matches(st, x) /\ \E j \in 1..i : lines[j] = x}
           T == {i \in 0..m : Down(kept[i], Pre(i))}
<1>2. 0 \in T
  <2>1. Pre(0) = {}
    OBVIOUS
  <2>2. Down(kept[0], Pre(0))
    BY <1>1, <2>1, EmptyUp, Zenon
  <2>3. 0 \in 0..m
    BY <1>0
  <2> HIDE DEF Pre
  <2> QED BY <2>2, <2>3
<1>3. ASSUME NEW i \in 0..(m - 1), i \in T PROVE i + 1 \in T
  <2> DEFINE n == i + 1
             x == lines[n]
  <2>0. n \in 1..m /\ n \in 0..m /\ n - 1 = i /\ i \in 0..m /\ \A j : j \in 1..n <=> (j \in 1..i \/ j = n)
    BY <1>0
  <2>1. Down(kept[i], Pre(i)) /\ kept[i] \in Seq(Int)
    BY <1>3, <2>0
  <2>2. x \in Int /\ x \in S
    BY <1>0, <2>0, Zenon
  <2>3. kept[n] = IF Matches(st, x) THEN Append(kept[i], x) ELSE kept[i]
    BY <1>1, <2>0, Zenon
  <2>4. \A y \in Pre(i) : y > x
    <3> SUFFICES ASSUME NEW j \in 1..i PROVE lines[j] > x
      BY Zenon
    <3>1. j \in 1..m /\ j < n
      BY <1>0, <2>0
    <3> QED BY <1>0, <2>0, <3>1
  <2> HIDE DEF n
  <2>5. \A y : (\E j \in 1..n : lines[j] = y) <=> (y = x \/ \E j \in 1..i : lines[j] = y)
    BY <2>0, Zenon
  <2>6. CASE Matches(st, x)
    <3>1. Pre(n) = Pre(i) \cup {x}
      BY <2>2, <2>5, <2>6, Zenon
    <3>2. Down(<<x>>, {x}) /\ kept[n] = kept[i] \o <<x>>
      BY <2>1, <2>2, <2>3, <2>6, OneLine, Zenon
    <3>3. \A y \in Pre(i), z \in {x} : y > z
      BY <2>4, Zenon
    <3> HIDE DEF Pre, x
    <3>4. Down(kept[n], Pre(n))
      BY <2>1, <3>1, <3>2, <3>3, DownConcat
    <3> QED BY <2>0, <3>4 DEF n
  <2>7. CASE ~Matches(st, x)
    <3>1. Pre(n) = Pre(i)
      BY <2>5, <2>7, Zenon
    <3>2. kept[n] = kept[i]
      BY <2>3, <2>7, Zenon
    <3> HIDE DEF Pre, x
    <3>3. Down(kept[n], Pre(n))
      BY <2>1, <3>1, <3>2, Zenon
    <3> QED BY <2>0, <3>3 DEF n
  <2> QED BY <2>6, <2>7
<1>4. \A i \in 0..m : i \in T
  <2> HIDE DEF T
  <2> QED BY <1>0, <1>2, <1>3, UpTo, Zenon
<1>5. m \in T
  <2> HIDE DEF T
  <2> QED BY <1>0, <1>4
<1>6. Pre(m) = Kept(st, S)
  BY <1>0, Zenon DEF Kept
<1> HIDE DEF Pre
<1>7. Down(kept[m], Pre(m))
  BY <1>5
<1> QED BY <1>1, <1>6, <1>7, Zenon

LEMMA CountSteps ==
  ASSUME NEW st, StoreOK(st)
  PROVE  \E count \in [0..MergedLines(st) -> Nat] :
           /\ count[0] = 0 /\ CountMatches(st) = count[MergedLines(st)]
           /\ \A left \in 1..MergedLines(st) :
                LET from == MergedLines(st) - left
                    to == Least(MergedLines(st), from + CountWindow)
                IN  count[left] = Len(Filtered(st, ReadLineRange(st, from, to)))
                                  + count[MergedLines(st) - to]
<1> DEFINE X == Nat
           m == MergedLines(st)
           x0 == 0
           Body(left, x) == Len(Filtered(st, ReadLineRange(st, m - left,
                                                     Least(m, m - left + CountWindow)))) + x
           Prev(left) == m - Least(m, m - left + CountWindow)
           Rec(f) == [left \in 0..m |-> IF left = 0 THEN x0 ELSE Body(left, f[Prev(left)])]
           g == CHOOSE f : f = Rec(f)
           step == [left \in 1..m |-> [x \in X |-> Body(left, x)]]
           prev == [left \in 1..m |-> Prev(left)]
<1>1. CountMatches(st) = g[m]
  BY DEF CountMatches
<1>2. m \in Nat /\ x0 \in X
  BY MergedIs
<1>a. ASSUME NEW left \in 1..m, NEW x \in X PROVE Body(left, x) \in X
  <2>1. m - left \in Int /\ Least(m, m - left + CountWindow) \in Int
    BY <1>2, PagingAssumption DEF Least
  <2> HIDE DEF m
  <2>2. Up(Filtered(st, ReadLineRange(st, m - left, Least(m, m - left + CountWindow))),
           Kept(st, There(st, Len(st.chunks), m - left, Least(m, m - left + CountWindow))))
    BY <2>1, ReadLineRangeUp, FilteredUp
  <2>3. Filtered(st, ReadLineRange(st, m - left, Least(m, m - left + CountWindow))) \in Seq(Int)
    BY <2>2 DEF Up
  <2> QED BY <2>3
<1>b. ASSUME NEW left \in 1..m PROVE Prev(left) \in 0..m /\ Prev(left) < left
  BY <1>2, PagingAssumption DEF Least
<1> HIDE DEF m, X, x0, Body, Prev
<1>3. /\ step \in [1..m -> [X -> X]] /\ prev \in [1..m -> Nat]
      /\ \A i \in 1..m : prev[i] < i /\ prev[i] = Prev(i)
      /\ \A i \in 1..m, x \in X : step[i][x] = Body(i, x)
  BY <1>2, <1>a, <1>b
<1> HIDE DEF step, prev
<1>4. PICK f \in [0..m -> X] : Follows(f, m, x0, step, prev)
  BY <1>2, <1>3, Recursion, Zenon
<1>5. f = Rec(f)
  <2>1. ASSUME NEW i \in 1..m PROVE f[i] = Body(i, f[Prev(i)])
    BY <1>b, <1>3, <1>4 DEF Follows
  <2> QED BY <1>2, <1>4, <2>1 DEF Follows
<1>6. g = Rec(g)
  <2> HIDE DEF Rec
  <2> QED BY <1>5
<1> HIDE DEF g
<1>7. g[0] = x0 /\ \A i \in 1..m : g[i] = Body(i, g[Prev(i)])
  <2>1. 0 \in 0..m /\ \A i \in 1..m : i \in 0..m /\ i # 0
    BY <1>2
  <2> QED BY <1>6, <2>1, Zenon
<1>8. \A i \in 0..m : g[i] \in X
  <2> DEFINE T == {k \in 0..m : g[k] \in X}
  <2>1. ASSUME NEW i \in 0..m, \A k \in 0..(i - 1) : k \in T PROVE i \in T
    <3>1. CASE i = 0
      BY <1>2, <1>7, <3>1
    <3>2. CASE i \in 1..m
      <4>1. Prev(i) \in 0..(i - 1)
        BY <1>2, <1>b, <3>2
      <4>2. g[Prev(i)] \in X
        BY <2>1, <4>1
      <4> QED BY <1>7, <1>a, <3>2, <4>2
    <3> QED BY <1>2, <3>1, <3>2
  <2>2. \A i \in 0..m : i \in T
    <3> HIDE DEF T
    <3> QED BY <1>2, <2>1, AllBelow, Zenon
  <2> QED BY <2>2
<1>9. g \in [0..m -> X]
  BY <1>6, <1>8
<1> QED BY <1>1, <1>7, <1>9, Zenon DEF m, X, x0, Body, Prev

(* The count from the newest line on and the scan from the oldest line on  *)
(* find as many lines.                                                     *)
LEMMA CountIs ==
  ASSUME NEW st, StoreOK(st), NEW w \in Nat \ {0}
  PROVE  CountMatches(st) = Len(Filtered(st, Scanned(st, w)))
<1> DEFINE m == MergedLines(st)
           n == Len(st.chunks)
           In(a, b) == Kept(st, There(st, n, a, b))
<1>1. PICK count \in [0..m -> Nat] :
        /\ count[0] = 0 /\ CountMatches(st) = count[m]
        /\ \A left \in 1..m :
             LET from == m - left
                 to == Least(m, from + CountWindow)
             IN  count[left] = Len(Filtered(st, ReadLineRange(st, from, to))) + count[m - to]
  BY CountSteps, Zenon
<1>0. m \in Nat
  BY MergedIs
<1>2. \A a, b \in Int : Up(Filtered(st, ReadLineRange(st, a, b)), In(a, b))
  BY ReadLineRangeUp, FilteredUp
<1>3. ASSUME NEW a \in Int, NEW b \in Int, NEW c \in Int, a <= c, c <= b
      PROVE  In(a, b) = In(a, c) \cup In(c, b) /\ \A x \in In(a, c), y \in In(c, b) : x < y
  <2>1. /\ There(st, n, a, b) = There(st, n, c, b) \cup There(st, n, a, c)
        /\ \A x \in There(st, n, c, b), y \in There(st, n, a, c) : x > y
    BY <1>3, ThereSplit, Zenon
  <2>2. In(a, b) = In(a, c) \cup In(c, b)
    BY <2>1, Zenon DEF Kept
  <2>3. \A x \in There(st, n, a, c), y \in There(st, n, c, b) : x < y
    <3>1. \A x \in There(st, n, a, c) : x \in Int
      BY DEF There
    <3>2. \A x \in There(st, n, c, b) : x \in Int
      BY DEF There
    <3> QED BY <2>1, <3>1, <3>2
  <2> QED BY <2>2, <2>3 DEF Kept
<1>4. In(m, m) = {}
  BY <1>0 DEF Kept, There
<1>5. Down(Filtered(st, Scanned(st, w)), In(0, m))
  BY ScannedDown, FilteredDown
<1> HIDE DEF m, In
<1> DEFINE Ok(left) == \E c : Up(c, In(m - left, m)) /\ Len(c) = count[left]
           T == {left \in 0..m : Ok(left)}
<1>6. ASSUME NEW left \in 0..m, \A k \in 0..(left - 1) : k \in T PROVE left \in T
  <2>1. CASE left = 0
    <3>1. m - left = m
      BY <1>0, <2>1
    <3>2. Up(<<>>, In(m - left, m)) /\ Len(<<>>) = count[left]
      BY <1>1, <1>4, <2>1, <3>1, EmptyUp, Zenon
    <3> QED BY <3>2
  <2>2. CASE left \in 1..m
    <3> DEFINE from == m - left
               to == Least(m, from + CountWindow)
               f == Filtered(st, ReadLineRange(st, from, to))
    <3>1. /\ from \in Int /\ to \in Int /\ from <= to /\ to <= m /\ m \in Int
          /\ m - to \in 0..(left - 1) /\ m - (m - to) = to
      BY <1>0, <2>2, PagingAssumption DEF Least
    <3>2. count[left] = Len(f) + count[m - to]
      BY <1>1, <2>2
    <3> HIDE DEF to
    <3>3. m - to \in T
      BY <1>6, <3>1, Zenon
    <3>4. PICK c : Up(c, In(m - (m - to), m)) /\ Len(c) = count[m - to]
      BY <3>3
    <3>5. Up(f, In(from, to))
      BY <1>2, <3>1, Zenon
    <3>6. In(from, m) = In(from, to) \cup In(to, m) /\ \A x \in In(from, to), y \in In(to, m) : x < y
      BY <1>3, <3>1, Zenon
    <3> HIDE DEF f, from
    <3>7. Up(c, In(to, m))
      BY <3>1, <3>4, Zenon
    <3>8. Up(f \o c, In(from, m))
      BY <3>5, <3>6, <3>7, UpConcat
    <3>9. f \in Seq(Int) /\ c \in Seq(Int)
      BY <3>5, <3>7 DEF Up
    <3>10. Len(f \o c) = count[left]
      <4>1. Len(f \o c) = Len(f) + Len(c)
        BY <3>9
      <4> QED BY <3>2, <3>4, <4>1
    <3>11. Up(f \o c, In(m - left, m))
      BY <3>8 DEF from
    <3> QED BY <3>10, <3>11, Zenon
  <2> QED BY <1>0, <2>1, <2>2
<1>7. \A left \in 0..m : left \in T
  <2> HIDE DEF T
  <2> QED BY <1>0, <1>6, AllBelow, Zenon
<1>8. PICK c : Up(c, In(m - m, m)) /\ Len(c) = count[m]
  <2>1. m \in T
    <3> HIDE DEF T
    <3> QED BY <1>0, <1>7
  <2> QED BY <2>1
<1>9. m - m = 0
  BY <1>0
<1>10. Up(c, In(0, m))
  BY <1>8, <1>9, Zenon
<1>11. Down(Reversed(c), In(0, m))
  BY <1>10, ReversedUp
<1>12. Reversed(c) = Filtered(st, Scanned(st, w))
  BY <1>5, <1>11, DownUnique
<1>13. Len(Reversed(c)) = Len(c)
  BY <1>10, ReversedIs DEF Up
<1> QED BY <1>1, <1>8, <1>12, <1>13

-----------------------------------------------------------------------------
(* The loop that takes the rows startIdx.. of the lines that match. *)

KeepAcc == [v : Nat, out : Seq(Int)]

(* acc is the run of the loop of KeepRange. *)
KeepRun(acc, st, lines, s, want) ==
  /\ acc[0] = [v |-> 0, out |-> <<>>]
  /\ KeepRange(st, lines, s, want) = acc[Len(lines)].out
  /\ \A i \in 1..Len(lines) :
       acc[i] = IF Len(acc[i - 1].out) >= want \/ ~Matches(st, lines[i]) THEN acc[i - 1]
                ELSE [v |-> acc[i - 1].v + 1,
                      out |-> IF acc[i - 1].v + 1 < s THEN acc[i - 1].out
                              ELSE Append(acc[i - 1].out, lines[i])]

LEMMA KeepSteps ==
  ASSUME NEW st, NEW lines \in Seq(Int), NEW s \in Int, NEW want \in Int
  PROVE  \E acc \in [0..Len(lines) -> KeepAcc] : KeepRun(acc, st, lines, s, want)
<1> DEFINE X == KeepAcc
           m == Len(lines)
           x0 == [v |-> 0, out |-> <<>>]
           Body(i, x) == IF Len(x.out) >= want \/ ~Matches(st, lines[i]) THEN x
                         ELSE [v |-> x.v + 1,
                               out |-> IF x.v + 1 < s THEN x.out ELSE Append(x.out, lines[i])]
           Prev(i) == i - 1
           Rec(f) == [i \in 0..m |-> IF i = 0 THEN x0 ELSE Body(i, f[Prev(i)])]
           g == CHOOSE f : f = Rec(f)
           step == [i \in 1..m |-> [x \in X |-> Body(i, x)]]
           prev == [i \in 1..m |-> Prev(i)]
<1>1. KeepRange(st, lines, s, want) = g[m].out
  BY DEF KeepRange
<1>2. m \in Nat /\ x0 \in X
  BY DEF KeepAcc
<1>a. ASSUME NEW i \in 1..m, NEW x \in X PROVE Body(i, x) \in X
  <2>1. x.v + 1 \in Nat /\ x.out \in Seq(Int) /\ lines[i] \in Int
    BY <1>2 DEF KeepAcc
  <2>2. (IF x.v + 1 < s THEN x.out ELSE Append(x.out, lines[i])) \in Seq(Int)
    BY <2>1
  <2> QED BY <2>1, <2>2 DEF KeepAcc
<1>b. ASSUME NEW i \in 1..m PROVE Prev(i) \in 0..m /\ Prev(i) < i
  BY <1>2
<1> HIDE DEF m, X, x0, Body, Prev
<1>3. /\ step \in [1..m -> [X -> X]] /\ prev \in [1..m -> Nat]
      /\ \A i \in 1..m : prev[i] < i /\ prev[i] = Prev(i)
      /\ \A i \in 1..m, x \in X : step[i][x] = Body(i, x)
  BY <1>2, <1>a, <1>b
<1> HIDE DEF step, prev
<1>4. PICK f \in [0..m -> X] : Follows(f, m, x0, step, prev)
  BY <1>2, <1>3, Recursion, Zenon
<1>5. f = Rec(f)
  <2>1. ASSUME NEW i \in 1..m PROVE f[i] = Body(i, f[Prev(i)])
    BY <1>b, <1>3, <1>4 DEF Follows
  <2> QED BY <1>2, <1>4, <2>1 DEF Follows
<1>6. g = Rec(g)
  <2> HIDE DEF Rec
  <2> QED BY <1>5
<1> HIDE DEF g
<1>7. g[0] = x0 /\ \A i \in 1..m : g[i] = Body(i, g[Prev(i)])
  <2>1. 0 \in 0..m /\ \A i \in 1..m : i \in 0..m /\ i # 0
    BY <1>2
  <2> QED BY <1>6, <2>1, Zenon
<1>8. \A i \in 0..m : g[i] \in X
  <2> DEFINE T == {k \in 0..m : g[k] \in X}
  <2>1. ASSUME NEW i \in 0..m, \A k \in 0..(i - 1) : k \in T PROVE i \in T
    <3>1. CASE i = 0
      BY <1>2, <1>7, <3>1
    <3>2. CASE i \in 1..m
      <4>1. Prev(i) \in 0..(i - 1)
        BY <1>2, <1>b, <3>2
      <4>2. g[Prev(i)] \in X
        BY <2>1, <4>1, Zenon
      <4> QED BY <1>7, <1>a, <3>2, <4>2
    <3> QED BY <1>2, <3>1, <3>2
  <2>2. \A i \in 0..m : i \in T
    <3> HIDE DEF T
    <3> QED BY <1>2, <2>1, AllBelow, Zenon
  <2> QED BY <2>2
<1>9. g \in [0..m -> X]
  BY <1>6, <1>8
<1>c. KeepRun(g, st, lines, s, want)
  BY <1>1, <1>7 DEF m, x0, Body, Prev, KeepRun
<1> QED BY <1>9, <1>c DEF m, X


(* The rows s..s + want - 1 of k, as far as it has them; v of its lines    *)
(* are counted.                                                            *)
Taken(out, k, s, want) ==
  /\ Len(out) = Greatest(0, Least(s + want - 1, Len(k)) - s + 1)
  /\ \A j \in 1..Len(out) : out[j] = k[s + j - 1]

Keeps(v, out, k, s, want) == Taken(out, k, s, want) /\ (Len(out) < want => v = Len(k))

LEMMA AppendIs ==
  ASSUME NEW k \in Seq(Int), NEW x \in Int
  PROVE  /\ Append(k, x) \in Seq(Int) /\ Len(Append(k, x)) = Len(k) + 1 /\ Len(k) \in Nat
         /\ Append(k, x)[Len(k) + 1] = x
         /\ \A i \in 1..Len(k) : Append(k, x)[i] = k[i]
  OBVIOUS

LEMMA KeepsFull ==
  ASSUME NEW v, NEW out \in Seq(Int), NEW k \in Seq(Int), NEW x \in Int,
         NEW s \in Nat \ {0}, NEW want \in Nat \ {0}, Keeps(v, out, k, s, want),
         Len(out) >= want
  PROVE  Keeps(v, out, Append(k, x), s, want)
<1> DEFINE n == Len(k)
           z == Len(out)
           b == Append(k, x)
<1>1. /\ n \in Nat /\ z \in Nat /\ Len(b) = n + 1 /\ \A i \in 1..n : b[i] = k[i]
  BY AppendIs, Zenon
<1>2. /\ z = Greatest(0, Least(s + want - 1, n) - s + 1)
      /\ \A j \in 1..z : out[j] = k[s + j - 1]
      /\ z >= want
  BY Zenon DEF Keeps, Taken
<1> HIDE DEF n, z, b
<1>3. z = want /\ n >= s + want - 1 /\ z = Greatest(0, Least(s + want - 1, n + 1) - s + 1)
  BY <1>1, <1>2 DEF Greatest, Least
<1>4. ASSUME NEW j \in 1..z PROVE out[j] = b[s + j - 1]
  <2>1. s + j - 1 \in 1..n
    BY <1>1, <1>3
  <2> QED BY <1>1, <1>2, <2>1, Zenon
<1> QED BY <1>1, <1>3, <1>4 DEF Keeps, Taken, n, z, b

LEMMA KeepsMore ==
  ASSUME NEW v \in Nat, NEW out \in Seq(Int), NEW k \in Seq(Int), NEW x \in Int,
         NEW s \in Nat \ {0}, NEW want \in Nat \ {0}, Keeps(v, out, k, s, want),
         ~(Len(out) >= want)
  PROVE  Keeps(v + 1, IF v + 1 < s THEN out ELSE Append(out, x), Append(k, x), s, want)
<1> DEFINE n == Len(k)
           z == Len(out)
           b == Append(k, x)
<1>1. /\ n \in Nat /\ z \in Nat /\ Len(b) = n + 1 /\ b[n + 1] = x /\ \A i \in 1..n : b[i] = k[i]
  BY AppendIs
<1>2. /\ z = Greatest(0, Least(s + want - 1, n) - s + 1)
      /\ \A j \in 1..z : out[j] = k[s + j - 1]
      /\ z < want
  BY <1>1 DEF Keeps, Taken
<1>3. v = n
  BY <1>2, Zenon DEF Keeps
<1>4. CASE v + 1 < s
  <2> HIDE DEF n, z, b
  <2>1. z = 0 /\ 0 = Greatest(0, Least(s + want - 1, n + 1) - s + 1)
    BY <1>1, <1>2, <1>3, <1>4 DEF Greatest, Least
  <2>2. \A j \in 1..z : out[j] = b[s + j - 1]
    BY <2>1
  <2>3. Keeps(v + 1, out, b, s, want)
    BY <1>1, <1>3, <2>1, <2>2, Zenon DEF Keeps, Taken, z
  <2> QED BY <1>4, <2>3, Zenon DEF b
<1>5. CASE ~(v + 1 < s)
  <2> DEFINE o == Append(out, x)
  <2>1. Len(o) = z + 1 /\ o[z + 1] = x /\ \A i \in 1..z : o[i] = out[i]
    BY AppendIs, Zenon
  <2> HIDE DEF n, z, b, o
  <2>2. z = n - s + 1 /\ z + 1 = Greatest(0, Least(s + want - 1, n + 1) - s + 1)
    BY <1>1, <1>2, <1>3, <1>5 DEF Greatest, Least
  <2>3. ASSUME NEW j \in 1..(z + 1) PROVE o[j] = b[s + j - 1]
    <3>1. CASE j = z + 1
      <4>1. s + j - 1 = n + 1
        BY <1>1, <2>2, <3>1
      <4> QED BY <1>1, <2>1, <3>1, <4>1, Zenon
    <3>2. CASE j \in 1..z
      <4>1. s + j - 1 \in 1..n
        BY <1>1, <2>2, <3>2
      <4> QED BY <1>1, <1>2, <2>1, <3>2, <4>1, Zenon
    <3> QED BY <1>1, <3>1, <3>2
  <2>4. Keeps(v + 1, o, b, s, want)
    BY <1>1, <1>3, <2>1, <2>2, <2>3, Zenon DEF Keeps, Taken
  <2> QED BY <1>5, <2>4, Zenon DEF b, o
<1> QED BY <1>4, <1>5, Zenon

(* readRangeFiltered returns the rows of the filtered view. *)
LEMMA KeepRangeIs ==
  ASSUME NEW st, NEW lines \in Seq(Int), NEW s \in Nat \ {0}, NEW want \in Nat \ {0}
  PROVE  /\ KeepRange(st, lines, s, want) \in Seq(Int)
         /\ Taken(KeepRange(st, lines, s, want), Filtered(st, lines), s, want)
<1> DEFINE m == Len(lines)
<1>0. m \in Nat /\ (\A i \in 1..m : lines[i] \in Int) /\ s \in Int /\ want \in Int
  OBVIOUS
<1>1. PICK kept \in [0..m -> Seq(Int)] :
        /\ kept[0] = <<>> /\ Filtered(st, lines) = kept[m]
        /\ \A i \in 1..m : kept[i] = IF Matches(st, lines[i]) THEN Append(kept[i - 1], lines[i])
                                     ELSE kept[i - 1]
  BY FilteredSteps
<1>a. PICK acc \in [0..m -> KeepAcc] : KeepRun(acc, st, lines, s, want)
  BY <1>0, KeepSteps, Zenon
<1>2. /\ acc[0] = [v |-> 0, out |-> <<>>]
      /\ KeepRange(st, lines, s, want) = acc[m].out
      /\ \A i \in 1..m :
           acc[i] = IF Len(acc[i - 1].out) >= want \/ ~Matches(st, lines[i]) THEN acc[i - 1]
                    ELSE [v |-> acc[i - 1].v + 1,
                          out |-> IF acc[i - 1].v + 1 < s THEN acc[i - 1].out
                                  ELSE Append(acc[i - 1].out, lines[i])]
  BY <1>a, Zenon DEF KeepRun
<1> HIDE DEF m
<1> DEFINE Ok(i) == Keeps(acc[i].v, acc[i].out, kept[i], s, want)
           T == {i \in 0..m : Ok(i)}
<1>3. 0 \in T
  <2>1. acc[0].v = 0 /\ acc[0].out = <<>>
    BY <1>2
  <2>2. Keeps(0, <<>>, <<>>, s, want)
    BY DEF Keeps, Taken, Greatest, Least
  <2> QED BY <1>0, <1>1, <2>1, <2>2
<1>4. ASSUME NEW i \in 0..(m - 1), i \in T PROVE i + 1 \in T
  <2> DEFINE n == i + 1
             x == lines[n]
             a == acc[i]
  <2>0. n \in 1..m /\ n \in 0..m /\ n - 1 = i /\ i \in 0..m
    BY <1>0
  <2>1. /\ Keeps(a.v, a.out, kept[i], s, want) /\ a \in KeepAcc /\ kept[i] \in Seq(Int) /\ x \in Int
    BY <1>0, <1>4, <2>0, Zenon
  <2>2. a.v \in Nat /\ a.out \in Seq(Int)
    BY <2>1 DEF KeepAcc
  <2>3. kept[n] = IF Matches(st, x) THEN Append(kept[i], x) ELSE kept[i]
    BY <1>1, <2>0, Zenon
  <2>4. acc[n] = IF Len(a.out) >= want \/ ~Matches(st, x) THEN a
                 ELSE [v |-> a.v + 1, out |-> IF a.v + 1 < s THEN a.out ELSE Append(a.out, x)]
    BY <1>2, <2>0, Zenon
  <2> HIDE DEF n, x, a
  <2>5. Ok(n)
    <3>1. CASE ~Matches(st, x)
      BY <2>1, <2>3, <2>4, <3>1, Zenon
    <3>2. CASE Matches(st, x) /\ Len(a.out) >= want
      BY <2>1, <2>2, <2>3, <2>4, <3>2, KeepsFull, ZenonT(40)
    <3>3. CASE Matches(st, x) /\ ~(Len(a.out) >= want)
      <4>0. acc[n] = [v |-> a.v + 1, out |-> IF a.v + 1 < s THEN a.out ELSE Append(a.out, x)]
        BY <2>4, <3>3, Zenon
      <4>1. acc[n].v = a.v + 1 /\ acc[n].out = IF a.v + 1 < s THEN a.out ELSE Append(a.out, x)
        BY <4>0
      <4>2. kept[n] = Append(kept[i], x)
        BY <2>3, <3>3, Zenon
      <4>3. Keeps(a.v + 1, IF a.v + 1 < s THEN a.out ELSE Append(a.out, x), Append(kept[i], x), s, want)
        BY <2>1, <2>2, <3>3, KeepsMore, Zenon
      <4> QED BY <4>1, <4>2, <4>3, Zenon
    <3> QED BY <3>1, <3>2, <3>3, Zenon
  <2> HIDE DEF Ok
  <2> QED BY <2>0, <2>5 DEF n
<1>5. \A i \in 0..m : i \in T
  <2> HIDE DEF T
  <2> QED BY <1>0, <1>3, <1>4, UpTo, Zenon
<1>6. Ok(m) /\ acc[m] \in KeepAcc
  BY <1>0, <1>5
<1> QED BY <1>1, <1>2, <1>6 DEF KeepAcc, Keeps

-----------------------------------------------------------------------------
(* The loop of searchAll. *)

Hit == [idx : Nat, line : Int]
HitAcc == [v : Nat, hits : Seq(Hit)]

Within(range, i) == i >= Greatest(1, range[1]) /\ i <= Greatest(1, range[2])

(* acc is the run of the loop of Hits. *)
HitRun(acc, st, lines, term, range, top) ==
  /\ acc[0] = [v |-> 0, hits |-> <<>>]
  /\ Hits(st, lines, term, range, top) = acc[Len(lines)].hits
  /\ \A i \in 1..Len(lines) :
       acc[i] = IF (top > 0 /\ Len(acc[i - 1].hits) >= top) \/ ~Matches(st, lines[i]) THEN acc[i - 1]
                ELSE [v |-> acc[i - 1].v + 1,
                      hits |-> IF Within(range, acc[i - 1].v + 1) /\ lines[i] \in term
                               THEN Append(acc[i - 1].hits, [idx |-> acc[i - 1].v + 1, line |-> lines[i]])
                               ELSE acc[i - 1].hits]

LEMMA HitSteps ==
  ASSUME NEW st, NEW lines \in Seq(Int), NEW term, NEW range, NEW top \in Nat
  PROVE  \E acc \in [0..Len(lines) -> HitAcc] : HitRun(acc, st, lines, term, range, top)
<1> DEFINE X == HitAcc
           m == Len(lines)
           x0 == [v |-> 0, hits |-> <<>>]
           Body(i, x) == IF (top > 0 /\ Len(x.hits) >= top) \/ ~Matches(st, lines[i]) THEN x
                         ELSE [v |-> x.v + 1,
                               hits |-> IF Within(range, x.v + 1) /\ lines[i] \in term
                                        THEN Append(x.hits, [idx |-> x.v + 1, line |-> lines[i]])
                                        ELSE x.hits]
           Prev(i) == i - 1
           Rec(f) == [i \in 0..m |-> IF i = 0 THEN x0 ELSE Body(i, f[Prev(i)])]
           g == CHOOSE f : f = Rec(f)
           step == [i \in 1..m |-> [x \in X |-> Body(i, x)]]
           prev == [i \in 1..m |-> Prev(i)]
<1>1. Hits(st, lines, term, range, top) = g[m].hits
  BY DEF Hits, Within
<1>2. m \in Nat /\ x0 \in X
  BY DEF HitAcc
<1>a. ASSUME NEW i \in 1..m, NEW x \in X PROVE Body(i, x) \in X
  <2> DEFINE h == [idx |-> x.v + 1, line |-> lines[i]]
  <2>1. x.v + 1 \in Nat /\ x.hits \in Seq(Hit) /\ lines[i] \in Int
    BY <1>2 DEF HitAcc
  <2>2. h \in Hit
    BY <2>1 DEF Hit
  <2> HIDE DEF h
  <2>3. Append(x.hits, h) \in Seq(Hit)
    BY <2>1, <2>2
  <2>4. (IF Within(range, x.v + 1) /\ lines[i] \in term THEN Append(x.hits, h) ELSE x.hits) \in Seq(Hit)
    BY <2>1, <2>3, Zenon
  <2> QED BY <2>1, <2>4, Zenon DEF HitAcc, h
<1>b. ASSUME NEW i \in 1..m PROVE Prev(i) \in 0..m /\ Prev(i) < i
  BY <1>2
<1> HIDE DEF m, X, x0, Body, Prev
<1>3. /\ step \in [1..m -> [X -> X]] /\ prev \in [1..m -> Nat]
      /\ \A i \in 1..m : prev[i] < i /\ prev[i] = Prev(i)
      /\ \A i \in 1..m, x \in X : step[i][x] = Body(i, x)
  BY <1>2, <1>a, <1>b
<1> HIDE DEF step, prev
<1>4. PICK f \in [0..m -> X] : Follows(f, m, x0, step, prev)
  BY <1>2, <1>3, Recursion, Zenon
<1>5. f = Rec(f)
  <2>1. ASSUME NEW i \in 1..m PROVE f[i] = Body(i, f[Prev(i)])
    BY <1>b, <1>3, <1>4 DEF Follows
  <2> QED BY <1>2, <1>4, <2>1 DEF Follows
<1>6. g = Rec(g)
  <2> HIDE DEF Rec
  <2> QED BY <1>5
<1> HIDE DEF g
<1>7. g[0] = x0 /\ \A i \in 1..m : g[i] = Body(i, g[Prev(i)])
  <2>1. 0 \in 0..m /\ \A i \in 1..m : i \in 0..m /\ i # 0
    BY <1>2
  <2> QED BY <1>6, <2>1, Zenon
<1>8. \A i \in 0..m : g[i] \in X
  <2> DEFINE T == {k \in 0..m : g[k] \in X}
  <2>1. ASSUME NEW i \in 0..m, \A k \in 0..(i - 1) : k \in T PROVE i \in T
    <3>1. CASE i = 0
      BY <1>2, <1>7, <3>1
    <3>2. CASE i \in 1..m
      <4>1. Prev(i) \in 0..(i - 1)
        BY <1>2, <1>b, <3>2
      <4>2. g[Prev(i)] \in X
        BY <2>1, <4>1
      <4> QED BY <1>7, <1>a, <3>2, <4>2
    <3> QED BY <1>2, <3>1, <3>2
  <2>2. \A i \in 0..m : i \in T
    <3> HIDE DEF T
    <3> QED BY <1>2, <2>1, AllBelow, Zenon
  <2> QED BY <2>2
<1>9. g \in [0..m -> X]
  BY <1>6, <1>8, Zenon
<1>c. HitRun(g, st, lines, term, range, top)
  BY <1>1, <1>7 DEF m, x0, Body, Prev, HitRun
<1> QED BY <1>9, <1>c, Zenon DEF m, X

(* h: the first `top' places of k in the range with the term, in order.    *)
HitsOf(h, k, term, range, top) ==
  /\ \A p \in 1..Len(h) : /\ h[p].idx \in 1..Len(k) /\ Within(range, h[p].idx)
                          /\ h[p].line = k[h[p].idx] /\ h[p].line \in term
  /\ \A p, q \in 1..Len(h) : p < q => h[p].idx < h[q].idx
  /\ top > 0 => Len(h) <= top
  /\ \A i \in 1..Len(k) :
       Within(range, i) /\ k[i] \in term /\ (\A p \in 1..Len(h) : h[p].idx # i)
         => top > 0 /\ Len(h) = top /\ \A p \in 1..Len(h) : h[p].idx < i

Finds(v, h, k, term, range, top) ==
  /\ HitsOf(h, k, term, range, top)
  /\ ~(top > 0 /\ Len(h) >= top) => v = Len(k)

LEMMA AppendHit ==
  ASSUME NEW h \in Seq(Hit), NEW x \in Hit
  PROVE  /\ Append(h, x) \in Seq(Hit) /\ Len(Append(h, x)) = Len(h) + 1 /\ Len(h) \in Nat
         /\ Append(h, x)[Len(h) + 1] = x
         /\ \A p \in 1..Len(h) : Append(h, x)[p] = h[p]
  OBVIOUS

(* A line is added to k that is no hit: it does not match, lies outside    *)
(* the range, or there are enough hits.                                    *)
LEMMA FindsNone ==
  ASSUME NEW v, NEW h \in Seq(Hit), NEW k \in Seq(Int), NEW x \in Int, NEW term, NEW range,
         NEW top \in Nat, HitsOf(h, k, term, range, top),
         \/ top > 0 /\ Len(h) >= top
         \/ ~(Within(range, Len(k) + 1) /\ x \in term)
  PROVE  HitsOf(h, Append(k, x), term, range, top)
<1> DEFINE n == Len(k)
           z == Len(h)
           b == Append(k, x)
           idx(p) == h[p].idx
           line(p) == h[p].line
<1>1. n \in Nat /\ z \in Nat /\ Len(b) = n + 1 /\ b[n + 1] = x /\ \A i \in 1..n : b[i] = k[i]
  BY AppendIs
<1>2. /\ \A p \in 1..z : idx(p) \in 1..n /\ Within(range, idx(p)) /\ line(p) = k[idx(p)] /\ line(p) \in term
      /\ \A p, q \in 1..z : p < q => idx(p) < idx(q)
      /\ top > 0 => z <= top
  BY DEF HitsOf
<1>3. \A i \in 1..n : Within(range, i) /\ k[i] \in term /\ (\A p \in 1..z : idx(p) # i)
                       => top > 0 /\ z = top /\ \A p \in 1..z : idx(p) < i
  BY DEF HitsOf
<1>4. (top > 0 /\ z >= top) \/ ~(Within(range, n + 1) /\ x \in term)
  OBVIOUS
<1> HIDE DEF n, z, b, idx, line
<1>5. ASSUME NEW p \in 1..z
      PROVE  idx(p) \in 1..(n + 1) /\ Within(range, idx(p)) /\ line(p) = b[idx(p)] /\ line(p) \in term
  <2>1. idx(p) \in 1..n /\ Within(range, idx(p)) /\ line(p) = k[idx(p)] /\ line(p) \in term
    BY <1>2, Zenon
  <2>2. b[idx(p)] = k[idx(p)]
    BY <1>1, <2>1, Zenon
  <2>3. idx(p) \in 1..(n + 1)
    BY <1>1, <2>1
  <2> QED BY <2>1, <2>2, <2>3, Zenon
<1>6. ASSUME NEW i \in 1..(n + 1), Within(range, i), b[i] \in term, \A p \in 1..z : idx(p) # i
      PROVE  top > 0 /\ z = top /\ \A p \in 1..z : idx(p) < i
  <2>1. CASE i \in 1..n
    BY <1>1, <1>3, <1>6, <2>1, Zenon
  <2>2. CASE i = n + 1
    <3>1. top > 0 /\ z >= top
      BY <1>1, <1>4, <1>6, <2>2, Zenon
    <3>2. z = top
      BY <1>1, <1>2, <3>1
    <3>3. ASSUME NEW p \in 1..z PROVE idx(p) < i
      <4>1. idx(p) \in 1..n
        BY <1>2, Zenon
      <4> QED BY <1>1, <2>2, <4>1
    <3> QED BY <3>1, <3>2, <3>3, Zenon
  <2> QED BY <1>1, <2>1, <2>2
<1>7. \A i \in 1..(n + 1) : Within(range, i) /\ b[i] \in term /\ (\A p \in 1..z : idx(p) # i)
                             => top > 0 /\ z = top /\ \A p \in 1..z : idx(p) < i
  BY <1>6, Zenon
<1>8. \A p \in 1..z : idx(p) \in 1..(n + 1) /\ Within(range, idx(p)) /\ line(p) = b[idx(p)] /\ line(p) \in term
  BY <1>5, Zenon
<1>9. Len(b) = n + 1
  BY <1>1
<1> QED BY <1>2, <1>7, <1>8, <1>9, Zenon DEF HitsOf, z, b, idx, line

(* The line that is added to k is the next hit. *)
LEMMA FindsOne ==
  ASSUME NEW h \in Seq(Hit), NEW k \in Seq(Int), NEW x \in Int, NEW term, NEW range,
         NEW top \in Nat, HitsOf(h, k, term, range, top), ~(top > 0 /\ Len(h) >= top),
         Within(range, Len(k) + 1), x \in term
  PROVE  HitsOf(Append(h, [idx |-> Len(k) + 1, line |-> x]), Append(k, x), term, range, top)
<1> DEFINE n == Len(k)
           z == Len(h)
           b == Append(k, x)
           r == [idx |-> Len(k) + 1, line |-> x]
           g == Append(h, r)
           idx(p) == h[p].idx
           line(p) == h[p].line
<1>1. n \in Nat /\ z \in Nat /\ Len(b) = n + 1 /\ b[n + 1] = x /\ \A i \in 1..n : b[i] = k[i]
  BY AppendIs
<1>r. r \in Hit /\ r.idx = n + 1 /\ r.line = x
  BY <1>1 DEF Hit
<1> HIDE DEF r
<1>a. Len(g) = z + 1 /\ g[z + 1] = r /\ \A p \in 1..z : g[p] = h[p]
  BY <1>r, AppendHit
<1>2. /\ \A p \in 1..z : idx(p) \in 1..n /\ Within(range, idx(p)) /\ line(p) = k[idx(p)] /\ line(p) \in term
      /\ \A p, q \in 1..z : p < q => idx(p) < idx(q)
  BY DEF HitsOf
<1>3. \A i \in 1..n : Within(range, i) /\ k[i] \in term /\ (\A p \in 1..z : idx(p) # i)
                       => top > 0 /\ z = top /\ \A p \in 1..z : idx(p) < i
  BY DEF HitsOf
<1>4. ~(top > 0 /\ z >= top) /\ Within(range, n + 1)
  OBVIOUS
<1>5. \A p \in 1..z : g[p].idx = idx(p) /\ g[p].line = line(p)
  BY <1>a, Zenon
<1>6. g[z + 1].idx = n + 1 /\ g[z + 1].line = x
  BY <1>a, <1>r, Zenon
<1> HIDE DEF n, z, b, g, idx, line
<1>7. ASSUME NEW p \in 1..(z + 1)
      PROVE  /\ g[p].idx \in 1..(n + 1) /\ Within(range, g[p].idx)
             /\ g[p].line = b[g[p].idx] /\ g[p].line \in term
  <2>1. CASE p \in 1..z
    <3>1. idx(p) \in 1..n /\ Within(range, idx(p)) /\ line(p) = k[idx(p)] /\ line(p) \in term
      BY <1>2, <2>1, Zenon
    <3>2. b[idx(p)] = k[idx(p)]
      BY <1>1, <3>1, Zenon
    <3>3. idx(p) \in 1..(n + 1)
      BY <1>1, <3>1
    <3>4. g[p].idx = idx(p) /\ g[p].line = line(p)
      BY <1>5, <2>1, Zenon
    <3> QED BY <3>1, <3>2, <3>3, <3>4, Zenon
  <2>2. CASE p = z + 1
    <3>1. n + 1 \in 1..(n + 1)
      BY <1>1
    <3> QED BY <1>1, <1>4, <1>6, <2>2, <3>1, Zenon
  <2> QED BY <1>1, <2>1, <2>2
<1>8. ASSUME NEW p \in 1..(z + 1), NEW q \in 1..(z + 1), p < q PROVE g[p].idx < g[q].idx
  <2>1. p \in 1..z
    BY <1>1, <1>8
  <2>2. g[p].idx = idx(p) /\ idx(p) \in 1..n
    BY <1>2, <1>5, <2>1, Zenon
  <2>3. CASE q \in 1..z
    BY <1>2, <1>5, <1>8, <2>1, <2>3, Zenon
  <2>4. CASE q = z + 1
    <3>1. idx(p) < n + 1
      BY <1>1, <2>2
    <3> QED BY <1>6, <2>2, <2>4, <3>1, Zenon
  <2> QED BY <1>1, <2>3, <2>4
<1>9. top > 0 => z + 1 <= top
  BY <1>1, <1>4
<1>10. ASSUME NEW i \in 1..(n + 1), Within(range, i), b[i] \in term, \A p \in 1..(z + 1) : g[p].idx # i
       PROVE  FALSE
  <2>1. i \in 1..n
    <3>1. z + 1 \in 1..(z + 1)
      BY <1>1
    <3>2. i # n + 1
      BY <1>6, <1>10, <3>1, Zenon
    <3> QED BY <1>1, <3>2
  <2>2. ASSUME NEW p \in 1..z PROVE idx(p) # i
    <3>1. p \in 1..(z + 1)
      BY <1>1
    <3> QED BY <1>5, <1>10, <3>1, Zenon
  <2>3. top > 0 /\ z = top
    BY <1>1, <1>3, <1>10, <2>1, <2>2, Zenon
  <2> QED BY <1>1, <1>4, <2>3
<1>11. Len(b) = n + 1 /\ Len(g) = z + 1
  BY <1>1, <1>a
<1>12. HitsOf(g, b, term, range, top)
  BY <1>7, <1>8, <1>9, <1>10, <1>11, ZenonT(40) DEF HitsOf
<1> QED BY <1>12 DEF g, b, r

(* searchAll finds the first hits of the filtered view. *)
LEMMA HitsAre ==
  ASSUME NEW st, NEW lines \in Seq(Int), NEW term, NEW range, NEW top \in Nat
  PROVE  /\ Hits(st, lines, term, range, top) \in Seq(Hit)
         /\ HitsOf(Hits(st, lines, term, range, top), Filtered(st, lines), term, range, top)
<1> DEFINE m == Len(lines)
<1>0. m \in Nat /\ (\A i \in 1..m : lines[i] \in Int)
  OBVIOUS
<1>1. PICK kept \in [0..m -> Seq(Int)] :
        /\ kept[0] = <<>> /\ Filtered(st, lines) = kept[m]
        /\ \A i \in 1..m : kept[i] = IF Matches(st, lines[i]) THEN Append(kept[i - 1], lines[i])
                                     ELSE kept[i - 1]
  BY FilteredSteps, ZenonT(40)
<1>a. PICK acc \in [0..m -> HitAcc] : HitRun(acc, st, lines, term, range, top)
  BY <1>0, HitSteps, Zenon
<1>2. /\ acc[0] = [v |-> 0, hits |-> <<>>]
      /\ Hits(st, lines, term, range, top) = acc[m].hits
      /\ \A i \in 1..m :
           acc[i] = IF (top > 0 /\ Len(acc[i - 1].hits) >= top) \/ ~Matches(st, lines[i]) THEN acc[i - 1]
                    ELSE [v |-> acc[i - 1].v + 1,
                          hits |-> IF Within(range, acc[i - 1].v + 1) /\ lines[i] \in term
                                   THEN Append(acc[i - 1].hits,
                                               [idx |-> acc[i - 1].v + 1, line |-> lines[i]])
                                   ELSE acc[i - 1].hits]
  BY <1>a, Zenon DEF HitRun
<1> HIDE DEF m
<1> DEFINE Ok(i) == Finds(acc[i].v, acc[i].hits, kept[i], term, range, top)
           T == {i \in 0..m : Ok(i)}
<1>3. 0 \in T
  <2>1. acc[0].v = 0 /\ acc[0].hits = <<>>
    BY <1>2
  <2>2. Finds(0, <<>>, <<>>, term, range, top)
    BY DEF Finds, HitsOf
  <2> QED BY <1>0, <1>1, <2>1, <2>2
<1>4. ASSUME NEW i \in 0..(m - 1), i \in T PROVE i + 1 \in T
  <2> DEFINE n == i + 1
             x == lines[n]
             a == acc[i]
             k == kept[i]
             Full == top > 0 /\ Len(a.hits) >= top
             Is == Within(range, a.v + 1) /\ x \in term
             more == Append(a.hits, [idx |-> a.v + 1, line |-> x])
  <2>0. n \in 1..m /\ n \in 0..m /\ n - 1 = i /\ i \in 0..m
    BY <1>0
  <2>1. Finds(a.v, a.hits, k, term, range, top) /\ a \in HitAcc /\ k \in Seq(Int) /\ x \in Int
    BY <1>0, <1>4, <2>0, Zenon
  <2>2. a.v \in Nat /\ a.hits \in Seq(Hit) /\ Len(Append(k, x)) = Len(k) + 1 /\ Len(k) \in Nat
    BY <2>1, AppendIs DEF HitAcc
  <2>3. kept[n] = IF Matches(st, x) THEN Append(k, x) ELSE k
    BY <1>1, <2>0, Zenon
  <2>4. acc[n] = IF Full \/ ~Matches(st, x) THEN a
                 ELSE [v |-> a.v + 1, hits |-> IF Is THEN more ELSE a.hits]
    BY <1>2, <2>0, Zenon
  <2>5. HitsOf(a.hits, k, term, range, top) /\ (~Full => a.v = Len(k))
    BY <2>1 DEF Finds
  <2>6. ~Full /\ Is => HitsOf(more, Append(k, x), term, range, top)
    BY <2>1, <2>2, <2>5, FindsOne, Zenon
  <2>7. Full \/ ~Is => HitsOf(a.hits, Append(k, x), term, range, top)
    BY <2>1, <2>2, <2>5, FindsNone, Zenon
  <2>8. Full => Finds(a.v, a.hits, Append(k, x), term, range, top)
    BY <2>7 DEF Finds
  <2> HIDE DEF n, x, a, k, Is, more, Full
  <2>9. Ok(n)
    <3>1. CASE ~Matches(st, x)
      BY <2>1, <2>3, <2>4, <3>1, Zenon DEF k
    <3>2. CASE Matches(st, x) /\ Full
      BY <2>3, <2>4, <2>8, <3>2
    <3>3. CASE Matches(st, x) /\ ~Full
      <4>1. acc[n].v = a.v + 1 /\ acc[n].hits = IF Is THEN more ELSE a.hits
        BY <2>4, <3>3
      <4>2. kept[n] = Append(k, x)
        BY <2>3, <3>3
      <4>3. HitsOf(acc[n].hits, kept[n], term, range, top)
        BY <2>6, <2>7, <3>3, <4>1, <4>2, Zenon
      <4>4. acc[n].v = Len(kept[n])
        BY <2>2, <2>5, <3>3, <4>1, <4>2, ZenonT(30)
      <4> QED BY <4>3, <4>4, Zenon DEF Finds
    <3> QED BY <3>1, <3>2, <3>3
  <2> HIDE DEF Ok
  <2> QED BY <2>0, <2>9 DEF n
<1>5. \A i \in 0..m : i \in T
  <2> HIDE DEF T
  <2> QED BY <1>0, <1>3, <1>4, UpTo, Zenon
<1>6. Ok(m) /\ acc[m] \in HitAcc
  BY <1>0, <1>5
<1> QED BY <1>1, <1>2, <1>6 DEF HitAcc, Finds

-----------------------------------------------------------------------------
(* The view, by warm buffer and by file. *)

(* The n lines of a file, oldest first. *)
Mirror(n) == [i \in 1..n |-> n - i]

LEMMA MirrorDown ==
  ASSUME NEW n \in Nat
  PROVE  /\ Mirror(n) \in Seq(Int) /\ Len(Mirror(n)) = n
         /\ \A i \in 1..n : Mirror(n)[i] = n - i
         /\ Down(Mirror(n), Span(0, n))
<1>1. Mirror(n) \in Seq(Int) /\ Len(Mirror(n)) = n /\ \A i \in 1..n : Mirror(n)[i] = n - i
  BY DEF Mirror
<1>2. ASSUME NEW x \in Span(0, n) PROVE \E i \in 1..n : Mirror(n)[i] = x
  <2>1. n - x \in 1..n /\ n - (n - x) = x
    BY <1>2 DEF Span
  <2> QED BY <1>1, <2>1
<1>3. \A i \in 1..n : Mirror(n)[i] \in Span(0, n)
  BY <1>1 DEF Span
<1>4. \A i, j \in 1..n : i < j => Mirror(n)[i] > Mirror(n)[j]
  BY <1>1
<1> QED BY <1>1, <1>2, <1>3, <1>4, Zenon DEF Down

LEMMA WarmUp ==
  ASSUME NEW st, st.warm \in Nat
  PROVE  Up(WarmBuffer(st), Span(0, st.warm))
<1> DEFINE n == st.warm
           b == WarmBuffer(st)
<1>1. n \in Nat /\ b \in Seq(Int) /\ Len(b) = n /\ \A i \in 1..n : b[i] = i - 1
  BY DEF WarmBuffer
<1> HIDE DEF n, b
<1>2. ASSUME NEW x \in Span(0, n) PROVE \E i \in 1..n : b[i] = x
  <2>1. x + 1 \in 1..n /\ (x + 1) - 1 = x
    BY <1>1, <1>2 DEF Span
  <2> QED BY <1>1, <2>1
<1>3. \A i \in 1..n : b[i] \in Span(0, n)
  BY <1>1 DEF Span
<1>4. \A i, j \in 1..n : i < j => b[i] < b[j]
  BY <1>1
<1>5. Up(b, Span(0, n))
  BY <1>1, <1>2, <1>3, <1>4, Zenon DEF Up
<1> QED BY <1>5 DEF n, b

(* The view of n lines: those that match, oldest first. *)
LEMMA ShownDown ==
  ASSUME NEW st, NEW n \in Nat
  PROVE  Down(ShownOf(st, n), Kept(st, Span(0, n))) /\ ShownOf(st, n) = Filtered(st, Mirror(n))
<1>1. ShownOf(st, n) = Filtered(st, Mirror(n))
  BY Zenon DEF ShownOf, Mirror
<1> QED BY <1>1, MirrorDown, FilteredDown

LEMMA ShownPlain ==
  ASSUME NEW st, NEW n \in Nat, ~st.filtered
  PROVE  ShownOf(st, n) = Mirror(n)
<1>1. Kept(st, Span(0, n)) = Span(0, n)
  BY Zenon DEF Kept, Matches
<1> QED BY <1>1, ShownDown, MirrorDown, DownUnique

LEMMA WarmShown ==
  ASSUME NEW st, st.warm \in Nat
  PROVE  /\ Reversed(WarmBuffer(st)) = Mirror(st.warm)
         /\ Reversed(Filtered(st, WarmBuffer(st))) = ShownOf(st, st.warm)
         /\ Len(Filtered(st, WarmBuffer(st))) = Len(ShownOf(st, st.warm))
<1>1. Down(Reversed(WarmBuffer(st)), Span(0, st.warm))
  BY WarmUp, ReversedUp
<1>2. Up(Filtered(st, WarmBuffer(st)), Kept(st, Span(0, st.warm)))
  BY WarmUp, FilteredUp
<1>3. Down(Reversed(Filtered(st, WarmBuffer(st))), Kept(st, Span(0, st.warm)))
  BY <1>2, ReversedUp
<1>4. Reversed(WarmBuffer(st)) = Mirror(st.warm)
  BY <1>1, MirrorDown, DownUnique
<1>5. Reversed(Filtered(st, WarmBuffer(st))) = ShownOf(st, st.warm)
  BY <1>3, ShownDown, DownUnique
<1>6. Filtered(st, WarmBuffer(st)) \in Seq(Int)
  BY <1>2 DEF Up
<1>7. Len(Reversed(Filtered(st, WarmBuffer(st)))) = Len(Filtered(st, WarmBuffer(st)))
  BY <1>6, ReversedIs
<1> QED BY <1>4, <1>5, <1>7

LEMMA FileSizeIs ==
  ASSUME NEW st, StoreOK(st)
  PROVE  FileSize(st) = MergedLines(st) /\ FileSize(st) \in Nat /\ st.warm \in Nat
<1>1. ~st.open => Len(st.chunks) = 0
  BY DEF StoreOK
<1>2. st.warm \in Nat
  BY DEF StoreOK
<1> QED BY <1>1, <1>2, MergedIs DEF FileSize

(* A scan of a file without gaps sees the view, whatever its window. *)
LEMMA ScannedShown ==
  ASSUME NEW st, StoreOK(st), Whole(st), NEW w \in Nat \ {0}
  PROVE  Filtered(st, Scanned(st, w)) = ShownOf(st, FileSize(st))
<1> DEFINE n == MergedLines(st)
<1>1. n \in Nat /\ FileSize(st) = n
  BY MergedIs, FileSizeIs
<1>2. Down(Scanned(st, w), There(st, Len(st.chunks), 0, n))
  BY ScannedDown
<1> HIDE DEF n
<1>3. There(st, Len(st.chunks), 0, n) = Span(0, n)
  BY <1>1, ThereWhole DEF n
<1>4. Down(Filtered(st, Scanned(st, w)), Kept(st, Span(0, n)))
  BY <1>2, <1>3, FilteredDown
<1> QED BY <1>1, <1>4, ShownDown, DownUnique

(* What a filtered read sees, gaps included. *)
View(st) == IF st.warm > 0 THEN ShownOf(st, st.warm) ELSE Filtered(st, Scanned(st, ReadWindow))

LEMMA ViewIs ==
  ASSUME NEW st, StoreOK(st)
  PROVE  /\ View(st) \in Seq(Int) /\ Shown(st) \in Seq(Int) /\ ShownOf(st, FileSize(st)) \in Seq(Int)
         /\ Whole(st) => View(st) = Shown(st)
         /\ ~st.open /\ st.warm = 0 => View(st) = <<>>
         /\ ~st.filtered => /\ Shown(st) = Mirror(IF st.warm > 0 THEN st.warm ELSE FileSize(st))
                            /\ ShownOf(st, FileSize(st)) = Mirror(FileSize(st))
<1>0. ReadWindow \in Nat \ {0} /\ st.warm \in Nat /\ FileSize(st) \in Nat
      /\ FileSize(st) = MergedLines(st)
  BY PagingAssumption, FileSizeIs
<1>1. Down(Filtered(st, Scanned(st, ReadWindow)),
           Kept(st, There(st, Len(st.chunks), 0, MergedLines(st))))
  BY <1>0, ScannedDown, FilteredDown
<1>2. Filtered(st, Scanned(st, ReadWindow)) \in Seq(Int)
  BY <1>1 DEF Down
<1>3. ShownOf(st, st.warm) \in Seq(Int) /\ ShownOf(st, FileSize(st)) \in Seq(Int)
  BY <1>0, ShownDown DEF Down
<1>4. Whole(st) => View(st) = Shown(st)
  BY <1>0, ScannedShown DEF View, Shown
<1>5. ASSUME ~st.open, st.warm = 0 PROVE View(st) = <<>>
  <2>1. FileSize(st) = 0 /\ MergedLines(st) = 0
    BY <1>0, <1>5 DEF FileSize
  <2>2. Kept(st, There(st, Len(st.chunks), 0, MergedLines(st))) = {}
    BY <2>1 DEF Kept, There
  <2>3. View(st) = Filtered(st, Scanned(st, ReadWindow))
    BY <1>5 DEF View
  <2>4. Down(View(st), {})
    BY <1>1, <2>2, <2>3, Zenon
  <2> QED BY <2>4, EmptyUp, DownUnique
<1>6. ~st.filtered => /\ Shown(st) = Mirror(IF st.warm > 0 THEN st.warm ELSE FileSize(st))
                      /\ ShownOf(st, FileSize(st)) = Mirror(FileSize(st))
  BY <1>0, ShownPlain DEF Shown
<1>7. View(st) \in Seq(Int) /\ Shown(st) \in Seq(Int)
  BY <1>2, <1>3, Zenon DEF View, Shown
<1> QED BY <1>3, <1>4, <1>5, <1>6, <1>7

-----------------------------------------------------------------------------
(* Pages *)

(* The rows s..e of the view, as far as it has them, with their numbers. *)
PageOf(rows, view, s, e) ==
  /\ rows \in Seq(Hit)
  /\ Len(rows) = Greatest(0, Least(e, Len(view)) - s + 1)
  /\ \A p \in 1..Len(rows) : rows[p].idx = s + p - 1 /\ rows[p].line = view[s + p - 1]

LEMMA EmptyPage ==
  ASSUME NEW view \in Seq(Int), NEW s \in Nat \ {0}, NEW e \in Nat, s > e \/ s > Len(view)
  PROVE  PageOf(<<>>, view, s, e)
<1>1. Len(view) \in Nat
  OBVIOUS
<1>2. Greatest(0, Least(e, Len(view)) - s + 1) = 0
  BY <1>1 DEF Greatest, Least
<1> QED BY <1>2 DEF PageOf

LEMMA IndexedIs ==
  ASSUME NEW out \in Seq(Int), NEW view, NEW s \in Nat \ {0}, NEW e \in Nat, s <= e,
         Taken(out, view, s, e - s + 1)
  PROVE  PageOf(Indexed(out, s), view, s, e)
<1> DEFINE n == Len(out)
           rows == Indexed(out, s)
<1>1. n \in Nat /\ \A p \in 1..n : out[p] \in Int
  OBVIOUS
<1>2. n = Greatest(0, Least(e, Len(view)) - s + 1) /\ \A p \in 1..n : out[p] = view[s + p - 1]
  <2>1. s + (e - s + 1) - 1 = e
    OBVIOUS
  <2> QED BY <2>1, Zenon DEF Taken
<1>3. rows = [p \in 1..n |-> [idx |-> s + p - 1, line |-> out[p]]]
  BY DEF Indexed
<1> HIDE DEF n, rows
<1>4. \A p \in 1..n : [idx |-> s + p - 1, line |-> out[p]] \in Hit
  BY <1>1 DEF Hit
<1>5. rows \in Seq(Hit) /\ Len(rows) = n
  BY <1>1, <1>3, <1>4
<1>6. \A p \in 1..n : rows[p].idx = s + p - 1 /\ rows[p].line = out[p]
  BY <1>3
<1> QED BY <1>2, <1>5, <1>6, Zenon DEF PageOf, rows

LEMMA SubSeqTaken ==
  ASSUME NEW view \in Seq(Int), NEW s \in Nat \ {0}, NEW e \in Nat, s <= e
  PROVE  /\ SubSeq(view, s, Least(e, Len(view))) \in Seq(Int)
         /\ Taken(SubSeq(view, s, Least(e, Len(view))), view, s, e - s + 1)
<1> DEFINE n == Len(view)
           t == Least(e, n)
           o == SubSeq(view, s, t)
<1>1. n \in Nat /\ t \in Nat /\ t <= n /\ t <= e
  BY DEF Least
<1> HIDE DEF t
<1>2. o \in Seq(Int) /\ Len(o) = (IF s <= t THEN t - s + 1 ELSE 0)
      /\ \A i \in 1..Len(o) : o[i] = view[s + i - 1]
  BY <1>1
<1>3. s + (e - s + 1) - 1 = e
  OBVIOUS
<1> HIDE DEF n, o
<1>4. Len(o) = Greatest(0, t - s + 1)
  BY <1>1, <1>2 DEF Greatest
<1> QED BY <1>2, <1>3, <1>4, Zenon DEF Taken, o, t, n

(* A filtered read is a page of what it sees. *)
LEMMA ReadFilteredIs ==
  ASSUME NEW st, StoreOK(st), NEW s \in Nat \ {0}, NEW e \in Nat
  PROVE  PageOf(ReadRangeFiltered(st, s, e), View(st), s, e)
<1> DEFINE want == e - s + 1
           asc == Reversed(Filtered(st, WarmBuffer(st)))
<1>0. st.warm \in Nat /\ View(st) \in Seq(Int) /\ ReadWindow \in Nat \ {0}
  BY FileSizeIs, ViewIs, PagingAssumption
<1>1. CASE s > e
  <2>1. ReadRangeFiltered(st, s, e) = <<>>
    BY <1>1 DEF ReadRangeFiltered
  <2> QED BY <1>0, <1>1, <2>1, EmptyPage, Zenon
<1>2. CASE s <= e /\ st.warm > 0
  <2>1. asc = View(st)
    BY <1>0, <1>2, WarmShown DEF View
  <2>2. ReadRangeFiltered(st, s, e)
          = Indexed(SubSeq(View(st), s, Least(e, Len(View(st)))), s)
    <3>1. /\ ~(s > e) /\ Greatest(0, s - 1) = s - 1 /\ s - 1 + 1 = s
          /\ s - 1 + (e - s + 1) = e
      BY <1>2 DEF Greatest
    <3>2. ReadRangeFiltered(st, s, e)
            = Indexed(SubSeq(asc, s - 1 + 1, Least(s - 1 + (e - s + 1), Len(asc))), s)
      BY <1>2, <3>1, Zenon DEF ReadRangeFiltered
    <3> HIDE DEF asc
    <3> QED BY <2>1, <3>1, <3>2, Zenon
  <2> DEFINE o == SubSeq(View(st), s, Least(e, Len(View(st))))
  <2>3. o \in Seq(Int) /\ Taken(o, View(st), s, want)
    BY <1>0, <1>2, SubSeqTaken
  <2>4. ReadRangeFiltered(st, s, e) = Indexed(o, s)
    BY <2>2
  <2> HIDE DEF o
  <2> QED BY <1>2, <2>3, <2>4, IndexedIs, Zenon
<1>3. CASE s <= e /\ st.warm = 0 /\ ~st.open
  <2>1. ReadRangeFiltered(st, s, e) = <<>> /\ View(st) = <<>>
    BY <1>3, ViewIs DEF ReadRangeFiltered
  <2>2. s > Len(View(st))
    BY <2>1
  <2>3. PageOf(<<>>, View(st), s, e)
    BY <1>0, <2>2, EmptyPage, Zenon
  <2> QED BY <2>1, <2>3, Zenon
<1>4. CASE s <= e /\ st.warm = 0 /\ st.open
  <2> DEFINE lines == Scanned(st, ReadWindow)
  <2>1. lines \in Seq(Int)
    BY <1>0, ScannedDown DEF Down
  <2>2. View(st) = Filtered(st, lines)
    BY <1>4 DEF View
  <2>3. ReadRangeFiltered(st, s, e) = Indexed(KeepRange(st, lines, s, want), s)
    BY <1>4 DEF ReadRangeFiltered
  <2>4. want \in Nat \ {0}
    BY <1>4
  <2> HIDE DEF lines
  <2>5. /\ KeepRange(st, lines, s, want) \in Seq(Int)
        /\ Taken(KeepRange(st, lines, s, want), View(st), s, want)
    <3> HIDE DEF want
    <3> QED BY <2>1, <2>2, <2>4, KeepRangeIs, Zenon
  <2> QED BY <1>4, <2>3, <2>5, IndexedIs, Zenon
<1> QED BY <1>0, <1>1, <1>2, <1>3, <1>4

(* An unfiltered read: the lines, turned round. *)
LEMMA MirrorPage ==
  ASSUME NEW total \in Nat, NEW s \in 1..total, NEW e \in Nat, s <= e, NEW out \in Seq(Int),
         Len(out) = Least(e, total) - s + 1,
         \A j \in 1..Len(out) : out[j] = total - s + 1 - j
  PROVE  PageOf(Indexed(out, s), Mirror(total), s, e)
<1> DEFINE k == Mirror(total)
           n == Len(out)
<1>1. Len(k) = total /\ \A i \in 1..total : k[i] = total - i
  BY MirrorDown
<1>2. n = Least(e, total) - s + 1 /\ \A j \in 1..n : out[j] = total - s + 1 - j
  OBVIOUS
<1> HIDE DEF k, n
<1>3. n \in Nat /\ n = Greatest(0, Least(e, total) - s + 1) /\ s + n - 1 <= total
  BY <1>2 DEF Least, Greatest
<1>4. ASSUME NEW j \in 1..n PROVE out[j] = k[s + j - 1]
  <2>1. s + j - 1 \in 1..total /\ total - (s + j - 1) = total - s + 1 - j
    BY <1>3
  <2>2. k[s + j - 1] = total - (s + j - 1)
    BY <1>1, <2>1, Zenon
  <2>3. out[j] = total - s + 1 - j
    BY <1>2, Zenon
  <2> QED BY <2>1, <2>2, <2>3, Zenon
<1>5. s + (e - s + 1) - 1 = e /\ s \in Nat \ {0}
  OBVIOUS
<1>6. Taken(out, k, s, e - s + 1)
  BY <1>1, <1>3, <1>4, <1>5, Zenon DEF Taken, n
<1> QED BY <1>5, <1>6, IndexedIs DEF k

LEMMA WarmSliceIs ==
  ASSUME NEW st, st.warm \in Nat, NEW s \in 1..st.warm, NEW e \in Nat, s <= e
  PROVE  PageOf(WarmSlice(st, s, Least(e, st.warm)), Mirror(st.warm), s, e)
<1> DEFINE n == st.warm
           t == Least(e, n)
           m == MapAscToDescRange(n, s, t)
           b == WarmBuffer(st)
           o == SubSeq(b, n - t + 1, n - s + 1)
<1>1. n \in Nat /\ s \in 1..n /\ t \in s..n
  BY DEF Least
<1>2. b \in Seq(Int) /\ Len(b) = n /\ \A i \in 1..n : b[i] = i - 1
  BY DEF WarmBuffer
<1> HIDE DEF n, t, b
<1>3. m.physStart + 1 = n - t + 1 /\ m.physEndExcl = n - s + 1
  BY <1>1 DEF MapAscToDescRange, Greatest, Least
<1>4. WarmSlice(st, s, t) = Indexed(Reversed(SubSeq(b, m.physStart + 1, m.physEndExcl)), s)
  BY DEF WarmSlice, n, b
<1>5. WarmSlice(st, s, t) = Indexed(Reversed(o), s)
  <2> HIDE DEF m
  <2> QED BY <1>3, <1>4, Zenon
<1>6. o \in Seq(Int) /\ Len(o) = t - s + 1 /\ \A i \in 1..(t - s + 1) : o[i] = b[n - t + 1 + i - 1]
  <2>1. b \in Seq(Int) /\ Len(b) = n
    BY <1>2, Zenon
  <2> QED BY <1>1, <2>1
<1>7. ASSUME NEW i \in 1..(t - s + 1) PROVE o[i] = n - t + i - 1
  <2> DEFINE q == n - t + 1 + i - 1
  <2>1. q \in 1..n /\ q - 1 = n - t + i - 1 /\ o[i] = b[q]
    BY <1>1, <1>6
  <2> HIDE DEF q, o
  <2> QED BY <1>2, <2>1
<1> HIDE DEF o
<1> DEFINE r == Reversed(o)
<1>8. r \in Seq(Int) /\ Len(r) = t - s + 1 /\ \A j \in 1..(t - s + 1) : r[j] = o[t - s + 1 + 1 - j]
  <2>1. o \in Seq(Int) /\ Len(o) = t - s + 1
    BY <1>6, Zenon
  <2>2. r \in Seq(Int) /\ Len(r) = Len(o) /\ \A j \in 1..Len(o) : r[j] = o[Len(o) + 1 - j]
    BY <2>1, ReversedIs, Zenon
  <2> HIDE DEF r
  <2> QED BY <2>1, <2>2, Zenon
<1> HIDE DEF r
<1>9. ASSUME NEW j \in 1..(t - s + 1) PROVE r[j] = n - s + 1 - j
  <2>1. t - s + 1 + 1 - j \in 1..(t - s + 1)
    BY <1>1
  <2>2. r[j] = n - t + (t - s + 1 + 1 - j) - 1
    BY <1>7, <1>8, <2>1, Zenon
  <2> QED BY <1>1, <2>2
<1>10. Len(r) = Least(e, n) - s + 1 /\ \A j \in 1..Len(r) : r[j] = n - s + 1 - j
  BY <1>8, <1>9, Zenon DEF t
<1>11. PageOf(Indexed(r, s), Mirror(n), s, e)
  BY <1>1, <1>8, <1>10, MirrorPage, Zenon
<1> QED BY <1>5, <1>11 DEF r, n, t

(* The lines a..b - 1, as read and turned round. *)
LEMMA TurnedRead ==
  ASSUME NEW out, NEW a \in Nat, NEW b \in Nat, a <= b, Up(out, Span(a, b))
  PROVE  /\ Reversed(out) \in Seq(Int) /\ Len(Reversed(out)) = b - a
         /\ \A j \in 1..(b - a) : Reversed(out)[j] = b - j
<1> DEFINE f == [j \in 1..(b - a) |-> b - j]
<1>1. f \in Seq(Int) /\ Len(f) = b - a /\ \A j \in 1..(b - a) : f[j] = b - j
  OBVIOUS
<1> HIDE DEF f
<1>2. ASSUME NEW x \in Span(a, b) PROVE \E i \in 1..(b - a) : f[i] = x
  <2>1. b - x \in 1..(b - a) /\ b - (b - x) = x
    BY <1>2 DEF Span
  <2> QED BY <1>1, <2>1, Zenon
<1>3. \A i \in 1..(b - a) : f[i] \in Span(a, b)
  BY <1>1 DEF Span
<1>4. \A i, j \in 1..(b - a) : i < j => f[i] > f[j]
  BY <1>1
<1>5. Down(f, Span(a, b))
  BY <1>1, <1>2, <1>3, <1>4, Zenon DEF Down
<1>6. Reversed(out) = f
  BY <1>5, ReversedUp, DownUnique
<1> QED BY <1>1, <1>6

LEMMA NothingThere ==
  ASSUME NEW st, StoreOK(st), MergedLines(st) = 0, NEW a \in Int, NEW b \in Int
  PROVE  ReadLineRange(st, a, b) = <<>>
<1> DEFINE m == Len(st.chunks)
<1>1. m \in Nat /\ \A k \in 1..m : st.chunks[k].start \in Nat /\ st.chunks[k].lines \in Nat
  BY ChunksAre
<1>2. ASSUME NEW k \in 1..m, NEW l \in LinesOf(st, k) PROVE FALSE
  <2>1. st.chunks[m].start + st.chunks[m].lines = 0 /\ m \in 1..m
    BY <1>1, MergedIs
  <2>2. st.chunks[m].start = 0 /\ st.chunks[m].lines = 0
    BY <1>1, <2>1
  <2>3. CASE k = m
    BY <1>2, <2>2, <2>3 DEF LinesOf
  <2>4. CASE k \in 1..(m - 1)
    <3>1. st.chunks[k].start + st.chunks[k].lines <= st.chunks[m].start
      BY <2>1, <2>4, ChunksFollow
    <3> QED BY <1>1, <1>2, <2>2, <3>1 DEF LinesOf
  <2> QED BY <1>1, <2>3, <2>4
<1>3. There(st, m, a, b) = {}
  BY <1>2, Zenon DEF There
<1>4. Up(ReadLineRange(st, a, b), {})
  BY <1>3, ReadLineRangeUp, Zenon
<1>5. Len(ReadLineRange(st, a, b)) = 0 /\ ReadLineRange(st, a, b) \in Seq(Int)
  BY <1>4 DEF Up
<1> QED BY <1>5

(* readRangeByIdx on a file without gaps; a range beyond it is answered    *)
(* with its last row.                                                      *)
LEMMA FileSliceIs ==
  ASSUME NEW st, StoreOK(st), Whole(st), NEW s0 \in Nat \ {0}, NEW e0 \in Nat, s0 <= e0
  PROVE  \E s \in Nat \ {0}, e \in Nat :
           /\ PageOf(FileSlice(st, s0, e0), Mirror(FileSize(st)), s, e)
           /\ s0 <= FileSize(st) => s = s0 /\ e = e0
<1> DEFINE n == FileSize(st)
           total == TotalLines(st)
           s == Greatest(1, Least(total, s0))
           e == Greatest(1, Least(total, e0))
           m == MapAscToDescRange(total, s, e)
<1>0. n \in Nat /\ n = MergedLines(st) /\ st.hint \in Nat /\ Mirror(n) \in Seq(Int) /\ Len(Mirror(n)) = n
  BY FileSizeIs, MirrorDown, Zenon DEF StoreOK
<1> HIDE DEF n
<1>1. total \in Nat
  BY <1>0 DEF TotalLines
<1>2. CASE n = 0
  <2>1. m.physStart \in Int /\ m.physEndExcl \in Int /\ s \in Int
    BY <1>1 DEF MapAscToDescRange, Greatest, Least
  <2>2. ReadLineRange(st, m.physStart, m.physEndExcl) = <<>>
    <3> HIDE DEF m
    <3> QED BY <1>0, <1>2, <2>1, NothingThere, Zenon
  <2>3. Indexed(Reversed(<<>>), s) = <<>>
    BY DEF Indexed, Reversed
  <2>4. FileSlice(st, s0, e0) = <<>>
    BY <2>2, <2>3, Zenon DEF FileSlice
  <2>5. PageOf(<<>>, Mirror(n), s0, e0)
    BY <1>0, <1>2, EmptyPage
  <2> QED BY <2>4, <2>5, Zenon DEF n
<1>3. CASE n > 0
  <2>1. total = n
    BY <1>0, <1>3 DEF TotalLines
  <2> HIDE DEF total
  <2>2. /\ s \in 1..n /\ e \in s..n
        /\ s0 <= n => s = s0 /\ e = Least(e0, n)
    BY <1>0, <1>3, <2>1 DEF Greatest, Least
  <2> HIDE DEF s, e
  <2>3. m.physStart = n - e /\ m.physEndExcl = n - s + 1
    BY <1>0, <2>1, <2>2 DEF MapAscToDescRange, Greatest, Least
  <2>4. FileSlice(st, s0, e0)
          = IF total <= 0 \/ e < s \/ m.physEndExcl <= m.physStart THEN <<>>
            ELSE Indexed(Reversed(ReadLineRange(st, m.physStart, m.physEndExcl)), s)
    BY Zenon DEF FileSlice, total, s, e
  <2>5. ~(total <= 0 \/ e < s \/ n - s + 1 <= n - e)
    BY <1>0, <1>3, <2>1, <2>2
  <2> HIDE DEF m
  <2> DEFINE a == n - e
             b == n - s + 1
             out == ReadLineRange(st, a, b)
             r == Reversed(out)
  <2>6. FileSlice(st, s0, e0) = Indexed(r, s)
    BY <2>3, <2>4, <2>5, Zenon
  <2>7. a \in Nat /\ b \in Nat /\ a <= b /\ b <= n /\ b - a = e - s + 1
    <3>1. n \in Nat /\ s \in 1..n /\ e \in s..n
      BY <1>0, <2>2, Zenon
    <3> HIDE DEF n
    <3> QED BY <3>1
  <2> HIDE DEF a, b
  <2>8. Up(out, Span(a, b))
    <3>1. Up(out, There(st, Len(st.chunks), a, b))
      BY <2>7, ReadLineRangeUp
    <3>2. There(st, Len(st.chunks), a, b) = Span(a, b)
      BY <1>0, <2>7, ThereWhole
    <3> QED BY <3>1, <3>2, Zenon
  <2> HIDE DEF out
  <2>9. r \in Seq(Int) /\ Len(r) = b - a /\ \A j \in 1..(b - a) : r[j] = b - j
    BY <2>7, <2>8, TurnedRead, ZenonT(30)
  <2> HIDE DEF r
  <2>10. \A j \in 1..Len(r) : r[j] = n - s + 1 - j
    <3>1. ASSUME NEW j \in 1..Len(r) PROVE r[j] = b - j
      BY <2>9, Zenon
    <3>2. b = n - s + 1 /\ n \in Int /\ s \in Int /\ Len(r) \in Nat
      BY <1>0, <2>2, <2>7, <2>9 DEF b
    <3> QED BY <3>1, <3>2
  <2>11. Len(r) = e - s + 1
    BY <2>7, <2>9
  <2>12. CASE s0 <= n
    <3>1. s = s0 /\ e = Least(e0, n) /\ s0 \in 1..n
      BY <2>2, <2>12
    <3>2. Len(r) = Least(e0, n) - s0 + 1 /\ \A j \in 1..Len(r) : r[j] = n - s0 + 1 - j
      BY <2>10, <2>11, <3>1, Zenon
    <3>3. PageOf(Indexed(r, s0), Mirror(n), s0, e0)
      BY <1>0, <2>9, <3>1, <3>2, MirrorPage, Zenon
    <3> QED BY <2>6, <3>1, <3>3, Zenon DEF n
  <2>13. CASE ~(s0 <= n)
    <3>1. Len(r) = Least(e, n) - s + 1 /\ e \in Nat /\ s <= e /\ s \in Nat \ {0}
      BY <1>0, <2>2, <2>11 DEF Least
    <3>2. PageOf(Indexed(r, s), Mirror(n), s, e)
      BY <1>0, <2>2, <2>9, <2>10, <3>1, MirrorPage, ZenonT(40)
    <3> QED BY <2>6, <2>13, <3>1, <3>2 DEF n
  <2> QED BY <2>12, <2>13
<1> QED BY <1>0, <1>2, <1>3

(* A read of readRangeByIdx is a page of the view: of the file's when it   *)
(* starts beyond the warm buffer, and of the rows asked for when it starts *)
(* within the view.                                                        *)
Reads(st, s0, e0) ==
  \E s \in Nat \ {0}, e \in Nat :
    /\ PageOf(ReadRangeByIdx(st, s0, e0), ViewAt(st, s0), s, e)
    /\ s0 <= Len(Shown(st)) => s = s0 /\ e = e0

LEMMA ReadRangeIs ==
  ASSUME NEW st, StoreOK(st), Whole(st), NEW s0 \in Nat \ {0}, NEW e0 \in Nat
  PROVE  Reads(st, s0, e0)
<1> SUFFICES \E s \in Nat \ {0}, e \in Nat :
               /\ PageOf(ReadRangeByIdx(st, s0, e0), ViewAt(st, s0), s, e)
               /\ s0 <= Len(Shown(st)) => s = s0 /\ e = e0
  BY Zenon DEF Reads
<1> DEFINE n == st.warm
           rows == ReadRangeByIdx(st, s0, e0)
<1>0. n \in Nat /\ FileSize(st) \in Nat /\ ViewAt(st, s0) \in Seq(Int) /\ Shown(st) = View(st)
  BY FileSizeIs, ViewIs DEF ViewAt
<1> HIDE DEF rows
<1>1. ASSUME PageOf(rows, ViewAt(st, s0), s0, e0)
      PROVE  \E s \in Nat \ {0}, e \in Nat :
               /\ PageOf(rows, ViewAt(st, s0), s, e)
               /\ s0 <= Len(Shown(st)) => s = s0 /\ e = e0
  BY <1>1
<1>2. CASE st.filtered
  <2>1. rows = ReadRangeFiltered(st, s0, e0)
    BY <1>2 DEF ReadRangeByIdx, rows
  <2>2. ViewAt(st, s0) = View(st)
    BY <1>0, <1>2 DEF ViewAt, Beyond
  <2>3. PageOf(rows, ViewAt(st, s0), s0, e0)
    BY <2>1, <2>2, ReadFilteredIs, Zenon
  <2> QED BY <1>1, <2>3 DEF rows
<1>3. CASE ~st.filtered /\ s0 > e0
  <2>1. rows = <<>>
    BY <1>0, <1>3 DEF ReadRangeByIdx, rows
  <2>2. PageOf(<<>>, ViewAt(st, s0), s0, e0)
    BY <1>0, <1>3, EmptyPage, Zenon
  <2> QED BY <1>1, <2>1, <2>2, Zenon DEF rows
<1>4. CASE ~st.filtered /\ s0 <= e0 /\ n > 0
  <2>0. Shown(st) = Mirror(n) /\ ShownOf(st, FileSize(st)) = Mirror(FileSize(st)) /\ Len(Mirror(n)) = n
    BY <1>0, <1>4, ViewIs, MirrorDown, Zenon
  <2>1. CASE s0 <= n
    <3>1. ViewAt(st, s0) = Mirror(n) /\ s0 \in 1..n
      BY <1>0, <1>4, <2>0, <2>1 DEF ViewAt, Beyond
    <3>2. /\ Greatest(1, Least(n, s0)) = s0 /\ Greatest(1, Least(n, e0)) = Least(e0, n)
          /\ ~(s0 > e0 \/ e0 <= 0)
      BY <1>0, <1>4, <2>1 DEF Greatest, Least
    <3>3. rows = WarmSlice(st, Greatest(1, Least(n, s0)), Greatest(1, Least(n, e0)))
      BY <1>4, <2>1, <3>2 DEF ReadRangeByIdx, rows
    <3>4. rows = WarmSlice(st, s0, Least(e0, n))
      BY <3>2, <3>3, Zenon
    <3>5. PageOf(rows, ViewAt(st, s0), s0, e0)
      BY <1>0, <1>4, <3>1, <3>4, WarmSliceIs, ZenonT(30)
    <3> QED BY <1>1, <3>5 DEF rows
  <2>2. CASE ~(s0 <= n) /\ ~st.open
    <3> DEFINE s == Greatest(1, n - Greatest(1, e0 - s0 + 1) + 1)
    <3>1. ViewAt(st, s0) = Mirror(n)
      BY <2>0, <2>2 DEF ViewAt, Beyond
    <3>2. s \in 1..n /\ s \in Nat \ {0} /\ s <= n /\ Least(n, n) = n /\ ~(s0 > e0 \/ e0 <= 0)
      BY <1>0, <1>4 DEF Greatest, Least
    <3>3. rows = WarmSlice(st, s, n)
      BY <1>4, <2>2, <3>2 DEF ReadRangeByIdx, rows
    <3> HIDE DEF s
    <3>4. PageOf(WarmSlice(st, s, Least(n, n)), Mirror(n), s, n)
      BY <1>0, <3>2, WarmSliceIs
    <3>5. PageOf(rows, ViewAt(st, s0), s, n)
      BY <3>1, <3>2, <3>3, <3>4, Zenon
    <3>6. ~(s0 <= Len(Shown(st)))
      BY <2>0, <2>2
    <3> QED BY <1>0, <3>2, <3>5, <3>6 DEF rows
  <2>3. CASE ~(s0 <= n) /\ st.open
    <3>1. ViewAt(st, s0) = Mirror(FileSize(st))
      BY <1>0, <1>4, <2>0, <2>3 DEF ViewAt, Beyond
    <3>2. rows = FileSlice(st, s0, e0)
      BY <1>4, <2>3 DEF ReadRangeByIdx, rows
    <3>3. PICK s \in Nat \ {0}, e \in Nat : PageOf(FileSlice(st, s0, e0), Mirror(FileSize(st)), s, e)
      BY <1>4, FileSliceIs
    <3>4. PageOf(rows, ViewAt(st, s0), s, e)
      BY <3>1, <3>2, <3>3, Zenon
    <3>5. ~(s0 <= Len(Shown(st)))
      BY <2>0, <2>3
    <3> QED BY <3>4, <3>5 DEF rows
  <2> QED BY <2>1, <2>2, <2>3, Zenon
<1>5. CASE ~st.filtered /\ s0 <= e0 /\ n = 0
  <2>a. Shown(st) = Mirror(IF n > 0 THEN n ELSE FileSize(st))
    BY <1>5, ViewIs
  <2>b. ~(n > 0)
    BY <1>5
  <2>0. Shown(st) = Mirror(FileSize(st)) /\ Len(Mirror(FileSize(st))) = FileSize(st)
    BY <1>0, <2>a, <2>b, MirrorDown, Zenon
  <2>1. ViewAt(st, s0) = Mirror(FileSize(st))
    BY <1>5, <2>0 DEF ViewAt, Beyond
  <2>2. CASE ~st.open
    <3>1. rows = <<>> /\ FileSize(st) = 0
      BY <1>5, <2>2 DEF ReadRangeByIdx, FileSize, rows
    <3>2. s0 > Len(ViewAt(st, s0))
      BY <2>0, <2>1, <3>1
    <3>3. PageOf(<<>>, ViewAt(st, s0), s0, e0)
      BY <1>0, <3>2, EmptyPage
    <3> QED BY <1>1, <3>1, <3>3 DEF rows
  <2>3. CASE st.open
    <3>1. rows = FileSlice(st, s0, e0)
      BY <1>5, <2>3 DEF ReadRangeByIdx, rows
    <3>2. PICK s \in Nat \ {0}, e \in Nat :
            /\ PageOf(FileSlice(st, s0, e0), Mirror(FileSize(st)), s, e)
            /\ s0 <= FileSize(st) => s = s0 /\ e = e0
      BY <1>5, FileSliceIs
    <3>3. PageOf(rows, ViewAt(st, s0), s, e)
      BY <2>1, <3>1, <3>2, Zenon
    <3>4. s0 <= Len(Shown(st)) => s = s0 /\ e = e0
      BY <2>0, <3>2, Zenon
    <3> QED BY <3>3, <3>4 DEF rows
  <2> QED BY <2>2, <2>3
<1> QED BY <1>0, <1>2, <1>3, <1>4, <1>5

(* The labels of the rows are those asked for that the view has, each once. *)
Labels(rows, view, s, e) ==
  /\ Len(rows) = Greatest(0, Least(e, Len(view)) - s + 1)
  /\ {rows[k].idx : k \in DOMAIN rows} = s..Least(e, Len(view))

(* The rows of a page are labelled as the view is. *)
LEMMA PageLabelled ==
  ASSUME NEW rows, NEW view \in Seq(Int), NEW s \in Nat \ {0}, NEW e \in Nat,
         PageOf(rows, view, s, e)
  PROVE  LabelledIn(rows, view) /\ Labels(rows, view, s, e)
<1> DEFINE n == Len(view)
           z == Len(rows)
           Idx(p) == rows[p].idx
           Line(p) == rows[p].line
           t == Least(e, n)
<1>1. /\ rows \in Seq(Hit) /\ z = Greatest(0, t - s + 1)
      /\ \A p \in 1..z : Idx(p) = s + p - 1 /\ Line(p) = view[s + p - 1]
  BY DEF PageOf
<1>2. n \in Nat /\ z \in Nat /\ DOMAIN rows = 1..z /\ DOMAIN view = 1..n /\ t \in Nat /\ t <= n
  BY <1>1 DEF Least
<1> HIDE DEF n, z, Idx, Line, t
<1>3. ASSUME NEW p \in 1..z PROVE s + p - 1 \in 1..n /\ s + p - 1 \in s..t
  BY <1>1, <1>2 DEF Greatest
<1>4. ASSUME NEW p \in 1..z PROVE Idx(p) \in 1..n /\ Idx(p) \in s..t /\ view[Idx(p)] = Line(p)
  BY <1>1, <1>3, Zenon
<1>5. LabelledIn(rows, view)
  BY <1>2, <1>4, Zenon DEF LabelledIn, Idx, Line
<1>6. ASSUME NEW i \in s..t PROVE \E p \in 1..z : Idx(p) = i
  <2> DEFINE p == i - s + 1
  <2>1. p \in 1..z /\ s + p - 1 = i
    BY <1>1, <1>2 DEF Greatest
  <2> HIDE DEF p
  <2> QED BY <1>1, <2>1, Zenon
<1>7. {rows[k].idx : k \in DOMAIN rows} = s..t
  <2>1. ASSUME NEW x \in {rows[k].idx : k \in DOMAIN rows} PROVE x \in s..t
    <3>1. PICK p \in 1..z : x = Idx(p)
      BY <1>2, <2>1, Zenon DEF Idx
    <3> QED BY <1>4, <3>1, Zenon
  <2>2. ASSUME NEW x \in s..t PROVE x \in {rows[k].idx : k \in DOMAIN rows}
    <3>1. PICK p \in 1..z : Idx(p) = x
      BY <1>6, <2>2, Zenon
    <3> QED BY <1>2, <3>1, Zenon DEF Idx
  <2> QED BY <2>1, <2>2, Zenon
<1> QED BY <1>1, <1>5, <1>7, Zenon DEF Labels, n, z, t

-----------------------------------------------------------------------------
(* The total that is announced is the length of what can be read. *)
LEMMA TotalIs ==
  ASSUME NEW st, StoreOK(st)
  PROVE  /\ GetFilteredTotal(st) \in Nat
         /\ st.filtered => GetFilteredTotal(st) = Len(View(st))
         /\ Whole(st) => GetFilteredTotal(st) = Len(Shown(st))
         /\ ~st.filtered /\ st.warm > 0 => GetFilteredTotal(st) = st.warm
<1>0. /\ st.warm \in Nat /\ FileSize(st) \in Nat /\ FileSize(st) = MergedLines(st)
      /\ ReadWindow \in Nat \ {0} /\ Len(View(st)) \in Nat
  BY FileSizeIs, ViewIs, PagingAssumption
<1>1. CASE st.warm > 0
  <2>1. GetFilteredTotal(st) = Len(View(st)) /\ View(st) = Shown(st)
    BY <1>0, <1>1, WarmShown, Zenon DEF GetFilteredTotal, View, Shown
  <2>2. ~st.filtered => Len(View(st)) = st.warm
    BY <1>0, <1>1, <2>1, ViewIs, MirrorDown, Zenon
  <2> QED BY <1>0, <2>1, <2>2, Zenon
<1>2. CASE st.warm = 0 /\ ~st.open
  <2>1. GetFilteredTotal(st) = 0
    BY <1>2 DEF GetFilteredTotal
  <2>2. Len(View(st)) = 0
    BY <1>2, ViewIs
  <2>3. Whole(st) => Len(Shown(st)) = 0
    BY <2>2, ViewIs
  <2> QED BY <1>2, <2>1, <2>2, <2>3
<1>3. CASE st.warm = 0 /\ st.open /\ st.filtered
  <2>1. GetFilteredTotal(st) = CountMatches(st) /\ View(st) = Filtered(st, Scanned(st, ReadWindow))
    BY <1>3 DEF GetFilteredTotal, View
  <2>2. CountMatches(st) = Len(View(st))
    BY <1>0, <2>1, CountIs
  <2>3. Whole(st) => View(st) = Shown(st)
    BY ViewIs
  <2> QED BY <1>0, <1>3, <2>1, <2>2, <2>3
<1>4. CASE st.warm = 0 /\ st.open /\ ~st.filtered
  <2>0. ~(st.warm > 0)
    BY <1>4
  <2>1. GetFilteredTotal(st) = FileSize(st)
    BY <1>0, <1>4, <2>0, Zenon DEF GetFilteredTotal
  <2>2. Len(Shown(st)) = FileSize(st)
    <3>1. Shown(st) = Mirror(FileSize(st))
      BY <1>4, <2>0, ViewIs, Zenon
    <3> QED BY <1>0, <3>1, MirrorDown, Zenon
  <2> QED BY <1>0, <1>4, <2>0, <2>1, <2>2, Zenon
<1> QED BY <1>0, <1>1, <1>2, <1>3, <1>4

(* Even for an anchor beyond the view, the window starts within it. *)
LEMMA RefreshStarts ==
  ASSUME NEW total \in Nat, NEW anchor \in Nat \ {0}
  PROVE  LET r == RefreshRange(total, anchor)
         IN  r.s \in Nat \ {0} /\ r.e \in Nat /\ (total > 0 => r.s <= total)
<1>1. PICK h \in Nat : h = WindowSize \div 2 /\ h < WindowSize
  BY PagingAssumption, HalfBound
<1>2. WindowSize \in Nat \ {0}
  BY PagingAssumption
<1>3. QED
  BY <1>1, <1>2 DEF RefreshRange, Greatest, Least

-----------------------------------------------------------------------------
(* Each request. *)

(* What PageExact says of the rows of an answer other than a page. *)
LEMMA OtherExact ==
  ASSUME request'.op # "page", Whole(store') => LabelledIn(answer'.rows, Shown(store'))
  PROVE  PageExact'
<1>1. AskedView' = Shown(store')
  BY Zenon DEF AskedView
<1> QED BY <1>1, Zenon DEF PageExact

LEMMA NoRows ==
  ASSUME NEW view PROVE LabelledIn(<<>>, view)
  BY DEF LabelledIn

LEMMA PageKeeps ==
  ASSUME store \in Stores, NEW s0 \in Nat, NEW e0 \in Nat, Page(s0, e0)
  PROVE  PageExact'
<1> DEFINE s == FirstIdx(s0)
           e == LastIdx(s0, e0)
           view == ViewAt(store, s)
           rows == ReadRangeByIdx(store, s, e)
           n == Len(Shown(store))
<1>0. /\ request' = [op |-> "page", s |-> s0, e |-> e0] /\ answer'.rows = rows /\ store' = store
  BY DEF Page, Answered, PageRequest
<1>1. StoreOK(store) /\ s \in Nat \ {0} /\ e \in Nat /\ store.warm \in Nat
  BY StoresAssumption, FileSizeIs DEF FirstIdx, LastIdx
<1>2. request'.op = "page" /\ request'.s = s0 /\ request'.e = e0
  BY <1>0
<1>3. SUFFICES ASSUME Whole(store)
               PROVE  /\ LabelledIn(rows, view)
                      /\ s <= n => /\ {rows[k].idx : k \in DOMAIN rows} = s..Least(e, n)
                                   /\ Len(rows) = Greatest(0, Least(e, n) - s + 1)
  <2>1. AskedView' = view
    BY <1>0, <1>2, Zenon DEF AskedView
  <2>2. FirstIdx(request'.s) = s /\ LastIdx(request'.s, request'.e) = e /\ Len(Shown(store')) = n
    BY <1>0, <1>2, Zenon
  <2>3. {answer'.rows[k].idx : k \in DOMAIN answer'.rows} = {rows[k].idx : k \in DOMAIN rows}
    BY <1>0, Zenon
  <2> HIDE DEF rows, view, s, e, n
  <2> QED BY <1>0, <2>1, <2>2, <2>3, Zenon DEF PageExact
<1> HIDE DEF s, e
<1>4. PICK s1 \in Nat \ {0}, e1 \in Nat :
        PageOf(rows, view, s1, e1) /\ (s <= n => s1 = s /\ e1 = e)
  <2>1. Reads(store, s, e)
    BY <1>1, <1>3, ReadRangeIs, Zenon
  <2> QED BY <2>1, Zenon DEF Reads
<1>5. view \in Seq(Int)
  BY <1>1, ViewIs DEF ViewAt
<1>6. s <= n => view = Shown(store)
  <2>1. ~store.filtered /\ store.warm > 0 => n = store.warm
    BY <1>1, ViewIs, MirrorDown, Zenon
  <2> QED BY <1>1, <2>1 DEF ViewAt, Beyond
<1> HIDE DEF rows, view
<1>7. /\ LabelledIn(rows, view)
      /\ Len(rows) = Greatest(0, Least(e1, Len(view)) - s1 + 1)
      /\ {rows[k].idx : k \in DOMAIN rows} = s1..Least(e1, Len(view))
  <2>1. s1 \in Nat \ {0} /\ e1 \in Nat /\ PageOf(rows, view, s1, e1)
    BY <1>4, Zenon
  <2>2. LabelledIn(rows, view) /\ Labels(rows, view, s1, e1)
    BY <1>5, <2>1, PageLabelled, Zenon
  <2> QED BY <2>2, Zenon DEF Labels
<1> QED BY <1>4, <1>6, <1>7, Zenon

LEMMA JumpKeeps ==
  ASSUME store \in Stores, NEW idx \in Nat, NEW mode, Jump(idx, mode)
  PROVE  PageExact'
<1> DEFINE total == GetFilteredTotal(store)
           w == JumpRange(total, idx, mode)
           rows == ReadRangeByIdx(store, w.s, w.e)
<1>1. StoreOK(store) /\ total \in Nat
  BY StoresAssumption, TotalIs, Zenon
<1>2. /\ idx \in 1..total /\ request'.op = "jump" /\ answer'.rows = rows /\ store' = store
  BY <1>1 DEF Jump, Answered
<1> HIDE DEF total
<1>3. w.s \in 1..total /\ w.e \in 1..total
  BY <1>1, <1>2, JumpCoversTarget
<1> HIDE DEF w
<1>4. w.s \in Nat \ {0} /\ w.e \in Nat
  BY <1>1, <1>3
<1>5. ASSUME Whole(store) PROVE LabelledIn(rows, Shown(store))
  <2>1. ViewAt(store, w.s) = Shown(store)
    <3>1. ~store.filtered /\ store.warm > 0 => total = store.warm
      BY <1>1, TotalIs DEF total
    <3> QED BY <1>1, <1>3, <3>1 DEF ViewAt, Beyond
  <2>2. PICK s1 \in Nat \ {0}, e1 \in Nat : PageOf(rows, ViewAt(store, w.s), s1, e1)
    BY <1>1, <1>4, <1>5, ReadRangeIs, Zenon DEF Reads
  <2>3. Shown(store) \in Seq(Int)
    BY <1>1, ViewIs
  <2> HIDE DEF rows
  <2> QED BY <2>1, <2>2, <2>3, PageLabelled, Zenon
<1> HIDE DEF rows
<1>6. request'.op # "page" /\ (Whole(store') => LabelledIn(answer'.rows, Shown(store')))
  BY <1>2, <1>5, Zenon
<1> QED BY <1>6, OtherExact

LEMMA RefreshKeeps ==
  ASSUME store \in Stores, NEW follow \in BOOLEAN, NEW jump \in Nat, NEW start \in Nat,
         Refresh(follow, jump, start)
  PROVE  PageExact'
<1> DEFINE total == GetFilteredTotal(store)
           anchor == RefreshAnchor(total, follow, jump, start)
           w == RefreshRange(total, anchor)
           e == LastIdx(w.s, w.e)
           rows == ReadRangeByIdx(store, w.s, e)
<1>1. StoreOK(store) /\ total \in Nat
  BY StoresAssumption, TotalIs
<1>2. request'.op = "refresh" /\ answer'.rows = PageRequest(store, w.s, w.e) /\ store' = store
  BY DEF Refresh, Answered
<1>3. anchor \in Nat \ {0}
  <2> HIDE DEF total
  <2>1. WindowSize \div 2 \in Nat
    BY PagingAssumption, HalfBound
  <2> QED BY <1>1, <2>1 DEF RefreshAnchor, Greatest, Least
<1> HIDE DEF total, anchor
<1>4. w.s \in Nat \ {0} /\ w.e \in Nat /\ (total > 0 => w.s <= total)
  BY <1>1, <1>3, RefreshStarts
<1> HIDE DEF w
<1>5. e \in Nat /\ answer'.rows = rows
  <2>1. FirstIdx(w.s) = w.s /\ e \in Nat
    BY <1>4 DEF FirstIdx, LastIdx
  <2> QED BY <1>2, <2>1, Zenon DEF PageRequest
<1> HIDE DEF e
<1>6. ASSUME Whole(store) PROVE LabelledIn(rows, Shown(store))
  <2>1. ViewAt(store, w.s) = Shown(store)
    <3>1. ~store.filtered /\ store.warm > 0 => total = store.warm
      BY <1>1, TotalIs DEF total
    <3> QED BY <1>1, <1>4, <3>1 DEF ViewAt, Beyond
  <2>2. PICK s1 \in Nat \ {0}, e1 \in Nat : PageOf(rows, ViewAt(store, w.s), s1, e1)
    BY <1>1, <1>4, <1>5, <1>6, ReadRangeIs, Zenon DEF Reads
  <2>3. Shown(store) \in Seq(Int)
    BY <1>1, ViewIs
  <2> HIDE DEF rows
  <2> QED BY <2>1, <2>2, <2>3, PageLabelled, Zenon
<1> HIDE DEF rows
<1>7. request'.op # "page" /\ (Whole(store') => LabelledIn(answer'.rows, Shown(store')))
  BY <1>2, <1>5, <1>6, Zenon
<1> QED BY <1>7, OtherExact

(* The hits of a search are those of the view. *)
LEMMA SearchFinds ==
  ASSUME NEW st, StoreOK(st), Whole(st), NEW term, NEW range, NEW top \in Nat
  PROVE  /\ SearchAll(st, term, range, top) \in Seq(Hit)
         /\ HitsOf(SearchAll(st, term, range, top), Shown(st), term, range, top)
<1>0. st.warm \in Nat /\ SearchWindow \in Nat \ {0} /\ FileSize(st) \in Nat
  BY FileSizeIs, PagingAssumption
<1>1. CASE st.warm > 0
  <2>1. SearchAll(st, term, range, top) = Hits(st, Mirror(st.warm), term, range, top)
    BY <1>0, <1>1, WarmShown DEF SearchAll
  <2>2. Shown(st) = Filtered(st, Mirror(st.warm)) /\ Mirror(st.warm) \in Seq(Int)
    BY <1>0, <1>1, ShownDown, MirrorDown, Zenon DEF Shown
  <2> QED BY <2>1, <2>2, HitsAre
<1>2. CASE st.warm = 0 /\ st.open
  <2>1. SearchAll(st, term, range, top) = Hits(st, Scanned(st, SearchWindow), term, range, top)
    BY <1>2 DEF SearchAll
  <2>2. Shown(st) = Filtered(st, Scanned(st, SearchWindow))
    BY <1>0, <1>2, ScannedShown DEF Shown
  <2>3. Scanned(st, SearchWindow) \in Seq(Int)
    BY <1>0, ScannedDown DEF Down
  <2> QED BY <2>1, <2>2, <2>3, HitsAre
<1>3. CASE st.warm = 0 /\ ~st.open
  <2>1. SearchAll(st, term, range, top) = <<>>
    BY <1>3 DEF SearchAll
  <2>2. Shown(st) = <<>>
    BY <1>3, ViewIs
  <2>3. HitsOf(<<>>, <<>>, term, range, top)
    BY DEF HitsOf
  <2> QED BY <2>1, <2>2, <2>3
<1> QED BY <1>0, <1>1, <1>2, <1>3

LEMMA SearchKeeps ==
  ASSUME store \in Stores, NEW term, NEW lo \in Nat \ {0}, NEW hi \in Nat \ {0}, NEW top \in Nat,
         SearchQuery(term, <<lo, hi>>, top)
  PROVE  PageExact' /\ SearchExact'
<1> DEFINE view == Shown(store)
           range == <<lo, hi>>
           rows == SearchAll(store, term, range, top)
<1>0. /\ request' = [op |-> "search", term |-> term, range |-> range, top |-> top]
      /\ answer'.rows = rows /\ store' = store
  BY DEF SearchQuery, Answered
<1>1. /\ request'.op = "search" /\ request'.term = term /\ request'.top = top
      /\ request'.range[1] = lo /\ request'.range[2] = hi
  BY <1>0
<1>2. \A i \in Nat : Within(range, i) <=> i >= lo /\ i <= hi
  BY DEF Within, Greatest
<1>3. StoreOK(store) /\ view \in Seq(Int) /\ DOMAIN view = 1..Len(view) /\ 1..Len(view) \subseteq Nat
  BY StoresAssumption, ViewIs
<1>4. ASSUME Whole(store)
      PROVE  /\ rows \in Seq(Hit) /\ DOMAIN rows = 1..Len(rows)
             /\ HitsOf(rows, view, term, range, top)
  BY <1>3, <1>4, SearchFinds
<1> HIDE DEF rows, view, range
<1>5. ASSUME Whole(store) PROVE LabelledIn(rows, view)
  BY <1>3, <1>4, <1>5, Zenon DEF LabelledIn, HitsOf
<1>6. PageExact'
  <2>1. request'.op # "page"
    BY <1>1
  <2> QED BY <1>0, <1>5, <2>1, OtherExact, Zenon DEF view
<1>7. SearchExact'
  <2> SUFFICES ASSUME Whole(store) PROVE FirstHits(rows, view, term, lo, hi, top)
    BY <1>0, <1>1, Zenon DEF SearchExact, view
  <2> DEFINE Found(i) == i >= lo /\ i <= hi /\ view[i] \in term
             found == {rows[k].idx : k \in DOMAIN rows}
  <2>1. \A k \in DOMAIN rows : /\ rows[k].idx \in DOMAIN view /\ Found(rows[k].idx)
                               /\ rows[k].line = view[rows[k].idx]
    BY <1>2, <1>3, <1>4, Zenon DEF HitsOf
  <2>2. /\ \A k, l \in DOMAIN rows : k < l => rows[k].idx < rows[l].idx
        /\ top > 0 => Len(rows) <= top
    BY <1>4, Zenon DEF HitsOf
  <2>3. ASSUME NEW i \in DOMAIN view \ found, Found(i)
        PROVE  top > 0 /\ Len(rows) = top /\ \A j \in found : j < i
    <3>1. i \in 1..Len(view) /\ Within(range, i) /\ view[i] \in term
      BY <1>2, <1>3, <2>3, Zenon
    <3>2. \A p \in 1..Len(rows) : rows[p].idx # i
      BY <1>4, <2>3, Zenon
    <3> QED BY <1>4, <3>1, <3>2, ZenonT(40) DEF HitsOf
  <2> QED BY <2>1, <2>2, <2>3, Zenon DEF FirstHits
<1> QED BY <1>6, <1>7

(* The total is that of the rows that can be read. *)
LEMMA TotalKeeps ==
  ASSUME store \in Stores, FilteredTotal
  PROVE  TotalIsReadable'
<1> DEFINE total == GetFilteredTotal(store)
<1>0. request'.op = "total" /\ answer'.total = total /\ store' = store
  BY DEF FilteredTotal, Answered
<1>1. StoreOK(store) /\ total \in Nat
  BY StoresAssumption, TotalIs
<1>2. MaxIndex \in Nat
  BY PagingAssumption
<1>3. SUFFICES ASSUME Countable(store)
               PROVE  /\ total = Len(ReadRangeByIdx(store, 1, Greatest(1, total)))
                      /\ total < MaxIndex /\ store.filtered =>
                           ReadRangeByIdx(store, total + 1, MaxIndex) = <<>>
  <2> HIDE DEF total
  <2> QED BY <1>0, Zenon DEF TotalIsReadable
<1>4. 1 \in Nat \ {0} /\ Greatest(1, total) \in Nat /\ total + 1 \in Nat \ {0}
      /\ Greatest(0, Least(Greatest(1, total), total) - 1 + 1) = total
      /\ (total < MaxIndex => Greatest(0, Least(MaxIndex, total) - (total + 1) + 1) = 0)
  <2> HIDE DEF total
  <2> QED BY <1>1, <1>2 DEF Greatest, Least
<1>5. CASE store.filtered
  <2>1. total = Len(View(store))
    BY <1>1, <1>5, TotalIs, Zenon
  <2> HIDE DEF total
  <2>2. \A s, e \in Nat : ReadRangeByIdx(store, s, e) = ReadRangeFiltered(store, s, e)
    BY <1>5 DEF ReadRangeByIdx
  <2>3. PageOf(ReadRangeByIdx(store, 1, Greatest(1, total)), View(store), 1, Greatest(1, total))
    BY <1>1, <1>4, <2>2, ReadFilteredIs, Zenon
  <2>4. PageOf(ReadRangeByIdx(store, total + 1, MaxIndex), View(store), total + 1, MaxIndex)
    BY <1>1, <1>2, <1>4, <2>2, ReadFilteredIs, ZenonT(30)
  <2>5. Len(ReadRangeByIdx(store, 1, Greatest(1, total))) = total
    BY <1>4, <2>1, <2>3, Zenon DEF PageOf
  <2>6. ASSUME total < MaxIndex PROVE ReadRangeByIdx(store, total + 1, MaxIndex) = <<>>
    <3> DEFINE rows == ReadRangeByIdx(store, total + 1, MaxIndex)
    <3>1. rows \in Seq(Hit) /\ Len(rows) = 0
      BY <1>4, <2>1, <2>4, <2>6, Zenon DEF PageOf
    <3> HIDE DEF rows
    <3>2. rows = <<>>
      BY <3>1
    <3> QED BY <3>2 DEF rows
  <2> QED BY <2>5, <2>6, Zenon
<1>6. CASE ~store.filtered
  <2>1. Whole(store) /\ total = Len(Shown(store)) /\ (store.warm > 0 => total = store.warm)
    BY <1>1, <1>3, <1>6, TotalIs, Zenon DEF Countable
  <2> HIDE DEF total
  <2>2. ViewAt(store, 1) = Shown(store)
    <3>1. store.warm \in Nat
      BY <1>1, FileSizeIs
    <3> QED BY <3>1 DEF ViewAt, Beyond
  <2>3. PICK s \in Nat \ {0}, e \in Nat :
          /\ PageOf(ReadRangeByIdx(store, 1, Greatest(1, total)), Shown(store), s, e)
          /\ 1 <= Len(Shown(store)) => s = 1 /\ e = Greatest(1, total)
    <3> DEFINE e1 == Greatest(1, total)
               view == ViewAt(store, 1)
    <3>1. \E s \in Nat \ {0}, e \in Nat :
            /\ PageOf(ReadRangeByIdx(store, 1, e1), view, s, e)
            /\ 1 <= Len(Shown(store)) => s = 1 /\ e = e1
      <4>1. Reads(store, 1, e1)
        BY <1>1, <1>4, <2>1, ReadRangeIs, Zenon
      <4> QED BY <4>1, Zenon DEF Reads
    <3> HIDE DEF view
    <3>2. view = Shown(store)
      BY <2>2 DEF view
    <3> QED BY <3>1, <3>2, Zenon
  <2>4. Len(ReadRangeByIdx(store, 1, Greatest(1, total))) = Greatest(0, Least(e, total) - s + 1)
    BY <2>1, <2>3, Zenon DEF PageOf
  <2>5. Greatest(0, Least(e, total) - s + 1) = total
    BY <1>1, <2>1, <2>3 DEF Greatest, Least
  <2> QED BY <1>6, <2>4, <2>5, Zenon
<1> QED BY <1>5, <1>6, Zenon

-----------------------------------------------------------------------------
PagingInv == store \in Stores /\ PageExact /\ SearchExact /\ TotalIsReadable

LEMMA PagingStep ==
  ASSUME PagingInv, [PagingNext]_pagingVars
  PROVE  PagingInv'
<1>0. store \in Stores /\ MaxIndex \in Nat
  BY PagingAssumption, Zenon DEF PagingInv
<1>1. ASSUME NEW s0 \in 0..MaxIndex, NEW e0 \in 0..MaxIndex, Page(s0, e0) PROVE PagingInv'
  <2>1. s0 \in Nat /\ e0 \in Nat
    BY <1>0
  <2>2. PageExact'
    BY <1>0, <1>1, <2>1, PageKeeps, ZenonT(30)
  <2>3. request'.op = "page" /\ store' = store
    BY <1>1, Zenon DEF Page, Answered
  <2> QED BY <1>0, <2>2, <2>3, Zenon DEF PagingInv, SearchExact, TotalIsReadable
<1>2. ASSUME FilteredTotal PROVE PagingInv'
  <2>1. TotalIsReadable'
    BY <1>0, <1>2, TotalKeeps, Zenon
  <2>2. request'.op = "total" /\ store' = store /\ answer'.rows = <<>>
    BY <1>2 DEF FilteredTotal, Answered
  <2>3. PageExact'
    <3>1. request'.op # "page" /\ LabelledIn(answer'.rows, Shown(store'))
      BY <2>2, NoRows, Zenon
    <3> QED BY <3>1, OtherExact, Zenon
  <2> QED BY <1>0, <2>1, <2>2, <2>3, ZenonT(30) DEF PagingInv, SearchExact
<1>3. ASSUME NEW term, NEW lo \in 1..MaxIndex, NEW hi \in 1..MaxIndex, NEW top \in 0..2,
             SearchQuery(term, <<lo, hi>>, top)
      PROVE  PagingInv'
  <2>1. lo \in Nat \ {0} /\ hi \in Nat \ {0} /\ top \in Nat
    BY <1>0
  <2>2. PageExact' /\ SearchExact'
    BY <1>0, <1>3, <2>1, SearchKeeps, ZenonT(30)
  <2>3. request'.op = "search" /\ store' = store
    BY <1>3, Zenon DEF SearchQuery, Answered
  <2> QED BY <1>0, <2>2, <2>3, Zenon DEF PagingInv, TotalIsReadable
<1>4. ASSUME NEW idx \in 1..MaxIndex, NEW mode, Jump(idx, mode) PROVE PagingInv'
  <2>1. idx \in Nat
    BY <1>0
  <2>2. PageExact'
    BY <1>0, <1>4, <2>1, JumpKeeps, ZenonT(30)
  <2>3. request'.op = "jump" /\ store' = store
    BY <1>4, Zenon DEF Jump, Answered
  <2> QED BY <1>0, <2>2, <2>3, Zenon DEF PagingInv, SearchExact, TotalIsReadable
<1>5. ASSUME NEW follow \in BOOLEAN, NEW jump \in 0..MaxIndex, NEW start \in 1..MaxIndex,
             Refresh(follow, jump, start)
      PROVE  PagingInv'
  <2>1. jump \in Nat /\ start \in Nat
    BY <1>0
  <2>2. PageExact'
    BY <1>0, <1>5, <2>1, RefreshKeeps, ZenonT(30)
  <2>3. request'.op = "refresh" /\ store' = store
    BY <1>5, Zenon DEF Refresh, Answered
  <2> QED BY <1>0, <2>2, <2>3, ZenonT(30) DEF PagingInv, SearchExact, TotalIsReadable
<1>6. ASSUME Sent PROVE PagingInv'
  <2>1. request'.op = "none" /\ store' = store /\ answer'.rows = <<>>
    BY <1>6, Zenon DEF Sent, NoAnswer
  <2>2. PageExact'
    <3>1. request'.op # "page" /\ LabelledIn(answer'.rows, Shown(store'))
      BY <2>1, NoRows, ZenonT(40)
    <3> QED BY <3>1, OtherExact
  <2> QED BY <1>0, <2>1, <2>2, Zenon DEF PagingInv, SearchExact, TotalIsReadable
<1>7. CASE UNCHANGED pagingVars
  BY <1>7, Zenon DEF pagingVars, PagingInv, PageExact, SearchExact, TotalIsReadable, AskedView
<1>8. CASE Request
  BY <1>1, <1>2, <1>3, <1>4, <1>5, <1>8, Zenon DEF Request
<1> QED BY <1>6, <1>7, <1>8, Zenon DEF PagingNext

LEMMA PagingInvariant == PagingSpec => []PagingInv
<1>1. PagingInit => PagingInv
  <2> SUFFICES ASSUME PagingInit PROVE PagingInv
    OBVIOUS
  <2>1. store \in Stores /\ request.op = "none" /\ answer.rows = <<>>
    BY DEF PagingInit, NoAnswer
  <2>2. PageExact
    BY <2>1 DEF PageExact, LabelledIn
  <2> QED BY <2>1, <2>2, Zenon DEF PagingInv, SearchExact, TotalIsReadable
<1> QED BY <1>1, PagingStep, PTL DEF PagingSpec

(* Whatever the chunks, the filter, the windows and the page size: every   *)
(* row an answer labels i is the i-th line of the view, and a page that    *)
(* starts within the view has all the rows it asks for.                    *)
THEOREM PagesAreExact == PagingSpec => []PageExact
<1>1. PagingInv => PageExact
  BY Zenon DEF PagingInv
<1> QED BY <1>1, PagingInvariant, PTL

(* searchAll finds the first hits of the view, for any store, range and    *)
(* term, though it reads the file window by window.                        *)
THEOREM SearchesAreExact == PagingSpec => []SearchExact
<1>1. PagingInv => SearchExact
  BY Zenon DEF PagingInv
<1> QED BY <1>1, PagingInvariant, PTL

(* getFilteredTotal, counting from the newest line on, announces as many   *)
(* rows as readRangeByIdx, scanning from the oldest, can return; with a    *)
(* filter even when chunk files are missing.                               *)
THEOREM TotalsAreReadable == PagingSpec => []TotalIsReadable
<1>1. PagingInv => TotalIsReadable
  BY DEF PagingInv
<1> QED BY <1>1, PagingInvariant, PTL

=============================================================================
