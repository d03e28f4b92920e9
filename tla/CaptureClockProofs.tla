------------------------- MODULE CaptureClockProofs -------------------------
(***************************************************************************)
(* What holds of CaptureClock for any schedule, zone, duration and         *)
(* interval, with any number of pauses.                                    *)
(*                                                                         *)
(* First the schedule by itself: what the intervals of a window are when   *)
(* its times show once, twice or never, which dates' windows an instant    *)
(* can be in, and how the answer goes on with the time.  Then the session: *)
(* its deadlines, its active time and its sleeps.                          *)
(***************************************************************************)
EXTENDS CaptureClock, FiniteSetTheorems, WellFoundedInduction, TLAPS

-----------------------------------------------------------------------------
(* Arithmetic.                                                               *)

\* The quotient counts the whole intervals that fit.
LEMMA Quotient ==
    ASSUME NEW a \in Nat, NEW b \in Nat \ {0}
    PROVE  /\ a \div b \in Nat
           /\ (a \div b) * b <= a
           /\ a < (a \div b + 1) * b
<1>1. a \div b \in Nat
  BY SMT
<1>2. a = b * (a \div b) + (a % b) /\ a % b \in 0..(b - 1)
  BY SMT
<1> DEFINE q == a \div b
<1>3. q \in Nat /\ a = b * q + (a % b)
  BY <1>1, <1>2
<1> HIDE DEF q
<1>4. q * b <= a /\ a < (q + 1) * b
  BY <1>2, <1>3
<1>5. QED
  BY <1>1, <1>4 DEF q

\* Whole intervals leave no remainder.
LEMMA Multiple ==
    ASSUME NEW k \in Nat, NEW b \in Nat \ {0}
    PROVE  (k * b) % b = 0 /\ k * b \in Nat
  BY SMT

\* Max is a clamp at zero that lets natural numbers through.
LEMMA ClampAtZero ==
    ASSUME NEW a \in Nat
    PROVE  Max({0, a}) = a
<1>1. \A x \in {0, a}: (\A y \in {0, a}: x >= y) <=> x = a
  OBVIOUS
<1>2. QED
  BY <1>1 DEF Max

-----------------------------------------------------------------------------
(* Least and greatest numbers.                                               *)

\* A set of natural numbers has a least one.
LEMMA LeastNatural ==
    ASSUME NEW S \in SUBSET Nat, S # {}
    PROVE  \E x \in S: \A y \in S: x <= y
<1>1. PICK x \in S: \A y \in S: <<y, x>> \notin OpToRel(<, Nat)
  BY NatLessThanWellFounded, WFMin, Zenon
<1>2. \A y \in S: ~(y < x)
  BY <1>1, Zenon DEF OpToRel
<1>3. QED
  BY <1>2

\* Min finds the least of numbers that have a bound below.
LEMMA MinAbove ==
    ASSUME NEW S \in SUBSET Int, S # {}, NEW bound \in Int, \A x \in S: bound <= x
    PROVE  Min(S) \in S /\ \A y \in S: Min(S) <= y
<1> DEFINE heights == {h \in Nat: bound + h \in S}
<1>1. heights # {}
  <2>1. PICK x \in S: TRUE
    OBVIOUS
  <2>2. x - bound \in heights
    BY <2>1
  <2>3. QED
    BY <2>2
<1>2. PICK h \in heights: \A k \in heights: h <= k
  <2> HIDE DEF heights
  <2>1. heights \in SUBSET Nat
    BY DEF heights
  <2>2. QED
    BY <1>1, <2>1, LeastNatural
<1>3. bound + h \in S /\ \A y \in S: bound + h <= y
  <2>1. \A y \in S: y - bound \in heights
    OBVIOUS
  <2>2. QED
    BY <1>2, <2>1
<1>4. QED
  BY <1>3, Zenon DEF Min

\* The least and the greatest of one number.
LEMMA MinOfOne ==
    ASSUME NEW a \in Int
    PROVE  Min({a}) = a /\ Max({a}) = a
  BY DEF Min, Max

\* The least and the greatest of two numbers.
LEMMA MinOfTwo ==
    ASSUME NEW a \in Int, NEW b \in Int
    PROVE  /\ Min({a, b}) = IF a <= b THEN a ELSE b
           /\ Max({a, b}) = IF a <= b THEN b ELSE a
<1> DEFINE low == IF a <= b THEN a ELSE b
           high == IF a <= b THEN b ELSE a
<1>1. \A x \in {a, b}: (\A y \in {a, b}: x <= y) <=> x = low
  OBVIOUS
<1>2. \A x \in {a, b}: (\A y \in {a, b}: x >= y) <=> x = high
  OBVIOUS
<1>3. low \in {a, b} /\ high \in {a, b}
  OBVIOUS
<1> HIDE DEF low, high
<1>4. Min({a, b}) = low /\ Max({a, b}) = high
  BY <1>1, <1>2, <1>3 DEF Min, Max
<1>5. QED
  BY <1>4 DEF low, high

-----------------------------------------------------------------------------
(* Wall times.                                                               *)

\* The clock shows the time w twice.
Repeated(z, w) == z.transition + z.shift <= w /\ w < z.transition

\* The instant that shows a time first, or, in the gap, that would have shown it.
FirstShowing(z, w) ==
    IF w < z.transition \/ w < z.transition + z.shift THEN w ELSE w - z.shift

\* A wall time shows twice if it is repeated, never in the gap, and once otherwise.
LEMMA ShowingsOf ==
    ASSUME NEW z \in Zones, NEW w \in Int
    PROVE  /\ Repeated(z, w) => /\ Showings(z, w) = {w, w - z.shift}
                                /\ w < z.transition /\ z.transition <= w - z.shift
           /\ ~Repeated(z, w) =>
                 Showings(z, w) = IF z.transition <= w /\ w < z.transition + z.shift THEN {}
                                  ELSE {FirstShowing(z, w)}
<1> USE DEF Zones, Showings, WallTime, UtcOffset, Repeated, FirstShowing
<1>0. z.transition \in Int /\ z.shift \in Int
  OBVIOUS
<1>1. ASSUME Repeated(z, w)
      PROVE  /\ Showings(z, w) = {w, w - z.shift}
             /\ w < z.transition /\ z.transition <= w - z.shift
  BY <1>0, <1>1
<1>2. ASSUME ~Repeated(z, w)
      PROVE  Showings(z, w) = IF z.transition <= w /\ w < z.transition + z.shift THEN {}
                              ELSE {FirstShowing(z, w)}
  BY <1>0, <1>2
<1>3. QED
  BY <1>1, <1>2

\* The candidates are the showings; a time in the gap stands for the instant at which the
\* clock would have shown it.
LEMMA CandidatesOf ==
    ASSUME NEW z \in Zones, NEW w \in Int
    PROVE  WallTimeCandidates(z, w) =
              IF Repeated(z, w) THEN {w, w - z.shift} ELSE {FirstShowing(z, w)}
<1>0. z.transition \in Int /\ z.shift \in Int
  BY DEF Zones
<1>1. CASE Repeated(z, w)
  BY <1>1, ShowingsOf DEF WallTimeCandidates
<1>2. CASE ~Repeated(z, w)
  BY <1>0, <1>2, ShowingsOf DEF WallTimeCandidates, FirstShowing
<1>3. QED
  BY <1>1, <1>2

\* Only the times of the gap move.
LEMMA MovedTo ==
    ASSUME NEW z \in Zones, NEW w \in Int
    PROVE  MovedOutOfGap(z, w) =
              IF z.transition <= w /\ w < z.transition + z.shift THEN w + z.shift ELSE w
<1>0. z.transition \in Int /\ z.shift \in Int
  BY DEF Zones
<1>1. QED
  BY <1>0, ShowingsOf DEF MovedOutOfGap, Repeated

-----------------------------------------------------------------------------
(* A window: the intervals of instants that two wall times of one window mean. *)

\* The bisection finds the change.
LEMMA TransitionBetween ==
    ASSUME NEW z \in Zones, z.shift # 0, NEW earlier \in Int, NEW later \in Int,
           earlier < z.transition, z.transition <= later
    PROVE  FindOffsetTransition(z, earlier, later) = z.transition
<1> DEFINE changed == {later} \cup {utc \in (earlier + 1)..later:
                                       UtcOffset(z, utc) # UtcOffset(z, earlier)}
<1>0. z.transition \in Int /\ z.shift \in Int
  BY DEF Zones
<1>1. changed = z.transition..later
  BY <1>0 DEF UtcOffset
<1>2. \A x \in changed: (\A y \in changed: x <= y) <=> x = z.transition
  BY <1>0, <1>1
<1>3. z.transition \in changed
  BY <1>0, <1>1
<1> HIDE DEF changed
<1>4. Min(changed) = z.transition
  BY <1>2, <1>3 DEF Min
<1>5. QED
  BY <1>4 DEF FindOffsetTransition, changed

WindowIntervals(z, from, to) ==
    Intervals(z, WallTimeCandidates(z, from), WallTimeCandidates(z, to))

Between(start, end) == [start |-> start, end |-> end]

\* As many starts as ends: each start goes to the end after it.
NextEnd(ends, s) == Min({e \in ends: e > s})

\* The intervals then, one by one.
LEMMA PlainIntervals ==
    ASSUME NEW z, NEW starts, NEW ends, Cardinality(starts) = Cardinality(ends)
    PROVE  \A i: i \in Intervals(z, starts, ends) <=>
                    \E s \in starts: (\E e \in ends: e > s) /\ i = Between(s, NextEnd(ends, s))
<1>1. /\ ~(Cardinality(starts) = 1 /\ Cardinality(ends) = 2)
      /\ ~(Cardinality(starts) = 2 /\ Cardinality(ends) = 1)
  OBVIOUS
<1>2. Intervals(z, starts, ends) =
        {[start |-> s, end |-> Min({e \in ends: e > s})]: s \in {s \in starts: \E e \in ends: e > s}}
  BY <1>1, Zenon DEF Intervals
<1>3. QED
  BY <1>2, Zenon DEF Between, NextEnd

\* One candidate for each end of the window.
LEMMA OneInterval ==
    ASSUME NEW z, NEW s \in Int, NEW e \in Int
    PROVE  Intervals(z, {s}, {e}) = IF s < e THEN {Between(s, e)} ELSE {}
<1>1. Cardinality({s}) = Cardinality({e})
  BY FS_Singleton
<1>2. s < e => NextEnd({e}, s) = e
  <2>1. s < e => {y \in {e}: y > s} = {e}
    OBVIOUS
  <2>2. QED
    BY <2>1, MinOfOne DEF NextEnd
<1>3. \A i: i \in Intervals(z, {s}, {e}) <=> e > s /\ i = Between(s, NextEnd({e}, s))
  BY <1>1, PlainIntervals
<1>4. QED
  BY <1>2, <1>3

\* Two instants, in order.
LEMMA TwoOfThem ==
    ASSUME NEW a \in Int, NEW b \in Int, a < b
    PROVE  Cardinality({a, b}) = 2 /\ Min({a, b}) = a /\ Max({a, b}) = b
<1>1. Cardinality({a} \cup {b}) = 2
  <2>1. IsFiniteSet({a}) /\ Cardinality({a}) = 1
    BY FS_Singleton
  <2>2. QED
    BY <2>1, FS_AddElement
<1>2. {a} \cup {b} = {a, b}
  OBVIOUS
<1>3. QED
  BY <1>1, <1>2, MinOfTwo

\* What a window means, whichever of its times show once, twice or never.
LEMMA WindowIs ==
    ASSUME NEW z \in Zones, NEW from \in Int, NEW to \in Int, from < to
    PROVE  WindowIntervals(z, from, to) =
             IF Repeated(z, from)
             THEN IF Repeated(z, to)
                  THEN {Between(from, to), Between(from - z.shift, to - z.shift)}
                  ELSE {Between(from, z.transition), Between(from - z.shift, FirstShowing(z, to))}
             ELSE IF Repeated(z, to)
                  THEN {Between(FirstShowing(z, from), to), Between(z.transition, to - z.shift)}
                  ELSE IF FirstShowing(z, from) < FirstShowing(z, to)
                       THEN {Between(FirstShowing(z, from), FirstShowing(z, to))}
                       ELSE {}
<1>0. z.transition \in Int /\ z.shift \in Int
  BY DEF Zones
<1>1. CASE ~Repeated(z, from) /\ ~Repeated(z, to)
  <2>1. FirstShowing(z, from) \in Int /\ FirstShowing(z, to) \in Int
    BY <1>0 DEF FirstShowing
  <2>2. WindowIntervals(z, from, to) = Intervals(z, {FirstShowing(z, from)}, {FirstShowing(z, to)})
    BY <1>1, CandidatesOf DEF WindowIntervals
  <2>3. QED
    BY <1>1, <2>1, <2>2, OneInterval
<1>2. CASE ~Repeated(z, from) /\ Repeated(z, to)
  <2> DEFINE s == FirstShowing(z, from)
             starts == {s}
             ends == {to, to - z.shift}
  <2>1. s = from /\ from < to /\ to < z.transition /\ z.transition <= to - z.shift /\ z.shift # 0
    BY <1>0, <1>2 DEF Repeated, FirstShowing
  <2>2. Cardinality(starts) = 1 /\ Min(starts) = s
    BY <2>1, FS_Singleton, MinOfOne
  <2>3. Cardinality(ends) = 2 /\ Min(ends) = to /\ Max(ends) = to - z.shift
    BY <1>0, <2>1, TwoOfThem
  <2>4. FindOffsetTransition(z, to, to - z.shift) = z.transition
    BY <1>0, <2>1, TransitionBetween
  <2>5. WindowIntervals(z, from, to) = Intervals(z, starts, ends)
    BY <1>2, CandidatesOf DEF WindowIntervals
  <2> HIDE DEF starts, ends
  <2>6. Intervals(z, starts, ends) = {Between(s, to), Between(z.transition, to - z.shift)}
    BY <2>1, <2>2, <2>3, <2>4 DEF Intervals, Between
  <2>7. QED
    BY <1>2, <2>5, <2>6
<1>3. CASE Repeated(z, from) /\ ~Repeated(z, to)
  <2> DEFINE e == FirstShowing(z, to)
             starts == {from, from - z.shift}
             ends == {e}
  <2>1. /\ from < z.transition /\ z.transition <= from - z.shift /\ z.shift # 0
        /\ e = to - z.shift /\ e \in Int /\ from - z.shift < e
    BY <1>0, <1>3 DEF Repeated, FirstShowing
  <2>2. Cardinality(ends) = 1 /\ Min(ends) = e
    BY <2>1, FS_Singleton, MinOfOne
  <2>3. Cardinality(starts) = 2 /\ Min(starts) = from /\ Max(starts) = from - z.shift
    <3>1. from < from - z.shift /\ from - z.shift \in Int
      BY <1>0, <2>1
    <3>2. QED
      BY <3>1, TwoOfThem
  <2>4. FindOffsetTransition(z, from, from - z.shift) = z.transition
    BY <1>0, <2>1, TransitionBetween
  <2>5. WindowIntervals(z, from, to) = Intervals(z, starts, ends)
    BY <1>3, CandidatesOf DEF WindowIntervals
  <2> HIDE DEF starts, ends, e
  <2>6. Intervals(z, starts, ends) = {Between(from, z.transition), Between(from - z.shift, e)}
    BY <2>1, <2>2, <2>3, <2>4 DEF Intervals, Between
  <2>7. QED
    BY <1>3, <2>5, <2>6 DEF e
<1>4. CASE Repeated(z, from) /\ Repeated(z, to)
  <2> DEFINE starts == {from, from - z.shift}
             ends == {to, to - z.shift}
  <2>1. /\ from < to /\ to < z.transition /\ z.transition <= from - z.shift
        /\ from - z.shift < to - z.shift
    BY <1>0, <1>4 DEF Repeated
  <2>2. Cardinality(starts) = 2 /\ Cardinality(ends) = 2
    BY <1>0, <2>1, TwoOfThem
  <2>3. WindowIntervals(z, from, to) = Intervals(z, starts, ends)
    BY <1>4, CandidatesOf DEF WindowIntervals
  <2>4. {e \in ends: e > from} = {to, to - z.shift} /\ {e \in ends: e > from - z.shift} = {to - z.shift}
    BY <1>0, <2>1
  <2>5. NextEnd(ends, from) = to /\ NextEnd(ends, from - z.shift) = to - z.shift
    <3>1. to < to - z.shift /\ to - z.shift \in Int
      BY <1>0, <2>1
    <3>2. QED
      BY <2>4, <3>1, MinOfTwo, MinOfOne DEF NextEnd
  <2>6. \A i: i \in Intervals(z, starts, ends) <=>
               \E s \in starts: (\E e \in ends: e > s) /\ i = Between(s, NextEnd(ends, s))
    <3> HIDE DEF starts, ends
    <3>1. QED
      BY <2>2, PlainIntervals
  <2>7. \A s \in starts: \E e \in ends: e > s
    BY <1>0, <2>1
  <2>8. Intervals(z, starts, ends) = {Between(from, to), Between(from - z.shift, to - z.shift)}
    <3>1. \A i: i \in Intervals(z, starts, ends) <=> \E s \in starts: i = Between(s, NextEnd(ends, s))
      BY <2>6, <2>7, Zenon
    <3>2. QED
      BY <2>5, <3>1
  <2>9. QED
    BY <1>4, <2>3, <2>8
<1>5. QED
  BY <1>1, <1>2, <1>3, <1>4

\* An instant lies in the window.
InWindow(z, from, to, utc) ==
    \E i \in WindowIntervals(z, from, to): i.start <= utc /\ utc < i.end

\* An instant lies in the window exactly when the clock on the wall shows a time
\* between its ends: one that shows twice counts twice, one that never shows stands
\* for the time it moves to.
LEMMA ShownInWindow ==
    ASSUME NEW z \in Zones, NEW from \in Int, NEW to \in Int, from < to, NEW utc \in Int
    PROVE  InWindow(z, from, to, utc) <=>
             /\ MovedOutOfGap(z, from) <= WallTime(z, utc)
             /\ WallTime(z, utc) < MovedOutOfGap(z, to)
<1>0. z.transition \in Int /\ z.shift \in Int
  BY DEF Zones
<1>1. WallTime(z, utc) = IF utc < z.transition THEN utc ELSE utc + z.shift
  BY <1>0 DEF WallTime, UtcOffset
<1>2. \A s, e: Between(s, e).start = s /\ Between(s, e).end = e
  BY DEF Between
<1>3. CASE Repeated(z, from) /\ Repeated(z, to)
  <2>1. InWindow(z, from, to, utc) <=> \/ from <= utc /\ utc < to
                                       \/ from - z.shift <= utc /\ utc < to - z.shift
    BY <1>2, <1>3, WindowIs DEF InWindow
  <2>2. QED
    BY <1>0, <1>1, <1>3, <2>1, MovedTo DEF Repeated
<1>4. CASE Repeated(z, from) /\ ~Repeated(z, to)
  <2>1. InWindow(z, from, to, utc) <=> \/ from <= utc /\ utc < z.transition
                                       \/ from - z.shift <= utc /\ utc < FirstShowing(z, to)
    BY <1>2, <1>4, WindowIs DEF InWindow
  <2>2. QED
    BY <1>0, <1>1, <1>4, <2>1, MovedTo DEF Repeated, FirstShowing
<1>5. CASE ~Repeated(z, from) /\ Repeated(z, to)
  <2>1. InWindow(z, from, to, utc) <=> \/ FirstShowing(z, from) <= utc /\ utc < to
                                       \/ z.transition <= utc /\ utc < to - z.shift
    BY <1>2, <1>5, WindowIs DEF InWindow
  <2>2. QED
    BY <1>0, <1>1, <1>5, <2>1, MovedTo DEF Repeated, FirstShowing
<1>6. CASE ~Repeated(z, from) /\ ~Repeated(z, to)
  <2>0. FirstShowing(z, from) \in Int /\ FirstShowing(z, to) \in Int
    BY <1>0 DEF FirstShowing
  <2>1. InWindow(z, from, to, utc) <=> FirstShowing(z, from) <= utc /\ utc < FirstShowing(z, to)
    BY <1>2, <1>6, <2>0, WindowIs DEF InWindow
  <2>2. QED
    BY <1>0, <1>1, <1>6, <2>1, MovedTo DEF Repeated, FirstShowing
<1>7. QED
  BY <1>3, <1>4, <1>5, <1>6

-----------------------------------------------------------------------------
(* Dates.                                                                    *)

Midnight(date) == date * DayLength

\* Midnights are a day apart.
LEMMA Midnights ==
    ASSUME NEW date \in Int
    PROVE  /\ Midnight(date) \in Int
           /\ Midnight(date + 1) = Midnight(date) + DayLength
           /\ Midnight(date + 2) = Midnight(date) + DayLength + DayLength
  BY CalendarAssumption, SMT DEF Midnight

\* A later date has a later midnight.
LEMMA MidnightsGoOn ==
    ASSUME NEW d \in Int, NEW e \in Int
    PROVE  Midnight(d) < Midnight(e) <=> d < e
<1>1. DayLength \in Int /\ DayLength > 0
  BY CalendarAssumption
<1>2. d < e => d * DayLength < e * DayLength
  BY <1>1, SMT
<1>3. ~(d < e) => ~(d * DayLength < e * DayLength)
  BY <1>1, SMT
<1>4. QED
  BY <1>2, <1>3 DEF Midnight

\* The quotient is the date: the last one whose midnight is not later.
LEMMA DateOf ==
    ASSUME NEW x \in Int, NEW date \in Int
    PROVE  /\ x \div DayLength \in Int
           /\ Midnight(date) <= x <=> date <= x \div DayLength
<1> DEFINE q == x \div DayLength
           r == x % DayLength
<1>1. DayLength \in Int /\ DayLength > 0
  BY CalendarAssumption
<1>2. q \in Int /\ r \in Int /\ 0 <= r /\ r < DayLength /\ x = DayLength * q + r
  BY <1>1, SMT
<1> HIDE DEF q, r
<1>3. x = Midnight(q) + r
  BY <1>1, <1>2 DEF Midnight
<1>4. CASE date <= q
  <2>1. Midnight(date) <= Midnight(q)
    BY <1>1, <1>2, <1>4, SMT DEF Midnight
  <2>2. QED
    BY <1>2, <1>3, <1>4, <2>1, Midnights DEF q
<1>5. CASE q < date
  <2>1. Midnight(q + 1) <= Midnight(date)
    BY <1>1, <1>2, <1>5, SMT DEF Midnight
  <2>2. QED
    BY <1>1, <1>2, <1>3, <1>5, <2>1, Midnights DEF q
<1>6. QED
  BY <1>2, <1>4, <1>5 DEF q

\* A change of the clock, with the times that are skipped, the times they move to and
\* the times that repeat, belongs to a single date.
ChangesWithinADay(z) ==
    LET touched == z.transition..(z.transition + 2 * z.shift - 1)
                   \cup (z.transition + z.shift)..(z.transition - 1)
    IN  \A v, w \in touched: v \div DayLength = w \div DayLength

\* The date of such a change.
LEMMA DateOfChange ==
    ASSUME NEW z \in Zones, ChangesWithinADay(z)
    PROVE  \E date \in Int:
             /\ z.shift > 0 => /\ Midnight(date) <= z.transition
                               /\ z.transition + z.shift + z.shift <= Midnight(date) + DayLength
             /\ z.shift < 0 => /\ Midnight(date) <= z.transition + z.shift
                               /\ z.transition <= Midnight(date) + DayLength
<1>0. z.transition \in Int /\ z.shift \in Int /\ DayLength \in Int
  BY CalendarAssumption DEF Zones
<1>1. CASE z.shift > 0
  <2> DEFINE last == z.transition + 2 * z.shift - 1
             date == z.transition \div DayLength
  <2>1. last \in Int /\ last = z.transition + z.shift + z.shift - 1 /\ z.transition <= last
    BY <1>0, <1>1
  <2>2. last \div DayLength = date
    BY <1>0, <1>1, <2>1 DEF ChangesWithinADay
  <2>3. date \in Int /\ Midnight(date) <= z.transition
    BY <1>0, DateOf
  <2>4. ~(Midnight(date + 1) <= last)
    <3>1. date + 1 \in Int /\ ~(date + 1 <= date)
      BY <2>3
    <3> HIDE DEF date, last
    <3>2. QED
      BY <2>1, <2>2, <3>1, DateOf
  <2> HIDE DEF date, last
  <2>5. last < Midnight(date) + DayLength
    BY <1>0, <2>1, <2>3, <2>4, Midnights
  <2>6. QED
    BY <1>0, <1>1, <2>1, <2>3, <2>5, Midnights
<1>2. CASE z.shift < 0
  <2> DEFINE first == z.transition + z.shift
             date == first \div DayLength
  <2>1. first \in Int /\ z.transition - 1 \in Int /\ first <= z.transition - 1
    BY <1>0, <1>2
  <2>2. (z.transition - 1) \div DayLength = date
    BY <1>0, <1>2, <2>1 DEF ChangesWithinADay
  <2> HIDE DEF first
  <2>3. date \in Int /\ Midnight(date) <= first
    BY <2>1, DateOf
  <2>4. ~(Midnight(date + 1) <= z.transition - 1)
    <3>1. date + 1 \in Int /\ ~(date + 1 <= date)
      BY <2>3
    <3> HIDE DEF date
    <3>2. QED
      BY <2>1, <2>2, <3>1, DateOf
  <2> HIDE DEF date
  <2>5. z.transition - 1 < Midnight(date) + DayLength
    BY <1>0, <2>1, <2>3, <2>4, Midnights
  <2>6. QED
    BY <1>0, <1>2, <2>1, <2>3, <2>5, Midnights DEF first
<1>3. CASE z.shift = 0
  BY <1>3
<1>4. QED
  BY <1>0, <1>1, <1>2, <1>3

\* Every instant has a date.
LEMMA InstantHasDate ==
    ASSUME NEW z \in Zones, NEW utc \in Int
    PROVE  LocalDate(z, utc) \in Int
<1>1. WallTime(z, utc) \in Int
  BY DEF Zones, WallTime, UtcOffset
<1>2. QED
  BY <1>1, DateOf DEF LocalDate

\* The clock on the wall may go back, but not to the day before.
LEMMA DatesGoOn ==
    ASSUME NEW z \in Zones, ChangesWithinADay(z), NEW u \in Int, NEW v \in Int, u <= v
    PROVE  /\ LocalDate(z, u) \in Int /\ LocalDate(z, v) \in Int
           /\ LocalDate(z, u) <= LocalDate(z, v)
<1>0. z.transition \in Int /\ z.shift \in Int /\ DayLength \in Int
  BY CalendarAssumption DEF Zones
<1>1. /\ WallTime(z, u) \in Int /\ WallTime(z, v) \in Int
      /\ WallTime(z, u) = IF u < z.transition THEN u ELSE u + z.shift
      /\ WallTime(z, v) = IF v < z.transition THEN v ELSE v + z.shift
  BY <1>0 DEF WallTime, UtcOffset
<1>2. LocalDate(z, u) \in Int /\ LocalDate(z, v) \in Int
  BY <1>1, DateOf DEF LocalDate
<1>3. /\ Midnight(LocalDate(z, u)) <= WallTime(z, u)
      /\ Midnight(LocalDate(z, u)) <= WallTime(z, v) <=> LocalDate(z, u) <= LocalDate(z, v)
  BY <1>1, <1>2, DateOf DEF LocalDate
<1>4. CASE WallTime(z, u) <= WallTime(z, v)
  BY <1>1, <1>2, <1>3, <1>4, Midnights
<1>5. CASE WallTime(z, v) < WallTime(z, u)
  <2>1. z.shift < 0 /\ u < z.transition /\ z.transition <= v
    BY <1>0, <1>1, <1>5
  <2>2. PICK date \in Int: /\ Midnight(date) <= z.transition + z.shift
                           /\ z.transition <= Midnight(date) + DayLength
    BY <2>1, DateOfChange
  <2>3. Midnight(date) <= WallTime(z, v) /\ ~(Midnight(date + 1) <= WallTime(z, u))
    BY <1>0, <1>1, <2>1, <2>2, Midnights
  <2>4. date <= LocalDate(z, v) /\ ~(date + 1 <= LocalDate(z, u))
    <3>1. date + 1 \in Int
      OBVIOUS
    <3>2. QED
      BY <1>1, <2>3, <3>1, DateOf DEF LocalDate
  <2>5. QED
    BY <1>2, <2>4
<1>6. QED
  BY <1>1, <1>2, <1>4, <1>5

\* A time of day ends the window of its date, or of the date after.
LEMMA WindowOfDate ==
    ASSUME NEW s \in AllSchedules, NEW date \in Int
    PROVE  /\ StartWall(s, date) \in Int /\ EndWall(s, date) \in Int
           /\ Midnight(date) <= StartWall(s, date)
           /\ StartWall(s, date) < Midnight(date) + DayLength
           /\ StartWall(s, date) < EndWall(s, date)
           /\ EndWall(s, date) < Midnight(date + 2)
<1>1. DayLength \in Nat \ {0} /\ None \notin Int
  BY CalendarAssumption
<1>2. WindowStart(s) \in 0..(DayLength - 1) /\ WindowEnd(s) \in 0..DayLength
  BY <1>1 DEF AllSchedules, Schedules, WindowStart, WindowEnd
<1>3. StartWall(s, date) = Midnight(date) + WindowStart(s)
  BY DEF StartWall, Midnight
<1>4. EndWall(s, date) = Midnight(date) + WindowEnd(s)
                         + IF WindowEnd(s) <= WindowStart(s) THEN DayLength ELSE 0
  BY DEF EndWall, Midnight
<1>5. Midnight(date) \in Int /\ Midnight(date + 2) = Midnight(date) + DayLength + DayLength
  BY Midnights
<1>6. QED
  BY <1>1, <1>2, <1>3, <1>4, <1>5

\* The windows that an instant can be in are those of its date and of the date before.
LEMMA WindowOfTheDay ==
    ASSUME NEW z \in Zones, ChangesWithinADay(z),
           NEW s \in AllSchedules,
           NEW date \in Int, NEW utc \in Int,
           InWindow(z, StartWall(s, date), EndWall(s, date), utc)
    PROVE  date \in (LocalDate(z, utc) - 1)..LocalDate(z, utc)
<1> DEFINE from == StartWall(s, date)
           to == EndWall(s, date)
           wall == WallTime(z, utc)
<1>0. z.transition \in Int /\ z.shift \in Int /\ DayLength \in Nat \ {0}
  BY CalendarAssumption DEF Zones
<1>1. /\ from \in Int /\ to \in Int /\ Midnight(date) <= from /\ from < to
      /\ to < Midnight(date + 2)
  BY WindowOfDate
<1> HIDE DEF from, to
<1>2. wall \in Int
  BY <1>0 DEF WallTime, UtcOffset
<1>3. LocalDate(z, utc) \in Int
  BY <1>2, DateOf DEF LocalDate
<1>4. MovedOutOfGap(z, from) <= wall /\ wall < MovedOutOfGap(z, to)
  BY <1>1, ShownInWindow DEF from, to
<1>5. /\ Midnight(date) \in Int /\ Midnight(date + 2) \in Int
      /\ Midnight(date + 2) = Midnight(date) + DayLength + DayLength
  BY Midnights
<1>6. date <= LocalDate(z, utc)
  <2>1. from <= MovedOutOfGap(z, from) /\ MovedOutOfGap(z, from) \in Int
    BY <1>0, <1>1, MovedTo
  <2>2. Midnight(date) <= wall
    BY <1>1, <1>2, <1>4, <1>5, <2>1
  <2>3. QED
    BY <1>2, <2>2, DateOf DEF LocalDate
<1>7. ~(Midnight(date + 2) <= wall)
  <2>1. CASE z.transition <= to /\ to < z.transition + z.shift
    <3>1. PICK day \in Int: /\ Midnight(day) <= z.transition
                            /\ z.transition + z.shift + z.shift <= Midnight(day) + DayLength
      BY <1>0, <1>1, <2>1, DateOfChange
    <3>2. MovedOutOfGap(z, to) = to + z.shift
      BY <1>1, <2>1, MovedTo
    <3>3. Midnight(day) \in Int /\ Midnight(day + 1) = Midnight(day) + DayLength
      BY Midnights
    <3>4. Midnight(day) < Midnight(date + 2)
      BY <1>0, <1>1, <1>5, <2>1, <3>1, <3>3
    <3>5. day + 1 \in Int /\ ~(date + 2 < day + 1)
      BY <3>4, MidnightsGoOn
    <3>6. ~(Midnight(date + 2) < Midnight(day + 1))
      BY <3>5, MidnightsGoOn
    <3>7. wall < to + z.shift
      BY <1>4, <3>2
    <3> HIDE DEF wall
    <3>8. to + z.shift < Midnight(day) + DayLength
      BY <1>0, <1>1, <2>1, <3>1, <3>3
    <3>9. QED
      BY <1>0, <1>1, <1>2, <1>5, <3>3, <3>6, <3>7, <3>8
  <2>2. CASE ~(z.transition <= to /\ to < z.transition + z.shift)
    <3>1. MovedOutOfGap(z, to) = to
      BY <1>1, <2>2, MovedTo
    <3>2. QED
      BY <1>1, <1>2, <1>4, <1>5, <3>1
  <2>3. QED
    BY <2>1, <2>2
<1>8. ~(date + 2 <= LocalDate(z, utc))
  BY <1>2, <1>7, DateOf DEF LocalDate
<1>9. QED
  BY <1>3, <1>6, <1>8

-----------------------------------------------------------------------------
(* Availability.                                                             *)

InSomeWindow(z, s, utc) ==
    \E date \in Int: /\ IncludesDate(s, date)
                     /\ InWindow(z, StartWall(s, date), EndWall(s, date), utc)

\* The dates that are looked through are enough to tell whether the schedule is open.
LEMMA RecurringActive ==
    ASSUME NEW z \in Zones, ChangesWithinADay(z),
           NEW s \in AllSchedules, NEW utc \in Int
    PROVE  EvaluateRecurring(z, s, utc).active <=> InSomeWindow(z, s, utc)
<1> DEFINE looked == {d \in (LocalDate(z, utc) - 1)..(LocalDate(z, utc) + 8): IncludesDate(s, d)}
<1>0. LocalDate(z, utc) \in Int
  BY DatesGoOn
<1>1. RecurringIntervals(z, s, utc) =
        UNION {WindowIntervals(z, StartWall(s, d), EndWall(s, d)): d \in looked}
  BY DEF RecurringIntervals, WindowIntervals
<1>2. (\E i \in RecurringIntervals(z, s, utc): i.start <= utc /\ utc < i.end)
      <=> \E d \in looked: InWindow(z, StartWall(s, d), EndWall(s, d), utc)
  <2> HIDE DEF looked
  <2>1. QED
    BY <1>1 DEF InWindow
<1>3. (\E d \in looked: InWindow(z, StartWall(s, d), EndWall(s, d), utc)) <=> InSomeWindow(z, s, utc)
  <2>1. looked \subseteq Int
    BY <1>0
  <2>2. ASSUME NEW d \in Int, IncludesDate(s, d), InWindow(z, StartWall(s, d), EndWall(s, d), utc)
        PROVE  d \in looked
    <3>1. d \in (LocalDate(z, utc) - 1)..LocalDate(z, utc)
      BY <2>2, WindowOfTheDay
    <3>2. QED
      BY <1>0, <2>2, <3>1
  <2>3. \A d \in looked: IncludesDate(s, d)
    OBVIOUS
  <2> HIDE DEF looked
  <2>4. QED
    BY <2>1, <2>2, <2>3 DEF InSomeWindow
<1>4. EvaluateRecurring(z, s, utc).active
      <=> \E i \in RecurringIntervals(z, s, utc): i.start <= utc /\ utc < i.end
  BY DEF EvaluateRecurring
<1>5. QED
  BY <1>2, <1>3, <1>4

\* At every instant the schedule is open exactly when the clock on the wall shows a
\* time inside one of its windows.
LEMMA OpenByTheClock ==
    ASSUME NEW z \in Zones, ChangesWithinADay(z),
           NEW s \in AllSchedules, NEW utc \in Int
    PROVE  GetAvailability(z, s, utc).active <=> OpenByTheWallClock(z, s, utc)
<1>0. LocalDate(z, utc) \in Int
  BY DatesGoOn
<1>1. InSomeWindow(z, s, utc) <=> ShownInside(z, s, utc)
  <2>1. ASSUME NEW date \in Int
        PROVE  InWindow(z, StartWall(s, date), EndWall(s, date), utc) <=>
                 /\ MovedOutOfGap(z, StartWall(s, date)) <= WallTime(z, utc)
                 /\ WallTime(z, utc) < MovedOutOfGap(z, EndWall(s, date))
    BY WindowOfDate, ShownInWindow
  <2>2. ASSUME NEW date \in Int, InWindow(z, StartWall(s, date), EndWall(s, date), utc)
        PROVE  date \in (LocalDate(z, utc) - 2)..(LocalDate(z, utc) + 1)
    <3>1. date \in (LocalDate(z, utc) - 1)..LocalDate(z, utc)
      BY <2>2, WindowOfTheDay
    <3>2. QED
      BY <1>0, <3>1
  <2>3. (LocalDate(z, utc) - 2)..(LocalDate(z, utc) + 1) \subseteq Int
    BY <1>0
  <2>4. QED
    BY <2>1, <2>2, <2>3 DEF InSomeWindow, ShownInside
<1>2. CASE NotStarted(s, utc)
  BY <1>2 DEF GetAvailability, OpenByTheWallClock
<1>3. CASE ~NotStarted(s, utc) /\ Recurring(s)
  BY <1>1, <1>3, RecurringActive DEF GetAvailability, OpenByTheWallClock
<1>4. CASE ~NotStarted(s, utc) /\ ~Recurring(s)
  BY <1>4 DEF GetAvailability, OpenByTheWallClock
<1>5. QED
  BY <1>2, <1>3, <1>4

-----------------------------------------------------------------------------
(* The next start.                                                           *)

\* Intervals lie between instants.
LEMMA WindowType ==
    ASSUME NEW z \in Zones, NEW from \in Int, NEW to \in Int, from < to
    PROVE  \A i \in WindowIntervals(z, from, to): i.start \in Int /\ i.end \in Int
<1>0. z.transition \in Int /\ z.shift \in Int
  BY DEF Zones
<1>1. FirstShowing(z, from) \in Int /\ FirstShowing(z, to) \in Int
  BY <1>0 DEF FirstShowing
<1>2. \A a, b \in Int: Between(a, b).start \in Int /\ Between(a, b).end \in Int
  BY DEF Between
<1>3. from - z.shift \in Int /\ to - z.shift \in Int
  BY <1>0
<1>4. \A i \in WindowIntervals(z, from, to): \E a, b \in Int: i = Between(a, b)
  <2>1. CASE Repeated(z, from) /\ Repeated(z, to)
    BY <1>0, <1>3, <2>1, WindowIs
  <2>2. CASE Repeated(z, from) /\ ~Repeated(z, to)
    BY <1>0, <1>1, <1>3, <2>2, WindowIs
  <2>3. CASE ~Repeated(z, from) /\ Repeated(z, to)
    BY <1>0, <1>1, <1>3, <2>3, WindowIs
  <2>4. CASE ~Repeated(z, from) /\ ~Repeated(z, to)
    BY <1>0, <1>1, <2>4, WindowIs
  <2>5. QED
    BY <2>1, <2>2, <2>3, <2>4
<1>5. QED
  BY <1>2, <1>4

DatesLooked(z, utc) == (LocalDate(z, utc) - 1)..(LocalDate(z, utc) + 8)

\* A window of the dates looked through that starts later.
StartsLater(z, s, utc, date, i) ==
    /\ date \in DatesLooked(z, utc)
    /\ IncludesDate(s, date)
    /\ i \in WindowIntervals(z, StartWall(s, date), EndWall(s, date))
    /\ i.start > utc /\ i.start < i.end

\* While the schedule is closed, the next start is the first of them.
LEMMA NextIsFirst ==
    ASSUME NEW z \in Zones,
           NEW s \in AllSchedules, NEW utc \in Int,
           NEW answer, answer = EvaluateRecurring(z, s, utc), ~answer.active
    PROVE  \/ answer.next = None /\ \A date, i: ~StartsLater(z, s, utc, date, i)
           \/ /\ answer.next \in Int
              /\ utc < answer.next
              /\ \E date, i: StartsLater(z, s, utc, date, i) /\ answer.next = i.start
              /\ \A date, i: StartsLater(z, s, utc, date, i) => answer.next <= i.start
<1> DEFINE later == {i.start: i \in {i \in RecurringIntervals(z, s, utc): i.start > utc /\ i.start < i.end}}
<1>0. LocalDate(z, utc) \in Int /\ DatesLooked(z, utc) \subseteq Int
  BY InstantHasDate DEF DatesLooked
<1>1. answer.next = IF later = {} THEN None ELSE Min(later)
  BY DEF EvaluateRecurring
<1>2. \A i: i \in RecurringIntervals(z, s, utc) <=>
              \E d \in DatesLooked(z, utc): /\ IncludesDate(s, d)
                                            /\ i \in WindowIntervals(z, StartWall(s, d), EndWall(s, d))
  BY DEF RecurringIntervals, WindowIntervals, DatesLooked
<1>3. \A x: x \in later <=> \E d, i: StartsLater(z, s, utc, d, i) /\ x = i.start
  BY <1>2 DEF StartsLater
<1>4. later \in SUBSET Int /\ \A x \in later: utc < x /\ utc <= x
  <2>1. ASSUME NEW d, NEW i, StartsLater(z, s, utc, d, i)
        PROVE  i.start \in Int /\ utc < i.start
    <3>1. d \in Int /\ i \in WindowIntervals(z, StartWall(s, d), EndWall(s, d)) /\ utc < i.start
      BY <1>0, <2>1 DEF StartsLater
    <3>2. QED
      BY <3>1, WindowType, WindowOfDate
  <2> HIDE DEF later
  <2>2. QED
    BY <1>3, <2>1
<1> HIDE DEF later
<1>5. CASE later = {}
  BY <1>1, <1>3, <1>5
<1>6. CASE later # {}
  <2>1. Min(later) \in later /\ \A y \in later: Min(later) <= y
    BY <1>4, <1>6, MinAbove
  <2>2. answer.next \in later /\ \A y \in later: answer.next <= y
    BY <1>1, <1>6, <2>1
  <2>3. answer.next \in Int /\ utc < answer.next
    BY <1>4, <2>2
  <2>4. QED
    BY <1>3, <2>2, <2>3
<1>7. QED
  BY <1>5, <1>6

\* What the service answers.
LEMMA AvailabilityType ==
    ASSUME NEW z \in Zones,
           NEW s \in AllSchedules, NEW utc \in Int
    PROVE  /\ GetAvailability(z, s, utc).active \in BOOLEAN
           /\ ~GetAvailability(z, s, utc).active =>
                 \/ GetAvailability(z, s, utc).next = None
                 \/ GetAvailability(z, s, utc).next \in Int /\ utc < GetAvailability(z, s, utc).next
<1>1. CASE NotStarted(s, utc)
  BY <1>1 DEF GetAvailability, NotStarted, AllSchedules, Schedules
<1>2. CASE ~NotStarted(s, utc) /\ Recurring(s)
  <2>1. EvaluateRecurring(z, s, utc).active \in BOOLEAN
    BY DEF EvaluateRecurring
  <2>2. GetAvailability(z, s, utc) = EvaluateRecurring(z, s, utc)
    BY <1>2 DEF GetAvailability
  <2>3. QED
    BY <2>1, <2>2, NextIsFirst
<1>3. CASE ~NotStarted(s, utc) /\ ~Recurring(s)
  BY <1>3 DEF GetAvailability
<1>4. QED
  BY <1>1, <1>2, <1>3

\* A day later at most two more days have begun.
LEMMA DatesWithinADay ==
    ASSUME NEW z \in Zones, ChangesWithinADay(z), NEW u \in Int, NEW v \in Int,
           u <= v, v <= u + DayLength
    PROVE  LocalDate(z, v) <= LocalDate(z, u) + 2
<1>0. z.transition \in Int /\ z.shift \in Int /\ DayLength \in Nat \ {0}
  BY CalendarAssumption DEF Zones
<1>1. z.shift <= DayLength /\ -z.shift <= DayLength
  <2>1. PICK date \in Int:
             /\ z.shift > 0 => /\ Midnight(date) <= z.transition
                               /\ z.transition + z.shift + z.shift <= Midnight(date) + DayLength
             /\ z.shift < 0 => /\ Midnight(date) <= z.transition + z.shift
                               /\ z.transition <= Midnight(date) + DayLength
    BY DateOfChange
  <2>2. Midnight(date) \in Int
    BY Midnights
  <2>3. QED
    BY <1>0, <2>1, <2>2
<1>2. /\ WallTime(z, u) \in Int /\ WallTime(z, v) \in Int
      /\ WallTime(z, v) <= WallTime(z, u) + DayLength + DayLength
  BY <1>0, <1>1 DEF WallTime, UtcOffset
<1>3. LocalDate(z, u) \in Int /\ LocalDate(z, v) \in Int
  BY DatesGoOn
<1> DEFINE date == LocalDate(z, u)
<1>4. date + 1 \in Int /\ ~(date + 1 <= WallTime(z, u) \div DayLength)
  BY <1>3 DEF LocalDate
<1> HIDE DEF date
<1>5. ~(Midnight(date + 1) <= WallTime(z, u))
  BY <1>2, <1>4, DateOf
<1>6. Midnight((date + 1) + 2) = Midnight(date + 1) + DayLength + DayLength /\ Midnight(date + 1) \in Int
  BY <1>4, Midnights
<1>7. ~(Midnight((date + 1) + 2) <= WallTime(z, v))
  BY <1>0, <1>2, <1>5, <1>6
<1>8. ~((date + 1) + 2 <= WallTime(z, v) \div DayLength)
  BY <1>2, <1>4, <1>7, DateOf
<1>9. QED
  BY <1>3, <1>8 DEF date, LocalDate

\* Nothing opens before the next start, nor within a day if there is none.
LEMMA ClosedUntilNext ==
    ASSUME NEW z \in Zones, ChangesWithinADay(z),
           NEW s \in AllSchedules,
           NEW u \in Int, NEW v \in Int, u <= v, v <= u + DayLength,
           ~GetAvailability(z, s, u).active,
           GetAvailability(z, s, u).next = None \/ v < GetAvailability(z, s, u).next
    PROVE  ~GetAvailability(z, s, v).active
<1>1. CASE NotStarted(s, u)
  <2>1. s.startAt \in Int /\ s.startAt # None /\ v < s.startAt
    BY <1>1 DEF GetAvailability, NotStarted, AllSchedules, Schedules
  <2>2. QED
    BY <2>1 DEF GetAvailability, NotStarted
<1>2. CASE ~NotStarted(s, u)
  <2>1. ~NotStarted(s, v)
    BY <1>2 DEF NotStarted, AllSchedules, Schedules
  <2>2. Recurring(s)
    BY <1>2 DEF GetAvailability
  <2>3. /\ GetAvailability(z, s, u) = EvaluateRecurring(z, s, u)
        /\ GetAvailability(z, s, v) = EvaluateRecurring(z, s, v)
    BY <1>2, <2>1, <2>2 DEF GetAvailability
  <2>4. ASSUME EvaluateRecurring(z, s, v).active
        PROVE  FALSE
    <3>1. PICK d \in Int: IncludesDate(s, d) /\ InWindow(z, StartWall(s, d), EndWall(s, d), v)
      BY <2>4, RecurringActive DEF InSomeWindow
    <3>2. PICK i \in WindowIntervals(z, StartWall(s, d), EndWall(s, d)): i.start <= v /\ v < i.end
      BY <3>1 DEF InWindow
    <3>3. i.start \in Int /\ i.end \in Int
      BY WindowType, WindowOfDate
    <3>4. ~(i.start <= u)
      <4>1. ASSUME i.start <= u
            PROVE  FALSE
        <5>1. i.start <= u /\ u < i.end
          BY <3>2, <3>3, <4>1
        <5>2. InWindow(z, StartWall(s, d), EndWall(s, d), u)
          BY <5>1 DEF InWindow
        <5>3. InSomeWindow(z, s, u)
          BY <3>1, <5>2 DEF InSomeWindow
        <5>4. QED
          BY <2>3, <5>3, RecurringActive
      <4>2. QED
        BY <4>1
    <3>5. d \in DatesLooked(z, u)
      <4>1. d \in (LocalDate(z, v) - 1)..LocalDate(z, v)
        BY <3>1, WindowOfTheDay
      <4>2. /\ LocalDate(z, u) \in Int /\ LocalDate(z, v) \in Int
            /\ LocalDate(z, u) <= LocalDate(z, v) /\ LocalDate(z, v) <= LocalDate(z, u) + 2
        BY DatesGoOn, DatesWithinADay
      <4>3. QED
        BY <4>1, <4>2 DEF DatesLooked
    <3>6. StartsLater(z, s, u, d, i)
      BY <3>1, <3>2, <3>3, <3>4, <3>5 DEF StartsLater
    <3>7. EvaluateRecurring(z, s, u).next \in Int /\ EvaluateRecurring(z, s, u).next <= i.start
      BY <2>3, <3>6, NextIsFirst
    <3>8. v < EvaluateRecurring(z, s, u).next
      BY <2>3, <3>7, CalendarAssumption
    <3>9. QED
      BY <3>2, <3>3, <3>7, <3>8
  <2>5. QED
    BY <2>3, <2>4
<1>3. QED
  BY <1>1, <1>2

-----------------------------------------------------------------------------
(* Deadlines.                                                                *)

\* The next deadline is the first one after now on the timeline of the last one:
\* later than now, at most an interval away, and a whole number of intervals on.
LEMMA NextDeadlineOnTimeline ==
    ASSUME NEW dueAt \in Nat, NEW utcNow \in Nat, dueAt <= utcNow
    PROVE  /\ GetNextDeadline(dueAt, utcNow) \in Nat
           /\ GetNextDeadline(dueAt, utcNow) > utcNow
           /\ GetNextDeadline(dueAt, utcNow) <= utcNow + Interval
           /\ (GetNextDeadline(dueAt, utcNow) - dueAt) % Interval = 0
<1> DEFINE gap == utcNow - dueAt
           missed == gap \div Interval
           skip == (missed + 1) * Interval
<1>1. Interval \in Nat \ {0} /\ gap \in Nat
  BY ClockAssumption
<1>2. missed \in Nat /\ missed * Interval <= gap /\ gap < skip
  BY <1>1, Quotient
<1>3. skip \in Nat /\ skip % Interval = 0
  <2>1. missed + 1 \in Nat
    BY <1>2
  <2> HIDE DEF missed
  <2>2. QED
    BY <1>1, <2>1, Multiple
<1>4. skip = missed * Interval + Interval
  <2> HIDE DEF missed
  <2>1. QED
    BY <1>1, <1>2
<1>5. GetNextDeadline(dueAt, utcNow) = dueAt + skip
  BY DEF GetNextDeadline
<1> HIDE DEF skip, missed
<1>6. (dueAt + skip) - dueAt = skip
  BY <1>3
<1>7. missed * Interval \in Nat
  BY <1>1, <1>2, Multiple
<1>8. QED
  BY <1>1, <1>2, <1>3, <1>4, <1>5, <1>6, <1>7

\* What makes it inductive: a request that is under way was due when it began.
OnTimeline ==
    /\ now \in Nat
    /\ due \in Nat \cup {None}
    /\ status = "Capturing" => due # None
    /\ shooting # None => status = "Capturing" /\ due <= now

\* No step of the session, its user, its loop or a restart leaves the timeline.
LEMMA OnTimelineStep ==
    ASSUME OnTimeline, [Next \/ Restart]_vars
    PROVE  OnTimeline'
<1> USE DEF OnTimeline, session
<1>1. CASE Start
  BY <1>1, CalendarAssumption DEF Start, FirstDeadline
<1>2. CASE Stop
  BY <1>2 DEF Stop
<1>3. CASE TurnOutsideWindow \/ TurnCompletes \/ TurnNotDue \/ TurnShoots
  BY <1>3 DEF TurnOutsideWindow, TurnCompletes, TurnNotDue, TurnShoots, InsideWindow, Awake
<1>4. CASE TurnResumes
  BY <1>4, CalendarAssumption DEF TurnResumes, Awake
<1>5. CASE ShotEnds
  <2>1. due \in Nat /\ due <= now
    BY <1>5 DEF ShotEnds
  <2>2. due' \in Nat
    BY <1>5, <2>1, NextDeadlineOnTimeline DEF ShotEnds
  <2>3. due' # None
    BY <2>2, CalendarAssumption
  <2>4. shooting' = None /\ UNCHANGED <<now, status>>
    BY <1>5 DEF ShotEnds
  <2>5. QED
    BY <2>2, <2>3, <2>4
<1>6. CASE ShotFails \/ RenderingEnds
  BY <1>6 DEF ShotFails, RenderingEnds
<1>7. CASE Tick
  BY <1>7 DEF Tick
<1>8. CASE Restart
  BY <1>8 DEF Restart
<1>9. CASE UNCHANGED vars
  BY <1>9 DEF vars
<1>10. QED
  BY <1>1, <1>2, <1>3, <1>4, <1>5, <1>6, <1>7, <1>8, <1>9 DEF Next

\* However long requests take and whenever the user or a restart interferes, a
\* deadline moves only by whole intervals, past now, and by no slot too many.
THEOREM DeadlinesAlwaysKeepTheTimeline == RestartSpec => DeadlinesKeepTheTimeline
<1> DEFINE Kept ==
      due # None /\ status = "Capturing" /\ due' # due =>
          due' > now /\ due' <= now + Interval /\ (due' - due) % Interval = 0
<1>1. Init => OnTimeline
  BY DEF Init, OnTimeline
<1>2. OnTimeline /\ [Next \/ Restart]_vars => OnTimeline'
  BY OnTimelineStep
<1>3. OnTimeline /\ [Next \/ Restart]_vars => [Kept]_due
  <2> SUFFICES ASSUME OnTimeline, [Next \/ Restart]_vars, due # None, status = "Capturing", due' # due
               PROVE  due' > now /\ due' <= now + Interval /\ (due' - due) % Interval = 0
    OBVIOUS
  <2>1. CASE ShotEnds
    BY <2>1, NextDeadlineOnTimeline DEF ShotEnds, OnTimeline
  <2>2. CASE Start \/ TurnResumes
    BY <2>2 DEF Start, TurnResumes
  <2>3. CASE \/ Stop \/ TurnOutsideWindow \/ TurnCompletes \/ TurnNotDue \/ TurnShoots
             \/ ShotFails \/ RenderingEnds \/ Tick \/ Restart \/ UNCHANGED vars
    BY <2>3 DEF Stop, TurnOutsideWindow, TurnCompletes, TurnNotDue, TurnShoots, ShotFails,
          RenderingEnds, Tick, Restart, vars, session
  <2>4. QED
    BY <2>1, <2>2, <2>3 DEF Next
<1>4. QED
  BY <1>1, <1>2, <1>3, PTL DEF RestartSpec, DeadlinesKeepTheTimeline

-----------------------------------------------------------------------------
(* Active time.  What makes it inductive: a segment is open exactly while    *)
(* the session is Capturing, so nothing is counted twice or not at all.      *)

SegmentIsCapturing ==
    /\ segment \in Nat \cup {None}
    /\ segment # None <=> status = "Capturing"
    /\ segment # None => segment <= now

Accounted ==
    /\ now \in Nat
    /\ accumulated \in Nat
    /\ SegmentIsCapturing
    /\ spent \in Nat /\ overrun \in Nat
    /\ accumulated + Elapsed = spent + overrun

\* An open segment has lasted since it began.
LEMMA ElapsedSince ==
    ASSUME Accounted, segment # None
    PROVE  Elapsed = now - segment /\ Elapsed \in Nat
  BY ClampAtZero DEF Accounted, SegmentIsCapturing, Elapsed

\* Ending a segment leaves its time in the account.
LEMMA EndKeepsAccount ==
    ASSUME Accounted, EndActiveSegment, UNCHANGED <<now, spent, overrun>>, status' # "Capturing"
    PROVE  Accounted'
<1>1. Elapsed \in Nat
  <2>1. CASE segment = None
    BY <2>1 DEF Elapsed
  <2>2. CASE segment # None
    BY <2>2, ElapsedSince
  <2>3. QED
    BY <2>1, <2>2
<1>2. accumulated' = accumulated + Elapsed /\ accumulated' \in Nat
  BY <1>1 DEF Accounted, EndActiveSegment
<1>3. segment' = None /\ Elapsed' = 0
  BY DEF EndActiveSegment, Elapsed
<1>4. QED
  BY <1>2, <1>3 DEF Accounted, SegmentIsCapturing

\* Beginning a segment where there was none leaves the account as it was.
LEMMA BeginKeepsAccount ==
    ASSUME Accounted, segment = None, BeginActiveSegment,
           UNCHANGED <<now, spent, overrun, accumulated>>, status' = "Capturing"
    PROVE  Accounted'
<1>1. segment' = now /\ now # None
  BY CalendarAssumption DEF BeginActiveSegment, Accounted
<1>2. Elapsed' = 0 /\ Elapsed = 0
  BY <1>1, ClampAtZero DEF Elapsed, Accounted
<1>3. QED
  BY <1>1, <1>2 DEF Accounted, SegmentIsCapturing

\* Every step of the living process keeps the account.
LEMMA AccountedStep ==
    ASSUME Accounted, [Next]_vars
    PROVE  Accounted'
<1>1. CASE Start
  <2>1. segment = None
    BY <1>1 DEF Start, Accounted, SegmentIsCapturing
  <2>2. CASE status' = "Capturing"
    BY <1>1, <2>1, <2>2, BeginKeepsAccount DEF Start, account
  <2>3. CASE status' # "Capturing"
    BY <1>1, <2>3, EndKeepsAccount DEF Start, account
  <2>4. QED
    BY <2>2, <2>3
<1>2. CASE Stop \/ TurnCompletes \/ ShotFails
  <2>1. EndActiveSegment /\ UNCHANGED <<now, spent, overrun>> /\ status' # "Capturing"
    BY <1>2 DEF Stop, TurnCompletes, ShotFails, account
  <2>2. QED
    BY <2>1, EndKeepsAccount
<1>3. CASE TurnOutsideWindow
  <2>1. CASE status = "Capturing"
    BY <1>3, <2>1, EndKeepsAccount DEF TurnOutsideWindow, account
  <2>2. CASE status # "Capturing"
    BY <1>3, <2>2 DEF TurnOutsideWindow, account, Accounted, SegmentIsCapturing, Elapsed
  <2>3. QED
    BY <2>1, <2>2
<1>4. CASE TurnResumes
  BY <1>4, BeginKeepsAccount DEF TurnResumes, account, Accounted, SegmentIsCapturing
<1>5. CASE TurnNotDue \/ TurnShoots \/ ShotEnds \/ RenderingEnds \/ UNCHANGED vars
  <2>1. UNCHANGED <<now, accumulated, segment, spent, overrun>>
    BY <1>5 DEF TurnNotDue, TurnShoots, ShotEnds, RenderingEnds, vars, session, account
  <2>2. (status' = "Capturing") <=> (status = "Capturing")
    BY <1>5 DEF TurnNotDue, TurnShoots, ShotEnds, RenderingEnds, vars, session, account
  <2>3. QED
    BY <2>1, <2>2 DEF Accounted, SegmentIsCapturing, Elapsed
<1>6. CASE Tick
  <2>1. /\ now' = now + 1
        /\ UNCHANGED <<accumulated, segment, status>>
        /\ spent' \in Nat /\ overrun' \in Nat
        /\ status = "Capturing" => spent' + overrun' = (spent + overrun) + 1
        /\ status # "Capturing" => spent' + overrun' = spent + overrun
    BY <1>6 DEF Tick, session, Accounted
  <2>2. SegmentIsCapturing' /\ now' \in Nat
    BY <2>1 DEF Accounted, SegmentIsCapturing
  <2>3. CASE segment = None
    <3>1. status # "Capturing" /\ Elapsed = 0 /\ Elapsed' = 0
      BY <2>1, <2>3 DEF Accounted, SegmentIsCapturing, Elapsed
    <3>2. spent' + overrun' = spent + overrun
      BY <2>1, <3>1 DEF Accounted
    <3>3. QED
      BY <2>1, <2>2, <3>1, <3>2 DEF Accounted
  <2>4. CASE segment # None
    <3>1. Elapsed = now - segment
      BY <2>4, ElapsedSince
    <3>2. (now + 1) - segment \in Nat
      BY <2>4 DEF Accounted, SegmentIsCapturing
    <3>3. Elapsed' = (now + 1) - segment
      BY <2>1, <2>4, <3>2, ClampAtZero DEF Elapsed
    <3>4. spent' + overrun' = (spent + overrun) + 1
      BY <2>1, <2>4 DEF Accounted, SegmentIsCapturing
    <3>5. segment \in Nat
      BY <2>4 DEF Accounted, SegmentIsCapturing
    <3>6. accumulated' + Elapsed' = spent' + overrun'
      <4>1. now \in Nat /\ accumulated \in Nat /\ accumulated + Elapsed = spent + overrun
        BY DEF Accounted
      <4>2. PICK e \in Int: Elapsed = e
        BY <3>1, <3>5, <4>1
      <4>3. Elapsed' = e + 1
        BY <3>1, <3>3, <3>5, <4>1, <4>2
      <4>4. PICK a \in Int: accumulated = a /\ accumulated' = a
        BY <2>1, <4>1
      <4>5. PICK total \in Int: spent + overrun = total
        BY DEF Accounted
      <4>6. spent' + overrun' = total + 1
        BY <3>4, <4>5
      <4>7. a + (e + 1) = total + 1
        BY <4>1, <4>2, <4>4, <4>5
      <4>8. QED
        BY <4>3, <4>4, <4>6, <4>7
    <3>7. QED
      BY <2>1, <2>2, <3>6 DEF Accounted
  <2>5. QED
    BY <2>3, <2>4
<1>7. QED
  BY <1>1, <1>2, <1>3, <1>4, <1>5, <1>6 DEF Next

-----------------------------------------------------------------------------
(* Types.                                                                    *)

Typed == TypeOK /\ OnTimeline

\* A difference clamped at zero is a natural number.
LEMMA ClampType ==
    ASSUME NEW a \in Int
    PROVE  Max({0, a}) \in Nat
<1>1. Max({0, a}) = IF 0 <= a THEN a ELSE 0
  BY MinOfTwo
<1>2. QED
  BY <1>1

\* The earlier of two instants is one of them.
LEMMA EarlierOfTwo ==
    ASSUME NEW a \in Nat, NEW b \in Nat
    PROVE  /\ Min({a, b}) \in {a, b} /\ Min({a, b}) \in Nat
           /\ Min({a, b}) <= a /\ Min({a, b}) <= b
<1>1. Min({a, b}) = IF a <= b THEN a ELSE b
  BY MinOfTwo
<1>2. QED
  BY <1>1

\* A segment has never lasted a negative time.
LEMMA ElapsedType ==
    ASSUME TypeOK
    PROVE  Elapsed \in Nat
<1>1. CASE segment = None
  BY <1>1 DEF Elapsed
<1>2. CASE segment # None
  <2>1. now - segment \in Int
    BY <1>2 DEF TypeOK, Instant
  <2>2. Max({0, now - segment}) \in Nat
    BY <2>1, ClampType
  <2>3. QED
    BY <1>2, <2>2 DEF Elapsed
<1>3. QED
  BY <1>1, <1>2

\* Ending a segment keeps the types.
LEMMA EndType ==
    ASSUME TypeOK, EndActiveSegment
    PROVE  accumulated' \in Nat /\ segment' \in Instant \cup {None}
  BY ElapsedType DEF TypeOK, EndActiveSegment

\* Beginning one does, too.
LEMMA BeginType ==
    ASSUME TypeOK, BeginActiveSegment
    PROVE  /\ segment' \in Instant \cup {None}
           /\ started' \in Instant \cup {None}
           /\ paused' \in Instant \cup {None}
  BY DEF TypeOK, BeginActiveSegment

\* What the answer is for the session at this moment.
LEMMA AnswerNow ==
    ASSUME TypeOK
    PROVE  /\ zone \in Zones /\ schedule \in AllSchedules /\ now \in Int
           /\ Availability = GetAvailability(zone, schedule, now)
  BY ClockAssumption DEF TypeOK, Instant, Availability, Answers

\* A loop outside its window sleeps some time, and not past the next start.
LEMMA RecheckWithin ==
    ASSUME TypeOK, ~Availability.active
    PROVE  /\ RecheckDelay(Availability.next) \in 1..ClosedSleep
           /\ \/ Availability.next = None
              \/ now + RecheckDelay(Availability.next) <= Availability.next
<1>1. Availability.next = None \/ (Availability.next \in Int /\ now < Availability.next)
  BY AnswerNow, AvailabilityType
<1>2. now \in Int /\ ClosedSleep \in Nat \ {0} /\ None \notin Int
  BY ClockAssumption, CalendarAssumption DEF TypeOK, Instant
<1>3. QED
  BY <1>1, <1>2 DEF RecheckDelay

\* With the time it takes to save the session, a turn ends at some instant.
LEMMA LagIsNatural ==
    ASSUME NEW t \in Nat, NEW u \in NoSoonerThan(t)
    PROVE  u \in Nat /\ t <= u /\ u <= t + MaxLag
  BY ClockAssumption DEF NoSoonerThan

\* Types of what the user's requests and the loop's turns change.
LEMMA TypedTurn ==
    ASSUME Typed, Start \/ Stop \/ TurnOutsideWindow \/ TurnResumes \/ TurnCompletes
    PROVE  TypeOK'
<1> USE DEF Typed
<1>0. OnTimeline' /\ (now \in Nat /\ now # None)
  <2>1. [Next \/ Restart]_vars
    BY DEF Next
  <2>2. QED
    BY <2>1, OnTimelineStep, CalendarAssumption DEF OnTimeline
<1>1. CASE Start
  <2>1. /\ UNCHANGED <<zone, schedule, now, lastCapture, shooting, stops, spent, overrun, late>> /\ wake' \in NoSoonerThan(now)
        /\ status' \in States
    BY <1>1 DEF Start, setting, account, States
  <2>2. accumulated' \in Nat
    BY <1>1, EndType DEF Start, TypeOK
  <2>3. /\ segment' \in Instant \cup {None} /\ started' \in Instant \cup {None}
        /\ paused' \in Instant \cup {None}
    BY <1>1, EndType, BeginType DEF Start, TypeOK
  <2>4. wake' \in Nat
    BY <1>0, <2>1, LagIsNatural
  <2>5. QED
    BY <1>0, <2>1, <2>2, <2>3, <2>4 DEF TypeOK, OnTimeline
<1>2. CASE Stop
  <2>1. /\ UNCHANGED <<zone, schedule, now, started, lastCapture, due, wake, spent, overrun, late>>
        /\ shooting' = None /\ status' \in States
        /\ paused' \in {paused, now} /\ stops < MaxStops /\ stops' = stops + 1
    BY <1>2 DEF Stop, setting, account, States
  <2>2. accumulated' \in Nat /\ segment' \in Instant \cup {None}
    BY <1>2, EndType DEF Stop
  <2>3. stops' \in 0..MaxStops
    BY <2>1, ClockAssumption DEF TypeOK
  <2>4. QED
    BY <1>0, <2>1, <2>2, <2>3 DEF TypeOK, OnTimeline
<1>3. CASE TurnOutsideWindow
  <2>1. /\ UNCHANGED <<zone, schedule, now, started, lastCapture, paused, due, shooting, stops, spent, overrun, late>>
        /\ status' \in States
    BY <1>3 DEF TurnOutsideWindow, setting, account, States
  <2>2. accumulated' \in Nat /\ segment' \in Instant \cup {None}
    BY <1>3, EndType DEF TurnOutsideWindow, TypeOK
  <2>3. wake' \in Nat
    <3>1. ~Availability.active /\ wake' \in NoSoonerThan(now + RecheckDelay(Availability.next))
      BY <1>3 DEF TurnOutsideWindow
    <3>2. now + RecheckDelay(Availability.next) \in Nat
      BY <1>0, <3>1, RecheckWithin, ClockAssumption
    <3>3. QED
      BY <3>1, <3>2, LagIsNatural
  <2>4. QED
    BY <1>0, <2>1, <2>2, <2>3 DEF TypeOK, OnTimeline
<1>4. CASE TurnResumes
  <2>1. /\ UNCHANGED <<zone, schedule, now, accumulated, lastCapture, wake, shooting, stops, spent, overrun, late>>
        /\ status' \in States
    BY <1>4 DEF TurnResumes, setting, account, States
  <2>2. /\ segment' \in Instant \cup {None} /\ started' \in Instant \cup {None}
        /\ paused' \in Instant \cup {None}
    BY <1>4, BeginType DEF TurnResumes
  <2>3. QED
    BY <1>0, <2>1, <2>2 DEF TypeOK, OnTimeline
<1>5. CASE TurnCompletes
  <2>1. /\ UNCHANGED <<zone, schedule, now, started, lastCapture, paused, due, wake, shooting, stops, spent, overrun, late>>
        /\ status' \in States
    BY <1>5 DEF TurnCompletes, setting, account, States
  <2>2. accumulated' \in Nat /\ segment' \in Instant \cup {None}
    BY <1>5, EndType DEF TurnCompletes
  <2>3. QED
    BY <1>0, <2>1, <2>2 DEF TypeOK, OnTimeline
<1>6. QED
  BY <1>1, <1>2, <1>3, <1>4, <1>5

\* Types of what a frame, the clock and a restart change.
LEMMA TypedRest ==
    ASSUME Typed,
           \/ TurnNotDue \/ TurnShoots \/ ShotEnds \/ ShotFails \/ RenderingEnds
           \/ Tick \/ Restart \/ UNCHANGED vars
    PROVE  TypeOK'
<1> USE DEF Typed
<1>0. OnTimeline' /\ now \in Nat /\ now # None
  <2>1. [Next \/ Restart]_vars
    BY DEF Next
  <2>2. QED
    BY <2>1, OnTimelineStep, CalendarAssumption DEF OnTimeline
<1>1. CASE TurnNotDue
  <2>1. UNCHANGED <<zone, schedule, now, status, accumulated, segment, started, lastCapture,
                    paused, due, shooting, stops, spent, overrun, late>>
    BY <1>1 DEF TurnNotDue, setting, session, account
  <2>2. due \in Nat
    BY <1>1 DEF TurnNotDue, InsideWindow, OnTimeline
  <2>3. wake' \in Nat
    <3>1. due - now \in Nat /\ NotDueSleep \in Nat
      BY <1>0, <1>1, <2>2, ClockAssumption DEF TurnNotDue
    <3>2. Min({due - now, NotDueSleep}) \in Nat
      BY <3>1, EarlierOfTwo
    <3>3. QED
      BY <1>0, <1>1, <3>2 DEF TurnNotDue
  <2>4. QED
    BY <2>1, <2>3 DEF TypeOK
<1>2. CASE TurnShoots \/ RenderingEnds \/ UNCHANGED vars
  <2>1. /\ UNCHANGED <<zone, schedule, now, accumulated, segment, started, lastCapture,
                    paused, due, wake, stops, spent, overrun, late>>
        /\ status' \in {status, "Completed", "Failed"} /\ shooting' \in {shooting, now}
    BY <1>2 DEF TurnShoots, RenderingEnds, vars, setting, session, account
  <2>2. QED
    BY <1>0, <2>1 DEF TypeOK, States
<1>3. CASE ShotEnds
  <2>1. UNCHANGED <<zone, schedule, now, status, accumulated, segment, started, paused, stops, spent, overrun, late>>
    BY <1>3 DEF ShotEnds, setting, account
  <2>2. lastCapture' \in {lastCapture, now} /\ shooting' = None /\ wake' \in NoSoonerThan(now)
    BY <1>3 DEF ShotEnds
  <2>4. wake' \in Nat
    BY <1>0, <2>2, LagIsNatural
  <2>3. QED
    BY <1>0, <2>1, <2>2, <2>4 DEF TypeOK, OnTimeline
<1>4. CASE ShotFails
  <2>1. /\ UNCHANGED <<zone, schedule, now, started, lastCapture, paused, due, wake, stops, spent, overrun, late>>
        /\ status' = "Failed" /\ shooting' = None
    BY <1>4 DEF ShotFails, setting, account
  <2>2. accumulated' \in Nat /\ segment' \in Instant \cup {None}
    BY <1>4, EndType DEF ShotFails
  <2>3. QED
    BY <2>1, <2>2 DEF TypeOK, States
<1>5. CASE Tick
  <2>1. /\ UNCHANGED <<zone, schedule, status, accumulated, segment, started, lastCapture, paused,
                       due, wake, shooting, stops>>
        /\ now < Horizon /\ now' = now + 1
        /\ spent' \in Nat /\ overrun' \in Nat /\ late' \in Nat
    <3>1. Tick => spent' \in Nat /\ overrun' \in Nat /\ late' \in Nat
      BY DEF Tick, TypeOK
    <3>2. QED
      BY <1>5, <3>1 DEF Tick, setting, session
  <2>2. now' \in Instant
    BY <1>0, <2>1, ClockAssumption DEF Instant
  <2>3. QED
    BY <2>1, <2>2 DEF TypeOK
<1>6. CASE Restart
  <2>1. /\ UNCHANGED <<zone, schedule, started, lastCapture, due, stops, spent, overrun, late>>
        /\ segment' = None /\ shooting' = None /\ wake' = now'
        /\ status' \in {status, "Paused"} /\ paused' \in {paused, now'}
    BY <1>6 DEF Restart, setting, account
  <2>2. now' \in Instant
    BY <1>0, <1>6, ClockAssumption DEF Restart, Instant
  <2>3. accumulated' \in Nat
    <3>1. CASE accumulated = 0 /\ started # None /\ status # "Ready"
      <4>1. LastActive(now') \in Int /\ started \in Int
        BY <2>2, <3>1 DEF LastActive, TypeOK, Instant
      <4>2. PICK length \in Int: length = LastActive(now') - started
        BY <4>1
      <4>3. Max({0, length}) \in Nat
        BY ClampType
      <4>4. Min({Duration, Max({0, length})}) \in Nat
        BY <4>3, EarlierOfTwo, ClockAssumption
      <4>5. QED
        BY <1>6, <3>1, <4>2, <4>4 DEF Restart
    <3>2. CASE ~(accumulated = 0 /\ started # None /\ status # "Ready")
      BY <1>6, <3>2 DEF Restart, TypeOK
    <3>3. QED
      BY <3>1, <3>2
  <2>4. QED
    BY <1>0, <2>1, <2>2, <2>3 DEF TypeOK, OnTimeline, Instant, States
<1>7. QED
  BY <1>1, <1>2, <1>3, <1>4, <1>5, <1>6

\* No step leaves the types.
LEMMA TypedStep ==
    ASSUME Typed, [Next \/ Restart]_vars
    PROVE  Typed'
<1>1. TypeOK'
  BY TypedTurn, TypedRest DEF Next
<1>2. OnTimeline'
  BY OnTimelineStep DEF Typed
<1>3. QED
  BY <1>1, <1>2 DEF Typed

\* The types hold at first.
LEMMA TypedInit ==
    ASSUME Init
    PROVE  Typed
  BY ClockAssumption DEF Init, Typed, TypeOK, OnTimeline, Instant, States

\* Whatever the schedules, zones and restarts, the clock's state has its type: an
\* answer of the schedule makes a sleep of a sensible length, and a deadline or an
\* account that a restart or a slow request leaves is a number.
THEOREM ClockTypeCorrect == (Spec => []TypeOK) /\ (RestartSpec => []TypeOK)
<1>1. Typed /\ [Next]_vars => Typed'
  BY TypedStep
<1>2. QED
  BY <1>1, TypedInit, TypedStep, PTL DEF Spec, RestartSpec, Typed

-----------------------------------------------------------------------------
(* The schedule and the loop.                                                *)

\* At every instant of every run, on both sides of a change of offset, the loop finds
\* the schedule open exactly when the clock on the wall shows a time inside a window.
THEOREM AlwaysOpenAsTheWallClockShows ==
    ASSUME \A z \in ZoneChoices: ChangesWithinADay(z)
    PROVE  Spec => []OpenAsTheWallClockShows
<1>1. TypeOK => OpenAsTheWallClockShows
  BY AnswerNow, OpenByTheClock DEF TypeOK, OpenAsTheWallClockShows
<1>2. QED
  BY <1>1, ClockTypeCorrect, PTL

\* What makes it inductive: the schedule stays closed for as long as a Scheduled session
\* sleeps, and a Capturing one sleeps only while no frame is due.
Rested ==
    /\ status = "Scheduled" =>
          \A t \in Int: now <= t /\ t + MaxLag < wake => ~GetAvailability(zone, schedule, t).active
    /\ status = "Capturing" /\ shooting = None => wake <= now + MaxLag \/ wake <= due

\* The sleep of a turn outside the window ends before the schedule opens, or when it does.
LEMMA ClosedWhileAsleep ==
    ASSUME \A z \in ZoneChoices: ChangesWithinADay(z),
           TypeOK, ~Availability.active,
           NEW t \in Int, now <= t, t < now + RecheckDelay(Availability.next)
    PROVE  ~GetAvailability(zone, schedule, t).active
<1>1. /\ zone \in Zones /\ schedule \in AllSchedules /\ now \in Int
      /\ ~GetAvailability(zone, schedule, now).active
      /\ Availability.next = GetAvailability(zone, schedule, now).next
  BY AnswerNow
<1>2. ChangesWithinADay(zone)
  BY DEF TypeOK
<1>3. RecheckDelay(Availability.next) \in 1..ClosedSleep /\ ClosedSleep \in 1..DayLength /\ DayLength \in Nat
  BY RecheckWithin, ClockAssumption, CalendarAssumption
<1>4. t <= now + DayLength
  BY <1>1, <1>3
<1>5. \/ GetAvailability(zone, schedule, now).next = None
      \/ t < GetAvailability(zone, schedule, now).next
  <2>1. CASE Availability.next = None
    BY <1>1, <2>1
  <2>2. CASE Availability.next # None
    <3>1. now + RecheckDelay(Availability.next) <= Availability.next /\ Availability.next \in Int
      BY <1>1, <2>2, RecheckWithin, AvailabilityType
    <3>2. QED
      BY <1>1, <1>3, <3>1
  <2>3. QED
    BY <2>1, <2>2
<1>6. QED
  BY <1>1, <1>2, <1>4, <1>5, ClosedUntilNext

\* No step of the session, its user, its loop or a restart disturbs it.
LEMMA RestedStep ==
    ASSUME \A z \in ZoneChoices: ChangesWithinADay(z),
           Typed, Rested, [Next \/ Restart]_vars
    PROVE  Rested'
<1>0. now \in Nat /\ wake \in Int /\ None \notin Int /\ MaxLag \in Nat
  BY CalendarAssumption, ClockAssumption DEF Typed, TypeOK, Instant
<1>1. CASE Start
  <2>1. wake' \in NoSoonerThan(now) /\ now' = now
    BY <1>1 DEF Start
  <2>2. wake' \in Nat /\ wake' <= now' + MaxLag
    BY <1>0, <2>1, LagIsNatural
  <2>3. QED
    BY <1>0, <2>1, <2>2 DEF Rested
<1>2. CASE Stop \/ TurnCompletes \/ ShotFails \/ RenderingEnds
  BY <1>2 DEF Stop, TurnCompletes, ShotFails, RenderingEnds, Rested
<1>3. CASE TurnOutsideWindow
  <2>1. /\ status' = "Scheduled" /\ UNCHANGED <<zone, schedule, now>> /\ ~Availability.active
        /\ wake' \in NoSoonerThan(now + RecheckDelay(Availability.next))
    BY <1>3 DEF TurnOutsideWindow, setting
  <2>2. now + RecheckDelay(Availability.next) \in Nat
    BY <1>0, <2>1, RecheckWithin, ClockAssumption DEF Typed
  <2>3. wake' \in Nat /\ wake' <= now + RecheckDelay(Availability.next) + MaxLag
    BY <2>1, <2>2, LagIsNatural
  <2>4. \A t \in Int: now <= t /\ t < now + RecheckDelay(Availability.next) =>
            ~GetAvailability(zone, schedule, t).active
    BY <2>1, ClosedWhileAsleep DEF Typed
  <2>5. \A t \in Int: t + MaxLag < wake' => t < now + RecheckDelay(Availability.next)
    BY <1>0, <2>2, <2>3
  <2>6. QED
    BY <2>1, <2>4, <2>5 DEF Rested
<1>4. CASE TurnResumes
  BY <1>0, <1>4 DEF TurnResumes, Awake, Rested
<1>5. CASE TurnNotDue
  <2>1. /\ status = "Capturing" /\ due > now /\ UNCHANGED <<status, now, due>>
        /\ wake' = now + Min({due - now, NotDueSleep})
    BY <1>5 DEF TurnNotDue, InsideWindow, session
  <2>2. due \in Nat /\ now \in Nat
    BY <2>1 DEF Typed, OnTimeline
  <2>3. due - now \in Nat /\ NotDueSleep \in Nat
    BY <2>1, <2>2, ClockAssumption
  <2>4. Min({due - now, NotDueSleep}) \in Nat /\ Min({due - now, NotDueSleep}) <= due - now
    BY <2>3, EarlierOfTwo
  <2>5. wake' <= due'
    BY <2>1, <2>2, <2>4
  <2>6. QED
    BY <2>1, <2>5 DEF Rested
<1>6. CASE TurnShoots
  BY <1>0, <1>6 DEF TurnShoots, InsideWindow, session, Rested
<1>7. CASE ShotEnds
  <2>1. wake' \in NoSoonerThan(now) /\ now' = now /\ status' = "Capturing"
    BY <1>7 DEF ShotEnds, Typed, OnTimeline
  <2>2. wake' \in Nat /\ wake' <= now' + MaxLag
    BY <1>0, <2>1, LagIsNatural
  <2>3. QED
    BY <2>1, <2>2 DEF Rested
<1>8. CASE Tick
  <2>1. now' = now + 1 /\ UNCHANGED <<zone, schedule, status, due, wake, shooting>>
    BY <1>8 DEF Tick, setting, session
  <2>2. ASSUME status = "Scheduled"
        PROVE  \A t \in Int: now' <= t /\ t + MaxLag < wake => ~GetAvailability(zone, schedule, t).active
    BY <1>0, <2>1, <2>2 DEF Rested
  <2>3. status = "Capturing" /\ shooting = None => wake <= now' + MaxLag \/ wake <= due
    BY <1>0, <2>1 DEF Rested
  <2>4. QED
    BY <2>1, <2>2, <2>3 DEF Rested
<1>9. CASE Restart
  <2>1. PICK n \in Int: wake' = n /\ now' = n
    BY <1>0, <1>9, ClockAssumption DEF Restart
  <2>2. \A t \in Int: n <= t => ~(t + MaxLag < n)
    BY <1>0
  <2>3. QED
    BY <1>0, <2>1, <2>2 DEF Rested
<1>10. CASE UNCHANGED vars
  BY <1>10 DEF vars, setting, session, Rested
<1>11. QED
  BY <1>1, <1>2, <1>3, <1>4, <1>5, <1>6, <1>7, <1>8, <1>9, <1>10 DEF Next

\* However windows open and close while the loop sleeps, whichever way the offset
\* changes meanwhile, whatever requests and saves take and wherever the process restarts:
\* the loop is late for a window or a frame by no more than the saving of one turn.
THEOREM NothingIsEverOverslept ==
    ASSUME \A z \in ZoneChoices: ChangesWithinADay(z)
    PROVE  (Spec => []NothingIsOverslept) /\ (RestartSpec => []NothingIsOverslept)
<1>1. Init => Rested
  BY DEF Init, Rested
<1>2. Typed /\ Rested /\ [Next \/ Restart]_vars => Typed' /\ Rested'
  BY TypedStep, RestedStep
<1>3. Typed /\ Rested /\ [Next]_vars => Typed' /\ Rested'
  BY <1>2
<1>4. Typed /\ Rested => NothingIsOverslept
  <2> SUFFICES ASSUME Typed, Rested
               PROVE  NothingIsOverslept
    OBVIOUS
  <2>0. now \in Int /\ wake \in Int /\ MaxLag \in Nat
    BY ClockAssumption DEF Typed, TypeOK, Instant
  <2>1. ASSUME status = "Scheduled", Availability.active
        PROVE  wake <= now + MaxLag
    BY <2>0, <2>1, AnswerNow DEF Rested, Typed
  <2>2. ASSUME status = "Capturing", shooting = None, due <= now
        PROVE  wake <= now + MaxLag
    <3>1. due \in Nat
      BY <2>2 DEF Typed, OnTimeline
    <3>2. QED
      BY <2>0, <2>2, <3>1 DEF Rested
  <2>3. QED
    BY <2>1, <2>2 DEF NothingIsOverslept
<1>5. QED
  BY <1>1, <1>2, <1>3, <1>4, TypedInit, PTL DEF Spec, RestartSpec

-----------------------------------------------------------------------------
(* Active time and the windows.                                              *)

\* A loop overruns by at least the shortest sleep, and each of the two that it
\* may be in when the window closes ends in time.
LEMMA OverrunIsLong ==
    /\ LongestOverrun \in Nat /\ LongestOverrun > 0 /\ MaxLag < LongestOverrun
    /\ NotDueSleep + MaxLag <= LongestOverrun /\ MaxRequest + MaxLag <= LongestOverrun
<1>1. NotDueSleep \in Nat \ {0} /\ MaxRequest \in Nat /\ MaxLag \in Nat
  BY ClockAssumption
<1>2. Max({NotDueSleep, MaxRequest}) = IF NotDueSleep <= MaxRequest THEN MaxRequest ELSE NotDueSleep
  BY <1>1, MinOfTwo
<1>3. QED
  BY <1>1, <1>2 DEF LongestOverrun

\* What makes it inductive: when the window closes, what the loop is in has only its
\* remaining length to go, and an overrun takes from that.
Punctual ==
    /\ late < LongestOverrun
    /\ shooting # None => shooting <= now /\ now <= shooting + MaxRequest
    /\ status = "Capturing" /\ shooting = None => wake <= now + LongestOverrun
    /\ status = "Capturing" /\ ~Availability.active =>
          IF shooting = None THEN wake + late < now + LongestOverrun ELSE shooting + late < now

\* The answer is the same as long as the clock stands.
LEMMA SameAnswer ==
    ASSUME UNCHANGED <<zone, schedule, now>>
    PROVE  Availability' = Availability
  BY DEF Availability

\* What a loop is in is never longer than it may be.
LEMMA PunctualStep ==
    ASSUME Typed, Punctual, [Next]_vars
    PROVE  Punctual'
<1>0. /\ now \in Nat /\ wake \in Nat /\ late \in Nat /\ shooting \in Nat \cup {None} /\ None \notin Int
      /\ MaxRequest \in Nat /\ MaxLag \in Nat
      /\ shooting # None => status = "Capturing"
  BY CalendarAssumption, ClockAssumption DEF Typed, TypeOK, Instant, OnTimeline
<1> USE OverrunIsLong
<1>1. CASE Start
  <2>1. /\ UNCHANGED <<zone, schedule, now, shooting, late>> /\ wake' \in NoSoonerThan(now)
        /\ status' = "Capturing" => Availability.active
        /\ status \in {"Ready", "Paused", "Failed"}
    BY <1>1 DEF Start, setting, account
  <2>2. PICK w \in Nat: wake' = w /\ w <= now + MaxLag
    BY <1>0, <2>1, LagIsNatural
  <2>3. Availability' = Availability /\ shooting = None
    BY <1>0, <2>1, SameAnswer
  <2>4. QED
    BY <1>0, <2>1, <2>2, <2>3 DEF Punctual
<1>2. CASE Stop \/ TurnOutsideWindow \/ TurnCompletes \/ ShotFails \/ RenderingEnds
  <2>1. /\ UNCHANGED <<now, late>> /\ status' # "Capturing" /\ shooting' \in {shooting, None}
    BY <1>2 DEF Stop, TurnOutsideWindow, TurnCompletes, ShotFails, RenderingEnds, account
  <2>2. QED
    BY <1>0, <2>1 DEF Punctual
<1>3. CASE TurnResumes
  <2>1. /\ UNCHANGED <<zone, schedule, now, shooting, wake, late>> /\ Availability.active
        /\ shooting = None /\ wake <= now
    BY <1>3 DEF TurnResumes, Awake, setting, account
  <2>2. Availability' = Availability
    BY <2>1, SameAnswer
  <2>3. QED
    BY <1>0, <2>1, <2>2 DEF Punctual
<1>4. CASE TurnNotDue
  <2>1. /\ UNCHANGED <<zone, schedule, now, shooting, status, late>> /\ Availability.active
        /\ status = "Capturing" /\ due > now /\ wake' = now + Min({due - now, NotDueSleep})
    BY <1>4 DEF TurnNotDue, InsideWindow, setting, session, account
  <2>2. due - now \in Nat /\ NotDueSleep \in Nat
    BY <1>0, <2>1, ClockAssumption DEF Typed, OnTimeline
  <2>3. Min({due - now, NotDueSleep}) \in Nat /\ Min({due - now, NotDueSleep}) <= NotDueSleep
    BY <2>2, EarlierOfTwo
  <2>4. PICK w \in Nat: wake' = w /\ w <= now + LongestOverrun
    BY <1>0, <2>1, <2>2, <2>3
  <2>5. Availability' = Availability
    BY <2>1, SameAnswer
  <2>6. QED
    BY <1>0, <2>1, <2>4, <2>5 DEF Punctual
<1>5. CASE TurnShoots
  <2>1. /\ UNCHANGED <<zone, schedule, now, status, wake, late>> /\ Availability.active /\ shooting' = now
    BY <1>5 DEF TurnShoots, InsideWindow, setting, session, account
  <2>2. Availability' = Availability
    BY <2>1, SameAnswer
  <2>3. QED
    BY <1>0, <2>1, <2>2 DEF Punctual
<1>6. CASE ShotEnds
  <2>1. /\ UNCHANGED <<zone, schedule, now, status, late>> /\ shooting # None /\ shooting' = None
        /\ wake' \in NoSoonerThan(now) /\ status = "Capturing"
    BY <1>0, <1>6 DEF ShotEnds, setting, account
  <2>2. PICK w \in Nat: wake' = w /\ w <= now + MaxLag
    BY <1>0, <2>1, LagIsNatural
  <2>3. Availability' = Availability
    BY <2>1, SameAnswer
  <2>4. ~Availability.active => late < MaxRequest
    BY <1>0, <2>1 DEF Punctual
  <2>5. ~Availability.active => w + late < now + LongestOverrun
    BY <1>0, <2>2, <2>4
  <2>6. QED
    BY <1>0, <2>1, <2>2, <2>3, <2>5 DEF Punctual
<1>7. CASE Tick
  <2>1. /\ now' = now + 1 /\ UNCHANGED <<status, wake, shooting>>
        /\ ~Awake /\ (shooting # None => now < shooting + MaxRequest)
        /\ late' \in Nat
        /\ status = "Capturing" /\ ~Availability.active => late' = late + 1
        /\ ~(status = "Capturing" /\ ~Availability.active) => late' = 0
    BY <1>0, <1>7 DEF Tick, session
  <2>2. status = "Capturing" /\ shooting = None => wake > now
    BY <1>0, <2>1 DEF Awake
  <2>3. CASE status = "Capturing" /\ ~Availability.active
    <3>1. late' = late + 1
      BY <2>1, <2>3
    <3>2. CASE shooting = None
      <4>1. wake > now /\ wake + late < now + LongestOverrun
        BY <2>2, <2>3, <3>2 DEF Punctual
      <4>2. /\ late + 1 < LongestOverrun
            /\ wake <= (now + 1) + LongestOverrun
            /\ wake + (late + 1) < (now + 1) + LongestOverrun
        BY <1>0, <4>1
      <4>3. QED
        BY <1>0, <2>1, <3>1, <3>2, <4>2 DEF Punctual
    <3>3. CASE shooting # None
      <4>1. shooting \in Nat /\ shooting + late < now /\ now < shooting + MaxRequest
        BY <1>0, <2>1, <2>3, <3>3 DEF Punctual
      <4>2. /\ late + 1 < LongestOverrun
            /\ shooting <= now + 1 /\ now + 1 <= shooting + MaxRequest
            /\ shooting + (late + 1) < now + 1
        BY <1>0, <4>1
      <4>3. QED
        BY <1>0, <2>1, <3>1, <3>3, <4>1, <4>2 DEF Punctual
    <3>4. QED
      BY <3>2, <3>3
  <2>4. CASE status = "Capturing" /\ Availability.active
    BY <1>0, <2>1, <2>2, <2>4 DEF Punctual
  <2>5. CASE status # "Capturing"
    BY <1>0, <2>1, <2>5 DEF Punctual
  <2>6. QED
    BY <2>3, <2>4, <2>5
<1>8. CASE UNCHANGED vars
  <2>1. UNCHANGED <<zone, schedule, now, status, wake, shooting, late>>
    BY <1>8 DEF vars, setting, session, account
  <2>2. Availability' = Availability
    BY <2>1, SameAnswer
  <2>3. QED
    BY <2>1, <2>2 DEF Punctual
<1>9. QED
  BY <1>1, <1>2, <1>3, <1>4, <1>5, <1>6, <1>7, <1>8 DEF Next

\* As long as the process lives, progress is the time spent Capturing inside the
\* windows, through any pauses, failures, closed windows and changes of offset, and
\* what the loop overran when one closed: each time less than the sleep or request
\* it was in and the saving after it.
THEOREM ActiveTimeIsAlwaysTimeInWindows == Spec => []ActiveTimeIsTimeInWindows
<1>1. Init => Accounted /\ Typed /\ Punctual
  <2> SUFFICES ASSUME Init
               PROVE  Accounted /\ Typed /\ Punctual
    OBVIOUS
  <2>1. Accounted
    BY DEF Init, Accounted, SegmentIsCapturing, Elapsed
  <2>2. Punctual
    BY OverrunIsLong DEF Init, Punctual
  <2>3. QED
    BY <2>1, <2>2, TypedInit
<1>2. Accounted /\ Typed /\ Punctual /\ [Next]_vars => Accounted' /\ Typed' /\ Punctual'
  <2> SUFFICES ASSUME Accounted, Typed, Punctual, [Next]_vars
               PROVE  Accounted' /\ Typed' /\ Punctual'
    OBVIOUS
  <2>1. [Next \/ Restart]_vars
    OBVIOUS
  <2>2. QED
    BY <2>1, AccountedStep, TypedStep, PunctualStep
<1>3. Accounted /\ Punctual => ActiveTimeIsTimeInWindows
  BY DEF Accounted, Punctual, SegmentIsCapturing, Elapsed, ActiveTimeIsTimeInWindows,
         GetActiveCaptureSeconds
<1>4. QED
  BY <1>1, <1>2, <1>3, PTL DEF Spec

-----------------------------------------------------------------------------
(* The next start is kept.                                                   *)

\* A window that no gap can swallow.
Outlasts(z, s) == z.shift < EndWall(s, 0) - StartWall(s, 0)

\* The windows of all dates are equally long.
LEMMA SameLength ==
    ASSUME NEW s \in AllSchedules, NEW date \in Int
    PROVE  EndWall(s, date) - StartWall(s, date) = EndWall(s, 0) - StartWall(s, 0)
<1>1. DayLength \in Nat \ {0} /\ None \notin Int
  BY CalendarAssumption
<1>2. WindowStart(s) \in Int /\ WindowEnd(s) \in Int
  BY <1>1 DEF AllSchedules, Schedules, WindowStart, WindowEnd
<1>3. Midnight(date) \in Int /\ Midnight(0) \in Int
  BY Midnights
<1>4. \A d \in {date, 0}:
         /\ StartWall(s, d) = Midnight(d) + WindowStart(s)
         /\ EndWall(s, d) = Midnight(d) + WindowEnd(s)
                            + IF WindowEnd(s) <= WindowStart(s) THEN DayLength ELSE 0
  BY DEF StartWall, EndWall, Midnight
<1>5. QED
  BY <1>1, <1>2, <1>3, <1>4

\* Eight days in a row hold a day of every week day.
LEMMA SomeDayOfTheWeek ==
    ASSUME NEW s \in AllSchedules, NEW date \in Int
    PROVE  \E d \in (date + 1)..(date + 8): IncludesDate(s, d)
<1> DEFINE day == s.weeklyDay
<1>1. WeekLength \in 1..8 /\ day \in 0..(WeekLength - 1)
  BY CalendarAssumption DEF AllSchedules, Schedules
<1> HIDE DEF day
<1> DEFINE week == date \div WeekLength
           today == date % WeekLength
<1>2. /\ date \in Int /\ week \in Int /\ today \in Int
      /\ 0 <= today /\ today < WeekLength /\ date = WeekLength * week + today
  BY <1>1, SMT
<1> HIDE DEF week, today
<1>3. \A w \in Int: /\ WeekLength * w \in Int
                    /\ WeekLength * (w + 1) = WeekLength * w + WeekLength
                    /\ (WeekLength * w + day) % WeekLength = day
  BY <1>1, SMT
<1> DEFINE thisWeek == WeekLength * week
           nextWeek == WeekLength * (week + 1)
<1>4. /\ thisWeek \in Int /\ nextWeek \in Int /\ nextWeek = thisWeek + WeekLength
      /\ (thisWeek + day) % WeekLength = day /\ (nextWeek + day) % WeekLength = day
  <2>1. week + 1 \in Int
    BY <1>2
  <2>2. QED
    BY <1>2, <1>3, <2>1
<1>5. date = thisWeek + today
  BY <1>2
<1> HIDE DEF thisWeek, nextWeek
<1>6. PICK d \in {thisWeek + day, nextWeek + day}: date < d /\ d <= date + WeekLength
  BY <1>1, <1>2, <1>4, <1>5
<1>7. d \in (date + 1)..(date + 8) /\ d % WeekLength = day
  BY <1>1, <1>4, <1>6
<1>8. QED
  BY <1>7 DEF IncludesDate, day

\* Such a window opens on its date.
LEMMA OpensOnItsDate ==
    ASSUME NEW z \in Zones, ChangesWithinADay(z),
           NEW s \in AllSchedules, Outlasts(z, s), NEW date \in Int
    PROVE  \E i \in WindowIntervals(z, StartWall(s, date), EndWall(s, date)):
              i.start \in Int /\ i.start < i.end /\ LocalDate(z, i.start) = date
<1> DEFINE from == StartWall(s, date)
           to == EndWall(s, date)
<1>0. z.transition \in Int /\ z.shift \in Int
  BY DEF Zones
<1>1. /\ from \in Int /\ to \in Int /\ from < to /\ z.shift < to - from
      /\ Midnight(date) <= from /\ from < Midnight(date) + DayLength
  <2>1. z.shift < to - from
    BY SameLength DEF Outlasts
  <2>2. QED
    BY <2>1, WindowOfDate
<1> HIDE DEF from, to
<1> DEFINE first == FirstShowing(z, from)
<1>2. \E i \in WindowIntervals(z, from, to): i.start = first /\ first < i.end
  <2>0. \A s1, e1: Between(s1, e1).start = s1 /\ Between(s1, e1).end = e1
    BY DEF Between
  <2>1. CASE Repeated(z, from)
    <3>1. first = from /\ from < z.transition
      BY <1>0, <1>1, <2>1 DEF Repeated, FirstShowing
    <3>2. Between(from, to) \in WindowIntervals(z, from, to)
          \/ Between(from, z.transition) \in WindowIntervals(z, from, to)
      BY <1>1, <2>1, WindowIs
    <3>3. QED
      BY <1>1, <2>0, <3>1, <3>2
  <2>2. CASE ~Repeated(z, from) /\ Repeated(z, to)
    <3>1. first = from
      BY <1>0, <1>1, <2>2 DEF Repeated, FirstShowing
    <3>2. Between(first, to) \in WindowIntervals(z, from, to)
      BY <1>1, <2>2, WindowIs
    <3>3. QED
      BY <1>1, <2>0, <3>1, <3>2
  <2>3. CASE ~Repeated(z, from) /\ ~Repeated(z, to)
    <3>1. first < FirstShowing(z, to)
      BY <1>0, <1>1, <2>3 DEF Repeated, FirstShowing
    <3>2. Between(first, FirstShowing(z, to)) \in WindowIntervals(z, from, to)
      BY <1>1, <2>3, <3>1, WindowIs
    <3>3. QED
      BY <2>0, <3>1, <3>2
  <2>4. QED
    BY <2>1, <2>2, <2>3
<1>3. first \in Int /\ WallTime(z, first) = MovedOutOfGap(z, from)
  BY <1>0, <1>1, MovedTo DEF WallTime, UtcOffset, FirstShowing
<1> HIDE DEF first
<1>4. /\ Midnight(date) \in Int /\ DayLength \in Nat
      /\ Midnight(date + 1) = Midnight(date) + DayLength
  BY Midnights, CalendarAssumption
<1>5. /\ MovedOutOfGap(z, from) \in Int
      /\ Midnight(date) <= MovedOutOfGap(z, from)
      /\ MovedOutOfGap(z, from) < Midnight(date) + DayLength
  <2>1. CASE z.transition <= from /\ from < z.transition + z.shift
    <3>1. MovedOutOfGap(z, from) = from + z.shift
      BY <1>1, <2>1, MovedTo
    <3>2. PICK day \in Int: /\ Midnight(day) <= z.transition
                            /\ z.transition + z.shift + z.shift <= Midnight(day) + DayLength
      BY <1>0, <1>1, <2>1, DateOfChange
    <3>3. Midnight(day) \in Int /\ Midnight(day + 1) = Midnight(day) + DayLength
      BY Midnights
    <3>4. Midnight(day) < Midnight(date + 1) /\ Midnight(date) < Midnight(day + 1)
      BY <1>0, <1>1, <1>4, <2>1, <3>2, <3>3
    <3>5. day < date + 1 /\ date < day + 1
      BY <3>4, MidnightsGoOn
    <3>6. day = date
      BY <3>5
    <3>7. QED
      BY <1>0, <1>1, <1>4, <2>1, <3>1, <3>2, <3>6
  <2>2. CASE ~(z.transition <= from /\ from < z.transition + z.shift)
    <3>1. MovedOutOfGap(z, from) = from
      BY <1>1, <2>2, MovedTo
    <3>2. QED
      BY <1>1, <3>1
  <2>3. QED
    BY <2>1, <2>2
<1>6. LocalDate(z, first) = date
  <2> DEFINE wall == MovedOutOfGap(z, from)
  <2>1. wall \div DayLength \in Int /\ date <= wall \div DayLength
    BY <1>5, DateOf
  <2>2. ~(date + 1 <= wall \div DayLength)
    <3> HIDE DEF wall
    <3>1. wall \in Int /\ ~(Midnight(date + 1) <= wall)
      BY <1>4, <1>5 DEF wall
    <3>2. date + 1 \in Int
      OBVIOUS
    <3>3. QED
      BY <3>1, <3>2, DateOf
  <2> HIDE DEF wall
  <2>3. wall \div DayLength = date
    BY <2>1, <2>2
  <2>4. QED
    BY <1>3, <2>3 DEF LocalDate, wall
<1>7. QED
  BY <1>2, <1>3, <1>6 DEF from, to

\* A recurring schedule always has a next start, on one of the next eight dates.
LEMMA NextInSight ==
    ASSUME NEW z \in Zones, ChangesWithinADay(z),
           NEW s \in AllSchedules, Outlasts(z, s), NEW utc \in Int,
           NEW answer, answer = EvaluateRecurring(z, s, utc), ~answer.active
    PROVE  /\ answer.next \in Int
           /\ utc < answer.next
           /\ LocalDate(z, answer.next) <= LocalDate(z, utc) + 8
           /\ \E date, i: StartsLater(z, s, utc, date, i) /\ answer.next = i.start
           /\ \A date, i: StartsLater(z, s, utc, date, i) => answer.next <= i.start
<1>0. LocalDate(z, utc) \in Int
  BY InstantHasDate
<1>1. PICK d \in (LocalDate(z, utc) + 1)..(LocalDate(z, utc) + 8): IncludesDate(s, d)
  BY <1>0, SomeDayOfTheWeek
<1>2. d \in Int /\ d \in DatesLooked(z, utc) /\ LocalDate(z, utc) < d /\ d <= LocalDate(z, utc) + 8
  BY <1>0 DEF DatesLooked
<1>3. PICK i \in WindowIntervals(z, StartWall(s, d), EndWall(s, d)):
           i.start \in Int /\ i.start < i.end /\ LocalDate(z, i.start) = d
  BY <1>2, OpensOnItsDate
<1>4. utc < i.start
  <2>1. ~(i.start <= utc)
    BY <1>0, <1>2, <1>3, DatesGoOn
  <2>2. QED
    BY <1>3, <2>1
<1>5. StartsLater(z, s, utc, d, i)
  BY <1>1, <1>2, <1>3, <1>4 DEF StartsLater
<1>6. /\ answer.next \in Int /\ utc < answer.next
      /\ \E date, j: StartsLater(z, s, utc, date, j) /\ answer.next = j.start
      /\ \A date, j: StartsLater(z, s, utc, date, j) => answer.next <= j.start
  BY <1>5, NextIsFirst
<1>7. answer.next <= i.start
  BY <1>5, <1>6
<1>8. LocalDate(z, answer.next) <= LocalDate(z, utc) + 8
  BY <1>0, <1>2, <1>3, <1>6, <1>7, DatesGoOn, InstantHasDate
<1>9. QED
  BY <1>6, <1>8

\* A window lies on its date and the next: the date of a start tells that of its window.
LEMMA StartTellsDate ==
    ASSUME NEW z \in Zones, ChangesWithinADay(z), NEW s \in AllSchedules,
           NEW utc \in Int, NEW date, NEW i, StartsLater(z, s, utc, date, i)
    PROVE  /\ date \in Int /\ i.start \in Int
           /\ date \in (LocalDate(z, i.start) - 1)..LocalDate(z, i.start)
<1>1. date \in Int
  BY InstantHasDate DEF StartsLater, DatesLooked
<1>2. i \in WindowIntervals(z, StartWall(s, date), EndWall(s, date)) /\ i.start < i.end
  BY DEF StartsLater
<1>3. i.start \in Int
  BY <1>1, <1>2, WindowType, WindowOfDate
<1>4. InWindow(z, StartWall(s, date), EndWall(s, date), i.start)
  BY <1>2, <1>3 DEF InWindow
<1>5. QED
  BY <1>1, <1>3, <1>4, WindowOfTheDay

\* One tick later a recurring schedule is open if that was its next start, and has the
\* same next start if it is still closed.
LEMMA NextStays ==
    ASSUME NEW z \in Zones, ChangesWithinADay(z),
           NEW s \in AllSchedules, Outlasts(z, s), NEW u \in Int,
           NEW before, before = EvaluateRecurring(z, s, u), ~before.active,
           NEW after, after = EvaluateRecurring(z, s, u + 1), ~after.active
    PROVE  after.next = before.next
<1>0. /\ LocalDate(z, u) \in Int /\ LocalDate(z, u + 1) \in Int
      /\ LocalDate(z, u) <= LocalDate(z, u + 1)
  BY DatesGoOn
<1>1. /\ before.next \in Int /\ u < before.next
      /\ LocalDate(z, before.next) <= LocalDate(z, u) + 8
      /\ \A date, i: StartsLater(z, s, u, date, i) => before.next <= i.start
  BY NextInSight
<1>2. /\ after.next \in Int /\ u + 1 < after.next
      /\ \A date, i: StartsLater(z, s, u + 1, date, i) => after.next <= i.start
  BY NextInSight
<1>3. after.next <= before.next
  <2>1. PICK date, i: StartsLater(z, s, u, date, i) /\ before.next = i.start
    BY NextInSight
  <2>2. date \in Int /\ date \in (LocalDate(z, before.next) - 1)..LocalDate(z, before.next)
    BY <2>1, StartTellsDate
  <2>3. before.next # u + 1
    <3>1. ASSUME before.next = u + 1
          PROVE  FALSE
      <4>1. i.start <= u + 1 /\ u + 1 < i.end
        BY <2>1, <3>1 DEF StartsLater
      <4>2. InSomeWindow(z, s, u + 1)
        BY <2>1, <2>2, <4>1 DEF StartsLater, InSomeWindow, InWindow
      <4>3. QED
        BY <4>2, RecurringActive
    <3>2. QED
      BY <3>1
  <2>4. u + 1 < before.next
    BY <1>1, <2>3
  <2>5. LocalDate(z, u + 1) <= LocalDate(z, before.next) /\ LocalDate(z, before.next) \in Int
    BY <1>1, <2>4, DatesGoOn
  <2>6. date \in DatesLooked(z, u + 1)
    <3>1. date <= LocalDate(z, u) + 8
      BY <1>0, <2>1 DEF StartsLater, DatesLooked
    <3>2. QED
      BY <1>0, <2>2, <2>5, <3>1 DEF DatesLooked
  <2>7. StartsLater(z, s, u + 1, date, i)
    BY <2>1, <2>4, <2>6 DEF StartsLater
  <2>8. QED
    BY <1>2, <2>1, <2>7
<1>4. before.next <= after.next
  <2>1. PICK date, i: StartsLater(z, s, u + 1, date, i) /\ after.next = i.start
    BY NextInSight
  <2>2. date \in Int /\ date \in (LocalDate(z, after.next) - 1)..LocalDate(z, after.next)
    BY <2>1, StartTellsDate
  <2>3. LocalDate(z, after.next) <= LocalDate(z, before.next) /\ LocalDate(z, after.next) \in Int
    BY <1>1, <1>2, <1>3, DatesGoOn
  <2>4. date \in DatesLooked(z, u)
    <3>1. LocalDate(z, u + 1) - 1 <= date
      BY <1>0, <2>1 DEF StartsLater, DatesLooked
    <3>2. LocalDate(z, before.next) \in Int
      BY <1>1, InstantHasDate
    <3>3. QED
      BY <1>0, <1>1, <2>2, <2>3, <3>1, <3>2 DEF DatesLooked
  <2>5. StartsLater(z, s, u, date, i)
    BY <1>2, <2>1, <2>4 DEF StartsLater
  <2>6. QED
    BY <1>1, <2>1, <2>5
<1>5. QED
  BY <1>1, <1>2, <1>3, <1>4

\* The same of the answer, whatever the schedule: a tick later it is open if that was
\* the next start, and has the same next start otherwise.
LEMMA AnswerStays ==
    ASSUME NEW z \in Zones, ChangesWithinADay(z), NEW s \in AllSchedules,
           Recurring(s) => Outlasts(z, s) /\ s.startAt = None, NEW u \in Int,
           NEW before, before = GetAvailability(z, s, u), ~before.active,
           NEW after, after = GetAvailability(z, s, u + 1)
    PROVE  IF after.active THEN before.next = u + 1 ELSE after.next = before.next
<1>1. CASE NotStarted(s, u)
  <2>1. before.next = s.startAt /\ s.startAt \in Int /\ u < s.startAt
    BY <1>1 DEF GetAvailability, NotStarted, AllSchedules, Schedules
  <2>2. CASE NotStarted(s, u + 1)
    BY <2>1, <2>2 DEF GetAvailability
  <2>3. CASE ~NotStarted(s, u + 1)
    <3>1. s.startAt = u + 1
      BY <1>1, <2>1, <2>3 DEF NotStarted
    <3>2. ~Recurring(s)
      BY <2>1, CalendarAssumption
    <3>3. after.active
      BY <2>3, <3>2 DEF GetAvailability
    <3>4. QED
      BY <2>1, <3>1, <3>3
  <2>4. QED
    BY <2>2, <2>3
<1>2. CASE ~NotStarted(s, u)
  <2>1. Recurring(s)
    BY <1>2 DEF GetAvailability
  <2>2. ~NotStarted(s, u + 1)
    BY <2>1 DEF NotStarted
  <2>3. before = EvaluateRecurring(z, s, u) /\ after = EvaluateRecurring(z, s, u + 1)
    BY <1>2, <2>1, <2>2 DEF GetAvailability
  <2>4. CASE after.active
    <3>1. before.next \in Int /\ u < before.next
      BY <2>1, <2>3, NextInSight
    <3>2. ~(u + 1 < before.next)
      <4>1. u + 1 <= u + DayLength
        BY CalendarAssumption
      <4>2. QED
        BY <2>4, <4>1, ClosedUntilNext
    <3>3. QED
      BY <2>4, <3>1, <3>2
  <2>5. CASE ~after.active
    BY <2>1, <2>3, <2>5, NextStays
  <2>6. QED
    BY <2>4, <2>5
<1>3. QED
  BY <1>1, <1>2

\* The next start that the user is shown and the loop sleeps until is kept, provided
\* that windows are longer than a gap (a gap may swallow a shorter one, and a week later
\* is too far ahead for EvaluateRecurring to see) and that no recurring schedule has a
\* start time (GetAvailability announces it even where no window is open).
THEOREM NextStartIsAlwaysKept ==
    ASSUME \A z \in ZoneChoices:
              /\ ChangesWithinADay(z)
              /\ \A s \in ScheduleChoices: Recurring(s) => Outlasts(z, s) /\ s.startAt = None
    PROVE  (Spec => NextStartIsKept) /\ (RestartSpec => NextStartIsKept)
<1> DEFINE Kept ==
      now' = now + 1 /\ ~Availability.active =>
          LET later == Answers[zone][schedule][now']
          IN  IF later.active THEN Availability.next = now'
                              ELSE later.next = Availability.next
<1>1. Typed /\ Typed' /\ [Next \/ Restart]_vars => [Kept]_now
  <2> SUFFICES ASSUME Typed, Typed', [Next \/ Restart]_vars, now' = now + 1, ~Availability.active
               PROVE  LET later == Answers[zone][schedule][now']
                      IN  IF later.active THEN Availability.next = now'
                                          ELSE later.next = Availability.next
    OBVIOUS
  <2>1. /\ zone \in ZoneChoices /\ zone \in Zones
        /\ schedule \in ScheduleChoices /\ schedule \in AllSchedules
        /\ now \in Int /\ now' \in Instant
        /\ Availability = GetAvailability(zone, schedule, now)
    BY AnswerNow DEF Typed, TypeOK
  <2>2. PICK after: after = GetAvailability(zone, schedule, now + 1)
    OBVIOUS
  <2>3. Answers[zone][schedule][now'] = after
    BY <2>1, <2>2 DEF Answers
  <2>4. IF after.active THEN Availability.next = now + 1 ELSE after.next = Availability.next
    BY <2>1, <2>2, AnswerStays
  <2>5. QED
    BY <2>3, <2>4
<1>2. Typed /\ [Next \/ Restart]_vars => Typed'
  BY TypedStep
<1>3. [Next]_vars => [Next \/ Restart]_vars
  OBVIOUS
<1>4. QED
  BY <1>1, <1>2, <1>3, TypedInit, PTL DEF Spec, RestartSpec, NextStartIsKept
=============================================================================
