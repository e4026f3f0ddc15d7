--------------------------- MODULE ClockworkProofs ---------------------------
(***************************************************************************)
(* What the hours, the report and the way to a branch promise, for any     *)
(* week, zone, branch, shops, maps and roads.                              *)
(***************************************************************************)
EXTENDS Wayfinding, DailyReport, SumsProofs, FiniteSetTheorems

(***************************************************************************)
(* Business hours.  The session that can run now is that of one date; the  *)
(* arithmetic of time.js finds that date, and the next, and the end of it, *)
(* wherever the clock does not change at the ends of a window.             *)
(***************************************************************************)

(* Days, minutes and weekdays. *)

LEMMA Split ==
  ASSUME NEW n \in Int
  PROVE  /\ n \div Day \in Int /\ (n % Day) \in 0..(Day - 1)
         /\ n = (n \div Day) * Day + (n % Day)
BY HoursAssumption

LEMMA Joined ==
  ASSUME NEW d \in Int, NEW m \in 0..(Day - 1)
  PROVE  /\ d * Day + m \in Int
         /\ (d * Day + m) \div Day = d
         /\ ((d * Day + m) % Day) = m
BY HoursAssumption

LEMMA DayAfter ==
  ASSUME NEW d \in Int
  PROVE  /\ d * Day \in Int
         /\ (d + 1) * Day = d * Day + Day
         /\ (d - 1) * Day = d * Day - Day
BY HoursAssumption

LEMMA DayBefore ==
  ASSUME NEW d \in Int, NEW e \in Int, d < e
  PROVE  d * Day + Day <= e * Day
<1>1. e - d - 1 \in Nat
  OBVIOUS
<1>2. (e - d - 1) * Day \in Nat
  BY <1>1, HoursAssumption
<1>3. (e - d - 1) * Day = e * Day - d * Day - Day
  BY HoursAssumption
<1>4. e * Day \in Int /\ d * Day \in Int /\ Day \in Int
  BY HoursAssumption
<1> QED
  BY <1>2, <1>3, <1>4

LEMMA WeekSplit ==
  ASSUME NEW d \in Int
  PROVE  \E q \in Int, m \in 0..(Week - 1) : d = q * Week + m
<1>1. Week \in Nat /\ Week > 0
  BY HoursAssumption
<1>2. /\ d \div Week \in Int /\ (d % Week) \in 0..(Week - 1)
      /\ d = (d \div Week) * Week + (d % Week)
  BY <1>1
<1> QED
  BY <1>2

LEMMA WeekdayAfterWeek ==
  ASSUME NEW d \in Int
  PROVE  Weekday(d - Week) = Weekday(d) /\ Weekday(d + Week) = Weekday(d)
<1>1. Week \in Nat /\ Week > 0
  BY HoursAssumption
<1>2. PICK q \in Int, m \in 0..(Week - 1) : d = q * Week + m
  BY <1>1, WeekSplit
<1>3. d - Week = (q - 1) * Week + m /\ d + Week = (q + 1) * Week + m
  BY <1>1, <1>2
<1>4. \A k \in Int : ((k * Week + m) % Week) = m
  BY <1>1, <1>2
<1>5. q - 1 \in Int /\ q + 1 \in Int
  BY <1>2
<1>6. ((d - Week) % Week) = m /\ ((d + Week) % Week) = m /\ (d % Week) = m
  BY <1>2, <1>3, <1>4, <1>5
<1> QED
  BY <1>6 DEF Weekday

LEMMA WeekdayBefore ==
  ASSUME NEW d \in Int
  PROVE  (Weekday(d) + Week - 1) % Week = Weekday(d - 1)
<1>1. Week \in Nat /\ Week > 1
  BY HoursAssumption
<1>2. PICK q \in Int, m \in 0..(Week - 1) : d = q * Week + m
  BY <1>1, WeekSplit
<1>3. \A k \in Int, i \in 0..(Week - 1) : ((k * Week + i) % Week) = i
  BY <1>1
<1>4. (d % Week) = m
  BY <1>2, <1>3
<1>5. CASE m = 0
  <2>1. d - 1 = (q - 1) * Week + (Week - 1)
    BY <1>1, <1>2, <1>5
  <2>2. m + Week - 1 = 0 * Week + (Week - 1)
    BY <1>1, <1>5
  <2>3. q - 1 \in Int /\ 0 \in Int /\ Week - 1 \in 0..(Week - 1)
    BY <1>1, <1>2
  <2>4. ((d - 1) % Week) = Week - 1 /\ ((m + Week - 1) % Week) = Week - 1
    BY <1>3, <2>1, <2>2, <2>3
  <2> QED
    BY <1>4, <2>4 DEF Weekday
<1>6. CASE m > 0
  <2>1. d - 1 = q * Week + (m - 1)
    BY <1>1, <1>2, <1>6
  <2>2. m + Week - 1 = 1 * Week + (m - 1)
    BY <1>1, <1>2, <1>6
  <2>3. m - 1 \in 0..(Week - 1) /\ 1 \in Int
    BY <1>1, <1>2, <1>6
  <2>4. ((d - 1) % Week) = m - 1 /\ ((m + Week - 1) % Week) = m - 1
    BY <1>2, <1>3, <2>1, <2>2, <2>3
  <2> QED
    BY <1>4, <2>4 DEF Weekday
<1> QED
  BY <1>2, <1>5, <1>6
-----------------------------------------------------------------------------
(* The clock. *)

\* The instant at which the wall clock first reads n, and what it reads at t.
Inst(n) == n - Offset(n - Offset(n))
Reading(t) == t + Offset(t)

ClockOK == zone.before \in Nat /\ zone.after \in Nat /\ zone.change \in Nat

LEMMA OffsetsAreNat ==
  ASSUME ClockOK, NEW t \in Int
  PROVE  Offset(t) \in Nat /\ Reading(t) \in Int
BY DEF ClockOK, Offset, Reading

\* A reading that is not skipped is reached at one instant, and not left again.
LEMMA ReadFrom ==
  ASSUME ClockOK, NEW n \in Int, n \notin Skewed(zone), NEW t \in Int
  PROVE  Inst(n) \in Int /\ (Inst(n) <= t <=> n <= Reading(t))
<1> DEFINE b == zone.before
           a == zone.after
           c == zone.change
<1>1. b \in Nat /\ a \in Nat /\ c \in Nat
  BY DEF ClockOK
<1>2. IF b <= a THEN ~(c + b + 1 <= n /\ n <= c + a - 1) ELSE ~(c + a <= n /\ n <= c + b - 1)
  BY <1>1 DEF Skewed
<1>3. Offset(n) = (IF n < c THEN b ELSE a) /\ Offset(t) = (IF t < c THEN b ELSE a)
  BY DEF Offset
<1>4. Offset(n - Offset(n)) = (IF n - Offset(n) < c THEN b ELSE a)
  BY DEF Offset
<1> HIDE DEF a, b, c
<1> QED
  BY <1>1, <1>2, <1>3, <1>4 DEF Inst, Reading

\* It is read there, but for the one at which the clock is put forward.
LEMMA ReadThere ==
  ASSUME ClockOK, NEW n \in Int, n \notin Skewed(zone)
  PROVE  \/ Reading(Inst(n)) = n
         \/ Inst(n) = zone.change /\ zone.before < zone.after
<1> DEFINE b == zone.before
           a == zone.after
           c == zone.change
           t == Inst(n)
<1>1. b \in Nat /\ a \in Nat /\ c \in Nat
  BY DEF ClockOK
<1>2. IF b <= a THEN ~(c + b + 1 <= n /\ n <= c + a - 1) ELSE ~(c + a <= n /\ n <= c + b - 1)
  BY <1>1 DEF Skewed
<1>3. Offset(n) = (IF n < c THEN b ELSE a) /\ Offset(t) = (IF t < c THEN b ELSE a)
  BY DEF Offset
<1>4. Offset(n - Offset(n)) = (IF n - Offset(n) < c THEN b ELSE a)
  BY DEF Offset
<1>5. t = n - Offset(n - Offset(n)) /\ Reading(t) = t + Offset(t)
  BY DEF Inst, Reading
<1> HIDE DEF a, b, c, t
<1>6. Reading(t) = n \/ (t = c /\ b < a)
  BY <1>1, <1>2, <1>3, <1>4, <1>5
<1> QED
  BY <1>6 DEF a, b, c, t

\* A day later the clock reads a day more, give or take its change.
LEMMA ReadDayLater ==
  ASSUME ClockOK, NEW n \in Int, n \notin Skewed(zone)
  PROVE  Reading(Inst(n) + Day) \in {n + Day, n + Day + zone.after - zone.before}
<1> DEFINE b == zone.before
           a == zone.after
           c == zone.change
           t == Inst(n) + Day
<1>1. b \in Nat /\ a \in Nat /\ c \in Nat /\ Day \in Nat /\ Day > 0
  BY HoursAssumption DEF ClockOK
<1>2. IF b <= a THEN ~(c + b + 1 <= n /\ n <= c + a - 1) ELSE ~(c + a <= n /\ n <= c + b - 1)
  BY <1>1 DEF Skewed
<1>3. Offset(n) = (IF n < c THEN b ELSE a) /\ Offset(t) = (IF t < c THEN b ELSE a)
  BY DEF Offset
<1>4. Offset(n - Offset(n)) = (IF n - Offset(n) < c THEN b ELSE a)
  BY DEF Offset
<1>5. t = n - Offset(n - Offset(n)) + Day /\ Reading(t) = t + Offset(t)
  BY DEF Inst, Reading
<1> HIDE DEF a, b, c, t
<1>6. Reading(t) = n + Day \/ Reading(t) = n + Day + a - b
  BY <1>1, <1>2, <1>3, <1>4, <1>5
<1> QED
  BY <1>6 DEF a, b, t

-----------------------------------------------------------------------------
(* Windows. *)

\* The hours w with the buffer b, in a zone whose clock does not change at their ends.
Clear(w, b) ==
    /\ w \in Windows /\ b \in Nat
    /\ HasOnce(zone, w.open) /\ HasOnce(zone, w.close)
    /\ StaysOnDate(zone, w.open) /\ StaysOnDate(zone, w.close)
    /\ HasOnce(zone, (Straighten(w) - b) % Day)

BranchOK == branch \in BranchRecords /\ ClearOfChange(zone, branch)

HoursInv == /\ at \in Nat /\ zone \in Zones /\ ClockOK
            /\ BranchOK

LEMMA InstantIs ==
  ASSUME NEW d, NEW m
  PROVE  InstantOf(d, m) = Inst(d * Day + m)
BY DEF InstantOf, Inst

LEMMA NotSkewed ==
  ASSUME NEW m \in 0..(Day - 1), HasOnce(zone, m), NEW d \in Int
  PROVE  d * Day + m \in Int /\ d * Day + m \notin Skewed(zone)
BY Joined DEF HasOnce

\* The day after the one on which minute m is read.
LEMMA DateAfterIs ==
  ASSUME ClockOK, NEW m \in 0..(Day - 1), HasOnce(zone, m), StaysOnDate(zone, m),
         NEW d \in Int
  PROVE  DateAfter(InstantOf(d, m)) = d + 1
<1> DEFINE n == d * Day + m
           k == m + zone.after - zone.before
<1>1. n \in Int /\ n \notin Skewed(zone)
  BY NotSkewed
<1>2. DateAfter(InstantOf(d, m)) = Reading(Inst(n) + Day) \div Day
  BY InstantIs DEF DateAfter, ZonedParts, Reading
<1>3. Reading(Inst(n) + Day) \in {n + Day, n + Day + zone.after - zone.before}
  BY <1>1, ReadDayLater
<1>4. n + Day = (d + 1) * Day + m /\ n + Day + zone.after - zone.before = (d + 1) * Day + k
  BY DayAfter, HoursAssumption DEF ClockOK
<1>5. m \in 0..(Day - 1) /\ k \in 0..(Day - 1) /\ d + 1 \in Int
  BY DEF StaysOnDate
<1> HIDE DEF n, k
<1>6. ((d + 1) * Day + m) \div Day = d + 1 /\ ((d + 1) * Day + k) \div Day = d + 1
  BY <1>5, Joined
<1> QED
  BY <1>2, <1>3, <1>4, <1>6

\* The instants of minute m go up with the days.
LEMMA DaysGoUp ==
  ASSUME ClockOK, NEW m \in 0..(Day - 1), HasOnce(zone, m), NEW d \in Int, NEW e \in Int, d < e,
         StaysOnDate(zone, m)
  PROVE  /\ InstantOf(d, m) \in Int /\ InstantOf(e, m) \in Int
         /\ InstantOf(d, m) < InstantOf(e, m)
<1> DEFINE n == d * Day + m
           l == e * Day + m
<1>1. n \in Int /\ n \notin Skewed(zone) /\ l \in Int /\ l \notin Skewed(zone)
  BY NotSkewed
<1>2. n + Day <= l
  BY DayBefore, DayAfter, HoursAssumption
<1>3. Inst(n) \in Int /\ Inst(l) \in Int
  BY <1>1, ReadFrom
<1>4. Reading(Inst(l)) >= l
  BY <1>1, <1>3, ReadFrom
<1>5. Reading(Inst(n)) < n + Day
  <2>1. Day \in Nat /\ Day > 0
    BY HoursAssumption
  <2>2. CASE Reading(Inst(n)) = n
    BY <1>1, <2>1, <2>2
  <2>3. CASE Inst(n) = zone.change /\ zone.before < zone.after
    <3>1. Reading(Inst(n)) = zone.change + zone.after
      BY <2>3, HoursAssumption DEF Reading, Offset, ClockOK
    <3>2. zone.after - zone.before < Day
      BY <2>1 DEF StaysOnDate, ClockOK
    <3>3. n >= zone.change + zone.before
      <4>1. Offset(n - Offset(n)) \in {zone.before, zone.after}
        BY DEF Offset
      <4>2. Inst(n) = n - Offset(n - Offset(n))
        BY DEF Inst
      <4> HIDE DEF n
      <4> QED
        BY <1>1, <2>3, <4>1, <4>2 DEF ClockOK
    <3> HIDE DEF n
    <3> QED
      BY <1>1, <2>1, <3>1, <3>2, <3>3 DEF ClockOK
  <2> QED
    BY <1>1, <2>2, <2>3, ReadThere
<1>6. Reading(Inst(n)) \in Int /\ Reading(Inst(l)) \in Int
  BY <1>3, OffsetsAreNat
<1>7. ~(Inst(l) <= Inst(n))
  <2>1. ~(l <= Reading(Inst(n)))
    <3> HIDE DEF n, l
    <3> QED
      BY <1>1, <1>2, <1>5, <1>6, HoursAssumption
  <2> QED
    BY <1>1, <1>3, <2>1, ReadFrom
<1> QED
  BY <1>3, <1>7, InstantIs

\* What runs from the open to the cutoff of date d.
Cut(w, b) == Straighten(w) - b
SessionOf(w, b, d) ==
    [from |-> InstantOf(d, w.open), until |-> InstantOf(d + Cut(w, b) \div Day, Cut(w, b) % Day)]

\* The date on which the session that may run now has opened.
OpenDate(w) == IF ZonedParts(at).minute < w.open THEN ZonedParts(at).date - 1
                                                 ELSE ZonedParts(at).date

LEMMA StraightenIs ==
  ASSUME NEW w \in Windows
  PROVE  /\ w.open \in 0..(Day - 1) /\ w.close \in 0..(Day - 1)
         /\ Straighten(w) \in Int /\ w.open < Straighten(w) /\ Straighten(w) <= w.open + Day
<1>1. w.open \in 0..(Day - 1) /\ w.close \in 0..(Day - 1)
  BY DEF Windows
<1> QED
  BY <1>1, HoursAssumption DEF Straighten

LEMMA FromIs ==
  ASSUME ClockOK, NEW w, NEW b, Clear(w, b), NEW d \in Int, NEW t \in Int
  PROVE  /\ InstantOf(d, w.open) \in Int
         /\ InstantOf(d, w.open) <= t <=> d * Day + w.open <= Reading(t)
<1>1. w.open \in 0..(Day - 1) /\ HasOnce(zone, w.open)
  BY StraightenIs DEF Clear
<1>2. d * Day + w.open \in Int /\ d * Day + w.open \notin Skewed(zone)
  BY <1>1, NotSkewed
<1> QED
  BY <1>2, ReadFrom, InstantIs

LEMMA UntilIs ==
  ASSUME NEW w, NEW b, Clear(w, b), NEW d \in Int
  PROVE  /\ Cut(w, b) \in Int /\ Cut(w, b) <= w.open + Day
         /\ InstantOf(d + Cut(w, b) \div Day, Cut(w, b) % Day) = Inst(d * Day + Cut(w, b))
         /\ d * Day + Cut(w, b) \in Int /\ d * Day + Cut(w, b) \notin Skewed(zone)
<1> DEFINE c == Cut(w, b)
           e == c \div Day
           m == c % Day
<1>1. c \in Int /\ c <= w.open + Day
  <2>1. w \in Windows /\ b \in Nat
    BY DEF Clear
  <2>2. Straighten(w) \in Int /\ Straighten(w) <= w.open + Day /\ w.open \in Int /\ Day \in Int
    BY <2>1, StraightenIs, HoursAssumption
  <2> QED
    BY <2>1, <2>2 DEF Cut
<1>2. e \in Int /\ m \in 0..(Day - 1) /\ c = e * Day + m
  BY <1>1, Split
<1>3. HasOnce(zone, m)
  BY DEF Clear, Cut
<1>4. (d + e) * Day + m \in Int /\ (d + e) * Day + m \notin Skewed(zone)
  <2>1. d + e \in Int
    BY <1>2
  <2> HIDE DEF m, e
  <2> QED
    BY <1>2, <1>3, <2>1, NotSkewed
<1>5. InstantOf(d + e, m) = Inst((d + e) * Day + m)
  BY InstantIs
<1>6. (d + e) * Day + m = d * Day + c
  <2> HIDE DEF e, m, c
  <2>1. (d + e) * Day = d * Day + e * Day
    BY <1>2, HoursAssumption
  <2>2. d * Day \in Int /\ e * Day \in Int /\ m \in Int
    BY <1>2, HoursAssumption
  <2> QED
    BY <1>2, <2>1, <2>2
<1> HIDE DEF e, m
<1> QED
  BY <1>1, <1>4, <1>5, <1>6 DEF e, m

LEMMA NowIs ==
  ASSUME HoursInv
  PROVE  /\ Reading(at) \in Int /\ ZonedParts(at).date \in Int
         /\ ZonedParts(at).minute \in 0..(Day - 1)
         /\ Reading(at) = ZonedParts(at).date * Day + ZonedParts(at).minute
<1>1. Reading(at) \in Int
  BY OffsetsAreNat DEF HoursInv
<1>2. ZonedParts(at) = [date |-> Reading(at) \div Day, minute |-> Reading(at) % Day]
  BY DEF ZonedParts, Reading
<1> HIDE DEF Reading
<1> QED
  BY <1>1, <1>2, Split

LEMMA LineIs ==
  ASSUME HoursInv, NEW w \in Windows
  PROVE  /\ OpenDate(w) \in Int /\ OpenDate(w) \in Dates /\ OpenDate(w) + Week \in Dates
         /\ OpenDate(w) + Week > ZonedParts(at).date
         /\ Reading(at) = OpenDate(w) * Day + NowOnWindowLine(at, w.open)
         /\ NowOnWindowLine(at, w.open) \in w.open..(w.open + Day - 1)
         /\ SessionWeekday(at, w.open) = Weekday(OpenDate(w))
<1> DEFINE today == ZonedParts(at).date
           x == ZonedParts(at).minute
<1>1. /\ Reading(at) \in Int /\ today \in Int /\ x \in 0..(Day - 1)
      /\ Reading(at) = today * Day + x
  BY NowIs
<1>2. w.open \in 0..(Day - 1) /\ Day \in Nat /\ Week \in Nat /\ Week > 1
  BY StraightenIs, HoursAssumption
<1>3. Dates = (today - Week)..(today + 2 * Week)
  BY DEF Dates
<1>4. (today - 1) * Day = today * Day - Day /\ today * Day \in Int
  BY <1>1, DayAfter
<1>5. OpenDate(w) = (IF x < w.open THEN today - 1 ELSE today)
  BY DEF OpenDate
<1>6. NowOnWindowLine(at, w.open) = (IF x < w.open THEN x + Day ELSE x)
  BY DEF NowOnWindowLine
<1>7. SessionWeekday(at, w.open) = Weekday(OpenDate(w))
  BY <1>1, <1>5, WeekdayBefore DEF SessionWeekday
<1> HIDE DEF x, today
<1>8. OpenDate(w) \in Int /\ OpenDate(w) \in Dates /\ OpenDate(w) + Week \in Dates
      /\ OpenDate(w) + Week > today
  BY <1>1, <1>2, <1>3, <1>5
<1>9. /\ Reading(at) = OpenDate(w) * Day + NowOnWindowLine(at, w.open)
      /\ NowOnWindowLine(at, w.open) \in w.open..(w.open + Day - 1)
  BY <1>1, <1>2, <1>4, <1>5, <1>6
<1> QED
  BY <1>7, <1>8, <1>9 DEF today

\* The session that runs now, if there is one, is that of OpenDate.
LEMMA SessionAt ==
  ASSUME HoursInv, NEW w, NEW b, Clear(w, b)
  PROVE  During(Sessions(w, b), at) =
            IF IsOpenAt(w, at, b) THEN {SessionOf(w, b, OpenDate(w))} ELSE {}
<1> DEFINE D == OpenDate(w)
           line == NowOnWindowLine(at, w.open)
           Opens(d) == Weekday(d) \notin branch.closedDays /\ Cut(w, b) > w.open
           Holds(d) == SessionOf(w, b, d).from <= at /\ at < SessionOf(w, b, d).until
<1>1. /\ D \in Int /\ D \in Dates /\ Reading(at) = D * Day + line
      /\ line \in w.open..(w.open + Day - 1) /\ SessionWeekday(at, w.open) = Weekday(D)
  BY LineIs DEF Clear
<1>2. w.open \in Int /\ Day \in Nat /\ Day > 0 /\ Cut(w, b) \in Int /\ Cut(w, b) <= w.open + Day
      /\ ClockOK /\ at \in Int /\ Reading(at) \in Int
  BY StraightenIs, UntilIs, HoursAssumption, NowIs DEF Clear, HoursInv
<1>3. IsOpenAt(w, at, b) <=> Opens(D) /\ line < Cut(w, b)
  <2>1. IsOpenAt(w, at, b) <=> Opens(D) /\ line \in w.open..(Cut(w, b) - 1)
    BY <1>1 DEF IsOpenAt, Cut
  <2> HIDE DEF Opens, line, D
  <2> QED
    BY <1>1, <1>2, <2>1
<1>4. \A d \in Int : Holds(d) <=> /\ d * Day + w.open <= Reading(at)
                                  /\ Reading(at) < d * Day + Cut(w, b)
  <2> TAKE d \in Int
  <2>1. /\ SessionOf(w, b, d).from = InstantOf(d, w.open)
        /\ SessionOf(w, b, d).until = Inst(d * Day + Cut(w, b))
    BY UntilIs DEF SessionOf
  <2>2. InstantOf(d, w.open) <= at <=> d * Day + w.open <= Reading(at)
    BY <1>2, FromIs
  <2>3. d * Day + Cut(w, b) \in Int /\ d * Day + Cut(w, b) \notin Skewed(zone)
    BY UntilIs
  <2>4. /\ Inst(d * Day + Cut(w, b)) \in Int
        /\ Inst(d * Day + Cut(w, b)) <= at <=> d * Day + Cut(w, b) <= Reading(at)
    BY <1>2, <2>3, ReadFrom
  <2> QED
    BY <1>2, <2>1, <2>2, <2>3, <2>4
<1>5. \A d \in Int : Holds(d) => d = D
  <2> SUFFICES ASSUME NEW d \in Int, Holds(d), d # D PROVE FALSE
    OBVIOUS
  <2>1. d * Day + w.open <= Reading(at) /\ Reading(at) < d * Day + Cut(w, b)
    BY <1>4
  <2>2. d * Day \in Int /\ D * Day \in Int
    BY <1>1, DayAfter
  <2>3. CASE d < D
    <3>1. d * Day + Day <= D * Day
      BY <1>1, <2>3, DayBefore
    <3> HIDE DEF D, line, Holds
    <3> QED
      BY <1>1, <1>2, <2>1, <2>2, <3>1
  <2>4. CASE D < d
    <3>1. D * Day + Day <= d * Day
      BY <1>1, <2>4, DayBefore
    <3> HIDE DEF D, line, Holds
    <3> QED
      BY <1>1, <1>2, <2>1, <2>2, <3>1
  <2> QED
    BY <1>1, <2>3, <2>4
<1>6. Holds(D) <=> line < Cut(w, b)
  <2>1. D * Day \in Int
    BY <1>1, DayAfter
  <2>2. Holds(D) <=> D * Day + w.open <= Reading(at) /\ Reading(at) < D * Day + Cut(w, b)
    BY <1>1, <1>4
  <2> HIDE DEF D, line, Holds
  <2> QED
    BY <1>1, <1>2, <2>1, <2>2
<1>7. Sessions(w, b) = { SessionOf(w, b, d) : d \in { e \in Dates : Opens(e) } }
  BY DEF Sessions, SessionOf, Cut
<1>8. Dates \subseteq Int
  BY NowIs, HoursAssumption DEF Dates
<1>9. During(Sessions(w, b), at) = { s \in Sessions(w, b) : s.from <= at /\ at < s.until }
  BY DEF During
<1>10. \A s : s \in During(Sessions(w, b), at) <=> \E d \in Dates : s = SessionOf(w, b, d) /\ Opens(d) /\ Holds(d)
  BY <1>7, <1>9
<1> HIDE DEF D, Opens, Holds, line
<1>11. \A s : s \in During(Sessions(w, b), at) <=> s = SessionOf(w, b, D) /\ Opens(D) /\ Holds(D)
  BY <1>1, <1>5, <1>8, <1>10
<1>12. \A s : s \in During(Sessions(w, b), at) <=> s = SessionOf(w, b, D) /\ IsOpenAt(w, at, b)
  BY <1>3, <1>6, <1>11
<1> QED
  BY <1>12 DEF D

-----------------------------------------------------------------------------
(* The parts of HoursAgree. *)

LEMMA ModeClear ==
  ASSUME HoursInv, NEW mode \in Modes \cup {Null}
  PROVE  /\ Clear(HoursFor(mode), 0) /\ Clear(branch.hours, 0)
         /\ Clear(HoursFor(mode), LastOrderBufferFor(mode))
<1>1. /\ branch.hours \in Windows /\ branch.deliveryHours \in Windows \cup {Null}
      /\ branch.buffer \in Nat /\ Null \notin Windows
  BY HoursAssumption DEF HoursInv, BranchOK, BranchRecords
<1>2. HoursFor(mode) \in {branch.hours, branch.deliveryHours} \ {Null} /\ HoursFor(mode) \in Windows
  BY <1>1 DEF HoursFor
<1>3. \A w \in {branch.hours, branch.deliveryHours} \ {Null} :
        /\ HasOnce(zone, w.open) /\ HasOnce(zone, w.close)
        /\ StaysOnDate(zone, w.open) /\ StaysOnDate(zone, w.close)
        /\ HasOnce(zone, (Straighten(w) - branch.buffer) % Day)
  BY DEF HoursInv, BranchOK, ClearOfChange
<1>4. \A w \in Windows : (Straighten(w) % Day) = w.close /\ Straighten(w) - 0 = Straighten(w)
  <2> TAKE w \in Windows
  <2>1. w.close \in 0..(Day - 1) /\ Straighten(w) \in {w.close, w.close + Day} /\ Straighten(w) \in Int
    BY StraightenIs DEF Straighten
  <2>2. ((0 * Day + w.close) % Day) = w.close /\ ((1 * Day + w.close) % Day) = w.close
    BY <2>1, Joined
  <2>3. 0 * Day + w.close = w.close /\ 1 * Day + w.close = w.close + Day
    BY <2>1, HoursAssumption
  <2> QED
    BY <2>1, <2>2, <2>3
<1>5. \A w \in Windows : w \in {branch.hours, branch.deliveryHours} \ {Null} =>
        Clear(w, 0) /\ Clear(w, branch.buffer)
  BY <1>1, <1>3, <1>4 DEF Clear
<1>6. LastOrderBufferFor(mode) \in {0, branch.buffer}
  BY DEF LastOrderBufferFor
<1>7. branch.hours \in {branch.hours, branch.deliveryHours} \ {Null}
  BY <1>1
<1> QED
  BY <1>1, <1>2, <1>5, <1>6, <1>7

LEMMA OrdersAreInSessions ==
  ASSUME HoursInv
  PROVE  OrdersInSessions
<1> SUFFICES ASSUME NEW mode \in branch.fulfilment
             PROVE  IsModeOpenAt(mode, at) <=>
                        branch.isActive /\ During(ModeSessions(mode), at) # {}
  BY DEF OrdersInSessions
<1>1. mode \in Modes
  BY DEF HoursInv, BranchOK, BranchRecords
<1>2. Clear(HoursFor(mode), LastOrderBufferFor(mode))
  BY <1>1, ModeClear
<1> QED
  BY <1>2, SessionAt DEF IsModeOpenAt, ModeSessions

LEMMA MaxOfOne ==
  ASSUME NEW x \in Int
  PROVE  Max({x}) = x
BY DEF Max

LEMMA CountdownHolds ==
  ASSUME HoursInv
  PROVE  CountdownIsTrue
<1> SUFFICES ASSUME NEW mode \in branch.fulfilment,
                    MinutesUntilLastOrder(mode, at) # Null,
                    NEW s \in During(ModeSessions(mode), at),
                    Steady(at, s.until)
             PROVE  at + MinutesUntilLastOrder(mode, at) = s.until
  BY DEF CountdownIsTrue
<1> DEFINE w == HoursFor(mode)
           b == LastOrderBufferFor(mode)
           D == OpenDate(w)
           line == NowOnWindowLine(at, w.open)
           end == D * Day + Cut(w, b)
<1>1. mode \in Modes /\ mode # Null
  BY HoursAssumption DEF HoursInv, BranchOK, BranchRecords
<1>2. Clear(w, b) /\ w \in Windows
  BY <1>1, ModeClear DEF Clear
<1>3. s = SessionOf(w, b, D) /\ IsOpenAt(w, at, b)
  BY <1>2, SessionAt DEF ModeSessions
<1>4. /\ D \in Int /\ Reading(at) = D * Day + line /\ line \in w.open..(w.open + Day - 1)
  BY <1>2, LineIs
<1>5. Cut(w, b) \in Int /\ s.until = Inst(end) /\ end \in Int /\ end \notin Skewed(zone)
  BY <1>2, <1>3, <1>4, UntilIs DEF SessionOf
<1>6. w.open \in Int /\ Day \in Int /\ line \in Int
  BY <1>2, <1>4, StraightenIs, HoursAssumption
<1>7. MinutesUntilLastOrder(mode, at) = Cut(w, b) - line
  <2> DEFINE left == { Straighten(HoursFor(m)) - LastOrderBufferFor(m)
                          - NowOnWindowLine(at, HoursFor(m).open) :
                        m \in { n \in IF mode = Null THEN branch.fulfilment ELSE {mode} :
                                  IsAcceptingOrdersAt(n, at) } }
  <2>1. MinutesUntilLastOrder(mode, at) = IF left = {} THEN Null ELSE Max(left)
    BY DEF MinutesUntilLastOrder
  <2>2. left # {}
    BY <2>1
  <2>3. left = { Cut(w, b) - line }
    BY <1>1, <2>2 DEF Cut
  <2>4. Cut(w, b) - line \in Int
    BY <1>5, <1>6
  <2> HIDE DEF left, line, w, b
  <2> QED
    BY <2>1, <2>2, <2>3, <2>4, MaxOfOne
<1>8. ClockOK /\ at \in Int
  BY DEF HoursInv
<1>9. Inst(end) \in Int /\ at < Inst(end)
  <2>1. at < s.until
    BY DEF During
  <2> QED
    BY <1>5, <1>8, <2>1, ReadFrom
<1>10. Reading(Inst(end)) = end
  <2>1. Offset(at) = Offset(Inst(end))
    BY <1>5 DEF Steady
  <2>2. ~(Inst(end) = zone.change /\ zone.before < zone.after)
    <3> SUFFICES ASSUME Inst(end) = zone.change, zone.before < zone.after PROVE FALSE
      OBVIOUS
    <3>1. at < zone.change /\ ~(zone.change < zone.change)
      BY <1>8, <1>9 DEF ClockOK
    <3>2. Offset(at) = zone.before /\ Offset(zone.change) = zone.after
      BY <3>1 DEF Offset
    <3> QED
      BY <1>8, <2>1, <3>2 DEF ClockOK
  <2> QED
    BY <1>5, <1>8, <2>2, ReadThere
<1>11. Offset(at) \in Nat /\ Offset(Inst(end)) = Offset(at)
  BY <1>5, <1>8, OffsetsAreNat DEF Steady
<1>12. D * Day \in Int /\ end = D * Day + Cut(w, b)
  BY <1>4, DayAfter
<1>13. at + Offset(at) = D * Day + line /\ Inst(end) + Offset(at) = end
  BY <1>4, <1>10, <1>11 DEF Reading
<1>14. at + (Cut(w, b) - line) = Inst(end)
  <2> HIDE DEF end, line, D, w, b
  <2> QED
    BY <1>5, <1>6, <1>8, <1>9, <1>11, <1>12, <1>13
<1> QED
  BY <1>5, <1>7, <1>14

-----------------------------------------------------------------------------
(* The next opening. *)

Dating(open, t, g) ==
    g = [k \in 0..Week |-> IF k = 0 THEN ZonedParts(t).date
                                    ELSE DateAfter(InstantOf(g[k - 1], open))]

Tries(open, t, g) ==
    { k \in 0..Week : InstantOf(g[k], open) > t /\ Weekday(g[k]) \notin branch.closedDays }

Chosen(open, t, date) ==
    InstantOf(IF Tries(open, t, date) = {} THEN DateAfter(t)
              ELSE date[Min(Tries(open, t, date))], open)

LEMMA NextOpeningAs ==
  ASSUME NEW open, NEW t
  PROVE  NextOpeningAt(open, t) = Chosen(open, t, CHOOSE g : Dating(open, t, g))
BY DEF NextOpeningAt, Dating, Tries, Chosen

\* The dates it tries are those from today on.
LEMMA DatesTried ==
  ASSUME HoursInv, NEW open \in 0..(Day - 1), HasOnce(zone, open), StaysOnDate(zone, open)
  PROVE  (CHOOSE g : Dating(open, at, g)) = [k \in 0..Week |-> ZonedParts(at).date + k]
<1> DEFINE today == ZonedParts(at).date
           f == [k \in 0..Week |-> today + k]
<1>1. today \in Int /\ Week \in Nat /\ ClockOK
  BY NowIs, HoursAssumption DEF HoursInv
<1>2. Dating(open, at, f)
  <2>1. \A k \in 0..Week : f[k] = IF k = 0 THEN today ELSE DateAfter(InstantOf(f[k - 1], open))
    <3> TAKE k \in 0..Week
    <3>1. CASE k = 0
      BY <1>1, <3>1
    <3>2. CASE k # 0
      <4>1. k - 1 \in 0..Week /\ today + (k - 1) \in Int /\ today + (k - 1) + 1 = today + k
        BY <1>1, <3>2
      <4>2. DateAfter(InstantOf(today + (k - 1), open)) = today + (k - 1) + 1
        BY <1>1, <4>1, DateAfterIs
      <4> QED
        BY <3>2, <4>1, <4>2
    <3> QED
      BY <3>1, <3>2
  <2>2. f = [k \in 0..Week |-> f[k]]
    OBVIOUS
  <2> HIDE DEF f
  <2> QED
    BY <2>1, <2>2 DEF Dating
<1>3. PICK g : g = CHOOSE h : Dating(open, at, h)
  OBVIOUS
<1>4. Dating(open, at, g)
  BY <1>2, <1>3
<1>5. DOMAIN g = 0..Week /\ \A k \in 0..Week :
        g[k] = IF k = 0 THEN today ELSE DateAfter(InstantOf(g[k - 1], open))
  BY <1>4 DEF Dating
<1> DEFINE Bad == { k \in 0..Week : g[k] # today + k }
           R == OpToRel(<, Nat)
<1>6. IsWellFoundedOn(R, Nat)
  BY NatLessThanWellFounded
<1>7. Bad \subseteq Nat
  BY <1>1
<1>8. Bad = {}
  <2> SUFFICES ASSUME Bad # {} PROVE FALSE
    OBVIOUS
  <2> HIDE DEF Bad, R
  <2>1. PICK k \in Bad : \A y \in Bad : ~(<<y, k>> \in R)
    BY <1>6, <1>7, WFMin
  <2>2. k \in 0..Week /\ g[k] # today + k
    BY <2>1 DEF Bad
  <2>3. k # 0
    <3> HIDE DEF today
    <3> QED
      BY <1>1, <1>5, <2>2
  <2>4. k - 1 \in 0..Week /\ k - 1 < k /\ k - 1 \in Nat /\ k \in Nat
    BY <1>1, <2>2, <2>3
  <2>5. k - 1 \notin Bad
    BY <2>1, <2>4 DEF R, OpToRel
  <2>6. g[k - 1] = today + (k - 1)
    BY <2>4, <2>5 DEF Bad
  <2>7. today + (k - 1) \in Int /\ today + (k - 1) + 1 = today + k
    BY <1>1, <2>4
  <2>8. DateAfter(InstantOf(today + (k - 1), open)) = today + (k - 1) + 1
    BY <1>1, <2>7, DateAfterIs
  <2>9. g[k] = DateAfter(InstantOf(g[k - 1], open))
    BY <1>5, <2>2, <2>3
  <2> QED
    BY <2>2, <2>6, <2>7, <2>8, <2>9
<1>9. \A k \in 0..Week : g[k] = today + k
  BY <1>8
<1> HIDE DEF today
<1>10. g = [k \in 0..Week |-> today + k]
  BY <1>4, <1>5, <1>9 DEF Dating
<1> QED
  BY <1>3, <1>10 DEF today

\* The openings after now, of windows that are kept to the close.
Later(w) == { s.from : s \in { x \in Sessions(w, 0) : x.from > at } }

LEMMA LaterIs ==
  ASSUME NEW w, Clear(w, 0)
  PROVE  Later(w) = { InstantOf(d, w.open) : d \in { e \in Dates :
                        /\ Weekday(e) \notin branch.closedDays /\ InstantOf(e, w.open) > at } }
<1>1. Straighten(w) - 0 > w.open
  BY StraightenIs DEF Clear, Windows
<1>2. Sessions(w, 0) = { SessionOf(w, 0, d) : d \in { e \in Dates : Weekday(e) \notin branch.closedDays } }
  BY <1>1 DEF Sessions, SessionOf, Cut
<1>3. \A d : SessionOf(w, 0, d).from = InstantOf(d, w.open)
  BY DEF SessionOf
<1> QED
  BY <1>2, <1>3 DEF Later

LEMMA MinIs ==
  ASSUME NEW S, S \subseteq Int, NEW m \in S, \A y \in S : m <= y
  PROVE  Min(S) = m
<1>1. PICK c : c = Min(S)
  OBVIOUS
<1>2. c = CHOOSE x \in S : \A y \in S : x <= y
  BY <1>1 DEF Min
<1>3. c \in S /\ \A y \in S : c <= y
  BY <1>2
<1>4. c <= m /\ m <= c /\ c \in Int /\ m \in Int
  BY <1>3
<1> QED
  BY <1>1, <1>4

LEMMA MinOfTries ==
  ASSUME NEW n \in Nat, NEW S, S \subseteq 0..n, S # {}
  PROVE  \E m \in S : Min(S) = m /\ \A y \in S : m <= y
<1> DEFINE R == OpToRel(<, Nat)
<1>1. IsWellFoundedOn(R, Nat)
  BY NatLessThanWellFounded
<1>2. S \subseteq Nat /\ S \subseteq Int
  OBVIOUS
<1> HIDE DEF R
<1>3. PICK m \in S : \A y \in S : ~(<<y, m>> \in R)
  BY <1>1, <1>2, WFMin
<1>4. \A y \in S : m <= y
  <2> TAKE y \in S
  <2>1. y \in Nat /\ m \in Nat /\ ~(<<y, m>> \in R)
    BY <1>2, <1>3
  <2>2. ~(y < m)
    BY <2>1 DEF R, OpToRel
  <2> QED
    BY <2>1, <2>2
<1>5. Min(S) = m
  BY <1>2, <1>4, MinIs
<1> QED
  BY <1>4, <1>5

LEMMA NextOpeningIs ==
  ASSUME HoursInv, NEW w, Clear(w, 0), Later(w) # {}
  PROVE  /\ NextOpeningAt(w.open, at) = Min(Later(w))
         /\ Min(Later(w)) \in Later(w) /\ Later(w) \subseteq Int
         /\ \A i \in Later(w) : Min(Later(w)) <= i
<1> DEFINE today == ZonedParts(at).date
           x == ZonedParts(at).minute
           F(d) == InstantOf(d, w.open)
           Good(d) == Weekday(d) \notin branch.closedDays /\ F(d) > at
           g == [k \in 0..Week |-> today + k]
           tries == Tries(w.open, at, g)
<1>1. /\ today \in Int /\ x \in 0..(Day - 1) /\ Reading(at) = today * Day + x
      /\ Reading(at) \in Int /\ ClockOK /\ at \in Int
  BY NowIs DEF HoursInv
<1>2. /\ w.open \in 0..(Day - 1) /\ HasOnce(zone, w.open) /\ StaysOnDate(zone, w.open)
      /\ Day \in Nat /\ Day > 0 /\ Week \in Nat /\ Week > 1
  BY StraightenIs, HoursAssumption DEF Clear
<1>3. Later(w) = { F(d) : d \in { e \in Dates : Good(e) } } /\ Dates = (today - Week)..(today + 2 * Week)
  BY LaterIs DEF Dates
<1>4. \A d \in Int : F(d) \in Int /\ (F(d) > at <=> Reading(at) < d * Day + w.open)
  <2> TAKE d \in Int
  <2>1. F(d) \in Int /\ (F(d) <= at <=> d * Day + w.open <= Reading(at))
    BY <1>1, FromIs
  <2>2. d * Day \in Int
    BY DayAfter
  <2> HIDE DEF F, today, x
  <2> QED
    BY <1>1, <1>2, <2>1, <2>2
<1>5. \A d, e \in Int : d < e => F(d) < F(e)
  BY <1>1, <1>2, DaysGoUp
<1>6. \A d \in Int : F(d) > at => d >= today
  <2> SUFFICES ASSUME NEW d \in Int, F(d) > at, d < today PROVE FALSE
    BY <1>1
  <2>1. d * Day + Day <= today * Day /\ d * Day \in Int /\ today * Day \in Int
    BY <1>1, DayBefore, DayAfter
  <2>2. Reading(at) < d * Day + w.open
    BY <1>4
  <2> HIDE DEF today, x, F
  <2> QED
    BY <1>1, <1>2, <2>1, <2>2
<1>7. \A d \in Int : d > today => F(d) > at
  <2> SUFFICES ASSUME NEW d \in Int, d > today PROVE Reading(at) < d * Day + w.open
    BY <1>4
  <2>1. today * Day + Day <= d * Day /\ d * Day \in Int /\ today * Day \in Int
    BY <1>1, DayBefore, DayAfter
  <2> HIDE DEF today, x, F
  <2> QED
    BY <1>1, <1>2, <2>1
<1>8. \A k \in 0..Week : k \in tries <=> Good(today + k)
  BY DEF Tries
<1>9. tries \subseteq 0..Week
  BY DEF Tries
<1>10. NextOpeningAt(w.open, at) = F(IF tries = {} THEN DateAfter(at) ELSE g[Min(tries)])
  <2>1. (CHOOSE h : Dating(w.open, at, h)) = g
    BY <1>2, DatesTried
  <2> HIDE DEF g
  <2>2. NextOpeningAt(w.open, at) = Chosen(w.open, at, g)
    BY <2>1, NextOpeningAs
  <2> QED
    BY <2>2 DEF Chosen
<1> HIDE DEF tries
<1>11. tries # {}
  <2>1. PICK d \in Dates : Good(d)
    BY <1>3
  <2>2. d \in Int /\ d >= today /\ d <= today + 2 * Week
    BY <1>1, <1>2, <1>3, <1>6, <2>1
  <2>3. CASE d <= today + Week
    <3>1. d - today \in 0..Week /\ today + (d - today) = d
      BY <1>1, <1>2, <2>2, <2>3
    <3> QED
      BY <1>8, <2>1, <3>1
  <2>4. CASE d > today + Week
    <3>1. d - Week - today \in 0..Week /\ today + (d - Week - today) = d - Week
          /\ d - Week > today /\ d - Week \in Int
      BY <1>1, <1>2, <2>2, <2>4
    <3>2. Good(d - Week)
      BY <1>7, <2>1, <2>2, <3>1, WeekdayAfterWeek
    <3> QED
      BY <1>8, <3>1, <3>2
  <2> QED
    BY <1>1, <1>2, <2>2, <2>3, <2>4
<1>12. PICK m \in tries : Min(tries) = m /\ \A y \in tries : m <= y
  BY <1>2, <1>9, <1>11, MinOfTries
<1>13. m \in 0..Week /\ Good(today + m) /\ g[m] = today + m /\ today + m \in Dates /\ today + m \in Int
  <2>1. m \in 0..Week /\ Good(today + m)
    BY <1>8, <1>9, <1>12
  <2> HIDE DEF today, Good
  <2>2. g[m] = today + m /\ today + m \in Dates /\ today + m \in Int
    BY <1>1, <1>2, <1>3, <2>1
  <2> QED
    BY <2>1, <2>2
<1>14. NextOpeningAt(w.open, at) = F(today + m)
  BY <1>10, <1>11, <1>12, <1>13
<1>15. F(today + m) \in Later(w)
  BY <1>3, <1>13
<1>16. Later(w) \subseteq Int
  BY <1>1, <1>2, <1>3, <1>4
<1>17. \A i \in Later(w) : F(today + m) <= i
  <2> TAKE i \in Later(w)
  <2>1. PICK d \in Dates : Good(d) /\ i = F(d)
    BY <1>3
  <2>2. d \in Int /\ d >= today
    BY <1>1, <1>2, <1>3, <1>6, <2>1
  <2>3. today + m <= d
    <3>1. CASE d <= today + Week
      <4>1. d - today \in 0..Week /\ today + (d - today) = d
        BY <1>1, <1>2, <2>2, <3>1
      <4>2. d - today \in tries
        BY <1>8, <2>1, <4>1
      <4>3. m <= d - today
        BY <1>12, <4>2
      <4> QED
        BY <1>1, <1>13, <2>2, <4>1, <4>3
    <3>2. CASE d > today + Week
      BY <1>1, <1>2, <1>13, <2>2, <3>2
    <3> QED
      BY <1>1, <1>2, <2>2, <3>1, <3>2
  <2>4. F(today + m) \in Int /\ F(d) \in Int
    BY <1>4, <1>13, <2>2
  <2>5. today + m < d => F(today + m) < F(d)
    BY <1>5, <1>13, <2>2
  <2> QED
    BY <1>13, <2>1, <2>2, <2>3, <2>4, <2>5
<1>18. Min(Later(w)) = F(today + m)
  BY <1>15, <1>16, <1>17, MinIs
<1> QED
  BY <1>14, <1>15, <1>16, <1>17, <1>18

LEMMA OpeningIsNextHolds ==
  ASSUME HoursInv
  PROVE  OpeningIsNext
<1> SUFFICES ASSUME NEW mode \in branch.fulfilment \cup {Null}, Later(HoursFor(mode)) # {}
             PROVE  NextOpeningAt(HoursFor(mode).open, at) = Min(Later(HoursFor(mode)))
  BY DEF OpeningIsNext, Later
<1>1. mode \in Modes \cup {Null}
  BY DEF HoursInv, BranchOK, BranchRecords
<1> QED
  BY <1>1, ModeClear, NextOpeningIs

-----------------------------------------------------------------------------
(* What is said of a shop that trades. *)

LEMMA TradingNow ==
  ASSUME HoursInv, BranchIsOpenAt(at)
  PROVE  /\ During(Trading, at) = {SessionOf(branch.hours, 0, OpenDate(branch.hours))}
         /\ Weekday(OpenDate(branch.hours)) \notin branch.closedDays
         /\ NowOnWindowLine(at, branch.hours.open) < Straighten(branch.hours)
<1> DEFINE w == branch.hours
<1>1. Clear(w, 0) /\ w \in Windows
  BY ModeClear DEF Clear
<1>2. IsOpenAt(w, at, 0)
  BY DEF BranchIsOpenAt
<1>3. During(Trading, at) = {SessionOf(w, 0, OpenDate(w))}
  BY <1>1, <1>2, SessionAt DEF Trading
<1>4. SessionWeekday(at, w.open) \notin branch.closedDays
  BY <1>2 DEF IsOpenAt
<1>5. NowOnWindowLine(at, w.open) \in w.open..(Straighten(w) - 0 - 1) /\ Straighten(w) \in Int
  BY <1>1, <1>2, StraightenIs DEF IsOpenAt
<1> HIDE DEF w
<1>6. NowOnWindowLine(at, w.open) < Straighten(w)
  BY <1>5
<1> QED
  BY <1>1, <1>3, <1>4, <1>6, LineIs DEF w

LEMMA ShutsThen ==
  ASSUME HoursInv, BranchIsOpenAt(at), ClosingAt(branch.hours, at) # Null
  PROVE  /\ ClosingAt(branch.hours, at) \in Int
         /\ ClosingAt(branch.hours, at) = Max({ s.until : s \in During(Trading, at) })
<1> DEFINE w == branch.hours
           D == OpenDate(w)
           line == NowOnWindowLine(at, w.open)
           today == ZonedParts(at).date
           x == ZonedParts(at).minute
           E == IF x < w.close THEN today ELSE today + 1
           end == InstantOf(E, w.close)
<1>1. Clear(w, 0) /\ w \in Windows
  BY ModeClear DEF Clear
<1>2. /\ w.open \in 0..(Day - 1) /\ w.close \in 0..(Day - 1) /\ w.close # w.open
      /\ HasOnce(zone, w.close) /\ StaysOnDate(zone, w.close)
  BY <1>1, StraightenIs DEF Clear, ClosingAt
<1>3. /\ today \in Int /\ x \in 0..(Day - 1) /\ Reading(at) = today * Day + x
      /\ ClockOK /\ at \in Int /\ Day \in Nat /\ Day > 0 /\ today * Day \in Int
      /\ Reading(at) \in Int
  BY NowIs, DayAfter, HoursAssumption DEF HoursInv
<1>4. today * Day + w.close \in Int /\ today * Day + w.close \notin Skewed(zone)
  BY <1>2, <1>3, NotSkewed
<1>5. /\ InstantOf(today, w.close) \in Int
      /\ InstantOf(today, w.close) > at <=> x < w.close
  <2>1. Inst(today * Day + w.close) \in Int /\ (Inst(today * Day + w.close) <= at
            <=> today * Day + w.close <= Reading(at))
    BY <1>3, <1>4, ReadFrom
  <2>2. InstantOf(today, w.close) = Inst(today * Day + w.close)
    BY InstantIs
  <2> HIDE DEF today, x, w
  <2> QED
    BY <1>2, <1>3, <2>1, <2>2
<1>6. DateAfter(InstantOf(today, w.close)) = today + 1
  BY <1>2, <1>3, DateAfterIs
<1>7. ClosingAt(w, at) = end
  <2>1. ClosingAt(w, at) = (IF InstantOf(today, w.close) > at THEN InstantOf(today, w.close)
                            ELSE InstantOf(DateAfter(InstantOf(today, w.close)), w.close))
    BY <1>2 DEF ClosingAt
  <2> HIDE DEF today, x, w
  <2> QED
    BY <1>5, <1>6, <2>1
<1>8. end \in Int
  <2>1. E \in Int
    BY <1>3
  <2> HIDE DEF E
  <2>2. E * Day + w.close \in Int /\ E * Day + w.close \notin Skewed(zone)
    BY <1>2, <2>1, NotSkewed
  <2> QED
    BY <1>3, <2>2, ReadFrom, InstantIs
<1>9. SessionOf(w, 0, D).until = end
  <2>1. D \in Int /\ D = (IF x < w.open THEN today - 1 ELSE today)
    BY <1>1, LineIs DEF OpenDate
  <2>2. SessionOf(w, 0, D).until = Inst(D * Day + Cut(w, 0))
    BY <1>1, <2>1, UntilIs DEF SessionOf
  <2>3. end = Inst(E * Day + w.close)
    BY InstantIs
  <2>4. Cut(w, 0) = (IF w.close <= w.open THEN w.close + Day ELSE w.close)
    BY <1>1, <1>2, <1>3, StraightenIs DEF Cut, Straighten
  <2>5. line = (IF x < w.open THEN x + Day ELSE x)
    BY DEF NowOnWindowLine
  <2>6. line < Cut(w, 0)
    <3>1. line < Straighten(w) /\ Straighten(w) \in Int
      BY <1>1, TradingNow, StraightenIs
    <3> QED
      BY <3>1 DEF Cut
  <2>7. (today - 1) * Day = today * Day - Day /\ (today + 1) * Day = today * Day + Day
    BY <1>3, DayAfter
  <2>8. D * Day + Cut(w, 0) = E * Day + w.close
    <3> HIDE DEF today, x, w, line, D
    <3> QED
      BY <1>2, <1>3, <2>1, <2>4, <2>5, <2>6, <2>7
  <2> HIDE DEF end, E, D, w
  <2> QED
    BY <2>2, <2>3, <2>8
<1>10. { s.until : s \in During(Trading, at) } = {end}
  <2>1. During(Trading, at) = {SessionOf(w, 0, D)}
    BY TradingNow
  <2> HIDE DEF end, D
  <2> QED
    BY <1>9, <2>1
<1> HIDE DEF end
<1> QED
  BY <1>7, <1>8, <1>10, MaxOfOne DEF w

LEMMA RefusalHolds ==
  ASSUME HoursInv
  PROVE  RefusalIsTrue
<1> DEFINE told  == AssertBranchCanAccept("delivery", at)
           shuts == Max({ s.until : s \in During(Trading, at) })
           w     == HoursFor("delivery")
           soon  == { s \in Sessions(w, 0) : at < s.from /\ s.from < shuts }
           h     == branch.hours
           D     == OpenDate(h)
<1>1. Clear(w, 0) /\ h \in Windows
  BY ModeClear DEF Modes, Clear
<1>2. told = "delivers later" => BranchIsOpenAt(at) /\ StartsLaterToday("delivery", at)
  BY DEF AssertBranchCanAccept
<1>3. told = "collect instead" => BranchIsOpenAt(at) /\ ~StartsLaterToday("delivery", at)
  BY DEF AssertBranchCanAccept
<1>4. StartsLaterToday("delivery", at) <=>
        BranchIsOpenAt(at) /\ (ClosingAt(h, at) = Null \/ NextOpeningAt(w.open, at) < ClosingAt(h, at))
  BY DEF StartsLaterToday
<1>5. \A i : i \in Later(w) <=> \E s \in Sessions(w, 0) : s.from > at /\ i = s.from
  BY DEF Later
<1>6. Later(w) \subseteq Int /\ at \in Int
  <2>1. at \in Int
    BY DEF HoursInv
  <2> QED
    BY <1>1, <2>1, NextOpeningIs
<1>7. ASSUME told = "delivers later", ClosingAt(h, at) # Null
      PROVE  soon # {}
  <2>1. NextOpeningAt(w.open, at) < ClosingAt(h, at) /\ BranchIsOpenAt(at)
    BY <1>2, <1>4, <1>7
  <2>2. ClosingAt(h, at) = shuts /\ shuts \in Int
    BY <1>7, <2>1, ShutsThen
  <2>3. /\ D + Week \in Dates /\ D \in Int /\ D + Week > ZonedParts(at).date
        /\ Weekday(D) \notin branch.closedDays
    BY <1>1, <2>1, LineIs, TradingNow
  <2>4. Weekday(D + Week) \notin branch.closedDays
    BY <2>3, WeekdayAfterWeek
  <2>5. InstantOf(D + Week, w.open) > at
    <3>1. /\ ZonedParts(at).date \in Int /\ ZonedParts(at).minute \in 0..(Day - 1)
          /\ Reading(at) = ZonedParts(at).date * Day + ZonedParts(at).minute
          /\ ZonedParts(at).date * Day \in Int
      BY NowIs, DayAfter
    <3>2. D + Week \in Int /\ w.open \in 0..(Day - 1) /\ Day \in Nat /\ (D + Week) * Day \in Int
      BY <1>1, <2>3, StraightenIs, DayAfter, HoursAssumption DEF Clear
    <3>3. ZonedParts(at).date * Day + Day <= (D + Week) * Day
      BY <2>3, <3>1, <3>2, DayBefore
    <3>4. /\ InstantOf(D + Week, w.open) \in Int
          /\ InstantOf(D + Week, w.open) <= at <=> (D + Week) * Day + w.open <= Reading(at)
      BY <1>1, <1>6, <3>2, FromIs DEF HoursInv
    <3> HIDE DEF D, w
    <3> QED
      BY <1>6, <3>1, <3>2, <3>3, <3>4
  <2>6. Later(w) # {}
    BY <1>1, <2>3, <2>4, <2>5, LaterIs
  <2>7. NextOpeningAt(w.open, at) \in Later(w)
    BY <1>1, <2>6, NextOpeningIs
  <2>8. PICK s \in Sessions(w, 0) : s.from > at /\ NextOpeningAt(w.open, at) = s.from
    BY <1>5, <2>7
  <2>9. s.from \in Int
    BY <1>6, <2>7, <2>8
  <2>10. at < s.from /\ s.from < shuts
    <3> HIDE DEF shuts
    <3> QED
      BY <1>6, <2>1, <2>2, <2>8, <2>9
  <2> QED
    BY <2>10
<1>8. ASSUME told = "collect instead"
      PROVE  soon = {}
  <2>1. BranchIsOpenAt(at) /\ ClosingAt(h, at) # Null /\ ~(NextOpeningAt(w.open, at) < ClosingAt(h, at))
    BY <1>3, <1>4, <1>8
  <2>2. ClosingAt(h, at) = shuts /\ shuts \in Int
    BY <2>1, ShutsThen
  <2> SUFFICES ASSUME NEW s \in Sessions(w, 0), at < s.from, s.from < shuts PROVE FALSE
    OBVIOUS
  <2>3. s.from \in Later(w)
    <3>1. s.from > at
      <4>1. Sessions(w, 0) = { SessionOf(w, 0, d) : d \in { e \in Dates :
                /\ Weekday(e) \notin branch.closedDays /\ Straighten(w) - 0 > w.open } }
        BY DEF Sessions, SessionOf, Cut
      <4>2. PICK d \in Dates : s = SessionOf(w, 0, d)
        BY <4>1
      <4>3. d \in Int
        BY NowIs, HoursAssumption DEF Dates
      <4>4. s.from \in Int
        BY <1>1, <1>6, <4>2, <4>3, FromIs DEF SessionOf, HoursInv
      <4> QED
        BY <1>6, <4>4
    <3> QED
      BY <1>5, <3>1
  <2>4. NextOpeningAt(w.open, at) <= s.from /\ NextOpeningAt(w.open, at) \in Int /\ s.from \in Int
    BY <1>1, <1>6, <2>3, NextOpeningIs
  <2> HIDE DEF shuts
  <2> QED
    BY <2>1, <2>2, <2>4
<1> HIDE DEF told, soon
<1>9. (told = "delivers later" /\ ClosingAt(h, at) # Null => soon # {})
      /\ (told = "collect instead" => soon = {})
  BY <1>7, <1>8
<1> QED
  BY <1>9 DEF RefusalIsTrue, told, soon

-----------------------------------------------------------------------------
LEMMA HoursInvHolds ==
  HoursInit => HoursInv
<1> SUFFICES ASSUME HoursInit PROVE HoursInv
  OBVIOUS
<1>1. branch \in BranchRecords /\ ClearOfChange(zone, branch)
      /\ zone.before \in Nat /\ zone.after \in Nat /\ zone.change \in Nat /\ zone \in Zones
  BY HoursAssumption DEF HoursInit
<1> QED
  BY <1>1 DEF HoursInit, HoursInv, BranchOK, ClockOK

LEMMA HoursInvStays ==
  ASSUME HoursInv, [HoursNext]_hoursVars
  PROVE  HoursInv'
<1>1. CASE Tick
  BY <1>1 DEF Tick, HoursInv, ClockOK, BranchOK, ClearOfChange, HasOnce, StaysOnDate, Skewed, Straighten
<1>2. CASE Pause
  <2>1. /\ branch' = [branch EXCEPT !.acceptingOrders = ~@] /\ at' = at /\ zone' = zone
        /\ branch \in BranchRecords /\ ClearOfChange(zone, branch)
    BY <1>2 DEF Pause, HoursInv, BranchOK
  <2>2. branch' \in BranchRecords
    BY <2>1 DEF BranchRecords
  <2>3. branch'.hours = branch.hours /\ branch'.deliveryHours = branch.deliveryHours
        /\ branch'.buffer = branch.buffer
    BY <2>1 DEF BranchRecords
  <2>4. ClearOfChange(zone, branch')
    BY <2>1, <2>3 DEF ClearOfChange
  <2>5. ClearOfChange(zone', branch')
    BY <2>1, <2>4
  <2> QED
    BY <2>1, <2>2, <2>5 DEF HoursInv, BranchOK, ClockOK
<1>3. CASE UNCHANGED hoursVars
  BY <1>3 DEF hoursVars, HoursInv, ClockOK, BranchOK
<1> QED
  BY <1>1, <1>2, <1>3 DEF HoursNext

LEMMA HoursAgreeHolds ==
  ASSUME HoursInv
  PROVE  HoursAgree
BY OrdersAreInSessions, OpeningIsNextHolds, CountdownHolds, RefusalHolds DEF HoursAgree

(* In every week, zone and branch whose windows keep clear of the change   *)
(* of the clock, orders are taken in the sessions and at no other time,    *)
(* the next opening, the countdown and the words of a refusal are true     *)
(* (time.js:1-17, Branch.js:161-273, pricing.engine.js:73-139).            *)
THEOREM HoursAlwaysAgree == HoursSpec => []HoursAgree
<1>1. HoursInit => HoursInv
  BY HoursInvHolds
<1>2. HoursInv /\ [HoursNext]_hoursVars => HoursInv'
  BY HoursInvStays
<1>3. HoursInv => HoursAgree
  BY HoursAgreeHolds
<1> QED
  BY <1>1, <1>2, <1>3, PTL DEF HoursSpec

-----------------------------------------------------------------------------
(***************************************************************************)
(* The daily report.  A day is the set of instants with its date, a report *)
(* is made of totals over the orders it matched, and the totals of the     *)
(* parts of a set add up to the total of the set.                          *)
(***************************************************************************)

Orders == [branchId : ToSet(Branches), createdAt : Nat, fulfilment : Modes, status : Statuses,
           totals : [subtotal : Nat, deliveryFee : Nat]]

\* The orders are of the shops, of the past, and each is in one mode and one status.
BookInv ==
    /\ HoursInv
    /\ book \in Seq(Orders)
    /\ \A i \in DOMAIN book : book[i].createdAt <= at

LEMMA BookIs ==
  ASSUME BookInv
  PROVE  /\ Len(book) \in Nat /\ DOMAIN book = 1..Len(book)
         /\ \A i \in DOMAIN book : /\ book[i].branchId \in ToSet(Branches)
                                   /\ book[i].createdAt \in Nat /\ book[i].createdAt <= at
                                   /\ book[i].fulfilment \in Modes /\ book[i].status \in Statuses
                                   /\ book[i].totals.subtotal \in Nat
                                   /\ book[i].totals.deliveryFee \in Nat
<1>1. book \in Seq(Orders) /\ \A i \in DOMAIN book : book[i].createdAt <= at
  BY DEF BookInv
<1>2. Len(book) \in Nat /\ DOMAIN book = 1..Len(book) /\ \A i \in 1..Len(book) : book[i] \in Orders
  BY <1>1
<1> QED
  BY <1>1, <1>2 DEF Orders

-----------------------------------------------------------------------------
(* Totals over some of the orders. *)

LEMMA AmountsAreNat ==
  ASSUME BookInv
  PROVE  /\ One \in [DOMAIN book -> Nat] /\ Subtotal \in [DOMAIN book -> Nat]
         /\ DeliveryFee \in [DOMAIN book -> Nat] /\ GrandTotal \in [DOMAIN book -> Nat]
<1>1. One \in [DOMAIN book -> Nat] /\ Subtotal \in [DOMAIN book -> Nat]
      /\ DeliveryFee \in [DOMAIN book -> Nat]
  BY BookIs DEF One, Subtotal, DeliveryFee
<1>2. GrandTotal \in [DOMAIN book -> Nat]
  BY <1>1 DEF GrandTotal
<1> QED
  BY <1>1, <1>2

\* The amounts of a total.
Counted(orders, amount) == [i \in DOMAIN book |-> IF i \in orders THEN amount[i] ELSE 0]

LEMMA CountedIs ==
  ASSUME BookInv, NEW orders, NEW amount \in [DOMAIN book -> Nat]
  PROVE  /\ Total(orders, amount) = SumOf(Counted(orders, amount))
         /\ Len(Counted(orders, amount)) = Len(book)
         /\ \A i \in 1..Len(book) : /\ Counted(orders, amount)[i] \in Nat
                                    /\ Counted(orders, amount)[i] = IF i \in orders THEN amount[i] ELSE 0
         /\ Total(orders, amount) \in Nat
<1>1. Len(book) \in Nat /\ DOMAIN book = 1..Len(book)
  BY BookIs
<1>2. Total(orders, amount) = SumOf(Counted(orders, amount))
  BY DEF Total, Counted
<1>3. PICK n : n = Len(book)
  OBVIOUS
<1>4. Counted(orders, amount) = [i \in 1..n |-> IF i \in orders THEN amount[i] ELSE 0]
  BY <1>1, <1>3 DEF Counted
<1>5. Len(Counted(orders, amount)) = n
  BY <1>1, <1>3, <1>4
<1>6. \A i \in 1..n : /\ Counted(orders, amount)[i] \in Nat
                      /\ Counted(orders, amount)[i] = IF i \in orders THEN amount[i] ELSE 0
  BY <1>1, <1>3, <1>4
<1>7. SumOf(Counted(orders, amount)) \in Nat
  BY <1>1, <1>3, <1>5, <1>6, SumIsNat
<1> QED
  BY <1>2, <1>3, <1>5, <1>6, <1>7

LEMMA TotalOfNone ==
  ASSUME BookInv, NEW orders, orders \cap DOMAIN book = {}, NEW amount \in [DOMAIN book -> Nat]
  PROVE  Total(orders, amount) = 0
<1>1. Len(book) \in Nat /\ DOMAIN book = 1..Len(book)
  BY BookIs
<1>2. \A i \in 1..Len(Counted(orders, amount)) : Counted(orders, amount)[i] = 0
  BY <1>1, CountedIs
<1>3. Len(Counted(orders, amount)) \in Nat
  BY <1>1, CountedIs
<1>4. SumOf(Counted(orders, amount)) = 0
  BY <1>2, <1>3, SumOfNothing
<1> QED
  BY <1>4, CountedIs

\* Of orders with none in common, and of two amounts of the same orders.
LEMMA TotalOfBoth ==
  ASSUME BookInv, NEW X, NEW Y, X \cap Y = {}, NEW amount \in [DOMAIN book -> Nat]
  PROVE  Total(X \cup Y, amount) = Total(X, amount) + Total(Y, amount)
<1>1. Len(book) \in Nat /\ DOMAIN book = 1..Len(book)
  BY BookIs
<1> DEFINE a == Counted(X, amount)
           b == Counted(Y, amount)
           c == Counted(X \cup Y, amount)
<1>2. /\ Len(a) = Len(book) /\ Len(b) = Len(book) /\ Len(c) = Len(book)
      /\ Total(X, amount) = SumOf(a) /\ Total(Y, amount) = SumOf(b) /\ Total(X \cup Y, amount) = SumOf(c)
  BY CountedIs
<1>3. \A i \in 1..Len(book) : a[i] \in Nat /\ b[i] \in Nat /\ c[i] = a[i] + b[i]
  <2> TAKE i \in 1..Len(book)
  <2>1. /\ a[i] = (IF i \in X THEN amount[i] ELSE 0) /\ b[i] = (IF i \in Y THEN amount[i] ELSE 0)
        /\ c[i] = (IF i \in X \cup Y THEN amount[i] ELSE 0)
    BY CountedIs
  <2>2. amount[i] \in Nat /\ ~(i \in X /\ i \in Y)
    BY <1>1
  <2> HIDE DEF a, b, c
  <2> QED
    BY <2>1, <2>2
<1> HIDE DEF a, b, c
<1>4. SumOf(c) = SumOf(a) + SumOf(b)
  BY <1>1, <1>2, <1>3, SumsAdd
<1> QED
  BY <1>2, <1>4

LEMMA TotalOfGross ==
  ASSUME BookInv, NEW X
  PROVE  Total(X, GrandTotal) = Total(X, Subtotal) + Total(X, DeliveryFee)
<1>1. Len(book) \in Nat /\ DOMAIN book = 1..Len(book)
  BY BookIs
<1> DEFINE a == Counted(X, Subtotal)
           b == Counted(X, DeliveryFee)
           c == Counted(X, GrandTotal)
<1>2. /\ Len(a) = Len(book) /\ Len(b) = Len(book) /\ Len(c) = Len(book)
      /\ Total(X, Subtotal) = SumOf(a) /\ Total(X, DeliveryFee) = SumOf(b) /\ Total(X, GrandTotal) = SumOf(c)
  BY CountedIs, AmountsAreNat
<1>3. \A i \in 1..Len(book) : a[i] \in Nat /\ b[i] \in Nat /\ c[i] = a[i] + b[i]
  <2> TAKE i \in 1..Len(book)
  <2>1. /\ a[i] = (IF i \in X THEN Subtotal[i] ELSE 0) /\ b[i] = (IF i \in X THEN DeliveryFee[i] ELSE 0)
        /\ c[i] = (IF i \in X THEN GrandTotal[i] ELSE 0)
    BY CountedIs, AmountsAreNat
  <2>2. Subtotal[i] \in Nat /\ DeliveryFee[i] \in Nat /\ GrandTotal[i] = Subtotal[i] + DeliveryFee[i]
    BY <1>1, AmountsAreNat DEF GrandTotal
  <2> HIDE DEF a, b, c
  <2> QED
    BY <2>1, <2>2
<1> HIDE DEF a, b, c
<1>4. SumOf(c) = SumOf(a) + SumOf(b)
  BY <1>1, <1>2, <1>3, SumsAdd
<1> QED
  BY <1>2, <1>4

\* S[1], ..., S[m] have nothing in common and are M together.
IsSplit(m, S, M) == /\ \A j, k \in 1..m : j # k => S[j] \cap S[k] = {}
                    /\ \A i : i \in M <=> \E k \in 1..m : i \in S[k]

\* The totals of the parts of M add up to that of M.
LEMMA TotalOfParts ==
  ASSUME BookInv, NEW amount \in [DOMAIN book -> Nat], NEW m \in Nat, NEW S, NEW M, IsSplit(m, S, M),
         NEW a, Len(a) = m, \A k \in 1..m : a[k] = Total(S[k], amount)
  PROVE  SumOf(a) = Total(M, amount)
<1> DEFINE U(k) == UNION { S[j] : j \in 1..k }
<1>1. PICK t : /\ SumOf(a) = t[Len(a)] /\ DOMAIN t = 0..Len(a)
               /\ t[0] = 0 /\ \A n \in 1..Len(a) : t[n] = t[n - 1] + a[n]
  BY SumIsTotal
<1> DEFINE Good == { k \in 0..m : t[k] = Total(U(k), amount) }
<1>2. 0 \in Good
  <2>1. U(0) = {}
    OBVIOUS
  <2>2. Total(U(0), amount) = 0
    BY <2>1, TotalOfNone
  <2> QED
    BY <1>1, <2>2
<1>3. ASSUME NEW k \in 1..m, k - 1 \in Good PROVE k \in Good
  <2>1. U(k) = U(k - 1) \cup S[k]
    <3>1. 1..k = (1..(k - 1)) \cup {k}
      OBVIOUS
    <3> QED
      BY <3>1
  <2>2. U(k - 1) \cap S[k] = {}
    <3>1. \A j \in 1..(k - 1) : j \in 1..m /\ j # k
      OBVIOUS
    <3> QED
      BY <3>1 DEF IsSplit
  <2>3. Total(U(k), amount) = Total(U(k - 1), amount) + Total(S[k], amount)
    <3> HIDE DEF U
    <3> QED
      BY <2>1, <2>2, TotalOfBoth
  <2>4. t[k] = t[k - 1] + Total(S[k], amount)
    BY <1>1
  <2>5. t[k - 1] = Total(U(k - 1), amount)
    BY <1>3
  <2> QED
    BY <2>3, <2>4, <2>5
<1>4. 0..m \subseteq Good
  <2> HIDE DEF Good
  <2> QED
    BY <1>2, <1>3, StepByStep
<1>5. t[m] = Total(U(m), amount)
  BY <1>4
<1>6. U(m) = M
  BY DEF IsSplit
<1> HIDE DEF U
<1> QED
  BY <1>1, <1>5, <1>6

-----------------------------------------------------------------------------
(* Every figure of a report is a total: of the orders in a status, each     *)
(* counting as one or as the amount the figure is named for.               *)

Names == Statuses \cup Taken
InStatus(M, f) == { i \in M : book[i].status = IF f \in Statuses THEN f ELSE "completed" }
Counts(f) == IF f \in Statuses THEN One ELSE Amount[f]

LEMMA CountsAreNat ==
  ASSUME BookInv, NEW f \in Names
  PROVE  Counts(f) \in [DOMAIN book -> Nat]
BY AmountsAreNat DEF Names, Counts, Amount, Taken

LEMMA ComputeIs ==
  ASSUME NEW M
  PROVE  /\ \A f \in Statuses : Compute(M).byStatus[f] = Total({ i \in M : book[i].status = f }, One)
         /\ \A f \in Taken : Compute(M).takings[f] =
                Total({ i \in { j \in M : book[j].status = "completed" } :
                            book[i].fulfilment = "delivery" }, Amount[f])
                + Total({ i \in { j \in M : book[j].status = "completed" } :
                            book[i].fulfilment = "pickup" }, Amount[f])
BY DEF Compute, Modes

LEMMA FigureIs ==
  ASSUME BookInv, NEW M, M \subseteq DOMAIN book, NEW f \in Names
  PROVE  Figures(Compute(M))[f] = Total(InStatus(M, f), Counts(f))
<1>1. CASE f \in Statuses
  <2>1. Figures(Compute(M))[f] = Compute(M).byStatus[f]
    BY <1>1 DEF Figures
  <2> QED
    BY <1>1, <2>1, ComputeIs DEF InStatus, Counts
<1>2. CASE f \notin Statuses
  <2> DEFINE done == { j \in M : book[j].status = "completed" }
             X == { i \in done : book[i].fulfilment = "delivery" }
             Y == { i \in done : book[i].fulfilment = "pickup" }
  <2>1. f \in Taken
    BY <1>2 DEF Names
  <2>2. Figures(Compute(M))[f] = Compute(M).takings[f]
    BY <1>2, <2>1 DEF Figures
  <2>3. Compute(M).takings[f] = Total(X, Amount[f]) + Total(Y, Amount[f])
    BY <2>1, ComputeIs
  <2>4. X \cap Y = {}
    OBVIOUS
  <2>5. X \cup Y = done
    BY BookIs DEF Modes
  <2>6. Amount[f] \in [DOMAIN book -> Nat]
    BY <1>2, CountsAreNat DEF Counts
  <2> HIDE DEF X, Y
  <2>7. Total(done, Amount[f]) = Total(X, Amount[f]) + Total(Y, Amount[f])
    BY <2>4, <2>5, <2>6, TotalOfBoth
  <2> QED
    BY <1>2, <2>2, <2>3, <2>7 DEF InStatus, Counts
<1> QED
  BY <1>1, <1>2

\* The reports of the parts of M add up to that of M.
LEMMA ReportsAddUp ==
  ASSUME BookInv, NEW M, M \subseteq DOMAIN book, NEW m \in Nat, NEW S,
         \A k \in 1..m : S[k] \subseteq DOMAIN book, IsSplit(m, S, M),
         NEW reports, DOMAIN reports = 1..m, \A k \in 1..m : reports[k] = Compute(S[k])
  PROVE  Figures(Compute(M)) = SumOfFigures(reports)
<1>1. ASSUME NEW f \in Names PROVE Figures(Compute(M))[f] = SumOfFigures(reports)[f]
  <2> DEFINE P == [k \in 1..m |-> InStatus(S[k], f)]
             a == [k \in 1..m |-> Figures(reports[k])[f]]
  <2>1. Figures(Compute(M))[f] = Total(InStatus(M, f), Counts(f))
    BY FigureIs
  <2>2. SumOfFigures(reports)[f] = SumOf(a)
    BY DEF SumOfFigures, Names
  <2>3. Len(a) = m
    OBVIOUS
  <2>4. \A k \in 1..m : a[k] = Total(P[k], Counts(f))
    BY FigureIs
  <2>5. IsSplit(m, P, InStatus(M, f))
    BY DEF InStatus, IsSplit
  <2> HIDE DEF P, a
  <2>6. SumOf(a) = Total(InStatus(M, f), Counts(f))
    BY <2>3, <2>4, <2>5, CountsAreNat, TotalOfParts
  <2> QED
    BY <2>1, <2>2, <2>6
<1>2. Figures(Compute(M)) = [f \in Names |-> Figures(Compute(M))[f]]
  BY DEF Figures, Names
<1>3. SumOfFigures(reports) = [f \in Names |-> SumOfFigures(reports)[f]]
  BY DEF SumOfFigures, Names
<1>4. [f \in Names |-> Figures(Compute(M))[f]] = [f \in Names |-> SumOfFigures(reports)[f]]
  BY <1>1
<1> QED
  BY <1>2, <1>3, <1>4

-----------------------------------------------------------------------------
(* Days.  A day is the stretch of instants that the wall clock dates so.    *)

LEMMA DayIs ==
  ASSUME HoursInv, zone.before <= zone.after, NEW d \in Int, NEW t \in Int
  PROVE  /\ ZonedParts(t).date \in Int
         /\ t >= BusinessDayRange(d).start <=> ZonedParts(t).date >= d
         /\ t < BusinessDayRange(d).end <=> ZonedParts(t).date <= d
<1>1. /\ ClockOK /\ HasOnce(zone, 0) /\ StaysOnDate(zone, 0) /\ 0 \in 0..(Day - 1)
      /\ Day \in Nat /\ Day > 0
  BY DaysAssumption, HoursAssumption DEF HoursInv
<1>2. \A e \in Int : InstantOf(e, 0) \in Int /\ (InstantOf(e, 0) <= t <=> ZonedParts(t).date >= e)
  <2> TAKE e \in Int
  <2>1. e * Day + 0 \in Int /\ e * Day + 0 \notin Skewed(zone) /\ e * Day \in Int
    BY <1>1, NotSkewed, DayAfter
  <2>2. Inst(e * Day + 0) \in Int /\ (Inst(e * Day + 0) <= t <=> e * Day + 0 <= Reading(t))
    BY <1>1, <2>1, ReadFrom
  <2> DEFINE d0 == Reading(t) \div Day
             x == Reading(t) % Day
  <2>3. Reading(t) \in Int
    BY <1>1, OffsetsAreNat
  <2>4. d0 \in Int /\ x \in 0..(Day - 1) /\ Reading(t) = d0 * Day + x
    BY <2>3, Split
  <2>5. ZonedParts(t).date = d0
    BY DEF ZonedParts, Reading
  <2> HIDE DEF d0, x
  <2>6. d0 * Day \in Int
    BY <2>4, DayAfter
  <2>7. e * Day <= Reading(t) <=> d0 >= e
    <3>1. CASE d0 < e
      <4>1. d0 * Day + Day <= e * Day
        BY <2>4, <3>1, DayBefore
      <4> QED
        BY <1>1, <2>1, <2>3, <2>4, <2>6, <3>1, <4>1
    <3>2. CASE d0 = e
      BY <1>1, <2>1, <2>3, <2>4, <2>6, <3>2
    <3>3. CASE e < d0
      <4>1. e * Day + Day <= d0 * Day
        BY <2>4, <3>3, DayBefore
      <4> QED
        BY <1>1, <2>1, <2>3, <2>4, <2>6, <3>3, <4>1
    <3> QED
      BY <2>4, <3>1, <3>2, <3>3
  <2>8. InstantOf(e, 0) = Inst(e * Day + 0)
    BY InstantIs
  <2>9. e * Day + 0 = e * Day
    BY <2>1
  <2> QED
    BY <2>2, <2>5, <2>7, <2>8, <2>9
<1>3. BusinessDayRange(d).start = InstantOf(d, 0) /\ BusinessDayRange(d).end = InstantOf(d + 1, 0)
  <2>1. DateAfter(InstantOf(d, 0)) = d + 1
    BY <1>1, DateAfterIs
  <2> QED
    BY <2>1 DEF BusinessDayRange
<1>4. ZonedParts(t).date \in Int
  <2>1. Reading(t) \in Int
    BY <1>1, OffsetsAreNat
  <2>2. ZonedParts(t).date = Reading(t) \div Day
    BY DEF ZonedParts, Reading
  <2> QED
    BY <2>1, <2>2, Split
<1>5. InstantOf(d, 0) \in Int /\ (InstantOf(d, 0) <= t <=> ZonedParts(t).date >= d)
  BY <1>2
<1>6. InstantOf(d + 1, 0) \in Int /\ (InstantOf(d + 1, 0) <= t <=> ZonedParts(t).date >= d + 1)
  <2>1. d + 1 \in Int
    OBVIOUS
  <2> QED
    BY <1>2, <2>1
<1> QED
  BY <1>3, <1>4, <1>5, <1>6

-----------------------------------------------------------------------------
(* The parts of DaysAddUp. *)

LEMMA SpanIsItsDays ==
  ASSUME BookInv, zone.before <= zone.after,
         NEW from \in Int, NEW to \in Int, from <= to, NEW scope
  PROVE  Figures(Summary(from, to, scope)) =
            SumOfFigures([k \in 1..(to - from + 1) |-> Daily(from + k - 1, scope)])
<1> DEFINE m == to - from + 1
           M == OfSpan(from, to, scope)
           S == [k \in 1..m |-> OfDay(from + k - 1, scope)]
           reports == [k \in 1..m |-> Daily(from + k - 1, scope)]
           DateOf(i) == ZonedParts(book[i].createdAt).date
<1>1. m \in Nat /\ HoursInv /\ from # Null /\ to # Null
  BY HoursAssumption DEF BookInv
<1>2. \A i \in DOMAIN book : /\ DateOf(i) \in Int
                             /\ \A d \in Int : /\ book[i].createdAt >= BusinessDayRange(d).start <=> DateOf(i) >= d
                                               /\ book[i].createdAt < BusinessDayRange(d).end <=> DateOf(i) <= d
  <2> TAKE i \in DOMAIN book
  <2>1. PICK t : t = book[i].createdAt
    OBVIOUS
  <2>2. t \in Int
    BY <2>1, BookIs
  <2>3. ZonedParts(t).date \in Int
    BY <1>1, <2>2, DayIs
  <2>4. \A d \in Int : /\ t >= BusinessDayRange(d).start <=> ZonedParts(t).date >= d
                       /\ t < BusinessDayRange(d).end <=> ZonedParts(t).date <= d
    BY <1>1, <2>2, DayIs
  <2> QED
    BY <2>1, <2>3, <2>4
<1>3. \A i : i \in M <=> i \in Scoped(scope) /\ DateOf(i) >= from /\ DateOf(i) <= to
  BY <1>1, <1>2 DEF OfSpan, Scoped
<1>4. \A k \in 1..m : \A i : i \in S[k] <=> i \in Scoped(scope) /\ DateOf(i) = from + k - 1
  <2> TAKE k \in 1..m
  <2>1. from + k - 1 \in Int
    OBVIOUS
  <2>2. S[k] = OfDay(from + k - 1, scope)
    OBVIOUS
  <2>3. \A i : i \in OfDay(from + k - 1, scope) <=>
            i \in Scoped(scope) /\ DateOf(i) >= from + k - 1 /\ DateOf(i) <= from + k - 1
    BY <1>2, <2>1 DEF OfDay, Scoped
  <2>4. \A i \in Scoped(scope) : DateOf(i) \in Int
    BY <1>2 DEF Scoped
  <2> HIDE DEF DateOf, S
  <2> QED
    BY <2>1, <2>2, <2>3, <2>4
<1>5. \A k \in 1..m : reports[k] = Compute(S[k])
  BY DEF Daily
<1>6. Summary(from, to, scope) = Compute(M)
  BY DEF Summary
<1>7. \A i \in Scoped(scope) : DateOf(i) \in Int /\ i \in DOMAIN book
  BY <1>2 DEF Scoped
<1>8. DOMAIN reports = 1..m
  OBVIOUS
<1> HIDE DEF M, S, reports, DateOf
<1>9. M \subseteq DOMAIN book /\ \A k \in 1..m : S[k] \subseteq DOMAIN book
  BY <1>3, <1>4, <1>7
<1>10. \A j, k \in 1..m : j # k => S[j] \cap S[k] = {}
  <2> SUFFICES ASSUME NEW j \in 1..m, NEW k \in 1..m, j # k, NEW i \in S[j], i \in S[k] PROVE FALSE
    OBVIOUS
  <2>1. DateOf(i) = from + j - 1 /\ DateOf(i) = from + k - 1
    BY <1>4
  <2> QED
    BY <2>1
<1>11. \A i : i \in M <=> \E k \in 1..m : i \in S[k]
  <2> TAKE i
  <2>1. ASSUME i \in M PROVE \E k \in 1..m : i \in S[k]
    <3>1. i \in Scoped(scope) /\ DateOf(i) >= from /\ DateOf(i) <= to /\ DateOf(i) \in Int
      BY <1>3, <1>7, <2>1
    <3>2. DateOf(i) - from + 1 \in 1..m /\ from + (DateOf(i) - from + 1) - 1 = DateOf(i)
      BY <3>1
    <3> QED
      BY <1>4, <3>1, <3>2
  <2>2. ASSUME NEW k \in 1..m, i \in S[k] PROVE i \in M
    <3>1. i \in Scoped(scope) /\ DateOf(i) = from + k - 1
      BY <1>4, <2>2
    <3>2. DateOf(i) >= from /\ DateOf(i) <= to
      BY <3>1
    <3> QED
      BY <1>3, <3>1, <3>2
  <2> QED
    BY <2>1, <2>2
<1> HIDE DEF m
<1>12. IsSplit(m, S, M)
  BY <1>10, <1>11 DEF IsSplit
<1>13. Figures(Compute(M)) = SumOfFigures(reports)
  BY <1>1, <1>5, <1>8, <1>9, <1>12, ReportsAddUp
<1> QED
  BY <1>6, <1>13 DEF reports, m

LEMMA AllDaysSoFar ==
  ASSUME BookInv, zone.before <= zone.after
  PROVE  Summary(Null, Null, Null) = Summary(ZonedParts(0).date, ZonedParts(at).date, Null)
<1> DEFINE first == ZonedParts(0).date
           today == ZonedParts(at).date
<1>1. HoursInv /\ at \in Int /\ 0 \in Int
  BY DEF BookInv, HoursInv
<1>2. first \in Int /\ today \in Int /\ first # Null /\ today # Null
  BY <1>1, DayIs, HoursAssumption
<1>3. 0 >= BusinessDayRange(first).start /\ at < BusinessDayRange(today).end
  <2>1. first >= first /\ today <= today
    BY <1>2
  <2> QED
    BY <1>1, <1>2, <2>1, DayIs
<1>4. BusinessDayRange(first).start \in Int /\ BusinessDayRange(today).end \in Int
  <2>1. \A d \in Int : InstantOf(d, 0) \in Int
    <3> TAKE d \in Int
    <3>1. 0 \in 0..(Day - 1) /\ HasOnce(zone, 0) /\ ClockOK
      BY <1>1, DaysAssumption, HoursAssumption DEF HoursInv
    <3>2. d * Day + 0 \in Int /\ d * Day + 0 \notin Skewed(zone)
      BY <3>1, NotSkewed
    <3> QED
      BY <3>1, <3>2, ReadFrom, InstantIs
  <2>2. DateAfter(InstantOf(today, 0)) = today + 1
    <3>1. 0 \in 0..(Day - 1) /\ HasOnce(zone, 0) /\ StaysOnDate(zone, 0) /\ ClockOK
      BY <1>1, DaysAssumption, HoursAssumption DEF HoursInv
    <3> QED
      BY <1>2, <3>1, DateAfterIs
  <2>3. today + 1 \in Int
    BY <1>2
  <2> HIDE DEF first, today
  <2> QED
    BY <1>2, <2>1, <2>2, <2>3 DEF BusinessDayRange
<1> HIDE DEF first, today
<1>5. \A i \in DOMAIN book : /\ book[i].createdAt >= BusinessDayRange(first).start
                             /\ book[i].createdAt < BusinessDayRange(today).end
  <2> TAKE i \in DOMAIN book
  <2>1. PICK t : t = book[i].createdAt
    OBVIOUS
  <2>2. t \in Nat /\ t <= at
    BY <2>1, BookIs
  <2>3. t >= BusinessDayRange(first).start /\ t < BusinessDayRange(today).end
    BY <1>1, <1>3, <1>4, <2>2
  <2> QED
    BY <2>1, <2>3
<1>6. OfSpan(Null, Null, Null) = OfSpan(first, today, Null)
  BY <1>2, <1>5 DEF OfSpan, Scoped
<1> QED
  BY <1>6 DEF Summary, first, today

LEMMA BranchesAreAll ==
  ASSUME BookInv
  PROVE  Figures(Summary(Null, Null, ScopeBranch(Admin, Null))) =
            SumOfFigures([k \in DOMAIN Branches |->
                             Summary(Null, Null, ScopeBranch(Branches[k], Null))])
<1> DEFINE m == Len(Branches)
           reports == [k \in DOMAIN Branches |-> Summary(Null, Null, ScopeBranch(Branches[k], Null))]
           S == [k \in 1..m |-> Scoped(Branches[k])]
<1>1. m \in Nat /\ DOMAIN Branches = 1..m
  BY DaysAssumption
<1>2. \A k \in 1..m : Branches[k] # Null /\ Branches[k] # Admin
  BY <1>1, DaysAssumption DEF ToSet
<1>3. \A s : OfSpan(Null, Null, s) = Scoped(s)
  BY DEF OfSpan
<1>4. \A k \in 1..m : reports[k] = Compute(S[k])
  BY <1>1, <1>2, <1>3 DEF ScopeBranch, Summary
<1>5. Summary(Null, Null, ScopeBranch(Admin, Null)) = Compute(Scoped(Null))
  BY <1>3 DEF ScopeBranch, Summary
<1>6. Scoped(Null) = DOMAIN book
  BY DEF Scoped
<1>7. \A k \in 1..m : S[k] = { i \in DOMAIN book : book[i].branchId = Branches[k] }
  BY <1>2 DEF Scoped
<1>8. DOMAIN reports = 1..m
  BY <1>1
<1> HIDE DEF m, reports, S
<1>9. \A j, k \in 1..m : j # k => S[j] \cap S[k] = {}
  <2>1. \A j, k \in 1..m : j # k => Branches[j] # Branches[k]
    BY <1>1, DaysAssumption DEF IsInjective
  <2> QED
    BY <1>7, <2>1
<1>10. \A i : i \in DOMAIN book <=> \E k \in 1..m : i \in S[k]
  <2>1. \A i \in DOMAIN book : \E k \in 1..m : book[i].branchId = Branches[k]
    BY <1>1, BookIs DEF ToSet
  <2> QED
    BY <1>7, <2>1
<1>11. IsSplit(m, S, DOMAIN book) /\ \A k \in 1..m : S[k] \subseteq DOMAIN book
  BY <1>7, <1>9, <1>10 DEF IsSplit
<1>12. Figures(Compute(DOMAIN book)) = SumOfFigures(reports)
  BY <1>1, <1>4, <1>8, <1>11, ReportsAddUp
<1> QED
  BY <1>5, <1>6, <1>12 DEF reports

LEMMA TakingsReconcile ==
  ASSUME BookInv
  PROVE  LET all == Summary(Null, Null, Null)
         IN  /\ all.takings["gross"] = all.takings["net"] + all.takings["deliveryFees"]
             /\ all.takings["gross"] =
                    Total({ i \in DOMAIN book : book[i].status = "completed" }, GrandTotal)
<1> DEFINE done == { i \in DOMAIN book : book[i].status = "completed" }
           all == Summary(Null, Null, Null)
<1>1. all = Compute(DOMAIN book)
  BY DEF Summary, OfSpan, Scoped
<1>2. \A f \in Taken : all.takings[f] = Total(done, Amount[f])
  <2> TAKE f \in Taken
  <2>1. f \in Names /\ f \notin Statuses
    BY DEF Names, Taken, Statuses
  <2>2. Figures(all)[f] = all.takings[f]
    BY <2>1 DEF Figures
  <2>3. Figures(Compute(DOMAIN book))[f] = Total(InStatus(DOMAIN book, f), Counts(f))
    BY <2>1, FigureIs
  <2>4. InStatus(DOMAIN book, f) = done /\ Counts(f) = Amount[f]
    BY <2>1 DEF InStatus, Counts
  <2> QED
    BY <1>1, <2>2, <2>3, <2>4
<1> HIDE DEF all
<1>3. /\ all.takings["gross"] = Total(done, GrandTotal) /\ all.takings["net"] = Total(done, Subtotal)
      /\ all.takings["deliveryFees"] = Total(done, DeliveryFee)
  BY <1>2 DEF Taken, Amount
<1>4. Total(done, GrandTotal) = Total(done, Subtotal) + Total(done, DeliveryFee)
  BY TotalOfGross
<1> HIDE DEF done
<1>5. /\ all.takings["gross"] = all.takings["net"] + all.takings["deliveryFees"]
      /\ all.takings["gross"] = Total(done, GrandTotal)
  BY <1>3, <1>4
<1> QED
  BY <1>5 DEF all, done

LEMMA DaysAddUpHolds ==
  ASSUME BookInv
  PROVE  DaysAddUp
<1> DEFINE first == ZonedParts(0).date
           today == ZonedParts(at).date
           all   == Summary(Null, Null, Null)
<1> SUFFICES ASSUME zone.before <= zone.after
             PROVE  /\ \A from, to \in first..today, scope \in ToSet(Branches) \cup {Null} : from <= to =>
                        Figures(Summary(from, to, scope)) =
                            SumOfFigures([k \in 1..(to - from + 1) |-> Daily(from + k - 1, scope)])
                    /\ all = Summary(first, today, Null)
                    /\ Figures(Summary(Null, Null, ScopeBranch(Admin, Null))) =
                        SumOfFigures([k \in DOMAIN Branches |->
                                         Summary(Null, Null, ScopeBranch(Branches[k], Null))])
                    /\ all.takings.gross = all.takings.net + all.takings.deliveryFees
                    /\ all.takings.gross =
                        Total({ i \in DOMAIN book : book[i].status = "completed" }, GrandTotal)
  BY DEF DaysAddUp
<1>1. first..today \subseteq Int
  OBVIOUS
<1> HIDE DEF first, today
<1>2. \A from, to \in first..today, scope \in ToSet(Branches) \cup {Null} : from <= to =>
        Figures(Summary(from, to, scope)) =
            SumOfFigures([k \in 1..(to - from + 1) |-> Daily(from + k - 1, scope)])
  BY <1>1, SpanIsItsDays
<1>3. all = Summary(first, today, Null)
  BY AllDaysSoFar DEF first, today
<1>4. /\ all.takings.gross = all.takings.net + all.takings.deliveryFees
      /\ all.takings.gross =
            Total({ i \in DOMAIN book : book[i].status = "completed" }, GrandTotal)
  BY TakingsReconcile
<1> QED
  BY <1>2, <1>3, <1>4, BranchesAreAll

-----------------------------------------------------------------------------
LEMMA BookInvHolds ==
  BookInit => BookInv
BY HoursInvHolds DEF BookInit, BookInv

LEMMA BookInvStays ==
  ASSUME BookInv, [BookNext]_<<hoursVars, book>>
  PROVE  BookInv'
<1>1. CASE HoursNext /\ UNCHANGED book
  <2>1. HoursInv'
    BY <1>1, HoursInvStays DEF BookInv
  <2>2. at' \in Nat /\ at <= at' /\ at \in Nat
    BY <1>1 DEF HoursNext, Tick, Pause, BookInv, HoursInv
  <2>3. \A i \in DOMAIN book : book[i].createdAt <= at'
    <3> TAKE i \in DOMAIN book
    <3>1. book[i].createdAt \in Nat /\ book[i].createdAt <= at
      BY BookIs
    <3> QED
      BY <2>2, <3>1
  <2> QED
    BY <1>1, <2>1, <2>3 DEF BookInv
<1>2. ASSUME NEW b \in ToSet(Branches), NEW mode \in branch.fulfilment, PlaceOrder(b, mode)
      PROVE  BookInv'
  <2> DEFINE o == [branchId |-> b, createdAt |-> at, fulfilment |-> mode,
                   status |-> "pending", totals |-> Amounts[mode]]
  <2>1. mode \in Modes /\ at \in Nat /\ HoursInv
    BY DEF BookInv, HoursInv, BranchOK, BranchRecords
  <2>2. o \in Orders
    BY <2>1, DaysAssumption DEF Orders, Statuses
  <2>3. book' = Append(book, o) /\ UNCHANGED hoursVars
    BY <1>2 DEF PlaceOrder
  <2>4. book \in Seq(Orders) /\ \A i \in DOMAIN book : book[i].createdAt <= at
    BY DEF BookInv
  <2>5. o.createdAt = at
    OBVIOUS
  <2> HIDE DEF o
  <2>6. book' \in Seq(Orders)
    BY <2>2, <2>3, <2>4
  <2>7. \A i \in DOMAIN book' : book'[i].createdAt <= at'
    BY <2>1, <2>2, <2>3, <2>4, <2>5 DEF hoursVars
  <2>8. HoursInv'
    BY <2>1, <2>3, HoursInvStays
  <2> QED
    BY <2>6, <2>7, <2>8 DEF BookInv
<1>3. ASSUME NEW i \in DOMAIN book, NEW status \in Statuses \ {"pending"}, Settle(i, status)
      PROVE  BookInv'
  <2>1. book' = [book EXCEPT ![i].status = status] /\ UNCHANGED hoursVars
    BY <1>3 DEF Settle
  <2>2. PICK o : o = book[i]
    OBVIOUS
  <2>3. book \in Seq(Orders) /\ o \in Orders /\ \A j \in DOMAIN book : book[j].createdAt <= at
    BY <2>2 DEF BookInv
  <2>4. PICK n : n = [o EXCEPT !.status = status]
    OBVIOUS
  <2>5. n \in Orders /\ n.createdAt = o.createdAt
    BY <2>3, <2>4 DEF Orders
  <2>6. book' = [book EXCEPT ![i] = n]
    BY <2>1, <2>2, <2>4
  <2>7. book' \in Seq(Orders)
    BY <2>3, <2>5, <2>6
  <2>8. \A j \in DOMAIN book' : book'[j].createdAt <= at
    BY <2>2, <2>3, <2>5, <2>6
  <2>9. HoursInv' /\ at' = at
    BY <2>1, HoursInvStays DEF BookInv, hoursVars
  <2> QED
    BY <2>7, <2>8, <2>9 DEF BookInv
<1>4. CASE UNCHANGED <<hoursVars, book>>
  <2>1. HoursInv' /\ at' = at /\ book' = book
    BY <1>4, HoursInvStays DEF BookInv, hoursVars
  <2> QED
    BY <2>1 DEF BookInv
<1> QED
  BY <1>1, <1>2, <1>3, <1>4 DEF BookNext

(* The takings of days, of branches and of the parts of a total add up,    *)
(* whatever was ordered, where and when it was settled                     *)
(* (report.service.js:44-50, 117-125, 171-182).                            *)
THEOREM DaysAlwaysAddUp == BookSpec => []DaysAddUp
<1>1. BookInit => BookInv
  BY BookInvHolds
<1>2. BookInv /\ [BookNext]_<<hoursVars, book>> => BookInv'
  BY BookInvStays
<1>3. BookInv => DaysAddUp
  BY DaysAddUpHolds
<1> QED
  BY <1>1, <1>2, <1>3, PTL DEF BookSpec

-----------------------------------------------------------------------------
(***************************************************************************)
(* Wayfinding.  A row of a cache names no day on which it was true: the    *)
(* invariant finds one for it within the row's life, and one for whatever  *)
(* a request has taken from a row.                                         *)
(***************************************************************************)

Fields == {"pc", "now", "typed", "place", "near", "known", "routed", "branch"}

\* The days go by, and requests keep their fields.
TypeOK ==
    /\ day \in Nat /\ day > 0
    /\ world \in Seq(Worlds) /\ Len(world) = day
    /\ DOMAIN leg = Shops
    /\ DOMAIN request = Requests
    /\ \A r \in Requests : /\ DOMAIN request[r] = Fields
                           /\ request[r].now \in 0..day

\* What an address would have been turned into on day d.
Locates(d, place) ==
    IF place = Nothing THEN Precise(world[d].map) = {}
    ELSE /\ Precise(world[d].map) # {}
         /\ world[d].map[Min(Precise(world[d].map))].place = place

\* A row by the present rules says what was found on a day within its life.
PointWasFound ==
    point # NoRow /\ point.revision >= RulesRevision =>
        /\ point.expires \in Int
        /\ \E d \in 1..day : d >= point.expires - PointDays /\ Locates(d, point.place)

\* A leg's row says what the router measured on a day within its life.
LegsWereMeasured ==
    \A b \in Shops : leg[b] # NoRow =>
        /\ leg[b].expires \in Int /\ leg[b].leg # NoRow /\ leg[b].leg # NoLeg
        /\ \E d \in 1..day : d >= leg[b].expires - LegDays /\ leg[b].leg = world[d].road[b]

\* The place a request has got was found within the life of a row.
PlaceIsFound(r) ==
    LET q == request[r] IN
        /\ q.pc = "idle" => q.typed = FALSE
        /\ q.pc = "point" => \E d \in 1..day : d >= q.now /\ Locates(d, q.place)
        /\ q.typed /\ q.pc \in {"legs", "not found"} =>
            /\ q.pc = "not found" <=> q.place = Nothing
            /\ \E d \in 1..day : d > q.now - PointDays /\ Locates(d, q.place)

\* So was every leg it knows, be it from the cache or from the router.
LegsAreKnown(r) ==
    LET q == request[r] IN
        /\ \A b \in Shops : q.known[b] # NoRow =>
            /\ q.known[b] # NoLeg
            /\ \E d \in 1..day : d > q.now - LegDays /\ q.known[b] = world[d].road[b]
        /\ q.routed # Nothing =>
            \E d \in 1..day : d >= q.now /\ q.routed = world[d].road
        /\ q.pc = "remember" => \E d \in 1..day : d >= q.now /\ q.routed = world[d].road
        /\ q.pc \in {"idle", "legs", "geocode", "point", "route"} => q.routed = Nothing
        /\ q.pc \in {"idle", "legs", "geocode", "point"} => \A b \in Shops : q.known[b] = NoRow

\* What was looked at is what the search found, and the choice was right by what
\* the request knew of it.
ChoiceIsRight(r) ==
    LET q == request[r] IN
    /\ q.pc \in {"route", "remember", "choose", "served", "outside"} =>
        q.near \in CandidateSets
    /\ q.pc = "served" => q.branch \in q.near
    /\ \A b \in q.near : q.pc = "served" /\ q.branch = b =>
        /\ InRange(r, b)
        /\ \A c \in q.near : InRange(r, c) => ~RanksBefore(r, c, b)
    /\ q.pc = "outside" => \A c \in q.near : ~InRange(r, c)

RequestIsSound(r) == PlaceIsFound(r) /\ LegsAreKnown(r) /\ ChoiceIsRight(r)

WayInv == /\ TypeOK /\ PointWasFound /\ LegsWereMeasured
          /\ \A r \in Requests : RequestIsSound(r)

-----------------------------------------------------------------------------
LEMMA WayStarts == Init => WayInv
<1> SUFFICES ASSUME Init PROVE WayInv
  OBVIOUS
<1>1. day = 1 /\ world \in [{1} -> Worlds] /\ leg = [b \in Shops |-> NoRow]
      /\ request = [r \in Requests |-> Idle]
  BY DEF Init
<1>2. \A r \in Requests : /\ DOMAIN request[r] = Fields /\ request[r].now = 0
                          /\ request[r].pc = "idle" /\ request[r].typed = FALSE
                          /\ request[r].routed = Nothing
                          /\ \A b \in Shops : request[r].known[b] = NoRow
  BY <1>1 DEF Idle, Fields
<1>3. world \in Seq(Worlds) /\ Len(world) = 1
  <2>1. {1} = 1..1
    OBVIOUS
  <2> QED
    BY <1>1, <2>1
<1>4. TypeOK
  BY <1>1, <1>2, <1>3 DEF TypeOK
<1>5. PointWasFound
  BY WayAssumption DEF Init, PointWasFound
<1>6. LegsWereMeasured
  BY <1>1 DEF LegsWereMeasured
<1>7. \A r \in Requests : PlaceIsFound(r) /\ LegsAreKnown(r)
  BY <1>2 DEF PlaceIsFound, LegsAreKnown
<1>8. \A r \in Requests : ChoiceIsRight(r)
  BY <1>2 DEF ChoiceIsRight
<1> QED
  BY <1>4, <1>5, <1>6, <1>7, <1>8 DEF WayInv, RequestIsSound

(* A step of one request leaves the others alone and, of its own fields,   *)
(* those it does not name.                                                 *)
LEMMA BecomeGives ==
  ASSUME TypeOK, NEW r \in Requests, NEW new, Become(r, new)
  PROVE  /\ DOMAIN request' = Requests /\ DOMAIN request'[r] = Fields
         /\ \A p \in Requests : p # r => request'[p] = request[p]
         /\ \A f \in Fields : request'[r][f] = IF f \in DOMAIN new THEN new[f] ELSE request[r][f]
<1>1. DOMAIN request = Requests /\ DOMAIN request[r] = Fields
  BY DEF TypeOK
<1>2. request' = [request EXCEPT ![r] = [f \in DOMAIN request[r] |->
                     IF f \in DOMAIN new THEN new[f] ELSE request[r][f]]]
  BY DEF Become
<1> QED
  BY <1>1, <1>2

\* What holds of the past still holds when nothing but a request or a row moves.
LEMMA PastStays ==
  ASSUME UNCHANGED <<day, world>>
  PROVE  \A d, place : Locates(d, place)' <=> Locates(d, place)
BY DEF Locates

(* What a request knows of the legs decides its view of range and rank.    *)
LEMMA ViewStays ==
  ASSUME NEW p \in Requests,
         request'[p].known = request[p].known, request'[p].routed = request[p].routed
  PROVE  /\ \A b : LegOf(p, b)' = LegOf(p, b)
         /\ \A b : InRange(p, b)' <=> InRange(p, b)
         /\ \A a, b : RanksBefore(p, a, b)' <=> RanksBefore(p, a, b)
<1>1. ASSUME NEW b PROVE LegOf(p, b)' = LegOf(p, b)
  BY DEF LegOf
<1>2. ASSUME NEW b PROVE InRange(p, b)' <=> InRange(p, b)
  BY <1>1 DEF InRange, WithinCaps
<1>3. ASSUME NEW a, NEW b PROVE RanksBefore(p, a, b)' <=> RanksBefore(p, a, b)
  <2>1. { c \in {a, b} : LegOf(p, c)' # NoLeg } = { c \in {a, b} : LegOf(p, c) # NoLeg }
    BY <1>1
  <2>2. LegOf(p, a)' = LegOf(p, a) /\ LegOf(p, b)' = LegOf(p, b)
    BY <1>1
  <2> QED
    BY <2>1, <2>2 DEF RanksBefore
<1> QED
  BY <1>1, <1>2, <1>3

(* A request that does not move stays sound, also when the days go on.     *)
LEMMA SoundStays ==
  ASSUME TypeOK, NEW p \in Requests, RequestIsSound(p), request'[p] = request[p],
         day' \in Nat, day' >= day, \A d \in 1..day : world'[d] = world[d]
  PROVE  RequestIsSound(p)'
<1>1. \A d \in 1..day : d \in 1..day'
  BY DEF TypeOK
<1>2. \A d \in 1..day : Locates(d, request[p].place) => Locates(d, request[p].place)'
  BY DEF Locates
<1>3. PlaceIsFound(p)'
  <2> DEFINE q == request[p]
  <2>1. q' = q
    OBVIOUS
  <2>2. (q.pc = "idle" => q.typed = FALSE)'
    BY <2>1 DEF RequestIsSound, PlaceIsFound
  <2>3. (q.pc = "point" => \E d \in 1..day : d >= q.now /\ Locates(d, q.place))'
    BY <1>1, <1>2, <2>1 DEF RequestIsSound, PlaceIsFound
  <2>4. (q.typed /\ q.pc \in {"legs", "not found"} =>
            /\ q.pc = "not found" <=> q.place = Nothing
            /\ \E d \in 1..day : d > q.now - PointDays /\ Locates(d, q.place))'
    BY <1>1, <1>2, <2>1 DEF RequestIsSound, PlaceIsFound
  <2> QED
    BY <2>2, <2>3, <2>4 DEF PlaceIsFound
<1>4. LegsAreKnown(p)'
  BY <1>1 DEF RequestIsSound, LegsAreKnown
<1>5. ChoiceIsRight(p)'
  BY ViewStays DEF RequestIsSound, ChoiceIsRight
<1> QED
  BY <1>3, <1>4, <1>5 DEF RequestIsSound

LEMMA StillLocates ==
  ASSUME UNCHANGED <<day, world>>, NEW r \in Requests, NEW d, NEW place, Locates(d, place),
         request'[r].place = place
  PROVE  Locates(d, request[r].place)'
BY DEF Locates

LEMMA RowLocates ==
  ASSUME UNCHANGED <<day, world>>, NEW d, NEW place, Locates(d, place), point'.place = place
  PROVE  Locates(d, point.place)'
BY DEF Locates

LEMMA RowsStay ==
  ASSUME WayInv, UNCHANGED <<day, world, point, leg>>
  PROVE  PointWasFound' /\ LegsWereMeasured'
<1>1. \A d : Locates(d, point.place)' <=> Locates(d, point.place)
  BY DEF Locates
<1> QED
  BY <1>1 DEF WayInv, PointWasFound, LegsWereMeasured

LEMMA OneMoves ==
  ASSUME WayInv, UNCHANGED <<day, world>>, NEW r \in Requests, NEW new, Become(r, new),
         "now" \in DOMAIN new => new.now = day,
         RequestIsSound(r)', PointWasFound', LegsWereMeasured', DOMAIN leg' = Shops
  PROVE  WayInv'
<1>1. TypeOK /\ day \in Nat /\ \A p \in Requests : RequestIsSound(p)
  BY DEF WayInv, TypeOK
<1>2. /\ DOMAIN request' = Requests /\ DOMAIN request'[r] = Fields
      /\ \A p \in Requests : p # r => request'[p] = request[p]
      /\ request'[r].now = IF "now" \in DOMAIN new THEN new.now ELSE request[r].now
  BY <1>1, BecomeGives DEF Fields
<1>3. TypeOK'
  BY <1>1, <1>2 DEF TypeOK
<1>4. ASSUME NEW p \in Requests PROVE RequestIsSound(p)'
  <2>1. CASE p = r
    BY <2>1
  <2>2. CASE p # r
    <3>1. request'[p] = request[p] /\ RequestIsSound(p)
      BY <1>1, <1>2, <2>2
    <3> QED
      BY <1>1, <3>1, SoundStays
  <2> QED
    BY <2>1, <2>2
<1> QED
  BY <1>3, <1>4 DEF WayInv

(* A request that ends up knowing no leg, and has not chosen.              *)
LEMMA NothingLearned ==
  ASSUME NEW r \in Requests, request'[r].routed = Nothing,
         \A b \in Shops : request'[r].known[b] = NoRow,
         request'[r].pc \in {"legs", "not found", "geocode", "point", "error"}
  PROVE  LegsAreKnown(r)' /\ ChoiceIsRight(r)'
BY DEF LegsAreKnown, ChoiceIsRight

LEMMA KnowsNothing ==
  ASSUME WayInv, NEW r \in Requests, request[r].pc \in {"idle", "legs", "geocode", "point"}
  PROVE  request[r].routed = Nothing /\ \A b \in Shops : request[r].known[b] = NoRow
BY DEF WayInv, RequestIsSound, LegsAreKnown

(* A lookup that fails ends the request: nothing was learned and no row    *)
(* was written.                                                            *)
LEMMA LookupFails ==
  ASSUME WayInv, NEW r \in Requests, request[r].pc \in {"idle", "legs", "geocode", "point"},
         Become(r, [pc |-> "error"]), UNCHANGED <<day, world, point, leg>>
  PROVE  WayInv'
<1>1. TypeOK /\ DOMAIN leg' = Shops
  BY DEF WayInv, TypeOK
<1>2. /\ request'[r].pc = "error"
      /\ request'[r].routed = request[r].routed /\ request'[r].known = request[r].known
  BY <1>1, BecomeGives DEF Fields
<1>3. LegsAreKnown(r)' /\ ChoiceIsRight(r)'
  BY <1>2, KnowsNothing, NothingLearned
<1>4. PlaceIsFound(r)'
  BY <1>2 DEF PlaceIsFound
<1> QED
  BY <1>1, <1>3, <1>4, RowsStay, OneMoves DEF RequestIsSound

LEMMA PinStep == ASSUME WayInv, NEW r \in Requests, Pin(r) PROVE WayInv'
<1>1. /\ request[r].pc = "idle" /\ Become(r, [pc |-> "legs"])
      /\ UNCHANGED <<day, world, point, leg>>
  BY DEF Pin
<1>2. /\ request'[r].pc = "legs" /\ request'[r].typed = request[r].typed
      /\ request'[r].routed = request[r].routed /\ request'[r].known = request[r].known
  BY <1>1, BecomeGives DEF WayInv, Fields
<1>3. LegsAreKnown(r)' /\ ChoiceIsRight(r)'
  BY <1>1, <1>2, KnowsNothing, NothingLearned
<1>4. PlaceIsFound(r)'
  BY <1>1, <1>2 DEF WayInv, RequestIsSound, PlaceIsFound
<1>5. DOMAIN leg' = Shops
  BY <1>1 DEF WayInv, TypeOK
<1> QED
  BY <1>1, <1>3, <1>4, <1>5, RowsStay, OneMoves DEF RequestIsSound

(* A row of the cache is used only by the rules in force and only while it *)
(* lives, so the day it was asked for lies within its life.                *)
LEMMA ReadPointStep == ASSUME WayInv, NEW r \in Requests, ReadPoint(r) PROVE WayInv'
<1> DEFINE place == IF PointHit THEN point.place ELSE Nothing
           next == IF ~PointHit THEN "geocode"
                   ELSE IF point.place = Nothing THEN "not found" ELSE "legs"
<1>0. CASE Become(r, [pc |-> "error"])
  BY <1>0, LookupFails DEF ReadPoint
<1> SUFFICES ASSUME ~Become(r, [pc |-> "error"]) PROVE WayInv'
  BY <1>0
<1>1. /\ request[r].pc = "idle" /\ UNCHANGED <<day, world, point, leg>>
      /\ Become(r, [pc |-> next, now |-> day, typed |-> TRUE, place |-> place])
  BY DEF ReadPoint
<1>5. next \in {"geocode", "not found", "legs"}
  OBVIOUS
<1> HIDE DEF next, place
<1>2. /\ request'[r].pc = next /\ request'[r].typed = TRUE
      /\ request'[r].now = day /\ request'[r].place = place
      /\ request'[r].routed = request[r].routed /\ request'[r].known = request[r].known
  BY <1>1, BecomeGives DEF WayInv, Fields
<1>3. LegsAreKnown(r)' /\ ChoiceIsRight(r)'
  BY <1>1, <1>2, <1>5, KnowsNothing, NothingLearned
<1> USE DEF next, place
<1>4. ASSUME PointHit PROVE \E d \in 1..day : d > day - PointDays /\ Locates(d, point.place)
  <2>1. /\ point.expires \in Int /\ point.expires > day
        /\ \E d \in 1..day : d >= point.expires - PointDays /\ Locates(d, point.place)
    BY <1>4 DEF PointHit, WayInv, PointWasFound
  <2> QED
    BY <2>1, WayAssumption DEF WayInv, TypeOK
<1>6. PlaceIsFound(r)'
  <2>1. CASE PointHit
    <3>1. /\ request'[r].place = point.place
          /\ request'[r].pc = IF point.place = Nothing THEN "not found" ELSE "legs"
      BY <1>2, <2>1
    <3>2. PICK d \in 1..day : d > day - PointDays /\ Locates(d, point.place)
      BY <1>4, <2>1
    <3>3. Locates(d, request[r].place)'
      BY <1>1, <3>1, <3>2, StillLocates
    <3> QED
      BY <1>1, <1>2, <3>1, <3>2, <3>3 DEF PlaceIsFound
  <2>2. CASE ~PointHit
    BY <1>2, <2>2 DEF PlaceIsFound
  <2> QED
    BY <2>1, <2>2
<1>7. DOMAIN leg' = Shops
  BY <1>1 DEF WayInv, TypeOK
<1> QED
  BY <1>1, <1>3, <1>6, <1>7, RowsStay, OneMoves DEF RequestIsSound

LEMMA FirstPosition ==
  ASSUME NEW S, S \subseteq Nat, S # {}
  PROVE  Min(S) \in S /\ \A j \in S : Min(S) <= j
<1> DEFINE R == OpToRel(<, Nat)
<1>1. IsWellFoundedOn(R, Nat)
  BY NatLessThanWellFounded
<1> HIDE DEF R
<1>2. PICK m \in S : \A y \in S : ~(<<y, m>> \in R)
  BY <1>1, WFMin
<1>3. ASSUME NEW j \in S PROVE m <= j
  <2>1. j \in Nat /\ m \in Nat
    OBVIOUS
  <2>2. ~(j < m)
    BY <1>2, <2>1 DEF R, OpToRel
  <2> QED
    BY <2>1, <2>2
<1> QED
  BY <1>3 DEF Min

(* The provider's first match that is precise enough is the doorstep.      *)
LEMMA BestMatchLocates == ASSUME TypeOK PROVE Locates(day, BestMatch(world[day].map))
<1> DEFINE m == world[day].map
<1>1. world[day] \in Worlds
  BY DEF TypeOK
<1>2. DOMAIN m = 1..Len(m) /\ Len(m) \in Nat /\ \A i \in DOMAIN m : m[i].place # Nothing
  BY <1>1, WayAssumption
<1>3. Precise(m) = { i \in 1..Len(m) : IsDeliverablePrecision(m[i]) }
  BY <1>2 DEF Precise
<1>4. CASE Precise(m) = {}
  BY <1>3, <1>4 DEF BestMatch, SelectInSeq, Locates
<1>5. CASE Precise(m) # {}
  <2>4. Precise(m) \subseteq Nat
    BY <1>2 DEF Precise
  <2>1. Min(Precise(m)) \in Precise(m)
    BY <1>5, <2>4, FirstPosition
  <2>2. Min(Precise(m)) \in DOMAIN m /\ Min(Precise(m)) # 0
    BY <1>2, <2>1 DEF Precise
  <2>3. BestMatch(m) = m[Min(Precise(m))].place
    BY <1>3, <1>5, <2>2 DEF BestMatch, SelectInSeq
  <2> QED
    BY <1>2, <1>5, <2>2, <2>3 DEF Locates
<1> QED
  BY <1>4, <1>5

LEMMA GeocodeStep == ASSUME WayInv, NEW r \in Requests, Geocode(r) PROVE WayInv'
<1>1. /\ request[r].pc = "geocode" /\ UNCHANGED <<day, world, point, leg>>
      /\ TypeOK /\ day \in 1..day /\ request[r].now \in 0..day /\ DOMAIN leg' = Shops
  BY DEF Geocode, WayInv, TypeOK
<1>2. CASE Become(r, [pc |-> "error"])
  BY <1>1, <1>2, LookupFails
<1>3. CASE Become(r, [pc |-> "point", place |-> BestMatch(world[day].map)])
  <2>1. /\ request'[r].pc = "point" /\ request'[r].place = BestMatch(world[day].map)
        /\ request'[r].now = request[r].now
        /\ request'[r].routed = request[r].routed /\ request'[r].known = request[r].known
    BY <1>1, <1>3, BecomeGives DEF Fields
  <2>2. LegsAreKnown(r)' /\ ChoiceIsRight(r)'
    BY <1>1, <2>1, KnowsNothing, NothingLearned
  <2>3. Locates(day, request[r].place)'
    <3>1. Locates(day, BestMatch(world[day].map))
      BY <1>1, BestMatchLocates
    <3>2. PICK place : place = BestMatch(world[day].map)
      OBVIOUS
    <3>3. \E d : d = day /\ Locates(d, place)
      BY <3>1, <3>2
    <3> QED
      BY <1>1, <2>1, <3>2, <3>3 DEF Locates
  <2>4. PlaceIsFound(r)'
    BY <1>1, <2>1, <2>3 DEF PlaceIsFound
  <2> QED
    BY <1>1, <1>3, <2>2, <2>4, RowsStay, OneMoves DEF RequestIsSound
<1> QED
  BY <1>2, <1>3 DEF Geocode

LEMMA RememberPointStep == ASSUME WayInv, NEW r \in Requests, RememberPoint(r) PROVE WayInv'
<1>1. /\ request[r].pc = "point" /\ UNCHANGED <<day, world, leg>>
      /\ TypeOK /\ day \in Nat /\ request[r].now \in 0..day /\ DOMAIN leg' = Shops
  BY DEF RememberPoint, WayInv, TypeOK
<1>2. CASE UNCHANGED point /\ Become(r, [pc |-> "error"])
  BY <1>1, <1>2, LookupFails
<1> DEFINE place == request[r].place
           expires == request[r].now + PointDays
           next == IF place = Nothing THEN "not found" ELSE "legs"
<1>3. CASE /\ point' = [place |-> place, revision |-> RulesRevision, expires |-> expires]
           /\ Become(r, [pc |-> next])
  <2>1. PICK d \in 1..day : d >= request[r].now /\ Locates(d, place)
    BY <1>1 DEF WayInv, RequestIsSound, PlaceIsFound
  <2>2. next \in {"not found", "legs"} /\ (next = "not found" <=> place = Nothing)
    OBVIOUS
  <2>3. point'.place = place /\ point'.expires = expires
    BY <1>3
  <2> HIDE DEF next, place
  <2>4. /\ request'[r].pc = next /\ request'[r].now = request[r].now
        /\ request'[r].place = request[r].place
        /\ request'[r].routed = request[r].routed /\ request'[r].known = request[r].known
    BY <1>1, <1>3, BecomeGives DEF Fields
  <2>5. LegsAreKnown(r)' /\ ChoiceIsRight(r)'
    BY <1>1, <2>2, <2>4, KnowsNothing, NothingLearned
  <2>10. Locates(d, request[r].place)'
    BY <1>1, <2>1, <2>4, StillLocates DEF place
  <2>11. Locates(d, point.place)'
    BY <1>1, <2>1, <2>3, RowLocates
  <2>6. Locates(d, request[r].place)' /\ Locates(d, point.place)'
    BY <2>10, <2>11
  <2>7. PlaceIsFound(r)'
    <3>1. request'[r].pc = "not found" <=> request'[r].place = Nothing
      BY <2>2, <2>4 DEF place
    <3>2. d > request'[r].now - PointDays /\ d \in 1..day'
      BY <1>1, <2>1, <2>4, WayAssumption
    <3>3. request'[r].pc \notin {"idle", "point"}
      BY <2>2, <2>4
    <3> QED
      BY <2>10, <3>1, <3>2, <3>3 DEF PlaceIsFound
  <2>8. PointWasFound'
    BY <1>1, <2>1, <2>3, <2>6, WayAssumption DEF PointWasFound
  <2>9. LegsWereMeasured'
    BY <1>1 DEF WayInv, LegsWereMeasured
  <2> QED
    BY <1>1, <1>3, <2>5, <2>7, <2>8, <2>9, OneMoves DEF RequestIsSound
<1> QED
  BY <1>2, <1>3 DEF RememberPoint

(* What a request takes from the cache was measured within the life of the *)
(* row, as only rows that live are taken.                                  *)
LEMMA ReadLegsStep == ASSUME WayInv, NEW r \in Requests, ReadLegs(r) PROVE WayInv'
<1>0. CASE Become(r, [pc |-> "error"])
  BY <1>0, LookupFails DEF ReadLegs
<1> SUFFICES ASSUME NEW near \in CandidateSets,
                    Become(r, [pc |-> IF near \subseteq LegHits THEN "choose" ELSE "route",
                               now |-> day, typed |-> FALSE, place |-> Nothing, near |-> near,
                               known |-> [b \in Shops |-> IF b \in near \cap LegHits
                                                          THEN leg[b].leg ELSE NoRow]])
             PROVE  WayInv'
  BY <1>0 DEF ReadLegs
<1> DEFINE next == IF near \subseteq LegHits THEN "choose" ELSE "route"
           known == [b \in Shops |-> IF b \in near \cap LegHits THEN leg[b].leg ELSE NoRow]
<1>1. /\ request[r].pc = "legs" /\ UNCHANGED <<day, world, point, leg>>
      /\ Become(r, [pc |-> next, now |-> day, typed |-> FALSE, place |-> Nothing,
                    near |-> near, known |-> known])
      /\ TypeOK /\ day \in Nat /\ DOMAIN leg' = Shops
  BY DEF ReadLegs, WayInv, TypeOK
<1>2. next \in {"choose", "route"}
  OBVIOUS
<1>3. \A b \in Shops : known[b] # NoRow =>
        /\ known[b] # NoLeg
        /\ \E d \in 1..day : d > day - LegDays /\ known[b] = world[d].road[b]
  <2> SUFFICES ASSUME NEW b \in Shops, known[b] # NoRow
               PROVE  /\ known[b] # NoLeg
                      /\ \E d \in 1..day : d > day - LegDays /\ known[b] = world[d].road[b]
    OBVIOUS
  <2>1. leg[b] # NoRow /\ leg[b].expires > day /\ known[b] = leg[b].leg
    BY DEF LegHits
  <2> HIDE DEF known
  <2>2. /\ leg[b].expires \in Int /\ leg[b].leg # NoLeg
        /\ \E d \in 1..day : d >= leg[b].expires - LegDays /\ leg[b].leg = world[d].road[b]
    BY <2>1 DEF WayInv, LegsWereMeasured
  <2> QED
    BY <1>1, <2>1, <2>2, WayAssumption
<1> HIDE DEF next, known
<1>4. /\ request'[r].pc = next /\ request'[r].now = day /\ request'[r].typed = FALSE
      /\ request'[r].known = known /\ request'[r].routed = request[r].routed
      /\ request'[r].near = near
  BY <1>1, BecomeGives DEF Fields
<1>5. request'[r].routed = Nothing
  BY <1>1, <1>4, KnowsNothing
<1>6. LegsAreKnown(r)'
  BY <1>1, <1>2, <1>3, <1>4, <1>5 DEF LegsAreKnown
<1>7. PlaceIsFound(r)' /\ ChoiceIsRight(r)'
  BY <1>2, <1>4 DEF PlaceIsFound, ChoiceIsRight
<1> QED
  BY <1>1, <1>4, <1>6, <1>7, RowsStay, OneMoves DEF RequestIsSound

LEMMA RouteStep == ASSUME WayInv, NEW r \in Requests, Route(r) PROVE WayInv'
<1>1. /\ request[r].pc = "route" /\ UNCHANGED <<day, world, point, leg>>
      /\ TypeOK /\ day \in Nat /\ day \in 1..day /\ request[r].now \in 0..day
      /\ DOMAIN leg' = Shops
  BY DEF Route, WayInv, TypeOK
<1>2. LegsAreKnown(r) /\ request[r].routed = Nothing /\ ChoiceIsRight(r)
  BY <1>1 DEF WayInv, RequestIsSound, LegsAreKnown
<1>3. CASE Become(r, [pc |-> "choose"])
  <2>1. /\ request'[r].pc = "choose" /\ request'[r].now = request[r].now
        /\ request'[r].routed = request[r].routed /\ request'[r].known = request[r].known
        /\ request'[r].near = request[r].near
    BY <1>1, <1>3, BecomeGives DEF Fields
  <2>2. LegsAreKnown(r)' /\ PlaceIsFound(r)' /\ ChoiceIsRight(r)'
    BY <1>1, <1>2, <2>1 DEF LegsAreKnown, PlaceIsFound, ChoiceIsRight
  <2> QED
    BY <1>1, <1>3, <2>2, RowsStay, OneMoves DEF RequestIsSound
<1>4. CASE Become(r, [pc |-> "remember", routed |-> world[day].road])
  <2>1. /\ request'[r].pc = "remember" /\ request'[r].now = request[r].now
        /\ request'[r].routed = world[day].road /\ request'[r].known = request[r].known
        /\ request'[r].near = request[r].near
    BY <1>1, <1>4, BecomeGives DEF Fields
  <2>2. LegsAreKnown(r)' /\ PlaceIsFound(r)' /\ ChoiceIsRight(r)'
    BY <1>1, <1>2, <2>1 DEF LegsAreKnown, PlaceIsFound, ChoiceIsRight
  <2> QED
    BY <1>1, <1>4, <2>2, RowsStay, OneMoves DEF RequestIsSound
<1> QED
  BY <1>3, <1>4 DEF Route

LEMMA RememberLegsStep == ASSUME WayInv, NEW r \in Requests, RememberLegs(r) PROVE WayInv'
<1> DEFINE q == request[r]
           row(b) == [leg |-> q.routed[b], expires |-> q.now + LegDays]
           found == { b \in q.near : q.known[b] = NoRow /\ q.routed[b] # NoLeg }
<1>0. PICK rows \in SUBSET found : leg' = [b \in Shops |-> IF b \in rows THEN row(b) ELSE leg[b]]
  BY DEF RememberLegs
<1>1. /\ q.pc = "remember" /\ UNCHANGED <<day, world, point>> /\ Become(r, [pc |-> "choose"])
      /\ TypeOK /\ day \in Nat /\ q.now \in 0..day /\ DOMAIN leg = Shops
  BY DEF RememberLegs, WayInv, TypeOK
<1>2. LegsAreKnown(r) /\ ChoiceIsRight(r)
  BY DEF WayInv, RequestIsSound
<1>3. PICK d \in 1..day : d >= q.now /\ q.routed = world[d].road
  BY <1>1, <1>2 DEF LegsAreKnown
<1>4. /\ request'[r].pc = "choose" /\ request'[r].now = request[r].now
      /\ request'[r].routed = request[r].routed /\ request'[r].known = request[r].known
        /\ request'[r].near = request[r].near
  BY <1>1, BecomeGives DEF Fields
<1>5. LegsAreKnown(r)' /\ PlaceIsFound(r)' /\ ChoiceIsRight(r)'
  BY <1>1, <1>2, <1>4 DEF LegsAreKnown, PlaceIsFound, ChoiceIsRight
<1>6. PointWasFound'
  <2>1. \A e : Locates(e, point.place)' <=> Locates(e, point.place)
    BY <1>1 DEF Locates
  <2> QED
    BY <1>1, <2>1 DEF WayInv, PointWasFound
<1>7. ASSUME NEW b \in Shops, leg'[b] # NoRow
      PROVE  /\ leg'[b].expires \in Int /\ leg'[b].leg # NoRow /\ leg'[b].leg # NoLeg
             /\ \E e \in 1..day : e >= leg'[b].expires - LegDays /\ leg'[b].leg = world[e].road[b]
  <2>1. CASE leg'[b] = leg[b]
    BY <1>7, <2>1 DEF WayInv, LegsWereMeasured
  <2>2. CASE leg'[b] = row(b) /\ b \in found
    <3>1. /\ leg'[b].leg = world[d].road[b] /\ leg'[b].expires = q.now + LegDays
          /\ world[d].road[b] # NoLeg
      BY <1>3, <2>2
    <3>2. world[d] \in Worlds
      BY <1>1 DEF TypeOK
    <3>3. world[d].road[b] # NoRow
      BY <3>1, <3>2, WayAssumption
    <3> QED
      BY <1>1, <1>3, <3>1, <3>3, WayAssumption
  <2> QED
    BY <1>0, <2>1, <2>2
<1>8. LegsWereMeasured'
  BY <1>1, <1>7 DEF LegsWereMeasured
<1>9. DOMAIN leg' = Shops
  BY <1>0
<1> QED
  BY <1>1, <1>5, <1>6, <1>8, <1>9, OneMoves DEF RequestIsSound

LEMMA ChooseStep == ASSUME WayInv, NEW r \in Requests, Choose(r) PROVE WayInv'
<1> DEFINE able == { b \in request[r].near : InRange(r, b) }
<1>1. /\ request[r].pc = "choose" /\ UNCHANGED <<day, world, point, leg>>
      /\ TypeOK /\ day \in Nat /\ request[r].now \in 0..day /\ DOMAIN leg' = Shops
  BY DEF Choose, WayInv, TypeOK
<1>2. LegsAreKnown(r) /\ request[r].near \in CandidateSets
  BY <1>1 DEF WayInv, RequestIsSound, ChoiceIsRight
<1>3. CASE able = {} /\ Become(r, [pc |-> "outside"])
  <2>1. /\ request'[r].pc = "outside" /\ request'[r].now = request[r].now
        /\ request'[r].routed = request[r].routed /\ request'[r].known = request[r].known
        /\ request'[r].near = request[r].near
    BY <1>1, <1>3, BecomeGives DEF Fields
  <2>2. LegsAreKnown(r)' /\ PlaceIsFound(r)'
    BY <1>1, <1>2, <2>1 DEF LegsAreKnown, PlaceIsFound
  <2>3. ChoiceIsRight(r)'
    BY <1>2, <1>3, <2>1, ViewStays DEF ChoiceIsRight
  <2> QED
    BY <1>1, <1>3, <2>2, <2>3, RowsStay, OneMoves DEF RequestIsSound
<1>4. ASSUME NEW b \in able, \A c \in able : ~RanksBefore(r, c, b),
             Become(r, [pc |-> "served", branch |-> b])
      PROVE  WayInv'
  <2>1. /\ request'[r].pc = "served" /\ request'[r].now = request[r].now
        /\ request'[r].branch = b
        /\ request'[r].routed = request[r].routed /\ request'[r].known = request[r].known
        /\ request'[r].near = request[r].near
    BY <1>1, <1>4, BecomeGives DEF Fields
  <2>2. LegsAreKnown(r)' /\ PlaceIsFound(r)'
    BY <1>1, <1>2, <2>1 DEF LegsAreKnown, PlaceIsFound
  <2>3. ChoiceIsRight(r)'
    BY <1>2, <1>4, <2>1, ViewStays DEF ChoiceIsRight
  <2> QED
    BY <1>1, <1>4, <2>2, <2>3, RowsStay, OneMoves DEF RequestIsSound
<1> QED
  BY <1>3, <1>4 DEF Choose

LEMMA NextDayStep == ASSUME WayInv, NextDay PROVE WayInv'
<1>1. PICK w \in Worlds : world' = Append(world, w)
  BY DEF NextDay
<1>2. /\ day' = day + 1 /\ UNCHANGED <<point, leg, request>> /\ TypeOK
      /\ day \in Nat /\ day > 0 /\ world \in Seq(Worlds) /\ Len(world) = day
  BY DEF NextDay, WayInv, TypeOK
<1>3. /\ world' \in Seq(Worlds) /\ Len(world') = day'
      /\ \A d \in 1..day : d \in 1..day' /\ world'[d] = world[d]
  BY <1>1, <1>2
<1>4. TypeOK'
  BY <1>2, <1>3 DEF TypeOK
<1>5. \A p \in Requests : RequestIsSound(p)'
  BY <1>2, <1>3, SoundStays DEF WayInv
<1>6. \A d \in 1..day : Locates(d, point.place)' <=> Locates(d, point.place)
  BY <1>2, <1>3 DEF Locates
<1>7. PointWasFound'
  BY <1>2, <1>3, <1>6 DEF WayInv, PointWasFound
<1>8. LegsWereMeasured'
  BY <1>2, <1>3 DEF WayInv, LegsWereMeasured
<1> QED
  BY <1>4, <1>5, <1>7, <1>8 DEF WayInv

LEMMA PurgeStep == ASSUME WayInv, Purge PROVE WayInv'
<1>1. /\ UNCHANGED <<day, world, request>> /\ TypeOK /\ day \in Nat /\ DOMAIN leg = Shops
      /\ \/ point' = NoRow /\ leg' = leg
         \/ \E b \in Shops : leg' = [leg EXCEPT ![b] = NoRow] /\ point' = point
  BY DEF Purge, WayInv, TypeOK
<1>2. \A b \in Shops : leg'[b] = NoRow \/ leg'[b] = leg[b]
  BY <1>1
<1>3. LegsWereMeasured'
  BY <1>1, <1>2 DEF WayInv, LegsWereMeasured
<1>4. \A d : Locates(d, point.place)' <=> Locates(d, point'.place)
  BY <1>1 DEF Locates
<1>5. PointWasFound'
  <2>1. CASE point' = NoRow
    BY <2>1 DEF PointWasFound
  <2>2. CASE point' = point
    BY <1>1, <1>4, <2>2 DEF WayInv, PointWasFound
  <2> QED
    BY <1>1, <2>1, <2>2
<1>6. TypeOK'
  BY <1>1 DEF TypeOK
<1>7. \A p \in Requests : RequestIsSound(p)'
  BY <1>1, SoundStays DEF WayInv
<1> QED
  BY <1>3, <1>5, <1>6, <1>7 DEF WayInv

LEMMA WayStands == ASSUME WayInv, UNCHANGED vars PROVE WayInv'
<1>1. UNCHANGED <<day, world, point, leg, request>> /\ TypeOK /\ day \in Nat
  BY DEF vars, WayInv, TypeOK
<1>2. \A p \in Requests : RequestIsSound(p)'
  BY <1>1, SoundStays DEF WayInv
<1>3. TypeOK'
  BY <1>1 DEF TypeOK
<1> QED
  BY <1>1, <1>2, <1>3, RowsStay DEF WayInv

LEMMA WayStep == ASSUME WayInv, [Next]_vars PROVE WayInv'
<1>1. ASSUME NEW r \in Requests, Step(r) PROVE WayInv'
  BY <1>1, PinStep, ReadPointStep, GeocodeStep, RememberPointStep, ReadLegsStep,
     RouteStep, RememberLegsStep, ChooseStep DEF Step
<1> QED
  BY <1>1, NextDayStep, PurgeStep, WayStands DEF Next

LEMMA DaysAreIndices == ASSUME TypeOK PROVE DOMAIN world = 1..day
<1>1. world \in Seq(Worlds) /\ Len(world) = day
  BY DEF TypeOK
<1> QED
  BY <1>1

-----------------------------------------------------------------------------
(* What the caches hold and the requests know was so within the life of a  *)
(* row, and every choice was right by it.                                  *)
THEOREM WayInvariant == Spec => []WayInv
<1>1. WayInv /\ [Next]_vars => WayInv'
  BY WayStep
<1> QED
  BY <1>1, WayStarts, PTL DEF Spec

(* An address becomes the doorstep a provider placed it at within the life *)
(* of a row, by the rules in force (geocoding.service.js:47-63).           *)
THEOREM AddressesAreDoorsteps == Spec => []DoorstepsOnly
<1>1. WayInv => DoorstepsOnly
  <2> SUFFICES ASSUME WayInv, NEW r \in Requests, request[r].typed,
                      request[r].pc \in {"legs", "not found"}
               PROVE  \E d \in DOMAIN world : /\ d > request[r].now - PointDays
                        /\ IF request[r].pc = "not found" THEN Precise(world[d].map) = {}
                           ELSE /\ Precise(world[d].map) # {}
                                /\ world[d].map[Min(Precise(world[d].map))].place
                                     = request[r].place
    BY DEF DoorstepsOnly
  <2>1. PICK d \in 1..day : d > request[r].now - PointDays /\ Locates(d, request[r].place)
    BY DEF WayInv, RequestIsSound, PlaceIsFound
  <2>2. request[r].pc = "not found" <=> request[r].place = Nothing
    BY DEF WayInv, RequestIsSound, PlaceIsFound
  <2>3. d \in DOMAIN world
    BY DaysAreIndices DEF WayInv
  <2>4. CASE request[r].pc = "not found"
    BY <2>1, <2>2, <2>3, <2>4 DEF Locates
  <2>5. CASE request[r].pc # "not found"
    <3>1. /\ Precise(world[d].map) # {}
          /\ world[d].map[Min(Precise(world[d].map))].place = request[r].place
      BY <2>1, <2>2, <2>5 DEF Locates
    <3> QED
      BY <2>1, <2>3, <2>5, <3>1
  <2> QED
    BY <2>4, <2>5
<1> QED
  BY <1>1, WayInvariant, PTL

\* What a request knows of a leg is what the router measured in its window.
LEMMA LegWasMeasured ==
  ASSUME WayInv, NEW r \in Requests, NEW b \in Shops, LegOf(r, b) # NoLeg
  PROVE  \E d \in DOMAIN world : /\ d > request[r].now - LegDays
                                 /\ LegOf(r, b) = world[d].road[b]
<1>1. LegsAreKnown(r) /\ request[r].now \in 0..day /\ DOMAIN world = 1..day /\ day \in Nat
  BY DaysAreIndices DEF WayInv, RequestIsSound, TypeOK
<1>2. CASE request[r].known[b] # NoRow
  BY <1>1, <1>2 DEF LegsAreKnown, LegOf
<1>3. CASE request[r].known[b] = NoRow
  <2>1. request[r].routed # Nothing /\ LegOf(r, b) = request[r].routed[b]
    BY <1>3 DEF LegOf
  <2>2. PICK d \in 1..day : d >= request[r].now /\ request[r].routed = world[d].road
    BY <1>1, <2>1 DEF LegsAreKnown
  <2> QED
    BY <1>1, <2>1, <2>2, WayAssumption
<1> QED
  BY <1>2, <1>3

(* A shop the search could have found and did not is behind as many that   *)
(* are no farther as it takes.                                             *)
LEMMA LeftOut ==
  ASSUME NEW near \in CandidateSets, NEW b \in Shops \ near
  PROVE  Overlooked(b)
<1> DEFINE ahead == { c \in Shops \ {b} : Shop[c].straight <= Shop[b].straight }
<1>1. CASE Shop[b].straight > SearchRadius
  BY <1>1 DEF Overlooked
<1>2. CASE b \in InSearch
  <2>1. near # InSearch /\ near \subseteq InSearch /\ FirstOf(near, InSearch)
        /\ Cardinality(near) = MaxCandidates
    BY <1>2 DEF CandidateSets
  <2>2. near \subseteq ahead
    BY <1>2, <2>1 DEF InSearch, FirstOf
  <2>3. IsFiniteSet(ahead) /\ ahead \subseteq Shops
    BY WayAssumption, FS_Subset
  <2>4. Cardinality(near) <= Cardinality(ahead)
    BY <2>2, <2>3, FS_Subset
  <2>5. Cardinality(near) \in Nat /\ Cardinality(ahead) \in Nat
    BY <2>2, <2>3, FS_Subset, FS_CardinalityType
  <2> QED
    BY <2>1, <2>4, <2>5 DEF Overlooked
<1> QED
  BY <1>1, <1>2, WayAssumption DEF InSearch

(* The branch that is given had the customer in reach; where roads kept    *)
(* still and were measured no branch in reach is quicker, and none reaches *)
(* a customer who is refused, but for those beyond the search or behind as *)
(* many as it takes (checkout.service.js:50-81).                           *)
THEOREM QuickestIsGiven == Spec => []QuickestInReach
<1> DEFINE window(r) == { d \in DOMAIN world : d > request[r].now - LegDays }
           inReach == { b \in Shops : world[day].road[b] # NoLeg
                                        /\ WithinCaps(b, world[day].road[b]) }
           served(r) == request[r].pc = "served"
           given(r) == request[r].branch
<1>1. ASSUME WayInv, NEW r \in Requests, served(r)
      PROVE  IF LegOf(r, given(r)) = NoLeg
             THEN Shop[given(r)].straight <= Shop[given(r)].radius
             ELSE \E d \in window(r) : /\ world[d].road[given(r)] # NoLeg
                                       /\ WithinCaps(given(r), world[d].road[given(r)])
  <2>1. given(r) \in request[r].near /\ InRange(r, given(r)) /\ given(r) \in Shops
    BY <1>1 DEF WayInv, RequestIsSound, ChoiceIsRight, CandidateSets, InSearch
  <2>2. CASE LegOf(r, given(r)) = NoLeg
    BY <2>1, <2>2 DEF InRange
  <2>3. CASE LegOf(r, given(r)) # NoLeg
    <3>1. PICK d \in DOMAIN world : /\ d > request[r].now - LegDays
                                    /\ LegOf(r, given(r)) = world[d].road[given(r)]
      BY <1>1, <2>1, <2>3, LegWasMeasured
    <3>2. WithinCaps(given(r), LegOf(r, given(r)))
      BY <2>1, <2>3 DEF InRange
    <3> QED
      BY <2>3, <3>1, <3>2
  <2> QED
    BY <2>2, <2>3
<1>2. ASSUME WayInv, NEW r \in Requests,
             \A d \in window(r) : world[d].road = world[day].road,
             request[r].near \in CandidateSets,
             \A b \in request[r].near : LegOf(r, b) # NoLeg
      PROVE  \A b \in request[r].near :
               /\ LegOf(r, b) = world[day].road[b] /\ world[day].road[b] # NoLeg
               /\ InRange(r, b) <=> b \in inReach
  <2> SUFFICES ASSUME NEW b \in request[r].near
               PROVE  /\ LegOf(r, b) = world[day].road[b] /\ world[day].road[b] # NoLeg
                      /\ InRange(r, b) <=> b \in inReach
    OBVIOUS
  <2>1. b \in Shops /\ LegOf(r, b) # NoLeg
    BY <1>2 DEF CandidateSets, InSearch
  <2>2. PICK d \in window(r) : LegOf(r, b) = world[d].road[b]
    BY <1>2, <2>1, LegWasMeasured
  <2>3. LegOf(r, b) = world[day].road[b]
    BY <1>2, <2>2
  <2> QED
    BY <2>1, <2>3 DEF InRange
<1>3. ASSUME WayInv, NEW r \in Requests, request[r].pc \in {"served", "outside"}
      PROVE  request[r].near \in CandidateSets
  BY <1>3 DEF WayInv, RequestIsSound, ChoiceIsRight
<1>4. ASSUME WayInv, NEW r \in Requests, request[r].pc \in {"served", "outside"},
             \A d \in window(r) : world[d].road = world[day].road,
             \A b \in request[r].near : LegOf(r, b) # NoLeg
      PROVE  /\ request[r].pc = "outside" => \A b \in inReach : Overlooked(b)
             /\ served(r) => /\ given(r) \in inReach /\ Shop[given(r)].straight <= SearchRadius
                             /\ \A b \in inReach : Overlooked(b) \/
                                  world[day].road[given(r)].seconds
                                    <= world[day].road[b].seconds
  <2> DEFINE near == request[r].near
  <2>1. \A b \in near : /\ LegOf(r, b) = world[day].road[b] /\ world[day].road[b] # NoLeg
                        /\ InRange(r, b) <=> b \in inReach
    BY <1>2, <1>3, <1>4
  <2>2. /\ near \in CandidateSets /\ inReach \subseteq Shops
        /\ \A b \in inReach \ near : Overlooked(b)
    BY <1>3, <1>4, LeftOut
  <2>3. ChoiceIsRight(r)
    BY <1>4 DEF WayInv, RequestIsSound
  <2> HIDE DEF inReach
  <2>4. request[r].pc = "outside" => \A b \in inReach : Overlooked(b)
    BY <2>1, <2>2, <2>3 DEF ChoiceIsRight
  <2>5. ASSUME served(r)
        PROVE  /\ given(r) \in inReach /\ Shop[given(r)].straight <= SearchRadius
               /\ \A b \in inReach : Overlooked(b) \/
                    world[day].road[given(r)].seconds <= world[day].road[b].seconds
    <3>1. /\ given(r) \in near /\ InRange(r, given(r))
          /\ \A c \in near : InRange(r, c) => ~RanksBefore(r, c, given(r))
      BY <2>3, <2>5 DEF ChoiceIsRight
    <3>2. given(r) \in inReach
      BY <2>1, <3>1
    <3>4. Shop[given(r)].straight <= SearchRadius
      BY <2>2, <3>1 DEF CandidateSets, InSearch
    <3>3. ASSUME NEW b \in inReach, ~Overlooked(b)
          PROVE  world[day].road[given(r)].seconds <= world[day].road[b].seconds
      <4> DEFINE own == LegOf(r, given(r)) 
                 other == LegOf(r, b)
      <4>1. b \in near /\ b \in Shops /\ given(r) \in Shops
        BY <2>2, <3>1, <3>2, <3>3
      <4>2. own # NoLeg /\ other # NoLeg
        BY <1>4, <3>1, <4>1
      <4>3. own = world[day].road[given(r)] /\ other = world[day].road[b]
        BY <2>1, <3>1, <4>1
      <4>4. world[day] \in Worlds
        BY <1>4 DEF WayInv, TypeOK
      <4>5. own.seconds \in Nat /\ other.seconds \in Nat
        BY <4>1, <4>2, <4>3, <4>4, WayAssumption
      <4>6. ~RanksBefore(r, b, given(r))
        BY <2>1, <3>1, <3>3, <4>1
      <4>7. { c \in {b, given(r)} : LegOf(r, c) # NoLeg } = {b, given(r)}
        BY <4>2
      <4>8. ~(other.seconds # own.seconds /\ other.seconds < own.seconds)
        BY <4>6, <4>7 DEF RanksBefore
      <4> QED
        BY <4>3, <4>5, <4>8
    <3> QED
      BY <3>2, <3>3, <3>4
  <2> QED
    BY <1>4, <2>4, <2>5
<1>5. WayInv => QuickestInReach
  BY <1>1, <1>4 DEF QuickestInReach
<1> QED
  BY <1>5, WayInvariant, PTL
=============================================================================
