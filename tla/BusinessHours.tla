---------------------------- MODULE BusinessHours ----------------------------
(***************************************************************************)
(* When a branch trades, takes orders and opens again (utils/time.js, the  *)
(* hours methods of Branch.js, assertBranchCanAccept).  An instant is a    *)
(* number of minutes; the wall clock reads it through the zone's offset,   *)
(* which may change once (summer time).  Dates are days of the wall clock, *)
(* counted, and a window [open, close] is in minutes of such a day.        *)
(***************************************************************************)
EXTENDS Integers, FiniteSets, FiniteSetsExt

CONSTANTS Day,          \* MINUTES_PER_DAY
          Week,         \* days in a week
          Zones,        \* [before, after, change]: offsets, and when they change
          Settings,     \* the branch documents
          LastInstant,  \* bound on the clock
          Null          \* null or undefined: no window, no instant, no mode

VARIABLES
    at,       \* the server's clock
    zone,     \* the timezone database, for the shops' zone
    branch    \* [hours, deliveryHours, closedDays, buffer, fulfilment,
              \*  isActive, acceptingOrders]

hoursVars == <<at, zone, branch>>

Modes == {"delivery", "pickup"}
Windows == [open : 0..(Day - 1), close : 0..(Day - 1)]

BranchRecords ==
    [hours : Windows, deliveryHours : Windows \cup {Null}, closedDays : SUBSET (0..(Week - 1)),
     buffer : Nat, fulfilment : SUBSET Modes, isActive : BOOLEAN, acceptingOrders : BOOLEAN]

Offset(t) == IF t < zone.change THEN zone.before ELSE zone.after

\* The wall clock at an instant.
ZonedParts(t) == LET reading == t + Offset(t)
                 IN  [date |-> reading \div Day, minute |-> reading % Day]

\* instantFromZonedWallClock: guess with the offset there, then look again.
InstantOf(date, minute) ==
    LET naive      == date * Day + minute
        firstGuess == naive - Offset(naive)
    IN  naive - Offset(firstGuess)

Weekday(date) == date % Week

\* A day later on the wall clock: 24 hours on, and the calendar read again.
DateAfter(instant) == ZonedParts(instant + Day).date

BusinessDayRange(date) ==
    LET start == InstantOf(date, 0)
    IN  [start |-> start, end |-> InstantOf(DateAfter(start), 0)]

\* The close, on a line on which the window does not wrap.
Straighten(window) ==
    IF window.close <= window.open THEN window.close + Day ELSE window.close

NowOnWindowLine(t, open) ==
    LET now == ZonedParts(t).minute IN IF now < open THEN now + Day ELSE now

\* Mutated: the weekday of the calendar.
CalendarWeekday(t, open) == Weekday(ZonedParts(t).date)

\* The weekday on which the window that runs at t opened.
SessionWeekday(t, open) ==
    LET weekday == Weekday(ZonedParts(t).date)
    IN  IF ZonedParts(t).minute < open THEN (weekday + Week - 1) % Week ELSE weekday

IsOpenAt(window, t, buffer) ==
    LET cutoff == Straighten(window) - buffer
    IN  /\ cutoff > window.open
        /\ SessionWeekday(t, window.open) \notin branch.closedDays
        /\ NowOnWindowLine(t, window.open) \in window.open..(cutoff - 1)

\* Today and a week of days after it; a shop closed every day gets tomorrow.
NextOpeningAt(open, t) ==
    LET date[k \in 0..Week] ==
            IF k = 0 THEN ZonedParts(t).date ELSE DateAfter(InstantOf(date[k - 1], open))
        tries == { k \in 0..Week : /\ InstantOf(date[k], open) > t
                                   /\ Weekday(date[k]) \notin branch.closedDays }
    IN  InstantOf(IF tries = {} THEN DateAfter(t) ELSE date[Min(tries)], open)

\* Strictly after t; Null for a window that never closes.
ClosingAt(window, t) ==
    LET today == InstantOf(ZonedParts(t).date, window.close)
    IN  IF window.close = window.open THEN Null
        ELSE IF today > t THEN today
        ELSE InstantOf(DateAfter(today), window.close)

-----------------------------------------------------------------------------
(* The branch document's own methods.  A mode of Null is no mode named.    *)

LastOrderBufferFor(mode) == IF mode = "pickup" THEN 0 ELSE branch.buffer

HoursFor(mode) ==
    IF mode = "delivery" /\ branch.deliveryHours # Null
    THEN branch.deliveryHours ELSE branch.hours

BranchIsOpenAt(t) == branch.isActive /\ IsOpenAt(branch.hours, t, 0)

IsModeOpenAt(mode, t) ==
    branch.isActive /\ IsOpenAt(HoursFor(mode), t, LastOrderBufferFor(mode))

IsAcceptingOrdersAt(mode, t) == branch.acceptingOrders /\ IsModeOpenAt(mode, t)

StartsLaterToday(mode, t) ==
    LET closes == ClosingAt(branch.hours, t)
    IN  /\ BranchIsOpenAt(t)
        /\ closes = Null \/ NextOpeningAt(HoursFor(mode).open, t) < closes

\* The countdown of the cart; over all modes of the branch if none is named.
MinutesUntilLastOrder(mode, t) ==
    LET left == { Straighten(HoursFor(m)) - LastOrderBufferFor(m)
                      - NowOnWindowLine(t, HoursFor(m).open) :
                    m \in { n \in IF mode = Null THEN branch.fulfilment ELSE {mode} :
                              IsAcceptingOrdersAt(n, t) } }
    IN  IF left = {} THEN Null ELSE Max(left)

\* What a customer is told, in the order the message is chosen.
AssertBranchCanAccept(mode, t) ==
    LET trading       == BranchIsOpenAt(t)
        mayCollect    == /\ trading /\ mode = "delivery"
                         /\ "pickup" \in branch.fulfilment
                         /\ IsAcceptingOrdersAt("pickup", t)
    IN  IF mode \notin branch.fulfilment THEN "FULFILMENT_UNAVAILABLE"
        ELSE IF IsAcceptingOrdersAt(mode, t) THEN "OK"
        ELSE IF trading /\ ~branch.acceptingOrders THEN "paused"
        ELSE IF mayCollect
             THEN IF StartsLaterToday("delivery", t) THEN "delivers later" ELSE "collect instead"
        ELSE IF trading THEN "stopped" ELSE "closed"

-----------------------------------------------------------------------------
\* What the wall clock of z skips after its first minute, or shows twice.
Skewed(z) == IF z.before <= z.after
             THEN (z.change + z.before + 1)..(z.change + z.after - 1)
             ELSE (z.change + z.after)..(z.change + z.before - 1)

\* Each day has its minute m once, and a day of z that is longer or shorter has
\* it on the date it belongs to.
HasOnce(z, m) == \A reading \in Skewed(z) : reading % Day # m
StaysOnDate(z, m) == m + z.after - z.before \in 0..(Day - 1)

\* No window of s opens, takes its last order or closes while the clock changes.
ClearOfChange(z, s) ==
    \A window \in {s.hours, s.deliveryHours} \ {Null} :
        /\ \A m \in {window.open, window.close} : HasOnce(z, m) /\ StaysOnDate(z, m)
        /\ HasOnce(z, (Straighten(window) - s.buffer) % Day)

\* The zone is east of Greenwich (constants.js:36), and a branch's hours keep
\* the schema (Branch.js:78-108).
ASSUME HoursAssumption ==
    /\ Day \in Nat \ {0} /\ Week \in Nat \ {0, 1} /\ LastInstant \in Nat
    /\ Null \notin Int /\ Null \notin Modes /\ Null \notin Windows
    /\ Settings \subseteq BranchRecords
    /\ \A z \in Zones : /\ z.before \in Nat /\ z.after \in Nat /\ z.change \in Nat
                        /\ \A s \in Settings : ClearOfChange(z, s)

HoursInit == at = 0 /\ zone \in Zones /\ branch \in Settings

Tick == at < LastInstant /\ at' = at + 1 /\ UNCHANGED <<zone, branch>>

\* The manager's switch (staffBranch.service.js).
Pause == branch' = [branch EXCEPT !.acceptingOrders = ~@] /\ UNCHANGED <<at, zone>>

HoursNext == Tick \/ Pause
HoursSpec == HoursInit /\ [][HoursNext]_hoursVars

-----------------------------------------------------------------------------
(* What the arithmetic should come to: a session opens on each date the    *)
(* branch does not rest, lasts to the cutoff, and is a stretch of instants.*)

\* Every date near enough to matter now, and more.
Dates == LET today == ZonedParts(at).date IN (today - Week)..(today + 2 * Week)

Sessions(window, buffer) ==
    { [from |-> InstantOf(d, window.open),
       until |-> InstantOf(d + (Straighten(window) - buffer) \div Day,
                           (Straighten(window) - buffer) % Day)] :
        d \in { e \in Dates : /\ Weekday(e) \notin branch.closedDays
                              /\ Straighten(window) - buffer > window.open } }

During(sessions, t) == { s \in sessions : s.from <= t /\ t < s.until }

ModeSessions(mode) == Sessions(HoursFor(mode), LastOrderBufferFor(mode))
Trading == Sessions(branch.hours, 0)

Steady(from, to) == Offset(from) = Offset(to)

\* Orders are taken in the sessions and at no other time, past midnight and
\* on the eve of a closed day too.
OrdersInSessions ==
    \A mode \in branch.fulfilment :
        IsModeOpenAt(mode, at) <=> branch.isActive /\ During(ModeSessions(mode), at) # {}

\* The opening that is promised is the first of a session after now.
OpeningIsNext ==
    \A mode \in branch.fulfilment \cup {Null} :
        LET later == { s.from : s \in { x \in Sessions(HoursFor(mode), 0) : x.from > at } }
        IN  later # {} => NextOpeningAt(HoursFor(mode).open, at) = Min(later)

\* The countdown ends when the last order is taken.
CountdownIsTrue ==
    \A mode \in branch.fulfilment :
        LET left == MinutesUntilLastOrder(mode, at)
        IN  left # Null => \A s \in During(ModeSessions(mode), at) :
                Steady(at, s.until) => at + left = s.until

\* A customer who is told that delivery starts later today, or that it has
\* stopped for today, is told what will happen before this shop shuts.
RefusalIsTrue ==
    LET told  == AssertBranchCanAccept("delivery", at)
        shuts == Max({ s.until : s \in During(Trading, at) })
        soon  == { s \in Sessions(HoursFor("delivery"), 0) : at < s.from /\ s.from < shuts }
    IN  /\ told = "delivers later" /\ ClosingAt(branch.hours, at) # Null => soon # {}
        /\ told = "collect instead" => soon = {}

(* What customers are told about the hours agrees with the sessions the    *)
(* branch really holds, at every minute, across midnights, closed days and *)
(* a change of the zone's offset (time.js:1-17, Branch.js:161-273,         *)
(* pricing.engine.js:73-139).                                              *)
HoursAgree == OrdersInSessions /\ OpeningIsNext /\ CountdownIsTrue /\ RefusalIsTrue
=============================================================================
