---------------------------- MODULE MCClockwork ----------------------------
(* What goes by the clock and shares no state: the hours of a branch, the  *)
(* report over its orders, the way from an address to a branch and the     *)
(* one-time codes.  A behaviour is one of one of them, the others rest,    *)
(* and one run visits them all.                                            *)
EXTENDS Wayfinding, DailyReport, OtpVerification, TLC

CONSTANTS b1, b2, b3, b4, q1, q2, home, centre

VARIABLE part

Window(open, close) == [open |-> open, close |-> close]
Setting(hours, deliveryHours, closedDays, buffer, modes) ==
    [hours |-> hours, deliveryHours |-> deliveryHours, closedDays |-> closedDays,
     buffer |-> buffer, fulfilment |-> modes, isActive |-> TRUE, acceptingOrders |-> TRUE]

\* Past midnight and not, riders that start later, days of rest, a shop
\* that never shuts, one that never opens, a buffer as long as the window, and
\* the one whose orders are reported.
ReportSetting == Setting(Window(5, 1), Null, {}, 0, Modes)
MCSettings ==
    { Setting(Window(4, 2), Window(5, 1), {2}, 1, Modes),
      Setting(Window(4, 2), Null, {0, 2}, 1, Modes),
      Setting(Window(3, 5), Window(4, 5), {}, 1, Modes),
      Setting(Window(4, 4), Window(5, 2), {}, 0, Modes),
      Setting(Window(4, 2), Null, {0, 1, 2}, 1, {"pickup"}),
      Setting(Window(4, 2), Window(5, 2), {1}, 1, {"delivery"}),
      ReportSetting }

\* The clock as it is, put forward at midnight, by more than the first minute,
\* and put back.
MCZones == { [before |-> 2, after |-> 2, change |-> 0],
             [before |-> 1, after |-> 2, change |-> 7],
             [before |-> 1, after |-> 3, change |-> 13],
             [before |-> 2, after |-> 1, change |-> 14] }

MCAmounts == [delivery |-> [subtotal |-> 5, deliveryFee |-> 1],
              pickup |-> [subtotal |-> 7, deliveryFee |-> 0]]
MCBranches == <<b1, b2>>

\* The report is read over two days, in the zones without a gap in the day,
\* and nobody pauses the shop.
ReportEnd == 12
ReportZones == { z \in MCZones : z.after \in {z.before, z.before + 1} }

\* Two candidates: the second is one of two as far as each other.  b4 is beyond
\* the search although its cap is not.
MCShop ==
    b1 :> [straight |-> 3, radius |-> 4, roadCap |-> 6, minutesCap |-> NoCap]
    @@ b2 :> [straight |-> 5, radius |-> 4, roadCap |-> 8, minutesCap |-> 9]
    @@ b3 :> [straight |-> 5, radius |-> 5, roadCap |-> 8, minutesCap |-> NoCap]
    @@ b4 :> [straight |-> 12, radius |-> 4, roadCap |-> 16, minutesCap |-> NoCap]

House == [place |-> home, coarse |-> FALSE, span |-> 1]
Suburb == [place |-> centre, coarse |-> TRUE, span |-> 1]
Wide == [place |-> centre, coarse |-> FALSE, span |-> 3]

Leg(metres, seconds) == [metres |-> metres, seconds |-> seconds]

\* The farther branches are quicker; no road to one and a detour to the other; out
\* of reach for all but the one beyond the search.
MCWorlds ==
    { [map |-> <<Wide, House>>,
       road |-> b1 :> Leg(5, 8) @@ b2 :> Leg(7, 7) @@ b3 :> Leg(6, 6) @@ b4 :> Leg(14, 5)],
      [map |-> <<Suburb>>,
       road |-> b1 :> Leg(5, 8) @@ b2 :> NoLeg @@ b3 :> Leg(9, 7) @@ b4 :> Leg(14, 9)],
      [map |-> <<>>,
       road |-> b1 :> Leg(7, 5) @@ b2 :> Leg(8, 10) @@ b3 :> Leg(9, 9) @@ b4 :> Leg(13, 9)] }

-----------------------------------------------------------------------------
clockVars == <<hoursVars, book>>

\* What the parts that rest look like.
MapRests == /\ Init /\ point = NoRow
            /\ world[1] = CHOOSE w \in Worlds : TRUE
ClockRests == BookInit /\ zone.after < zone.before /\ branch.closedDays = 0..(Week - 1)

PartInit ==
    /\ OtpInit
    /\ \/ part = "hours" /\ BookInit /\ branch # ReportSetting /\ MapRests
       \/ part = "report" /\ BookInit /\ branch = ReportSetting /\ zone \in ReportZones /\ MapRests
       \/ part = "map" /\ ClockRests /\ Init
       \/ part = "codes" /\ ClockRests /\ MapRests

HoursPart == part = "hours" /\ HoursNext /\ UNCHANGED <<part, book, vars, otpVars>>
ReportPart == /\ part = "report" /\ branch' = branch /\ BookNext /\ at' <= ReportEnd
              /\ UNCHANGED <<part, vars, otpVars>>
MapPart == part = "map" /\ Next /\ UNCHANGED <<part, clockVars, otpVars>>
CodesPart == part = "codes" /\ OtpNext /\ UNCHANGED <<part, clockVars, vars>>

PartNext == HoursPart \/ ReportPart \/ MapPart \/ CodesPart

PartSpec == PartInit /\ [][PartNext]_<<part, clockVars, vars, otpVars>>

Alike == Permutations(Requests)
=============================================================================
