----------------------------- MODULE Wayfinding -----------------------------
(***************************************************************************)
(* From an address or a pin to the branch that delivers there              *)
(* (geocoding.service.js, routing.service.js, checkout.service.js): the    *)
(* geocoder and the router are asked over the network and remembered in    *)
(* two caches, whose rows the database removes some time after they have   *)
(* expired.  The customers stand in one place.  Streets are mapped and     *)
(* roads change from one day to the next.                                  *)
(***************************************************************************)
EXTENDS Integers, Sequences, FiniteSets, FiniteSetsExt, SequencesExt

CONSTANTS Requests, Shops,
          Shop,           \* Shop[b]: [straight, radius, roadCap, minutesCap]
          SearchRadius,   \* SEARCH_RADIUS_METRES
          MaxCandidates,  \* the $limit of the search
          Worlds,         \* [map, road]: what the geocoder finds for the address,
                          \* a sequence of [place, coarse, span], and what the
                          \* router measures, road[b] a leg or NoLeg
          MaxSpan, RulesRevision, PointDays, LegDays,
          LastDay,        \* bound on the days
          NoCap, NoLeg, NoRow, Nothing

\* A cap on the road may be longer than the search reaches, and there may be more
\* shops than it takes (staffBranch.validator.js:49, checkout.service.js:22, 80).
ASSUME WayAssumption ==
    /\ RulesRevision \in Nat \ {0} /\ PointDays \in Nat \ {0} /\ LegDays \in Nat \ {0}
    /\ SearchRadius \in Nat /\ MaxCandidates \in Nat \ {0} /\ IsFiniteSet(Shops)
    /\ NoLeg # NoRow
    /\ \A b \in Shops : /\ Shop[b].straight \in Nat /\ Shop[b].roadCap \in Nat
                        /\ Shop[b].minutesCap \in Nat \cup {NoCap}
    /\ \A w \in Worlds :
        /\ DOMAIN w.map = 1..Len(w.map) /\ Len(w.map) \in Nat
        /\ \A i \in DOMAIN w.map : w.map[i].place # Nothing
        /\ \A b \in Shops : w.road[b] # NoLeg =>
            w.road[b] # NoRow /\ w.road[b].metres \in Nat /\ w.road[b].seconds \in Nat

VARIABLES
    day,
    world,           \* world[d]: streets and roads on day d (external)
    point,           \* the GeocodeCache row of the address
    leg,             \* leg[b]: the RouteCache row of the place and b
    request

vars == <<day, world, point, leg, request>>

Idle == [pc |-> "idle", now |-> 0, typed |-> FALSE, place |-> Nothing,
         near |-> {}, known |-> [b \in Shops |-> NoRow], routed |-> Nothing,
         branch |-> Nothing]

\* Rows may be from before a release, also one with looser rules.
Init ==
    /\ day = 1
    /\ world \in [{1} -> Worlds]
    /\ point \in {NoRow} \cup
        { [place |-> w.map[1].place, revision |-> 0, expires |-> 1 + PointDays] :
            w \in { v \in Worlds : v.map # <<>> } }
    /\ leg = [b \in Shops |-> NoRow]
    /\ request = [r \in Requests |-> Idle]

Become(r, new) ==
    request' = [request EXCEPT ![r] = [f \in DOMAIN @ |->
                    IF f \in DOMAIN new THEN new[f] ELSE @[f]]]

\* External: the world moves on.
NextDay ==
    /\ day < LastDay
    /\ day' = day + 1
    /\ \E w \in Worlds : world' = Append(world, w)
    /\ UNCHANGED <<point, leg, request>>

\* The TTL monitor, in its own time.
Purge ==
    /\ \/ point # NoRow /\ point.expires <= day /\ point' = NoRow /\ UNCHANGED leg
       \/ \E b \in Shops : /\ leg[b] # NoRow /\ leg[b].expires <= day
                           /\ leg' = [leg EXCEPT ![b] = NoRow] /\ UNCHANGED point
    /\ UNCHANGED <<day, world, request>>

-----------------------------------------------------------------------------
(* geocodeAddress *)

\* A match that only locates an area is not an address.
IsDeliverablePrecision(match) == ~match.coarse /\ match.span <= MaxSpan

\* The first that is precise enough, of those the provider ranked.
BestMatch(matches) ==
    LET best == SelectInSeq(matches, IsDeliverablePrecision)
    IN  IF best = 0 THEN Nothing ELSE matches[best].place

\* Mutated: whichever rules wrote the row.
AnyRevision == point # NoRow /\ point.expires > day

PointHit ==
    point # NoRow /\ point.expires > day /\ point.revision >= RulesRevision

\* A pin is taken as it is.
Pin(r) ==
    /\ request[r].pc = "idle"
    /\ Become(r, [pc |-> "legs"])
    /\ UNCHANGED <<day, world, point, leg>>

\* An address: the cache, or the provider; or the cache cannot be read.
ReadPoint(r) ==
    /\ request[r].pc = "idle"
    /\ \/ Become(r, [pc |-> IF ~PointHit THEN "geocode"
                            ELSE IF point.place = Nothing THEN "not found" ELSE "legs",
                     now |-> day, typed |-> TRUE,
                     place |-> IF PointHit THEN point.place ELSE Nothing])
       \/ Become(r, [pc |-> "error"])
    /\ UNCHANGED <<day, world, point, leg>>

\* The provider answers, or the lookup fails and the customer is told so.
Geocode(r) ==
    /\ request[r].pc = "geocode"
    /\ \/ Become(r, [pc |-> "point", place |-> BestMatch(world[day].map)])
       \/ Become(r, [pc |-> "error"])
    /\ UNCHANGED <<day, world, point, leg>>

\* The upsert, which is not caught; `now' is when the request began.
RememberPoint(r) ==
    /\ request[r].pc = "point"
    /\ \/ /\ point' = [place |-> request[r].place, revision |-> RulesRevision,
                       expires |-> request[r].now + PointDays]
          /\ Become(r, [pc |-> IF request[r].place = Nothing THEN "not found" ELSE "legs"])
       \/ UNCHANGED point /\ Become(r, [pc |-> "error"])
    /\ UNCHANGED <<day, world, leg>>

-----------------------------------------------------------------------------
(* routeToBranches and resolveDeliveryBranch *)

\* The first of the shops of s in the order of their distance: of two that are
\* equally far either may come first.
FirstOf(c, s) == \A b \in c, d \in s \ c : Shop[b].straight <= Shop[d].straight

InSearch == { b \in Shops : Shop[b].straight <= SearchRadius }

\* $geoNear, in a straight line, and $limit.
CandidateSets ==
    { c \in SUBSET InSearch : /\ FirstOf(c, InSearch) /\ Cardinality(c) <= MaxCandidates
                              /\ c # InSearch => Cardinality(c) = MaxCandidates }

\* Mutated: until the database removes the row.
EveryLeg == { b \in Shops : leg[b] # NoRow }

LegHits == { b \in Shops : leg[b] # NoRow /\ leg[b].expires > day }

\* The candidates and the rows about them; or either query fails.
ReadLegs(r) ==
    /\ request[r].pc = "legs"
    /\ \/ \E near \in CandidateSets :
            Become(r, [pc |-> IF near \subseteq LegHits THEN "choose" ELSE "route",
                       now |-> day, typed |-> FALSE, place |-> Nothing, near |-> near,
                       known |-> [b \in Shops |-> IF b \in near \cap LegHits THEN leg[b].leg
                                                  ELSE NoRow]])
       \/ Become(r, [pc |-> "error"])
    /\ UNCHANGED <<day, world, point, leg>>

\* One request for the misses; Nothing when the router is down.
Route(r) ==
    /\ request[r].pc = "route"
    /\ \/ Become(r, [pc |-> "remember", routed |-> world[day].road])
       \/ Become(r, [pc |-> "choose"])
    /\ UNCHANGED <<day, world, point, leg>>

\* A row for each leg that was found, nearest first, up to the first that cannot
\* be written, which is logged.
RememberLegs(r) ==
    LET q     == request[r]
        found == { b \in q.near : q.known[b] = NoRow /\ q.routed[b] # NoLeg }
    IN
    /\ q.pc = "remember"
    /\ \E rows \in SUBSET found :
        /\ FirstOf(rows, found)
        /\ leg' = [b \in Shops |->
                    IF b \in rows
                    THEN [leg |-> q.routed[b], expires |-> q.now + LegDays] ELSE leg[b]]
    /\ Become(r, [pc |-> "choose"])
    /\ UNCHANGED <<day, world, point>>

\* What r knows of the way to b: from the cache, from the router, or NoLeg.
LegOf(r, b) ==
    IF request[r].known[b] # NoRow THEN request[r].known[b]
    ELSE IF request[r].routed = Nothing THEN NoLeg ELSE request[r].routed[b]

WithinCaps(b, way) ==
    /\ way.metres <= Shop[b].roadCap
    /\ Shop[b].minutesCap = NoCap \/ way.seconds <= Shop[b].minutesCap

\* Without a road to judge by, the straight line decides.
InRange(r, b) ==
    IF LegOf(r, b) = NoLeg THEN Shop[b].straight <= Shop[b].radius
    ELSE WithinCaps(b, LegOf(r, b))

\* Quickest first, those without a ride time last, else the nearest first.
RanksBefore(r, a, b) ==
    LET known == { c \in {a, b} : LegOf(r, c) # NoLeg }
    IN  IF known = {a, b} /\ LegOf(r, a).seconds # LegOf(r, b).seconds
        THEN LegOf(r, a).seconds < LegOf(r, b).seconds
        ELSE IF Cardinality(known) = 1 THEN a \in known
        ELSE Shop[a].straight < Shop[b].straight

\* The first in range of those ranked.
Choose(r) ==
    LET able == { b \in request[r].near : InRange(r, b) } IN
    /\ request[r].pc = "choose"
    /\ \/ able = {} /\ Become(r, [pc |-> "outside"])
       \/ \E b \in able : /\ \A c \in able : ~RanksBefore(r, c, b)
                          /\ Become(r, [pc |-> "served", branch |-> b])
    /\ UNCHANGED <<day, world, point, leg>>

Step(r) ==
    \/ Pin(r) \/ ReadPoint(r) \/ Geocode(r) \/ RememberPoint(r)
    \/ ReadLegs(r) \/ Route(r) \/ RememberLegs(r) \/ Choose(r)

Next == NextDay \/ Purge \/ \E r \in Requests : Step(r)

Spec == Init /\ [][Next]_vars

-----------------------------------------------------------------------------
Precise(m) == { i \in DOMAIN m : IsDeliverablePrecision(m[i]) }

(* An address becomes the doorstep a provider placed it at, in the last    *)
(* PointDays, by the rules in force, or is not found because in that time  *)
(* it could not be placed: never an area's centre, whatever an older       *)
(* release left in the cache (geocoding.service.js:47-63, GeocodeCache.js: *)
(* 41-48).                                                                 *)
DoorstepsOnly ==
    \A r \in Requests : LET q == request[r] IN
        q.typed /\ q.pc \in {"legs", "not found"} =>
            \E d \in DOMAIN world : /\ d > q.now - PointDays
                /\ IF q.pc = "not found" THEN Precise(world[d].map) = {}
                   ELSE /\ Precise(world[d].map) # {}
                        /\ world[d].map[Min(Precise(world[d].map))].place = q.place

\* Shops the search does not look at: beyond its radius, even if their cap is
\* longer, or behind as many that are no farther as it takes.
Overlooked(b) ==
    \/ Shop[b].straight > SearchRadius
    \/ Cardinality({ c \in Shops \ {b} : Shop[c].straight <= Shop[b].straight })
         >= MaxCandidates

(* The branch a delivery is given had the customer in reach, by the road   *)
(* as it was in the last LegDays or, where no road was measured, in a      *)
(* straight line.  When roads have kept still that long and all that were  *)
(* looked at were measured, whichever answers came from the cache, no      *)
(* branch in reach is quicker, and none reaches a customer who is refused, *)
(* but for those the search overlooks (checkout.service.js:50-81,          *)
(* RouteCache.js:27-37).                                                   *)
QuickestInReach ==
    \A r \in Requests : LET q == request[r] IN q.pc \in {"served", "outside"} =>
        LET window == { d \in DOMAIN world : d > q.now - LegDays }
            inReach == { b \in Shops : world[day].road[b] # NoLeg /\ WithinCaps(b, world[day].road[b]) }
        IN  /\ q.pc = "served" =>
                IF LegOf(r, q.branch) = NoLeg
                THEN Shop[q.branch].straight <= Shop[q.branch].radius
                ELSE \E d \in window : /\ world[d].road[q.branch] # NoLeg
                                       /\ WithinCaps(q.branch, world[d].road[q.branch])
            /\ (\A d \in window : world[d].road = world[day].road)
               /\ (\A b \in q.near : LegOf(r, b) # NoLeg) =>
                /\ q.pc = "outside" => \A b \in inReach : Overlooked(b)
                /\ q.pc = "served" =>
                    /\ q.branch \in inReach /\ Shop[q.branch].straight <= SearchRadius
                    /\ \A b \in inReach : Overlooked(b) \/
                        world[day].road[q.branch].seconds <= world[day].road[b].seconds
=============================================================================
