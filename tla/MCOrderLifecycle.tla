-------------------------- MODULE MCOrderLifecycle --------------------------
(***************************************************************************)
(* Instances of OrderLifecycle small enough for TLC.                       *)
(***************************************************************************)
EXTENDS OrderLifecycle, TLC

CONSTANTS o1, o2, d1, d2, i1, i2, b1, b2

OneOrder  == {o1}
TwoOrders == {o1, o2}
NoDesk    == {}
OneDesk   == {d1}
TwoDesks  == {d1, d2}
OneProcess   == {i1}
TwoProcesses == {i1, i2}

\* o1 is delivered, o2 collected; each has a branch of its own, d1 is an admin and
\* d2 manages b1.
MCFulfilment == [o \in Orders |-> IF o = o1 THEN "delivery" ELSE "pickup"]
AllPickup    == [o \in Orders |-> "pickup"]
MCBranchOf   == [o \in Orders |-> IF o = o1 THEN b1 ELSE b2]
AnyBranch    == {BranchOf[o] : o \in Orders}
MCScope      == [d \in Desks |-> IF d = d1 THEN AnyBranch ELSE {BranchOf[o1]}]

BothRungs == {"manager", "admin"}
OneRung   == {"manager"}
NoRedis   == {}
MCRungAt  == [l \in Levels |-> IF l = "manager" THEN 1 ELSE 2]

\* Rungs a branch that closes soon does not live to see.
LateRungs == [l \in Levels |-> IF l = "manager" THEN 2 ELSE 3]

\* o1's branch closes after the fuse has burnt down, o2's before.
MCClosesAt  == [o \in Orders |-> IF o = o1 THEN 9 ELSE 2]
ClosesSoon  == [o \in Orders |-> 1]
MCReach     == [o \in Orders |-> Channels]
MCReasons   == {"branch_unable"}

\* With one order, either request and either process may stand for the other.
Alike == Permutations(Desks) \union Permutations(Instances)
=============================================================================
