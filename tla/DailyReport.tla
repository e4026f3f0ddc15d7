---------------------------- MODULE DailyReport ----------------------------
(***************************************************************************)
(* The takings report (report.service.js) over the orders of the branches, *)
(* which are placed while BusinessHours takes orders and settled later.    *)
(* The lists of failures and of top items are left out; they group the     *)
(* same matched orders by other keys.                                      *)
(***************************************************************************)
EXTENDS BusinessHours, Sums, SequencesExt

CONSTANTS Branches,        \* the shops, in some order
          Admin, Amounts,  \* Amounts[mode]: [subtotal, deliveryFee]
          MaxOrders        \* bound on the orders placed

\* Midnight is not among the minutes that the clock skips, so that a day begins
\* when the one before it ends, unless the clock is put back.
ASSUME DaysAssumption ==
    /\ Branches \in Seq(ToSet(Branches)) /\ IsInjective(Branches)
    /\ Null \notin ToSet(Branches) /\ Admin \notin ToSet(Branches)
    /\ Amounts \in [Modes -> [subtotal : Nat, deliveryFee : Nat]]
    /\ \A z \in Zones : z.before <= z.after => HasOnce(z, 0) /\ StaysOnDate(z, 0)

VARIABLE book   \* the stored orders, in the order they came

Statuses == {"pending", "completed", "failed"}

BookInit == HoursInit /\ book = <<>>

\* An order as the report reads it.
PlaceOrder(branchId, mode) ==
    /\ Len(book) < MaxOrders
    /\ AssertBranchCanAccept(mode, at) = "OK"
    /\ book' = Append(book, [branchId |-> branchId, createdAt |-> at, fulfilment |-> mode,
                             status |-> "pending", totals |-> Amounts[mode]])
    /\ UNCHANGED hoursVars

\* The order board brings an order to its end (module OrderBook).
Settle(i, status) ==
    /\ i \in DOMAIN book /\ book[i].status = "pending"
    /\ book' = [book EXCEPT ![i].status = status]
    /\ UNCHANGED hoursVars

BookNext ==
    \/ HoursNext /\ UNCHANGED book
    \/ \E b \in ToSet(Branches), mode \in branch.fulfilment : PlaceOrder(b, mode)
    \/ \E i \in DOMAIN book, status \in Statuses \ {"pending"} : Settle(i, status)

BookSpec == BookInit /\ [][BookNext]_<<hoursVars, book>>

-----------------------------------------------------------------------------
(* What an order counts for in a sum.  GrandTotal is what the pricing       *)
(* engine stored (module Pricing).                                         *)
One         == [i \in DOMAIN book |-> 1]
Subtotal    == [i \in DOMAIN book |-> book[i].totals.subtotal]
DeliveryFee == [i \in DOMAIN book |-> book[i].totals.deliveryFee]
GrandTotal  == [i \in DOMAIN book |-> Subtotal[i] + DeliveryFee[i]]

\* $sum over some of the orders.
Total(orders, amount) ==
    SumOf([i \in DOMAIN book |-> IF i \in orders THEN amount[i] ELSE 0])

\* The figures of the takings, by their names in the report.
Amount == [orders |-> One, gross |-> GrandTotal, deliveryFees |-> DeliveryFee, net |-> Subtotal]
Taken  == {"orders", "gross", "deliveryFees", "net"}

\* The facets over the orders matched.  Takings are of completed orders, grouped
\* by fulfilment and then added up.
Compute(matched) ==
    LET with(status) == { i \in matched : book[i].status = status }
        group == [m \in Modes |-> [f \in Taken |->
                    Total({ i \in with("completed") : book[i].fulfilment = m }, Amount[f])]]
    IN  [byStatus     |-> [s \in Statuses |-> Total(with(s), One)],
         takings      |-> [f \in Taken |-> group["delivery"][f] + group["pickup"][f]],
         byFulfilment |-> [m \in Modes |-> [f \in {"orders", "gross"} |-> group[m][f]]],
         span         |-> IF matched = {} THEN Null
                          ELSE [first |-> Min({ book[i].createdAt : i \in matched }),
                                last  |-> Max({ book[i].createdAt : i \in matched })]]

\* An admin may narrow to a branch, a manager is pinned to their own.
ScopeBranch(actor, requested) ==
    IF actor = Admin THEN requested
    ELSE IF requested \notin {Null, actor} THEN "FORBIDDEN" ELSE actor

Scoped(scope) == { i \in DOMAIN book : scope \in {Null, book[i].branchId} }

OfDay(date, scope) ==
    { i \in Scoped(scope) : /\ book[i].createdAt >= BusinessDayRange(date).start
                            /\ book[i].createdAt < BusinessDayRange(date).end }
Daily(date, scope) == Compute(OfDay(date, scope))

\* Both ends are optional.
OfSpan(from, to, scope) ==
    { i \in Scoped(scope) : /\ from # Null => book[i].createdAt >= BusinessDayRange(from).start
                            /\ to # Null => book[i].createdAt < BusinessDayRange(to).end }

\* Mutated: the last day is left out.
SpanUpTo(from, to, scope) ==
    { i \in Scoped(scope) : /\ from # Null => book[i].createdAt >= BusinessDayRange(from).start
                            /\ to # Null => book[i].createdAt < BusinessDayRange(to).start }

\* Mutated.
SummaryUpTo(from, to, scope) == Compute(SpanUpTo(from, to, scope))
Summary(from, to, scope) == Compute(OfSpan(from, to, scope))

-----------------------------------------------------------------------------
\* What of a report can be added to another's.
Figures(report) ==
    [f \in Statuses \cup Taken |->
        IF f \in Statuses THEN report.byStatus[f] ELSE report.takings[f]]

SumOfFigures(reports) ==
    [f \in Statuses \cup Taken |->
        SumOf([k \in DOMAIN reports |-> Figures(reports[k])[f]])]

(* The till reconciles: the days of a span add up to its summary, the      *)
(* running total is all the days there are, the branches a manager each    *)
(* may read add up to the admin's figures, and the takings that were       *)
(* grouped and reduced are the totals of every completed order, net and    *)
(* delivery fees together -- in every zone whose clock is not set back     *)
(* (report.service.js:44-50, 117-125, 171-182, time.js:103-112).           *)
DaysAddUp ==
    LET first == ZonedParts(0).date
        today == ZonedParts(at).date
        all   == Summary(Null, Null, Null)
    IN  zone.before <= zone.after =>
        /\ \A from, to \in first..today, scope \in ToSet(Branches) \cup {Null} : from <= to =>
            Figures(Summary(from, to, scope)) =
                SumOfFigures([k \in 1..(to - from + 1) |-> Daily(from + k - 1, scope)])
        /\ all = Summary(first, today, Null)
        /\ Figures(Summary(Null, Null, ScopeBranch(Admin, Null))) =
            SumOfFigures([k \in DOMAIN Branches |->
                             Summary(Null, Null, ScopeBranch(Branches[k], Null))])
        /\ all.takings.gross = all.takings.net + all.takings.deliveryFees
        /\ all.takings.gross =
            Total({ i \in DOMAIN book : book[i].status = "completed" }, GrandTotal)
=============================================================================
