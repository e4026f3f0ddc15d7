------------------------------ MODULE OrderBook ------------------------------
(***************************************************************************)
(* What the order desk promises about one order document, whoever moves    *)
(* it: an abstract book in which every move is one indivisible step.  The  *)
(* edges are those of the diagram in services/orderStatus.js, written out  *)
(* as edges and not as the code's tables, so that OrderLifecycle's         *)
(* refinement of this module also compares the tables with the diagram.    *)
(***************************************************************************)
EXTENDS OrderStatus, Naturals, Sequences

CONSTANTS
  Orders,         \* the orders
  Fulfilment,     \* Fulfilment[o]: how order o is handed over
  Actors,         \* whoever a staff move can be attributed to
  System          \* the author of a timed transition

VARIABLES
  status,         \* the order's status, Absent before it is placed
  history,        \* statusHistory: every transition, who caused it, why
  payment,        \* payment.status of a cash-on-delivery order
  failureReason   \* the reason code denormalised onto a failed order

bookVars == <<status, history, payment, failureReason>>

Absent == "absent"

Event(s, by, reason) == [status |-> s, by |-> by, reason |-> reason]

\* The diagram: placed -> confirmed -> preparing -> handover -> completed.
Forward(f) ==
  {<<Placed, "confirmed">>, <<"confirmed", "preparing">>}
    \union (IF f = "delivery"
              THEN {<<"preparing", "out_for_delivery">>,
                    <<"out_for_delivery", Completed>>}
              ELSE {<<"preparing", "ready_for_pickup">>,
                    <<"ready_for_pickup", Completed>>})

Open == {Placed, "confirmed", "preparing", "out_for_delivery", "ready_for_pickup"}

Edges(f) == Forward(f) \union {<<s, Failed>> : s \in Open}

-----------------------------------------------------------------------------
Init ==
  /\ status        = [o \in Orders |-> Absent]
  /\ history       = [o \in Orders |-> <<>>]
  /\ payment       = [o \in Orders |-> "none"]
  /\ failureReason = [o \in Orders |-> NoReason]

\* One row of the book changes and everything about it at once.
Record(o, event, paid, why) ==
  /\ status'        = [status EXCEPT ![o] = event.status]
  /\ history'       = [history EXCEPT ![o] = Append(@, event)]
  /\ payment'       = [payment EXCEPT ![o] = paid]
  /\ failureReason' = [failureReason EXCEPT ![o] = why]

Place(o) ==
  /\ status[o] = Absent
  /\ Record(o, Event(Placed, System, NoReason), "pending", NoReason)

Advance(o, by, next) ==
  /\ <<status[o], next>> \in Forward(Fulfilment[o])
  /\ Record(o, Event(next, by, NoReason),
            IF next = Completed THEN "collected" ELSE payment[o],
            failureReason[o])

Fail(o, by, reason) ==
  /\ status[o] \in Open
  /\ Record(o, Event(Failed, by, reason), payment[o], reason)

Expire(o) ==
  /\ status[o] = Placed
  /\ Record(o, Event(Failed, System, NotAcknowledged), payment[o], NotAcknowledged)

Next ==
  \E o \in Orders :
    \/ Place(o)
    \/ \E by \in Actors, next \in Statuses : Advance(o, by, next)
    \/ \E by \in Actors, reason \in StaffFailureReasons : Fail(o, by, reason)
    \/ Expire(o)

Spec == Init /\ [][Next]_bookVars

-----------------------------------------------------------------------------
(***************************************************************************)
(* What follows from the promise.                                          *)
(***************************************************************************)

Events ==
  [status : Statuses, by : Actors \union {System},
   reason : FailureReasons \union {NoReason}]

TypeOK ==
  /\ status        \in [Orders -> Statuses \union {Absent}]
  /\ history       \in [Orders -> Seq(Events)]
  /\ payment       \in [Orders -> {"none", "pending", "collected"}]
  /\ failureReason \in [Orders -> FailureReasons \union {NoReason}]

\* The status history of every order is a walk along the diagram that begins
\* at `placed` and ends at the order's present status.
HistoryIsPath ==
  \A o \in Orders :
    LET h == history[o] IN
      IF status[o] = Absent
        THEN h = <<>>
        ELSE /\ Len(h) > 0
             /\ h[1].status = Placed
             /\ h[Len(h)].status = status[o]
             /\ \A k \in 1 .. (Len(h) - 1) :
                  <<h[k].status, h[k + 1].status>> \in Edges(Fulfilment[o])

\* Cash is collected exactly on the completed orders, a reason is filed exactly
\* on the failed ones, and it is the one in the last entry of the history.
OutcomeIsConsistent ==
  \A o \in Orders :
    /\ payment[o] = "none"      <=> status[o] = Absent
    /\ payment[o] = "collected" <=> status[o] = Completed
    /\ failureReason[o] # NoReason <=> status[o] = Failed
    /\ status[o] = Failed => history[o][Len(history[o])].reason = failureReason[o]

\* `not_acknowledged` is the system's verdict on an order nobody touched: such an
\* order was placed, was expired by the system, and did nothing in between.
ExpiredWasNeverTouched ==
  \A o \in Orders :
    failureReason[o] = NotAcknowledged =>
      history[o] = <<Event(Placed, System, NoReason),
                     Event(Failed, System, NotAcknowledged)>>

\* statusHistory is append-only and a finished order never moves again.
AppendOnly ==
  [][\A o \in Orders :
       /\ status[o] \in TerminalStatuses => status'[o] = status[o]
       /\ Len(history'[o]) >= Len(history[o])
       /\ \A k \in 1 .. Len(history[o]) : history'[o][k] = history[o][k]]_bookVars
=============================================================================
