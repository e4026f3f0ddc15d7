----------------------------- MODULE OrderStatus -----------------------------
(***************************************************************************)
(* The order state machine: services/orderStatus.js and the tables of      *)
(* config/constants.js it reads.  Constant operators only, as the source   *)
(* is pure functions of an order's status and fulfilment.                  *)
(***************************************************************************)

Placed    == "placed"
Completed == "completed"
Failed    == "failed"

Fulfilments == {"delivery", "pickup"}

Statuses ==
  {Placed, "confirmed", "preparing", "out_for_delivery", "ready_for_pickup",
   Completed, Failed}

TerminalStatuses == {Completed, Failed}

IsTerminal(s) == s \in TerminalStatuses

\* The happy path.  `failed` is in no entry: AllowedTransitions adds it.
Flow ==
  [s \in Statuses |->
     CASE s = Placed             -> {"confirmed"}
       [] s = "confirmed"        -> {"preparing"}
       [] s = "preparing"        -> {"out_for_delivery", "ready_for_pickup"}
       [] s = "out_for_delivery" -> {Completed}
       [] s = "ready_for_pickup" -> {Completed}
       [] OTHER                  -> {}]

Handover ==
  [f \in Fulfilments |-> IF f = "delivery" THEN "out_for_delivery"
                                           ELSE "ready_for_pickup"]

HandoverSet == {"out_for_delivery", "ready_for_pickup"}

\* The reason codes of a failed order.  NoReason is the schema's null.
NotAcknowledged == "not_acknowledged"
NoReason        == "none"

StaffFailureReasons ==
  {"no_answer", "unreachable", "bad_address", "refused_substitute",
   "customer_request", "branch_unable", "other"}

FailureReasons == StaffFailureReasons \union {NotAcknowledged}

\* Mutated: either handover allowed to either fulfilment.
AnyHandover(status, fulfilment) ==
  IF IsTerminal(status) THEN {} ELSE Flow[status] \union {Failed}

AllowedTransitions(status, fulfilment) ==
  IF IsTerminal(status)
    THEN {}
    ELSE {c \in Flow[status] : c \in HandoverSet => c = Handover[fulfilment]}
           \union {Failed}

\* A reason exactly when failing, and `other` only with a note.
ReasonAccepted(next, reason, hasNote) ==
  /\ next # Failed => reason = NoReason
  /\ next = Failed => reason # NoReason
  /\ reason = "other" => hasNote

\* assertTransition: TRUE when it returns, FALSE when it throws.
TransitionAccepted(status, fulfilment, next, reason, hasNote) ==
  /\ status # next
  /\ ~IsTerminal(status)
  /\ next \in AllowedTransitions(status, fulfilment)
  /\ ReasonAccepted(next, reason, hasNote)
=============================================================================
