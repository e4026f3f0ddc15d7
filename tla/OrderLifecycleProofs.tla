------------------------ MODULE OrderLifecycleProofs ------------------------
(***************************************************************************)
(* OrderLifecycle implements OrderBook, for every set of orders, desks,    *)
(* processes and rungs.  The inductive invariant adds to the types what a  *)
(* handler may rely on between two of its steps: a staff request holds a   *)
(* transition the diagram has, and a pass of the sweep holds orders whose  *)
(* deadline has gone by.                                                   *)
(*                                                                         *)
(* On top of it stand two more: TrailInv, for what the audit rows say of   *)
(* the moves, and NoticeInv, for what the messages say of them.            *)
(***************************************************************************)
EXTENDS OrderLifecycle, TLAPS, FiniteSetTheorems, FunctionTheorems

\* What changeStatus validated before its write is an edge of the diagram with
\* the reason that belongs to it, of an order that exists.
RequestsAreValid ==
  \A d \in Desks :
    desk[d].pc # "idle" =>
      /\ desk[d].order \in Orders
      /\ desk[d].from \in Statuses /\ desk[d].next \in Statuses
      /\ \/ /\ desk[d].next = Failed /\ desk[d].from \in Book!Open
            /\ desk[d].reason \in StaffFailureReasons
         \/ /\ <<desk[d].from, desk[d].next>> \in Book!Forward(Fulfilment[desk[d].order])
            /\ desk[d].next # Failed /\ desk[d].reason = NoReason

\* A pass of the sweep holds placed orders past their deadline, and works on one.
PassesAreDue ==
  \A i \in Instances :
    /\ \A o \in sweep[i].todo : status[o] # Absent /\ clock >= Deadline(o)
    /\ sweep[i].pc \in {"audit", "cancel", "mail", "phone"} => sweep[i].order \in Orders

\* Nothing is known of an order before it is placed.
BlankUntilPlaced ==
  \A o \in Orders :
    status[o] = Absent => history[o] = <<>> /\ failureReason[o] = NoReason

\* An order is handed over in the way it was ordered.  The tables alone do not say
\* so: they would complete a delivery order that is ready for pickup.
HandoverFits ==
  \A o \in Orders : status[o] \in HandoverSet => status[o] = Handover[Fulfilment[o]]

\* The system fails an order only past its deadline.
ExpiredWhenDue ==
  \A o \in Orders : failureReason[o] = NotAcknowledged => clock >= Deadline(o)

LifecycleInv ==
  /\ TypeOK
  /\ RequestsAreValid
  /\ PassesAreDue
  /\ BlankUntilPlaced
  /\ HandoverFits
  /\ ExpiredWhenDue

-----------------------------------------------------------------------------
\* assertTransition and the diagram agree: what the tables accept is an edge, and
\* carries a staff reason exactly when it fails the order.
LEMMA AcceptedIsEdge ==
  ASSUME NEW s \in Statuses, NEW f \in Fulfilments, NEW next \in Statuses,
         NEW reason \in StaffFailureReasons \union {NoReason}, NEW hasNote \in BOOLEAN,
         s \in HandoverSet => s = Handover[f],
         TransitionAccepted(s, f, next, reason, hasNote)
  PROVE  \/ next = Failed /\ s \in Book!Open /\ reason \in StaffFailureReasons
         \/ <<s, next>> \in Book!Forward(f) /\ next # Failed /\ reason = NoReason
<1>1. s \in Book!Open
  BY DEF TransitionAccepted, IsTerminal, TerminalStatuses, Statuses, Placed, Completed,
         Failed, Book!Open, Book!Placed
<1>2. next = Failed => reason \in StaffFailureReasons
  BY DEF TransitionAccepted, ReasonAccepted
<1>3. next # Failed => reason = NoReason
  BY DEF TransitionAccepted, ReasonAccepted
<1>4. next # Failed => next \in Flow[s] /\ (next \in HandoverSet => next = Handover[f])
  BY DEF TransitionAccepted, AllowedTransitions
<1>5. next # Failed => <<s, next>> \in Book!Forward(f)
  <2> SUFFICES ASSUME next # Failed PROVE <<s, next>> \in Book!Forward(f)
    OBVIOUS
  <2>1. Handover[f] = IF f = "delivery" THEN "out_for_delivery" ELSE "ready_for_pickup"
    BY DEF Handover
  <2>2. \/ s = "placed" /\ next = "confirmed"
        \/ s = "confirmed" /\ next = "preparing"
        \/ s = "preparing" /\ next \in HandoverSet
        \/ s = "out_for_delivery" /\ next = "completed"
        \/ s = "ready_for_pickup" /\ next = "completed"
    BY <1>4 DEF Flow, HandoverSet, Statuses, Placed, Completed, Failed
  <2>3. next \in HandoverSet => next = Handover[f]
    BY <1>4
  <2>4. CASE s = "preparing"
    <3>1. next = IF f = "delivery" THEN "out_for_delivery" ELSE "ready_for_pickup"
      BY <2>1, <2>2, <2>3, <2>4 DEF HandoverSet
    <3> QED
      BY <2>4, <3>1 DEF Book!Forward
  <2>5. CASE s \in HandoverSet
    <3>1. next = "completed" /\ s = IF f = "delivery" THEN "out_for_delivery"
                                                     ELSE "ready_for_pickup"
      BY <2>1, <2>2, <2>5 DEF HandoverSet
    <3> QED
      BY <3>1 DEF Book!Forward, Book!Completed
  <2> QED
    BY <2>2, <2>4, <2>5 DEF HandoverSet, Book!Forward, Book!Placed
<1> QED
  BY <1>1, <1>2, <1>3, <1>5

\* An edge to a handover is the one of that way of handing over.
LEMMA ForwardFits ==
  ASSUME NEW s, NEW f \in Fulfilments, NEW next \in HandoverSet,
         <<s, next>> \in Book!Forward(f)
  PROVE  next = Handover[f]
  BY DEF Book!Forward, Book!Placed, Book!Completed, HandoverSet, Handover, Fulfilments

\* Before anything happens there is nothing to keep.
LEMMA LifecycleInit == Init => LifecycleInv
<1> SUFFICES ASSUME Init PROVE LifecycleInv
  OBVIOUS
<1>1. TypeOK
  BY ConstantsAssumption
  DEF Init, TypeOK, NoJob, NoCheckout, NoRequest, NoSweep, Jobs, Checkouts, Requests,
      Passes, Hosts
<1>2. RequestsAreValid
  BY DEF Init, RequestsAreValid, NoRequest
<1>3. PassesAreDue
  BY DEF Init, PassesAreDue, NoSweep
<1>4. BlankUntilPlaced /\ HandoverFits /\ ExpiredWhenDue
  BY DEF Init, BlankUntilPlaced, HandoverFits, ExpiredWhenDue, NoReason,
         NotAcknowledged, HandoverSet, Absent
<1> QED
  BY <1>1, <1>2, <1>3, <1>4 DEF LifecycleInv

-----------------------------------------------------------------------------
\* Steps that leave the orders and the clock alone keep what is known of them.
LEMMA QuietStep ==
  ASSUME LifecycleInv, UNCHANGED <<dbVars, clock>>,
         TypeOK', RequestsAreValid', PassesAreDue'
  PROVE  LifecycleInv'
  BY DEF LifecycleInv, dbVars, BlankUntilPlaced, HandoverFits, ExpiredWhenDue, Deadline

\* A table of tables of numbers, or of records, in which one entry changes.
LEMMA CountOne ==
  ASSUME NEW A, NEW B, NEW f \in [A -> [B -> Nat]], NEW a \in A, NEW b \in B
  PROVE  [f EXCEPT ![a][b] = @ + 1] \in [A -> [B -> Nat]]
  OBVIOUS

LEMMA PutOne ==
  ASSUME NEW A, NEW B, NEW R, NEW f \in [A -> [B -> R]], NEW a \in A, NEW b \in B,
         NEW r \in R
  PROVE  [f EXCEPT ![a][b] = r] \in [A -> [B -> R]]
<1>1. [f[a] EXCEPT ![b] = r] \in [B -> R]
  OBVIOUS
<1> QED
  BY <1>1

\* A call that succeeds or breaks counts its faults.
LEMMA FaultTypes ==
  ASSUME TypeOK, Succeeds \/ Breaks
  PROVE  faults' \in Nat
  BY DEF TypeOK, Succeeds, Breaks

\* A message, delivered or lost, keeps the types of what it counts.
LEMMA SendTypes ==
  ASSUME TypeOK, NEW o \in Orders, NEW notice \in Notices, NEW channel,
         Send(o, notice, channel)
  PROVE  told' \in [Orders -> [Notices -> Nat]] /\ faults' \in Nat
<1>1. told \in [Orders -> [Notices -> Nat]]
  BY DEF TypeOK
<1>2. (Succeeds \/ Breaks)
      /\ (told' = told \/ told' = [told EXCEPT ![o][notice] = @ + 1])
  BY DEF Send
<1> QED
  BY <1>1, <1>2, CountOne, FaultTypes

\* So does an audit row, and so does a cancelled job.
LEMMA WriteAuditTypes ==
  ASSUME TypeOK, NEW o \in Orders, NEW row \in AuditRows, WriteAudit(o, row)
  PROVE  audit' \in [Orders -> Seq(AuditRows)] /\ faults' \in Nat
<1>1. audit \in [Orders -> Seq(AuditRows)]
  BY DEF TypeOK
<1>2. (Succeeds \/ Breaks)
      /\ (audit' = audit \/ audit' = [audit EXCEPT ![o] = Append(@, row)])
  BY DEF WriteAudit
<1>3. [audit EXCEPT ![o] = Append(@, row)] \in [Orders -> Seq(AuditRows)]
  BY <1>1
<1> QED
  BY <1>1, <1>2, <1>3, FaultTypes

LEMMA CancelJobTypes ==
  ASSUME TypeOK, NEW o \in Orders, NEW l \in Levels, CancelJob(o, l)
  PROVE  job' \in [Orders -> [Levels -> Jobs]] /\ faults' \in Nat
<1>1. job \in [Orders -> [Levels -> Jobs]] /\ NoJob \in Jobs
  BY DEF TypeOK, NoJob, Jobs, Hosts
<1>2. (Succeeds \/ Breaks) /\ (job' = job \/ job' = [job EXCEPT ![o][l] = NoJob])
  BY DEF CancelJob
<1>3. [job EXCEPT ![o][l] = NoJob] \in [Orders -> [Levels -> Jobs]]
  BY <1>1, PutOne
<1> QED
  BY <1>1, <1>2, <1>3, FaultTypes

-----------------------------------------------------------------------------
LEMMA PlaceKeeps ==
  ASSUME LifecycleInv, NEW o \in Orders, NEW i \in Instances, Place(o, i)
  PROVE  LifecycleInv'
<1>1. TypeOK'
  <2>1. TypeOK
    BY DEF LifecycleInv
  <2>2. Event(Placed, System, NoReason) \in Events /\ Placed \in Statuses
    BY DEF Event, Events, Statuses
  <2>3. [pc |-> "customer", host |-> i, left |-> Levels] \in Checkouts
    BY DEF Checkouts, Hosts
  <2>4. checkout' \in [Orders -> Checkouts]
    BY <2>1, <2>3 DEF TypeOK, Place
  <2>5. /\ status' \in [Orders -> Statuses \union {Absent}]
        /\ history' \in [Orders -> Seq(Events)]
    BY <2>1, <2>2 DEF TypeOK, Place
  <2> QED
    BY <2>1, <2>4, <2>5 DEF TypeOK, Place, envVars
<1>2. RequestsAreValid' /\ PassesAreDue'
  BY DEF LifecycleInv, RequestsAreValid, PassesAreDue, Place, Deadline, TypeOK, envVars,
         Absent, Placed
<1>3. BlankUntilPlaced' /\ HandoverFits'
  BY DEF LifecycleInv, BlankUntilPlaced, HandoverFits, Place, TypeOK, HandoverSet,
         Absent, Placed
<1>4. ExpiredWhenDue'
  BY DEF LifecycleInv, BlankUntilPlaced, ExpiredWhenDue, Place, Deadline, TypeOK,
         envVars, NoReason, NotAcknowledged
<1> QED
  BY <1>1, <1>2, <1>3, <1>4 DEF LifecycleInv

LEMMA CheckoutKeeps ==
  ASSUME LifecycleInv, NEW o \in Orders, CheckoutStep(o)
  PROVE  LifecycleInv'
<1>0. TypeOK /\ RequestsAreValid /\ PassesAreDue
  BY DEF LifecycleInv
<1>1. CASE NotifyCustomer(o)
  <2>1. told' \in [Orders -> [Notices -> Nat]] /\ faults' \in Nat
    BY <1>0, <1>1, SendTypes DEF NotifyCustomer, Notices, CustomerNotices
  <2>2. checkout' \in [Orders -> Checkouts]
    BY <1>0, <1>1 DEF TypeOK, NotifyCustomer, Checkouts
  <2>4. TypeOK'
    BY <1>0, <1>1, <2>1, <2>2 DEF TypeOK, NotifyCustomer, dbVars
  <2>3. RequestsAreValid' /\ PassesAreDue'
    BY <1>0, <1>1
    DEF NotifyCustomer, RequestsAreValid, PassesAreDue, Deadline, dbVars
  <2> QED
    BY <1>1, <2>3, <2>4, QuietStep DEF NotifyCustomer
<1>2. CASE NotifyBranch(o)
  <2>1. told' \in [Orders -> [Notices -> Nat]] /\ faults' \in Nat
    BY <1>0, <1>2, SendTypes DEF NotifyBranch, Notices
  <2>2. checkout' \in [Orders -> Checkouts]
    <3>1. NoCheckout \in Checkouts
      BY DEF NoCheckout, Checkouts, Hosts
    <3>2. [checkout[o] EXCEPT !.pc = "schedule"] \in Checkouts
      BY <1>0 DEF TypeOK, Checkouts
    <3> QED
      BY <1>0, <1>2, <3>1, <3>2 DEF TypeOK, NotifyBranch
  <2>4. TypeOK'
    BY <1>0, <1>2, <2>1, <2>2 DEF TypeOK, NotifyBranch, dbVars
  <2>3. RequestsAreValid' /\ PassesAreDue'
    BY <1>0, <1>2
    DEF NotifyBranch, RequestsAreValid, PassesAreDue, Deadline, dbVars
  <2> QED
    BY <1>2, <2>3, <2>4, QuietStep DEF NotifyBranch
<1>3. ASSUME NEW l \in Levels, ScheduleRung(o, l)
      PROVE  LifecycleInv'
  <2>1. job' \in [Orders -> [Levels -> Jobs]] /\ faults' \in Nat
    <3> DEFINE new == [NoJob EXCEPT !.st = "delayed", !.due = clock + RungAt[l]]
    <3>0. clock + RungAt[l] \in Nat /\ job \in [Orders -> [Levels -> Jobs]]
      BY <1>0, ConstantsAssumption DEF TypeOK
    <3>1. new \in Jobs
      BY <3>0 DEF NoJob, Jobs, Hosts
    <3>2. (Succeeds \/ Breaks) /\ (job' = job \/ job' = [job EXCEPT ![o][l] = new])
      BY <1>3 DEF ScheduleRung, AddJob, DueAt
    <3>3. [job EXCEPT ![o][l] = new] \in [Orders -> [Levels -> Jobs]]
      BY <3>0, <3>1, PutOne
    <3> QED
      BY <1>0, <3>0, <3>2, <3>3, FaultTypes
  <2>2. checkout' \in [Orders -> Checkouts]
    <3>1. NoCheckout \in Checkouts
      BY DEF NoCheckout, Checkouts, Hosts
    <3>2. [checkout[o] EXCEPT !.left = checkout[o].left \ {l}] \in Checkouts
      BY <1>0 DEF TypeOK, Checkouts
    <3>3. checkout \in [Orders -> Checkouts]
      BY <1>0 DEF TypeOK
    <3> DEFINE row == IF checkout[o].left = {l} THEN NoCheckout
                        ELSE [checkout[o] EXCEPT !.left = checkout[o].left \ {l}]
    <3>4. checkout' = [checkout EXCEPT ![o] = row]
      BY <1>3 DEF ScheduleRung
    <3>5. row \in Checkouts
      BY <3>1, <3>2
    <3> HIDE DEF row
    <3> QED
      BY <3>3, <3>4, <3>5
  <2>4. TypeOK'
    BY <1>0, <1>3, <2>1, <2>2 DEF TypeOK, ScheduleRung, dbVars
  <2>3. RequestsAreValid' /\ PassesAreDue'
    BY <1>0, <1>3
    DEF ScheduleRung, RequestsAreValid, PassesAreDue, Deadline, dbVars
  <2> QED
    BY <1>3, <2>3, <2>4, QuietStep DEF ScheduleRung
<1> QED
  BY <1>1, <1>2, <1>3 DEF CheckoutStep


-----------------------------------------------------------------------------
LEMMA RequestKeeps ==
  ASSUME LifecycleInv, NEW d \in Desks, Request(d)
  PROVE  LifecycleInv'
<1>0. TypeOK /\ RequestsAreValid /\ PassesAreDue /\ HandoverFits
  BY DEF LifecycleInv
<1>1. PICK i \in Instances, o \in Orders, next \in Statuses,
           reason \in StaffReasons \union {NoReason}, hasNote \in BOOLEAN :
        ReadOrder(d, i, o, next, reason, hasNote)
  BY DEF Request
<1> DEFINE r == [pc |-> "write", host |-> i, order |-> o, from |-> status[o],
                 next |-> next, reason |-> reason, left |-> Levels]
<1>2. /\ status[o] # Absent /\ desk' = [desk EXCEPT ![d] = r]
      /\ TransitionAccepted(status[o], Fulfilment[o], next, reason, hasNote)
      /\ UNCHANGED <<dbVars, audit, told, job, checkout, sweep, envVars>>
  BY <1>1 DEF ReadOrder
<1>3. /\ status[o] \in Statuses /\ Fulfilment[o] \in Fulfilments
      /\ reason \in StaffFailureReasons \union {NoReason}
      /\ status[o] \in HandoverSet => status[o] = Handover[Fulfilment[o]]
  BY <1>0, <1>2, ConstantsAssumption DEF TypeOK, HandoverFits
<1>4. \/ next = Failed /\ status[o] \in Book!Open /\ reason \in StaffFailureReasons
      \/ /\ <<status[o], next>> \in Book!Forward(Fulfilment[o])
         /\ next # Failed /\ reason = NoReason
  BY <1>2, <1>3, AcceptedIsEdge
<1>5. r \in Requests
  BY <1>3 DEF Requests, Hosts
<1>6. desk \in [Desks -> Requests] /\ desk' \in [Desks -> Requests]
  BY <1>0, <1>2, <1>5 DEF TypeOK
<1>7. TypeOK'
  BY <1>0, <1>2, <1>6 DEF TypeOK, dbVars, envVars
<1>8. RequestsAreValid'
  BY <1>0, <1>2, <1>3, <1>4, <1>6 DEF RequestsAreValid
<1>9. PassesAreDue'
  BY <1>0, <1>2 DEF PassesAreDue, Deadline, dbVars, envVars
<1> QED
  BY <1>2, <1>7, <1>8, <1>9, QuietStep DEF envVars

\* The request gives up, or goes on to its next step: what it holds stays valid.
LEMMA HeldRequest ==
  ASSUME RequestsAreValid, NEW d \in Desks, desk \in [Desks -> Requests],
         NEW r \in Requests, desk' = [desk EXCEPT ![d] = r],
         \/ r = NoRequest
         \/ /\ desk[d].pc # "idle"
            /\ r.order = desk[d].order /\ r.from = desk[d].from
            /\ r.next = desk[d].next /\ r.reason = desk[d].reason
  PROVE  RequestsAreValid' /\ desk' \in [Desks -> Requests]
  BY DEF RequestsAreValid, NoRequest

LEMMA NoRequestType == NoRequest \in Requests
  BY DEF NoRequest, Requests, Hosts

\* The conditional write: the one step of a request that moves the order.
LEMMA WriteKeeps ==
  ASSUME LifecycleInv, NEW d \in Desks, WriteStatus(d)
  PROVE  LifecycleInv'
<1> DEFINE r == desk[d]
           o == desk[d].order
           e == Event(r.next, d, r.reason)
<1>0. TypeOK /\ RequestsAreValid /\ PassesAreDue
  BY DEF LifecycleInv
<1>1. /\ r \in Requests /\ r.pc = "write" /\ status[o] = r.from
      /\ status'  = [status EXCEPT ![o] = r.next]
      /\ history' = [history EXCEPT ![o] = Append(@, e)]
      /\ payment' = [payment EXCEPT ![o] = PaymentAfter(o, r.next)]
      /\ failureReason' = IF r.next = Failed
                            THEN [failureReason EXCEPT ![o] = r.reason]
                            ELSE failureReason
      /\ UNCHANGED <<placedAt, audit, told, job, checkout, sweep, clock, crashes>>
  BY <1>0 DEF WriteStatus, StillAsRead, TypeOK
<1>2. /\ o \in Orders /\ r.from \in Statuses /\ r.next \in Statuses
      /\ \/ r.next = Failed /\ r.from \in Book!Open /\ r.reason \in StaffFailureReasons
         \/ /\ <<r.from, r.next>> \in Book!Forward(Fulfilment[o])
            /\ r.next # Failed /\ r.reason = NoReason
  BY <1>0, <1>1 DEF RequestsAreValid
<1>3. e \in Events
  BY <1>1, <1>2 DEF Event, Events, FailureReasons
<1>4. /\ status'  \in [Orders -> Statuses \union {Absent}]
      /\ history' \in [Orders -> Seq(Events)]
      /\ payment' \in [Orders -> {"none", "pending", "collected"}]
      /\ failureReason' \in [Orders -> FailureReasons \union {NoReason}]
  <2>1. /\ status  \in [Orders -> Statuses \union {Absent}]
        /\ history \in [Orders -> Seq(Events)]
        /\ payment \in [Orders -> {"none", "pending", "collected"}]
        /\ failureReason \in [Orders -> FailureReasons \union {NoReason}]
    BY <1>0 DEF TypeOK
  <2>2. PaymentAfter(o, r.next) \in {"none", "pending", "collected"}
    BY <2>1, <1>2 DEF PaymentAfter
  <2>3. r.next = Failed => r.reason \in FailureReasons
    BY <1>2 DEF FailureReasons
  <2> HIDE DEF r, o, e
  <2> QED
    BY <2>1, <2>2, <2>3, <1>1, <1>2, <1>3
<1>5. desk' \in [Desks -> Requests] /\ RequestsAreValid' /\ faults' \in Nat
  <2> DEFINE new == [r EXCEPT !.pc = "audit"]
  <2>1. /\ new \in Requests /\ new.order = r.order /\ new.from = r.from
        /\ new.next = r.next /\ new.reason = r.reason /\ r.pc # "idle"
    BY <1>1 DEF Requests
  <2>2. desk \in [Desks -> Requests]
    BY <1>0 DEF TypeOK
  <2>3. CASE Succeeds /\ desk' = [desk EXCEPT ![d].pc = "audit"]
    <3>1. desk' = [desk EXCEPT ![d] = new]
      BY <2>2, <2>3
    <3> HIDE DEF new
    <3> QED
      BY <1>0, <2>1, <2>2, <2>3, <3>1, HeldRequest, FaultTypes
  <2>4. CASE Breaks /\ desk' = [desk EXCEPT ![d] = NoRequest]
    BY <1>0, <2>2, <2>4, HeldRequest, NoRequestType, FaultTypes
  <2> QED
    BY <2>3, <2>4 DEF WriteStatus
<1>6. TypeOK'
  BY <1>0, <1>1, <1>4, <1>5 DEF TypeOK
<1>7. PassesAreDue'
  BY <1>0, <1>1, <1>2 DEF PassesAreDue, Deadline, TypeOK, Statuses, Absent,
                          Placed, Completed, Failed
<1>8. BlankUntilPlaced'
  BY <1>0, <1>1, <1>2 DEF LifecycleInv, BlankUntilPlaced, TypeOK, Statuses, Absent,
                          Placed, Completed, Failed
<1>9. HandoverFits'
  <2>1. r.next \in HandoverSet => r.next = Handover[Fulfilment[o]]
    <3>1. Fulfilment[o] \in Fulfilments
      BY <1>2, ConstantsAssumption
    <3>2. r.next \in HandoverSet =>
            <<r.from, r.next>> \in Book!Forward(Fulfilment[o])
      BY <1>2 DEF HandoverSet, Failed
    <3> HIDE DEF r, o
    <3> QED
      BY <3>1, <3>2, ForwardFits
  <2>2. status \in [Orders -> Statuses \union {Absent}] /\ HandoverFits
    BY <1>0 DEF TypeOK, LifecycleInv
  <2> QED
    BY <1>1, <1>2, <2>1, <2>2 DEF HandoverFits
<1>10. ExpiredWhenDue'
  BY <1>0, <1>1, <1>2
  DEF LifecycleInv, ExpiredWhenDue, TypeOK, Deadline, StaffFailureReasons,
      NotAcknowledged
<1> QED
  BY <1>5, <1>6, <1>7, <1>8, <1>9, <1>10 DEF LifecycleInv


\* A step of a request after its write, or one that ends it.
LEMMA QuietDesk ==
  ASSUME LifecycleInv, NEW d \in Desks, NEW r \in Requests,
         desk' = [desk EXCEPT ![d] = r],
         \/ r = NoRequest
         \/ /\ desk[d].pc # "idle"
            /\ r.order = desk[d].order /\ r.from = desk[d].from
            /\ r.next = desk[d].next /\ r.reason = desk[d].reason,
         UNCHANGED <<dbVars, checkout, sweep, clock, crashes>>,
         audit' \in [Orders -> Seq(AuditRows)],
         told'  \in [Orders -> [Notices -> Nat]],
         job'   \in [Orders -> [Levels -> Jobs]],
         faults' \in Nat
  PROVE  LifecycleInv'
<1>0. TypeOK /\ RequestsAreValid /\ PassesAreDue /\ desk \in [Desks -> Requests]
  BY DEF LifecycleInv, TypeOK
<1>1. RequestsAreValid' /\ desk' \in [Desks -> Requests]
  BY <1>0, HeldRequest
<1>2. TypeOK'
  BY <1>0, <1>1 DEF TypeOK, dbVars
<1>3. PassesAreDue'
  BY <1>0 DEF PassesAreDue, Deadline, dbVars
<1> QED
  BY <1>1, <1>2, <1>3, QuietStep

LEMMA DeskKeeps ==
  ASSUME LifecycleInv, NEW d \in Desks, DeskStep(d)
  PROVE  LifecycleInv'
<1> DEFINE r == desk[d]
<1>0. /\ TypeOK /\ RequestsAreValid
      /\ audit \in [Orders -> Seq(AuditRows)] /\ told \in [Orders -> [Notices -> Nat]]
      /\ job \in [Orders -> [Levels -> Jobs]] /\ desk \in [Desks -> Requests]
      /\ faults \in Nat /\ r \in Requests
  BY DEF LifecycleInv, TypeOK
<1>1. r.pc # "idle" =>
        r.order \in Orders /\ r.from \in Statuses /\ r.next \in Statuses
  BY <1>0 DEF RequestsAreValid
<1>2. CASE WriteStatus(d)
  BY <1>2, WriteKeeps
<1>3. CASE LoseRace(d)
  BY <1>0, <1>3, QuietDesk, NoRequestType DEF LoseRace, dbVars, envVars
<1>4. CASE WriteFails(d)
  <2>1. faults' \in Nat
    BY <1>0, <1>4, FaultTypes DEF WriteFails
  <2> QED
    BY <1>0, <1>4, <2>1, QuietDesk, NoRequestType DEF WriteFails
<1>5. CASE AuditMove(d)
  <2> DEFINE new == [r EXCEPT !.pc = "notify"]
  <2>1. r.pc = "audit" /\ WriteAudit(r.order, Move(r.from, r.next, d))
        /\ desk' = [desk EXCEPT ![d] = new]
        /\ UNCHANGED <<dbVars, told, job, checkout, sweep, clock, crashes>>
    BY <1>0, <1>5 DEF AuditMove, RowOf
  <2>2. Move(r.from, r.next, d) \in AuditRows
    BY <1>1, <2>1 DEF Move, AuditRows
  <2>3. audit' \in [Orders -> Seq(AuditRows)] /\ faults' \in Nat
    BY <1>0, <1>1, <2>1, <2>2, WriteAuditTypes
  <2>4. /\ new \in Requests /\ new.order = r.order /\ new.from = r.from
        /\ new.next = r.next /\ new.reason = r.reason /\ r.pc # "idle"
    BY <1>0, <2>1 DEF Requests
  <2> HIDE DEF new
  <2> QED
    BY <1>0, <2>1, <2>3, <2>4, QuietDesk
<1>6. CASE NotifyMove(d)
  <2> DEFINE new == IF Levels = {} THEN NoRequest ELSE [r EXCEPT !.pc = "cancel"]
  <2>4. /\ r.pc = "notify" /\ desk' = [desk EXCEPT ![d] = new]
        /\ UNCHANGED <<dbVars, audit, job, checkout, sweep, clock, crashes>>
    BY <1>0, <1>6 DEF NotifyMove
  <2>1. /\ r.pc = "notify"
        /\ IF r.next \in StatusNotices
             THEN Send(r.order, r.next, "phone")
             ELSE Succeeds /\ UNCHANGED told
    BY <1>0, <1>6 DEF NotifyMove
  <2>2. told' \in [Orders -> [Notices -> Nat]] /\ faults' \in Nat
    <3>1. CASE r.next \in StatusNotices
      BY <1>0, <1>1, <2>1, <3>1, SendTypes DEF Notices, CustomerNotices
    <3>2. CASE r.next \notin StatusNotices
      BY <1>0, <2>1, <3>2, FaultTypes
    <3> QED
      BY <3>1, <3>2
  <2>3. /\ new \in Requests
        /\ \/ new = NoRequest
           \/ /\ new.order = r.order /\ new.from = r.from
              /\ new.next = r.next /\ new.reason = r.reason /\ r.pc # "idle"
    <3>1. [r EXCEPT !.pc = "cancel"] \in Requests
      BY <1>0 DEF Requests
    <3> QED
      BY <1>0, <2>4, <3>1, NoRequestType DEF Requests
  <2>5. audit' \in [Orders -> Seq(AuditRows)] /\ job' \in [Orders -> [Levels -> Jobs]]
    BY <1>0, <2>4
  <2> HIDE DEF new, r
  <2> QED
    BY <2>2, <2>3, <2>4, <2>5, QuietDesk DEF r
<1>7. ASSUME NEW l \in Levels, CancelAfterMove(d, l)
      PROVE  LifecycleInv'
  <2> DEFINE new == IF r.left = {l} THEN NoRequest ELSE [r EXCEPT !.left = @ \ {l}]
  <2>1. r.pc = "cancel" /\ desk' = [desk EXCEPT ![d] = new] /\ CancelJob(r.order, l)
        /\ UNCHANGED <<dbVars, audit, told, checkout, sweep, clock, crashes>>
    BY <1>0, <1>7 DEF CancelAfterMove
  <2>2. job' \in [Orders -> [Levels -> Jobs]] /\ faults' \in Nat
    BY <1>0, <1>1, <2>1, CancelJobTypes
  <2>3. /\ new \in Requests
        /\ \/ new = NoRequest
           \/ /\ new.order = r.order /\ new.from = r.from
              /\ new.next = r.next /\ new.reason = r.reason /\ r.pc # "idle"
    <3>1. [r EXCEPT !.left = @ \ {l}] \in Requests
      BY <1>0 DEF Requests
    <3> QED
      BY <1>0, <2>1, <3>1, NoRequestType DEF Requests
  <2> HIDE DEF new
  <2> QED
    BY <1>0, <2>1, <2>2, <2>3, QuietDesk
<1> QED
  BY <1>2, <1>3, <1>4, <1>5, <1>6, <1>7 DEF DeskStep


-----------------------------------------------------------------------------
\* A pass that is consistent: what it holds is due, what it works on exists.
PassIsDue(p) ==
  /\ \A o \in p.todo : status[o] # Absent /\ clock >= Deadline(o)
  /\ p.pc \in {"audit", "cancel", "mail", "phone"} => p.order \in Orders

LEMMA NextInPassType ==
  ASSUME NEW todo \in SUBSET Orders,
         \A o \in todo : status[o] # Absent /\ clock >= Deadline(o)
  PROVE  NextInPass(todo) \in Passes /\ PassIsDue(NextInPass(todo))
<1>1. NoSweep \in Passes /\ PassIsDue(NoSweep)
  BY DEF NoSweep, Passes, PassIsDue
<1> DEFINE p == [NoSweep EXCEPT !.pc = "write", !.todo = todo]
<1>2. p \in Passes /\ p.todo = todo /\ p.pc = "write"
  BY DEF NoSweep, Passes
<1>3. PassIsDue(p)
  BY <1>2 DEF PassIsDue
<1> QED
  BY <1>1, <1>2, <1>3 DEF NextInPass

\* A step of a pass that does not move an order.
LEMMA QuietPass ==
  ASSUME LifecycleInv, NEW i \in Instances, NEW p \in Passes,
         sweep' = [sweep EXCEPT ![i] = p], PassIsDue(p),
         UNCHANGED <<dbVars, checkout, desk, clock>>,
         audit' \in [Orders -> Seq(AuditRows)],
         told'  \in [Orders -> [Notices -> Nat]],
         job'   \in [Orders -> [Levels -> Jobs]],
         faults' \in Nat, crashes' \in Nat
  PROVE  LifecycleInv'
<1>0. TypeOK /\ RequestsAreValid /\ PassesAreDue /\ sweep \in [Instances -> Passes]
  BY DEF LifecycleInv, TypeOK
<1>1. sweep' \in [Instances -> Passes]
  BY <1>0
<1>2. TypeOK'
  BY <1>0, <1>1 DEF TypeOK, dbVars
<1>3. RequestsAreValid'
  BY <1>0 DEF RequestsAreValid
<1>4. PassesAreDue'
  <2>1. \A o : Deadline(o)' = Deadline(o)
    BY DEF Deadline, dbVars
  <2>2. PassesAreDue' = \A j \in Instances :
             /\ \A o \in sweep'[j].todo : status[o] # Absent /\ clock >= Deadline(o)
             /\ sweep'[j].pc \in {"audit", "cancel", "mail", "phone"} =>
                  sweep'[j].order \in Orders
    BY <2>1 DEF PassesAreDue, dbVars
  <2> QED
    BY <2>2, <1>0 DEF PassesAreDue, PassIsDue
<1> QED
  BY <1>2, <1>3, <1>4, QuietStep


\* The sweep's write: it fails an order that is still placed and past its deadline.
LEMMA ExpireKeeps ==
  ASSUME LifecycleInv, NEW i \in Instances, NEW o \in Orders, ExpireOrder(i, o)
  PROVE  LifecycleInv'
<1> DEFINE e == Event(Failed, System, NotAcknowledged)
           at == [pc |-> "audit", todo |-> sweep[i].todo \ {o}, order |-> o,
                  left |-> Levels]
<1>0. /\ TypeOK /\ RequestsAreValid /\ PassesAreDue /\ BlankUntilPlaced
      /\ HandoverFits /\ ExpiredWhenDue /\ sweep \in [Instances -> Passes]
  BY DEF LifecycleInv, TypeOK
<1>1. /\ o \in sweep[i].todo /\ status[o] = Placed
      /\ status'  = [status EXCEPT ![o] = Failed]
      /\ history' = [history EXCEPT ![o] = Append(@, e)]
      /\ failureReason' = [failureReason EXCEPT ![o] = NotAcknowledged]
      /\ UNCHANGED <<payment, placedAt, audit, told, job, checkout, desk, clock, crashes>>
  BY DEF ExpireOrder, Expirable, Heads
<1>2. e \in Events /\ Failed \in Statuses /\ NotAcknowledged \in FailureReasons
  BY DEF Event, Events, Statuses, FailureReasons
<1>3. PICK p \in {at, NextInPass(sweep[i].todo \ {o})} :
        sweep' = [sweep EXCEPT ![i] = p] /\ (Succeeds \/ Breaks)
  BY DEF ExpireOrder
<1>11. /\ p \in Passes /\ p.todo \subseteq sweep[i].todo
       /\ p.pc \in {"audit", "cancel", "mail", "phone"} => p.order \in Orders
  <2>1. sweep[i].todo \in SUBSET Orders
    BY <1>0 DEF Passes
  <2>2. CASE p = at
    BY <2>1, <2>2 DEF Passes
  <2>3. CASE p = NextInPass(sweep[i].todo \ {o})
    BY <2>1, <2>3 DEF Passes, NextInPass, NoSweep
  <2> QED
    BY <2>2, <2>3
<1>4. sweep' \in [Instances -> Passes] /\ faults' \in Nat
  BY <1>0, <1>3, <1>11, FaultTypes
<1>5. /\ status'  \in [Orders -> Statuses \union {Absent}]
      /\ history' \in [Orders -> Seq(Events)]
      /\ failureReason' \in [Orders -> FailureReasons \union {NoReason}]
  BY <1>0, <1>1, <1>2 DEF TypeOK
<1>6. TypeOK'
  BY <1>0, <1>1, <1>4, <1>5 DEF TypeOK
<1>7. RequestsAreValid'
  BY <1>0, <1>1 DEF RequestsAreValid
<1>8. PassesAreDue'
  <2>1. \A q \in Orders : status[q] # Absent => status'[q] # Absent
    BY <1>0, <1>1 DEF TypeOK, Failed, Absent
  <2>2. clock' = clock /\ \A q : Deadline(q)' = Deadline(q)
    BY <1>1 DEF Deadline
  <2>3. ASSUME NEW j \in Instances
        PROVE  /\ sweep'[j].todo \subseteq sweep[j].todo
               /\ sweep'[j].todo \subseteq Orders
               /\ \/ sweep'[j] = sweep[j]
                  \/ sweep'[j].pc \in {"audit", "cancel", "mail", "phone"} =>
                       sweep'[j].order \in Orders
    BY <1>0, <1>3, <1>11 DEF Passes
  <2> QED
    BY <1>0, <2>1, <2>2, <2>3 DEF PassesAreDue
<1>9. BlankUntilPlaced' /\ HandoverFits'
  BY <1>0, <1>1 DEF BlankUntilPlaced, HandoverFits, TypeOK, Failed, Absent, HandoverSet
<1>10. ExpiredWhenDue'
  BY <1>0, <1>1 DEF ExpiredWhenDue, PassesAreDue, Deadline, TypeOK
<1> QED
  BY <1>6, <1>7, <1>8, <1>9, <1>10 DEF LifecycleInv

LEMMA SweepKeeps ==
  ASSUME LifecycleInv, NEW i \in Instances, SweepStep(i)
  PROVE  LifecycleInv'
<1> DEFINE s == sweep[i]
<1>0. /\ TypeOK /\ PassIsDue(s)
      /\ audit \in [Orders -> Seq(AuditRows)] /\ told \in [Orders -> [Notices -> Nat]]
      /\ job \in [Orders -> [Levels -> Jobs]] /\ sweep \in [Instances -> Passes]
      /\ faults \in Nat /\ crashes \in Nat /\ s \in Passes /\ s.todo \in SUBSET Orders
  BY DEF LifecycleInv, TypeOK, PassesAreDue, PassIsDue, Passes
<1>1. CASE StartSweep(i)
  <2>1. PICK b \in Batches :
          sweep' = [sweep EXCEPT ![i] = NextInPass({o \in b : clock >= Deadline(o)})]
    BY <1>1 DEF StartSweep, DueOf
  <2> DEFINE due == {o \in b : clock >= Deadline(o)}
  <2>2. due \in SUBSET Orders /\ \A o \in due : status[o] # Absent /\ clock >= Deadline(o)
    BY DEF Batches, Waiting, Placed, Absent
  <2> HIDE DEF due
  <2>3. NextInPass(due) \in Passes /\ PassIsDue(NextInPass(due))
    BY <2>2, NextInPassType
  <2>4. UNCHANGED <<dbVars, audit, told, job, checkout, desk, clock, faults, crashes>>
    BY <1>1 DEF StartSweep, envVars
  <2> QED
    BY <1>0, <2>1, <2>3, <2>4, QuietPass DEF due
<1>2. ASSUME NEW o \in Orders, ExpireOrder(i, o)
      PROVE  LifecycleInv'
  BY <1>2, ExpireKeeps
<1>3. ASSUME NEW o \in Orders, SkipOrder(i, o)
      PROVE  LifecycleInv'
  <2>1. NextInPass(s.todo \ {o}) \in Passes /\ PassIsDue(NextInPass(s.todo \ {o}))
    BY <1>0, NextInPassType DEF PassIsDue
  <2>2. /\ sweep' = [sweep EXCEPT ![i] = NextInPass(s.todo \ {o})]
        /\ UNCHANGED <<dbVars, audit, told, job, checkout, desk, clock, crashes>>
        /\ Succeeds \/ Breaks
    BY <1>0, <1>3 DEF SkipOrder
  <2>3. faults' \in Nat
    BY <1>0, <2>2, FaultTypes
  <2> QED
    BY <1>0, <2>1, <2>2, <2>3, QuietPass
<1>4. CASE AuditExpiry(i)
  <2> DEFINE next == IF Levels = {} THEN "mail" ELSE "cancel"
             p    == [s EXCEPT !.pc = next]
  <2>1. /\ s.pc = "audit" /\ WriteAudit(s.order, Move(Placed, Failed, System))
        /\ sweep' = [sweep EXCEPT ![i] = p]
        /\ UNCHANGED <<dbVars, told, job, checkout, desk, clock, crashes>>
    BY <1>0, <1>4 DEF AuditExpiry
  <2>2. s.order \in Orders /\ Move(Placed, Failed, System) \in AuditRows
    BY <1>0, <2>1 DEF PassIsDue, Move, AuditRows, Statuses
  <2>3. audit' \in [Orders -> Seq(AuditRows)] /\ faults' \in Nat
    BY <1>0, <2>1, <2>2, WriteAuditTypes
  <2>4. p \in Passes /\ p.todo = s.todo /\ p.order = s.order
    BY <1>0 DEF Passes
  <2>5. PassIsDue(p)
    BY <1>0, <2>2, <2>4 DEF PassIsDue
  <2> HIDE DEF p
  <2> QED
    BY <1>0, <2>1, <2>3, <2>4, <2>5, QuietPass
<1>5. CASE MailApology(i)
  <2> DEFINE p == [s EXCEPT !.pc = "phone"]
  <2>1. /\ s.pc = "mail" /\ Send(s.order, "apology", "email")
        /\ sweep' = [sweep EXCEPT ![i] = p]
        /\ UNCHANGED <<dbVars, audit, job, checkout, desk, clock, crashes>>
    BY <1>0, <1>5 DEF MailApology
  <2>2. s.order \in Orders
    BY <1>0, <2>1 DEF PassIsDue
  <2>3. told' \in [Orders -> [Notices -> Nat]] /\ faults' \in Nat
    BY <1>0, <2>1, <2>2, SendTypes DEF Notices, CustomerNotices
  <2>4. p \in Passes /\ p.todo = s.todo /\ p.order = s.order
    BY <1>0 DEF Passes
  <2>5. PassIsDue(p)
    BY <1>0, <2>2, <2>4 DEF PassIsDue
  <2> HIDE DEF p
  <2> QED
    BY <1>0, <2>1, <2>3, <2>4, <2>5, QuietPass
<1>6. CASE NotifyExpired(i)
  <2>1. /\ s.pc = "phone" /\ Send(s.order, "order_expired", "phone")
        /\ sweep' = [sweep EXCEPT ![i] = NextInPass(s.todo)]
        /\ UNCHANGED <<dbVars, audit, job, checkout, desk, clock, crashes>>
    BY <1>0, <1>6 DEF NotifyExpired
  <2>2. s.order \in Orders
    BY <1>0, <2>1 DEF PassIsDue
  <2>3. told' \in [Orders -> [Notices -> Nat]] /\ faults' \in Nat
    BY <1>0, <2>1, <2>2, SendTypes DEF Notices, CustomerNotices
  <2>4. NextInPass(s.todo) \in Passes /\ PassIsDue(NextInPass(s.todo))
    BY <1>0, NextInPassType DEF PassIsDue
  <2> QED
    BY <1>0, <2>1, <2>3, <2>4, QuietPass
<1>7. ASSUME NEW l \in Levels, CancelAfterExpiry(i, l)
      PROVE  LifecycleInv'
  <2> DEFINE p == [s EXCEPT !.left = @ \ {l}, !.pc = IF s.left = {l} THEN "mail" ELSE @]
  <2>1. /\ s.pc = "cancel" /\ CancelJob(s.order, l)
        /\ sweep' = [sweep EXCEPT ![i] = p]
        /\ UNCHANGED <<dbVars, audit, told, checkout, desk, clock, crashes>>
    BY <1>0, <1>7 DEF CancelAfterExpiry
  <2>2. s.order \in Orders
    BY <1>0, <2>1 DEF PassIsDue
  <2>3. job' \in [Orders -> [Levels -> Jobs]] /\ faults' \in Nat
    BY <1>0, <2>1, <2>2, CancelJobTypes
  <2>4. p \in Passes /\ p.todo = s.todo /\ p.order = s.order
    BY <1>0 DEF Passes
  <2>5. PassIsDue(p)
    BY <1>0, <2>2, <2>4 DEF PassIsDue
  <2> HIDE DEF p
  <2> QED
    BY <1>0, <2>1, <2>3, <2>4, <2>5, QuietPass
<1> QED
  BY <1>1, <1>2, <1>3, <1>4, <1>5, <1>6, <1>7 DEF SweepStep


-----------------------------------------------------------------------------
\* A step of a worker changes its job, sends a chase, and no more.
LEMMA QuietJob ==
  ASSUME LifecycleInv,
         UNCHANGED <<dbVars, audit, checkout, desk, sweep, clock, crashes>>,
         told'  \in [Orders -> [Notices -> Nat]],
         job'   \in [Orders -> [Levels -> Jobs]],
         faults' \in Nat
  PROVE  LifecycleInv'
<1>1. TypeOK'
  BY DEF LifecycleInv, TypeOK, dbVars
<1>2. RequestsAreValid'
  BY DEF LifecycleInv, RequestsAreValid
<1>3. PassesAreDue'
  BY DEF LifecycleInv, PassesAreDue, Deadline, dbVars
<1> QED
  BY <1>1, <1>2, <1>3, QuietStep

LEMMA JobKeeps ==
  ASSUME LifecycleInv, NEW o \in Orders, NEW l \in Levels, JobStep(o, l)
  PROVE  LifecycleInv'
<1> DEFINE j == job[o][l]
<1>0. /\ TypeOK /\ told \in [Orders -> [Notices -> Nat]] /\ faults \in Nat
      /\ job \in [Orders -> [Levels -> Jobs]] /\ j \in Jobs /\ NoJob \in Jobs
  BY DEF LifecycleInv, TypeOK, NoJob, Jobs, Hosts
<1>1. \A new \in Jobs : [job EXCEPT ![o][l] = new] \in [Orders -> [Levels -> Jobs]]
  BY <1>0, PutOne
<1>2. ASSUME NEW i \in Instances, PickJob(i, o, l)
      PROVE  LifecycleInv'
  <2> DEFINE new == [j EXCEPT !.st = "sending", !.host = i]
  <2>1. new \in Jobs
    BY <1>0 DEF Jobs, Hosts
  <2>2. /\ job' = [job EXCEPT ![o][l] = new] \/ job' = [job EXCEPT ![o][l] = NoJob]
        /\ UNCHANGED <<dbVars, audit, told, checkout, desk, sweep, clock, faults, crashes>>
    BY <1>2 DEF PickJob, Finish, procVars, envVars
  <2> HIDE DEF new
  <2>3. job' \in [Orders -> [Levels -> Jobs]]
    BY <1>0, <1>1, <2>1, <2>2
  <2> QED
    BY <1>0, <2>2, <2>3, QuietJob
<1>3. CASE PickFails(o, l)
  <2> DEFINE tries == j.tries + 1
             st    == IF tries >= MaxAttempts THEN "failed" ELSE "delayed"
             new   == [j EXCEPT !.tries = tries, !.st = st]
  <2>1. new \in Jobs
    <3>1. tries \in Nat /\ st \in {"failed", "delayed"}
      BY <1>0 DEF Jobs
    <3> HIDE DEF tries, st
    <3> QED
      BY <1>0, <3>1 DEF Jobs
  <2>2. /\ job' = [job EXCEPT ![o][l] = new] /\ Breaks
        /\ UNCHANGED <<dbVars, audit, told, checkout, desk, sweep, clock, crashes>>
    BY <1>3 DEF PickFails, procVars
  <2> HIDE DEF new
  <2>3. job' \in [Orders -> [Levels -> Jobs]] /\ faults' \in Nat
    BY <1>0, <1>1, <2>1, <2>2, FaultTypes
  <2> QED
    BY <1>0, <2>2, <2>3, QuietJob
<1>4. CASE SendChase(o, l)
  <2> DEFINE new == [j EXCEPT !.st = "sent"]
  <2>1. new \in Jobs
    BY <1>0 DEF Jobs
  <2>2. /\ job' = [job EXCEPT ![o][l] = new] /\ Send(o, l, RecipientFor(l))
        /\ UNCHANGED <<dbVars, audit, checkout, desk, sweep, clock, crashes>>
    BY <1>4 DEF SendChase, procVars
  <2> HIDE DEF new
  <2>3. job' \in [Orders -> [Levels -> Jobs]]
    BY <1>1, <2>1, <2>2
  <2>4. told' \in [Orders -> [Notices -> Nat]] /\ faults' \in Nat
    BY <1>0, <2>2, SendTypes DEF Notices
  <2> QED
    BY <2>2, <2>3, <2>4, QuietJob
<1>5. CASE FinishJob(o, l)
  <2>1. /\ job' = [job EXCEPT ![o][l] = NoJob]
        /\ UNCHANGED <<dbVars, audit, told, checkout, desk, sweep, clock, faults, crashes>>
    BY <1>5 DEF FinishJob, Finish, procVars, envVars
  <2>2. job' \in [Orders -> [Levels -> Jobs]]
    BY <1>0, <1>1, <2>1
  <2> QED
    BY <1>0, <2>1, <2>2, QuietJob
<1>6. CASE FinishFails(o, l)
  <2>0. \A k \in Jobs : Stalled(k) \in Jobs
    BY DEF Stalled, Jobs, Hosts
  <2>1. /\ job' = [job EXCEPT ![o][l] = Stalled(j)] /\ Breaks
        /\ UNCHANGED <<dbVars, audit, told, checkout, desk, sweep, clock, crashes>>
    BY <1>6 DEF FinishFails, procVars
  <2>2. job' \in [Orders -> [Levels -> Jobs]] /\ faults' \in Nat
    BY <1>0, <1>1, <2>0, <2>1, FaultTypes
  <2> QED
    BY <1>0, <2>1, <2>2, QuietJob
<1> QED
  BY <1>2, <1>3, <1>4, <1>5, <1>6 DEF JobStep

\* Time passes: a deadline that has gone by stays so.
LEMMA TickKeeps ==
  ASSUME LifecycleInv, Tick
  PROVE  LifecycleInv'
<1>1. /\ clock \in Nat /\ clock' = clock + 1
      /\ UNCHANGED <<dbVars, audit, told, job, checkout, desk, sweep, faults, crashes>>
      /\ placedAt \in [Orders -> Nat] /\ sweep \in [Instances -> Passes]
  BY DEF LifecycleInv, TypeOK, Tick, procVars
<1>2. TypeOK'
  BY <1>1 DEF LifecycleInv, TypeOK, dbVars
<1>3. RequestsAreValid'
  BY <1>1 DEF LifecycleInv, RequestsAreValid
<1>4. ASSUME NEW o \in Orders, clock >= Deadline(o)
      PROVE  clock' >= Deadline(o)'
  <2>1. placedAt[o] \in Nat /\ ClosesAt[o] \in Nat /\ Fuse \in Nat
    BY <1>1, ConstantsAssumption
  <2> QED
    BY <1>1, <1>4, <2>1 DEF Deadline, dbVars
<1>5. PassesAreDue'
  <2>1. \A i \in Instances : sweep[i].todo \subseteq Orders
    BY <1>1 DEF Passes
  <2>2. PassesAreDue /\ status' = status /\ sweep' = sweep
    BY <1>1 DEF LifecycleInv, dbVars
  <2> QED
    BY <1>4, <2>1, <2>2 DEF PassesAreDue
<1>7. ExpiredWhenDue'
  <2>1. ExpiredWhenDue /\ failureReason' = failureReason
    BY <1>1 DEF LifecycleInv, dbVars
  <2> QED
    BY <1>4, <2>1 DEF ExpiredWhenDue
<1>6. BlankUntilPlaced' /\ HandoverFits'
  BY <1>1 DEF LifecycleInv, BlankUntilPlaced, HandoverFits, dbVars
<1> QED
  BY <1>2, <1>3, <1>5, <1>6, <1>7 DEF LifecycleInv

\* A process dies: what it held is dropped, and its jobs are put back or failed.
LEMMA CrashKeeps ==
  ASSUME LifecycleInv, NEW i \in Instances, Crash(i)
  PROVE  LifecycleInv'
<1>0. /\ TypeOK /\ RequestsAreValid /\ PassesAreDue
      /\ UNCHANGED <<dbVars, audit, told, clock, faults>>
  BY DEF LifecycleInv, Crash
<1>1. /\ NoCheckout \in Checkouts /\ NoRequest \in Requests /\ NoSweep \in Passes
      /\ \A j \in Jobs : Stalled(j) \in Jobs
  BY DEF NoCheckout, Checkouts, NoRequest, Requests, NoSweep, Passes, Stalled, Jobs, Hosts
<1>2. /\ checkout' \in [Orders -> Checkouts] /\ desk' \in [Desks -> Requests]
      /\ sweep' \in [Instances -> Passes] /\ crashes' \in Nat
  BY <1>0, <1>1 DEF Crash, TypeOK
<1>3. job' \in [Orders -> [Levels -> Jobs]]
  <2>1. job \in [Orders -> [Levels -> Jobs]]
    BY <1>0 DEF TypeOK
  <2>2. job' = [o \in Orders |-> [l \in Levels |->
                 IF job[o][l].host = i THEN Stalled(job[o][l]) ELSE job[o][l]]]
    BY DEF Crash
  <2>3. \A o \in Orders, l \in Levels :
          (IF job[o][l].host = i THEN Stalled(job[o][l]) ELSE job[o][l]) \in Jobs
    BY <1>1, <2>1
  <2> QED
    BY <2>2, <2>3
<1>4. TypeOK'
  BY <1>0, <1>2, <1>3 DEF TypeOK, dbVars
<1>5. RequestsAreValid'
  BY <1>0 DEF RequestsAreValid, Crash, NoRequest
<1>6. PassesAreDue'
  <2>1. \A k \in Instances : sweep'[k] = NoSweep \/ sweep'[k] = sweep[k]
    BY <1>0 DEF Crash, TypeOK
  <2> QED
    BY <1>0, <2>1 DEF PassesAreDue, NoSweep, Deadline, dbVars
<1> QED
  BY <1>0, <1>4, <1>5, <1>6, QuietStep

LEMMA RedeployKeeps ==
  ASSUME LifecycleInv, NEW i \in Instances, Redeploy(i)
  PROVE  LifecycleInv'
<1>1. /\ sweep' = [sweep EXCEPT ![i] = NoSweep] /\ NoSweep \in Passes /\ PassIsDue(NoSweep)
      /\ crashes' \in Nat
      /\ UNCHANGED <<dbVars, audit, told, job, checkout, desk, clock, faults>>
  BY DEF LifecycleInv, TypeOK, Redeploy, NoSweep, Passes, PassIsDue
<1>2. /\ audit' \in [Orders -> Seq(AuditRows)] /\ told' \in [Orders -> [Notices -> Nat]]
      /\ job' \in [Orders -> [Levels -> Jobs]] /\ faults' \in Nat
  BY <1>1 DEF LifecycleInv, TypeOK
<1> QED
  BY <1>1, <1>2, QuietPass

\* Every step of the system keeps the invariant.
LEMMA LifecycleStep == LifecycleInv /\ [Next]_vars => LifecycleInv'
<1> SUFFICES ASSUME LifecycleInv, [Next]_vars PROVE LifecycleInv'
  OBVIOUS
<1>1. CASE Next
  BY <1>1, PlaceKeeps, CheckoutKeeps, RequestKeeps, DeskKeeps, SweepKeeps, JobKeeps,
     TickKeeps, CrashKeeps, RedeployKeeps
  DEF Next
<1>2. CASE UNCHANGED vars
  <2>1. UNCHANGED <<dbVars, clock>> /\ TypeOK' /\ RequestsAreValid' /\ PassesAreDue'
    BY <1>2
    DEF LifecycleInv, vars, dbVars, procVars, envVars, TypeOK, RequestsAreValid,
        PassesAreDue, Deadline
  <2> QED
    BY <2>1, QuietStep
<1> QED
  BY <1>1, <1>2

\* The invariant holds of every behaviour, whatever breaks.
THEOREM LifecycleInvariant == Spec => []LifecycleInv
<1> QED
  BY LifecycleInit, LifecycleStep, PTL DEF Spec

\* Every record holds what its schema or its handler puts in it.
THEOREM LifecycleTypeOK == Spec => []TypeOK
<1>1. LifecycleInv => TypeOK
  BY DEF LifecycleInv
<1> QED
  BY <1>1, LifecycleInvariant, PTL


-----------------------------------------------------------------------------
(***************************************************************************)
(* The refinement.  Three steps are steps of the book: the insert, the     *)
(* staff write and the sweep's write.  Every other step leaves it alone.   *)
(***************************************************************************)
LEMMA SameWords ==
  /\ Book!Placed = Placed /\ Book!Completed = Completed /\ Book!Failed = Failed
  /\ Book!NoReason = NoReason /\ Book!NotAcknowledged = NotAcknowledged
  /\ Book!StaffFailureReasons = StaffFailureReasons /\ Book!Statuses = Statuses
  /\ Book!Absent = Absent
  /\ \A s, by, reason : Book!Event(s, by, reason) = Event(s, by, reason)
  BY DEF Book!Placed, Placed, Book!Completed, Completed, Book!Failed, Failed,
         Book!NoReason, NoReason, Book!NotAcknowledged, NotAcknowledged,
         Book!StaffFailureReasons, StaffFailureReasons, Book!Statuses, Statuses,
         Book!Absent, Absent, Book!Event, Event

LEMMA PlaceImplements ==
  ASSUME LifecycleInv, NEW o \in Orders, NEW i \in Instances, Place(o, i)
  PROVE  Book!Place(o)
<1> DEFINE e == Event(Placed, System, NoReason)
<1>1. /\ status[o] = Absent /\ history[o] = <<>> /\ failureReason[o] = NoReason
      /\ history \in [Orders -> Seq(Events)]
      /\ failureReason \in [Orders -> FailureReasons \union {NoReason}]
  BY DEF LifecycleInv, BlankUntilPlaced, TypeOK, Place
<1>2. status' = [status EXCEPT ![o] = e.status]
  BY DEF Place, Event
<1>3. history' = [history EXCEPT ![o] = Append(@, e)]
  <2>1. Append(history[o], e) = <<e>>
    BY <1>1
  <2> QED
    BY <2>1 DEF Place
<1>4. payment' = [payment EXCEPT ![o] = "pending"]
  BY DEF Place
<1>5. failureReason' = [failureReason EXCEPT ![o] = NoReason]
  BY <1>1 DEF Place
<1>6. Book!Record(o, e, "pending", NoReason)
  BY <1>2, <1>3, <1>4, <1>5 DEF Book!Record
<1> QED
  BY <1>1, <1>6, SameWords DEF Book!Place

LEMMA WriteImplements ==
  ASSUME LifecycleInv, NEW d \in Desks, WriteStatus(d)
  PROVE  \E o \in Orders :
           \/ \E next \in Statuses : Book!Advance(o, d, next)
           \/ \E reason \in StaffFailureReasons : Book!Fail(o, d, reason)
<1> DEFINE r == desk[d]
           o == desk[d].order
           e == Event(r.next, d, r.reason)
<1>1. /\ r.pc = "write" /\ status[o] = r.from
      /\ status'  = [status EXCEPT ![o] = r.next]
      /\ history' = [history EXCEPT ![o] = Append(@, e)]
      /\ payment' = [payment EXCEPT ![o] = PaymentAfter(o, r.next)]
      /\ failureReason' = IF r.next = Failed
                            THEN [failureReason EXCEPT ![o] = r.reason]
                            ELSE failureReason
  BY DEF WriteStatus, StillAsRead
<1>2. /\ o \in Orders /\ r.next \in Statuses
      /\ \/ r.next = Failed /\ r.from \in Book!Open /\ r.reason \in StaffFailureReasons
         \/ /\ <<r.from, r.next>> \in Book!Forward(Fulfilment[o])
            /\ r.next # Failed /\ r.reason = NoReason
  BY <1>1 DEF LifecycleInv, RequestsAreValid
<1>3. e.status = r.next
  BY DEF Event
<1>4. /\ payment \in [Orders -> {"none", "pending", "collected"}]
      /\ failureReason \in [Orders -> FailureReasons \union {NoReason}]
  BY DEF LifecycleInv, TypeOK
<1>5. CASE r.next = Failed /\ r.from \in Book!Open /\ r.reason \in StaffFailureReasons
  <2>1. payment' = [payment EXCEPT ![o] = payment[o]]
    BY <1>1, <1>5 DEF PaymentAfter, Failed, Completed
  <2>2. Book!Record(o, e, payment[o], r.reason)
    BY <1>1, <1>3, <1>5, <2>1 DEF Book!Record
  <2>3. Book!Fail(o, d, r.reason)
    BY <1>1, <1>5, <2>2, SameWords DEF Book!Fail
  <2> QED
    BY <1>2, <1>5, <2>3
<1>6. CASE /\ <<r.from, r.next>> \in Book!Forward(Fulfilment[o])
           /\ r.next # Failed /\ r.reason = NoReason
  <2>1. failureReason' = [failureReason EXCEPT ![o] = failureReason[o]]
    BY <1>1, <1>4, <1>6
  <2>2. Book!Record(o, e, PaymentAfter(o, r.next), failureReason[o])
    BY <1>1, <1>3, <2>1 DEF Book!Record
  <2>3. Book!Advance(o, d, r.next)
    BY <1>1, <1>6, <2>2, SameWords DEF Book!Advance, PaymentAfter
  <2> QED
    BY <1>2, <2>3
<1> QED
  BY <1>2, <1>5, <1>6

LEMMA ExpireImplements ==
  ASSUME LifecycleInv, NEW i \in Instances, NEW o \in Orders, ExpireOrder(i, o)
  PROVE  Book!Expire(o)
<1> DEFINE e == Event(Failed, System, NotAcknowledged)
<1>1. /\ status[o] = Placed
      /\ status'  = [status EXCEPT ![o] = e.status]
      /\ history' = [history EXCEPT ![o] = Append(@, e)]
      /\ failureReason' = [failureReason EXCEPT ![o] = NotAcknowledged]
      /\ payment' = payment
  BY DEF ExpireOrder, Expirable, Event
<1>2. payment' = [payment EXCEPT ![o] = payment[o]]
  BY <1>1 DEF LifecycleInv, TypeOK
<1>3. Book!Record(o, e, payment[o], NotAcknowledged)
  BY <1>1, <1>2 DEF Book!Record
<1> QED
  BY <1>1, <1>3, SameWords DEF Book!Expire

LEMMA StepImplements ==
  ASSUME LifecycleInv, [Next]_vars
  PROVE  [Book!Next]_Book!bookVars
<1>1. ASSUME NEW o \in Orders, NEW i \in Instances, Place(o, i)
      PROVE  Book!Next
  BY <1>1, PlaceImplements DEF Book!Next
<1>2. ASSUME NEW o \in Orders, CheckoutStep(o)
      PROVE  UNCHANGED bookVars
  BY <1>2 DEF CheckoutStep, NotifyCustomer, NotifyBranch, ScheduleRung, dbVars, bookVars
<1>3. ASSUME NEW d \in Desks, Request(d)
      PROVE  UNCHANGED bookVars
  BY <1>3 DEF Request, ReadOrder, dbVars, bookVars
<1>4. ASSUME NEW d \in Desks, DeskStep(d)
      PROVE  Book!Next \/ UNCHANGED bookVars
  <2>1. CASE WriteStatus(d)
    BY <2>1, WriteImplements, SameWords DEF Book!Next
  <2>2. CASE LoseRace(d) \/ WriteFails(d) \/ AuditMove(d)
    BY <2>2 DEF LoseRace, WriteFails, AuditMove, dbVars, bookVars
  <2>3. CASE NotifyMove(d) \/ \E l \in Levels : CancelAfterMove(d, l)
    BY <2>3 DEF NotifyMove, CancelAfterMove, dbVars, bookVars
  <2> QED
    BY <1>4, <2>1, <2>2, <2>3 DEF DeskStep
<1>5. ASSUME NEW i \in Instances, SweepStep(i)
      PROVE  Book!Next \/ UNCHANGED bookVars
  <2>1. ASSUME NEW o \in Orders, ExpireOrder(i, o)
        PROVE  Book!Next
    BY <2>1, ExpireImplements DEF Book!Next
  <2>2. CASE StartSweep(i) \/ \E o \in Orders : SkipOrder(i, o)
    BY <2>2 DEF StartSweep, SkipOrder, dbVars, bookVars
  <2>3. CASE AuditExpiry(i) \/ MailApology(i) \/ NotifyExpired(i)
    BY <2>3 DEF AuditExpiry, MailApology, NotifyExpired, dbVars, bookVars
  <2>4. CASE \E l \in Levels : CancelAfterExpiry(i, l)
    BY <2>4 DEF CancelAfterExpiry, dbVars, bookVars
  <2> QED
    BY <1>5, <2>1, <2>2, <2>3, <2>4 DEF SweepStep
<1>6. ASSUME NEW o \in Orders, NEW l \in Levels, JobStep(o, l)
      PROVE  UNCHANGED bookVars
  BY <1>6 DEF JobStep, PickJob, PickFails, SendChase, FinishJob, FinishFails, dbVars, bookVars
<1>7. ASSUME NEW i \in Instances, Crash(i) \/ Redeploy(i)
      PROVE  UNCHANGED bookVars
  BY <1>7 DEF Crash, Redeploy, dbVars, bookVars
<1>8. CASE Tick
  BY <1>8 DEF Tick, dbVars, Book!bookVars
<1>9. CASE UNCHANGED vars
  BY <1>9 DEF vars, dbVars, Book!bookVars
<1>10. UNCHANGED bookVars => UNCHANGED Book!bookVars
  BY DEF Book!bookVars, bookVars
<1> QED
  BY <1>1, <1>2, <1>3, <1>4, <1>5, <1>6, <1>7, <1>8, <1>9, <1>10 DEF Next

\* Seen from outside, the order documents behave like the book: whatever handlers,
\* sweeps, workers and dead processes do in between, each of them moves along the
\* diagram in indivisible steps.
THEOREM LifecycleImplementsBook == Spec => ImplementsBook
<1>1. Init => Book!Init
  BY SameWords DEF Init, Book!Init
<1>2. LifecycleInv /\ [Next]_vars => [Book!Next]_Book!bookVars
  BY StepImplements
<1> QED
  BY <1>1, <1>2, LifecycleInvariant, PTL DEF Spec, ImplementsBook, Book!Spec


(***************************************************************************)
(* What the book promises therefore holds of the system, with the deadline *)
(* the book does not know.                                                 *)
(***************************************************************************)
BookFacts == INSTANCE OrderBookProofs WITH Actors <- Desks

\* The book of the theorems is the book of the refinement.
LEMMA SameBook ==
  /\ Book!Init => BookFacts!Init
  /\ [Book!Next]_Book!bookVars => [BookFacts!Next]_BookFacts!bookVars
  /\ BookFacts!HistoryIsPath => HistoryIsPath
  /\ BookFacts!ExpiredWasNeverTouched => Book!ExpiredWasNeverTouched
<1>1. Book!Init => BookFacts!Init
  BY DEF Book!Init, BookFacts!Init, Book!Absent, BookFacts!Absent, Book!NoReason,
         BookFacts!NoReason
<1>2. [Book!Next]_Book!bookVars => [BookFacts!Next]_BookFacts!bookVars
  BY DEF
    Book!Next, BookFacts!Next, Book!bookVars, BookFacts!bookVars, Book!Place,
    BookFacts!Place, Book!Advance, BookFacts!Advance, Book!Fail, BookFacts!Fail,
    Book!Expire, BookFacts!Expire, Book!Record, BookFacts!Record, Book!Event,
    BookFacts!Event, Book!Forward, BookFacts!Forward, Book!Open, BookFacts!Open,
    Book!Placed, BookFacts!Placed, Book!Completed, BookFacts!Completed,
    Book!Failed, BookFacts!Failed, Book!Absent, BookFacts!Absent, Book!NoReason,
    BookFacts!NoReason, Book!NotAcknowledged, BookFacts!NotAcknowledged,
    Book!Statuses, BookFacts!Statuses, Book!StaffFailureReasons,
    BookFacts!StaffFailureReasons
<1>3. BookFacts!HistoryIsPath => HistoryIsPath
  BY DEF HistoryIsPath,
    Book!HistoryIsPath, BookFacts!HistoryIsPath, Book!Edges, BookFacts!Edges,
    Book!Forward, BookFacts!Forward, Book!Open, BookFacts!Open, Book!Placed,
    BookFacts!Placed, Book!Completed, BookFacts!Completed, Book!Failed,
    BookFacts!Failed, Book!Absent, BookFacts!Absent
<1>4. BookFacts!ExpiredWasNeverTouched => Book!ExpiredWasNeverTouched
  BY DEF
    Book!ExpiredWasNeverTouched, BookFacts!ExpiredWasNeverTouched, Book!Event,
    BookFacts!Event, Book!Placed, BookFacts!Placed, Book!Failed, BookFacts!Failed,
    Book!NoReason, BookFacts!NoReason, Book!NotAcknowledged,
    BookFacts!NotAcknowledged
<1> QED
  BY <1>1, <1>2, <1>3, <1>4

\* No two handlers ever make the history of an order leave the diagram.
THEOREM LifecycleHistoryIsPath == Spec => []HistoryIsPath
<1>1. Spec => BookFacts!Spec
  BY LifecycleImplementsBook, SameBook, PTL
  DEF ImplementsBook, Book!Spec, BookFacts!Spec
<1>2. BookFacts!Spec => []BookFacts!HistoryIsPath
  BY BookFacts!BookHistoryIsPath
<1> QED
  BY <1>1, <1>2, SameBook, PTL


\* No order is cancelled after somebody accepted it, and none before its deadline.
THEOREM LifecycleNoAcceptedOrderExpires == Spec => []NoAcceptedOrderExpires
<1>1. Spec => BookFacts!Spec
  BY LifecycleImplementsBook, SameBook, PTL
  DEF ImplementsBook, Book!Spec, BookFacts!Spec
<1>2. BookFacts!Spec => []BookFacts!ExpiredWasNeverTouched
  BY BookFacts!BookExpiredWasNeverTouched
<1>3. LifecycleInv /\ Book!ExpiredWasNeverTouched => NoAcceptedOrderExpires
  BY DEF LifecycleInv, ExpiredWhenDue, NoAcceptedOrderExpires
<1> QED
  BY <1>1, <1>2, <1>3, SameBook, LifecycleInvariant, PTL

-----------------------------------------------------------------------------
(***************************************************************************)
(* The trail.  Statuses only rise in the diagram, so the status an order   *)
(* is in was never left before, and the move out of it is a new one.       *)
(***************************************************************************)
Rank(s) ==
  CASE s = Placed      -> 1
    [] s = "confirmed" -> 2
    [] s = "preparing" -> 3
    [] s \in HandoverSet -> 4
    [] OTHER           -> 5

\* The moves a history tells of, and the rows a trail holds.
MovesOf(h) == {Move(h[k].status, h[k + 1].status, h[k + 1].by) : k \in 1 .. (Len(h) - 1)}
RowsOf(s)  == {s[k] : k \in 1 .. Len(s)}

\* The moves of o that have no row.
Unwritten(o) == MovesOf(history[o]) \ RowsOf(audit[o])
ExpiryRow    == Move(Placed, Failed, System)

\* The move m of o has a handler that is about to write its row.
DeskHolds(d, o, m)  == desk[d].pc = "audit" /\ desk[d].order = o /\ m = RowOf(d)
SweepHolds(i, o)    == sweep[i].pc = "audit" /\ sweep[i].order = o
Pending(o, m) ==
  \/ \E d \in Desks : DeskHolds(d, o, m)
  \/ m = ExpiryRow /\ \E i \in Instances : SweepHolds(i, o)

MovesRise == \A o \in Orders : \A m \in MovesOf(history[o]) : Rank(m.from) < Rank(status[o])

RowsAreMoves ==
  \A o \in Orders :
    /\ RowsOf(audit[o]) \subseteq MovesOf(history[o])
    /\ \A k, l \in 1 .. Len(audit[o]) : audit[o][k] = audit[o][l] => k = l

\* A row that is about to be written is of a move, and was not written before.
RowsAreDue ==
  \A o \in Orders :
    /\ \A d \in Desks : \A m : DeskHolds(d, o, m) => m \in Unwritten(o)
    /\ \A i \in Instances : SweepHolds(i, o) => ExpiryRow \in Unwritten(o)
    /\ \A i, j \in Instances : SweepHolds(i, o) /\ SweepHolds(j, o) => i = j

NothingBroke == faults = 0 /\ crashes = 0

NoRowIsMissing ==
  NothingBroke => \A o \in Orders : \A m \in Unwritten(o) : Pending(o, m)

TrailInv == MovesRise /\ RowsAreMoves /\ RowsAreDue /\ NoRowIsMissing

-----------------------------------------------------------------------------
LEMMA RankIsNat == \A s : Rank(s) \in Nat
  BY DEF Rank

\* Along the diagram the rank rises.
LEMMA ForwardRises ==
  ASSUME NEW s, NEW next, NEW f \in Fulfilments, <<s, next>> \in Book!Forward(f)
  PROVE  Rank(s) < Rank(next)
<1>1. \/ s = "placed" /\ next = "confirmed"
      \/ s = "confirmed" /\ next = "preparing"
      \/ s = "preparing" /\ next \in HandoverSet
      \/ s \in HandoverSet /\ next = "completed"
  BY DEF Book!Forward, Book!Placed, Book!Completed, HandoverSet, Fulfilments
<1> QED
  BY <1>1 DEF Rank, HandoverSet, Placed

LEMMA FailingRises ==
  ASSUME NEW s \in Book!Open
  PROVE  Rank(s) < Rank(Failed)
  BY DEF Book!Open, Book!Placed, Rank, HandoverSet, Placed, Failed

\* One more event in a history is one more move.
LEMMA OneMoreMove ==
  ASSUME NEW h \in Seq(Events), NEW e \in Events, Len(h) > 0
  PROVE  MovesOf(Append(h, e))
           = MovesOf(h) \union {Move(h[Len(h)].status, e.status, e.by)}
<1> DEFINE g == Append(h, e)
<1>1. /\ Len(g) = Len(h) + 1 /\ Len(h) \in Nat
      /\ \A k \in 1 .. Len(h) : g[k] = h[k]
      /\ g[Len(h) + 1] = e
  OBVIOUS
<1> HIDE DEF g
<1>2. ASSUME NEW k \in 1 .. (Len(g) - 1)
      PROVE  Move(g[k].status, g[k + 1].status, g[k + 1].by)
               \in MovesOf(h) \union {Move(h[Len(h)].status, e.status, e.by)}
  <2>1. CASE k = Len(h)
    BY <1>1, <2>1
  <2>2. CASE k # Len(h)
    <3>1. k \in 1 .. (Len(h) - 1) /\ g[k] = h[k] /\ g[k + 1] = h[k + 1]
      BY <1>1, <2>2
    <3> QED
      BY <3>1 DEF MovesOf
  <2> QED
    BY <2>1, <2>2
<1>3. ASSUME NEW k \in 1 .. (Len(h) - 1)
      PROVE  Move(h[k].status, h[k + 1].status, h[k + 1].by) \in MovesOf(g)
  <2>1. k \in 1 .. (Len(g) - 1) /\ g[k] = h[k] /\ g[k + 1] = h[k + 1]
    BY <1>1
  <2> QED
    BY <2>1 DEF MovesOf
<1>4. Move(h[Len(h)].status, e.status, e.by) \in MovesOf(g)
  <2>1. Len(h) \in 1 .. (Len(g) - 1) /\ g[Len(h)] = h[Len(h)]
    BY <1>1
  <2> QED
    BY <1>1, <2>1 DEF MovesOf
<1>5. MovesOf(g) = MovesOf(h) \union {Move(h[Len(h)].status, e.status, e.by)}
  <2>1. MovesOf(g) \subseteq MovesOf(h) \union {Move(h[Len(h)].status, e.status, e.by)}
    BY <1>2 DEF MovesOf
  <2>2. MovesOf(h) \subseteq MovesOf(g)
    BY <1>3 DEF MovesOf
  <2> QED
    BY <1>4, <2>1, <2>2
<1> QED
  BY <1>5 DEF g

\* One more row, and none of them twice.
LEMMA OneMoreRow ==
  ASSUME NEW s \in Seq(AuditRows), NEW row \in AuditRows
  PROVE  /\ RowsOf(Append(s, row)) = RowsOf(s) \union {row}
         /\ row \notin RowsOf(s) /\ (\A k, l \in 1 .. Len(s) : s[k] = s[l] => k = l)
            => \A k, l \in 1 .. Len(Append(s, row)) :
                 Append(s, row)[k] = Append(s, row)[l] => k = l
<1> DEFINE g == Append(s, row)
<1>1. /\ Len(g) = Len(s) + 1 /\ Len(s) \in Nat
      /\ \A k \in 1 .. Len(s) : g[k] = s[k]
      /\ g[Len(s) + 1] = row
  OBVIOUS
<1> HIDE DEF g
<1>2. RowsOf(g) = RowsOf(s) \union {row}
  BY <1>1 DEF RowsOf
<1>3. ASSUME row \notin RowsOf(s), \A k, l \in 1 .. Len(s) : s[k] = s[l] => k = l,
             NEW k \in 1 .. Len(g), NEW l \in 1 .. Len(g), g[k] = g[l]
      PROVE  k = l
  BY <1>1, <1>3 DEF RowsOf
<1> QED
  BY <1>2, <1>3 DEF g
-----------------------------------------------------------------------------
\* The order moves: one move is new, and none is lost.
LEMMA OrderMoves ==
  ASSUME TypeOK, HistoryIsPath, MovesRise,
         NEW o \in Orders, NEW e \in Events, status[o] # Absent,
         Rank(status[o]) < Rank(e.status),
         status'  = [status EXCEPT ![o] = e.status],
         history' = [history EXCEPT ![o] = Append(@, e)]
  PROVE  /\ MovesOf(history'[o]) = MovesOf(history[o]) \union {Move(status[o], e.status, e.by)}
         /\ Move(status[o], e.status, e.by) \notin MovesOf(history[o])
         /\ \A p \in Orders : p # o => MovesOf(history'[p]) = MovesOf(history[p])
         /\ MovesRise'
<1> DEFINE m == Move(status[o], e.status, e.by)
<1>1. /\ history \in [Orders -> Seq(Events)] /\ status \in [Orders -> Statuses \union {Absent}]
      /\ history[o] \in Seq(Events)
      /\ Len(history[o]) > 0 /\ history[o][Len(history[o])].status = status[o]
  BY DEF TypeOK, HistoryIsPath, Book!HistoryIsPath, Book!Absent, Absent
<1>3. history'[o] = Append(history[o], e) /\ \A p \in Orders : p # o => history'[p] = history[p]
  BY <1>1
<1>4. MovesOf(history'[o]) = MovesOf(history[o]) \union {m}
  BY <1>1, <1>3, OneMoreMove
<1>5. \A p \in Orders : p # o => MovesOf(history'[p]) = MovesOf(history[p])
  BY <1>3
<1>6. m \notin MovesOf(history[o])
  BY RankIsNat DEF MovesRise, Move
<1>7. ASSUME NEW p \in Orders, NEW n \in MovesOf(history'[p])
      PROVE  Rank(n.from) < Rank(status'[p])
  <2>1. CASE p = o /\ n = m
    <3>1. m.from = status[o] /\ status'[o] = e.status
      BY <1>1 DEF Move
    <3> QED
      BY <2>1, <3>1
  <2>2. CASE p = o /\ n # m
    <3>1. n \in MovesOf(history[o]) /\ status'[o] = e.status
      BY <1>1, <1>4, <1>7, <2>2
    <3>2. Rank(n.from) < Rank(status[o])
      BY <3>1 DEF MovesRise
    <3> QED
      BY <2>2, <3>1, <3>2, RankIsNat
  <2>3. CASE p # o
    <3>1. n \in MovesOf(history[p]) /\ status'[p] = status[p]
      BY <1>1, <1>5, <1>7, <2>3
    <3> QED
      BY <3>1 DEF MovesRise
  <2> QED
    BY <2>1, <2>2, <2>3
<1>8. MovesRise'
  BY <1>7 DEF MovesRise
<1> QED
  BY <1>4, <1>5, <1>6, <1>8 DEF m

\* What a step does to those who are about to write a row, when it writes none and
\* moves no order: they stay, and are lost only when something breaks.
AuditorsStay ==
  /\ \A d \in Desks :
       /\ desk'[d].pc = "audit" => desk'[d] = desk[d]
       /\ NothingBroke' /\ desk[d].pc = "audit" => desk'[d] = desk[d]
  /\ \A i \in Instances :
       /\ sweep'[i].pc = "audit" => sweep[i].pc = "audit" /\ sweep'[i].order = sweep[i].order
       /\ NothingBroke' /\ sweep[i].pc = "audit" =>
            sweep'[i].pc = "audit" /\ sweep'[i].order = sweep[i].order

LEMMA AuditorsKeep ==
  ASSUME AuditorsStay
  PROVE  /\ \A d \in Desks, o \in Orders : \A m :
              /\ DeskHolds(d, o, m)' => DeskHolds(d, o, m)
              /\ NothingBroke' /\ DeskHolds(d, o, m) => DeskHolds(d, o, m)'
         /\ \A i \in Instances, o \in Orders :
              /\ SweepHolds(i, o)' => SweepHolds(i, o)
              /\ NothingBroke' /\ SweepHolds(i, o) => SweepHolds(i, o)'
  BY DEF AuditorsStay, DeskHolds, SweepHolds, RowOf

LEMMA TrailRests ==
  ASSUME TrailInv, UNCHANGED <<status, history, audit>>, AuditorsStay,
         NothingBroke' => NothingBroke
  PROVE  TrailInv'
<1>1. /\ MovesRise /\ RowsAreMoves /\ RowsAreDue /\ NoRowIsMissing
      /\ \A o : Unwritten(o)' = Unwritten(o)
  BY DEF TrailInv, Unwritten
<1>2. MovesRise' /\ RowsAreMoves'
  BY <1>1 DEF MovesRise, RowsAreMoves
<1>3. RowsAreDue'
  BY <1>1, AuditorsKeep DEF RowsAreDue, ExpiryRow
<1>4. NoRowIsMissing'
  BY <1>1, AuditorsKeep DEF NoRowIsMissing, Pending, ExpiryRow
<1> QED
  BY <1>2, <1>3, <1>4 DEF TrailInv
-----------------------------------------------------------------------------
LEMMA BreaksIsBreaking ==
  ASSUME TypeOK, Succeeds \/ Breaks, UNCHANGED crashes, NothingBroke'
  PROVE  NothingBroke /\ Succeeds /\ ~Breaks
  BY DEF TypeOK, Succeeds, Breaks, NothingBroke

\* An order is stored: its history has no move yet.
LEMMA PlaceTrail ==
  ASSUME LifecycleInv, TrailInv, NEW o \in Orders, NEW i \in Instances, Place(o, i)
  PROVE  TrailInv'
<1> DEFINE e == Event(Placed, System, NoReason)
<1>1. /\ MovesRise /\ RowsAreMoves /\ RowsAreDue /\ NoRowIsMissing
      /\ history[o] = <<>> /\ status[o] = Absent
      /\ history \in [Orders -> Seq(Events)] /\ status \in [Orders -> Statuses \union {Absent}]
      /\ history' = [history EXCEPT ![o] = <<e>>]
      /\ status' = [status EXCEPT ![o] = Placed]
      /\ UNCHANGED <<audit, desk, sweep, faults, crashes>>
  BY DEF TrailInv, LifecycleInv, TypeOK, BlankUntilPlaced, Place, envVars
<1>2. MovesOf(history[o]) = {} /\ MovesOf(history'[o]) = {}
  <2>1. history'[o] = <<e>> /\ Len(<<e>>) = 1 /\ Len(<<>>) = 0
    BY <1>1
  <2> QED
    BY <1>1, <2>1 DEF MovesOf
<1>3. \A p \in Orders : MovesOf(history'[p]) = MovesOf(history[p])
  <2>1. \A p \in Orders : p # o => history'[p] = history[p]
    BY <1>1
  <2> QED
    BY <1>2, <2>1
<1>4. MovesRise'
  <2>1. \A p \in Orders : p # o => status'[p] = status[p]
    BY <1>1
  <2> QED
    BY <1>1, <1>2, <1>3, <2>1 DEF MovesRise
<1>5. RowsAreMoves'
  BY <1>1, <1>3 DEF RowsAreMoves
<1>6. /\ \A p \in Orders : Unwritten(p)' = Unwritten(p)
      /\ \A d, p, m : DeskHolds(d, p, m)' = DeskHolds(d, p, m)
      /\ \A j, p : SweepHolds(j, p)' = SweepHolds(j, p)
  BY <1>1, <1>3 DEF Unwritten, DeskHolds, SweepHolds, RowOf
<1>7. RowsAreDue'
  BY <1>1, <1>6 DEF RowsAreDue, ExpiryRow
<1>8. NoRowIsMissing'
  BY <1>1, <1>6 DEF NoRowIsMissing, NothingBroke, Pending, ExpiryRow
<1> QED
  BY <1>4, <1>5, <1>7, <1>8 DEF TrailInv

\* A staff request moves the order, and goes on to write the row of that move.
LEMMA WriteTrail ==
  ASSUME LifecycleInv, HistoryIsPath, TrailInv, NEW d \in Desks, WriteStatus(d)
  PROVE  TrailInv'
<1>0. /\ TypeOK /\ RequestsAreValid /\ desk \in [Desks -> Requests]
      /\ MovesRise /\ RowsAreMoves /\ RowsAreDue /\ NoRowIsMissing
  BY DEF LifecycleInv, TypeOK, TrailInv
<1>1. PICK r \in Requests : r = desk[d]
  BY <1>0
<1>2. PICK o \in Orders : o = r.order /\ r.from \in Statuses /\ r.next \in Statuses
  BY <1>0, <1>1 DEF RequestsAreValid, WriteStatus
<1> DEFINE e == Event(r.next, d, r.reason)
           m == Move(r.from, r.next, d)
<1>3. /\ r.pc = "write" /\ status[o] = r.from
      /\ status'  = [status EXCEPT ![o] = r.next]
      /\ history' = [history EXCEPT ![o] = Append(@, e)]
      /\ UNCHANGED <<audit, sweep, crashes>>
      /\ \/ Succeeds /\ desk' = [desk EXCEPT ![d].pc = "audit"]
         \/ Breaks /\ desk' = [desk EXCEPT ![d] = NoRequest]
  BY <1>1, <1>2 DEF WriteStatus, StillAsRead
<1>4. \/ r.next = Failed /\ r.from \in Book!Open /\ r.reason \in StaffFailureReasons
      \/ /\ <<r.from, r.next>> \in Book!Forward(Fulfilment[o])
         /\ r.next # Failed /\ r.reason = NoReason
  BY <1>0, <1>1, <1>2, <1>3 DEF RequestsAreValid
<1>5. Rank(r.from) < Rank(r.next)
  <2>1. Fulfilment[o] \in Fulfilments
    BY ConstantsAssumption
  <2> QED
    BY <1>4, <2>1, ForwardRises, FailingRises
<1>6. e \in Events /\ e.status = r.next /\ e.by = d
  BY <1>2, <1>4 DEF Event, Events, FailureReasons
<1>7. status[o] # Absent
  BY <1>2, <1>3 DEF Statuses, Absent, Placed, Completed, Failed
<1>8. /\ MovesOf(history'[o]) = MovesOf(history[o]) \union {m} /\ m \notin MovesOf(history[o])
      /\ \A p \in Orders : p # o => MovesOf(history'[p]) = MovesOf(history[p])
      /\ MovesRise'
  <2>1. status' = [status EXCEPT ![o] = e.status] /\ Rank(status[o]) < Rank(e.status)
    BY <1>3, <1>5, <1>6
  <2>2. Move(status[o], e.status, e.by) = m
    BY <1>3, <1>6
  <2> HIDE DEF e, m
  <2> QED
    BY <1>0, <1>3, <1>6, <1>7, <2>1, <2>2, OrderMoves
<1> HIDE DEF e
<1>9. RowsAreMoves'
  BY <1>0, <1>3, <1>8 DEF RowsAreMoves
<1>10. /\ Unwritten(o)' = Unwritten(o) \union {m}
       /\ \A p \in Orders : p # o => Unwritten(p)' = Unwritten(p)
  <2>1. m \notin RowsOf(audit[o])
    BY <1>0, <1>8 DEF RowsAreMoves
  <2> QED
    BY <1>3, <1>8, <2>1 DEF Unwritten
<1>11. /\ \A j, p : SweepHolds(j, p)' = SweepHolds(j, p)
       /\ \A k \in Desks, p \in Orders : \A n :
            /\ k # d => DeskHolds(k, p, n)' = DeskHolds(k, p, n)
            /\ DeskHolds(d, p, n)' => p = o /\ n = m
            /\ ~DeskHolds(d, p, n)
  <2>1. \A k \in Desks : k # d => desk'[k] = desk[k]
    BY <1>0, <1>3
  <2>2. \/ desk'[d] = [r EXCEPT !.pc = "audit"]
        \/ desk'[d] = NoRequest
    BY <1>0, <1>1, <1>3
  <2>3. desk'[d].pc = "audit" => /\ desk'[d].order = o /\ desk'[d].from = r.from
                                 /\ desk'[d].next = r.next
    BY <1>1, <1>2, <2>2 DEF NoRequest, Requests
  <2> QED
    BY <1>1, <1>3, <2>1, <2>3 DEF DeskHolds, SweepHolds, RowOf
<1>12. NothingBroke' => NothingBroke /\ DeskHolds(d, o, m)'
  <2>1. ASSUME NothingBroke' PROVE NothingBroke /\ desk' = [desk EXCEPT ![d].pc = "audit"]
    BY <1>0, <1>3, <2>1, BreaksIsBreaking
  <2>2. desk' = [desk EXCEPT ![d].pc = "audit"] => DeskHolds(d, o, m)'
    BY <1>0, <1>1, <1>2 DEF DeskHolds, RowOf, Requests
  <2> QED
    BY <2>1, <2>2
<1> HIDE DEF m
<1>13. RowsAreDue'
  <2>1. ASSUME NEW p \in Orders, NEW k \in Desks, NEW n, DeskHolds(k, p, n)'
        PROVE  n \in Unwritten(p)'
    <3>1. CASE k = d
      BY <1>10, <1>11, <2>1, <3>1
    <3>2. CASE k # d
      BY <1>0, <1>10, <1>11, <2>1, <3>2 DEF RowsAreDue
    <3> QED
      BY <3>1, <3>2
  <2>2. ASSUME NEW p \in Orders, NEW j \in Instances, SweepHolds(j, p)'
        PROVE  ExpiryRow \in Unwritten(p)'
    BY <1>0, <1>10, <1>11, <2>2 DEF RowsAreDue
  <2> QED
    BY <1>0, <1>11, <2>1, <2>2 DEF RowsAreDue, ExpiryRow
<1>14. NoRowIsMissing'
  <2>1. ASSUME NothingBroke', NEW p \in Orders, NEW n \in Unwritten(p)'
        PROVE  Pending(p, n)'
    <3>1. CASE p = o /\ n = m
      BY <1>12, <2>1, <3>1 DEF Pending
    <3>2. CASE ~(p = o /\ n = m)
      <4>1. n \in Unwritten(p) /\ NothingBroke
        BY <1>10, <1>12, <2>1, <3>2
      <4>2. Pending(p, n)
        BY <1>0, <4>1 DEF NoRowIsMissing
      <4> QED
        BY <1>11, <4>2 DEF Pending, ExpiryRow
    <3> QED
      BY <3>1, <3>2
  <2> QED
    BY <2>1 DEF NoRowIsMissing
<1> QED
  BY <1>8, <1>9, <1>13, <1>14 DEF TrailInv

\* The sweep fails the order, and goes on to write the row of that move.
LEMMA ExpireTrail ==
  ASSUME LifecycleInv, HistoryIsPath, TrailInv, NEW i \in Instances, NEW o \in Orders,
         ExpireOrder(i, o)
  PROVE  TrailInv'
<1> DEFINE e == Event(Failed, System, NotAcknowledged)
           at == [pc |-> "audit", todo |-> sweep[i].todo \ {o}, order |-> o,
                  left |-> Levels]
<1>0. /\ TypeOK /\ sweep \in [Instances -> Passes]
      /\ MovesRise /\ RowsAreMoves /\ RowsAreDue /\ NoRowIsMissing
  BY DEF LifecycleInv, TypeOK, TrailInv
<1>1. /\ sweep[i].pc = "write" /\ status[o] = Placed
      /\ status'  = [status EXCEPT ![o] = Failed]
      /\ history' = [history EXCEPT ![o] = Append(@, e)]
      /\ UNCHANGED <<audit, desk, crashes>>
      /\ \/ Succeeds /\ sweep' = [sweep EXCEPT ![i] = at]
         \/ Breaks /\ sweep' = [sweep EXCEPT ![i] = NextInPass(sweep[i].todo \ {o})]
  BY <1>0 DEF ExpireOrder, Expirable
<1>2. e \in Events /\ e.status = Failed /\ e.by = System
  BY DEF Event, Events, Statuses, FailureReasons
<1>3. status[o] # Absent /\ Rank(status[o]) < Rank(Failed)
  BY <1>1 DEF Rank, Placed, Failed, Absent, HandoverSet
<1>4. /\ MovesOf(history'[o]) = MovesOf(history[o]) \union {ExpiryRow}
      /\ ExpiryRow \notin MovesOf(history[o])
      /\ \A p \in Orders : p # o => MovesOf(history'[p]) = MovesOf(history[p])
      /\ MovesRise'
  <2>1. status' = [status EXCEPT ![o] = e.status] /\ Rank(status[o]) < Rank(e.status)
    BY <1>1, <1>2, <1>3
  <2>2. Move(status[o], e.status, e.by) = ExpiryRow
    BY <1>1, <1>2 DEF ExpiryRow
  <2> HIDE DEF e
  <2> QED
    BY <1>0, <1>1, <1>2, <1>3, <2>1, <2>2, OrderMoves
<1> HIDE DEF e
<1>5. RowsAreMoves'
  BY <1>0, <1>1, <1>4 DEF RowsAreMoves
<1>6. /\ Unwritten(o)' = Unwritten(o) \union {ExpiryRow} /\ ExpiryRow \notin Unwritten(o)
      /\ \A p \in Orders : p # o => Unwritten(p)' = Unwritten(p)
  <2>1. ExpiryRow \notin RowsOf(audit[o])
    BY <1>0, <1>4 DEF RowsAreMoves
  <2> QED
    BY <1>1, <1>4, <2>1 DEF Unwritten
<1>7. /\ \A d, p, m : DeskHolds(d, p, m)' = DeskHolds(d, p, m)
      /\ \A j \in Instances, p \in Orders :
           /\ j # i => SweepHolds(j, p)' = SweepHolds(j, p)
           /\ SweepHolds(i, p)' => p = o
           /\ ~SweepHolds(i, p)
  <2>1. \A j \in Instances : j # i => sweep'[j] = sweep[j]
    BY <1>0, <1>1
  <2>2. sweep'[i] = at \/ sweep'[i] = NextInPass(sweep[i].todo \ {o})
    BY <1>0, <1>1
  <2>3. sweep'[i].pc = "audit" => sweep'[i].order = o
    <3>1. \A todo : NextInPass(todo).pc # "audit"
      BY DEF NextInPass, NoSweep
    <3>2. at.order = o
      OBVIOUS
    <3> HIDE DEF at
    <3> QED
      BY <2>2, <3>1, <3>2
  <2> QED
    BY <1>1, <2>1, <2>3 DEF DeskHolds, SweepHolds, RowOf
<1>8. NothingBroke' => NothingBroke /\ SweepHolds(i, o)'
  <2>1. ASSUME NothingBroke' PROVE NothingBroke /\ sweep' = [sweep EXCEPT ![i] = at]
    BY <1>0, <1>1, <2>1, BreaksIsBreaking
  <2>2. sweep' = [sweep EXCEPT ![i] = at] => SweepHolds(i, o)'
    BY <1>0 DEF SweepHolds
  <2> QED
    BY <2>1, <2>2
<1>9. RowsAreDue'
  <2>1. ASSUME NEW p \in Orders, NEW k \in Desks, NEW n, DeskHolds(k, p, n)'
        PROVE  n \in Unwritten(p)'
    BY <1>0, <1>6, <1>7, <2>1 DEF RowsAreDue
  <2>2. ASSUME NEW p \in Orders, NEW j \in Instances, SweepHolds(j, p)'
        PROVE  ExpiryRow \in Unwritten(p)'
    BY <1>0, <1>6, <1>7, <2>2 DEF RowsAreDue
  <2>3. ASSUME NEW p \in Orders, NEW j \in Instances, NEW k \in Instances,
               SweepHolds(j, p)', SweepHolds(k, p)'
        PROVE  j = k
    BY <1>0, <1>6, <1>7, <2>3 DEF RowsAreDue
  <2> QED
    BY <2>1, <2>2, <2>3 DEF RowsAreDue, ExpiryRow
<1>10. NoRowIsMissing'
  <2>1. ASSUME NothingBroke', NEW p \in Orders, NEW n \in Unwritten(p)'
        PROVE  Pending(p, n)'
    <3>1. CASE p = o /\ n = ExpiryRow
      BY <1>8, <2>1, <3>1 DEF Pending, ExpiryRow
    <3>2. CASE ~(p = o /\ n = ExpiryRow)
      <4>1. n \in Unwritten(p) /\ NothingBroke
        BY <1>6, <1>8, <2>1, <3>2
      <4>2. Pending(p, n)
        BY <1>0, <4>1 DEF NoRowIsMissing
      <4> QED
        BY <1>7, <4>2 DEF Pending, ExpiryRow
    <3> QED
      BY <3>1, <3>2
  <2> QED
    BY <2>1 DEF NoRowIsMissing
<1> QED
  BY <1>4, <1>5, <1>9, <1>10 DEF TrailInv

\* A row is written: it is no longer missing, and nobody else was to write it.
LEMMA RowIsWritten ==
  ASSUME TypeOK, TrailInv, NEW o \in Orders, NEW row \in AuditRows, row \in Unwritten(o),
         WriteAudit(o, row), UNCHANGED <<status, history, crashes>>,
         \A d \in Desks, p \in Orders : \A m :
           DeskHolds(d, p, m)' => DeskHolds(d, p, m) /\ ~(p = o /\ m = row),
         \A i \in Instances, p \in Orders :
           SweepHolds(i, p)' => SweepHolds(i, p) /\ ~(p = o /\ ExpiryRow = row),
         \A d \in Desks, p \in Orders : \A m :
           DeskHolds(d, p, m) /\ ~(p = o /\ m = row) => DeskHolds(d, p, m)',
         \A i \in Instances, p \in Orders :
           SweepHolds(i, p) /\ ~(p = o /\ ExpiryRow = row) => SweepHolds(i, p)'
  PROVE  TrailInv'
<1>0. /\ MovesRise /\ RowsAreMoves /\ RowsAreDue /\ NoRowIsMissing
      /\ audit \in [Orders -> Seq(AuditRows)] /\ audit[o] \in Seq(AuditRows)
  BY DEF TypeOK, TrailInv
<1>1. MovesRise'
  BY <1>0 DEF MovesRise
<1>2. (Succeeds \/ Breaks)
      /\ \/ audit' = [audit EXCEPT ![o] = Append(@, row)] /\ Succeeds
         \/ UNCHANGED audit /\ Breaks
  BY DEF WriteAudit
<1>3. CASE audit' = [audit EXCEPT ![o] = Append(@, row)] /\ Succeeds
  <2>1. /\ audit'[o] = Append(audit[o], row)
        /\ \A p \in Orders : p # o => audit'[p] = audit[p]
    BY <1>0, <1>3
  <2>2. row \notin RowsOf(audit[o]) /\ row \in MovesOf(history[o])
    BY DEF Unwritten
  <2>3. \A k, l \in 1 .. Len(audit[o]) : audit[o][k] = audit[o][l] => k = l
    BY <1>0 DEF RowsAreMoves
  <2>4. /\ RowsOf(audit'[o]) = RowsOf(audit[o]) \union {row}
        /\ \A k, l \in 1 .. Len(audit'[o]) : audit'[o][k] = audit'[o][l] => k = l
    BY <1>0, <2>1, <2>2, <2>3, OneMoreRow
  <2>5. RowsAreMoves'
    <3>1. ASSUME NEW p \in Orders
          PROVE  /\ RowsOf(audit'[p]) \subseteq MovesOf(history[p])
                 /\ \A k, l \in 1 .. Len(audit'[p]) : audit'[p][k] = audit'[p][l] => k = l
      BY <1>0, <2>1, <2>2, <2>4 DEF RowsAreMoves
    <3> QED
      BY <3>1 DEF RowsAreMoves
  <2>6. /\ Unwritten(o)' = Unwritten(o) \ {row}
        /\ \A p \in Orders : p # o => Unwritten(p)' = Unwritten(p)
    BY <2>1, <2>4 DEF Unwritten
  <2>7. RowsAreDue'
    <3>1. ASSUME NEW p \in Orders, NEW k \in Desks, NEW n, DeskHolds(k, p, n)'
          PROVE  n \in Unwritten(p)'
      BY <1>0, <2>6, <3>1 DEF RowsAreDue
    <3>2. ASSUME NEW p \in Orders, NEW j \in Instances, SweepHolds(j, p)'
          PROVE  ExpiryRow \in Unwritten(p)'
      BY <1>0, <2>6, <3>2 DEF RowsAreDue
    <3>3. ASSUME NEW p \in Orders, NEW j \in Instances, NEW k \in Instances,
                 SweepHolds(j, p)', SweepHolds(k, p)'
          PROVE  j = k
      BY <1>0, <3>3 DEF RowsAreDue
    <3> QED
      BY <3>1, <3>2, <3>3 DEF RowsAreDue, ExpiryRow
  <2>8. NoRowIsMissing'
    <3>1. NothingBroke' => NothingBroke
      BY <1>2, BreaksIsBreaking
    <3>2. ASSUME NothingBroke', NEW p \in Orders, NEW n \in Unwritten(p)'
          PROVE  Pending(p, n)'
      <4>1. n \in Unwritten(p) /\ ~(p = o /\ n = row)
        BY <2>6, <3>2
      <4>2. Pending(p, n)
        BY <1>0, <3>1, <3>2, <4>1 DEF NoRowIsMissing
      <4> QED
        BY <4>1, <4>2 DEF Pending, ExpiryRow
    <3> QED
      BY <3>2 DEF NoRowIsMissing
  <2> QED
    BY <1>1, <2>5, <2>7, <2>8 DEF TrailInv
<1>4. CASE UNCHANGED audit /\ Breaks
  <2>1. \A p : Unwritten(p)' = Unwritten(p)
    BY <1>4 DEF Unwritten
  <2>2. RowsAreMoves'
    BY <1>0, <1>4 DEF RowsAreMoves
  <2>3. RowsAreDue'
    <3>1. ASSUME NEW p \in Orders, NEW j \in Instances, NEW k \in Instances,
                 SweepHolds(j, p)', SweepHolds(k, p)'
          PROVE  j = k
      BY <1>0, <3>1 DEF RowsAreDue
    <3> QED
      BY <1>0, <2>1, <3>1 DEF RowsAreDue, ExpiryRow
  <2>4. NoRowIsMissing'
    <3>1. ~NothingBroke'
      BY <1>4, BreaksIsBreaking
    <3> QED
      BY <3>1 DEF NoRowIsMissing
  <2> QED
    BY <1>1, <2>2, <2>3, <2>4 DEF TrailInv
<1> QED
  BY <1>2, <1>3, <1>4

\* A staff request writes its row.  Other requests have another actor, and the
\* sweep another one still.
LEMMA AuditMoveTrail ==
  ASSUME LifecycleInv, TrailInv, NEW d \in Desks, AuditMove(d)
  PROVE  TrailInv'
<1>0. /\ TypeOK /\ RequestsAreValid /\ desk \in [Desks -> Requests] /\ RowsAreDue
  BY DEF LifecycleInv, TypeOK, TrailInv
<1>1. PICK r \in Requests : r = desk[d]
  BY <1>0
<1>2. PICK o \in Orders : o = r.order /\ r.from \in Statuses /\ r.next \in Statuses
  BY <1>0, <1>1 DEF RequestsAreValid, AuditMove
<1> DEFINE row == Move(r.from, r.next, d)
<1>3. /\ r.pc = "audit" /\ WriteAudit(o, row)
      /\ desk' = [desk EXCEPT ![d] = [r EXCEPT !.pc = "notify"]]
      /\ UNCHANGED <<status, history, sweep, crashes>>
  BY <1>1, <1>2 DEF AuditMove, RowOf, dbVars
<1>4. row \in AuditRows /\ row.by = d /\ row # ExpiryRow
  <2>1. ExpiryRow.by = System /\ row.by = d
    BY DEF ExpiryRow, Move
  <2> QED
    BY <1>2, <2>1, ConstantsAssumption DEF Move, AuditRows
<1>5. DeskHolds(d, o, row)
  BY <1>1, <1>2, <1>3 DEF DeskHolds, RowOf
<1>6. row \in Unwritten(o)
  BY <1>0, <1>5 DEF RowsAreDue
<1>7. ASSUME NEW k \in Desks, NEW p \in Orders, NEW m
      PROVE  /\ DeskHolds(k, p, m)' => DeskHolds(k, p, m) /\ ~(p = o /\ m = row)
             /\ DeskHolds(k, p, m) /\ ~(p = o /\ m = row) => DeskHolds(k, p, m)'
  <2>1. CASE k = d
    <3>1. desk'[d].pc # "audit"
      BY <1>0, <1>3
    <3>2. DeskHolds(d, p, m) => p = o /\ m = row
      BY <1>1, <1>2 DEF DeskHolds, RowOf
    <3> QED
      BY <2>1, <3>1, <3>2 DEF DeskHolds
  <2>2. CASE k # d
    <3>1. desk'[k] = desk[k]
      BY <1>0, <1>3, <2>2
    <3>2. DeskHolds(k, p, m)' = DeskHolds(k, p, m)
      BY <3>1 DEF DeskHolds, RowOf
    <3>3. DeskHolds(k, p, m) => m.by = k
      BY DEF DeskHolds, RowOf, Move
    <3> QED
      BY <1>4, <2>2, <3>2, <3>3
  <2> QED
    BY <2>1, <2>2
<1>8. \A i \in Instances, p \in Orders :
        SweepHolds(i, p)' = SweepHolds(i, p) /\ ~(p = o /\ ExpiryRow = row)
  BY <1>3, <1>4 DEF SweepHolds
<1> HIDE DEF row
<1> QED
  BY <1>0, <1>3, <1>4, <1>6, <1>7, <1>8, RowIsWritten

\* The sweep writes its row: only one pass ever fails an order.
LEMMA AuditExpiryTrail ==
  ASSUME LifecycleInv, TrailInv, NEW i \in Instances, AuditExpiry(i)
  PROVE  TrailInv'
<1>0. /\ TypeOK /\ PassesAreDue /\ sweep \in [Instances -> Passes] /\ RowsAreDue
  BY DEF LifecycleInv, TypeOK, TrailInv
<1>1. PICK s \in Passes : s = sweep[i]
  BY <1>0
<1>2. PICK o \in Orders : o = s.order
  BY <1>0, <1>1 DEF PassesAreDue, AuditExpiry
<1>3. /\ s.pc = "audit" /\ WriteAudit(o, ExpiryRow)
      /\ sweep' = [sweep EXCEPT ![i].pc = IF Levels = {} THEN "mail" ELSE "cancel"]
      /\ UNCHANGED <<status, history, desk, crashes>>
  BY <1>1, <1>2 DEF AuditExpiry, ExpiryRow, dbVars
<1>4. ExpiryRow \in AuditRows /\ ExpiryRow.by = System
  BY DEF ExpiryRow, Move, AuditRows, Statuses
<1>5. SweepHolds(i, o) /\ ExpiryRow \in Unwritten(o)
  BY <1>0, <1>1, <1>2, <1>3 DEF SweepHolds, RowsAreDue
<1>6. ASSUME NEW k \in Instances, NEW p \in Orders
      PROVE  /\ SweepHolds(k, p)' => SweepHolds(k, p) /\ p # o
             /\ SweepHolds(k, p) /\ p # o => SweepHolds(k, p)'
  <2>1. CASE k = i
    <3>1. sweep'[i].pc # "audit"
      BY <1>0, <1>3 DEF Passes
    <3> QED
      BY <1>1, <1>2, <2>1, <3>1 DEF SweepHolds
  <2>2. CASE k # i
    <3>1. sweep'[k] = sweep[k]
      BY <1>0, <1>3, <2>2
    <3>2. SweepHolds(k, p)' = SweepHolds(k, p)
      BY <3>1 DEF SweepHolds
    <3>3. ~SweepHolds(k, o)
      BY <1>0, <1>5, <2>2 DEF RowsAreDue
    <3> QED
      BY <3>2, <3>3
  <2> QED
    BY <2>1, <2>2
<1>7. ASSUME NEW d \in Desks, NEW p \in Orders, NEW m
      PROVE  DeskHolds(d, p, m)' = DeskHolds(d, p, m) /\ ~(DeskHolds(d, p, m) /\ m = ExpiryRow)
  <2>1. DeskHolds(d, p, m) => m.by = d
    BY DEF DeskHolds, RowOf, Move
  <2>2. d # System
    BY ConstantsAssumption
  <2> QED
    BY <1>3, <1>4, <2>1, <2>2 DEF DeskHolds, RowOf
<1> HIDE DEF ExpiryRow
<1> QED
  BY <1>0, <1>3, <1>4, <1>5, <1>6, <1>7, RowIsWritten

-----------------------------------------------------------------------------
\* Steps of handlers that have no row to write.
LEMMA DeskAside ==
  ASSUME TypeOK, NEW d \in Desks, NEW r, desk' = [desk EXCEPT ![d] = r], UNCHANGED sweep,
         desk[d].pc # "audit", r.pc # "audit"
  PROVE  AuditorsStay
<1>1. desk'[d] = r /\ \A k \in Desks : k # d => desk'[k] = desk[k]
  BY DEF TypeOK
<1> QED
  BY <1>1 DEF AuditorsStay

LEMMA PassAside ==
  ASSUME TypeOK, NEW i \in Instances, NEW p, sweep' = [sweep EXCEPT ![i] = p],
         UNCHANGED desk, sweep[i].pc # "audit", p.pc # "audit"
  PROVE  AuditorsStay
<1>1. sweep'[i] = p /\ \A k \in Instances : k # i => sweep'[k] = sweep[k]
  BY DEF TypeOK
<1> QED
  BY <1>1 DEF AuditorsStay

LEMMA NoAuditAhead ==
  /\ NoRequest.pc # "audit"
  /\ \A todo : NextInPass(todo).pc # "audit"
  BY DEF NoRequest, NextInPass, NoSweep

\* What is called by a handler that writes no row either succeeds or breaks.
LEMMA CallsBreak ==
  /\ \A o, n, c : Send(o, n, c) => Succeeds \/ Breaks
  /\ \A o, l : CancelJob(o, l) => Succeeds \/ Breaks
  BY DEF Send, CancelJob

\* No other step writes a row or moves an order.
LEMMA OtherDeskSteps ==
  ASSUME LifecycleInv, NEW d \in Desks,
         \/ Request(d) \/ LoseRace(d) \/ WriteFails(d) \/ NotifyMove(d)
         \/ \E l \in Levels : CancelAfterMove(d, l)
  PROVE  /\ UNCHANGED <<status, history, audit>> /\ AuditorsStay
         /\ NothingBroke' => NothingBroke
<1>0. TypeOK /\ desk \in [Desks -> Requests] /\ desk[d] \in Requests
  BY DEF LifecycleInv, TypeOK
<1>1. CASE Request(d)
  <2>1. PICK r : /\ desk' = [desk EXCEPT ![d] = r] /\ r.pc = "write" /\ desk[d].pc = "idle"
                 /\ UNCHANGED <<status, history, audit, sweep, faults, crashes>>
    <3>1. PICK i \in Instances, o \in Orders, next \in Statuses,
               reason \in StaffReasons \union {NoReason}, hasNote \in BOOLEAN :
            ReadOrder(d, i, o, next, reason, hasNote)
      BY <1>1 DEF Request
    <3>2. WITNESS [pc |-> "write", host |-> i, order |-> o, from |-> status[o],
                   next |-> next, reason |-> reason, left |-> Levels]
    <3> QED
      BY <3>1 DEF ReadOrder, dbVars, envVars
  <2> QED
    BY <1>0, <2>1, DeskAside DEF NothingBroke
<1>2. CASE LoseRace(d) \/ WriteFails(d)
  <2>1. /\ desk' = [desk EXCEPT ![d] = NoRequest] /\ desk[d].pc = "write"
        /\ UNCHANGED <<status, history, audit, sweep, crashes>> /\ (Succeeds \/ Breaks)
    BY <1>2 DEF LoseRace, WriteFails, dbVars, envVars, Succeeds
  <2> QED
    BY <1>0, <2>1, DeskAside, NoAuditAhead, BreaksIsBreaking
<1>3. CASE NotifyMove(d)
  <2> DEFINE r == IF Levels = {} THEN NoRequest ELSE [desk[d] EXCEPT !.pc = "cancel"]
  <2>1. /\ desk' = [desk EXCEPT ![d] = r] /\ desk[d].pc = "notify"
        /\ UNCHANGED <<status, history, audit, sweep, crashes>>
    BY <1>0, <1>3 DEF NotifyMove, dbVars
  <2>2. Succeeds \/ Breaks
    BY <1>3, CallsBreak DEF NotifyMove
  <2>3. r.pc # "audit"
    BY <1>0, NoAuditAhead DEF Requests
  <2> HIDE DEF r
  <2> QED
    BY <1>0, <2>1, <2>2, <2>3, DeskAside, BreaksIsBreaking
<1>4. ASSUME NEW l \in Levels, CancelAfterMove(d, l)
      PROVE  /\ UNCHANGED <<status, history, audit>> /\ AuditorsStay
             /\ NothingBroke' => NothingBroke
  <2> DEFINE r == IF desk[d].left = {l} THEN NoRequest ELSE [desk[d] EXCEPT !.left = @ \ {l}]
  <2>1. /\ desk' = [desk EXCEPT ![d] = r] /\ desk[d].pc = "cancel"
        /\ UNCHANGED <<status, history, audit, sweep, crashes>> /\ (Succeeds \/ Breaks)
    BY <1>0, <1>4, CallsBreak DEF CancelAfterMove, dbVars
  <2>2. r.pc # "audit"
    BY <1>0, <2>1, NoAuditAhead DEF Requests
  <2> HIDE DEF r
  <2> QED
    BY <1>0, <2>1, <2>2, DeskAside, BreaksIsBreaking
<1> QED
  BY <1>1, <1>2, <1>3, <1>4

LEMMA OtherSweepSteps ==
  ASSUME LifecycleInv, NEW i \in Instances,
         \/ StartSweep(i) \/ \E o \in Orders : SkipOrder(i, o)
         \/ MailApology(i) \/ NotifyExpired(i)
         \/ \E l \in Levels : CancelAfterExpiry(i, l)
  PROVE  /\ UNCHANGED <<status, history, audit>> /\ AuditorsStay
         /\ NothingBroke' => NothingBroke
<1>0. TypeOK /\ sweep \in [Instances -> Passes] /\ sweep[i] \in Passes
  BY DEF LifecycleInv, TypeOK
<1>1. CASE StartSweep(i)
  <2>1. PICK b \in Batches : sweep' = [sweep EXCEPT ![i] = NextInPass(DueOf(b))]
    BY <1>1 DEF StartSweep
  <2>2. sweep[i].pc = "idle" /\ UNCHANGED <<status, history, audit, desk, faults, crashes>>
    BY <1>1 DEF StartSweep, dbVars, envVars
  <2> QED
    BY <1>0, <2>1, <2>2, PassAside, NoAuditAhead DEF NothingBroke
<1>2. ASSUME NEW o \in Orders, SkipOrder(i, o)
      PROVE  /\ UNCHANGED <<status, history, audit>> /\ AuditorsStay
             /\ NothingBroke' => NothingBroke
  <2>1. /\ sweep' = [sweep EXCEPT ![i] = NextInPass(sweep[i].todo \ {o})]
        /\ sweep[i].pc = "write" /\ UNCHANGED <<status, history, audit, desk, crashes>>
        /\ Succeeds \/ Breaks
    BY <1>0, <1>2 DEF SkipOrder, dbVars
  <2> QED
    BY <1>0, <2>1, PassAside, NoAuditAhead, BreaksIsBreaking
<1>3. CASE MailApology(i)
  <2>1. /\ sweep' = [sweep EXCEPT ![i] = [sweep[i] EXCEPT !.pc = "phone"]]
        /\ sweep[i].pc = "mail" /\ UNCHANGED <<status, history, audit, desk, crashes>>
        /\ Succeeds \/ Breaks
    BY <1>0, <1>3, CallsBreak DEF MailApology, dbVars
  <2>2. [sweep[i] EXCEPT !.pc = "phone"].pc # "audit"
    BY <1>0 DEF Passes
  <2> QED
    BY <1>0, <2>1, <2>2, PassAside, BreaksIsBreaking
<1>4. CASE NotifyExpired(i)
  <2>1. /\ sweep' = [sweep EXCEPT ![i] = NextInPass(sweep[i].todo)]
        /\ sweep[i].pc = "phone" /\ UNCHANGED <<status, history, audit, desk, crashes>>
        /\ Succeeds \/ Breaks
    BY <1>0, <1>4, CallsBreak DEF NotifyExpired, dbVars
  <2> QED
    BY <1>0, <2>1, PassAside, NoAuditAhead, BreaksIsBreaking
<1>5. ASSUME NEW l \in Levels, CancelAfterExpiry(i, l)
      PROVE  /\ UNCHANGED <<status, history, audit>> /\ AuditorsStay
             /\ NothingBroke' => NothingBroke
  <2> DEFINE pc == IF sweep[i].left = {l} THEN "mail" ELSE sweep[i].pc
             p  == [sweep[i] EXCEPT !.left = @ \ {l}, !.pc = pc]
  <2>1. /\ sweep' = [sweep EXCEPT ![i] = p]
        /\ sweep[i].pc = "cancel" /\ UNCHANGED <<status, history, audit, desk, crashes>>
        /\ Succeeds \/ Breaks
    BY <1>0, <1>5, CallsBreak DEF CancelAfterExpiry, dbVars
  <2>2. p.pc = pc /\ pc # "audit"
    BY <1>0, <2>1 DEF Passes
  <2> HIDE DEF p, pc
  <2> QED
    BY <1>0, <2>1, <2>2, PassAside, BreaksIsBreaking
<1> QED
  BY <1>1, <1>2, <1>3, <1>4, <1>5

LEMMA OtherSteps ==
  ASSUME LifecycleInv,
         \/ \E o \in Orders : CheckoutStep(o) \/ \E l \in Levels : JobStep(o, l)
         \/ Tick \/ \E i \in Instances : Crash(i) \/ Redeploy(i)
         \/ UNCHANGED vars
  PROVE  /\ UNCHANGED <<status, history, audit>> /\ AuditorsStay
         /\ NothingBroke' => NothingBroke
<1>0. TypeOK
  BY DEF LifecycleInv
<1>1. ASSUME NEW o \in Orders, CheckoutStep(o)
      PROVE  UNCHANGED <<status, history, audit, desk, sweep, crashes>> /\ (Succeeds \/ Breaks)
  BY <1>1, CallsBreak DEF CheckoutStep, NotifyCustomer, NotifyBranch, ScheduleRung, dbVars
<1>2. ASSUME NEW o \in Orders, NEW l \in Levels, JobStep(o, l)
      PROVE  UNCHANGED <<status, history, audit, desk, sweep, crashes>> /\ (Succeeds \/ Breaks)
  BY <1>2, CallsBreak
  DEF JobStep, PickJob, PickFails, SendChase, FinishJob, FinishFails, dbVars, procVars, envVars, Succeeds
<1>3. Tick \/ UNCHANGED vars =>
        UNCHANGED <<status, history, audit, desk, sweep, crashes>> /\ (Succeeds \/ Breaks)
  BY DEF Tick, vars, dbVars, procVars, envVars, Succeeds
<1>4. UNCHANGED <<desk, sweep>> => AuditorsStay
  BY DEF AuditorsStay
<1>5. ASSUME NEW i \in Instances, Crash(i) \/ Redeploy(i)
      PROVE  UNCHANGED <<status, history, audit>> /\ AuditorsStay /\ ~NothingBroke'
  <2>1. UNCHANGED <<status, history, audit>>
    BY <1>5 DEF Crash, Redeploy, dbVars
  <2>2. ~NothingBroke'
    BY <1>0, <1>5 DEF Crash, Redeploy, TypeOK, NothingBroke
  <2>3. \A d \in Desks : desk'[d] = desk[d] \/ desk'[d] = NoRequest
    BY <1>5 DEF Crash, Redeploy
  <2>4. \A j \in Instances : sweep'[j] = sweep[j] \/ sweep'[j] = NoSweep
    BY <1>0, <1>5 DEF Crash, Redeploy, TypeOK
  <2>5. NoSweep.pc # "audit"
    BY DEF NoSweep
  <2> QED
    BY <2>1, <2>2, <2>3, <2>4, <2>5, NoAuditAhead DEF AuditorsStay
<1> QED
  BY <1>0, <1>1, <1>2, <1>3, <1>4, <1>5, BreaksIsBreaking

\* Every step of the system keeps the trail.
LEMMA TrailStep ==
  LifecycleInv /\ HistoryIsPath /\ TrailInv /\ [Next]_vars => TrailInv'
<1> SUFFICES ASSUME LifecycleInv, HistoryIsPath, TrailInv, [Next]_vars PROVE TrailInv'
  OBVIOUS
<1>1. ASSUME NEW d \in Desks, Request(d) \/ DeskStep(d) PROVE TrailInv'
  BY <1>1, WriteTrail, AuditMoveTrail, OtherDeskSteps, TrailRests DEF DeskStep
<1>2. ASSUME NEW i \in Instances, SweepStep(i) PROVE TrailInv'
  BY <1>2, ExpireTrail, AuditExpiryTrail, OtherSweepSteps, TrailRests DEF SweepStep
<1>3. CASE \/ \E o \in Orders : CheckoutStep(o) \/ \E l \in Levels : JobStep(o, l)
           \/ Tick \/ \E i \in Instances : Crash(i) \/ Redeploy(i)
           \/ UNCHANGED vars
  BY <1>3, OtherSteps, TrailRests
<1> QED
  BY <1>1, <1>2, <1>3, PlaceTrail DEF Next

LEMMA TrailInit == Init => TrailInv
<1> SUFFICES ASSUME Init PROVE TrailInv
  OBVIOUS
<1>1. \A o \in Orders : history[o] = <<>> /\ audit[o] = <<>>
  BY DEF Init
<1>2. MovesOf(<<>>) = {} /\ RowsOf(<<>>) = {} /\ Len(<<>>) = 0
  BY DEF MovesOf, RowsOf
<1>3. \A o \in Orders : Unwritten(o) = {}
  BY <1>1, <1>2 DEF Unwritten
<1>4. (\A d, o, m : d \in Desks => ~DeskHolds(d, o, m))
      /\ (\A i, o : i \in Instances => ~SweepHolds(i, o))
  BY DEF Init, DeskHolds, SweepHolds, NoRequest, NoSweep
<1> QED
  BY <1>1, <1>2, <1>3, <1>4
  DEF TrailInv, MovesRise, RowsAreMoves, RowsAreDue, NoRowIsMissing

\* The trail of every behaviour holds the rows its handlers were to write.
THEOREM TrailInvariant == Spec => []TrailInv
<1> QED
  BY TrailInit, TrailStep, LifecycleInvariant, LifecycleHistoryIsPath, PTL DEF Spec

-----------------------------------------------------------------------------
(***************************************************************************)
(* Counting.  The rows of a trail are as many as its places, and the moves *)
(* without a row as many as the handlers that hold them.                   *)
(***************************************************************************)
LEMMA CountedByBijection ==
  ASSUME NEW S, NEW T, NEW f \in [S -> T],
         \A a, b \in S : f[a] = f[b] => a = b,
         \A t \in T : \E s \in S : f[s] = t
  PROVE  ExistsBijection(S, T)
  BY Fun_IsBij DEF ExistsBijection

LEMMA RowsCounted ==
  ASSUME NEW s \in Seq(AuditRows), \A k, l \in 1 .. Len(s) : s[k] = s[l] => k = l
  PROVE  Cardinality(RowsOf(s)) = Len(s) /\ IsFiniteSet(RowsOf(s))
<1> DEFINE f == [k \in 1 .. Len(s) |-> s[k]]
<1>1. f \in [1 .. Len(s) -> RowsOf(s)]
  BY DEF RowsOf
<1>2. \A t \in RowsOf(s) : \E k \in 1 .. Len(s) : f[k] = t
  BY DEF RowsOf
<1>3. ExistsBijection(1 .. Len(s), RowsOf(s))
  <2>1. \A k, l \in 1 .. Len(s) : f[k] = f[l] => k = l
    OBVIOUS
  <2> HIDE DEF f
  <2> QED
    BY <1>1, <1>2, <2>1, CountedByBijection
<1>4. Len(s) \in Nat /\ IsFiniteSet(1 .. Len(s))
  BY FS_Interval
<1> QED
  BY <1>3, <1>4, FS_CountingElements, FS_Bijection

LEMMA MovesFinite ==
  ASSUME NEW h \in Seq(Events)
  PROVE  IsFiniteSet(MovesOf(h))
<1> DEFINE n == Len(h) - 1
           f == [k \in 1 .. n |-> Move(h[k].status, h[k + 1].status, h[k + 1].by)]
<1>1. n \in Int /\ IsFiniteSet(1 .. n)
  BY FS_Interval
<1>2. f \in [1 .. n -> MovesOf(h)]
  BY DEF MovesOf
<1>3. \A t \in MovesOf(h) : \E k \in 1 .. n : f[k] = t
  BY DEF MovesOf
<1> HIDE DEF f, n
<1>4. f \in Surjection(1 .. n, MovesOf(h))
  BY <1>2, <1>3, Fun_IsSurj
<1> QED
  BY <1>1, <1>4, FS_Surjection

\* As long as nothing broke, the moves without a row are those about to get one.
LEMMA WritersCounted ==
  ASSUME LifecycleInv, TrailInv, NothingBroke, NEW o \in Orders
  PROVE  Cardinality(Unwritten(o)) = Cardinality(AboutToAudit(o)) /\ IsFiniteSet(Unwritten(o))
<1> DEFINE D == {d \in Desks : desk[d].pc = "audit" /\ desk[d].order = o}
           I == {i \in Instances : sweep[i].pc = "audit" /\ sweep[i].order = o}
           f == [w \in D \union I |-> IF w \in D THEN RowOf(w) ELSE ExpiryRow]
<1>0. /\ RowsAreDue /\ NoRowIsMissing
      /\ history[o] \in Seq(Events)
  BY DEF TrailInv, LifecycleInv, TypeOK
<1>1. /\ \A d \in Desks : d \in D <=> DeskHolds(d, o, RowOf(d))
      /\ \A d \in Desks : \A m : DeskHolds(d, o, m) => d \in D /\ m = RowOf(d)
      /\ \A i \in Instances : i \in I <=> SweepHolds(i, o)
      /\ D \intersect I = {} /\ D \subseteq Desks /\ I \subseteq Instances
      /\ \A d \in Desks : RowOf(d).by = d /\ d # System
      /\ ExpiryRow.by = System
  BY ConstantsAssumption DEF DeskHolds, SweepHolds, RowOf, Move, ExpiryRow
<1>2. /\ \A d \in D : d \in D \union I /\ f[d] = RowOf(d)
      /\ \A i \in I : i \in D \union I /\ f[i] = ExpiryRow
  BY <1>1
<1>3. \A w \in D \union I : f[w] \in Unwritten(o)
  BY <1>0, <1>1, <1>2 DEF RowsAreDue
<1>4. f \in [D \union I -> Unwritten(o)]
  BY <1>3
<1>5. \A m \in Unwritten(o) : \E w \in D \union I : f[w] = m
  BY <1>0, <1>1, <1>2 DEF NoRowIsMissing, Pending
<1> HIDE DEF f, D, I
<1>6. ASSUME NEW v \in D \union I, NEW w \in D \union I, f[v] = f[w]
      PROVE  v = w
  <2>1. CASE v \in D /\ w \in D
    <3>1. RowOf(v) = RowOf(w)
      BY <1>2, <1>6, <2>1
    <3> QED
      BY <1>1, <2>1, <3>1
  <2>2. CASE v \in I /\ w \in I
    BY <1>0, <1>1, <2>2 DEF RowsAreDue
  <2>3. CASE (v \in D /\ w \in I) \/ (v \in I /\ w \in D)
    BY <1>1, <1>2, <1>6, <2>3
  <2> QED
    BY <1>6, <2>1, <2>2, <2>3
<1>7. ExistsBijection(D \union I, Unwritten(o))
  BY <1>4, <1>5, <1>6, CountedByBijection
<1>8. IsFiniteSet(Unwritten(o))
  <2>1. IsFiniteSet(MovesOf(history[o])) /\ Unwritten(o) \in SUBSET MovesOf(history[o])
    BY <1>0, MovesFinite DEF Unwritten
  <2> QED
    BY <2>1, FS_Subset
<1>9. IsFiniteSet(D \union I)
  <2>1. f \in Injection(D \union I, Unwritten(o))
    BY <1>4, <1>6, Fun_IsInj
  <2> QED
    BY <1>8, <2>1, FS_Injection
<1>10. AboutToAudit(o) = D \union I
  BY DEF AboutToAudit, D, I
<1> QED
  BY <1>7, <1>8, <1>9, <1>10, FS_Bijection

LEMMA TrailTellsTruth == LifecycleInv /\ TrailInv => AuditTellsTheTruth
<1> SUFFICES ASSUME LifecycleInv, TrailInv, NEW o \in Orders
             PROVE  LET rows == {audit[o][k] : k \in 1 .. Len(audit[o])}
                    IN /\ rows \subseteq Moves(o)
                       /\ Cardinality(rows) = Len(audit[o])
                       /\ faults = 0 /\ crashes = 0 =>
                            Cardinality(Moves(o)) = Len(audit[o]) + Cardinality(AboutToAudit(o))
  BY DEF AuditTellsTheTruth
<1>1. /\ Moves(o) = MovesOf(history[o]) 
      /\ {audit[o][k] : k \in 1 .. Len(audit[o])} = RowsOf(audit[o])
  BY DEF Moves, MovesOf, RowsOf
<1>2. /\ audit[o] \in Seq(AuditRows) /\ history[o] \in Seq(Events)
      /\ RowsOf(audit[o]) \subseteq MovesOf(history[o])
      /\ \A k, l \in 1 .. Len(audit[o]) : audit[o][k] = audit[o][l] => k = l
  BY DEF LifecycleInv, TypeOK, TrailInv, RowsAreMoves
<1>3. Cardinality(RowsOf(audit[o])) = Len(audit[o]) /\ IsFiniteSet(RowsOf(audit[o]))
  BY <1>2, RowsCounted
<1>4. ASSUME NothingBroke
      PROVE  Cardinality(MovesOf(history[o])) = Len(audit[o]) + Cardinality(AboutToAudit(o))
  <2>1. Cardinality(Unwritten(o)) = Cardinality(AboutToAudit(o)) /\ IsFiniteSet(Unwritten(o))
    BY <1>4, WritersCounted
  <2>2. /\ MovesOf(history[o]) = RowsOf(audit[o]) \union Unwritten(o)
        /\ RowsOf(audit[o]) \intersect Unwritten(o) = {}
    BY <1>2 DEF Unwritten
  <2>3. Cardinality(RowsOf(audit[o]) \union Unwritten(o))
          = Cardinality(RowsOf(audit[o])) + Cardinality(Unwritten(o)) - Cardinality({})
    BY <1>3, <2>1, <2>2, FS_Union
  <2>4. Cardinality({}) = 0 /\ Cardinality(RowsOf(audit[o])) \in Nat
        /\ Cardinality(Unwritten(o)) \in Nat
    BY <1>3, <2>1, FS_EmptySet, FS_CardinalityType
  <2> QED
    BY <1>3, <2>1, <2>2, <2>3, <2>4
<1> QED
  BY <1>1, <1>2, <1>3, <1>4 DEF NothingBroke

\* The trail never lies: a row stands for one move that happened, and as long as
\* nothing broke every move has its row or a handler about to write it.
THEOREM RowsTellTheMoves == Spec => []AuditTellsTheTruth
<1> QED
  BY TrailTellsTruth, TrailInvariant, LifecycleInvariant, PTL

-----------------------------------------------------------------------------
(***************************************************************************)
(* The notices, by who sends them.                                         *)
(***************************************************************************)
\* What the checkout has still to say and to schedule was never said or scheduled.
ToSchedule(o, l) ==
  \/ checkout[o].pc \in {"customer", "branch"}
  \/ checkout[o].pc = "schedule" /\ l \in checkout[o].left

PlacementTold ==
  \A o \in Orders :
    /\ status[o] = Absent =>
         /\ checkout[o].pc = "idle"
         /\ \A n \in Notices : told[o][n] = 0
         /\ \A l \in Levels : job[o][l].st = "none"
    /\ told[o]["order_placed"] <= 1
    /\ checkout[o].pc = "customer" => told[o]["order_placed"] = 0

\* A status is told by the one request that made it, after it made it.
Telling(d, o, n) == desk[d].pc \in {"audit", "notify"} /\ desk[d].order = o /\ desk[d].next = n
ReachedIn(h, n) == \E k \in 1 .. Len(h) : h[k].status = n

StatusTold ==
  \A o \in Orders, n \in StatusNotices :
    /\ told[o][n] <= 1
    /\ told[o][n] > 0 => ReachedIn(history[o], n)
    /\ \A d \in Desks : Telling(d, o, n) => ReachedIn(history[o], n) /\ told[o][n] = 0
    /\ \A d, e \in Desks : Telling(d, o, n) /\ Telling(e, o, n) => d = e

\* An apology is sent by the one pass that failed the order, after it failed it.
Apologising == {"audit", "cancel", "mail", "phone"}

ExpiryTold ==
  /\ \A o \in Orders :
       /\ failureReason[o] = NotAcknowledged => status[o] = Failed
       /\ told[o]["apology"] <= 1 /\ told[o]["order_expired"] <= 1
       /\ told[o]["apology"] + told[o]["order_expired"] > 0 => failureReason[o] = NotAcknowledged
  /\ \A i \in Instances : sweep[i].pc \in Apologising =>
       /\ failureReason[sweep[i].order] = NotAcknowledged
       /\ sweep[i].pc # "phone" => told[sweep[i].order]["apology"] = 0
       /\ told[sweep[i].order]["order_expired"] = 0
  /\ \A i, j \in Instances :
       /\ sweep[i].pc \in Apologising /\ sweep[j].pc \in Apologising
       /\ sweep[i].order = sweep[j].order
       => i = j

\* A rung's job is there once, not before its time, and ends with its chase; each time
\* it stalls, and that is once, the chase may have gone out before.
LadderTold ==
  \A o \in Orders :
    /\ status[o] # Absent => placedAt[o] <= clock
    /\ \A l \in Levels :
         /\ job[o][l].st = "none" => job[o][l].host = Nobody
         /\ job[o][l].st # "none" => job[o][l].due >= placedAt[o] + RungAt[l]
         /\ job[o][l].st \in {"sending", "sent"} => clock >= placedAt[o] + RungAt[l]
         /\ told[o][l] > 0 => clock >= placedAt[o] + RungAt[l]
         /\ ToSchedule(o, l) => told[o][l] = 0 /\ job[o][l].st = "none"
         /\ job[o][l].st # "none" => told[o][l] <= 1 + job[o][l].stalls
         /\ job[o][l].st \in {"delayed", "sending"} => told[o][l] <= job[o][l].stalls
         /\ job[o][l].stalls <= IF NothingBroke THEN 0 ELSE 1
         /\ told[o][l] <= IF NothingBroke THEN 1 ELSE 2

NoticeInv == PlacementTold /\ StatusTold /\ ExpiryTold /\ LadderTold

-----------------------------------------------------------------------------
(***************************************************************************)
(* What one step may do to the notices and to those who send them.         *)
(***************************************************************************)
\* Who tells notice n of order o.
Tells(o, n) ==
  \/ n = "order_placed" /\ checkout[o].pc = "customer" /\ checkout'[o].pc # "customer"
  \/ n = "new_order" /\ checkout[o].pc = "branch"
  \/ /\ n \in StatusNotices
     /\ \E d \in Desks : desk[d].pc = "notify" /\ Telling(d, o, n) /\ ~Telling(d, o, n)'
     /\ UNCHANGED history
  \/ /\ n = "apology"
     /\ \E i \in Instances :
          /\ sweep[i].pc = "mail" /\ sweep[i].order = o /\ sweep'[i].pc = "phone"
          /\ \A j \in Instances : j # i => sweep'[j] = sweep[j]
  \/ /\ n = "order_expired"
     /\ \E i \in Instances :
          /\ sweep[i].pc = "phone" /\ sweep[i].order = o /\ sweep'[i].pc \notin Apologising
          /\ \A j \in Instances : j # i => sweep'[j] = sweep[j]
  \/ n \in Levels /\ job[o][n].st = "sending" /\ job'[o][n].st = "sent"

ToldOne(o, n) == told'[o][n] \in {told[o][n], told[o][n] + 1}

\* A message goes to the notice it is about, and to no other.
LEMMA SendTells ==
  ASSUME TypeOK, NEW o \in Orders, NEW n \in Notices, NEW c, Send(o, n, c)
  PROVE  /\ ToldOne(o, n)
         /\ \A p \in Orders, m \in Notices : p # o \/ m # n => told'[p][m] = told[p][m]
<1>1. told \in [Orders -> [Notices -> Nat]]
  BY DEF TypeOK
<1>2. told' = told \/ told' = [told EXCEPT ![o][n] = @ + 1]
  BY DEF Send
<1>3. CASE told' = told
  BY <1>3 DEF ToldOne
<1>4. CASE told' = [told EXCEPT ![o][n] = @ + 1]
  <2>1. told'[o] = [told[o] EXCEPT ![n] = @ + 1] /\ told[o] \in [Notices -> Nat]
    BY <1>1, <1>4
  <2>2. told'[o][n] = told[o][n] + 1 /\ \A m \in Notices : m # n => told'[o][m] = told[o][m]
    BY <2>1
  <2>3. \A p \in Orders : p # o => told'[p] = told[p]
    BY <1>1, <1>4
  <2> QED
    BY <2>2, <2>3 DEF ToldOne
<1> QED
  BY <1>2, <1>3, <1>4

\* The rungs are not among the other notices.
LEMMA NoticesApart ==
  /\ {"order_placed", "new_order", "apology", "order_expired"} \intersect Levels = {}
  /\ StatusNotices \intersect Levels = {}
  /\ {"order_placed", "new_order", "apology", "order_expired"} \intersect StatusNotices = {}
  /\ {"order_placed", "new_order", "apology", "order_expired"} \subseteq Notices
  /\ StatusNotices \subseteq Notices /\ Levels \subseteq Notices
  BY ConstantsAssumption DEF StatusNotices, Notices, CustomerNotices, Completed

\* Nothing is told but by its sender, and once at a time.
LEMMA WhoTells ==
  ASSUME LifecycleInv, [Next]_vars, NEW o \in Orders, NEW n \in Notices
  PROVE  told'[o][n] = told[o][n] \/ (Tells(o, n) /\ told'[o][n] = told[o][n] + 1)
<1>0. /\ TypeOK /\ RequestsAreValid /\ PassesAreDue
      /\ desk \in [Desks -> Requests] /\ sweep \in [Instances -> Passes]
      /\ checkout \in [Orders -> Checkouts] /\ job \in [Orders -> [Levels -> Jobs]]
  BY DEF LifecycleInv, TypeOK
<1>1. ASSUME NEW p \in Orders, CheckoutStep(p)
      PROVE  told'[o][n] = told[o][n] \/ (Tells(o, n) /\ told'[o][n] = told[o][n] + 1)
  <2>1. CASE NotifyCustomer(p)
    <3>1. /\ checkout[p].pc = "customer" /\ Send(p, "order_placed", "phone")
          /\ checkout' = [checkout EXCEPT ![p].pc = "branch"]
      BY <2>1 DEF NotifyCustomer
    <3>2. checkout'[p].pc # "customer"
      BY <1>0, <3>1 DEF Checkouts
    <3>3. "order_placed" \in Notices
      BY NoticesApart
    <3> QED
      BY <1>0, <3>1, <3>2, <3>3, SendTells DEF Tells, ToldOne
  <2>2. CASE NotifyBranch(p)
    <3>1. checkout[p].pc = "branch" /\ Send(p, "new_order", "branch")
      BY <2>2 DEF NotifyBranch
    <3>2. "new_order" \in Notices
      BY NoticesApart
    <3> QED
      BY <1>0, <3>1, <3>2, SendTells DEF Tells, ToldOne
  <2>3. CASE \E l \in Levels : ScheduleRung(p, l)
    BY <2>3 DEF ScheduleRung
  <2> QED
    BY <1>1, <2>1, <2>2, <2>3 DEF CheckoutStep
<1>2. ASSUME NEW d \in Desks, DeskStep(d)
      PROVE  told'[o][n] = told[o][n] \/ (Tells(o, n) /\ told'[o][n] = told[o][n] + 1)
  <2>1. CASE NotifyMove(d) /\ desk[d].next \in StatusNotices
    <3>1. PICK p \in Orders : p = desk[d].order
      BY <1>0, <2>1 DEF RequestsAreValid, NotifyMove
    <3>2. PICK m \in StatusNotices : m = desk[d].next
      BY <2>1
    <3>3. /\ desk[d].pc = "notify" /\ Send(p, m, "phone") /\ UNCHANGED history
          /\ desk' = [desk EXCEPT ![d] = IF Levels = {} THEN NoRequest
                                         ELSE [@ EXCEPT !.pc = "cancel"]]
      BY <2>1, <3>1, <3>2 DEF NotifyMove, dbVars
    <3>4. desk'[d].pc \notin {"audit", "notify"}
      <4>1. desk[d] \in Requests /\ desk'[d] = IF Levels = {} THEN NoRequest
                                               ELSE [desk[d] EXCEPT !.pc = "cancel"]
        BY <1>0, <3>3
      <4>2. [desk[d] EXCEPT !.pc = "cancel"].pc = "cancel" /\ NoRequest.pc = "idle"
        BY <4>1 DEF Requests, NoRequest
      <4> QED
        BY <4>1, <4>2
    <3>5. Telling(d, p, m) /\ ~Telling(d, p, m)'
      BY <3>1, <3>2, <3>3, <3>4 DEF Telling
    <3>6. Tells(p, m)
      BY <3>3, <3>5 DEF Tells
    <3>7. m \in Notices
      BY NoticesApart
    <3> QED
      BY <1>0, <3>3, <3>6, <3>7, SendTells DEF ToldOne
  <2>2. CASE NotifyMove(d) /\ desk[d].next \notin StatusNotices
    BY <2>2 DEF NotifyMove
  <2>3. CASE \/ WriteStatus(d) \/ LoseRace(d) \/ WriteFails(d) \/ AuditMove(d)
             \/ \E l \in Levels : CancelAfterMove(d, l)
    BY <2>3 DEF WriteStatus, LoseRace, WriteFails, AuditMove, CancelAfterMove
  <2> QED
    BY <1>2, <2>1, <2>2, <2>3 DEF DeskStep
<1>3. ASSUME NEW i \in Instances, SweepStep(i)
      PROVE  told'[o][n] = told[o][n] \/ (Tells(o, n) /\ told'[o][n] = told[o][n] + 1)
  <2>1. CASE MailApology(i)
    <3>1. PICK p \in Orders : p = sweep[i].order
      BY <1>0, <2>1 DEF PassesAreDue, MailApology
    <3>2. /\ sweep[i].pc = "mail" /\ Send(p, "apology", "email")
          /\ sweep' = [sweep EXCEPT ![i].pc = "phone"]
      BY <2>1, <3>1 DEF MailApology
    <3>3. sweep'[i].pc = "phone" /\ \A j \in Instances : j # i => sweep'[j] = sweep[j]
      BY <1>0, <3>2 DEF Passes
    <3>4. Tells(p, "apology")
      BY <3>1, <3>2, <3>3 DEF Tells
    <3>5. "apology" \in Notices
      BY NoticesApart
    <3> QED
      BY <1>0, <3>2, <3>4, <3>5, SendTells DEF ToldOne
  <2>2. CASE NotifyExpired(i)
    <3>1. PICK p \in Orders : p = sweep[i].order
      BY <1>0, <2>2 DEF PassesAreDue, NotifyExpired
    <3>2. /\ sweep[i].pc = "phone" /\ Send(p, "order_expired", "phone")
          /\ sweep' = [sweep EXCEPT ![i] = NextInPass(@.todo)]
      BY <2>2, <3>1 DEF NotifyExpired
    <3>3. sweep'[i].pc \notin Apologising /\ \A j \in Instances : j # i => sweep'[j] = sweep[j]
      <4>1. \A todo : NextInPass(todo).pc \notin Apologising
        BY DEF NextInPass, NoSweep, Apologising
      <4> QED
        BY <1>0, <3>2, <4>1
    <3>4. Tells(p, "order_expired")
      BY <3>1, <3>2, <3>3 DEF Tells
    <3>5. "order_expired" \in Notices
      BY NoticesApart
    <3> QED
      BY <1>0, <3>2, <3>4, <3>5, SendTells DEF ToldOne
  <2>3. CASE \/ StartSweep(i) \/ AuditExpiry(i)
             \/ \E p \in Orders : ExpireOrder(i, p) \/ SkipOrder(i, p)
             \/ \E l \in Levels : CancelAfterExpiry(i, l)
    BY <2>3 DEF StartSweep, AuditExpiry, ExpireOrder, SkipOrder, CancelAfterExpiry
  <2> QED
    BY <1>3, <2>1, <2>2, <2>3 DEF SweepStep
<1>4. ASSUME NEW p \in Orders, NEW l \in Levels, JobStep(p, l)
      PROVE  told'[o][n] = told[o][n] \/ (Tells(o, n) /\ told'[o][n] = told[o][n] + 1)
  <2>1. CASE SendChase(p, l)
    <3>1. /\ job[p][l].st = "sending" /\ Send(p, l, RecipientFor(l))
          /\ job' = [job EXCEPT ![p][l] = [@ EXCEPT !.st = "sent"]]
      BY <2>1 DEF SendChase
    <3>2. job'[p][l].st = "sent"
      <4>1. job'[p] = [job[p] EXCEPT ![l] = [@ EXCEPT !.st = "sent"]] /\ job[p] \in [Levels -> Jobs]
        BY <1>0, <3>1
      <4>2. job'[p][l] = [job[p][l] EXCEPT !.st = "sent"] /\ job[p][l] \in Jobs
        BY <4>1
      <4> QED
        BY <4>2 DEF Jobs
    <3>3. Tells(p, l) /\ l \in Notices
      BY <3>1, <3>2, NoticesApart DEF Tells
    <3> QED
      BY <1>0, <3>1, <3>3, SendTells DEF ToldOne
  <2>2. CASE \/ \E i \in Instances : PickJob(i, p, l)
             \/ PickFails(p, l) \/ FinishJob(p, l) \/ FinishFails(p, l)
    BY <2>2 DEF PickJob, PickFails, FinishJob, FinishFails
  <2> QED
    BY <1>4, <2>1, <2>2 DEF JobStep
<1>5. ASSUME \/ \E p \in Orders, i \in Instances : Place(p, i)
             \/ \E d \in Desks : Request(d)
             \/ Tick \/ \E i \in Instances : Crash(i) \/ Redeploy(i)
             \/ UNCHANGED vars
      PROVE  told' = told
  BY <1>5 DEF Place, Request, ReadOrder, Tick, Crash, Redeploy, vars
<1> QED
  BY <1>1, <1>2, <1>3, <1>4, <1>5 DEF Next

\* What one step may do to a job.
JobMove(o, l) ==
  \/ job'[o][l] = job[o][l]
  \/ job'[o][l] = NoJob
  \/ /\ ToSchedule(o, l) /\ ~ToSchedule(o, l)'
     /\ job'[o][l].st = "delayed" /\ job'[o][l].due = clock + RungAt[l]
     /\ job'[o][l].stalls = 0
  \/ /\ job'[o][l].due = job[o][l].due
     /\ \/ /\ job'[o][l].stalls = job[o][l].stalls
           /\ \/ /\ job[o][l].st = "delayed" /\ job'[o][l].st = "sending"
                 /\ status[o] = Placed /\ clock >= job[o][l].due
              \/ job[o][l].st = "delayed" /\ job'[o][l].st \in {"delayed", "failed"}
              \/ job[o][l].st = "sending" /\ job'[o][l].st = "sent"
        \/ /\ \/ job[o][l].host # Nobody /\ crashes' > crashes
              \/ job[o][l].st = "sent" /\ faults' > faults
           /\ \/ job'[o][l].st = "failed" /\ job'[o][l].stalls = job[o][l].stalls
              \/ /\ job'[o][l].st = "delayed" /\ job'[o][l].stalls = 1
                 /\ job[o][l].stalls = 0

LEMMA OneJob ==
  ASSUME TypeOK, NEW p \in Orders, NEW k \in Levels, NEW j,
         job' = [job EXCEPT ![p][k] = j]
  PROVE  /\ job'[p][k] = j
         /\ \A o \in Orders, l \in Levels : o # p \/ l # k => job'[o][l] = job[o][l]
<1>1. job \in [Orders -> [Levels -> Jobs]] /\ job[p] \in [Levels -> Jobs]
  BY DEF TypeOK
<1>2. job'[p] = [job[p] EXCEPT ![k] = j] /\ \A o \in Orders : o # p => job'[o] = job[o]
  BY <1>1
<1> QED
  BY <1>1, <1>2

\* A cancellation removes a job, or leaves it.
LEMMA CancelMoves ==
  ASSUME TypeOK, NEW p \in Orders, NEW k \in Levels, CancelJob(p, k)
  PROVE  \A o \in Orders, l \in Levels : JobMove(o, l)
<1>1. job' = job \/ job' = [job EXCEPT ![p][k] = NoJob]
  BY DEF CancelJob
<1> QED
  BY <1>1, OneJob DEF JobMove

LEMMA HowJobsMove ==
  ASSUME LifecycleInv, [Next]_vars
  PROVE  \A o \in Orders, l \in Levels : JobMove(o, l)
<1>0. /\ TypeOK /\ RequestsAreValid /\ PassesAreDue
      /\ job \in [Orders -> [Levels -> Jobs]] /\ checkout \in [Orders -> Checkouts]
      /\ clock \in Nat /\ crashes \in Nat
  BY DEF LifecycleInv, TypeOK
<1>1. ASSUME NEW p \in Orders, NEW k \in Levels, ScheduleRung(p, k)
      PROVE  \A o \in Orders, l \in Levels : JobMove(o, l)
  <2> DEFINE j == [NoJob EXCEPT !.st = "delayed", !.due = clock + RungAt[k]]
  <2>1. job' = job \/ job' = [job EXCEPT ![p][k] = j]
    BY <1>1 DEF ScheduleRung, AddJob, DueAt
  <2>2. j.st = "delayed" /\ j.due = clock + RungAt[k] /\ j.stalls = 0
    BY DEF NoJob
  <2>3. ToSchedule(p, k) /\ ~ToSchedule(p, k)'
    <3>1. PICK c \in Checkouts : c = checkout[p]
      BY <1>0
    <3>2. c.pc = "schedule" /\ k \in c.left
      BY <1>1, <3>1 DEF ScheduleRung
    <3>3. checkout'[p] = IF c.left = {k} THEN NoCheckout ELSE [c EXCEPT !.left = @ \ {k}]
      BY <1>0, <1>1, <3>1 DEF ScheduleRung
    <3>4. /\ NoCheckout.pc = "idle"
          /\ [c EXCEPT !.left = @ \ {k}].pc = "schedule"
          /\ k \notin [c EXCEPT !.left = @ \ {k}].left
      BY <3>1, <3>2 DEF NoCheckout, Checkouts
    <3>5. checkout'[p].pc \notin {"customer", "branch"} /\
          ~(checkout'[p].pc = "schedule" /\ k \in checkout'[p].left)
      <4>1. CASE c.left = {k}
        BY <3>3, <3>4, <4>1
      <4>2. CASE c.left # {k}
        BY <3>3, <3>4, <4>2
      <4> QED
        BY <4>1, <4>2
    <3> QED
      BY <3>1, <3>2, <3>5 DEF ToSchedule
  <2> HIDE DEF j
  <2> QED
    BY <1>0, <2>1, <2>2, <2>3, OneJob DEF JobMove
<1>2. ASSUME NEW p \in Orders, NEW k \in Levels, JobStep(p, k)
      PROVE  \A o \in Orders, l \in Levels : JobMove(o, l)
  <2>0. PICK j \in Jobs : j = job[p][k]
    BY <1>0
  <2>1. ASSUME NEW i \in Instances, PickJob(i, p, k)
        PROVE  \A o \in Orders, l \in Levels : JobMove(o, l)
    <3> DEFINE new == [j EXCEPT !.st = "sending", !.host = i]
    <3>1. /\ j.st = "delayed" /\ clock >= j.due
          /\ \/ status[p] = Placed /\ job' = [job EXCEPT ![p][k] = new]
             \/ job' = [job EXCEPT ![p][k] = NoJob]
      BY <2>0, <2>1 DEF PickJob, StillWanted, Finish
    <3>2. new.st = "sending" /\ new.due = j.due /\ new.stalls = j.stalls
      BY DEF Jobs
    <3> HIDE DEF new
    <3> QED
      BY <1>0, <2>0, <3>1, <3>2, OneJob DEF JobMove
  <2>2. CASE PickFails(p, k)
    <3> DEFINE st  == IF j.tries + 1 >= MaxAttempts THEN "failed" ELSE "delayed"
               new == [j EXCEPT !.tries = j.tries + 1, !.st = st]
    <3>1. j.st = "delayed" /\ job' = [job EXCEPT ![p][k] = new]
      BY <2>0, <2>2 DEF PickFails
    <3>2. /\ new.st = st /\ new.due = j.due /\ new.stalls = j.stalls
          /\ st \in {"delayed", "failed"}
      BY DEF Jobs
    <3> HIDE DEF new, st
    <3> QED
      BY <1>0, <2>0, <3>1, <3>2, OneJob DEF JobMove
  <2>3. CASE SendChase(p, k)
    <3> DEFINE new == [j EXCEPT !.st = "sent"]
    <3>1. j.st = "sending" /\ job' = [job EXCEPT ![p][k] = new]
      BY <2>0, <2>3 DEF SendChase
    <3>2. new.st = "sent" /\ new.due = j.due /\ new.stalls = j.stalls
      BY DEF Jobs
    <3> HIDE DEF new
    <3> QED
      BY <1>0, <2>0, <3>1, <3>2, OneJob DEF JobMove
  <2>4. CASE FinishJob(p, k)
    <3>1. job' = [job EXCEPT ![p][k] = NoJob]
      BY <2>4 DEF FinishJob, Finish
    <3> QED
      BY <1>0, <3>1, OneJob DEF JobMove
  <2>5. CASE FinishFails(p, k)
    <3> DEFINE new == Stalled(j)
    <3>1. /\ j.st = "sent" /\ job' = [job EXCEPT ![p][k] = new]
          /\ faults' > faults
      BY <1>0, <2>0, <2>5 DEF FinishFails, Breaks, TypeOK
    <3>2. /\ new.due = j.due
          /\ \/ new.st = "failed" /\ new.stalls = j.stalls
             \/ new.st = "delayed" /\ new.stalls = 1 /\ j.stalls = 0
      BY DEF Stalled, Jobs
    <3> HIDE DEF new
    <3> QED
      BY <1>0, <2>0, <3>1, <3>2, OneJob DEF JobMove
  <2> QED
    BY <1>2, <2>1, <2>2, <2>3, <2>4, <2>5 DEF JobStep
<1>3. ASSUME NEW d \in Desks, NEW k \in Levels, CancelAfterMove(d, k)
      PROVE  \A o \in Orders, l \in Levels : JobMove(o, l)
  <2>1. PICK p \in Orders : p = desk[d].order
    BY <1>0, <1>3 DEF RequestsAreValid, CancelAfterMove
  <2> QED
    BY <1>0, <1>3, <2>1, CancelMoves DEF CancelAfterMove
<1>4. ASSUME NEW i \in Instances, NEW k \in Levels, CancelAfterExpiry(i, k)
      PROVE  \A o \in Orders, l \in Levels : JobMove(o, l)
  <2>1. PICK p \in Orders : p = sweep[i].order
    BY <1>0, <1>4 DEF PassesAreDue, CancelAfterExpiry
  <2> QED
    BY <1>0, <1>4, <2>1, CancelMoves DEF CancelAfterExpiry
<1>5. ASSUME NEW i \in Instances, Crash(i)
      PROVE  \A o \in Orders, l \in Levels : JobMove(o, l)
  <2> SUFFICES ASSUME NEW o \in Orders, NEW l \in Levels PROVE JobMove(o, l)
    OBVIOUS
  <2>1. PICK j \in Jobs : j = job[o][l]
    BY <1>0
  <2>2. crashes' > crashes /\ i # Nobody
    BY <1>0, <1>5, ConstantsAssumption DEF Crash
  <2>3. job'[o][l] = IF j.host = i THEN Stalled(j) ELSE j
    BY <1>5, <2>1 DEF Crash
  <2>4. /\ Stalled(j).due = j.due
        /\ \/ Stalled(j).st = "failed" /\ Stalled(j).stalls = j.stalls
           \/ Stalled(j).st = "delayed" /\ Stalled(j).stalls = 1 /\ j.stalls = 0
    BY DEF Stalled, Jobs
  <2> QED
    BY <2>1, <2>2, <2>3, <2>4 DEF JobMove
<1>6. ASSUME \/ \E p \in Orders, i \in Instances : Place(p, i)
             \/ \E p \in Orders : NotifyCustomer(p) \/ NotifyBranch(p)
             \/ \E d \in Desks : \/ Request(d) \/ WriteStatus(d) \/ LoseRace(d)
                                 \/ WriteFails(d) \/ AuditMove(d) \/ NotifyMove(d)
             \/ Tick \/ \E i \in Instances : Redeploy(i)
             \/ UNCHANGED vars
      PROVE  job' = job
  BY <1>6 DEF Place, NotifyCustomer, NotifyBranch, Request, ReadOrder, WriteStatus,
              LoseRace, WriteFails, AuditMove, NotifyMove, Tick, Redeploy, vars
<1>7. ASSUME NEW i \in Instances,
             \/ StartSweep(i) \/ \E p \in Orders : ExpireOrder(i, p) \/ SkipOrder(i, p)
             \/ AuditExpiry(i) \/ MailApology(i) \/ NotifyExpired(i)
      PROVE  job' = job
  BY <1>7 DEF StartSweep, ExpireOrder, SkipOrder, AuditExpiry, MailApology, NotifyExpired
<1>8. job' = job => \A o \in Orders, l \in Levels : JobMove(o, l)
  BY DEF JobMove
<1> QED
  BY <1>1, <1>2, <1>3, <1>4, <1>5, <1>6, <1>7, <1>8
  DEF Next, CheckoutStep, DeskStep, SweepStep

\* Once an order has left `placed` and the chases being sent are out, it is never
\* chased again, even by a job scheduled after the cancellation or one whose
\* cancellation failed (the re-read of processEscalation).
THEOREM SettledIsQuiet == Spec => QuietOnceSettled
<1>1. ASSUME LifecycleInv, [Next]_vars, NEW o \in Orders,
             status[o] \notin {Absent, Placed}, \A l \in Levels : job[o][l].st # "sending",
             NEW l \in Levels
      PROVE  told'[o][l] = told[o][l] /\ job'[o][l].st # "sending"
  <2>1. l \in Notices /\ ~Tells(o, l)
    BY <1>1, NoticesApart DEF Tells
  <2>2. told'[o][l] = told[o][l]
    BY <1>1, <2>1, WhoTells
  <2>3. JobMove(o, l) /\ NoJob.st = "none"
    BY <1>1, HowJobsMove DEF NoJob
  <2> QED
    BY <1>1, <2>2, <2>3 DEF JobMove
<1>2. LifecycleInv /\ [Next]_vars =>
        [\A o \in Orders :
           /\ status[o] \notin {Absent, Placed}
           /\ \A l \in Levels : job[o][l].st # "sending"
           => \A l \in Levels : /\ told'[o][l] = told[o][l]
                                /\ job'[o][l].st # "sending"]_vars
  BY <1>1
<1> QED
  BY <1>2, LifecycleInvariant, PTL DEF Spec, QuietOnceSettled

-----------------------------------------------------------------------------
\* A step never takes back what an order went through.
LEMMA HowOrdersMove ==
  ASSUME LifecycleInv, [Next]_vars
  PROVE  /\ clock' >= clock /\ clock' \in Nat /\ crashes' >= crashes
         /\ \A o \in Orders :
              /\ status'[o] = Absent => status[o] = Absent
              /\ \A n : ReachedIn(history[o], n) => ReachedIn(history'[o], n)
              /\ status[o] = Absent /\ status'[o] # Absent =>
                   placedAt'[o] = clock /\ clock' = clock /\ UNCHANGED <<told, job>>
              /\ status[o] # Absent => placedAt'[o] = placedAt[o]
              /\ failureReason[o] = NotAcknowledged /\ status[o] = Failed =>
                   failureReason'[o] = NotAcknowledged /\ status'[o] = Failed
              /\ failureReason'[o] = NotAcknowledged =>
                   failureReason[o] = NotAcknowledged \/ status'[o] = Failed
<1> DEFINE Kept(o) ==
      /\ status'[o] = Absent => status[o] = Absent
      /\ \A n : ReachedIn(history[o], n) => ReachedIn(history'[o], n)
      /\ status[o] = Absent /\ status'[o] # Absent =>
           placedAt'[o] = clock /\ clock' = clock /\ UNCHANGED <<told, job>>
      /\ status[o] # Absent => placedAt'[o] = placedAt[o]
      /\ failureReason[o] = NotAcknowledged /\ status[o] = Failed =>
           failureReason'[o] = NotAcknowledged /\ status'[o] = Failed
      /\ failureReason'[o] = NotAcknowledged =>
           failureReason[o] = NotAcknowledged \/ status'[o] = Failed
<1>0. /\ TypeOK /\ RequestsAreValid /\ BlankUntilPlaced
      /\ status \in [Orders -> Statuses \union {Absent}] /\ history \in [Orders -> Seq(Events)]
      /\ failureReason \in [Orders -> FailureReasons \union {NoReason}]
      /\ placedAt \in [Orders -> Nat] /\ clock \in Nat /\ crashes \in Nat
      /\ desk \in [Desks -> Requests]
  BY DEF LifecycleInv, TypeOK
<1>1. ASSUME NEW h \in Seq(Events), NEW e, NEW n, ReachedIn(h, n)
      PROVE  ReachedIn(Append(h, e), n)
  <2>1. PICK k \in 1 .. Len(h) : h[k].status = n
    BY <1>1 DEF ReachedIn
  <2>2. k \in 1 .. Len(Append(h, e)) /\ Append(h, e)[k] = h[k]
    OBVIOUS
  <2> QED
    BY <2>1, <2>2 DEF ReachedIn
<1>2. ASSUME NEW p \in Orders, NEW i \in Instances, Place(p, i)
      PROVE  clock' = clock /\ crashes' = crashes /\ \A o \in Orders : Kept(o)
  <2>1. /\ status[p] = Absent /\ status' = [status EXCEPT ![p] = Placed]
        /\ \E e : history' = [history EXCEPT ![p] = e]
        /\ placedAt' = [placedAt EXCEPT ![p] = clock]
        /\ UNCHANGED <<failureReason, told, job, clock, crashes>>
    BY <1>2 DEF Place, envVars
  <2>2. history[p] = <<>> /\ \A n : ~ReachedIn(<<>>, n)
    BY <1>0, <2>1 DEF BlankUntilPlaced, ReachedIn
  <2>3. Placed # Absent /\ Absent # Failed
    BY DEF Placed, Absent, Failed
  <2>4. \A o \in Orders : o # p => /\ status'[o] = status[o] /\ history'[o] = history[o]
                                  /\ placedAt'[o] = placedAt[o]
    BY <1>0, <2>1
  <2>5. status'[p] = Placed /\ placedAt'[p] = clock
    BY <1>0, <2>1
  <2>6. ASSUME NEW o \in Orders PROVE Kept(o)
    BY <2>1, <2>2, <2>3, <2>4, <2>5
  <2> QED
    BY <2>1, <2>6
<1>3. ASSUME NEW d \in Desks, WriteStatus(d)
      PROVE  clock' = clock /\ crashes' = crashes /\ \A o \in Orders : Kept(o)
  <2>1. PICK r \in Requests, p \in Orders : r = desk[d] /\ p = r.order /\ r.pc = "write"
    BY <1>0, <1>3 DEF WriteStatus, RequestsAreValid
  <2>2. /\ r.next \in Statuses
        /\ \/ r.from \in Book!Open
           \/ <<r.from, r.next>> \in Book!Forward(Fulfilment[p])
        /\ r.next = Failed => r.reason \in StaffFailureReasons
    BY <1>0, <2>1 DEF RequestsAreValid
  <2>3. r.from # Failed /\ r.next # Absent /\ r.from # Absent
    BY <2>2 DEF Book!Open, Book!Forward, Book!Placed, Book!Completed, Failed, Absent,
                Statuses, Placed, Completed
  <2>4. /\ status[p] = r.from /\ status' = [status EXCEPT ![p] = r.next]
        /\ \E e : history' = [history EXCEPT ![p] = Append(@, e)]
        /\ UNCHANGED <<placedAt, clock, crashes>>
        /\ failureReason' = IF r.next = Failed
                              THEN [failureReason EXCEPT ![p] = r.reason]
                              ELSE failureReason
    BY <1>3, <2>1 DEF WriteStatus, StillAsRead
  <2>5. r.next = Failed => r.reason # NotAcknowledged
    BY <2>2 DEF StaffFailureReasons, NotAcknowledged
  <2>6. \A o \in Orders : o # p => /\ status'[o] = status[o] /\ history'[o] = history[o]
                                  /\ failureReason'[o] = failureReason[o]
    BY <1>0, <2>4
  <2>7. /\ status'[p] = r.next /\ \A n : ReachedIn(history[p], n) => ReachedIn(history'[p], n)
        /\ failureReason'[p] \in {failureReason[p], r.reason}
        /\ r.next # Failed => failureReason'[p] = failureReason[p]
        /\ r.next = Failed => failureReason'[p] = r.reason
    BY <1>0, <1>1, <2>4
  <2>8. ASSUME NEW o \in Orders PROVE Kept(o)
    BY <2>3, <2>4, <2>5, <2>6, <2>7
  <2> QED
    BY <2>4, <2>8
<1>4. ASSUME NEW i \in Instances, NEW p \in Orders, ExpireOrder(i, p)
      PROVE  clock' = clock /\ crashes' = crashes /\ \A o \in Orders : Kept(o)
  <2>1. /\ status[p] = Placed /\ status' = [status EXCEPT ![p] = Failed]
        /\ \E e : history' = [history EXCEPT ![p] = Append(@, e)]
        /\ failureReason' = [failureReason EXCEPT ![p] = NotAcknowledged]
        /\ UNCHANGED <<placedAt, clock, crashes>>
    BY <1>4 DEF ExpireOrder, Expirable
  <2>2. \A o \in Orders : o # p => /\ status'[o] = status[o] /\ history'[o] = history[o]
                                  /\ failureReason'[o] = failureReason[o]
    BY <1>0, <2>1
  <2>3. /\ status'[p] = Failed /\ \A n : ReachedIn(history[p], n) => ReachedIn(history'[p], n)
        /\ failureReason'[p] = NotAcknowledged
    BY <1>0, <1>1, <2>1
  <2>4. Placed # Absent /\ Failed # Absent
    BY DEF Placed, Absent, Failed
  <2>5. ASSUME NEW o \in Orders PROVE Kept(o)
    BY <2>1, <2>2, <2>3, <2>4
  <2> QED
    BY <2>1, <2>5
<1>5. UNCHANGED dbVars => \A o \in Orders : Kept(o)
  BY DEF dbVars
<1>6. ASSUME \/ \E p \in Orders : CheckoutStep(p) \/ \E l \in Levels : JobStep(p, l)
             \/ \E d \in Desks :
                  \/ Request(d) \/ LoseRace(d) \/ WriteFails(d) \/ AuditMove(d)
                  \/ NotifyMove(d) \/ \E l \in Levels : CancelAfterMove(d, l)
             \/ UNCHANGED vars
      PROVE  UNCHANGED dbVars /\ clock' = clock /\ crashes' = crashes
  <2>1. ASSUME NEW p \in Orders, CheckoutStep(p)
        PROVE  UNCHANGED dbVars /\ clock' = clock /\ crashes' = crashes
    BY <2>1 DEF CheckoutStep, NotifyCustomer, NotifyBranch, ScheduleRung
  <2>2. ASSUME NEW p \in Orders, NEW l \in Levels, JobStep(p, l)
        PROVE  UNCHANGED dbVars /\ clock' = clock /\ crashes' = crashes
    BY <2>2 DEF JobStep, PickJob, PickFails, SendChase, FinishJob, FinishFails, envVars
  <2>3. ASSUME NEW d \in Desks,
               \/ Request(d) \/ LoseRace(d) \/ WriteFails(d) \/ AuditMove(d)
               \/ NotifyMove(d) \/ \E l \in Levels : CancelAfterMove(d, l)
        PROVE  UNCHANGED dbVars /\ clock' = clock /\ crashes' = crashes
    BY <2>3 DEF Request, ReadOrder, LoseRace, WriteFails, AuditMove, NotifyMove,
                CancelAfterMove, envVars
  <2>4. UNCHANGED vars => UNCHANGED dbVars /\ clock' = clock /\ crashes' = crashes
    BY DEF vars, envVars
  <2> QED
    BY <1>6, <2>1, <2>2, <2>3, <2>4
<1>7. ASSUME NEW i \in Instances,
             \/ StartSweep(i) \/ \E p \in Orders : SkipOrder(i, p)
             \/ AuditExpiry(i) \/ MailApology(i) \/ NotifyExpired(i)
             \/ \E l \in Levels : CancelAfterExpiry(i, l)
      PROVE  UNCHANGED dbVars /\ clock' = clock /\ crashes' = crashes
  BY <1>7 DEF StartSweep, SkipOrder, AuditExpiry, MailApology, NotifyExpired,
              CancelAfterExpiry, envVars
<1>8. ASSUME NEW i \in Instances, Crash(i) \/ Redeploy(i)
      PROVE  UNCHANGED dbVars /\ clock' = clock /\ crashes' = crashes + 1
  BY <1>8 DEF Crash, Redeploy
<1>9. ASSUME Tick
      PROVE  UNCHANGED dbVars /\ clock' = clock + 1 /\ crashes' = crashes
  BY <1>9 DEF Tick
<1> HIDE DEF Kept
<1>10. /\ clock' >= clock /\ clock' \in Nat /\ crashes' >= crashes
       /\ \A o \in Orders : Kept(o)
  BY <1>0, <1>2, <1>3, <1>4, <1>5, <1>6, <1>7, <1>8, <1>9 DEF Next, DeskStep, SweepStep
<1> QED
  BY <1>10 DEF Kept

\* The checkout has less and less to say and to schedule.
LEMMA HowCheckoutsMove ==
  ASSUME LifecycleInv, [Next]_vars, NEW o \in Orders
  PROVE  /\ checkout'[o].pc = "customer" => checkout[o].pc = "customer" \/ status[o] = Absent
         /\ \A l \in Levels : ToSchedule(o, l)' => ToSchedule(o, l) \/ status[o] = Absent
         /\ checkout[o].pc = "idle" /\ status'[o] = Absent => checkout'[o].pc = "idle"
<1> DEFINE Fewer ==
      /\ checkout'[o].pc = "customer" => checkout[o].pc = "customer" \/ status[o] = Absent
      /\ \A l \in Levels : ToSchedule(o, l)' => ToSchedule(o, l) \/ status[o] = Absent
      /\ checkout[o].pc = "idle" /\ status'[o] = Absent => checkout'[o].pc = "idle"
<1>0. TypeOK /\ checkout \in [Orders -> Checkouts] /\ status \in [Orders -> Statuses \union {Absent}]
  BY DEF LifecycleInv, TypeOK
<1>1. PICK c \in Checkouts : c = checkout[o]
  BY <1>0
<1>2. UNCHANGED checkout => Fewer
  BY DEF ToSchedule
<1>3. NoCheckout.pc = "idle"
  BY DEF NoCheckout
<1>4. checkout'[o] = NoCheckout => Fewer
  BY <1>3 DEF ToSchedule
<1>5. ASSUME NEW p \in Orders, NEW i \in Instances, Place(p, i)
      PROVE  Fewer
  <2>1. CASE p = o
    <3>1. status[o] = Absent /\ status'[o] = Placed /\ Placed # Absent
      BY <1>0, <1>5, <2>1 DEF Place, Placed, Absent
    <3> QED
      BY <3>1
  <2>2. CASE p # o
    <3>1. checkout'[o] = checkout[o]
      BY <1>0, <1>5, <2>2 DEF Place
    <3> QED
      BY <3>1 DEF ToSchedule
  <2> QED
    BY <2>1, <2>2
<1>6. ASSUME NEW p \in Orders, CheckoutStep(p)
      PROVE  Fewer
  <2>1. CASE p # o
    <3>1. checkout'[o] = checkout[o]
      BY <1>0, <1>6, <2>1 DEF CheckoutStep, NotifyCustomer, NotifyBranch, ScheduleRung
    <3> QED
      BY <3>1 DEF ToSchedule
  <2>2. CASE p = o /\ NotifyCustomer(p)
    <3>1. c.pc = "customer" /\ checkout'[o] = [c EXCEPT !.pc = "branch"]
      BY <1>0, <1>1, <2>2 DEF NotifyCustomer
    <3>2. [c EXCEPT !.pc = "branch"].pc = "branch"
      BY DEF Checkouts
    <3> QED
      BY <1>1, <3>1, <3>2 DEF ToSchedule
  <2>3. CASE p = o /\ NotifyBranch(p)
    <3>1. /\ c.pc = "branch"
          /\ checkout'[o] = IF Levels = {} THEN NoCheckout ELSE [c EXCEPT !.pc = "schedule"]
      BY <1>0, <1>1, <2>3 DEF NotifyBranch
    <3>2. [c EXCEPT !.pc = "schedule"].pc = "schedule"
      BY DEF Checkouts
    <3>3. checkout'[o].pc \in {"idle", "schedule"}
      BY <1>3, <3>1, <3>2
    <3> QED
      BY <1>1, <3>1, <3>3 DEF ToSchedule
  <2>4. ASSUME p = o, NEW k \in Levels, ScheduleRung(p, k)
        PROVE  Fewer
    <3> DEFINE less == [c EXCEPT !.left = @ \ {k}]
    <3>1. /\ c.pc = "schedule" /\ k \in c.left
          /\ checkout'[o] = NoCheckout \/ checkout'[o] = less
      BY <1>0, <1>1, <2>4 DEF ScheduleRung
    <3>2. less.pc = c.pc /\ less.left \subseteq c.left
      BY DEF Checkouts
    <3> HIDE DEF less
    <3>3. CASE checkout'[o] = less
      BY <1>1, <3>1, <3>2, <3>3 DEF ToSchedule
    <3> QED
      BY <1>4, <3>1, <3>3
  <2> QED
    BY <1>6, <2>1, <2>2, <2>3, <2>4 DEF CheckoutStep
<1>7. ASSUME NEW i \in Instances, Crash(i)
      PROVE  Fewer
  <2>1. checkout'[o] = checkout[o] \/ checkout'[o] = NoCheckout
    BY <1>7 DEF Crash
  <2> QED
    BY <1>4, <2>1 DEF ToSchedule
<1>8. ASSUME \/ \E p \in Orders, l \in Levels : JobStep(p, l)
             \/ \E d \in Desks : Request(d)
             \/ Tick \/ \E i \in Instances : Redeploy(i)
             \/ UNCHANGED vars
      PROVE  UNCHANGED checkout
  BY <1>8
  DEF JobStep, PickJob, PickFails, SendChase, FinishJob, FinishFails, Request, ReadOrder, Tick,
      Redeploy, procVars, vars
<1>11. ASSUME NEW d \in Desks, DeskStep(d)
       PROVE  UNCHANGED checkout
  BY <1>11 DEF DeskStep, WriteStatus, LoseRace, WriteFails, AuditMove, NotifyMove,
               CancelAfterMove
<1>9. ASSUME NEW i \in Instances, SweepStep(i)
      PROVE  UNCHANGED checkout
  BY <1>9 DEF SweepStep, StartSweep, ExpireOrder, SkipOrder, AuditExpiry, MailApology,
              NotifyExpired, CancelAfterExpiry
<1> HIDE DEF Fewer
<1>10. Fewer
  BY <1>2, <1>5, <1>6, <1>7, <1>8, <1>9, <1>11 DEF Next
<1> QED
  BY <1>10 DEF Fewer

\* What an order has still before it, it did not go through.
LEMMA StillAhead ==
  ASSUME TypeOK, HistoryIsPath, MovesRise, NEW o \in Orders, status[o] # Absent,
         NEW n, Rank(status[o]) < Rank(n)
  PROVE  ~ReachedIn(history[o], n)
<1> SUFFICES ASSUME NEW k \in 1 .. Len(history[o]), history[o][k].status = n PROVE FALSE
  BY DEF ReachedIn
<1> DEFINE h == history[o]
<1>1. h \in Seq(Events) /\ h[Len(h)].status = status[o]
  BY DEF TypeOK, HistoryIsPath, Book!HistoryIsPath, Book!Absent, Absent
<1>2. CASE k = Len(h)
  BY <1>1, <1>2, RankIsNat
<1>3. CASE k # Len(h)
  <2> DEFINE m == Move(h[k].status, h[k + 1].status, h[k + 1].by)
  <2>1. k \in 1 .. (Len(h) - 1)
    BY <1>1, <1>3
  <2>2. m \in MovesOf(h) /\ m.from = n
    BY <2>1 DEF MovesOf, Move
  <2>3. Rank(n) < Rank(status[o])
    BY <2>2 DEF MovesRise
  <2> QED
    BY <2>3, RankIsNat
<1> QED
  BY <1>2, <1>3

\* A request comes to tell a status only by making the order reach it.
Reaches(d, o, n) ==
  /\ ~ReachedIn(history[o], n) /\ ReachedIn(history'[o], n)
  /\ UNCHANGED told /\ \A e \in Desks : e # d => desk'[e] = desk[e]

LEMMA WriteReaches ==
  ASSUME LifecycleInv, HistoryIsPath, TrailInv, NEW d \in Desks, WriteStatus(d)
  PROVE  /\ Reaches(d, desk[d].order, desk[d].next)
         /\ \A o, n : Telling(d, o, n)' => o = desk[d].order /\ n = desk[d].next
<1>0. /\ TypeOK /\ RequestsAreValid /\ MovesRise /\ desk \in [Desks -> Requests]
      /\ history \in [Orders -> Seq(Events)]
  BY DEF LifecycleInv, TypeOK, TrailInv
<1>1. PICK r \in Requests, o \in Orders : r = desk[d] /\ o = r.order /\ r.pc = "write"
  BY <1>0 DEF WriteStatus, RequestsAreValid
<1>2. /\ r.next \in Statuses /\ r.from \in Statuses
      /\ \/ r.next = Failed /\ r.from \in Book!Open
         \/ <<r.from, r.next>> \in Book!Forward(Fulfilment[o])
  BY <1>0, <1>1 DEF RequestsAreValid
<1> DEFINE e == Event(r.next, d, r.reason)
<1>3. /\ status[o] = r.from /\ UNCHANGED told
      /\ history' = [history EXCEPT ![o] = Append(@, e)]
      /\ desk' = [desk EXCEPT ![d].pc = "audit"] \/ desk' = [desk EXCEPT ![d] = NoRequest]
  BY <1>1 DEF WriteStatus, StillAsRead
<1>4. Rank(r.from) < Rank(r.next)
  <2>1. Fulfilment[o] \in Fulfilments
    BY ConstantsAssumption
  <2> QED
    BY <1>2, <2>1, ForwardRises, FailingRises
<1>5. r.from # Absent
  BY <1>2 DEF Statuses, Absent, Placed, Completed, Failed
<1>6. ~ReachedIn(history[o], r.next)
  BY <1>0, <1>3, <1>4, <1>5, StillAhead
<1>7. ReachedIn(history'[o], r.next)
  <2>1. history'[o] = Append(history[o], e) /\ history[o] \in Seq(Events) /\ e.status = r.next
    BY <1>0, <1>3 DEF Event
  <2> HIDE DEF e
  <2>2. /\ Len(history'[o]) \in 1 .. Len(history'[o])
        /\ history'[o][Len(history'[o])] = e
    BY <2>1
  <2> QED
    BY <2>1, <2>2 DEF ReachedIn
<1>8. desk'[d] = [r EXCEPT !.pc = "audit"] \/ desk'[d] = NoRequest
  BY <1>0, <1>1, <1>3
<1>9. \A p, n : Telling(d, p, n)' => p = o /\ n = r.next
  BY <1>1, <1>8 DEF Telling, NoRequest, Requests
<1>10. \A k \in Desks : k # d => desk'[k] = desk[k]
  BY <1>0, <1>3
<1> QED
  BY <1>1, <1>3, <1>6, <1>7, <1>9, <1>10 DEF Reaches

LEMMA HowTellersMove ==
  ASSUME LifecycleInv, HistoryIsPath, TrailInv, [Next]_vars,
         NEW d \in Desks, NEW o, NEW n, Telling(d, o, n)'
  PROVE  Telling(d, o, n) \/ Reaches(d, o, n)
<1>0. TypeOK /\ desk \in [Desks -> Requests] /\ desk[d] \in Requests
  BY DEF LifecycleInv, TypeOK
<1>1. CASE desk'[d] = desk[d]
  BY <1>1 DEF Telling
<1>2. CASE desk'[d] # desk[d]
  <2>1. desk'[d] # NoRequest
    BY DEF Telling, NoRequest
  <2>2. ASSUME NEW e \in Desks, e # d, Request(e) \/ DeskStep(e)
        PROVE  desk'[d] = desk[d]
    BY <1>0, <2>2
    DEF Request, ReadOrder, DeskStep, WriteStatus, LoseRace, WriteFails, AuditMove,
        NotifyMove, CancelAfterMove
  <2>3. CASE Request(d)
    <3>1. desk'[d].pc = "write"
      BY <1>0, <2>3 DEF Request, ReadOrder
    <3> QED
      BY <3>1 DEF Telling
  <2>4. CASE WriteStatus(d)
    BY <2>4, WriteReaches
  <2>5. CASE LoseRace(d) \/ WriteFails(d)
    BY <1>0, <2>1, <2>5 DEF LoseRace, WriteFails
  <2>6. CASE AuditMove(d)
    <3>1. desk[d].pc = "audit" /\ desk'[d] = [desk[d] EXCEPT !.pc = "notify"]
      BY <1>0, <2>6 DEF AuditMove
    <3>2. desk'[d].order = desk[d].order /\ desk'[d].next = desk[d].next
      BY <1>0, <3>1 DEF Requests
    <3> QED
      BY <3>1, <3>2 DEF Telling
  <2>7. CASE NotifyMove(d)
    <3>1. desk'[d] = [desk[d] EXCEPT !.pc = "cancel"]
      BY <1>0, <2>1, <2>7 DEF NotifyMove
    <3>2. desk'[d].pc = "cancel"
      BY <1>0, <3>1 DEF Requests
    <3> QED
      BY <3>2 DEF Telling
  <2>8. ASSUME NEW l \in Levels, CancelAfterMove(d, l)
        PROVE  FALSE
    <3>1. desk[d].pc = "cancel" /\ desk'[d] = [desk[d] EXCEPT !.left = @ \ {l}]
      BY <1>0, <2>1, <2>8 DEF CancelAfterMove
    <3>2. desk'[d].pc = "cancel"
      BY <1>0, <3>1 DEF Requests
    <3> QED
      BY <3>2 DEF Telling
  <2>9. ASSUME \/ \E p \in Orders, i \in Instances : Place(p, i)
               \/ \E p \in Orders : CheckoutStep(p) \/ \E l \in Levels : JobStep(p, l)
               \/ Tick \/ \E i \in Instances : Redeploy(i)
               \/ UNCHANGED vars
        PROVE  FALSE
    BY <1>2, <2>9
    DEF Place, CheckoutStep, NotifyCustomer, NotifyBranch, ScheduleRung, JobStep, PickJob,
        PickFails, SendChase, FinishJob, FinishFails, Tick, Redeploy, procVars, vars
  <2>10. ASSUME NEW i \in Instances, SweepStep(i)
         PROVE  FALSE
    BY <1>2, <2>10
    DEF SweepStep, StartSweep, ExpireOrder, SkipOrder, AuditExpiry, MailApology,
        NotifyExpired, CancelAfterExpiry
  <2>11. ASSUME NEW i \in Instances, Crash(i)
         PROVE  FALSE
    BY <1>2, <2>1, <2>11 DEF Crash
  <2> QED
    BY <1>2, <2>2, <2>3, <2>4, <2>5, <2>6, <2>7, <2>8, <2>9, <2>10, <2>11 DEF Next, DeskStep
<1> QED
  BY <1>1, <1>2

\* A pass comes to apologise only by failing the order.
Fails(i, o) ==
  /\ status[o] = Placed /\ failureReason'[o] = NotAcknowledged /\ status'[o] = Failed
  /\ UNCHANGED told /\ \A j \in Instances : j # i => sweep'[j] = sweep[j]

LEMMA HowPassesMove ==
  ASSUME LifecycleInv, [Next]_vars, NEW i \in Instances, sweep'[i].pc \in Apologising
  PROVE  \/ /\ sweep[i].pc \in Apologising /\ sweep'[i].order = sweep[i].order
            /\ sweep'[i].pc # "phone" => sweep[i].pc # "phone"
         \/ sweep'[i].order \in Orders /\ Fails(i, sweep'[i].order)
<1>0. TypeOK /\ sweep \in [Instances -> Passes]
  BY DEF LifecycleInv, TypeOK
<1>1. PICK s \in Passes : s = sweep[i]
  BY <1>0
<1>2. /\ \A todo : NextInPass(todo).pc \notin Apologising
      /\ NoSweep.pc \notin Apologising
  BY DEF NextInPass, NoSweep, Apologising
<1>3. CASE sweep'[i] = sweep[i]
  BY <1>3
<1>4. CASE sweep'[i] # sweep[i]
  <2>1. /\ \A todo : sweep'[i] # NextInPass(todo)
        /\ sweep'[i] # NoSweep
    BY <1>2
  <2>2. ASSUME NEW j \in Instances, j # i, SweepStep(j)
        PROVE  sweep'[i] = sweep[i]
    BY <1>0, <2>2
    DEF SweepStep, StartSweep, ExpireOrder, SkipOrder, AuditExpiry, MailApology,
        NotifyExpired, CancelAfterExpiry
  <2>3. CASE StartSweep(i) \/ NotifyExpired(i) \/ \E o \in Orders : SkipOrder(i, o)
    BY <1>0, <2>1, <2>3 DEF StartSweep, NotifyExpired, SkipOrder
  <2>4. ASSUME NEW o \in Orders, ExpireOrder(i, o)
        PROVE  sweep'[i].order = o /\ Fails(i, o)
    <3> DEFINE at == [pc |-> "audit", todo |-> s.todo \ {o}, order |-> o, left |-> Levels]
    <3>1. /\ status[o] = Placed /\ status' = [status EXCEPT ![o] = Failed]
          /\ failureReason' = [failureReason EXCEPT ![o] = NotAcknowledged] /\ UNCHANGED told
          /\ \/ sweep' = [sweep EXCEPT ![i] = at]
             \/ sweep' = [sweep EXCEPT ![i] = NextInPass(s.todo \ {o})]
      BY <1>1, <2>4 DEF ExpireOrder, Expirable
    <3>2. sweep'[i] = at /\ \A j \in Instances : j # i => sweep'[j] = sweep[j]
      BY <1>0, <2>1, <3>1
    <3>3. status'[o] = Failed /\ failureReason'[o] = NotAcknowledged
      BY <1>0, <3>1 DEF TypeOK
    <3> QED
      BY <3>1, <3>2, <3>3 DEF Fails
  <2>5. CASE AuditExpiry(i)
    <3>1. s.pc = "audit" /\ sweep'[i] = [s EXCEPT !.pc = IF Levels = {} THEN "mail" ELSE "cancel"]
      BY <1>0, <1>1, <2>5 DEF AuditExpiry
    <3>2. sweep'[i].order = s.order
      BY <3>1 DEF Passes
    <3> QED
      BY <1>1, <3>1, <3>2 DEF Apologising
  <2>6. CASE MailApology(i)
    <3>1. s.pc = "mail" /\ sweep'[i] = [s EXCEPT !.pc = "phone"]
      BY <1>0, <1>1, <2>6 DEF MailApology
    <3>2. sweep'[i].order = s.order
      BY <3>1 DEF Passes
    <3> QED
      BY <1>1, <3>1, <3>2 DEF Apologising
  <2>7. ASSUME NEW l \in Levels, CancelAfterExpiry(i, l)
        PROVE  sweep[i].pc = "cancel" /\ sweep'[i].order = sweep[i].order
    <3> DEFINE pc == IF s.left = {l} THEN "mail" ELSE s.pc
    <3>1. s.pc = "cancel" /\ sweep'[i] = [s EXCEPT !.left = @ \ {l}, !.pc = pc]
      BY <1>0, <1>1, <2>7 DEF CancelAfterExpiry
    <3>2. sweep'[i].order = s.order
      BY <3>1 DEF Passes
    <3> QED
      BY <1>1, <3>1, <3>2
  <2>8. ASSUME \/ \E p \in Orders, k \in Instances : Place(p, k)
               \/ \E p \in Orders : CheckoutStep(p) \/ \E l \in Levels : JobStep(p, l)
               \/ Tick \/ UNCHANGED vars
        PROVE  FALSE
    BY <1>4, <2>8
    DEF Place, CheckoutStep, NotifyCustomer, NotifyBranch, ScheduleRung, JobStep, PickJob,
        PickFails, SendChase, FinishJob, FinishFails, Tick, procVars, vars
  <2>9. ASSUME NEW d \in Desks, Request(d) \/ DeskStep(d)
        PROVE  FALSE
    BY <1>4, <2>9
    DEF Request, ReadOrder, DeskStep, WriteStatus, LoseRace, WriteFails, AuditMove,
        NotifyMove, CancelAfterMove
  <2>10. ASSUME NEW k \in Instances, Crash(k) \/ Redeploy(k)
         PROVE  FALSE
    BY <1>0, <1>4, <2>1, <2>10 DEF Crash, Redeploy
  <2> QED
    BY <1>4, <2>2, <2>3, <2>4, <2>5, <2>6, <2>7, <2>8, <2>9, <2>10
    DEF Next, SweepStep, Apologising
<1> QED
  BY <1>3, <1>4

-----------------------------------------------------------------------------
\* Each notice has one kind of sender.
LEMMA OneSender ==
  ASSUME NEW o, NEW n, Tells(o, n)
  PROVE  /\ n = "order_placed" => checkout[o].pc = "customer" /\ checkout'[o].pc # "customer"
         /\ n \in StatusNotices =>
              /\ \E d \in Desks : desk[d].pc = "notify" /\ Telling(d, o, n) /\ ~Telling(d, o, n)'
              /\ UNCHANGED history
         /\ n = "apology" =>
              \E i \in Instances :
                /\ sweep[i].pc = "mail" /\ sweep[i].order = o /\ sweep'[i].pc = "phone"
                /\ \A j \in Instances : j # i => sweep'[j] = sweep[j]
         /\ n = "order_expired" =>
              \E i \in Instances :
                /\ sweep[i].pc = "phone" /\ sweep[i].order = o /\ sweep'[i].pc \notin Apologising
                /\ \A j \in Instances : j # i => sweep'[j] = sweep[j]
         /\ n \in Levels => job[o][n].st = "sending" /\ job'[o][n].st = "sent"
<1>1. n = "order_placed" => n \notin StatusNotices \union Levels
  BY NoticesApart
<1>2. n = "apology" => n \notin StatusNotices \union Levels
  BY NoticesApart
<1>3. n = "order_expired" => n \notin StatusNotices \union Levels
  BY NoticesApart
<1>4. n \in StatusNotices =>
        n \notin {"order_placed", "new_order", "apology", "order_expired"} \union Levels
  BY NoticesApart
<1>5. n \in Levels =>
        n \notin {"order_placed", "new_order", "apology", "order_expired"} \union StatusNotices
  BY NoticesApart
<1> QED
  BY <1>1, <1>2, <1>3, <1>4, <1>5 DEF Tells

\* Of an order that is not there, nothing is told.
LEMMA NobodyTellsYet ==
  ASSUME LifecycleInv, NoticeInv, NEW o \in Orders, status[o] = Absent, NEW n
  PROVE  ~Tells(o, n)
<1>1. history[o] = <<>> /\ checkout[o].pc = "idle" /\ \A l \in Levels : job[o][l].st = "none"
  BY DEF LifecycleInv, BlankUntilPlaced, NoticeInv, PlacementTold
<1>2. \A d \in Desks : n \in StatusNotices => ~Telling(d, o, n)
  <2>1. ~ReachedIn(<<>>, n)
    BY DEF ReachedIn
  <2> QED
    BY <1>1, <2>1 DEF NoticeInv, StatusTold
<1>3. \A i \in Instances : sweep[i].pc \in Apologising => sweep[i].order # o
  BY DEF NoticeInv, ExpiryTold, Absent, Failed
<1>4. \A i \in Instances : sweep[i].pc \in {"mail", "phone"} => sweep[i].order # o
  BY <1>3 DEF Apologising
<1> QED
  BY <1>1, <1>2, <1>4 DEF Tells

LEMMA PlacementStep ==
  ASSUME LifecycleInv, NoticeInv, [Next]_vars
  PROVE  PlacementTold'
<1> SUFFICES ASSUME NEW o \in Orders
             PROVE  /\ status'[o] = Absent =>
                         /\ checkout'[o].pc = "idle"
                         /\ \A n \in Notices : told'[o][n] = 0
                         /\ \A l \in Levels : job'[o][l].st = "none"
                    /\ told'[o]["order_placed"] <= 1
                    /\ checkout'[o].pc = "customer" => told'[o]["order_placed"] = 0
  BY DEF PlacementTold
<1>0. /\ PlacementTold /\ LadderTold /\ told \in [Orders -> [Notices -> Nat]]
      /\ "order_placed" \in Notices
  BY NoticesApart DEF NoticeInv, LifecycleInv, TypeOK
<1>1. status[o] = Absent => \A n \in Notices : told'[o][n] = 0
  <2> SUFFICES ASSUME status[o] = Absent, NEW n \in Notices PROVE told'[o][n] = 0
    OBVIOUS
  <2>1. told[o][n] = 0 /\ ~Tells(o, n)
    BY <1>0, NobodyTellsYet DEF PlacementTold
  <2> QED
    BY <2>1, WhoTells
<1>2. ASSUME status'[o] = Absent
      PROVE  /\ checkout'[o].pc = "idle"
             /\ \A n \in Notices : told'[o][n] = 0
             /\ \A l \in Levels : job'[o][l].st = "none"
  <2>1. status[o] = Absent
    BY <1>2, HowOrdersMove
  <2>2. checkout[o].pc = "idle" /\ \A l \in Levels : job[o][l].st = "none"
    BY <1>0, <2>1 DEF PlacementTold
  <2>3. checkout'[o].pc = "idle"
    BY <1>2, <2>2, HowCheckoutsMove
  <2>4. ASSUME NEW l \in Levels
        PROVE  job'[o][l].st = "none"
    <3>1. JobMove(o, l) /\ NoJob.st = "none"
      BY HowJobsMove DEF NoJob
    <3>2. job[o][l].st = "none" /\ job[o][l].host = Nobody /\ ~ToSchedule(o, l)
      BY <1>0, <2>2 DEF LadderTold, ToSchedule
    <3> QED
      BY <3>1, <3>2 DEF JobMove
  <2> QED
    BY <1>1, <2>1, <2>3, <2>4
<1>3. \/ told'[o]["order_placed"] = told[o]["order_placed"]
      \/ /\ told'[o]["order_placed"] = told[o]["order_placed"] + 1
         /\ checkout[o].pc = "customer" /\ checkout'[o].pc # "customer"
  BY <1>0, WhoTells, OneSender
<1>4. told'[o]["order_placed"] <= 1
  BY <1>0, <1>3 DEF PlacementTold
<1>5. checkout'[o].pc = "customer" => told'[o]["order_placed"] = 0
  BY <1>0, <1>1, <1>3, HowCheckoutsMove DEF PlacementTold
<1> QED
  BY <1>2, <1>4, <1>5

LEMMA StatusStep ==
  ASSUME LifecycleInv, HistoryIsPath, TrailInv, NoticeInv, [Next]_vars
  PROVE  StatusTold'
<1> SUFFICES ASSUME NEW o \in Orders, NEW n \in StatusNotices
             PROVE  /\ told'[o][n] <= 1
                    /\ told'[o][n] > 0 => ReachedIn(history'[o], n)
                    /\ \A d \in Desks : Telling(d, o, n)' =>
                         ReachedIn(history'[o], n) /\ told'[o][n] = 0
                    /\ \A d, e \in Desks : Telling(d, o, n)' /\ Telling(e, o, n)' => d = e
  BY DEF StatusTold
<1>0. /\ StatusTold /\ n \in Notices /\ told[o][n] \in Nat
      /\ ReachedIn(history[o], n) => ReachedIn(history'[o], n)
  BY NoticesApart, HowOrdersMove DEF NoticeInv, LifecycleInv, TypeOK
<1>1. /\ told[o][n] <= 1
      /\ told[o][n] > 0 => ReachedIn(history[o], n)
      /\ \A d \in Desks : Telling(d, o, n) => ReachedIn(history[o], n) /\ told[o][n] = 0
      /\ \A d, e \in Desks : Telling(d, o, n) /\ Telling(e, o, n) => d = e
  BY <1>0 DEF StatusTold
<1>2. \A d \in Desks : Telling(d, o, n)' => Telling(d, o, n) \/ Reaches(d, o, n)
  BY HowTellersMove
<1>3. CASE told'[o][n] = told[o][n]
  <2>1. ASSUME NEW d \in Desks, Telling(d, o, n)'
        PROVE  ReachedIn(history'[o], n) /\ told'[o][n] = 0
    BY <1>0, <1>1, <1>2, <1>3, <2>1 DEF Reaches
  <2>2. ASSUME NEW d \in Desks, NEW e \in Desks, Telling(d, o, n)', Telling(e, o, n)', d # e
        PROVE  FALSE
    <3>1. Reaches(d, o, n) => Telling(e, o, n)
      BY <2>2 DEF Reaches, Telling
    <3>2. Reaches(e, o, n) => Telling(d, o, n)
      BY <2>2 DEF Reaches, Telling
    <3> QED
      BY <1>1, <1>2, <2>2, <3>1, <3>2 DEF Reaches
  <2> QED
    BY <1>0, <1>1, <1>3, <2>1, <2>2
<1>4. CASE told'[o][n] # told[o][n]
  <2>1. Tells(o, n) /\ told'[o][n] = told[o][n] + 1
    BY <1>0, <1>4, WhoTells
  <2>2. PICK d \in Desks : /\ Telling(d, o, n) /\ ~Telling(d, o, n)'
                           /\ UNCHANGED history
    BY <2>1, OneSender
  <2>3. \A e \in Desks : ~Telling(e, o, n)'
    BY <1>1, <1>2, <2>2 DEF Reaches
  <2> QED
    BY <1>0, <1>1, <2>1, <2>2, <2>3
<1> QED
  BY <1>3, <1>4

LEMMA ExpiryStep ==
  ASSUME LifecycleInv, NoticeInv, [Next]_vars
  PROVE  ExpiryTold'
<1>0. /\ ExpiryTold /\ PassesAreDue /\ told \in [Orders -> [Notices -> Nat]]
      /\ told' \in [Orders -> [Notices -> Nat]]
      /\ "apology" \in Notices /\ "order_expired" \in Notices
  BY NoticesApart, LifecycleStep DEF NoticeInv, LifecycleInv, TypeOK
<1>1. ASSUME NEW o \in Orders
      PROVE  /\ failureReason[o] = NotAcknowledged => failureReason'[o] = NotAcknowledged
             /\ failureReason'[o] = NotAcknowledged => status'[o] = Failed
             /\ status[o] = Placed => /\ failureReason[o] # NotAcknowledged
                                      /\ told[o]["apology"] = 0 /\ told[o]["order_expired"] = 0
  <2>1. /\ failureReason[o] = NotAcknowledged => status[o] = Failed
        /\ told[o]["apology"] + told[o]["order_expired"] > 0 => failureReason[o] = NotAcknowledged
        /\ told[o]["apology"] \in Nat /\ told[o]["order_expired"] \in Nat
        /\ Placed # Failed
    BY <1>0 DEF ExpiryTold, Placed, Failed
  <2> QED
    BY <2>1, HowOrdersMove
\* A pass that apologises for o is the only one, now.
<1>2. ASSUME NEW i \in Instances, NEW o \in Orders, sweep[i].pc \in Apologising,
             sweep[i].order = o
      PROVE  /\ failureReason[o] = NotAcknowledged
             /\ sweep[i].pc # "phone" => told[o]["apology"] = 0
             /\ told[o]["order_expired"] = 0
             /\ \A j \in Instances : sweep[j].pc \in Apologising /\ sweep[j].order = o => j = i
  BY <1>0, <1>2 DEF ExpiryTold
<1>3. "mail" \in Apologising /\ "phone" \in Apologising
  BY DEF Apologising
<1>4. ASSUME NEW o \in Orders
      PROVE  \/ told'[o]["apology"] = told[o]["apology"]
             \/ /\ told'[o]["apology"] = told[o]["apology"] + 1
                /\ \E i \in Instances :
                     /\ sweep[i].pc = "mail" /\ sweep[i].order = o /\ sweep'[i].pc = "phone"
                     /\ \A j \in Instances : j # i => sweep'[j] = sweep[j]
  BY <1>0, WhoTells, OneSender
<1>5. ASSUME NEW o \in Orders
      PROVE  \/ told'[o]["order_expired"] = told[o]["order_expired"]
             \/ /\ told'[o]["order_expired"] = told[o]["order_expired"] + 1
                /\ \E i \in Instances :
                     /\ sweep[i].pc = "phone" /\ sweep[i].order = o
                     /\ sweep'[i].pc \notin Apologising
                     /\ \A j \in Instances : j # i => sweep'[j] = sweep[j]
  BY <1>0, WhoTells, OneSender
<1>6. ASSUME NEW o \in Orders
      PROVE  /\ told'[o]["apology"] <= 1 /\ told'[o]["order_expired"] <= 1
             /\ told'[o]["apology"] + told'[o]["order_expired"] > 0 =>
                  failureReason'[o] = NotAcknowledged
  <2>1. /\ told[o]["apology"] <= 1 /\ told[o]["order_expired"] <= 1
        /\ told[o]["apology"] + told[o]["order_expired"] > 0 => failureReason[o] = NotAcknowledged
        /\ told[o]["apology"] \in Nat /\ told[o]["order_expired"] \in Nat
    BY <1>0 DEF ExpiryTold
  <2>2. told'[o]["apology"] # told[o]["apology"] =>
          /\ told'[o]["apology"] = told[o]["apology"] + 1
          /\ told[o]["apology"] = 0 /\ failureReason[o] = NotAcknowledged
    BY <1>2, <1>3, <1>4
  <2>3. told'[o]["order_expired"] # told[o]["order_expired"] =>
          /\ told'[o]["order_expired"] = told[o]["order_expired"] + 1
          /\ told[o]["order_expired"] = 0 /\ failureReason[o] = NotAcknowledged
    BY <1>2, <1>3, <1>5
  <2> QED
    BY <1>1, <2>1, <2>2, <2>3
<1>7. ASSUME NEW i \in Instances, sweep'[i].pc \in Apologising
      PROVE  /\ failureReason'[sweep'[i].order] = NotAcknowledged
             /\ sweep'[i].pc # "phone" => told'[sweep'[i].order]["apology"] = 0
             /\ told'[sweep'[i].order]["order_expired"] = 0
             /\ \A j \in Instances :
                  sweep'[j].pc \in Apologising /\ sweep'[j].order = sweep'[i].order => i = j
  <2>1. CASE /\ sweep[i].pc \in Apologising /\ sweep'[i].order = sweep[i].order
             /\ sweep'[i].pc # "phone" => sweep[i].pc # "phone"
    <3>1. PICK o \in Orders : o = sweep[i].order
      BY <1>0, <2>1 DEF PassesAreDue, Apologising
    <3>2. failureReason'[o] = NotAcknowledged
      BY <1>1, <1>2, <2>1, <3>1
    <3>3. sweep'[i].pc # "phone" => told'[o]["apology"] = 0
      BY <1>2, <1>3, <1>4, <2>1, <3>1
    <3>4. told'[o]["order_expired"] = 0
      BY <1>2, <1>3, <1>5, <1>7, <2>1, <3>1
    <3>5. ASSUME NEW j \in Instances, sweep'[j].pc \in Apologising, sweep'[j].order = o
          PROVE  i = j
      <4>1. CASE sweep[j].pc \in Apologising /\ sweep[j].order = o
        BY <1>2, <2>1, <3>1, <4>1
      <4>2. CASE Fails(j, o)
        BY <1>1, <1>2, <2>1, <3>1, <4>2 DEF Fails
      <4> QED
        BY <3>5, <4>1, <4>2, HowPassesMove
    <3> QED
      BY <2>1, <3>1, <3>2, <3>3, <3>4, <3>5
  <2>2. CASE sweep'[i].order \in Orders /\ Fails(i, sweep'[i].order)
    <3>1. PICK o \in Orders : o = sweep'[i].order
      BY <2>2
    <3>2. /\ status[o] = Placed /\ failureReason'[o] = NotAcknowledged /\ told' = told
          /\ \A j \in Instances : j # i => sweep'[j] = sweep[j]
      BY <2>2, <3>1 DEF Fails
    <3>3. told'[o]["apology"] = 0 /\ told'[o]["order_expired"] = 0
      BY <1>1, <3>2
    <3>4. ASSUME NEW j \in Instances, sweep'[j].pc \in Apologising, sweep'[j].order = o
          PROVE  i = j
      BY <1>1, <1>2, <3>2, <3>4
    <3> QED
      BY <3>1, <3>2, <3>3, <3>4
  <2> QED
    BY <1>7, <2>1, <2>2, HowPassesMove
<1> QED
  BY <1>1, <1>6, <1>7 DEF ExpiryTold

\* What broke stays broken.
LEMMA FaultsStay ==
  ASSUME TypeOK, [Next]_vars
  PROVE  faults' \in Nat /\ faults' >= faults
<1>0. faults \in Nat
  BY DEF TypeOK
<1>1. ASSUME NEW o \in Orders, CheckoutStep(o) PROVE Succeeds \/ Breaks
  BY <1>1, CallsBreak DEF CheckoutStep, NotifyCustomer, NotifyBranch, ScheduleRung
<1>2. ASSUME NEW d \in Desks, DeskStep(d) PROVE Succeeds \/ Breaks
  BY <1>2, CallsBreak
  DEF DeskStep, WriteStatus, LoseRace, WriteFails, AuditMove, WriteAudit, NotifyMove,
      CancelAfterMove, Succeeds, envVars
<1>3. ASSUME NEW i \in Instances, SweepStep(i) PROVE Succeeds \/ Breaks
  BY <1>3, CallsBreak
  DEF SweepStep, StartSweep, ExpireOrder, SkipOrder, AuditExpiry, WriteAudit, MailApology,
      NotifyExpired, CancelAfterExpiry, Succeeds, envVars
<1>4. ASSUME NEW o \in Orders, NEW l \in Levels, JobStep(o, l) PROVE Succeeds \/ Breaks
  BY <1>4, CallsBreak
  DEF JobStep, PickJob, PickFails, SendChase, FinishJob, FinishFails, Succeeds, envVars
<1>5. ASSUME \/ \E o \in Orders, i \in Instances : Place(o, i)
             \/ \E d \in Desks : Request(d)
             \/ Tick \/ \E i \in Instances : Crash(i) \/ Redeploy(i)
             \/ UNCHANGED vars
      PROVE  Succeeds
  BY <1>5 DEF Place, Request, ReadOrder, Tick, Crash, Redeploy, Succeeds, envVars, vars
<1>6. Succeeds \/ Breaks
  BY <1>1, <1>2, <1>3, <1>4, <1>5 DEF Next
<1> QED
  BY <1>0, <1>6 DEF Succeeds, Breaks

LEMMA LadderStep ==
  ASSUME LifecycleInv, NoticeInv, [Next]_vars
  PROVE  LadderTold'
<1>0. /\ LadderTold /\ PlacementTold /\ clock \in Nat /\ crashes \in Nat
      /\ told \in [Orders -> [Notices -> Nat]] /\ job \in [Orders -> [Levels -> Jobs]]
      /\ crashes' \in Nat /\ placedAt \in [Orders -> Nat]
  BY LifecycleStep DEF NoticeInv, LifecycleInv, TypeOK
<1>1. ASSUME NEW o \in Orders, status'[o] # Absent
      PROVE  placedAt'[o] <= clock'
  BY <1>0, <1>1, HowOrdersMove DEF LadderTold
<1>2. ASSUME NEW o \in Orders, NEW l \in Levels
      PROVE  /\ job'[o][l].st = "none" => job'[o][l].host = Nobody
             /\ job'[o][l].st # "none" => job'[o][l].due >= placedAt'[o] + RungAt[l]
             /\ job'[o][l].st \in {"sending", "sent"} => clock' >= placedAt'[o] + RungAt[l]
             /\ told'[o][l] > 0 => clock' >= placedAt'[o] + RungAt[l]
             /\ ToSchedule(o, l)' => told'[o][l] = 0 /\ job'[o][l].st = "none"
             /\ job'[o][l].st # "none" => told'[o][l] <= 1 + job'[o][l].stalls
             /\ job'[o][l].st \in {"delayed", "sending"} => told'[o][l] <= job'[o][l].stalls
             /\ job'[o][l].stalls <= IF NothingBroke' THEN 0 ELSE 1
             /\ told'[o][l] <= IF NothingBroke' THEN 1 ELSE 2
  <2>0. /\ l \in Notices /\ told[o][l] \in Nat /\ RungAt[l] \in Nat /\ placedAt[o] \in Nat
        /\ clock' \in Nat /\ clock' >= clock
    BY <1>0, NoticesApart, HowOrdersMove, ConstantsAssumption
  <2>8. NoJob.st = "none" /\ NoJob.host = Nobody /\ NoJob.stalls = 0
    BY DEF NoJob
  <2>9. NothingBroke' =>
          NothingBroke /\ ~(crashes' > crashes) /\ ~(faults' > faults)
    BY <1>0, HowOrdersMove, FaultsStay DEF NothingBroke, LifecycleInv, TypeOK
  <2>1. PICK j \in Jobs : j = job[o][l]
    BY <1>0
  <2>2. /\ j.st = "none" => j.host = Nobody
        /\ j.st # "none" => j.due >= placedAt[o] + RungAt[l]
        /\ j.st \in {"sending", "sent"} => clock >= placedAt[o] + RungAt[l]
        /\ told[o][l] > 0 => clock >= placedAt[o] + RungAt[l]
        /\ ToSchedule(o, l) => told[o][l] = 0 /\ j.st = "none"
        /\ j.st # "none" => told[o][l] <= 1 + j.stalls
        /\ j.st \in {"delayed", "sending"} => told[o][l] <= j.stalls
        /\ j.stalls <= IF NothingBroke THEN 0 ELSE 1
        /\ told[o][l] <= IF NothingBroke THEN 1 ELSE 2
        /\ j.due \in Nat /\ j.stalls \in Nat
    BY <1>0, <2>1 DEF LadderTold, Jobs
  <2>3. \/ told'[o][l] = told[o][l]
        \/ told'[o][l] = told[o][l] + 1 /\ j.st = "sending" /\ job'[o][l].st = "sent"
    BY <2>0, <2>1, WhoTells, OneSender
  <2>4. CASE status[o] = Absent
    <3>1. /\ checkout[o].pc = "idle" /\ told[o][l] = 0 /\ j.st = "none" /\ ~ToSchedule(o, l)
      BY <1>0, <2>0, <2>1, <2>4 DEF PlacementTold, ToSchedule
    <3>2. told'[o][l] = 0
      BY <2>3, <3>1
    <3>3. /\ job'[o][l].st = "none" /\ job'[o][l].host = Nobody
          /\ job'[o][l] \in {j, NoJob}
      <4>1. JobMove(o, l)
        BY HowJobsMove
      <4> QED
        BY <2>0, <2>1, <2>2, <2>8, <3>1, <4>1 DEF JobMove
    <3>4. job'[o][l].stalls <= IF NothingBroke' THEN 0 ELSE 1
      BY <2>0, <2>2, <2>8, <2>9, <3>3
    <3> QED
      BY <3>2, <3>3, <3>4
  <2>5. CASE status[o] # Absent
    <3>1. placedAt'[o] = placedAt[o] /\ placedAt[o] <= clock
      BY <1>0, <2>5, HowOrdersMove DEF LadderTold
    <3>2. ToSchedule(o, l)' => ToSchedule(o, l)
      BY <2>5, HowCheckoutsMove
    <3>3. told'[o][l] > 0 => clock' >= placedAt'[o] + RungAt[l]
      <4>1. told'[o][l] > 0 => clock >= placedAt[o] + RungAt[l]
        BY <2>2, <2>3
      <4> QED
        BY <1>0, <2>0, <3>1, <4>1
    <3>4. told'[o][l] <= IF NothingBroke' THEN 1 ELSE 2
      BY <2>0, <2>2, <2>3, <2>9
    <3>5. CASE job'[o][l] = j
      BY <1>0, <2>0, <2>2, <2>3, <2>9, <3>1, <3>2, <3>3, <3>4, <3>5
    <3>6. CASE job'[o][l] = NoJob
      BY <2>0, <2>2, <2>3, <2>8, <3>1, <3>2, <3>3, <3>4, <3>6
    <3>7. CASE /\ ToSchedule(o, l) /\ ~ToSchedule(o, l)'
               /\ job'[o][l].st = "delayed" /\ job'[o][l].due = clock + RungAt[l]
               /\ job'[o][l].stalls = 0
      BY <1>0, <2>0, <2>2, <2>3, <2>8, <3>1, <3>3, <3>4, <3>7
    <3>8. CASE /\ job'[o][l].due = j.due
               /\ \/ /\ job'[o][l].stalls = j.stalls
                     /\ \/ /\ j.st = "delayed" /\ job'[o][l].st = "sending"
                           /\ status[o] = Placed /\ clock >= j.due
                        \/ j.st = "delayed" /\ job'[o][l].st \in {"delayed", "failed"}
                        \/ j.st = "sending" /\ job'[o][l].st = "sent"
                  \/ /\ \/ j.host # Nobody /\ crashes' > crashes
                        \/ j.st = "sent" /\ faults' > faults
                     /\ \/ job'[o][l].st = "failed" /\ job'[o][l].stalls = j.stalls
                        \/ /\ job'[o][l].st = "delayed" /\ job'[o][l].stalls = 1
                           /\ j.stalls = 0
      <4>1. j.st # "none" /\ job'[o][l].st # "none" /\ ~ToSchedule(o, l)
        BY <2>2, <3>8
      <4>2. j.due >= placedAt[o] + RungAt[l]
        BY <2>2, <4>1
      <4>3. job'[o][l].st \in {"sending", "sent"} => clock' >= placedAt'[o] + RungAt[l]
        BY <1>0, <2>0, <2>2, <3>1, <3>8, <4>2
      <4>4. job'[o][l].stalls <= IF NothingBroke' THEN 0 ELSE 1
        BY <2>2, <2>9, <3>8
      <4>5. job'[o][l].st \in {"delayed", "sending"} => told'[o][l] <= job'[o][l].stalls
        <5>1. CASE job'[o][l].stalls = j.stalls /\ j.st = "delayed"
          BY <2>2, <2>3, <5>1
        <5>2. CASE job'[o][l].st = "delayed" /\ job'[o][l].stalls = 1 /\ j.stalls = 0
          <6>1. told'[o][l] = told[o][l]
            BY <2>3, <5>2
          <6>2. told[o][l] <= 1
            BY <2>2, <4>1, <5>2
          <6> QED
            BY <5>2, <6>1, <6>2
        <5> QED
          BY <3>8, <5>1, <5>2
      <4>6. told'[o][l] <= 1 + job'[o][l].stalls
        <5>1. told[o][l] <= 1 + j.stalls /\ j.stalls <= job'[o][l].stalls
          BY <2>2, <3>8, <4>1
        <5>2. j.st = "sending" => told[o][l] <= j.stalls
          BY <2>2
        <5>3. job'[o][l].stalls \in Nat
          BY <2>2, <3>8
        <5> QED
          BY <2>0, <2>2, <2>3, <5>1, <5>2, <5>3
      <4> QED
        BY <3>1, <3>2, <3>3, <3>4, <3>8, <4>1, <4>2, <4>3, <4>4, <4>5, <4>6
    <3> QED
      BY <2>1, <3>5, <3>6, <3>7, <3>8, HowJobsMove DEF JobMove
  <2> QED
    BY <2>4, <2>5
<1> QED
  BY <1>1, <1>2 DEF LadderTold

LEMMA NoticeInit == Init => NoticeInv
<1> SUFFICES ASSUME Init PROVE NoticeInv
  OBVIOUS
<1>1. /\ \A o \in Orders : \A n \in Notices : told[o][n] = 0
      /\ \A o \in Orders : /\ checkout[o].pc = "idle" /\ history[o] = <<>>
                           /\ failureReason[o] = NoReason /\ status[o] = Absent
      /\ \A o \in Orders, l \in Levels : job[o][l].st = "none" /\ job[o][l].host = Nobody
      /\ \A d \in Desks : desk[d].pc = "idle"
      /\ \A i \in Instances : sweep[i].pc = "idle"
      /\ NoReason # NotAcknowledged
  BY DEF Init, NoCheckout, NoJob, NoRequest, NoSweep, NoReason, NotAcknowledged
<1>2. PlacementTold
  BY <1>1, NoticesApart DEF PlacementTold
<1>3. StatusTold
  BY <1>1, NoticesApart DEF StatusTold, Telling
<1>4. ExpiryTold
  BY <1>1, NoticesApart DEF ExpiryTold, Apologising
<1>5. LadderTold
  <2>1. \A o \in Orders, l \in Levels : told[o][l] = 0 /\ job[o][l].stalls = 0
    BY <1>1, NoticesApart DEF Init, NoJob
  <2> QED
    BY <1>1, <2>1 DEF LadderTold, ToSchedule
<1> QED
  BY <1>2, <1>3, <1>4, <1>5 DEF NoticeInv

\* The notices of every behaviour have their senders.
THEOREM NoticeInvariant == Spec => []NoticeInv
<1>1. LifecycleInv /\ HistoryIsPath /\ TrailInv /\ NoticeInv /\ [Next]_vars => NoticeInv'
  BY PlacementStep, StatusStep, ExpiryStep, LadderStep DEF NoticeInv
<1> QED
  BY <1>1, NoticeInit, LifecycleInvariant, LifecycleHistoryIsPath, TrailInvariant, PTL DEF Spec

\* Nobody is told twice, and nobody is told what did not happen: a status message
\* stands for a step of the history, the apology for an order the system failed, and
\* a rung chases once, not before its time, or twice if its process died or a call
\* failed.
THEOREM NoticesAreTrue == Spec => []NoticesAreDeserved
<1>1. LifecycleInv /\ NoticeInv => NoticesAreDeserved
  <2> SUFFICES ASSUME LifecycleInv, NoticeInv, NEW o \in Orders
               PROVE  /\ \A n \in CustomerNotices : told[o][n] <= 1
                      /\ \A n \in StatusNotices :
                           told[o][n] > 0 =>
                             \E k \in 1 .. Len(history[o]) : history[o][k].status = n
                      /\ told[o]["apology"] + told[o]["order_expired"] > 0 =>
                           failureReason[o] = NotAcknowledged
                      /\ \A l \in Levels :
                           /\ told[o][l] > 0 => clock >= placedAt[o] + RungAt[l]
                           /\ told[o][l] <= IF faults = 0 /\ crashes = 0 THEN 1 ELSE 2
    BY DEF NoticesAreDeserved
  <2>1. PlacementTold /\ StatusTold /\ ExpiryTold /\ LadderTold
    BY DEF NoticeInv
  <2>2. \A n \in CustomerNotices : told[o][n] <= 1
    BY <2>1 DEF CustomerNotices, PlacementTold, StatusTold, ExpiryTold
  <2>3. \A n \in StatusNotices :
          told[o][n] > 0 => \E k \in 1 .. Len(history[o]) : history[o][k].status = n
    BY <2>1 DEF StatusTold, ReachedIn
  <2> QED
    BY <2>1, <2>2, <2>3 DEF ExpiryTold, LadderTold, NothingBroke
<1> QED
  BY <1>1, LifecycleInvariant, NoticeInvariant, PTL
=============================================================================
