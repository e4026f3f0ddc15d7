--------------------------- MODULE OrderLifecycle ---------------------------
(***************************************************************************)
(* The life of the orders of the shop once they are stored, as every       *)
(* process of the API sees it:                                             *)
(*                                                                         *)
(*   - the tail of order.create: the two placement notices, then the two   *)
(*     escalation jobs (services/order.service.js);                        *)
(*   - staff requests moving an order (services/staffOrder.service.js);    *)
(*   - the sweep that fails orders nobody confirmed, one per process       *)
(*     (services/orderExpiry.service.js, queues/orderExpiry.js);           *)
(*   - the escalation jobs and their workers (queues/orderEscalation.js);  *)
(*   - processes that die, and processes that are redeployed (server.js).  *)
(*                                                                         *)
(* Every await of the source is a point where another process may run, so  *)
(* each handler is a sequence of actions and keeps in its own record what  *)
(* it read before.  One unit of `clock` is the smallest interval that      *)
(* matters to a deadline.                                                  *)
(***************************************************************************)
EXTENDS OrderStatus, Integers, Sequences, FiniteSets

CONSTANTS
  Orders,           \* the orders that may be placed
  Fulfilment,       \* Fulfilment[o]: delivery or pickup
  BranchOf,         \* BranchOf[o]: the branch that makes order o
  Desks,            \* staff requests in flight at the same time, by their actor
  Scope,            \* Scope[d]: the branches whose orders the actor may touch
  Instances,        \* the API processes
  Levels,           \* the rungs of the escalation ladder; {} without REDIS_URL
  RungAt,           \* RungAt[l]: minutes before rung l chases
  Fuse,             \* ORDER_AUTO_CANCEL_MINUTES
  ClosesAt,         \* ClosesAt[o]: when the branch next closes
  Reach,            \* Reach[o]: the addresses on file for order o
  StaffReasons,     \* the reason codes staff use
  MaxPerSweep,      \* the limit of the sweep's query
  MaxAttempts,      \* attempts of an escalation job
  MaxClock, MaxFaults, MaxCrashes   \* bounds on time and on what goes wrong

\* No process, no order.
Nobody == "nobody"
System == "system"
Absent == "absent"

\* The messages of notification.service.js and the apology of the sweep.  A rung
\* of the ladder names the chase it sends.
StatusNotices   == {"out_for_delivery", "ready_for_pickup", Completed}
CustomerNotices == StatusNotices \union {"order_placed", "order_expired", "apology"}
Notices         == CustomerNotices \union {"new_order"} \union Levels
Channels        == {"email", "phone", "branch", "escalation"}

\* recipientFor: the branch's own line first, the configured number after.
RecipientFor(l) == IF l = "manager" THEN "branch" ELSE "escalation"

ASSUME ConstantsAssumption ==
  /\ Fulfilment \in [Orders -> Fulfilments]
  /\ Scope \in [Desks -> SUBSET {BranchOf[o] : o \in Orders}]
  /\ Levels \subseteq {"manager", "admin"}
  /\ RungAt \in [Levels -> Nat]
  /\ Fuse \in Nat
  /\ ClosesAt \in [Orders -> Nat]
  /\ Reach \in [Orders -> SUBSET Channels]
  /\ StaffReasons \subseteq StaffFailureReasons
  /\ MaxPerSweep \in Nat \ {0}
  /\ MaxAttempts \in Nat \ {0}
  /\ {MaxClock, MaxFaults, MaxCrashes} \subseteq Nat
  /\ System \notin Desks /\ Nobody \notin Instances \union Orders
  /\ Desks \intersect Instances = {}

VARIABLES
  \* the orders collection
  status, history, payment, failureReason, placedAt,
  audit,        \* audit[o]: the AuditLog rows of order o
  told,         \* told[o][n]: how often notice n about o was delivered
  job,          \* job[o][l]: the escalation job of rung l, in Redis
  checkout,     \* checkout[o]: the request that placed o, after it stored it
  desk,         \* desk[d]: a staff request in flight
  sweep,        \* sweep[i]: the expiry pass of process i
  clock,
  faults, crashes   \* how much went wrong so far

bookVars == <<status, history, payment, failureReason>>
dbVars   == <<status, history, payment, failureReason, placedAt>>
procVars == <<checkout, desk, sweep>>
envVars  == <<clock, faults, crashes>>
vars     == <<dbVars, audit, told, job, procVars, envVars>>

-----------------------------------------------------------------------------
(***************************************************************************)
(* Records                                                                 *)
(***************************************************************************)
Event(s, by, reason) == [status |-> s, by |-> by, reason |-> reason]
Move(from, to, by)   == [from |-> from, to |-> to, by |-> by]

NoJob      == [st |-> "none", host |-> Nobody, due |-> 0, tries |-> 0, stalls |-> 0]
NoCheckout == [pc |-> "idle", host |-> Nobody, left |-> {}]
NoRequest  == [pc |-> "idle", host |-> Nobody, order |-> Nobody, from |-> Absent,
               next |-> Absent, reason |-> NoReason, left |-> {}]
NoSweep    == [pc |-> "idle", todo |-> {}, order |-> Nobody, left |-> {}]

Events ==
  [status : Statuses, by : Desks \union {System},
   reason : FailureReasons \union {NoReason}]
AuditRows == [from : Statuses, to : Statuses, by : Desks \union {System}]
Hosts     == Instances \union {Nobody}
Jobs ==
  [st : {"none", "delayed", "sending", "sent", "failed"},
   host : Hosts, due : Nat, tries : Nat, stalls : Nat]
Checkouts ==
  [pc : {"idle", "customer", "branch", "schedule"}, host : Hosts, left : SUBSET Levels]
Requests ==
  [pc : {"idle", "write", "audit", "notify", "cancel"}, host : Hosts,
   order : Orders \union {Nobody}, from : Statuses \union {Absent},
   next : Statuses \union {Absent}, reason : StaffReasons \union {NoReason},
   left : SUBSET Levels]
Passes ==
  [pc : {"idle", "write", "audit", "cancel", "mail", "phone"}, todo : SUBSET Orders,
   order : Orders \union {Nobody}, left : SUBSET Levels]

\* Every record holds what its schema, or its handler, puts in it.
TypeOK ==
  /\ status        \in [Orders -> Statuses \union {Absent}]
  /\ history       \in [Orders -> Seq(Events)]
  /\ payment       \in [Orders -> {"none", "pending", "collected"}]
  /\ failureReason \in [Orders -> FailureReasons \union {NoReason}]
  /\ placedAt      \in [Orders -> Nat]
  /\ audit         \in [Orders -> Seq(AuditRows)]
  /\ told          \in [Orders -> [Notices -> Nat]]
  /\ job           \in [Orders -> [Levels -> Jobs]]
  /\ checkout      \in [Orders -> Checkouts]
  /\ desk          \in [Desks -> Requests]
  /\ sweep         \in [Instances -> Passes]
  /\ clock \in Nat /\ faults \in Nat /\ crashes \in Nat

Init ==
  /\ status        = [o \in Orders |-> Absent]
  /\ history       = [o \in Orders |-> <<>>]
  /\ payment       = [o \in Orders |-> "none"]
  /\ failureReason = [o \in Orders |-> NoReason]
  /\ placedAt      = [o \in Orders |-> 0]
  /\ audit         = [o \in Orders |-> <<>>]
  /\ told          = [o \in Orders |-> [n \in Notices |-> 0]]
  /\ job           = [o \in Orders |-> [l \in Levels |-> NoJob]]
  /\ checkout      = [o \in Orders |-> NoCheckout]
  /\ desk          = [d \in Desks |-> NoRequest]
  /\ sweep         = [i \in Instances |-> NoSweep]
  /\ clock = 0 /\ faults = 0 /\ crashes = 0

-----------------------------------------------------------------------------
(***************************************************************************)
(* What a call may do: succeed, or fail when a fault is still to come.     *)
(***************************************************************************)
Succeeds == UNCHANGED faults
Breaks   == faults < MaxFaults /\ faults' = faults + 1

\* notify() and tellCustomer(): the message goes out when there is somewhere to
\* send it; a transport that fails is logged and swallowed.
Send(o, notice, channel) ==
  IF channel \in Reach[o]
    THEN \/ Succeeds /\ told' = [told EXCEPT ![o][notice] = @ + 1]
         \/ Breaks /\ UNCHANGED told
    ELSE Succeeds /\ UNCHANGED told

\* Mutated: only the failures are recorded.
AuditFailures(o, row) ==
  Succeeds /\ audit' = IF row.to = Failed THEN [audit EXCEPT ![o] = Append(@, row)]
                                          ELSE audit

\* audit.record(): one row, or a row that is lost and logged.
WriteAudit(o, row) ==
  \/ Succeeds /\ audit' = [audit EXCEPT ![o] = Append(@, row)]
  \/ Breaks /\ UNCHANGED audit

\* One rung of cancelOrderEscalation.  `remove` refuses a job a worker holds, and
\* every error is swallowed.
CancelJob(o, l) ==
  \/ /\ Succeeds
     /\ job' = IF job[o][l].st \in {"delayed", "failed"}
                 THEN [job EXCEPT ![o][l] = NoJob] ELSE job
  \/ Breaks /\ UNCHANGED job

\* Mutated: a job without a delay.
AtOnce(l) == clock

\* The delay of a rung.
DueAt(l) == clock + RungAt[l]

\* One q.add of scheduleOrderEscalation.  The job id is the order and the rung,
\* and BullMQ ignores an id it already holds.
AddJob(o, l) ==
  job' = IF job[o][l].st = "none"
           THEN [job EXCEPT ![o][l] =
                   [NoJob EXCEPT !.st = "delayed", !.due = DueAt(l)]]
           ELSE job

-----------------------------------------------------------------------------
(***************************************************************************)
(* order.create, from Order.create on                                      *)
(***************************************************************************)
\* The order is stored: `placed`, with that as its first event, cash pending.
Place(o, i) ==
  /\ status[o] = Absent
  /\ clock < ClosesAt[o] /\ clock <= MaxClock
  /\ status'   = [status EXCEPT ![o] = Placed]
  /\ history'  = [history EXCEPT ![o] = <<Event(Placed, System, NoReason)>>]
  /\ payment'  = [payment EXCEPT ![o] = "pending"]
  /\ placedAt' = [placedAt EXCEPT ![o] = clock]
  /\ checkout' = [checkout EXCEPT ![o] =
                    [pc |-> "customer", host |-> i, left |-> Levels]]
  /\ UNCHANGED <<failureReason, audit, told, job, desk, sweep, envVars>>

NotifyCustomer(o) ==
  /\ checkout[o].pc = "customer"
  /\ Send(o, "order_placed", "phone")
  /\ checkout' = [checkout EXCEPT ![o].pc = "branch"]
  /\ UNCHANGED <<dbVars, audit, job, desk, sweep, clock, crashes>>

NotifyBranch(o) ==
  /\ checkout[o].pc = "branch"
  /\ Send(o, "new_order", "branch")
  /\ checkout' = [checkout EXCEPT ![o] =
                    IF Levels = {} THEN NoCheckout ELSE [@ EXCEPT !.pc = "schedule"]]
  /\ UNCHANGED <<dbVars, audit, job, desk, sweep, clock, crashes>>

\* The two adds run concurrently and each may fail; the checkout succeeds anyway.
ScheduleRung(o, l) ==
  /\ checkout[o].pc = "schedule" /\ l \in checkout[o].left
  /\ \/ Succeeds /\ AddJob(o, l)
     \/ Breaks /\ UNCHANGED job
  /\ checkout' = [checkout EXCEPT ![o] =
                    IF @.left = {l} THEN NoCheckout
                    ELSE [checkout[o] EXCEPT !.left = @ \ {l}]]
  /\ UNCHANGED <<dbVars, audit, told, desk, sweep, clock, crashes>>

-----------------------------------------------------------------------------
(***************************************************************************)
(* changeStatus                                                            *)
(***************************************************************************)
\* The order is read, the actor's branch and the transition are checked against
\* that copy.  A request refused here changes nothing.
ReadOrder(d, i, o, next, reason, hasNote) ==
  /\ desk[d].pc = "idle"
  /\ status[o] # Absent
  /\ BranchOf[o] \in Scope[d]
  /\ TransitionAccepted(status[o], Fulfilment[o], next, reason, hasNote)
  /\ desk' = [desk EXCEPT ![d] =
                [pc |-> "write", host |-> i, order |-> o, from |-> status[o],
                 next |-> next, reason |-> reason, left |-> Levels]]
  /\ UNCHANGED <<dbVars, audit, told, job, checkout, sweep, envVars>>

\* Mutated: the order's status written into the payment's.
PaymentTakesStatus(o, next) == IF next = Completed THEN Completed ELSE payment[o]

\* Mutated: the cash counted when the order leaves the counter.
PaidAtHandover(o, next) == IF next \in HandoverSet THEN "collected" ELSE payment[o]

\* paymentUpdateFor: with cash on delivery, completion is collection.
PaymentAfter(o, next) == IF next = Completed THEN "collected" ELSE payment[o]

\* Mutated: the write found the order by its number alone.
WhateverItIsNow(d) == status[desk[d].order] # Absent

\* The filter of the write: an order still in the status that was validated.
StillAsRead(d) == status[desk[d].order] = desk[d].from

\* The order moves.  The branch is populated after the write: when that query, or the
\* reply to the write, is lost the request ends in a 500 with the order moved.
WriteStatus(d) ==
  LET r == desk[d]
      o == r.order
  IN /\ r.pc = "write" /\ StillAsRead(d)
     /\ status'  = [status EXCEPT ![o] = r.next]
     /\ history' = [history EXCEPT ![o] = Append(@, Event(r.next, d, r.reason))]
     /\ payment' = [payment EXCEPT ![o] = PaymentAfter(o, r.next)]
     /\ failureReason' = IF r.next = Failed
                           THEN [failureReason EXCEPT ![o] = r.reason]
                           ELSE failureReason
     /\ \/ Succeeds /\ desk' = [desk EXCEPT ![d].pc = "audit"]
        \/ Breaks /\ desk' = [desk EXCEPT ![d] = NoRequest]
     /\ UNCHANGED <<placedAt, audit, told, job, checkout, sweep, clock, crashes>>

\* Mutated: a lost race is told to the customer all the same.
LoseRaceLoudly(d) ==
  /\ desk[d].pc = "write" /\ ~StillAsRead(d)
  /\ desk' = [desk EXCEPT ![d].pc = "notify"]
  /\ UNCHANGED <<dbVars, audit, told, job, checkout, sweep, envVars>>

\* Somebody else moved it first: a 409, and nothing else happens.
LoseRace(d) ==
  /\ desk[d].pc = "write" /\ ~StillAsRead(d)
  /\ desk' = [desk EXCEPT ![d] = NoRequest]
  /\ UNCHANGED <<dbVars, audit, told, job, checkout, sweep, envVars>>

\* Mutated: the row takes its "from" off the order the write gave back.
RowFromTheDocument(d) == Move(status[desk[d].order], desk[d].next, d)

\* The row of a move: from the status read before the write.
RowOf(d) == Move(desk[d].from, desk[d].next, d)

AuditMove(d) ==
  LET r == desk[d]
  IN /\ r.pc = "audit"
     /\ WriteAudit(r.order, RowOf(d))
     /\ desk' = [desk EXCEPT ![d].pc = "notify"]
     /\ UNCHANGED <<dbVars, told, job, checkout, sweep, clock, crashes>>

\* STATUS_TEMPLATES: confirmed, preparing and failed are silent.
NotifyMove(d) ==
  LET r == desk[d]
  IN /\ r.pc = "notify"
     /\ IF r.next \in StatusNotices
          THEN Send(r.order, r.next, "phone")
          ELSE Succeeds /\ UNCHANGED told
     /\ desk' = [desk EXCEPT ![d] =
                   IF Levels = {} THEN NoRequest ELSE [@ EXCEPT !.pc = "cancel"]]
     /\ UNCHANGED <<dbVars, audit, job, checkout, sweep, clock, crashes>>

CancelAfterMove(d, l) ==
  LET r == desk[d]
  IN /\ r.pc = "cancel" /\ l \in r.left
     /\ CancelJob(r.order, l)
     /\ desk' = [desk EXCEPT ![d] =
                   IF r.left = {l} THEN NoRequest ELSE [r EXCEPT !.left = @ \ {l}]]
     /\ UNCHANGED <<dbVars, audit, told, checkout, sweep, clock, crashes>>

\* The database refuses the call: a 500, and the order is as it was.
WriteFails(d) ==
  /\ desk[d].pc = "write"
  /\ Breaks
  /\ desk' = [desk EXCEPT ![d] = NoRequest]
  /\ UNCHANGED <<dbVars, audit, told, job, checkout, sweep, clock, crashes>>

-----------------------------------------------------------------------------
(***************************************************************************)
(* The expiry sweep                                                        *)
(***************************************************************************)
\* expiryDeadline: the fuse or closing time, whichever comes first.
Deadline(o) ==
  LET fuse == placedAt[o] + Fuse
  IN IF ClosesAt[o] < fuse THEN ClosesAt[o] ELSE fuse

\* Mutated: the limit taken before the filter.
EverythingPlaced == {o \in Orders : status[o] # Absent}

\* The filter of the query.
Waiting == {o \in Orders : status[o] = Placed}

\* The rows of .sort({createdAt: 1}).limit(MAX_PER_SWEEP): either all that wait, or
\* that many of them with none older left out.
Batches ==
  {b \in SUBSET Waiting :
     /\ Cardinality(b) <= MaxPerSweep
     /\ b # Waiting => Cardinality(b) = MaxPerSweep
     /\ \A o \in b, p \in Waiting \ b : placedAt[o] <= placedAt[p]}

\* Mutated: the fuse forgotten.
TheWholeBatch(b) == b

\* Those of them past their deadline.
DueOf(b) == {o \in b : clock >= Deadline(o)}

\* Mutated: a pass whose `running` flag nobody takes down.
NeverOver(todo) == [NoSweep EXCEPT !.pc = "write", !.todo = todo]

\* After an order, the pass takes up the next one or is over.
NextInPass(todo) ==
  IF todo = {} THEN NoSweep ELSE [NoSweep EXCEPT !.pc = "write", !.todo = todo]

\* tick() when no pass of this process is running.  The clock and the orders are
\* read once; a pass that finds nothing past its deadline changes nothing.
StartSweep(i) ==
  /\ sweep[i].pc = "idle"
  /\ Fuse # 0
  /\ \E b \in Batches :
       DueOf(b) # {} /\ sweep' = [sweep EXCEPT ![i] = NextInPass(DueOf(b))]
  /\ UNCHANGED <<dbVars, audit, told, job, checkout, desk, envVars>>

\* The pass handles the oldest order first.
Heads(i) ==
  {o \in sweep[i].todo : \A p \in sweep[i].todo : placedAt[o] <= placedAt[p]}

\* Mutated: anything unfinished may be expired.
Unfinished(o) == status[o] \notin TerminalStatuses \union {Absent}

\* The filter of expireOrder's write.
Expirable(o) == status[o] = Placed

\* expireOrder: fails the order if it is still placed.  As above, what follows the
\* write may throw, and then the pass goes on without a word about this order.
ExpireOrder(i, o) ==
  /\ sweep[i].pc = "write" /\ o \in Heads(i)
  /\ Expirable(o)
  /\ status'  = [status EXCEPT ![o] = Failed]
  /\ history' = [history EXCEPT ![o] = Append(@, Event(Failed, System, NotAcknowledged))]
  /\ failureReason' = [failureReason EXCEPT ![o] = NotAcknowledged]
  /\ \/ Succeeds /\ sweep' = [sweep EXCEPT ![i] = [pc |-> "audit", todo |-> @.todo \ {o},
                                                   order |-> o, left |-> Levels]]
     \/ Breaks /\ sweep' = [sweep EXCEPT ![i] = NextInPass(@.todo \ {o})]
  /\ UNCHANGED <<payment, placedAt, audit, told, job, checkout, desk, clock, crashes>>

\* It had moved already, or the update threw and the pass goes on without it.
SkipOrder(i, o) ==
  /\ sweep[i].pc = "write" /\ o \in Heads(i)
  /\ \/ ~Expirable(o) /\ Succeeds
     \/ Breaks
  /\ sweep' = [sweep EXCEPT ![i] = NextInPass(@.todo \ {o})]
  /\ UNCHANGED <<dbVars, audit, told, job, checkout, desk, clock, crashes>>

AuditExpiry(i) ==
  /\ sweep[i].pc = "audit"
  /\ WriteAudit(sweep[i].order, Move(Placed, Failed, System))
  /\ sweep' = [sweep EXCEPT ![i].pc = IF Levels = {} THEN "mail" ELSE "cancel"]
  /\ UNCHANGED <<dbVars, told, job, checkout, desk, clock, crashes>>

CancelAfterExpiry(i, l) ==
  LET s == sweep[i]
  IN /\ s.pc = "cancel" /\ l \in s.left
     /\ CancelJob(s.order, l)
     /\ sweep' = [sweep EXCEPT ![i].left = @ \ {l},
                               ![i].pc = IF s.left = {l} THEN "mail" ELSE @]
     /\ UNCHANGED <<dbVars, audit, told, checkout, desk, clock, crashes>>

\* tellCustomer: the apology, by email.
MailApology(i) ==
  /\ sweep[i].pc = "mail"
  /\ Send(sweep[i].order, "apology", "email")
  /\ sweep' = [sweep EXCEPT ![i].pc = "phone"]
  /\ UNCHANGED <<dbVars, audit, job, checkout, desk, clock, crashes>>

\* notifyOrderExpired: the extra reach when a number is on file.
NotifyExpired(i) ==
  /\ sweep[i].pc = "phone"
  /\ Send(sweep[i].order, "order_expired", "phone")
  /\ sweep' = [sweep EXCEPT ![i] = NextInPass(@.todo)]
  /\ UNCHANGED <<dbVars, audit, job, checkout, desk, clock, crashes>>

-----------------------------------------------------------------------------
(***************************************************************************)
(* The escalation workers: processEscalation under BullMQ                  *)
(***************************************************************************)
\* Mutated: a finished job goes back into the queue.
FinishAgain(o, l) == job' = [job EXCEPT ![o][l] = [@ EXCEPT !.st = "delayed"]]

Finish(o, l) == job' = [job EXCEPT ![o][l] = NoJob]

\* Mutated: the order's status not asked for.
Reachable(o, l) == RecipientFor(l) \in Reach[o]

\* The order's own status decides, and whether anybody can be reached.
StillWanted(o, l) == status[o] = Placed /\ RecipientFor(l) \in Reach[o]

\* A worker takes a job that is due and reads the order: a chase, or nothing to do.
PickJob(i, o, l) ==
  /\ job[o][l].st = "delayed" /\ clock >= job[o][l].due
  /\ IF StillWanted(o, l)
       THEN job' = [job EXCEPT ![o][l] = [@ EXCEPT !.st = "sending", !.host = i]]
       ELSE Finish(o, l)
  /\ UNCHANGED <<dbVars, audit, told, procVars, envVars>>

\* The read threw.  The job is tried again after a backoff, or kept as failed.
PickFails(o, l) ==
  /\ job[o][l].st = "delayed" /\ clock >= job[o][l].due
  /\ Breaks
  /\ LET tries == job[o][l].tries + 1
     IN job' = [job EXCEPT ![o][l] =
                  [@ EXCEPT !.tries = tries,
                            !.st = IF tries >= MaxAttempts THEN "failed" ELSE "delayed"]]
  /\ UNCHANGED <<dbVars, audit, told, procVars, clock, crashes>>

SendChase(o, l) ==
  /\ job[o][l].st = "sending"
  /\ Send(o, l, RecipientFor(l))
  /\ job' = [job EXCEPT ![o][l] = [@ EXCEPT !.st = "sent"]]
  /\ UNCHANGED <<dbVars, audit, procVars, clock, crashes>>

\* Redis learns that the job is done, and forgets it.
FinishJob(o, l) ==
  /\ job[o][l].st = "sent"
  /\ Finish(o, l)
  /\ UNCHANGED <<dbVars, audit, told, procVars, envVars>>

\* A job nobody renews the lock of: found stalled once it is put back, and twice it
\* is failed.
Stalled(j) ==
  IF j.stalls = 0
    THEN [j EXCEPT !.st = "delayed", !.host = Nobody, !.stalls = 1]
    ELSE [j EXCEPT !.st = "failed", !.host = Nobody]

\* Redis does not learn it: the call is lost, and the job stalls with its chase out.
FinishFails(o, l) ==
  /\ job[o][l].st = "sent"
  /\ Breaks
  /\ job' = [job EXCEPT ![o][l] = Stalled(@)]
  /\ UNCHANGED <<dbVars, audit, told, procVars, clock, crashes>>

-----------------------------------------------------------------------------
(***************************************************************************)
(* Time, deaths and deploys                                                *)
(***************************************************************************)
\* Something is still to come due, so the bound does not stop the clock.
TimerRuns ==
  \/ \E o \in Orders : status[o] = Placed /\ clock < Deadline(o)
  \/ \E o \in Orders, l \in Levels : job[o][l].st = "delayed" /\ clock < job[o][l].due

Tick ==
  /\ clock < MaxClock \/ TimerRuns
  /\ clock' = clock + 1
  /\ UNCHANGED <<dbVars, audit, told, job, procVars, faults, crashes>>

\* What a process held in memory is gone; its jobs are still in Redis.
Crash(i) ==
  /\ crashes < MaxCrashes
  /\ crashes'  = crashes + 1
  /\ checkout' = [o \in Orders |->
                    IF checkout[o].host = i THEN NoCheckout ELSE checkout[o]]
  /\ desk'     = [d \in Desks |-> IF desk[d].host = i THEN NoRequest ELSE desk[d]]
  /\ sweep'    = [sweep EXCEPT ![i] = NoSweep]
  /\ job'      = [o \in Orders |-> [l \in Levels |->
                    IF job[o][l].host = i THEN Stalled(job[o][l]) ELSE job[o][l]]]
  /\ UNCHANGED <<dbVars, audit, told, clock, faults>>

\* SIGTERM on a deploy: the server waits for its requests and the worker for its
\* jobs, but nothing waits for a pass of the sweep.
Redeploy(i) ==
  /\ crashes < MaxCrashes
  /\ \A o \in Orders : checkout[o].host # i
  /\ \A d \in Desks : desk[d].host # i
  /\ \A o \in Orders, l \in Levels : job[o][l].host # i
  /\ sweep[i].pc # "idle"
  /\ crashes' = crashes + 1
  /\ sweep' = [sweep EXCEPT ![i] = NoSweep]
  /\ UNCHANGED <<dbVars, audit, told, job, checkout, desk, clock, faults>>

-----------------------------------------------------------------------------
CheckoutStep(o) ==
  \/ NotifyCustomer(o) \/ NotifyBranch(o)
  \/ \E l \in Levels : ScheduleRung(o, l)

Request(d) ==
  \E i \in Instances, o \in Orders, next \in Statuses,
     reason \in StaffReasons \union {NoReason}, hasNote \in BOOLEAN :
       ReadOrder(d, i, o, next, reason, hasNote)

DeskStep(d) ==
  \/ WriteStatus(d) \/ LoseRace(d) \/ WriteFails(d)
  \/ AuditMove(d) \/ NotifyMove(d)
  \/ \E l \in Levels : CancelAfterMove(d, l)

SweepStep(i) ==
  \/ StartSweep(i)
  \/ \E o \in Orders : ExpireOrder(i, o) \/ SkipOrder(i, o)
  \/ AuditExpiry(i) \/ MailApology(i) \/ NotifyExpired(i)
  \/ \E l \in Levels : CancelAfterExpiry(i, l)

JobStep(o, l) ==
  \/ \E i \in Instances : PickJob(i, o, l)
  \/ PickFails(o, l) \/ SendChase(o, l) \/ FinishJob(o, l) \/ FinishFails(o, l)

Next ==
  \/ \E o \in Orders, i \in Instances : Place(o, i)
  \/ \E o \in Orders : CheckoutStep(o)
  \/ \E d \in Desks : Request(d) \/ DeskStep(d)
  \/ \E i \in Instances : SweepStep(i)
  \/ \E o \in Orders, l \in Levels : JobStep(o, l)
  \/ Tick
  \/ \E i \in Instances : Crash(i) \/ Redeploy(i)

Spec == Init /\ [][Next]_vars

(***************************************************************************)
(* Once begun, a handler runs on: every await settles.  The interval fires *)
(* for as long as the process lives, the worker takes the jobs that are    *)
(* due, and time passes.  Customers and staff owe nothing.                 *)
(***************************************************************************)
Fairness ==
  /\ \A o \in Orders : WF_vars(CheckoutStep(o))
  /\ \A d \in Desks : WF_vars(DeskStep(d))
  /\ \A i \in Instances : WF_vars(SweepStep(i))
  /\ \A o \in Orders, l \in Levels : WF_vars(JobStep(o, l))
  /\ WF_vars(Tick)

FairSpec == Spec /\ Fairness

-----------------------------------------------------------------------------
(***************************************************************************)
(* Properties                                                              *)
(***************************************************************************)
Book == INSTANCE OrderBook WITH Actors <- Desks

\* Seen from outside, the order document behaves like a book in which every move
\* is one indivisible step along the diagram, whatever handlers, sweeps and dead
\* processes do in between (staffOrder.changeStatus, expireOrder).
ImplementsBook == Book!Spec

\* No two handlers ever make the history of an order leave the diagram: it walks
\* from `placed` to the present status (the conditional write of changeStatus and
\* of expireOrder).
HistoryIsPath == Book!HistoryIsPath

\* "No order cancelled after somebody accepted it": an order filed as
\* not_acknowledged was placed and then expired, past its deadline, and nothing
\* else ever happened to it (expireOrder racing changeStatus).
NoAcceptedOrderExpires ==
  /\ Book!ExpiredWasNeverTouched
  /\ \A o \in Orders :
       failureReason[o] = NotAcknowledged => clock >= Deadline(o)

\* The moves of an order, each with the handler that made it.
Moves(o) ==
  LET h == history[o]
  IN {Move(h[k].status, h[k + 1].status, h[k + 1].by) : k \in 1 .. (Len(h) - 1)}

\* Handlers that have moved the order and are about to write their audit row.
AboutToAudit(o) ==
  {d \in Desks : desk[d].pc = "audit" /\ desk[d].order = o}
    \union {i \in Instances : sweep[i].pc = "audit" /\ sweep[i].order = o}

\* The trail never lies: a row stands for one move that happened, made by that
\* actor from that status, and for no other row's; and as long as nothing broke,
\* every move has its row or a handler about to write it (audit.record after the
\* conditional write, with the status read before it).
AuditTellsTheTruth ==
  \A o \in Orders :
    LET rows == {audit[o][k] : k \in 1 .. Len(audit[o])}
    IN /\ rows \subseteq Moves(o)
       /\ Cardinality(rows) = Len(audit[o])
       /\ faults = 0 /\ crashes = 0 =>
            Cardinality(Moves(o)) = Len(audit[o]) + Cardinality(AboutToAudit(o))

\* Nobody is told twice, and nobody is told what did not happen: a status message
\* stands for a step of the history, the apology and its phone copy for an order
\* the system failed, and a rung chases once, or a second time if its process died or
\* Redis never learnt of the first (notifyStatusChange after the write, tellCustomer,
\* the job id per rung).
NoticesAreDeserved ==
  \A o \in Orders :
    /\ \A n \in CustomerNotices : told[o][n] <= 1
    /\ \A n \in StatusNotices :
         told[o][n] > 0 => \E k \in 1 .. Len(history[o]) : history[o][k].status = n
    /\ told[o]["apology"] + told[o]["order_expired"] > 0 =>
         failureReason[o] = NotAcknowledged
    /\ \A l \in Levels :
         /\ told[o][l] > 0 => clock >= placedAt[o] + RungAt[l]
         /\ told[o][l] <= IF faults = 0 /\ crashes = 0 THEN 1 ELSE 2

\* Once an order has left `placed` and the chases being sent are out, it is never
\* chased again, even by a job scheduled after the cancellation or one whose
\* cancellation failed (the re-read of processEscalation).
QuietOnceSettled ==
  [][\A o \in Orders :
       /\ status[o] \notin {Absent, Placed}
       /\ \A l \in Levels : job[o][l].st # "sending"
       => \A l \in Levels : /\ told'[o][l] = told[o][l]
                            /\ job'[o][l].st # "sending"]_vars

\* With auto-cancel on, no order waits in `placed` forever: somebody moves it, or
\* the sweep fails it, whatever breaks and whichever process dies.
NoOrderWaitsForever ==
  \A o \in Orders : status[o] = Placed ~> status[o] # Placed

\* Every escalation job is eventually done, cancelled, or kept as failed.
JobsDrain ==
  \A o \in Orders, l \in Levels :
    job[o][l].st # "none" ~> job[o][l].st \in {"none", "failed"}

\* A move is followed through: its handler writes the audit row and lets go of
\* the order, unless something breaks.
MovesAreAudited ==
  \A o \in Orders :
    status[o] \notin {Absent, Placed} ~>
      \/ faults > 0 \/ crashes > 0
      \/ Len(audit[o]) = Len(history[o]) - 1

\* README: the order is failed "and the customer is emailed an apology".
ExpiredCustomerIsTold ==
  \A o \in Orders :
    failureReason[o] = NotAcknowledged /\ "email" \in Reach[o]
      ~> told[o]["apology"] > 0

\* config/env.js on the auto-cancel: "it only ever fires when two people ignored
\* two messages".
ExpiresOnlyAfterTwoChases ==
  \A o \in Orders :
    failureReason[o] = NotAcknowledged => \A l \in Levels : told[o][l] > 0
=============================================================================
