--------------------------- MODULE OrderBookProofs ---------------------------
(***************************************************************************)
(* What OrderBook promises, proved for every set of orders and actors.     *)
(* The four state predicates are proved together: the path needs the types *)
(* and the verdict on expired orders needs the outcome of the others.      *)
(***************************************************************************)
EXTENDS OrderBook, TLAPS

\* Every order that was placed was placed by the system, without a reason.
OpenedBySystem ==
  \A o \in Orders :
    status[o] # Absent => history[o][1] = Event(Placed, System, NoReason)

BookInv ==
  /\ TypeOK
  /\ HistoryIsPath
  /\ OpenedBySystem
  /\ OutcomeIsConsistent
  /\ ExpiredWasNeverTouched

\* Appending to a sequence keeps what it held and puts the new element last.
LEMMA AppendFacts ==
  ASSUME NEW S, NEW s \in Seq(S), NEW e \in S
  PROVE  /\ Append(s, e) \in Seq(S)
         /\ Len(Append(s, e)) = Len(s) + 1
         /\ Append(s, e)[Len(s) + 1] = e
         /\ \A k \in 1 .. Len(s) : Append(s, e)[k] = s[k]
  OBVIOUS

\* A sequence of two elements is the pair of them.
LEMMA Pair ==
  ASSUME NEW S, NEW s \in Seq(S), Len(s) = 2
  PROVE  s = <<s[1], s[2]>>
  OBVIOUS

\* Edges of the diagram join statuses and leave none of the terminal ones.
LEMMA EdgeFacts ==
  ASSUME NEW f, NEW a, NEW b, <<a, b>> \in Edges(f)
  PROVE  a \in Open /\ b \in Statuses /\ a \notin TerminalStatuses
  BY DEF Edges, Forward, Open, Statuses, TerminalStatuses, Placed, Completed, Failed

\* A book nobody has written in keeps every promise.
LEMMA BookInit == Init => BookInv
<1> SUFFICES ASSUME Init PROVE BookInv
  OBVIOUS
<1>1. TypeOK
  BY DEF Init, TypeOK, FailureReasons
<1>2. HistoryIsPath
  BY DEF Init, HistoryIsPath
<1>5. OpenedBySystem
  BY DEF Init, OpenedBySystem
<1>3. OutcomeIsConsistent
  BY DEF Init, OutcomeIsConsistent, Absent, Completed, Failed
<1>4. ExpiredWasNeverTouched
  BY DEF Init, ExpiredWasNeverTouched, NoReason, NotAcknowledged
<1> QED
  BY <1>1, <1>2, <1>3, <1>4, <1>5 DEF BookInv

\* One entry added along an edge keeps the types and the path.
LEMMA RecordKeepsPath ==
  ASSUME TypeOK, HistoryIsPath,
         NEW o \in Orders, NEW e \in Events,
         NEW paid \in {"none", "pending", "collected"},
         NEW why \in FailureReasons \union {NoReason},
         Record(o, e, paid, why),
         \/ status[o] = Absent /\ e.status = Placed
         \/ <<status[o], e.status>> \in Edges(Fulfilment[o])
  PROVE  TypeOK' /\ HistoryIsPath'
<1> DEFINE h == history[o]
<1>1. h \in Seq(Events) /\ e.status \in Statuses /\ e.status # Absent
  BY DEF TypeOK, Events, Statuses, Absent, Placed, Completed, Failed
<1>2. /\ history'[o] = Append(h, e)
      /\ status'[o] = e.status
      /\ \A p \in Orders \ {o} : history'[p] = history[p] /\ status'[p] = status[p]
  BY DEF Record, TypeOK
<1>3. TypeOK'
  BY <1>1, <1>2 DEF Record, TypeOK
<1>4. ASSUME NEW p \in Orders
      PROVE  IF status'[p] = Absent
               THEN history'[p] = <<>>
               ELSE /\ Len(history'[p]) > 0
                    /\ history'[p][1].status = Placed
                    /\ history'[p][Len(history'[p])].status = status'[p]
                    /\ \A k \in 1 .. (Len(history'[p]) - 1) :
                         <<history'[p][k].status, history'[p][k + 1].status>>
                           \in Edges(Fulfilment[p])
  <2>1. CASE p # o
    BY <1>2, <2>1 DEF HistoryIsPath
  <2>2. CASE p = o /\ status[o] = Absent
    <3>1. h = <<>> /\ e.status = Placed
      BY <2>2, EdgeFacts DEF HistoryIsPath, Absent, Open, Placed
    <3>2. history'[o] = <<e>>
      BY <3>1, <1>2
    <3> QED
      BY <2>2, <3>1, <3>2, <1>1, <1>2
  <2>3. CASE p = o /\ status[o] # Absent
    <3>1. /\ Len(h) > 0 /\ Len(h) \in Nat
          /\ h[1].status = Placed /\ h[Len(h)].status = status[o]
          /\ \A k \in 1 .. (Len(h) - 1) :
               <<h[k].status, h[k + 1].status>> \in Edges(Fulfilment[o])
      BY <2>3, <1>1 DEF HistoryIsPath
    <3>2. <<status[o], e.status>> \in Edges(Fulfilment[o])
      BY <2>3
    <3>3. /\ Len(history'[o]) = Len(h) + 1
          /\ history'[o][Len(h) + 1] = e
          /\ \A k \in 1 .. Len(h) : history'[o][k] = h[k]
      BY <1>1, <1>2, AppendFacts
    <3>4. ASSUME NEW k \in 1 .. Len(h)
          PROVE  <<history'[o][k].status, history'[o][k + 1].status>>
                   \in Edges(Fulfilment[o])
      <4>1. CASE k = Len(h)
        <5>1. history'[o][k] = h[k] /\ history'[o][k + 1] = e
          BY <4>1, <3>1, <3>3
        <5> QED
          BY <5>1, <4>1, <3>1, <3>2
      <4>2. CASE k # Len(h)
        <5>1. k \in 1 .. (Len(h) - 1) /\ k \in 1 .. Len(h) /\ k + 1 \in 1 .. Len(h)
          BY <4>2, <3>1
        <5>2. history'[o][k] = h[k] /\ history'[o][k + 1] = h[k + 1]
          BY <5>1, <3>3
        <5> QED
          BY <5>1, <5>2, <3>1
      <4> QED
        BY <4>1, <4>2
    <3> QED
      BY <2>3, <1>1, <1>2, <3>1, <3>3, <3>4
  <2> QED
    BY <2>1, <2>2, <2>3
<1>5. HistoryIsPath'
  BY <1>4 DEF HistoryIsPath
<1> QED
  BY <1>3, <1>5

\* What an entry of the book changes, and what it leaves alone.
LEMMA RecordFacts ==
  ASSUME TypeOK, NEW o \in Orders, NEW e \in Events, NEW paid, NEW why,
         Record(o, e, paid, why)
  PROVE  /\ status'[o] = e.status /\ payment'[o] = paid /\ failureReason'[o] = why
         /\ history'[o] = Append(history[o], e)
         /\ history'[o][Len(history'[o])] = e
         /\ \A p \in Orders \ {o} :
              /\ status'[p] = status[p] /\ history'[p] = history[p]
              /\ payment'[p] = payment[p] /\ failureReason'[p] = failureReason[p]
<1>1. history'[o] = Append(history[o], e) /\ history[o] \in Seq(Events)
  BY DEF Record, TypeOK
<1>2. history'[o][Len(history'[o])] = e
  BY <1>1, AppendFacts
<1> QED
  BY <1>1, <1>2 DEF Record, TypeOK

\* An order that is placed has one entry so far: no edge leads back to `placed`.
LEMMA PlacedIsFirst ==
  ASSUME TypeOK, HistoryIsPath, NEW o \in Orders, status[o] = Placed
  PROVE  Len(history[o]) = 1
<1> DEFINE h == history[o]
<1>1. /\ h \in Seq(Events) /\ Len(h) \in Nat /\ Len(h) > 0
      /\ h[Len(h)].status = Placed
      /\ \A k \in 1 .. (Len(h) - 1) :
           <<h[k].status, h[k + 1].status>> \in Edges(Fulfilment[o])
  BY DEF TypeOK, HistoryIsPath, Absent, Placed
<1>2. \A a : <<a, Placed>> \notin Edges(Fulfilment[o])
  BY DEF Edges, Forward, Placed, Completed, Failed
<1>3. SUFFICES ASSUME Len(h) # 1 PROVE FALSE
  OBVIOUS
<1>4. Len(h) \in Nat /\ Len(h) > 0 /\ Len(h) # 1
  BY <1>1, <1>3
<1> DEFINE n == Len(h)
<1>5. n - 1 \in 1 .. (n - 1) /\ (n - 1) + 1 = n
  <2> HIDE DEF n
  <2>1. n \in Nat /\ n > 0 /\ n # 1
    BY <1>4 DEF n
  <2> QED
    BY <2>1
<1>6. <<h[n - 1].status, h[n].status>> \in Edges(Fulfilment[o])
  BY <1>1, <1>5
<1> QED
  BY <1>1, <1>2, <1>6

\* The four kinds of entry: an opening, an advance, a failure, an expiry.
Opening(o, e, paid, why) ==
  /\ status[o] = Absent /\ e = Event(Placed, System, NoReason)
  /\ paid = "pending" /\ why = NoReason

Advancing(o, e, paid, why) ==
  /\ <<status[o], e.status>> \in Forward(Fulfilment[o])
  /\ e.reason = NoReason
  /\ paid = (IF e.status = Completed THEN "collected" ELSE payment[o])
  /\ why = failureReason[o]

Failing(o, e, paid, why) ==
  /\ status[o] \in Open /\ e.status = Failed
  /\ e.reason \in StaffFailureReasons
  /\ paid = payment[o] /\ why = e.reason

Expiring(o, e, paid, why) ==
  /\ status[o] = Placed /\ e = Event(Failed, System, NotAcknowledged)
  /\ paid = payment[o] /\ why = NotAcknowledged

Kind(o, e, paid, why) ==
  \/ Opening(o, e, paid, why) \/ Advancing(o, e, paid, why)
  \/ Failing(o, e, paid, why) \/ Expiring(o, e, paid, why)

\* Every action makes one entry of one of these kinds.
LEMMA NextIsRecord ==
  ASSUME TypeOK, Next
  PROVE  \E o \in Orders, e \in Events,
            paid \in {"none", "pending", "collected"},
            why \in FailureReasons \union {NoReason} :
           Record(o, e, paid, why) /\ Kind(o, e, paid, why)
<1> DEFINE Paid == {"none", "pending", "collected"}
           Why  == FailureReasons \union {NoReason}
<1>0. /\ \A o \in Orders : payment[o] \in Paid /\ failureReason[o] \in Why
      /\ Placed \in Statuses /\ Failed \in Statuses /\ NoReason \in Why
      /\ NotAcknowledged \in Why /\ StaffFailureReasons \subseteq Why
  BY DEF TypeOK, Statuses, FailureReasons
<1>1. ASSUME NEW o \in Orders, Place(o)
      PROVE  \E e \in Events, paid \in Paid, why \in Why :
               Record(o, e, paid, why) /\ Kind(o, e, paid, why)
  <2> DEFINE e == Event(Placed, System, NoReason)
  <2>1. e \in Events /\ "pending" \in Paid
    BY <1>0 DEF Event, Events
  <2>2. Record(o, e, "pending", NoReason) /\ Kind(o, e, "pending", NoReason)
    BY <1>1 DEF Place, Kind, Opening
  <2> QED
    BY <2>1, <2>2, <1>0
<1>2. ASSUME NEW o \in Orders, NEW by \in Actors, NEW next \in Statuses,
             Advance(o, by, next)
      PROVE  \E e \in Events, paid \in Paid, why \in Why :
               Record(o, e, paid, why) /\ Kind(o, e, paid, why)
  <2> DEFINE e    == Event(next, by, NoReason)
             paid == IF next = Completed THEN "collected" ELSE payment[o]
  <2>1. /\ e \in Events /\ e.status = next /\ e.reason = NoReason
        /\ paid \in Paid
    BY <1>0 DEF Event, Events
  <2>2. Record(o, e, paid, failureReason[o])
    BY <1>2 DEF Advance
  <2>3. Kind(o, e, paid, failureReason[o])
    BY <1>2, <2>1 DEF Advance, Kind, Advancing
  <2> HIDE DEF e, paid
  <2> QED
    BY <2>1, <2>2, <2>3, <1>0
<1>3. ASSUME NEW o \in Orders, NEW by \in Actors, NEW reason \in StaffFailureReasons,
             Fail(o, by, reason)
      PROVE  \E e \in Events, paid \in Paid, why \in Why :
               Record(o, e, paid, why) /\ Kind(o, e, paid, why)
  <2> DEFINE e == Event(Failed, by, reason)
  <2>1. e \in Events /\ e.status = Failed /\ e.reason = reason
    BY <1>0 DEF Event, Events
  <2>2. Record(o, e, payment[o], reason)
    BY <1>3 DEF Fail
  <2>3. Kind(o, e, payment[o], reason)
    BY <1>3, <2>1 DEF Fail, Kind, Failing
  <2> HIDE DEF e
  <2> QED
    BY <2>1, <2>2, <2>3, <1>0
<1>4. ASSUME NEW o \in Orders, Expire(o)
      PROVE  \E e \in Events, paid \in Paid, why \in Why :
               Record(o, e, paid, why) /\ Kind(o, e, paid, why)
  <2> DEFINE e == Event(Failed, System, NotAcknowledged)
  <2>1. e \in Events
    BY <1>0 DEF Event, Events
  <2>2. Record(o, e, payment[o], NotAcknowledged)
        /\ Kind(o, e, payment[o], NotAcknowledged)
    BY <1>4 DEF Expire, Kind, Expiring
  <2> QED
    BY <2>1, <2>2, <1>0
<1> QED
  BY <1>1, <1>2, <1>3, <1>4 DEF Next

\* The opening entry stays first.
LEMMA StepKeepsOpening ==
  ASSUME TypeOK, HistoryIsPath, OpenedBySystem, Next
  PROVE  OpenedBySystem'
<1>1. PICK o \in Orders, e \in Events,
           paid \in {"none", "pending", "collected"},
           why \in FailureReasons \union {NoReason} :
        Record(o, e, paid, why) /\ Kind(o, e, paid, why)
  BY NextIsRecord
<1>0. status[o] = Absent => e = Event(Placed, System, NoReason)
  BY <1>1
  DEF Kind, Opening, Advancing, Failing, Expiring, Absent, Open, Placed, Forward,
      Completed
<1>2. /\ history'[o] = Append(history[o], e) /\ history[o] \in Seq(Events)
      /\ \A p \in Orders \ {o} : history'[p] = history[p] /\ status'[p] = status[p]
  BY <1>1, RecordFacts DEF TypeOK
<1>3. history'[o][1] = Event(Placed, System, NoReason)
  <2>1. CASE status[o] = Absent
    <3>1. history[o] = <<>>
      BY <2>1 DEF HistoryIsPath
    <3> QED
      BY <2>1, <3>1, <1>0, <1>2
  <2>2. CASE status[o] # Absent
    <3>1. history[o][1] = Event(Placed, System, NoReason) /\ 1 \in 1 .. Len(history[o])
      BY <2>2, <1>2 DEF HistoryIsPath, OpenedBySystem
    <3> QED
      BY <3>1, <1>2, AppendFacts
  <2> QED
    BY <2>1, <2>2
<1> QED
  BY <1>2, <1>3 DEF OpenedBySystem

\* Payment and reason follow the status of the order that moves.
LEMMA StepKeepsOutcome ==
  ASSUME TypeOK, HistoryIsPath, OutcomeIsConsistent, Next
  PROVE  OutcomeIsConsistent'
<1>1. PICK o \in Orders, e \in Events,
           paid \in {"none", "pending", "collected"},
           why \in FailureReasons \union {NoReason} :
        Record(o, e, paid, why) /\ Kind(o, e, paid, why)
  BY NextIsRecord
<1>2. /\ status'[o] = e.status /\ payment'[o] = paid /\ failureReason'[o] = why
      /\ history'[o][Len(history'[o])] = e
      /\ \A p \in Orders \ {o} :
           /\ status'[p] = status[p] /\ history'[p] = history[p]
           /\ payment'[p] = payment[p] /\ failureReason'[p] = failureReason[p]
  BY <1>1, RecordFacts
<1>3. /\ payment[o] = "none"      <=> status[o] = Absent
      /\ payment[o] = "collected" <=> status[o] = Completed
      /\ failureReason[o] # NoReason <=> status[o] = Failed
  BY DEF OutcomeIsConsistent
<1>4. /\ paid = "none"      <=> e.status = Absent
      /\ paid = "collected" <=> e.status = Completed
      /\ why # NoReason <=> e.status = Failed
      /\ e.status = Failed => e.reason = why
  <2>1. CASE Opening(o, e, paid, why)
    BY <2>1 DEF Opening, Event, Placed, Absent, Completed, Failed
  <2>2. CASE Advancing(o, e, paid, why)
    <3>1. /\ status[o] \in Open /\ e.status \notin {Absent, Failed}
      BY <2>2 DEF Advancing, Forward, Open, Absent, Placed, Completed, Failed
    <3>2. status[o] \notin {Absent, Completed, Failed}
      BY <3>1 DEF Open, Absent, Placed, Completed, Failed
    <3> QED
      BY <2>2, <3>1, <3>2, <1>3 DEF Advancing
  <2>3. CASE Failing(o, e, paid, why)
    <3>1. status[o] \notin {Absent, Completed, Failed}
      BY <2>3 DEF Failing, Open, Absent, Placed, Completed, Failed
    <3>2. why # NoReason
      BY <2>3 DEF Failing, StaffFailureReasons, NoReason
    <3> QED
      BY <2>3, <3>1, <3>2, <1>3 DEF Failing, Absent, Completed, Failed
  <2>4. CASE Expiring(o, e, paid, why)
    BY <2>4, <1>3
    DEF Expiring, Event, Placed, Absent, Completed, Failed, NotAcknowledged, NoReason
  <2> QED
    BY <1>1, <2>1, <2>2, <2>3, <2>4 DEF Kind
<1> QED
  BY <1>2, <1>4 DEF OutcomeIsConsistent

\* An order the system failed was still at its opening entry.
LEMMA StepKeepsVerdict ==
  ASSUME TypeOK, HistoryIsPath, OpenedBySystem, OutcomeIsConsistent,
         ExpiredWasNeverTouched, Next
  PROVE  ExpiredWasNeverTouched'
<1>1. PICK o \in Orders, e \in Events,
           paid \in {"none", "pending", "collected"},
           why \in FailureReasons \union {NoReason} :
        Record(o, e, paid, why) /\ Kind(o, e, paid, why)
  BY NextIsRecord
<1>0. why = NotAcknowledged =>
        status[o] = Placed /\ e = Event(Failed, System, NotAcknowledged)
  <2>1. CASE Opening(o, e, paid, why)
    BY <2>1 DEF Opening, NotAcknowledged, NoReason
  <2>2. CASE Advancing(o, e, paid, why)
    <3>1. status[o] # Failed
      BY <2>2 DEF Advancing, Forward, Failed, Placed, Completed
    <3> QED
      BY <2>2, <3>1 DEF Advancing, OutcomeIsConsistent, NotAcknowledged, NoReason
  <2>3. CASE Failing(o, e, paid, why)
    BY <2>3 DEF Failing, StaffFailureReasons, NotAcknowledged
  <2>4. CASE Expiring(o, e, paid, why)
    BY <2>4 DEF Expiring
  <2> QED
    BY <1>1, <2>1, <2>2, <2>3, <2>4 DEF Kind
<1>2. /\ failureReason'[o] = why /\ history'[o] = Append(history[o], e)
      /\ \A p \in Orders \ {o} :
           history'[p] = history[p] /\ failureReason'[p] = failureReason[p]
  BY <1>1, RecordFacts
<1>3. ASSUME why = NotAcknowledged
      PROVE  history'[o] = <<Event(Placed, System, NoReason),
                             Event(Failed, System, NotAcknowledged)>>
  <2>1. status[o] = Placed /\ e = Event(Failed, System, NotAcknowledged)
    BY <1>0, <1>3
  <2>2. Len(history[o]) = 1 /\ history[o] \in Seq(Events)
        /\ history[o][1] = Event(Placed, System, NoReason)
    BY <2>1, PlacedIsFirst DEF TypeOK, OpenedBySystem, Absent, Placed
  <2>3. history'[o] \in Seq(Events) /\ Len(history'[o]) = 2
        /\ history'[o][1] = Event(Placed, System, NoReason) /\ history'[o][2] = e
    BY <2>2, <1>2, AppendFacts
  <2> QED
    BY <2>1, <2>3, Pair
<1> QED
  BY <1>2, <1>3 DEF ExpiredWasNeverTouched

\* Whatever the entry, its order takes an edge of the diagram or is opened.
LEMMA StepKeepsPath ==
  ASSUME TypeOK, HistoryIsPath, Next
  PROVE  TypeOK' /\ HistoryIsPath'
<1>1. PICK o \in Orders, e \in Events,
           paid \in {"none", "pending", "collected"},
           why \in FailureReasons \union {NoReason} :
        Record(o, e, paid, why) /\ Kind(o, e, paid, why)
  BY NextIsRecord
<1>2. \/ status[o] = Absent /\ e.status = Placed
      \/ <<status[o], e.status>> \in Edges(Fulfilment[o])
  <2>1. CASE Opening(o, e, paid, why)
    BY <2>1 DEF Opening, Event
  <2>2. CASE Advancing(o, e, paid, why)
    BY <2>2 DEF Advancing, Edges
  <2>3. CASE Failing(o, e, paid, why)
    BY <2>3 DEF Failing, Edges
  <2>4. CASE Expiring(o, e, paid, why)
    BY <2>4 DEF Expiring, Edges, Event, Open
  <2> QED
    BY <1>1, <2>1, <2>2, <2>3, <2>4 DEF Kind
<1> QED
  BY <1>1, <1>2, RecordKeepsPath

LEMMA BookStep == BookInv /\ [Next]_bookVars => BookInv'
<1> SUFFICES ASSUME BookInv, [Next]_bookVars PROVE BookInv'
  OBVIOUS
<1>1. CASE Next
  BY <1>1, StepKeepsPath, StepKeepsOpening, StepKeepsOutcome, StepKeepsVerdict
  DEF BookInv
<1>2. CASE UNCHANGED bookVars
  BY <1>2
  DEF BookInv, bookVars, TypeOK, HistoryIsPath, OpenedBySystem, OutcomeIsConsistent,
      ExpiredWasNeverTouched
<1> QED
  BY <1>1, <1>2

\* The promises hold of every behaviour of the book.
THEOREM BookIsKept == Spec => []BookInv
<1> QED
  BY BookInit, BookStep, PTL DEF Spec

\* The status history of every order is a walk along the diagram, which ends at
\* its present status, for every set of orders and actors.
THEOREM BookHistoryIsPath == Spec => []HistoryIsPath
<1>1. BookInv => HistoryIsPath
  BY DEF BookInv
<1> QED
  BY <1>1, BookIsKept, PTL

\* Cash is collected on completed orders only, and every failed order says why.
THEOREM BookOutcomeIsConsistent == Spec => []OutcomeIsConsistent
<1>1. BookInv => OutcomeIsConsistent
  BY DEF BookInv
<1> QED
  BY <1>1, BookIsKept, PTL

\* An order filed as not_acknowledged was placed, was expired, and was never
\* moved by anybody else.
THEOREM BookExpiredWasNeverTouched == Spec => []ExpiredWasNeverTouched
<1>1. BookInv => ExpiredWasNeverTouched
  BY DEF BookInv
<1> QED
  BY <1>1, BookIsKept, PTL

\* No step of the book rewrites the history of an order or moves a finished one.
THEOREM BookIsAppendOnly == Spec => AppendOnly
<1> DEFINE Grows ==
      \A o \in Orders :
        /\ status[o] \in TerminalStatuses => status'[o] = status[o]
        /\ Len(history'[o]) >= Len(history[o])
        /\ \A k \in 1 .. Len(history[o]) : history'[o][k] = history[o][k]
<1>1. BookInv /\ [Next]_bookVars => [Grows]_bookVars
  <2> SUFFICES ASSUME BookInv, Next PROVE Grows
    OBVIOUS
  <2>1. TypeOK
    BY DEF BookInv
  <2>2. PICK o \in Orders, e \in Events,
             paid \in {"none", "pending", "collected"},
             why \in FailureReasons \union {NoReason} :
          Record(o, e, paid, why) /\ Kind(o, e, paid, why)
    BY <2>1, NextIsRecord
  <2>3. /\ history'[o] = Append(history[o], e) /\ history[o] \in Seq(Events)
        /\ \A p \in Orders \ {o} : history'[p] = history[p] /\ status'[p] = status[p]
    BY <2>1, <2>2, RecordFacts DEF TypeOK
  <2>4. status[o] \notin TerminalStatuses
    BY <2>2
    DEF Kind, Opening, Advancing, Failing, Expiring, Forward, Open, TerminalStatuses,
        Absent, Placed, Completed, Failed
  <2>5. /\ Len(history'[o]) = Len(history[o]) + 1 /\ Len(history[o]) \in Nat
        /\ \A k \in 1 .. Len(history[o]) : history'[o][k] = history[o][k]
    BY <2>3, AppendFacts
  <2>6. \A p \in Orders : Len(history[p]) \in Nat
    BY <2>1 DEF TypeOK
  <2> QED
    BY <2>3, <2>4, <2>5, <2>6
<1> QED
  BY <1>1, BookIsKept, PTL DEF Spec, AppendOnly

=============================================================================
