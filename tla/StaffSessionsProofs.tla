------------------------- MODULE StaffSessionsProofs -------------------------
(***************************************************************************)
(* What holds of one account's lock, its sessions and their ends, however  *)
(* many requests are under way at once.                                    *)
(***************************************************************************)
EXTENDS StaffSessions, FiniteSetTheorems, SequenceTheorems, TLAPS

Accounts == [active : BOOLEAN, failures : Nat, locked : BOOLEAN]

Sessions == [live : BOOLEAN, parent : Nat, stale : BOOLEAN, escaped : BOOLEAN]

Ops == {"none", "login", "refresh", "changePassword", "reset", "deactivate"}

RequestRecords ==
    [pc : {"idle", "loaded", "issue", "account", "retire", "revoke"}, op : Ops,
     token : Nat, failures : Nat, locked : BOOLEAN, active : BOOLEAN,
     stale : BOOLEAN, escaped : BOOLEAN]

TypeOK ==
    /\ account \in Accounts
    /\ session \in Seq(Sessions)
    /\ request \in [Requests -> RequestRecords]
    /\ misses \in Nat /\ crossed \in BOOLEAN
    /\ \A i \in DOMAIN session : session[i].parent < i

\* Where a refresh can stand, and with which token.
RefreshesKnowTheirToken ==
    \A q \in Requests :
        /\ request[q].pc = "retire" => request[q].op = "refresh"
        /\ request[q].op = "refresh" =>
            \/ request[q].pc \in {"account", "issue", "retire"} /\ request[q].token \in DOMAIN session
            \/ request[q].pc = "revoke" /\ request[q].token = 0

\* The counter is in one hand at a time, and that hand knows it.
CounterIsExact ==
    ~crossed =>
        /\ \A p, q \in InFlight(CounterOps) : p = q
        /\ account.locked <=> misses = MaxFailures
        /\ account.locked => account.failures = 0
        /\ ~account.locked => account.failures = misses /\ misses < MaxFailures
        /\ \A q \in Requests : request[q].pc = "loaded" =>
            /\ request[q].op \in CounterOps => request[q].failures = account.failures
            /\ request[q].op = "login" => ~account.locked
            /\ request[q].op \in {"changePassword", "reset"} /\ account.locked =>
                request[q].locked

Refreshing(q, i) == request[q].op = "refresh" /\ request[q].token = i

\* A token is with one refresh at most; that one issues before it retires the
\* token, and nobody refreshes a token that has a successor.
TokenIsWithOne(i) ==
    /\ \A p, q \in Requests : Refreshing(p, i) /\ Refreshing(q, i) => p = q
    /\ \A j, k \in DOMAIN session : session[j].parent = i /\ session[k].parent = i => j = k
    /\ \A j \in DOMAIN session : session[j].parent = i =>
        /\ \A q \in Requests : Refreshing(q, i) => request[q].pc = "retire"
        /\ session[i].live => \E q \in Requests : Refreshing(q, i)

TokensAreWithOne == \A i \in DOMAIN session \ excused : TokenIsWithOne(i)

\* q is between its save and its revocation.
Cutting(q) == request[q].op # "refresh" /\ request[q].pc = "revoke"

\* What rests on old credentials has escaped the revocation, or it is yet to come.
StaleIsOnItsWayOut ==
    /\ \A i \in DOMAIN session : session[i].live /\ session[i].stale =>
        session[i].escaped \/ \E p \in Requests : Cutting(p)
    /\ \A q \in Requests : request[q].stale =>
        request[q].escaped \/ \E p \in Requests : p # q /\ Cutting(p)

SessionsInv ==
    /\ TypeOK /\ RefreshesKnowTheirToken
    /\ CounterIsExact /\ TokensAreWithOne /\ StaleIsOnItsWayOut

-----------------------------------------------------------------------------
(* The records that the actions make.                                      *)

CutSession(s) == IF s.live THEN Session(s.parent, TRUE, FALSE) ELSE s
EscapedSession(s) == [s EXCEPT !.escaped = s.stale]

LEMMA SessionRecords ==
  ASSUME NEW s \in Sessions
  PROVE  /\ Spent(s) \in Sessions /\ Spent(s).parent = s.parent /\ Spent(s).live = FALSE
         /\ CutSession(s) \in Sessions /\ CutSession(s).parent = s.parent
         /\ CutSession(s).live = s.live
         /\ EscapedSession(s) \in Sessions /\ EscapedSession(s).parent = s.parent
         /\ EscapedSession(s).live = s.live
         /\ EscapedSession(s).escaped = s.stale /\ EscapedSession(s).stale = s.stale
BY DEF Spent, CutSession, EscapedSession, Session, Sessions

LEMMA NewSession ==
  ASSUME NEW n \in Nat, NEW stale \in BOOLEAN, NEW escaped \in BOOLEAN
  PROVE  /\ Session(n, stale, escaped) \in Sessions
         /\ Session(n, stale, escaped).parent = n
         /\ Session(n, stale, escaped).live = TRUE
         /\ Session(n, stale, escaped).stale = stale
         /\ Session(n, stale, escaped).escaped = escaped
BY DEF Session, Sessions

EscapedRequest(r) == [r EXCEPT !.escaped = r.stale]
CutRequest(r, b) == [r EXCEPT !.stale = b, !.escaped = FALSE]
Issuing(r) == [r EXCEPT !.pc = "issue"]
LoggedIn(r) == [r EXCEPT !.pc = "issue", !.failures = 0]

Alike(r, s) ==
    /\ r.pc = s.pc /\ r.op = s.op /\ r.token = s.token
    /\ r.failures = s.failures /\ r.locked = s.locked

LEMMA RequestTypes ==
  ASSUME NEW r \in RequestRecords
  PROVE  /\ r.token \in Nat /\ r.failures \in Nat
         /\ r.stale \in BOOLEAN /\ r.escaped \in BOOLEAN
BY DEF RequestRecords

LEMMA ChangedRequests ==
  ASSUME NEW r \in RequestRecords, NEW b \in BOOLEAN
  PROVE  /\ EscapedRequest(r) \in RequestRecords /\ Alike(EscapedRequest(r), r)
         /\ EscapedRequest(r).stale = r.stale /\ EscapedRequest(r).escaped = r.stale
         /\ CutRequest(r, b) \in RequestRecords /\ Alike(CutRequest(r, b), r)
         /\ Issuing(r) \in RequestRecords /\ Issuing(r).pc = "issue"
         /\ Issuing(r).op = r.op /\ Issuing(r).token = r.token
         /\ Issuing(r).stale = r.stale /\ Issuing(r).escaped = r.escaped
         /\ LoggedIn(r) \in RequestRecords /\ LoggedIn(r).pc = "issue"
         /\ LoggedIn(r).op = r.op /\ LoggedIn(r).token = r.token
         /\ LoggedIn(r).stale = r.stale /\ LoggedIn(r).escaped = r.escaped
BY DEF EscapedRequest, CutRequest, Issuing, LoggedIn, Alike, RequestRecords

LEMMA IdleRecord ==
  /\ Idle \in RequestRecords /\ Idle.pc = "idle" /\ Idle.op = "none"
  /\ Idle.token = 0 /\ Idle.stale = FALSE /\ Idle.escaped = FALSE
BY DEF Idle, RequestRecords, Ops

Holding(token, stale, escaped) ==
    [Idle EXCEPT !.op = "refresh", !.pc = "account", !.token = token, !.stale = stale,
                 !.escaped = escaped]
Retiring(token) == [Idle EXCEPT !.op = "refresh", !.pc = "retire", !.token = token]
Revoking(op) == [Idle EXCEPT !.pc = "revoke", !.op = op]

LEMMA HoldingRecord ==
  ASSUME NEW token \in Nat, NEW stale \in BOOLEAN, NEW escaped \in BOOLEAN
  PROVE  /\ Holding(token, stale, escaped) \in RequestRecords
         /\ Holding(token, stale, escaped).op = "refresh"
         /\ Holding(token, stale, escaped).pc = "account"
         /\ Holding(token, stale, escaped).token = token
         /\ Holding(token, stale, escaped).stale = stale
         /\ Holding(token, stale, escaped).escaped = escaped
BY DEF Holding, Idle, RequestRecords, Ops

LEMMA RetiringRecord ==
  ASSUME NEW token \in Nat
  PROVE  /\ Retiring(token) \in RequestRecords /\ Retiring(token).op = "refresh"
         /\ Retiring(token).pc = "retire" /\ Retiring(token).token = token
         /\ Retiring(token).stale = FALSE
BY DEF Retiring, Idle, RequestRecords, Ops

LEMMA RevokingRecord ==
  ASSUME NEW op \in Ops
  PROVE  /\ Revoking(op) \in RequestRecords /\ Revoking(op).op = op
         /\ Revoking(op).pc = "revoke" /\ Revoking(op).token = 0
         /\ Revoking(op).stale = FALSE /\ Revoking(op).escaped = FALSE
BY DEF Revoking, Idle, RequestRecords

Counting(op, f, l, a) ==
    [Idle EXCEPT !.pc = "loaded", !.op = op, !.failures = f, !.locked = l, !.active = a]

LEMMA CountingRecord ==
  ASSUME NEW op \in Ops,
         NEW n \in Nat, NEW locked \in BOOLEAN, NEW active \in BOOLEAN
  PROVE  /\ Counting(op, n, locked, active) \in RequestRecords /\ Counting(op, n, locked, active).op = op
         /\ Counting(op, n, locked, active).pc = "loaded" /\ Counting(op, n, locked, active).token = 0
         /\ Counting(op, n, locked, active).stale = FALSE /\ Counting(op, n, locked, active).failures = n
         /\ Counting(op, n, locked, active).locked = locked
BY DEF Counting, Idle, RequestRecords

LEMMA LoadedRecord ==
  ASSUME TypeOK, NEW op \in Ops
  PROVE  /\ Loaded(op) \in RequestRecords /\ Loaded(op).op = op /\ Loaded(op).pc = "loaded"
         /\ Loaded(op).token = 0 /\ Loaded(op).stale = FALSE
         /\ op # "deactivate" => Loaded(op).failures = account.failures
         /\ op \in {"changePassword", "reset"} /\ account.locked => Loaded(op).locked
<1> DEFINE f == IF op = "deactivate" THEN 0 ELSE account.failures
           l == op \in {"changePassword", "reset"} /\ account.locked
           a == op = "login" => account.active
<1>1. f \in Nat /\ l \in BOOLEAN /\ a \in BOOLEAN
  BY DEF TypeOK, Accounts
<1>2. /\ op # "deactivate" => f = account.failures
      /\ op \in {"changePassword", "reset"} /\ account.locked => l
  OBVIOUS
<1>3. Loaded(op) = Counting(op, f, l, a)
  BY DEF Loaded, Counting
<1> HIDE DEF f, l, a
<1>4. /\ Counting(op, f, l, a) \in RequestRecords /\ Counting(op, f, l, a).op = op
      /\ Counting(op, f, l, a).pc = "loaded" /\ Counting(op, f, l, a).token = 0
      /\ Counting(op, f, l, a).stale = FALSE /\ Counting(op, f, l, a).failures = f
      /\ l => Counting(op, f, l, a).locked
  <2>1. \A x \in Nat, y \in BOOLEAN, z \in BOOLEAN :
          /\ Counting(op, x, y, z) \in RequestRecords /\ Counting(op, x, y, z).op = op
          /\ Counting(op, x, y, z).pc = "loaded" /\ Counting(op, x, y, z).token = 0
          /\ Counting(op, x, y, z).stale = FALSE /\ Counting(op, x, y, z).failures = x
          /\ Counting(op, x, y, z).locked = y
    BY CountingRecord
  <2> QED
    BY <1>1, <2>1
<1> QED
  BY <1>2, <1>3, <1>4

-----------------------------------------------------------------------------
(* What a step of one request leaves to the others.                        *)

Kept(p) == request'[p] \in RequestRecords /\ Alike(request'[p], request[p])

LEMMA ChangeOne ==
  ASSUME TypeOK, NEW q \in Requests, NEW r \in RequestRecords,
         request' = [request EXCEPT ![q] = r]
  PROVE  /\ request' \in [Requests -> RequestRecords] /\ request'[q] = r
         /\ \A p \in Requests : p # q => request'[p] = request[p] /\ Kept(p)
<1>1. /\ request' \in [Requests -> RequestRecords] /\ request'[q] = r
      /\ \A p \in Requests : p # q => request'[p] = request[p]
  BY DEF TypeOK
<1> QED
  BY <1>1 DEF Kept, Alike

\* Every session ends, and the other requests with old credentials escape.
LEMMA RevokedAll ==
  ASSUME TypeOK, NEW q \in Requests, RevokeAllSessions(q)
  PROVE  /\ session' \in Seq(Sessions) /\ DOMAIN session' = DOMAIN session
         /\ \A i \in DOMAIN session :
             session'[i].parent = session[i].parent /\ ~session'[i].live
         /\ request' \in [Requests -> RequestRecords]
         /\ \A p \in Requests : p # q =>
             /\ Kept(p) /\ request'[p].stale = request[p].stale
             /\ request'[p].escaped = request[p].stale
         /\ request[q].op # "changePassword" => request'[q] = Idle
         /\ request[q].op = "changePassword" =>
             /\ request'[q].pc = "issue" /\ request'[q].op = "changePassword"
             /\ request'[q].stale = request[q].stale
             /\ request'[q].escaped = request[q].escaped
<1> DEFINE e(i) == Spent(session[i])
           next == IF request[q].op = "changePassword" THEN Issuing(request[q]) ELSE Idle
           r(p) == IF p = q THEN next ELSE EscapedRequest(request[p])
<1>1. /\ session' = [i \in DOMAIN session |-> e(i)]
      /\ request' = [p \in Requests |-> r(p)]
  BY DEF RevokeAllSessions, Issuing, EscapedRequest
<1>2. \A i \in DOMAIN session : session[i] \in Sessions
  BY DEF TypeOK
<1>3. \A i \in DOMAIN session :
        e(i) \in Sessions /\ e(i).parent = session[i].parent /\ ~e(i).live
  BY <1>2, SessionRecords
<1>4. \A p \in Requests : request[p] \in RequestRecords
  BY DEF TypeOK
<1>5. /\ next \in RequestRecords
      /\ request[q].op # "changePassword" => next = Idle
      /\ request[q].op = "changePassword" =>
          /\ next.pc = "issue" /\ next.op = "changePassword"
          /\ next.stale = request[q].stale /\ next.escaped = request[q].escaped
  BY <1>4, ChangedRequests, IdleRecord
<1> HIDE DEF next
<1>6. /\ r(q) = next
      /\ \A p \in Requests : p # q =>
          /\ r(p) \in RequestRecords /\ Alike(r(p), request[p])
          /\ r(p).stale = request[p].stale /\ r(p).escaped = request[p].stale
  BY <1>4, ChangedRequests
<1> HIDE DEF e, r
<1>7. /\ request' \in [Requests -> RequestRecords]
      /\ \A p \in Requests : request'[p] = r(p)
  BY <1>1, <1>5, <1>6
<1>8. /\ session' \in Seq(Sessions) /\ DOMAIN session' = DOMAIN session
      /\ \A i \in DOMAIN session : session'[i] = e(i)
  BY <1>1, <1>3 DEF TypeOK
<1> QED
  BY <1>3, <1>5, <1>6, <1>7, <1>8 DEF Kept

\* A step that touches neither the lock nor the counter, of a request that
\* does not take the counter up.
LEMMA CounterRests ==
  ASSUME SessionsInv, account' = account, misses' = misses, crossed' = crossed,
         NEW q \in Requests, \A p \in Requests : p # q => Kept(p),
         request'[q].op \in CounterOps => request[q].op \in CounterOps,
         request'[q].pc # "loaded"
  PROVE  CounterIsExact'
BY DEF SessionsInv, CounterIsExact, InFlight, Kept, Alike

\* What a request may do with a token it refreshes, and all it can leave behind.
Follows(p) ==
    /\ request'[p].pc = "retire" => request'[p].op = "refresh"
    /\ request'[p].op = "refresh" =>
        \/ request'[p].pc = "revoke" /\ request'[p].token = 0
        \/ /\ Refreshing(p, request'[p].token)
           /\ request[p].pc \in {"account", "issue", "retire"}
           /\ request'[p].pc \in {"account", "issue", "retire"}
           /\ request[p].pc = "retire" => request'[p].pc = "retire"
    /\ request[p].op = "refresh" /\ request[p].pc = "retire" =>
        \/ request'[p].op = "refresh" /\ request'[p].token = request[p].token
        \/ request[p].token \in excused'
        \/ ~session'[request[p].token].live

LEMMA TokensRest ==
  ASSUME SessionsInv, DOMAIN session' = DOMAIN session, excused \subseteq excused',
         \A i \in DOMAIN session :
             session'[i].parent = session[i].parent /\ (session'[i].live => session[i].live),
         \A p \in Requests : Follows(p)
  PROVE  RefreshesKnowTheirToken' /\ TokensAreWithOne'
<1>1. RefreshesKnowTheirToken'
  BY DEF SessionsInv, RefreshesKnowTheirToken, Follows, Refreshing
<1>2. ASSUME NEW i \in DOMAIN session \ excused' PROVE TokenIsWithOne(i)'
  <2>1. i # 0 /\ i \in DOMAIN session \ excused
    BY DEF SessionsInv, TypeOK
  <2>2. TokenIsWithOne(i)
    BY <2>1 DEF SessionsInv, TokensAreWithOne
  <2>3. \A p \in Requests : Refreshing(p, i)' =>
          Refreshing(p, i) /\ (request[p].pc = "retire" => request'[p].pc = "retire")
    BY <2>1 DEF Refreshing, Follows
  <2>4. \A p, q \in Requests : Refreshing(p, i)' /\ Refreshing(q, i)' => p = q
    BY <2>2, <2>3 DEF TokenIsWithOne
  <2>5. \A j, k \in DOMAIN session' : session'[j].parent = i /\ session'[k].parent = i => j = k
    BY <2>2 DEF TokenIsWithOne
  <2>6. ASSUME NEW j \in DOMAIN session', session'[j].parent = i
        PROVE  /\ \A q \in Requests : Refreshing(q, i)' => request'[q].pc = "retire"
               /\ session'[i].live => \E q \in Requests : Refreshing(q, i)'
    <3>1. session[j].parent = i /\ j \in DOMAIN session
      BY <2>6
    <3>2. \A q \in Requests : Refreshing(q, i) => request[q].pc = "retire"
      BY <2>2, <3>1 DEF TokenIsWithOne
    <3>3. \A q \in Requests : Refreshing(q, i)' => request'[q].pc = "retire"
      BY <2>3, <3>2
    <3>4. ASSUME session'[i].live PROVE \E q \in Requests : Refreshing(q, i)'
      <4>1. PICK q \in Requests : Refreshing(q, i)
        BY <2>1, <2>2, <3>1, <3>4 DEF TokenIsWithOne
      <4>2. request[q].pc = "retire" /\ request[q].op = "refresh" /\ request[q].token = i
        BY <3>2, <4>1 DEF Refreshing
      <4> QED
        BY <3>4, <4>2 DEF Refreshing, Follows
    <3> QED
      BY <3>3, <3>4
  <2> QED
    BY <2>4, <2>5, <2>6 DEF TokenIsWithOne
<1> QED
  BY <1>1, <1>2 DEF TokensAreWithOne

LEMMA StaleRests ==
  ASSUME SessionsInv, DOMAIN session' = DOMAIN session,
         \A i \in DOMAIN session : session'[i].live /\ session'[i].stale =>
             /\ session[i].live /\ session[i].stale
             /\ session[i].escaped => session'[i].escaped,
         \A p \in Requests :
             /\ request'[p].stale => /\ request[p].stale
                                     /\ request[p].escaped => request'[p].escaped
             /\ Cutting(p) => Cutting(p)'
  PROVE  StaleIsOnItsWayOut'
<1>1. \A i \in DOMAIN session' : session'[i].live /\ session'[i].stale =>
        session'[i].escaped \/ \E p \in Requests : Cutting(p)'
  BY DEF SessionsInv, StaleIsOnItsWayOut
<1>2. \A q \in Requests : request'[q].stale =>
        request'[q].escaped \/ \E p \in Requests : p # q /\ Cutting(p)'
  BY DEF SessionsInv, StaleIsOnItsWayOut
<1> QED
  BY <1>1, <1>2 DEF StaleIsOnItsWayOut

-----------------------------------------------------------------------------
LEMMA SessionsInit == ASSUME Init PROVE SessionsInv
<1>1. /\ account \in Accounts /\ account.failures = 0 /\ account.locked = FALSE
      /\ misses = 0 /\ crossed = FALSE
  BY DEF Init, Accounts
<1>2. /\ session \in Seq(Sessions) /\ DOMAIN session = {1}
      /\ session[1].parent = 0 /\ session[1].stale = FALSE
  <2> DEFINE s == Session(0, FALSE, FALSE)
  <2>1. s \in Sessions /\ s.parent = 0 /\ s.stale = FALSE
    BY NewSession
  <2>2. session = <<s>>
    BY DEF Init
  <2> HIDE DEF s
  <2> QED
    BY <2>1, <2>2
<1>3. /\ request \in [Requests -> RequestRecords]
      /\ \A q \in Requests : request[q] = Idle
  BY IdleRecord DEF Init
<1>4. TypeOK
  <2>1. \A i \in DOMAIN session : session[i].parent < i
    BY <1>2
  <2> QED
    BY <1>1, <1>2, <1>3, <2>1 DEF TypeOK
<1>5. RefreshesKnowTheirToken
  BY <1>3, IdleRecord DEF RefreshesKnowTheirToken
<1>6. CounterIsExact
  BY <1>1, <1>3, IdleRecord, FailuresAssumption DEF CounterIsExact, InFlight, CounterOps
<1>7. TokensAreWithOne
  BY <1>2, <1>3, IdleRecord DEF TokensAreWithOne, TokenIsWithOne, Refreshing
<1>8. StaleIsOnItsWayOut
  BY <1>2, <1>3, IdleRecord DEF StaleIsOnItsWayOut
<1> QED
  BY <1>4, <1>5, <1>6, <1>7, <1>8 DEF SessionsInv

\* A request takes the counter up: alone, or the count is void from then on.
LEMMA TakesCounter ==
  ASSUME SessionsInv, NEW q \in Requests, NEW op \in {"login", "changePassword", "reset"},
         request[q].pc = "idle", request' = [request EXCEPT ![q] = Loaded(op)],
         NoteCrossing, op = "login" => ~account.locked,
         UNCHANGED <<account, session, excused>>
  PROVE  SessionsInv'
<1>1. TypeOK
  BY DEF SessionsInv
<1>2. /\ Loaded(op) \in RequestRecords /\ Loaded(op).op = op /\ Loaded(op).pc = "loaded"
      /\ Loaded(op).token = 0 /\ Loaded(op).stale = FALSE
      /\ Loaded(op).failures = account.failures
      /\ op \in {"changePassword", "reset"} /\ account.locked => Loaded(op).locked
  BY <1>1, LoadedRecord DEF Ops
<1>3. /\ request' \in [Requests -> RequestRecords] /\ request'[q] = Loaded(op)
      /\ \A p \in Requests : p # q => request'[p] = request[p] /\ Kept(p)
  BY <1>1, <1>2, ChangeOne
<1>4. /\ crossed' \in BOOLEAN /\ misses' \in Nat
      /\ ~crossed' => ~crossed /\ InFlight(CounterOps) = {} /\ misses' = misses
  BY <1>1 DEF NoteCrossing, TypeOK
<1>5. TypeOK'
  BY <1>1, <1>3, <1>4 DEF TypeOK
<1>6. CounterIsExact'
  <2> SUFFICES ASSUME ~crossed'
               PROVE  /\ \A p, o \in InFlight(CounterOps)' : p = o
                      /\ account'.locked <=> misses' = MaxFailures
                      /\ account'.locked => account'.failures = 0
                      /\ ~account'.locked => account'.failures = misses' /\ misses' < MaxFailures
                      /\ \A p \in Requests : request'[p].pc = "loaded" =>
                          /\ request'[p].op \in CounterOps =>
                              request'[p].failures = account'.failures
                          /\ request'[p].op = "login" => ~account'.locked
                          /\ request'[p].op \in {"changePassword", "reset"} /\ account'.locked =>
                              request'[p].locked
    BY DEF CounterIsExact
  <2>1. InFlight(CounterOps)' \subseteq {q}
    BY <1>3, <1>4 DEF InFlight
  <2>2. \A p \in Requests : p # q => request'[p].op \notin CounterOps
    BY <1>3, <1>4 DEF InFlight
  <2> QED
    BY <1>2, <1>3, <1>4, <2>1, <2>2 DEF SessionsInv, CounterIsExact, CounterOps
<1>7. RefreshesKnowTheirToken' /\ TokensAreWithOne'
  <2>1. \A p \in Requests : Follows(p)
    BY <1>2, <1>3 DEF SessionsInv, RefreshesKnowTheirToken, Follows, Refreshing
  <2> QED
    BY <2>1, TokensRest
<1>8. StaleIsOnItsWayOut'
  BY <1>2, <1>3, StaleRests DEF Cutting
<1> QED
  BY <1>5, <1>6, <1>7, <1>8 DEF SessionsInv

\* deactivate does not touch the counter.
LEMMA DeactivateReads ==
  ASSUME SessionsInv, NEW q \in Requests, request[q].pc = "idle",
         request' = [request EXCEPT ![q] = Loaded("deactivate")],
         UNCHANGED <<account, session, misses, crossed, excused>>
  PROVE  SessionsInv'
<1> DEFINE r == Loaded("deactivate")
<1>1. TypeOK
  BY DEF SessionsInv
<1>2. /\ r \in RequestRecords /\ r.op = "deactivate" /\ r.pc = "loaded"
      /\ r.token = 0 /\ r.stale = FALSE
  BY <1>1, LoadedRecord DEF Ops
<1>3. request' = [request EXCEPT ![q] = r]
  OBVIOUS
<1> HIDE DEF r
<1>4. /\ request' \in [Requests -> RequestRecords] /\ request'[q] = r
      /\ \A p \in Requests : p # q => request'[p] = request[p] /\ Kept(p)
  BY <1>1, <1>2, <1>3, ChangeOne
<1>5. TypeOK'
  BY <1>1, <1>4 DEF TypeOK
<1>6. CounterIsExact'
  BY <1>2, <1>4 DEF SessionsInv, CounterIsExact, InFlight, CounterOps
<1>7. RefreshesKnowTheirToken' /\ TokensAreWithOne'
  <2>1. \A p \in Requests : Follows(p)
    BY <1>2, <1>4 DEF SessionsInv, RefreshesKnowTheirToken, Follows, Refreshing
  <2> QED
    BY <2>1, TokensRest
<1>8. StaleIsOnItsWayOut'
  BY <1>2, <1>4, StaleRests DEF Cutting
<1> QED
  BY <1>5, <1>6, <1>7, <1>8 DEF SessionsInv

\* One request takes a step that leaves the sessions alone and gives it
\* neither a token nor old credentials that it did not have.
LEMMA OneChanges ==
  ASSUME SessionsInv, NEW q \in Requests, NEW r \in RequestRecords,
         request' = [request EXCEPT ![q] = r], session' = session,
         excused \subseteq excused', ~Cutting(q), Follows(q),
         r.stale => request[q].stale /\ (request[q].escaped => r.escaped)
  PROVE  /\ request' \in [Requests -> RequestRecords] /\ request'[q] = r
         /\ \A p \in Requests : p # q => request'[p] = request[p] /\ Kept(p)
         /\ RefreshesKnowTheirToken' /\ TokensAreWithOne' /\ StaleIsOnItsWayOut'
<1>1. /\ request' \in [Requests -> RequestRecords] /\ request'[q] = r
      /\ \A p \in Requests : p # q => request'[p] = request[p] /\ Kept(p)
  BY ChangeOne DEF SessionsInv
<1>2. \A p \in Requests : p # q => Follows(p)
  BY <1>1 DEF SessionsInv, RefreshesKnowTheirToken, Follows, Refreshing
<1>3. RefreshesKnowTheirToken' /\ TokensAreWithOne'
  BY <1>2, TokensRest
<1>4. StaleIsOnItsWayOut'
  BY <1>1, StaleRests DEF Cutting
<1> QED
  BY <1>1, <1>3, <1>4

LEMMA FailedLogin ==
  ASSUME SessionsInv, NEW q \in Requests, RegisterFailedLogin(q)
  PROVE  SessionsInv'
<1> DEFINE attempts == request[q].failures + 1
<1>1. /\ request[q].op = "login" /\ request[q].pc = "loaded"
      /\ account' = IF attempts >= MaxFailures
                    THEN [account EXCEPT !.locked = TRUE, !.failures = 0]
                    ELSE [account EXCEPT !.failures = attempts]
      /\ misses' = IF crossed THEN 0 ELSE misses + 1
      /\ request' = [request EXCEPT ![q] = Idle]
      /\ session' = session /\ crossed' = crossed /\ excused' = excused
  BY DEF RegisterFailedLogin, Answer
<1>2. TypeOK /\ request[q].failures \in Nat /\ MaxFailures \in Nat \ {0}
  BY RequestTypes, FailuresAssumption DEF SessionsInv, TypeOK
<1>3. /\ account' \in Accounts
      /\ attempts >= MaxFailures => account'.locked /\ account'.failures = 0
      /\ ~(attempts >= MaxFailures) =>
          account'.locked = account.locked /\ account'.failures = attempts
  <2>1. attempts \in Nat /\ account \in Accounts
    BY <1>2 DEF TypeOK
  <2> HIDE DEF attempts
  <2>2. CASE attempts >= MaxFailures
    BY <1>1, <2>1, <2>2 DEF Accounts
  <2>3. CASE ~(attempts >= MaxFailures)
    BY <1>1, <2>1, <2>3 DEF Accounts
  <2> QED
    BY <2>2, <2>3
<1>4. /\ request' \in [Requests -> RequestRecords] /\ request'[q] = Idle
      /\ \A p \in Requests : p # q => request'[p] = request[p] /\ Kept(p)
      /\ RefreshesKnowTheirToken' /\ TokensAreWithOne' /\ StaleIsOnItsWayOut'
  BY <1>1, <1>2, IdleRecord, ChangeOne, OneChanges DEF Follows, Cutting
<1>5. TypeOK'
  BY <1>1, <1>2, <1>3, <1>4 DEF TypeOK
<1>6. CounterIsExact'
  <2> SUFFICES ASSUME ~crossed
               PROVE  /\ \A p, o \in InFlight(CounterOps)' : p = o
                      /\ account'.locked <=> misses' = MaxFailures
                      /\ account'.locked => account'.failures = 0
                      /\ ~account'.locked => account'.failures = misses' /\ misses' < MaxFailures
                      /\ \A p \in Requests : request'[p].pc = "loaded" =>
                          request'[p].op \notin CounterOps
    BY <1>1 DEF CounterIsExact, CounterOps
  <2>1. q \in InFlight(CounterOps)
    BY <1>1 DEF InFlight, CounterOps
  <2>2. /\ \A p \in Requests : request[p].op \in CounterOps => p = q
        /\ ~account.locked /\ request[q].failures = misses /\ misses < MaxFailures
    BY <1>1, <2>1 DEF SessionsInv, CounterIsExact, InFlight, CounterOps
  <2>3. \A p \in Requests : request'[p].op \notin CounterOps
    BY <1>4, <2>2, IdleRecord DEF CounterOps
  <2>4. misses' = misses + 1 /\ attempts = misses + 1 /\ misses \in Nat
    BY <1>1, <1>2, <2>2 DEF TypeOK
  <2> HIDE DEF attempts
  <2>5. /\ account'.locked <=> misses' = MaxFailures
        /\ account'.locked => account'.failures = 0
        /\ ~account'.locked => account'.failures = misses' /\ misses' < MaxFailures
    <3>1. CASE attempts >= MaxFailures
      <4>1. misses' = MaxFailures
        BY <1>2, <2>2, <2>4, <3>1
      <4> QED
        BY <1>3, <3>1, <4>1
    <3>2. CASE ~(attempts >= MaxFailures)
      <4>1. misses' < MaxFailures /\ misses' # MaxFailures
        BY <1>2, <2>4, <3>2
      <4> QED
        BY <1>3, <2>2, <2>4, <3>2, <4>1
    <3> QED
      BY <3>1, <3>2
  <2> QED
    BY <2>3, <2>5 DEF InFlight
<1> QED
  BY <1>4, <1>5, <1>6 DEF SessionsInv

LEMMA SuccessfulLogin ==
  ASSUME SessionsInv, NEW q \in Requests, RegisterSuccessfulLogin(q)
  PROVE  SessionsInv'
<1>1. /\ request[q].op = "login" /\ request[q].pc = "loaded"
      /\ session' = session /\ crossed' = crossed /\ excused' = excused
  BY DEF RegisterSuccessfulLogin
<1>2. TypeOK /\ request[q] \in RequestRecords /\ MaxFailures \in Nat \ {0}
  BY FailuresAssumption DEF SessionsInv, TypeOK
<1>3. CASE request[q].active
  <2> DEFINE r == LoggedIn(request[q])
  <2>1. /\ account' = [account EXCEPT !.failures = 0, !.locked = FALSE] /\ misses' = 0
        /\ request' = [request EXCEPT ![q] = r]
    <3>1. request' = [request EXCEPT ![q].pc = "issue", ![q].failures = 0]
      BY <1>3 DEF RegisterSuccessfulLogin
    <3>2. request' = [request EXCEPT ![q] = r]
      BY <1>2, <3>1 DEF LoggedIn, TypeOK
    <3> QED
      BY <1>3, <3>2 DEF RegisterSuccessfulLogin
  <2>2. /\ r \in RequestRecords /\ r.pc = "issue" /\ r.op = "login"
        /\ r.stale = request[q].stale /\ r.escaped = request[q].escaped
    BY <1>1, <1>2, ChangedRequests
  <2> HIDE DEF r
  <2>3. account' \in Accounts /\ account'.locked = FALSE /\ account'.failures = 0
    BY <1>2, <2>1 DEF TypeOK, Accounts
  <2>4. /\ request' \in [Requests -> RequestRecords] /\ request'[q] = r
        /\ \A p \in Requests : p # q => request'[p] = request[p] /\ Kept(p)
    BY <1>2, <2>1, <2>2, ChangeOne
  <2>5. Follows(q) /\ ~Cutting(q)
    BY <1>1, <2>2, <2>4 DEF Follows, Cutting
  <2>6. RefreshesKnowTheirToken' /\ TokensAreWithOne' /\ StaleIsOnItsWayOut'
    BY <1>1, <2>1, <2>2, <2>5, OneChanges
  <2>7. TypeOK'
    BY <1>1, <1>2, <2>1, <2>3, <2>4 DEF TypeOK
  <2>8. CounterIsExact'
    <3> SUFFICES ASSUME ~crossed
                 PROVE  /\ \A p, o \in InFlight(CounterOps)' : p = o
                        /\ \A p \in Requests : request'[p].pc = "loaded" =>
                            request'[p].op \notin CounterOps
      BY <1>1, <1>2, <2>1, <2>3 DEF CounterIsExact, CounterOps
    <3>1. \A p \in Requests : request[p].op \in CounterOps => p = q
      BY <1>1 DEF SessionsInv, CounterIsExact, InFlight, CounterOps
    <3> QED
      BY <2>2, <2>4, <3>1 DEF InFlight
  <2> QED
    BY <2>6, <2>7, <2>8 DEF SessionsInv
<1>4. CASE ~request[q].active
  <2>1. /\ account' = account /\ misses' = misses
        /\ request' = [request EXCEPT ![q] = Idle]
    BY <1>4 DEF RegisterSuccessfulLogin, Answer
  <2>2. /\ request' \in [Requests -> RequestRecords] /\ request'[q] = Idle
        /\ \A p \in Requests : p # q => request'[p] = request[p] /\ Kept(p)
        /\ RefreshesKnowTheirToken' /\ TokensAreWithOne' /\ StaleIsOnItsWayOut'
    BY <1>1, <1>2, <2>1, IdleRecord, ChangeOne, OneChanges DEF Follows, Cutting
  <2>3. TypeOK'
    BY <1>1, <1>2, <2>1, <2>2 DEF TypeOK
  <2>4. CounterIsExact'
    BY <1>1, <2>1, <2>2, IdleRecord, CounterRests DEF CounterOps
  <2> QED
    BY <2>2, <2>3, <2>4 DEF SessionsInv
<1> QED
  BY <1>3, <1>4

-----------------------------------------------------------------------------
(* A session is created.                                                   *)

LEMMA Issued ==
  ASSUME TypeOK, NEW q \in Requests, NEW n \in Nat, n <= Len(session), Issue(q, n)
  PROVE  LET new == Len(session) + 1 IN
         /\ new \in Nat /\ new \notin DOMAIN session
         /\ session' \in Seq(Sessions) /\ DOMAIN session' = DOMAIN session \cup {new}
         /\ \A i \in DOMAIN session : session'[i] = session[i] /\ i < new
         /\ session'[new].parent = n /\ session'[new].live
         /\ session'[new].stale = request[q].stale
         /\ session'[new].escaped = request[q].escaped
         /\ \A i \in DOMAIN session' : session'[i].parent < i
<1> DEFINE s == Session(n, request[q].stale, request[q].escaped)
           new == Len(session) + 1
<1>1. session' = Append(session, s)
  BY DEF Issue
<1>2. /\ s \in Sessions /\ s.parent = n /\ s.live = TRUE
      /\ s.stale = request[q].stale /\ s.escaped = request[q].escaped
  <2>1. request[q].stale \in BOOLEAN /\ request[q].escaped \in BOOLEAN
    BY RequestTypes DEF TypeOK
  <2> QED
    BY <2>1, NewSession
<1> HIDE DEF s
<1>3. /\ session \in Seq(Sessions) /\ Len(session) \in Nat /\ DOMAIN session = 1 .. Len(session)
      /\ \A i \in DOMAIN session : session[i].parent < i
  BY DEF TypeOK
<1>4. /\ session' \in Seq(Sessions) /\ Len(session') = new
      /\ DOMAIN session' = 1 .. new
      /\ session'[new] = s /\ \A i \in 1 .. Len(session) : session'[i] = session[i]
  BY <1>1, <1>2, <1>3
<1>5. /\ new \in Nat /\ new \notin DOMAIN session
      /\ DOMAIN session' = DOMAIN session \cup {new}
      /\ \A i \in DOMAIN session : i < new
  BY <1>3, <1>4
<1>6. n < new
  BY <1>3
<1> HIDE DEF new
<1>7. \A i \in DOMAIN session' : session'[i].parent < i
  <2> TAKE i \in DOMAIN session'
  <2>1. CASE i = new
    BY <1>2, <1>4, <1>6, <2>1
  <2>2. CASE i \in DOMAIN session
    BY <1>3, <1>4, <2>2
  <2> QED
    BY <1>5, <2>1, <2>2
<1> QED
  BY <1>2, <1>3, <1>4, <1>5, <1>7 DEF new

\* q creates a session, out of nothing or out of the token that it refreshes.
LEMMA IssuesOne ==
  ASSUME SessionsInv, NEW q \in Requests, NEW n \in Nat, Issue(q, n),
         NEW r \in RequestRecords, request' = [request EXCEPT ![q] = r],
         excused' = excused, r.stale = FALSE, ~Cutting(q),
         \/ /\ n = 0 /\ request[q].op # "refresh"
            /\ r.op # "refresh" /\ r.pc # "retire"
         \/ /\ n \in DOMAIN session /\ Refreshing(q, n) /\ request[q].pc = "issue"
            /\ r.op = "refresh" /\ r.pc = "retire" /\ r.token = n
  PROVE  /\ session' \in Seq(Sessions) /\ \A i \in DOMAIN session' : session'[i].parent < i
         /\ request' \in [Requests -> RequestRecords] /\ request'[q] = r
         /\ \A p \in Requests : p # q => request'[p] = request[p] /\ Kept(p)
         /\ RefreshesKnowTheirToken' /\ TokensAreWithOne' /\ StaleIsOnItsWayOut'
<1> DEFINE new == Len(session) + 1
<1>1. TypeOK /\ n <= Len(session)
  BY DEF SessionsInv, TypeOK
<1>2. /\ new \in Nat /\ new \notin DOMAIN session
      /\ session' \in Seq(Sessions) /\ DOMAIN session' = DOMAIN session \cup {new}
      /\ \A i \in DOMAIN session : session'[i] = session[i] /\ i < new
      /\ session'[new].parent = n /\ session'[new].live
      /\ session'[new].stale = request[q].stale
      /\ session'[new].escaped = request[q].escaped
      /\ \A i \in DOMAIN session' : session'[i].parent < i
  BY <1>1, Issued
<1>3. 0 \notin DOMAIN session /\ new # 0 /\ DOMAIN session \subseteq Nat
  BY <1>1 DEF TypeOK
<1> HIDE DEF new
<1>4. /\ request' \in [Requests -> RequestRecords] /\ request'[q] = r
      /\ \A p \in Requests : p # q => request'[p] = request[p] /\ Kept(p)
  BY <1>1, ChangeOne
<1>5. RefreshesKnowTheirToken'
  BY <1>2, <1>4 DEF SessionsInv, RefreshesKnowTheirToken, Refreshing
<1>6. ASSUME NEW i \in DOMAIN session' \ excused' PROVE TokenIsWithOne(i)'
  <2>1. \A p \in Requests : Refreshing(p, i)' <=> Refreshing(p, i)
    BY <1>2, <1>3, <1>4, <1>6 DEF Refreshing
  <2>2. CASE i = new
    <3>1. \A p \in Requests : ~Refreshing(p, i)
      BY <1>2, <1>3, <2>2 DEF SessionsInv, RefreshesKnowTheirToken, Refreshing
    <3>2. \A j \in DOMAIN session' : session'[j].parent # i
      <4> TAKE j \in DOMAIN session'
      <4>1. j <= new /\ session'[j].parent < j /\ j \in Nat /\ new \in Nat
        BY <1>2, <1>3
      <4>2. session'[j].parent \in Nat
        <5>1. session' \in Seq(Sessions)
          BY <1>2
        <5>2. session'[j] \in Sessions
          BY <5>1
        <5> QED
          BY <5>2 DEF Sessions
      <4> QED
        BY <2>2, <4>1, <4>2
    <3> QED
      BY <2>1, <3>1, <3>2 DEF TokenIsWithOne
  <2>3. CASE i \in DOMAIN session
    <3>1. TokenIsWithOne(i) /\ i # 0
      BY <1>3, <1>6, <2>3 DEF SessionsInv, TokensAreWithOne
    <3>2. CASE n # i
      <4>1. \A j \in DOMAIN session' : session'[j].parent = i =>
              j \in DOMAIN session /\ session[j].parent = i
        BY <1>2, <3>2
      <4>2. session'[i] = session[i]
        BY <1>2, <2>3
      <4>3. \A p \in Requests : Refreshing(p, i) => request'[p] = request[p]
        BY <1>4, <3>1, <3>2 DEF Refreshing
      <4> QED
        BY <2>1, <3>1, <4>1, <4>2, <4>3 DEF TokenIsWithOne
    <3>3. CASE n = i
      <4>1. /\ Refreshing(q, i) /\ request[q].pc = "issue"
            /\ r.op = "refresh" /\ r.pc = "retire" /\ r.token = i
        BY <3>1, <3>3
      <4>2. \A p \in Requests : Refreshing(p, i) => p = q
        BY <3>1, <4>1 DEF TokenIsWithOne
      <4>3. \A j \in DOMAIN session : session[j].parent # i
        BY <3>1, <4>1 DEF TokenIsWithOne
      <4>4. \A j \in DOMAIN session' : session'[j].parent = i => j = new
        BY <1>2, <4>3
      <4>5. \A p \in Requests : Refreshing(p, i)' => p = q /\ request'[p].pc = "retire"
        BY <1>4, <2>1, <4>1, <4>2
      <4>6. Refreshing(q, i)'
        BY <2>1, <4>1
      <4> QED
        BY <4>4, <4>5, <4>6 DEF TokenIsWithOne
    <3> QED
      BY <3>2, <3>3
  <2> QED
    BY <1>2, <2>2, <2>3
<1>7. TokensAreWithOne'
  BY <1>6 DEF TokensAreWithOne
<1>8. StaleIsOnItsWayOut'
  <2>1. \A p \in Requests : Cutting(p) => p # q /\ Cutting(p)'
    BY <1>4 DEF Cutting
  <2>2. \A i \in DOMAIN session' : session'[i].live /\ session'[i].stale =>
          session'[i].escaped \/ \E p \in Requests : Cutting(p)'
    <3> TAKE i \in DOMAIN session'
    <3>1. CASE i = new
      BY <1>2, <2>1, <3>1 DEF SessionsInv, StaleIsOnItsWayOut
    <3>2. CASE i \in DOMAIN session
      BY <1>2, <2>1, <3>2 DEF SessionsInv, StaleIsOnItsWayOut
    <3> QED
      BY <1>2, <3>1, <3>2
  <2>3. \A o \in Requests : request'[o].stale =>
          request'[o].escaped \/ \E p \in Requests : p # o /\ Cutting(p)'
    BY <1>4, <2>1 DEF SessionsInv, StaleIsOnItsWayOut
  <2> QED
    BY <2>2, <2>3 DEF StaleIsOnItsWayOut
<1> QED
  BY <1>2, <1>4, <1>5, <1>7, <1>8

LEMMA LoginIssuesOne ==
  ASSUME SessionsInv, NEW q \in Requests, LoginIssues(q)
  PROVE  SessionsInv'
<1> DEFINE n == 0
<1>1. /\ request[q].op \in {"login", "changePassword"} /\ request[q].pc = "issue"
      /\ Issue(q, n) /\ request' = [request EXCEPT ![q] = Idle]
      /\ UNCHANGED <<account, misses, crossed, excused>>
  BY DEF LoginIssues, Answer
<1>2. /\ ~Cutting(q) /\ request[q].op # "refresh" /\ n \in Nat /\ n = 0
      /\ Idle \in RequestRecords /\ Idle.op # "refresh" /\ Idle.pc # "retire"
      /\ Idle.stale = FALSE
  BY <1>1, IdleRecord DEF Cutting
<1> HIDE DEF n
<1>3. /\ session' \in Seq(Sessions) /\ \A i \in DOMAIN session' : session'[i].parent < i
      /\ request' \in [Requests -> RequestRecords] /\ request'[q] = Idle
      /\ \A p \in Requests : p # q => request'[p] = request[p] /\ Kept(p)
      /\ RefreshesKnowTheirToken' /\ TokensAreWithOne' /\ StaleIsOnItsWayOut'
  BY <1>1, <1>2, IssuesOne
<1>4. TypeOK'
  BY <1>1, <1>3 DEF SessionsInv, TypeOK
<1>5. CounterIsExact'
  BY <1>1, <1>3, IdleRecord, CounterRests DEF CounterOps
<1> QED
  BY <1>3, <1>4, <1>5 DEF SessionsInv

LEMMA RefreshIssuesOne ==
  ASSUME SessionsInv, NEW q \in Requests, RefreshIssues(q)
  PROVE  SessionsInv'
<1> DEFINE n == request[q].token
           r == Retiring(n)
<1>1. /\ request[q].op = "refresh" /\ request[q].pc = "issue"
      /\ Issue(q, n) /\ request' = [request EXCEPT ![q] = r]
      /\ UNCHANGED <<account, misses, crossed, excused>>
  BY DEF RefreshIssues, Retiring
<1>2. n \in DOMAIN session /\ n \in Nat
  BY <1>1 DEF SessionsInv, RefreshesKnowTheirToken, TypeOK
<1>3. ~Cutting(q) /\ Refreshing(q, n)
  BY <1>1 DEF Cutting, Refreshing
<1>4. /\ r \in RequestRecords /\ r.op = "refresh" /\ r.pc = "retire"
      /\ r.token = n /\ r.stale = FALSE
  BY <1>2, RetiringRecord
<1> HIDE DEF r, n
<1>5. /\ session' \in Seq(Sessions) /\ \A i \in DOMAIN session' : session'[i].parent < i
      /\ request' \in [Requests -> RequestRecords] /\ request'[q] = r
      /\ \A p \in Requests : p # q => request'[p] = request[p] /\ Kept(p)
      /\ RefreshesKnowTheirToken' /\ TokensAreWithOne' /\ StaleIsOnItsWayOut'
  BY <1>1, <1>2, <1>3, <1>4, IssuesOne
<1>6. TypeOK'
  BY <1>1, <1>5 DEF SessionsInv, TypeOK
<1>7. CounterIsExact'
  BY <1>1, <1>4, <1>5, CounterRests DEF CounterOps
<1> QED
  BY <1>5, <1>6, <1>7 DEF SessionsInv

-----------------------------------------------------------------------------
(* A token is read, checked, and retired.                                  *)

LEMMA ReadsLiveToken ==
  ASSUME SessionsInv, NEW q \in Requests, NEW token \in DOMAIN session,
         session[token].live, RefreshReads(q, token)
  PROVE  SessionsInv'
<1> DEFINE r == Holding(token, session[token].stale, session[token].escaped)
<1>1. /\ request[q].pc = "idle" /\ request' = [request EXCEPT ![q] = r]
      /\ excused \subseteq excused'
      /\ token \in excused' \/ \A p \in InFlight({"refresh"}) : request[p].token # token
      /\ UNCHANGED <<account, session, misses, crossed>>
  BY DEF RefreshReads, Holding
<1>2. TypeOK /\ token \in Nat /\ session[token] \in Sessions
  BY DEF SessionsInv, TypeOK
<1>3. /\ r \in RequestRecords /\ r.op = "refresh" /\ r.pc = "account" /\ r.token = token
      /\ r.stale = session[token].stale /\ r.escaped = session[token].escaped
  <2>1. session[token].stale \in BOOLEAN /\ session[token].escaped \in BOOLEAN
    BY <1>2 DEF Sessions
  <2> QED
    BY <1>2, <2>1, HoldingRecord
<1> HIDE DEF r
<1>4. /\ request' \in [Requests -> RequestRecords] /\ request'[q] = r
      /\ \A p \in Requests : p # q => request'[p] = request[p] /\ Kept(p)
  BY <1>1, <1>2, <1>3, ChangeOne
<1>5. request[q].op # "refresh"
  BY <1>1 DEF SessionsInv, RefreshesKnowTheirToken
<1>6. TypeOK'
  BY <1>1, <1>2, <1>4 DEF TypeOK
<1>7. RefreshesKnowTheirToken'
  BY <1>1, <1>3, <1>4 DEF SessionsInv, RefreshesKnowTheirToken
<1>8. CounterIsExact'
  BY <1>1, <1>3, <1>4, CounterRests DEF CounterOps
<1>9. ASSUME NEW i \in DOMAIN session' \ excused' PROVE TokenIsWithOne(i)'
  <2>1. TokenIsWithOne(i)
    BY <1>1, <1>9 DEF SessionsInv, TokensAreWithOne
  <2>2. CASE i # token
    <3>1. \A p \in Requests : Refreshing(p, i) => request'[p] = request[p]
      BY <1>4, <1>5 DEF Refreshing
    <3>2. \A p \in Requests : Refreshing(p, i)' <=> Refreshing(p, i)
      BY <1>3, <1>4, <1>5, <2>2 DEF Refreshing
    <3> QED
      BY <1>1, <2>1, <3>1, <3>2 DEF TokenIsWithOne
  <2>3. CASE i = token
    <3>1. \A p \in Requests : ~Refreshing(p, i)
      BY <1>1, <1>9, <2>3 DEF InFlight, Refreshing
    <3>2. \A j \in DOMAIN session : session[j].parent # i
      BY <2>1, <2>3, <3>1 DEF TokenIsWithOne
    <3>3. \A p \in Requests : Refreshing(p, i)' => p = q
      BY <1>4, <3>1 DEF Refreshing
    <3> QED
      BY <1>1, <3>2, <3>3 DEF TokenIsWithOne
  <2> QED
    BY <2>2, <2>3
<1>10. StaleIsOnItsWayOut'
  <2>1. \A p \in Requests : Cutting(p) => p # q /\ Cutting(p)'
    BY <1>1, <1>4 DEF Cutting
  <2>2. \A i \in DOMAIN session' : session'[i].live /\ session'[i].stale =>
          session'[i].escaped \/ \E p \in Requests : Cutting(p)'
    BY <1>1, <2>1 DEF SessionsInv, StaleIsOnItsWayOut
  <2>3. ASSUME NEW o \in Requests, request'[o].stale
        PROVE  request'[o].escaped \/ \E p \in Requests : p # o /\ Cutting(p)'
    <3>1. CASE o = q
      BY <1>3, <1>4, <2>1, <2>3, <3>1 DEF SessionsInv, StaleIsOnItsWayOut
    <3>2. CASE o # q
      BY <1>4, <2>1, <2>3, <3>2 DEF SessionsInv, StaleIsOnItsWayOut
    <3> QED
      BY <3>1, <3>2
  <2> QED
    BY <2>2, <2>3 DEF StaleIsOnItsWayOut
<1> QED
  BY <1>6, <1>7, <1>8, <1>9, <1>10 DEF SessionsInv, TokensAreWithOne

\* q goes on to revoke every session.
LEMMA TurnsToRevoke ==
  ASSUME SessionsInv, NEW q \in Requests, ~Cutting(q),
         request[q].op = "refresh" => request[q].pc # "retire",
         request' = [request EXCEPT ![q] = Revoking("refresh")],
         UNCHANGED <<account, session, misses, crossed, excused>>
  PROVE  SessionsInv'
<1> DEFINE r == Revoking("refresh")
<1>1. /\ r \in RequestRecords /\ r.op = "refresh" /\ r.pc = "revoke"
      /\ r.token = 0 /\ r.stale = FALSE
  BY RevokingRecord DEF Ops
<1>2. request' = [request EXCEPT ![q] = r] /\ TypeOK
  BY DEF SessionsInv
<1> HIDE DEF r
<1>3. /\ request' \in [Requests -> RequestRecords] /\ request'[q] = r
      /\ \A p \in Requests : p # q => request'[p] = request[p] /\ Kept(p)
  BY <1>1, <1>2, ChangeOne
<1>4. Follows(q)
  BY <1>1, <1>3 DEF Follows
<1>5. RefreshesKnowTheirToken' /\ TokensAreWithOne' /\ StaleIsOnItsWayOut'
  BY <1>1, <1>2, <1>4, OneChanges
<1>6. TypeOK'
  BY <1>2, <1>3 DEF TypeOK
<1>7. CounterIsExact'
  BY <1>1, <1>3, CounterRests DEF CounterOps
<1> QED
  BY <1>5, <1>6, <1>7 DEF SessionsInv

LEMMA ReadsToken ==
  ASSUME SessionsInv, NEW q \in Requests, NEW token \in DOMAIN session,
         RefreshReads(q, token)
  PROVE  SessionsInv'
<1>1. CASE session[token].live
  BY <1>1, ReadsLiveToken
<1>2. CASE ~session[token].live
  <2>1. /\ request[q].pc = "idle"
        /\ request' = [request EXCEPT ![q] = Revoking("refresh")]
        /\ UNCHANGED <<account, session, misses, crossed, excused>>
    BY <1>2 DEF RefreshReads, Revoking
  <2> QED
    BY <2>1, TurnsToRevoke DEF Cutting
<1> QED
  BY <1>1, <1>2

LEMMA ChecksAccount ==
  ASSUME SessionsInv, NEW q \in Requests, RefreshChecksAccount(q)
  PROVE  SessionsInv'
<1>1. /\ request[q].op = "refresh" /\ request[q].pc = "account"
      /\ UNCHANGED <<account, session, misses, crossed, excused>>
  BY DEF RefreshChecksAccount
<1>2. CASE account.active
  <2> DEFINE r == Issuing(request[q])
  <2>1. request' = [request EXCEPT ![q] = r] /\ TypeOK /\ request[q] \in RequestRecords
    BY <1>2 DEF RefreshChecksAccount, Issuing, SessionsInv, TypeOK
  <2>2. /\ r \in RequestRecords /\ r.pc = "issue" /\ r.op = "refresh"
        /\ r.token = request[q].token
        /\ r.stale = request[q].stale /\ r.escaped = request[q].escaped
    BY <1>1, <2>1, ChangedRequests
  <2> HIDE DEF r
  <2>3. /\ request' \in [Requests -> RequestRecords] /\ request'[q] = r
        /\ \A p \in Requests : p # q => request'[p] = request[p] /\ Kept(p)
    BY <2>1, <2>2, ChangeOne
  <2>4. Follows(q) /\ ~Cutting(q)
    BY <1>1, <2>2, <2>3 DEF Follows, Refreshing, Cutting
  <2>5. RefreshesKnowTheirToken' /\ TokensAreWithOne' /\ StaleIsOnItsWayOut'
    BY <1>1, <2>1, <2>2, <2>4, OneChanges
  <2>6. TypeOK'
    BY <1>1, <2>1, <2>3 DEF TypeOK
  <2>7. CounterIsExact'
    BY <1>1, <2>2, <2>3, CounterRests DEF CounterOps
  <2> QED
    BY <2>5, <2>6, <2>7 DEF SessionsInv
<1>3. CASE ~account.active
  <2>1. request' = [request EXCEPT ![q] = Revoking("refresh")]
    BY <1>3 DEF RefreshChecksAccount, Revoking
  <2> QED
    BY <1>1, <2>1, TurnsToRevoke DEF Cutting
<1> QED
  BY <1>2, <1>3

LEMMA SpentOne ==
  ASSUME TypeOK, NEW token \in DOMAIN session,
         session' = [session EXCEPT ![token] = Spent(@)]
  PROVE  /\ session' \in Seq(Sessions) /\ DOMAIN session' = DOMAIN session
         /\ \A i \in DOMAIN session :
             /\ session'[i].parent = session[i].parent
             /\ session'[i].live => session[i].live /\ session'[i] = session[i]
         /\ ~session'[token].live
<1> DEFINE s == Spent(session[token])
<1>1. session[token] \in Sessions /\ session' = [session EXCEPT ![token] = s]
  BY DEF TypeOK
<1>2. s \in Sessions /\ s.parent = session[token].parent /\ s.live = FALSE
  BY <1>1, SessionRecords
<1> HIDE DEF s
<1>3. /\ session' \in Seq(Sessions) /\ DOMAIN session' = DOMAIN session
      /\ session'[token] = s
      /\ \A i \in DOMAIN session : i # token => session'[i] = session[i]
  BY <1>1, <1>2 DEF TypeOK
<1> QED
  BY <1>2, <1>3

LEMMA RetiresToken ==
  ASSUME SessionsInv, NEW q \in Requests, RefreshRetires(q)
  PROVE  SessionsInv'
<1>1. /\ request[q].pc = "retire" /\ request' = [request EXCEPT ![q] = Idle]
      /\ session' = [session EXCEPT ![request[q].token] = Spent(@)]
      /\ UNCHANGED <<account, misses, crossed, excused>>
  BY DEF RefreshRetires, Answer
<1>2. TypeOK /\ request[q].op = "refresh" /\ request[q].token \in DOMAIN session
  BY <1>1 DEF SessionsInv, RefreshesKnowTheirToken
<1>3. /\ session' \in Seq(Sessions) /\ DOMAIN session' = DOMAIN session
      /\ \A i \in DOMAIN session :
          /\ session'[i].parent = session[i].parent
          /\ session'[i].live => session[i].live /\ session'[i] = session[i]
      /\ ~session'[request[q].token].live
  <2> DEFINE token == request[q].token
  <2>1. token \in DOMAIN session /\ session' = [session EXCEPT ![token] = Spent(@)]
    BY <1>1, <1>2
  <2> HIDE DEF token
  <2>2. /\ session' \in Seq(Sessions) /\ DOMAIN session' = DOMAIN session
        /\ \A i \in DOMAIN session :
            /\ session'[i].parent = session[i].parent
            /\ session'[i].live => session[i].live /\ session'[i] = session[i]
        /\ ~session'[token].live
    BY <1>2, <2>1, SpentOne
  <2> QED
    BY <2>2 DEF token
<1>4. /\ request' \in [Requests -> RequestRecords] /\ request'[q] = Idle
      /\ \A p \in Requests : p # q => request'[p] = request[p] /\ Kept(p)
  BY <1>1, <1>2, IdleRecord, ChangeOne
<1>5. TypeOK'
  BY <1>1, <1>2, <1>3, <1>4 DEF TypeOK
<1>6. CounterIsExact'
  BY <1>1, <1>4, IdleRecord, CounterRests DEF CounterOps
<1>7. RefreshesKnowTheirToken' /\ TokensAreWithOne'
  <2>1. \A p \in Requests : Follows(p)
    BY <1>2, <1>3, <1>4, IdleRecord
    DEF SessionsInv, RefreshesKnowTheirToken, Follows, Refreshing
  <2> QED
    BY <1>1, <1>3, <2>1, TokensRest
<1>8. StaleIsOnItsWayOut'
  BY <1>2, <1>3, <1>4, IdleRecord, StaleRests DEF Cutting
<1> QED
  BY <1>5, <1>6, <1>7, <1>8 DEF SessionsInv

-----------------------------------------------------------------------------
(* What happens without a request under way.                               *)

LEMMA RequestsRest ==
  ASSUME SessionsInv, UNCHANGED <<request, excused>>, DOMAIN session' = DOMAIN session,
         \A i \in DOMAIN session :
             /\ session'[i].parent = session[i].parent
             /\ session'[i].live => session[i].live /\ session'[i] = session[i]
  PROVE  RefreshesKnowTheirToken' /\ TokensAreWithOne' /\ StaleIsOnItsWayOut'
<1>1. \A p \in Requests : Follows(p)
  BY DEF SessionsInv, RefreshesKnowTheirToken, Follows, Refreshing
<1>2. RefreshesKnowTheirToken' /\ TokensAreWithOne'
  BY <1>1, TokensRest
<1>3. StaleIsOnItsWayOut'
  BY StaleRests DEF Cutting
<1> QED
  BY <1>2, <1>3

LEMMA LogsOut ==
  ASSUME SessionsInv, NEW token \in DOMAIN session, Logout(token)
  PROVE  SessionsInv'
<1>1. /\ session' = [session EXCEPT ![token] = Spent(@)]
      /\ UNCHANGED <<account, request, misses, crossed, excused>> /\ TypeOK
  BY DEF Logout, SessionsInv
<1>2. /\ session' \in Seq(Sessions) /\ DOMAIN session' = DOMAIN session
      /\ \A i \in DOMAIN session :
          /\ session'[i].parent = session[i].parent
          /\ session'[i].live => session[i].live /\ session'[i] = session[i]
  BY <1>1, SpentOne
<1>3. TypeOK'
  BY <1>1, <1>2 DEF TypeOK
<1>4. CounterIsExact'
  BY <1>1 DEF SessionsInv, CounterIsExact, InFlight
<1> QED
  BY <1>1, <1>2, <1>3, <1>4, RequestsRest DEF SessionsInv

LEMMA Lapses == ASSUME SessionsInv, LockLapses PROVE SessionsInv'
<1>1. /\ account.locked /\ account' = [account EXCEPT !.locked = FALSE] /\ misses' = 0
      /\ UNCHANGED <<session, request, crossed, excused>> /\ TypeOK
  BY DEF LockLapses, SessionsInv
<1>2. /\ account' \in Accounts /\ account'.locked = FALSE
      /\ account'.failures = account.failures
  BY <1>1 DEF TypeOK, Accounts
<1>3. TypeOK'
  BY <1>1, <1>2 DEF TypeOK
<1>4. CounterIsExact'
  <2> SUFFICES ASSUME ~crossed PROVE CounterIsExact'
    BY <1>1 DEF CounterIsExact
  <2>1. 0 < MaxFailures /\ 0 # MaxFailures
    BY FailuresAssumption
  <2> QED
    BY <1>1, <1>2, <2>1 DEF SessionsInv, CounterIsExact, InFlight, CounterOps
<1> QED
  BY <1>1, <1>3, <1>4, RequestsRest DEF SessionsInv

LEMMA Reactivates == ASSUME SessionsInv, Reactivate PROVE SessionsInv'
<1>1. /\ account' = [account EXCEPT !.active = TRUE]
      /\ UNCHANGED <<session, request, misses, crossed, excused>> /\ TypeOK
  BY DEF Reactivate, SessionsInv
<1>2. /\ account' \in Accounts /\ account'.locked = account.locked
      /\ account'.failures = account.failures
  BY <1>1 DEF TypeOK, Accounts
<1>3. TypeOK'
  BY <1>1, <1>2 DEF TypeOK
<1>4. CounterIsExact'
  BY <1>1, <1>2 DEF SessionsInv, CounterIsExact, InFlight, CounterOps
<1> QED
  BY <1>1, <1>3, <1>4, RequestsRest DEF SessionsInv

-----------------------------------------------------------------------------
(* Every session ends, or is about to.                                     *)

LEMMA RevokesAll ==
  ASSUME SessionsInv, NEW q \in Requests, request[q].pc = "revoke", RevokeAllSessions(q),
         UNCHANGED <<account, misses, crossed, excused>>
  PROVE  SessionsInv'
<1>1. TypeOK
  BY DEF SessionsInv
<1>2. /\ session' \in Seq(Sessions) /\ DOMAIN session' = DOMAIN session
      /\ \A i \in DOMAIN session :
          session'[i].parent = session[i].parent /\ ~session'[i].live
      /\ request' \in [Requests -> RequestRecords]
      /\ \A p \in Requests : p # q =>
          /\ Kept(p) /\ request'[p].stale = request[p].stale
          /\ request'[p].escaped = request[p].stale
      /\ request[q].op # "changePassword" => request'[q] = Idle
      /\ request[q].op = "changePassword" =>
          /\ request'[q].pc = "issue" /\ request'[q].op = "changePassword"
          /\ request'[q].stale = request[q].stale
          /\ request'[q].escaped = request[q].escaped
  BY <1>1, RevokedAll
<1>3. TypeOK'
  BY <1>1, <1>2 DEF TypeOK
<1>4. CounterIsExact'
  BY <1>2, IdleRecord, CounterRests DEF CounterOps
<1>5. RefreshesKnowTheirToken' /\ TokensAreWithOne'
  <2>1. Follows(q)
    BY <1>2, IdleRecord DEF Follows
  <2>2. \A p \in Requests : p # q => Follows(p)
    BY <1>2 DEF SessionsInv, RefreshesKnowTheirToken, Follows, Refreshing, Kept, Alike
  <2> QED
    BY <1>2, <2>1, <2>2, TokensRest
<1>6. StaleIsOnItsWayOut'
  <2>1. \A p \in Requests : p # q /\ Cutting(p) => Cutting(p)'
    BY <1>2 DEF Cutting, Kept, Alike
  <2>2. ASSUME NEW o \in Requests, request'[o].stale
        PROVE  request'[o].escaped \/ \E p \in Requests : p # o /\ Cutting(p)'
    BY <1>2, <2>1, <2>2, IdleRecord DEF SessionsInv, StaleIsOnItsWayOut
  <2> QED
    BY <1>2, <2>2 DEF StaleIsOnItsWayOut
<1> QED
  BY <1>3, <1>4, <1>5, <1>6 DEF SessionsInv

LEMMA Cuts ==
  ASSUME SessionsInv, NEW q \in Requests, CutSaves(q)
  PROVE  SessionsInv'
<1> DEFINE op == request[q].op
           e(i) == CutSession(session[i])
           next == Revoking(op)
           r(p) == IF p = q THEN next ELSE CutRequest(request[p], WillIssue(p))
<1>1. /\ op \in {"changePassword", "reset", "deactivate"} /\ op \in Ops
      /\ request[q].op = op /\ request[q].pc = "loaded"
      /\ misses' = IF op # "deactivate" THEN 0 ELSE misses
      /\ session' = [i \in DOMAIN session |-> e(i)]
      /\ request' = [p \in Requests |-> r(p)]
      /\ UNCHANGED <<crossed, excused>> /\ TypeOK
  BY DEF CutSaves, SessionsInv, CutSession, Revoking, CutRequest, Ops
<1>2. \A i \in DOMAIN session :
        e(i) \in Sessions /\ e(i).parent = session[i].parent /\ e(i).live = session[i].live
  <2>1. \A i \in DOMAIN session : session[i] \in Sessions
    BY <1>1 DEF TypeOK
  <2> QED
    BY <2>1, SessionRecords
<1>3. /\ next \in RequestRecords /\ next.op = op /\ next.pc = "revoke"
      /\ next.token = 0 /\ next.stale = FALSE
  <2>1. op \in Ops
    BY <1>1
  <2> HIDE DEF op
  <2> QED
    BY <2>1, RevokingRecord
<1>4. \A p \in Requests : p # q => r(p) \in RequestRecords /\ Alike(r(p), request[p])
  <2>1. \A p \in Requests : request[p] \in RequestRecords /\ WillIssue(p) \in BOOLEAN
    BY <1>1 DEF TypeOK, WillIssue
  <2> QED
    BY <2>1, ChangedRequests
<1>5. r(q) = next
  OBVIOUS
<1>6. /\ account' \in Accounts
      /\ op = "deactivate" => account'.failures = account.failures
                              /\ account'.locked = account.locked
      /\ op # "deactivate" => /\ request[q].failures # 0 => account'.failures = 0
                              /\ request[q].failures = 0 => account'.failures = account.failures
                              /\ account'.locked = (account.locked /\ ~request[q].locked)
  <2> DEFINE a == IF op = "deactivate" THEN FALSE ELSE account.active
             f == IF op # "deactivate" /\ request[q].failures # 0 THEN 0 ELSE account.failures
             l == IF op # "deactivate" /\ request[q].locked THEN FALSE ELSE account.locked
  <2>1. account' = [account EXCEPT !.active = a, !.failures = f, !.locked = l]
    BY DEF CutSaves
  <2>2. a \in BOOLEAN /\ f \in Nat /\ l \in BOOLEAN /\ account \in Accounts
    BY <1>1 DEF TypeOK, Accounts
  <2>3. /\ op = "deactivate" => f = account.failures /\ l = account.locked
        /\ op # "deactivate" => /\ request[q].failures # 0 => f = 0
                                /\ request[q].failures = 0 => f = account.failures
                                /\ l = (account.locked /\ ~request[q].locked)
    <3>1. account.locked \in BOOLEAN
      BY <2>2 DEF Accounts
    <3> QED
      BY <3>1
  <2> HIDE DEF a, f, l, op
  <2>4. account' \in Accounts /\ account'.failures = f /\ account'.locked = l
    BY <2>1, <2>2 DEF Accounts
  <2> QED
    BY <2>3, <2>4
<1> HIDE DEF op, e, next, r
<1>7. /\ session' \in Seq(Sessions) /\ DOMAIN session' = DOMAIN session
      /\ \A i \in DOMAIN session :
          session'[i].parent = session[i].parent /\ session'[i].live = session[i].live
  BY <1>1, <1>2 DEF TypeOK
<1>8. /\ request' \in [Requests -> RequestRecords] /\ request'[q] = next
      /\ \A p \in Requests : p # q => Kept(p)
  BY <1>1, <1>3, <1>4, <1>5 DEF Kept
<1>9. TypeOK'
  <2>1. misses' \in Nat
    BY <1>1 DEF TypeOK
  <2> QED
    BY <1>1, <1>6, <1>7, <1>8, <2>1 DEF TypeOK
<1>10. CounterIsExact'
  <2> SUFFICES ASSUME ~crossed PROVE CounterIsExact'
    BY <1>1 DEF CounterIsExact
  <2>1. \A p \in Requests : /\ request'[p].op = request[p].op
                            /\ request'[p].pc = "loaded" =>
                                p # q /\ request[p].pc = "loaded"
                                /\ request'[p].failures = request[p].failures
                                /\ request'[p].locked = request[p].locked
    BY <1>1, <1>3, <1>8 DEF Kept, Alike
  <2>2. \A p, o \in InFlight(CounterOps)' : p = o
    BY <2>1 DEF SessionsInv, CounterIsExact, InFlight
  <2>3. CASE op = "deactivate"
    BY <1>1, <1>6, <2>1, <2>2, <2>3 DEF SessionsInv, CounterIsExact
  <2>4. CASE op # "deactivate"
    <3>1. \A p \in Requests : request[p].op \in CounterOps => p = q
      BY <1>1, <2>4 DEF SessionsInv, CounterIsExact, InFlight, CounterOps
    <3>2. /\ request[q].failures = account.failures
          /\ account.locked => request[q].locked
      BY <1>1, <2>4 DEF SessionsInv, CounterIsExact, CounterOps
    <3>3. account'.failures = 0 /\ ~account'.locked /\ misses' = 0
      BY <1>1, <1>6, <2>4, <3>2
    <3>4. 0 < MaxFailures /\ 0 # MaxFailures
      BY FailuresAssumption
    <3> QED
      BY <2>1, <2>2, <3>1, <3>3, <3>4 DEF CounterIsExact, CounterOps
  <2> QED
    BY <2>3, <2>4
<1>11. RefreshesKnowTheirToken' /\ TokensAreWithOne'
  <2>1. Follows(q)
    BY <1>1, <1>3, <1>8 DEF Follows
  <2>2. \A p \in Requests : p # q => Follows(p)
    BY <1>8 DEF SessionsInv, RefreshesKnowTheirToken, Follows, Refreshing, Kept, Alike
  <2> QED
    BY <1>1, <1>7, <2>1, <2>2, TokensRest
<1>12. StaleIsOnItsWayOut'
  BY <1>1, <1>3, <1>8 DEF StaleIsOnItsWayOut, Cutting
<1> QED
  BY <1>9, <1>10, <1>11, <1>12 DEF SessionsInv

\* The process dies between the save and the revocation.
LEMMA DiesCutting ==
  ASSUME SessionsInv, NEW q \in Requests, Cutting(q), Die(q)
  PROVE  SessionsInv'
<1> DEFINE e(i) == EscapedSession(session[i])
           r(p) == IF p = q THEN Idle ELSE EscapedRequest(request[p])
<1>1. /\ session' = [i \in DOMAIN session |-> e(i)]
      /\ request' = [p \in Requests |-> r(p)]
      /\ UNCHANGED <<account, misses, crossed, excused>> /\ TypeOK
      /\ request[q].op # "refresh" /\ request[q].pc = "revoke"
  BY DEF Die, Cutting, SessionsInv, EscapedSession, EscapedRequest
<1>2. \A i \in DOMAIN session :
        /\ e(i) \in Sessions /\ e(i).parent = session[i].parent
        /\ e(i).live = session[i].live /\ e(i).escaped = session[i].stale
        /\ e(i).stale = session[i].stale
  <2>1. \A i \in DOMAIN session : session[i] \in Sessions
    BY <1>1 DEF TypeOK
  <2> QED
    BY <2>1, SessionRecords
<1>3. \A p \in Requests : p # q =>
        /\ r(p) \in RequestRecords /\ Alike(r(p), request[p])
        /\ r(p).stale = request[p].stale /\ r(p).escaped = request[p].stale
  <2>1. \A p \in Requests : request[p] \in RequestRecords
    BY <1>1 DEF TypeOK
  <2> QED
    BY <2>1, ChangedRequests
<1>4. r(q) = Idle
  OBVIOUS
<1> HIDE DEF e, r
<1>5. /\ session' \in Seq(Sessions) /\ DOMAIN session' = DOMAIN session
      /\ \A i \in DOMAIN session : session'[i] = e(i)
  BY <1>1, <1>2 DEF TypeOK
<1>6. /\ request' \in [Requests -> RequestRecords] /\ request'[q] = Idle
      /\ \A p \in Requests : p # q =>
          /\ Kept(p) /\ request'[p].stale = request[p].stale
          /\ request'[p].escaped = request[p].stale
  BY <1>1, <1>3, <1>4, IdleRecord DEF Kept
<1>7. TypeOK'
  BY <1>1, <1>2, <1>5, <1>6 DEF TypeOK
<1>8. CounterIsExact'
  BY <1>1, <1>6, IdleRecord, CounterRests DEF CounterOps
<1>9. RefreshesKnowTheirToken' /\ TokensAreWithOne'
  <2>1. Follows(q)
    BY <1>1, <1>6, IdleRecord DEF Follows
  <2>2. \A p \in Requests : p # q => Follows(p)
    BY <1>6 DEF SessionsInv, RefreshesKnowTheirToken, Follows, Refreshing, Kept, Alike
  <2> QED
    BY <1>1, <1>2, <1>5, <2>1, <2>2, TokensRest
<1>10. StaleIsOnItsWayOut'
  BY <1>2, <1>5, <1>6, IdleRecord DEF StaleIsOnItsWayOut
<1> QED
  BY <1>7, <1>8, <1>9, <1>10 DEF SessionsInv

LEMMA Dies ==
  ASSUME SessionsInv, NEW q \in Requests, ~Cutting(q), Die(q)
  PROVE  SessionsInv'
<1>1. /\ request' = [request EXCEPT ![q] = Idle] /\ session' = session
      /\ excused' = IF request[q].pc = "retire" THEN excused \cup {request[q].token} ELSE excused
      /\ UNCHANGED <<account, misses, crossed>> /\ TypeOK
  BY DEF Die, Cutting, Answer, SessionsInv
<1>2. /\ request' \in [Requests -> RequestRecords] /\ request'[q] = Idle
      /\ \A p \in Requests : p # q => request'[p] = request[p] /\ Kept(p)
  BY <1>1, IdleRecord, ChangeOne
<1>3. Follows(q) /\ excused \subseteq excused'
  BY <1>1, <1>2, IdleRecord DEF Follows
<1>4. RefreshesKnowTheirToken' /\ TokensAreWithOne' /\ StaleIsOnItsWayOut'
  BY <1>1, <1>3, IdleRecord, OneChanges
<1>5. TypeOK'
  BY <1>1, <1>2 DEF TypeOK
<1>6. CounterIsExact'
  BY <1>1, <1>2, IdleRecord, CounterRests DEF CounterOps
<1> QED
  BY <1>4, <1>5, <1>6 DEF SessionsInv

-----------------------------------------------------------------------------
LEMMA SessionsStep == ASSUME SessionsInv, [Next]_vars PROVE SessionsInv'
<1>1. ASSUME NEW q \in Requests, Step(q) PROVE SessionsInv'
  <2>1. CASE LoginReads(q)
    BY <2>1, TakesCounter DEF LoginReads
  <2>2. CASE RegisterFailedLogin(q)
    BY <2>2, FailedLogin
  <2>3. CASE RegisterSuccessfulLogin(q)
    BY <2>3, SuccessfulLogin
  <2>4. CASE LoginIssues(q)
    BY <2>4, LoginIssuesOne
  <2>5. CASE \E token \in DOMAIN session : RefreshReads(q, token)
    BY <2>5, ReadsToken
  <2>6. CASE RefreshChecksAccount(q)
    BY <2>6, ChecksAccount
  <2>7. CASE RefreshIssues(q)
    BY <2>7, RefreshIssuesOne
  <2>8. CASE RefreshRetires(q)
    BY <2>8, RetiresToken
  <2>9. CASE RefreshRevokesAll(q)
    BY <2>9, RevokesAll DEF RefreshRevokesAll
  <2>10. ASSUME NEW op \in {"changePassword", "reset", "deactivate"}, CutReads(q, op)
         PROVE  SessionsInv'
    <3>1. CASE op = "deactivate"
      BY <2>10, <3>1, DeactivateReads DEF CutReads, CounterOps
    <3>2. CASE op # "deactivate"
      BY <2>10, <3>2, TakesCounter DEF CutReads, CounterOps
    <3> QED
      BY <3>1, <3>2
  <2>11. CASE CutSaves(q)
    BY <2>11, Cuts
  <2>12. CASE CutRevokes(q)
    BY <2>12, RevokesAll DEF CutRevokes
  <2>13. CASE Die(q)
    BY <2>13, DiesCutting, Dies
  <2> QED
    BY <1>1, <2>1, <2>2, <2>3, <2>4, <2>5, <2>6, <2>7, <2>8, <2>9, <2>10, <2>11, <2>12,
       <2>13 DEF Step
<1>2. ASSUME UNCHANGED vars PROVE SessionsInv'
  BY <1>2 DEF vars, SessionsInv, TypeOK, RefreshesKnowTheirToken, CounterIsExact, InFlight,
     TokensAreWithOne, TokenIsWithOne, Refreshing, StaleIsOnItsWayOut, Cutting
<1> QED
  BY <1>1, <1>2, LogsOut, Lapses, Reactivates DEF Next

(* Whatever the requests on an account do, and wherever they die, its      *)
(* lock counts exactly until two are on it at once, an unspent token is    *)
(* refreshed by one request and has no successor before that one retires   *)
(* it, and what rests on old credentials is still to be revoked or has     *)
(* escaped (staffAuth.service.js:82-230, StaffUser.js:113-128).            *)
THEOREM SessionsInvariant == Spec => []SessionsInv
<1>1. Init => SessionsInv
  BY SessionsInit
<1>2. SessionsInv /\ [Next]_vars => SessionsInv'
  BY SessionsStep
<1> QED
  BY <1>1, <1>2, PTL DEF Spec

(* A refresh token buys one successor, unless it was refreshed twice at    *)
(* once or the request died before retiring it (StaffSession.js:28,        *)
(* staffAuth.service.js:168-172).                                          *)
THEOREM TokenBuysOne == Spec => []OneSuccessor
<1>1. SessionsInv => OneSuccessor
  <2> SUFFICES ASSUME SessionsInv, NEW i \in DOMAIN session \ excused
               PROVE  Cardinality({ j \in DOMAIN session : session[j].parent = i }) <= 1
    BY DEF OneSuccessor
  <2> DEFINE heirs == { j \in DOMAIN session : session[j].parent = i }
  <2>1. \A j, k \in heirs : j = k
    BY DEF SessionsInv, TokensAreWithOne, TokenIsWithOne
  <2>2. CASE heirs = {}
    BY <2>2, FS_EmptySet
  <2>3. CASE heirs # {}
    <3>1. PICK j \in heirs : TRUE
      BY <2>3
    <3>2. heirs = {j}
      BY <2>1, <3>1
    <3>3. Cardinality({j}) = 1
      BY FS_Singleton
    <3>4. Cardinality(heirs) = 1
      BY <3>2, <3>3
    <3> QED
      BY <3>4
  <2> QED
    BY <2>2, <2>3
<1> QED
  BY <1>1, SessionsInvariant, PTL

(* Once every change of credentials has run its course, a session that     *)
(* rests on old ones is alive only if the revocation could not reach it    *)
(* (staffAuth.service.js:193-196, staffUser.service.js:196-200, 222-228).  *)
THEOREM OldCredentialsEnd == Spec => []OnlyEscapedSurvive
<1>1. SessionsInv => OnlyEscapedSurvive
  BY DEF SessionsInv, StaleIsOnItsWayOut, Cutting, OnlyEscapedSurvive
<1> QED
  BY <1>1, SessionsInvariant, PTL

(* As long as no two requests have the counter in hand at once, the        *)
(* account locks at the MaxFailures-th wrong password in a row, and not    *)
(* before (StaffUser.js:113-122).                                          *)
THEOREM LockIsExact == Spec => []LockCountsMisses
<1>1. SessionsInv => LockCountsMisses
  BY DEF SessionsInv, CounterIsExact, LockCountsMisses
<1> QED
  BY <1>1, SessionsInvariant, PTL
=============================================================================
