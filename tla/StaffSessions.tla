---------------------------- MODULE StaffSessions ----------------------------
(***************************************************************************)
(* One staff account, its refresh sessions and its lockout                 *)
(* (staffAuth.service.js, StaffUser.js, StaffSession.js).  A refresh token *)
(* names its session; whoever holds one may present it any number of       *)
(* times, also after it was spent.  Every operation reads, waits (for the  *)
(* database or for bcrypt) and writes, and others run in between.  What    *)
(* ends with an answer and changes nothing (a locked or unknown account, a *)
(* token that has expired) is a step that does not happen.                 *)
(***************************************************************************)
EXTENDS Integers, Sequences, FiniteSets, SequencesExt

CONSTANTS Requests,
          MaxFailures,   \* MAX_FAILED_ATTEMPTS
          MaxSessions    \* bound on the sessions ever created

ASSUME FailuresAssumption == MaxFailures \in Nat \ {0}

VARIABLES
    account,   \* [active, failures, locked], as stored
    session,   \* the session documents, in order of creation
    request,   \* request[q]: what q has read and where it stands
    misses,    \* wrong passwords since the last right one, lapse or reset (history)
    crossed,   \* two requests were on the lock counter at once (history)
    excused    \* tokens refreshed twice at once, or not retired (history)

vars == <<account, session, request, misses, crossed, excused>>

\* Sessions, and requests on their way to one, carry two facts of history:
\* stale, they rest on credentials from before the last change that was to
\* end every session; escaped, that change could not reach them, because
\* they (or one they replaced) were being issued while it revoked, or
\* because it died before it could.
Session(parent, stale, escaped) ==
    [live |-> TRUE, parent |-> parent, stale |-> stale, escaped |-> escaped]

\* revokedAt set; its history no longer matters.
Spent(s) == [s EXCEPT !.live = FALSE, !.stale = FALSE, !.escaped = FALSE]

Idle == [pc |-> "idle", op |-> "none", token |-> 0, failures |-> 0, locked |-> FALSE,
         active |-> TRUE, stale |-> FALSE, escaped |-> FALSE]

Init ==
    /\ account = [active |-> TRUE, failures |-> 0, locked |-> FALSE]
    /\ session = <<Session(0, FALSE, FALSE)>>
    /\ request = [q \in Requests |-> Idle]
    /\ misses = 0
    /\ crossed = FALSE
    /\ excused = {}

InFlight(op) == { q \in Requests : request[q].op \in op }

Answer(q) == request' = [request EXCEPT ![q] = Idle]

Issue(q, parent) ==
    /\ Len(session) < MaxSessions
    /\ session' = Append(session, Session(parent, request[q].stale, request[q].escaped))

\* p is on its way to a new session.
WillIssue(p) ==
    \/ request[p].op \in {"login", "changePassword"}
    \/ request[p].op = "refresh" /\ request[p].pc \in {"account", "issue"}

\* Mutated: the latest session is spared.
RevokeAllButLatest(q) ==
    /\ session' = [i \in DOMAIN session |-> IF i = Len(session) THEN session[i] ELSE Spent(session[i])]
    /\ request' = [p \in Requests |->
            IF p = q THEN IF request[q].op = "changePassword"
                          THEN [request[q] EXCEPT !.pc = "issue"] ELSE Idle
            ELSE [request[p] EXCEPT !.escaped = request[p].stale]]

\* updateMany on the sessions not yet revoked; it does not reach what other
\* requests are about to issue.
RevokeAllSessions(q) ==
    /\ session' = [i \in DOMAIN session |-> Spent(session[i])]
    /\ request' = [p \in Requests |->
            IF p = q THEN IF request[q].op = "changePassword"
                          THEN [request[q] EXCEPT !.pc = "issue"] ELSE Idle
            ELSE [request[p] EXCEPT !.escaped = request[p].stale]]

-----------------------------------------------------------------------------
(* login *)

\* Two requests with the counter in hand make the count inexact for good.
CounterOps == {"login", "changePassword", "reset"}
NoteCrossing ==
    /\ crossed' = (crossed \/ InFlight(CounterOps) # {})
    /\ misses' = IF crossed' THEN 0 ELSE misses

Loaded(op) ==
    [Idle EXCEPT !.pc = "loaded", !.op = op,
                 !.failures = IF op = "deactivate" THEN 0 ELSE account.failures,
                 !.locked = op \in {"changePassword", "reset"} /\ account.locked,
                 !.active = op = "login" => account.active]

\* findOne; a locked account is refused before the password is looked at.
LoginReads(q) ==
    /\ request[q].pc = "idle"
    /\ ~account.locked
    /\ request' = [request EXCEPT ![q] = Loaded("login")]
    /\ NoteCrossing
    /\ UNCHANGED <<account, session, excused>>

\* Mutated: one failure too many.
LockTooLate(q) ==
    LET attempts == request[q].failures + 1 IN
    /\ request[q].op = "login" /\ request[q].pc = "loaded"
    /\ account' = IF attempts > MaxFailures
                  THEN [account EXCEPT !.locked = TRUE, !.failures = 0]
                  ELSE [account EXCEPT !.failures = attempts]
    /\ misses' = IF crossed THEN 0 ELSE misses + 1
    /\ Answer(q)
    /\ UNCHANGED <<session, crossed, excused>>

\* registerFailedLogin: the count in memory plus one, set rather than added.
RegisterFailedLogin(q) ==
    LET attempts == request[q].failures + 1 IN
    /\ request[q].op = "login" /\ request[q].pc = "loaded"
    /\ account' = IF attempts >= MaxFailures
                  THEN [account EXCEPT !.locked = TRUE, !.failures = 0]
                  ELSE [account EXCEPT !.failures = attempts]
    /\ misses' = IF crossed THEN 0 ELSE misses + 1
    /\ Answer(q)
    /\ UNCHANGED <<session, crossed, excused>>

\* The password is right; a deactivated account is told so and no more.
RegisterSuccessfulLogin(q) ==
    /\ request[q].op = "login" /\ request[q].pc = "loaded"
    /\ IF request[q].active
       THEN /\ account' = [account EXCEPT !.failures = 0, !.locked = FALSE]
            /\ misses' = 0
            /\ request' = [request EXCEPT ![q].pc = "issue", ![q].failures = 0]
       ELSE Answer(q) /\ UNCHANGED <<account, misses>>
    /\ UNCHANGED <<session, crossed, excused>>

LoginIssues(q) ==
    /\ request[q].op \in {"login", "changePassword"} /\ request[q].pc = "issue"
    /\ Issue(q, 0)
    /\ Answer(q)
    /\ UNCHANGED <<account, misses, crossed, excused>>

\* lockedUntil passes.
LockLapses ==
    /\ account.locked
    /\ account' = [account EXCEPT !.locked = FALSE]
    /\ misses' = 0
    /\ UNCHANGED <<session, request, crossed, excused>>

-----------------------------------------------------------------------------
(* refresh and logout *)

\* Mutated: a spent token is as good as a live one.
RefreshAnyToken(q, token) ==
    /\ request[q].pc = "idle"
    /\ request' = [request EXCEPT ![q] =
            [Idle EXCEPT !.op = "refresh", !.pc = "account", !.token = token]]
    /\ excused' = IF \E p \in InFlight({"refresh"}) : request[p].token = token
                  THEN excused \cup {token} ELSE excused
    /\ UNCHANGED <<account, session, misses, crossed>>

\* The session as it is read decides: spent means reuse, and everything ends.
RefreshReads(q, token) ==
    /\ request[q].pc = "idle"
    /\ request' = [request EXCEPT ![q] =
            IF session[token].live
            THEN [Idle EXCEPT !.op = "refresh", !.pc = "account", !.token = token,
                              !.stale = session[token].stale,
                              !.escaped = session[token].escaped]
            ELSE [Idle EXCEPT !.op = "refresh", !.pc = "revoke"]]
    /\ excused' = IF session[token].live /\
                     \E p \in InFlight({"refresh"}) : request[p].token = token
                  THEN excused \cup {token} ELSE excused
    /\ UNCHANGED <<account, session, misses, crossed>>

RefreshChecksAccount(q) ==
    /\ request[q].op = "refresh" /\ request[q].pc = "account"
    /\ request' = [request EXCEPT ![q] =
            IF account.active THEN [@ EXCEPT !.pc = "issue"]
            ELSE [Idle EXCEPT !.op = "refresh", !.pc = "revoke"]]
    /\ UNCHANGED <<account, session, misses, crossed, excused>>

RefreshIssues(q) ==
    /\ request[q].op = "refresh" /\ request[q].pc = "issue"
    /\ Issue(q, request[q].token)
    /\ request' = [request EXCEPT ![q] =
            [Idle EXCEPT !.op = "refresh", !.pc = "retire", !.token = request[q].token]]
    /\ UNCHANGED <<account, misses, crossed, excused>>

\* revokedAt and replacedBy on the session read at the start.
RefreshRetires(q) ==
    /\ request[q].pc = "retire"
    /\ session' = [session EXCEPT ![request[q].token] = Spent(@)]
    /\ Answer(q)
    /\ UNCHANGED <<account, misses, crossed, excused>>

RefreshRevokesAll(q) ==
    /\ request[q].op = "refresh" /\ request[q].pc = "revoke"
    /\ RevokeAllSessions(q)
    /\ UNCHANGED <<account, misses, crossed, excused>>

\* One conditional update; a second logout matches nothing.
Logout(token) ==
    /\ session[token].live
    /\ session' = [session EXCEPT ![token] = Spent(@)]
    /\ UNCHANGED <<account, request, misses, crossed, excused>>

-----------------------------------------------------------------------------
(* changePassword, and the admin's resetPassword and deactivate            *)
(* (staffUser.service.js; who may, and on whom, is module StaffAccounts)   *)

\* requireStaff lets an active account in; the wrong current password ends here.
CutReads(q, op) ==
    /\ request[q].pc = "idle"
    /\ op = "changePassword" => account.active
    /\ request' = [request EXCEPT ![q] = Loaded(op)]
    /\ IF op \in CounterOps THEN NoteCrossing ELSE UNCHANGED <<misses, crossed>>
    /\ UNCHANGED <<account, session, excused>>

\* save() writes the paths that differ from what was read: a counter read as
\* zero is not set to zero again.
CutSaves(q) ==
    LET op == request[q].op IN
    /\ op \in {"changePassword", "reset", "deactivate"} /\ request[q].pc = "loaded"
    /\ account' = [account EXCEPT
            !.active = IF op = "deactivate" THEN FALSE ELSE @,
            !.failures = IF op # "deactivate" /\ request[q].failures # 0 THEN 0 ELSE @,
            !.locked = IF op # "deactivate" /\ request[q].locked THEN FALSE ELSE @]
    /\ misses' = IF op # "deactivate" THEN 0 ELSE misses
    /\ session' = [i \in DOMAIN session |-> IF session[i].live
                                        THEN Session(session[i].parent, TRUE, FALSE)
                                        ELSE session[i]]
    /\ request' = [p \in Requests |->
            IF p = q THEN [Idle EXCEPT !.pc = "revoke", !.op = op]
            ELSE [request[p] EXCEPT !.stale = WillIssue(p), !.escaped = FALSE]]
    /\ UNCHANGED <<crossed, excused>>

CutRevokes(q) ==
    /\ request[q].op # "refresh" /\ request[q].pc = "revoke"
    /\ RevokeAllSessions(q)
    /\ UNCHANGED <<account, misses, crossed, excused>>

\* A PATCH puts the account back to work.
Reactivate ==
    /\ ~account.active
    /\ account' = [account EXCEPT !.active = TRUE]
    /\ UNCHANGED <<session, request, misses, crossed, excused>>

\* A query fails or the process ends: what was not written is not written.
Die(q) ==
    /\ request[q].pc # "idle"
    /\ excused' = IF request[q].pc = "retire" THEN excused \cup {request[q].token} ELSE excused
    /\ IF request[q].op # "refresh" /\ request[q].pc = "revoke"
       THEN /\ session' = [i \in DOMAIN session |->
                              [session[i] EXCEPT !.escaped = session[i].stale]]
            /\ request' = [p \in Requests |-> IF p = q THEN Idle ELSE
                              [request[p] EXCEPT !.escaped = request[p].stale]]
       ELSE Answer(q) /\ UNCHANGED session
    /\ UNCHANGED <<account, misses, crossed>>

Step(q) ==
    \/ LoginReads(q) \/ RegisterFailedLogin(q) \/ RegisterSuccessfulLogin(q) \/ LoginIssues(q)
    \/ \E token \in DOMAIN session : RefreshReads(q, token)
    \/ RefreshChecksAccount(q) \/ RefreshIssues(q) \/ RefreshRetires(q) \/ RefreshRevokesAll(q)
    \/ \E op \in {"changePassword", "reset", "deactivate"} : CutReads(q, op)
    \/ CutSaves(q) \/ CutRevokes(q)
    \/ Die(q)

Next ==
    \/ \E q \in Requests : Step(q)
    \/ \E token \in DOMAIN session : Logout(token)
    \/ LockLapses \/ Reactivate

Spec == Init /\ [][Next]_vars

-----------------------------------------------------------------------------
(* A refresh token buys one successor: a second one takes two refreshes of *)
(* it at once, or a request that died before it retired the token          *)
(* (StaffSession.js:28, staffAuth.service.js:168-172).                     *)
OneSuccessor ==
    \A i \in DOMAIN session \ excused :
        Cardinality({ j \in DOMAIN session : session[j].parent = i }) <= 1

(* After a password change, a reset or a deactivation has run its course,  *)
(* a session that rests on credentials from before it is alive only if it, *)
(* or one it descends from, was being issued while sessions were being     *)
(* revoked, or the change died between its save and its revocation         *)
(* (staffAuth.service.js:193-196, staffUser.service.js:196-200, 222-228).  *)
OnlyEscapedSurvive ==
    (\A q \in Requests : request[q].op # "refresh" => request[q].pc # "revoke")
        => \A i \in DOMAIN session :
            session[i].live /\ session[i].stale => session[i].escaped

(* As long as no two requests have the counter in hand at once, the stored *)
(* count is the number of wrong passwords in a row, and the account locks  *)
(* at the MaxFailures-th and not before (StaffUser.js:113-122).            *)
LockCountsMisses ==
    ~crossed => /\ account.locked <=> misses = MaxFailures
                /\ ~account.locked => account.failures = misses
=============================================================================
