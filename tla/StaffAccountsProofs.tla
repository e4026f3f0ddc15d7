------------------------- MODULE StaffAccountsProofs -------------------------
(***************************************************************************)
(* The promises of StaffAccounts, for any users, branches and requests.    *)
(***************************************************************************)
EXTENDS StaffAccounts, TLAPS

\* A request between its read and its save.
Changing(r) == req[r].pc \in {"count", "save"}

\* It holds an account that exists, and lists what it will move.
HoldsAnAccount(r) ==
  /\ req[r].user \in Users /\ req[r].copy \in Accounts /\ req[r].after \in Accounts
  /\ staff[req[r].user] \in Accounts
  /\ Moved(req[r].copy, req[r].after) \subseteq req[r].listed

\* It takes nothing away from the one who made it.
SparesItsActor(r) ==
  req[r].actor = req[r].user =>
    /\ req[r].after.role = req[r].copy.role
    /\ req[r].copy.active => req[r].after.active

\* Without a revocation to come it leaves every right alone.
RevokesIfItMust(r) ==
  /\ Fits(req[r].copy)
  /\ req[r].revokes \/ /\ req[r].after.role = req[r].copy.role
                       /\ req[r].after.branch = req[r].copy.branch
                       /\ req[r].copy.active => req[r].after.active

\* Undisturbed, it has an up-to-date copy, and has counted if it removes an admin.
IsUpToDate(r) ==
  /\ req[r].copy = staff[req[r].user]
  /\ req[r].pc = "save" /\ ActiveAdmin(req[r].copy) /\ ~ActiveAdmin(req[r].after)
       => OtherAdmins(req[r].user) # {}

ChangesAreSound ==
  \A r \in AccountRequests : Changing(r) =>
    /\ HoldsAnAccount(r) /\ SparesItsActor(r)
    /\ ~strayed => RevokesIfItMust(r)
    /\ ~interleaved => IsUpToDate(r)

\* A request about to insert, and one that has still a row to write.
OthersAreSound ==
  \A r \in AccountRequests :
    /\ req[r].pc = "insert" => /\ req[r].user \in Users /\ req[r].after \in Accounts
                               /\ Fits(req[r].after) /\ req[r].listed = {"role"}
    /\ req[r].pc \in {"revoke", "audit"} => req[r].user \in Users /\ req[r].after \in Accounts

AccountsFit ==
  ~strayed \/ ~interleaved => \A u \in Users : staff[u] # NoAccount => Fits(staff[u])

AccountsStay == \A u \in Users : staff[u] = NoAccount => Seed[u] = NoAccount

AnAdminIsLeft == ~interleaved => SomeAdminRemains

StaffInv ==
  /\ AccountsTypeOK /\ ChangesAreSound /\ OthersAreSound
  /\ AccountsFit /\ AccountsStay /\ AnAdminIsLeft
  /\ TrailKnowsEveryChange /\ OldSessionsAreEnding

-----------------------------------------------------------------------------
LEMMA NoAccountIsNone == NoAccount \notin Accounts
BY DEF NoAccount, Accounts, Roles

\* What resolveRoleAndBranch returns is an account whose role and branch agree.
LEMMA ResolvedFits ==
  ASSUME NEW p \in Payloads, NEW c \in Accounts, Resolvable(p, c)
  PROVE  Resolved(p, c) \in Accounts /\ Fits(Resolved(p, c))
BY AccountsAssumption
   DEF Payloads, Accounts, Roles, Keep, Resolvable, Resolved, NextRole, NextBranch, Fits

LEMMA ActivityDoesNotMatter ==
  ASSUME NEW a \in Accounts, NEW b \in BOOLEAN
  PROVE  /\ [a EXCEPT !.active = b] \in Accounts
         /\ Fits(a) => Fits([a EXCEPT !.active = b])
BY DEF Accounts, Fits

LEMMA CreatedFits ==
  ASSUME NEW p \in Payloads, Resolvable(p, NoAccount), p.role # Keep
  PROVE  /\ [Resolved(p, NoAccount) EXCEPT !.active = TRUE] \in Accounts
         /\ Fits([Resolved(p, NoAccount) EXCEPT !.active = TRUE])
<1>1. Resolved(p, NoAccount) \in Accounts /\ Fits(Resolved(p, NoAccount))
  BY AccountsAssumption DEF Payloads, Accounts, Roles, Keep, Resolvable, Resolved,
                            NextRole, NextBranch, Fits, NoAccount
<1> QED
  BY <1>1, ActivityDoesNotMatter

\* A save over an account gives an account.
LEMMA SavedIsAccount ==
  ASSUME NEW c \in Accounts, NEW a \in Accounts, NEW now \in Accounts
  PROVE  /\ Saved(c, a, now) \in Accounts
         /\ c = now => Saved(c, a, now) = a
BY DEF Saved, Accounts

\* A save that leaves no admin with a branch leaves no manager without one.
LEMMA SavedFits ==
  ASSUME NEW c \in Accounts, NEW a \in Accounts, NEW now \in Accounts,
         Fits(c), Fits(a), Fits(now),
         ~(Saved(c, a, now).role = "admin" /\ Saved(c, a, now).branch # NoBranch)
  PROVE  Fits(Saved(c, a, now))
BY DEF Saved, Fits, Accounts, Roles

-----------------------------------------------------------------------------
LEMMA StaffInit == AccountsInit => StaffInv
<1> SUFFICES ASSUME AccountsInit PROVE StaffInv
  OBVIOUS
<1> USE DEF AccountsInit
<1>1. AccountsTypeOK
  BY AccountsAssumption DEF AccountsTypeOK, NoRequest, RequestRecords
<1>2. ChangesAreSound /\ OthersAreSound
  BY DEF ChangesAreSound, OthersAreSound, Changing, NoRequest
<1>3. AccountsFit /\ AccountsStay /\ AnAdminIsLeft
  BY AccountsAssumption DEF AccountsFit, AccountsStay, AnAdminIsLeft, SomeAdminRemains
<1>4. TrailKnowsEveryChange /\ OldSessionsAreEnding
  BY DEF TrailKnowsEveryChange, OldSessionsAreEnding
<1> QED
  BY <1>1, <1>2, <1>3, <1>4 DEF StaffInv

-----------------------------------------------------------------------------
(***************************************************************************)
(* Steps                                                                   *)
(***************************************************************************)
\* Steps that change no account and no trail keep what is said of accounts alone.
LEMMA QuietStep ==
  ASSUME StaffInv, UNCHANGED <<staff, interleaved, strayed>>
  PROVE  AccountsFit' /\ AccountsStay' /\ AnAdminIsLeft'
BY DEF StaffInv, AccountsFit, AccountsStay, AnAdminIsLeft, SomeAdminRemains

\* A read: request r now holds account u and what it makes of it.
LEMMA HoldStep ==
  ASSUME StaffInv, NEW r \in AccountRequests, NEW u \in Users, staff[u] # NoAccount,
         NEW pc \in {"count", "save"}, NEW after \in Accounts,
         NEW listed \in SUBSET Fields, NEW revokes \in BOOLEAN,
         req[r].pc = "read", Hold(r, u, pc, after, listed, revokes),
         UNCHANGED <<staff, standing, auditLog, made, interleaved, strayed, broken>>,
         Moved(staff[u], after) \subseteq listed,
         req[r].actor = u => /\ after.role = staff[u].role
                             /\ staff[u].active => after.active,
         Fits(staff[u]) =>
           revokes \/ /\ after.role = staff[u].role /\ after.branch = staff[u].branch
                      /\ staff[u].active => after.active,
         pc = "save" /\ ActiveAdmin(staff[u]) => ActiveAdmin(after)
  PROVE  StaffInv'
<1> USE DEF StaffInv
<1>1. staff[u] \in Accounts
  BY DEF AccountsTypeOK
<1>2. AccountsTypeOK'
  <2>1. [req[r] EXCEPT !.pc = pc, !.user = u, !.copy = staff[u],
                       !.after = after, !.listed = listed, !.revokes = revokes] \in RequestRecords
    BY <1>1 DEF AccountsTypeOK, RequestRecords
  <2> QED
    BY <2>1 DEF AccountsTypeOK, Hold
<1>3. /\ req'[r].pc = pc /\ req'[r].user = u /\ req'[r].copy = staff[u]
      /\ req'[r].after = after /\ req'[r].listed = listed /\ req'[r].revokes = revokes
      /\ req'[r].actor = req[r].actor
      /\ \A s \in AccountRequests \ {r} : req'[s] = req[s]
  BY DEF AccountsTypeOK, Hold, RequestRecords
<1>4. ~strayed \/ ~interleaved => Fits(staff[u])
  BY DEF AccountsFit
<1>5. ChangesAreSound'
  <2> SUFFICES ASSUME NEW s \in AccountRequests, Changing(s)'
               PROVE  /\ HoldsAnAccount(s)' /\ SparesItsActor(s)'
                      /\ ~strayed => RevokesIfItMust(s)'
                      /\ ~interleaved => IsUpToDate(s)'
    BY DEF ChangesAreSound
  <2>1. CASE s = r
    <3>1. HoldsAnAccount(r)' /\ SparesItsActor(r)'
      BY <1>1, <1>3 DEF HoldsAnAccount, SparesItsActor, Moved
    <3>2. ~strayed => RevokesIfItMust(r)'
      BY <1>3, <1>4 DEF RevokesIfItMust, Fits
    <3>3. ~interleaved => IsUpToDate(r)'
      BY <1>3 DEF IsUpToDate, ActiveAdmin
    <3> QED
      BY <2>1, <3>1, <3>2, <3>3
  <2>2. CASE s # r
    <3>1. req'[s] = req[s]
      BY <1>3, <2>2
    <3> QED
      BY <3>1 DEF ChangesAreSound, Changing, HoldsAnAccount, SparesItsActor,
                  RevokesIfItMust, IsUpToDate, OtherAdmins, Moved
  <2> QED
    BY <2>1, <2>2
<1>6. OthersAreSound'
  BY <1>3 DEF OthersAreSound
<1>7. TrailKnowsEveryChange' /\ OldSessionsAreEnding'
  <2>1. \A s \in AccountRequests : req[s].pc \in {"revoke", "audit"} => req'[s] = req[s]
    BY <1>3
  <2> QED
    BY <2>1 DEF TrailKnowsEveryChange, OldSessionsAreEnding
<1> QED
  BY <1>2, <1>5, <1>6, <1>7, QuietStep

LEMMA UpdateStep ==
  ASSUME StaffInv, NEW r \in AccountRequests, NEW u \in Users, NEW p \in Payloads,
         ReadToUpdate(r, u, p)
  PROVE  StaffInv'
<1> DEFINE c       == staff[u]
           after   == Resolved(p, c)
           removes == p.role \notin {Keep, c.role} \/ (p.active = "off" /\ c.active)
           pc      == IF removes /\ ActiveAdmin(c) THEN "count" ELSE "save"
<1>1. /\ req[r].pc = "read" /\ c # NoAccount
      /\ removes => req[r].actor # u
      /\ Resolvable(p, c)
      /\ Hold(r, u, pc, after, Moved(c, after), EndsSessions(p, removes))
      /\ UNCHANGED <<staff, standing, auditLog, made, interleaved, strayed, broken>>
  BY DEF ReadToUpdate, NotSelf
<1>2. c \in Accounts
  BY <1>1 DEF StaffInv, AccountsTypeOK
<1>3. after \in Accounts
  BY <1>1, <1>2, ResolvedFits
<1>4. ~removes => after.role = c.role /\ (c.active => after.active)
  BY <1>2 DEF Payloads, Accounts, Resolved, NextRole, Keep
<1>5. Fits(c) =>
        EndsSessions(p, removes) \/ /\ after.role = c.role /\ after.branch = c.branch
                                    /\ c.active => after.active
  BY <1>2, <1>4 DEF EndsSessions, Resolved, NextRole, NextBranch, Fits, Accounts, Roles
<1>6. pc = "save" /\ ActiveAdmin(c) => ActiveAdmin(after)
  BY <1>4 DEF ActiveAdmin
<1>7. EndsSessions(p, removes) \in BOOLEAN /\ Moved(c, after) \in SUBSET Fields
  BY DEF EndsSessions, Moved
<1>8. pc \in {"count", "save"}
  OBVIOUS
<1> HIDE DEF after, removes, pc
<1> QED
  BY <1>1, <1>3, <1>4, <1>5, <1>6, <1>7, <1>8, HoldStep

LEMMA DeactivateStep ==
  ASSUME StaffInv, NEW r \in AccountRequests, NEW u \in Users, ReadToDeactivate(r, u)
  PROVE  StaffInv'
<1> DEFINE after == [staff[u] EXCEPT !.active = FALSE]
           pc    == IF ActiveAdmin(staff[u]) THEN "count" ELSE "save"
<1>1. /\ req[r].pc = "read" /\ staff[u] # NoAccount /\ req[r].actor # u
      /\ Hold(r, u, pc, after, {"active"}, TRUE)
      /\ UNCHANGED <<staff, standing, auditLog, made, interleaved, strayed, broken>>
  BY DEF ReadToDeactivate, NotSelf
<1>2. staff[u] \in Accounts
  BY <1>1 DEF StaffInv, AccountsTypeOK
<1>3. after \in Accounts
  BY <1>2, ActivityDoesNotMatter
<1>4. Moved(staff[u], after) \subseteq {"active"}
  BY <1>2 DEF Moved, Fields, Accounts
<1>5. pc = "save" /\ ActiveAdmin(staff[u]) => ActiveAdmin(after)
  OBVIOUS
<1>6. pc \in {"count", "save"} /\ {"active"} \in SUBSET Fields
  BY DEF Fields
<1> HIDE DEF after, pc
<1> QED
  BY <1>1, <1>3, <1>4, <1>5, <1>6, HoldStep

LEMMA ResetStep ==
  ASSUME StaffInv, NEW r \in AccountRequests, NEW u \in Users, ReadToReset(r, u)
  PROVE  StaffInv'
<1>1. staff[u] \in Accounts
  BY DEF StaffInv, AccountsTypeOK, ReadToReset
<1>2. Moved(staff[u], staff[u]) \subseteq {}
  BY DEF Moved
<1> QED
  BY <1>1, <1>2, HoldStep DEF ReadToReset

LEMMA CreateStep ==
  ASSUME StaffInv, NEW r \in AccountRequests, NEW u \in Users, NEW p \in Payloads,
         PrepareCreate(r, u, p)
  PROVE  StaffInv'
<1> DEFINE after == [Resolved(p, NoAccount) EXCEPT !.active = TRUE]
<1>1. after \in Accounts /\ Fits(after)
  BY CreatedFits DEF PrepareCreate
<1>2. req' = [req EXCEPT ![r] = [@ EXCEPT !.pc = "insert", !.user = u,
                                         !.listed = {"role"}, !.after = after]]
  BY DEF PrepareCreate
<1>3. /\ req[r].pc = "read"
      /\ UNCHANGED <<staff, standing, auditLog, made, interleaved, strayed, broken>>
  BY DEF PrepareCreate
<1> HIDE DEF after
<1>4. AccountsTypeOK'
  <2>1. [req[r] EXCEPT !.pc = "insert", !.user = u, !.listed = {"role"}, !.after = after]
          \in RequestRecords
    <3>1. req[r] \in RequestRecords /\ {"role"} \in SUBSET Fields
      BY DEF StaffInv, AccountsTypeOK, Fields
    <3> QED
      BY <1>1, <3>1 DEF RequestRecords
  <2> QED
    BY <1>2, <1>3, <2>1 DEF StaffInv, AccountsTypeOK
<1>5. /\ req'[r].pc = "insert" /\ req'[r].user = u /\ req'[r].listed = {"role"}
      /\ req'[r].after = after
      /\ \A s \in AccountRequests \ {r} : req'[s] = req[s]
  BY <1>2 DEF StaffInv, AccountsTypeOK, RequestRecords
<1>6. ChangesAreSound'
  BY <1>3, <1>5 DEF StaffInv, ChangesAreSound, Changing, HoldsAnAccount, SparesItsActor,
                    RevokesIfItMust, IsUpToDate, OtherAdmins, Moved
<1>7. OthersAreSound'
  BY <1>1, <1>5 DEF StaffInv, OthersAreSound, Fits
<1>8. TrailKnowsEveryChange' /\ OldSessionsAreEnding'
  <2>1. \A s \in AccountRequests : req[s].pc \in {"revoke", "audit"} => req'[s] = req[s]
    BY <1>3, <1>5
  <2> QED
    BY <1>3, <2>1 DEF StaffInv, TrailKnowsEveryChange, OldSessionsAreEnding
<1> QED
  BY <1>3, <1>4, <1>6, <1>7, <1>8, QuietStep DEF StaffInv

\* A request that does not hold a save or a row to write may end, or begin.
LEMMA TurnStep ==
  ASSUME StaffInv, NEW r \in AccountRequests, NEW q \in RequestRecords,
         req' = [req EXCEPT ![r] = q], q.pc \in {"idle", "read"},
         UNCHANGED <<staff, standing, auditLog, interleaved, strayed>>,
         made' \in Nat, broken' \in BOOLEAN,
         broken' \/ (broken' = broken /\ req[r].pc \notin {"revoke", "audit"})
  PROVE  StaffInv'
<1> USE DEF StaffInv
<1>1. AccountsTypeOK'
  BY DEF AccountsTypeOK
<1>2. req'[r] = q /\ \A s \in AccountRequests \ {r} : req'[s] = req[s]
  BY DEF AccountsTypeOK
<1>3. ChangesAreSound'
  BY <1>2 DEF ChangesAreSound, Changing, HoldsAnAccount, SparesItsActor,
              RevokesIfItMust, IsUpToDate, OtherAdmins, Moved
<1>4. OthersAreSound'
  BY <1>2 DEF OthersAreSound
<1>5. TrailKnowsEveryChange' /\ OldSessionsAreEnding'
  <2>1. CASE broken'
    BY <2>1 DEF TrailKnowsEveryChange, OldSessionsAreEnding
  <2>2. CASE broken' = broken /\ req[r].pc \notin {"revoke", "audit"}
    <3>1. \A s \in AccountRequests : req[s].pc \in {"revoke", "audit"} => req'[s] = req[s]
      BY <1>2, <2>2
    <3> QED
      BY <2>2, <3>1 DEF TrailKnowsEveryChange, OldSessionsAreEnding
  <2> QED
    BY <2>1, <2>2
<1> QED
  BY <1>1, <1>3, <1>4, <1>5, QuietStep

LEMMA IdleIsInFlight == NoRequest \in RequestRecords
BY DEF NoRequest, RequestRecords

LEMMA ArriveStep ==
  ASSUME StaffInv, NEW r \in AccountRequests, NEW a \in Users, Arrive(r, a)
  PROVE  StaffInv'
<1>1. [NoRequest EXCEPT !.pc = "read", !.actor = a] \in RequestRecords
  BY DEF NoRequest, RequestRecords
<1>2. [NoRequest EXCEPT !.pc = "read", !.actor = a].pc = "read"
  BY DEF NoRequest
<1>3. made' \in Nat /\ broken' = broken /\ broken \in BOOLEAN /\ req[r].pc = "idle"
  BY DEF Arrive, StaffInv, AccountsTypeOK
<1> QED
  BY <1>1, <1>2, <1>3, TurnStep DEF Arrive

LEMMA EndStep ==
  ASSUME StaffInv, NEW r \in AccountRequests, Refuse(r) \/ SaveInvalid(r) \/ Break(r)
  PROVE  StaffInv'
<1>1. NoRequest.pc = "idle" /\ made \in Nat /\ broken \in BOOLEAN
  BY DEF NoRequest, StaffInv, AccountsTypeOK
<1> QED
  BY <1>1, IdleIsInFlight, TurnStep DEF Refuse, SaveInvalid, Break

LEMMA CountStep ==
  ASSUME StaffInv, NEW r \in AccountRequests, CountAdmins(r)
  PROVE  StaffInv'
<1> USE DEF StaffInv
<1>1. /\ req[r].pc = "count"
      /\ UNCHANGED <<staff, standing, auditLog, made, interleaved, strayed, broken>>
  BY DEF CountAdmins
<1>2. CASE OtherAdmins(req[r].user) = {}
  <2>1. req' = [req EXCEPT ![r] = NoRequest]
    BY <1>2 DEF CountAdmins
  <2>2. NoRequest.pc = "idle" /\ made' \in Nat /\ broken' \in BOOLEAN
    BY <1>1 DEF NoRequest, AccountsTypeOK
  <2> QED
    BY <1>1, <2>1, <2>2, IdleIsInFlight, TurnStep
<1>3. CASE OtherAdmins(req[r].user) # {}
  <2>1. req' = [req EXCEPT ![r] = [@ EXCEPT !.pc = "save"]]
    BY <1>3 DEF CountAdmins
  <2>2. AccountsTypeOK'
    <3>1. [req[r] EXCEPT !.pc = "save"] \in RequestRecords
      BY DEF AccountsTypeOK, RequestRecords
    <3> QED
      BY <1>1, <2>1, <3>1 DEF AccountsTypeOK
  <2>3. /\ req'[r].pc = "save" /\ req'[r].user = req[r].user /\ req'[r].copy = req[r].copy
        /\ req'[r].after = req[r].after /\ req'[r].listed = req[r].listed
        /\ req'[r].revokes = req[r].revokes /\ req'[r].actor = req[r].actor
        /\ \A s \in AccountRequests \ {r} : req'[s] = req[s]
    BY <2>1 DEF AccountsTypeOK, RequestRecords
  <2>4. ChangesAreSound'
    <3> SUFFICES ASSUME NEW s \in AccountRequests, Changing(s)'
                 PROVE  /\ HoldsAnAccount(s)' /\ SparesItsActor(s)'
                        /\ ~strayed => RevokesIfItMust(s)'
                        /\ ~interleaved => IsUpToDate(s)'
      BY <1>1 DEF ChangesAreSound
    <3>1. Changing(s) /\ HoldsAnAccount(s) /\ SparesItsActor(s)
      BY <1>1, <2>3 DEF Changing, ChangesAreSound
    <3>2. /\ req'[s].user = req[s].user /\ req'[s].copy = req[s].copy
          /\ req'[s].after = req[s].after /\ req'[s].listed = req[s].listed
          /\ req'[s].revokes = req[s].revokes /\ req'[s].actor = req[s].actor
      BY <2>3
    <3>3. HoldsAnAccount(s)' /\ SparesItsActor(s)'
      BY <1>1, <3>1, <3>2 DEF HoldsAnAccount, SparesItsActor, Moved
    <3>4. ~strayed => RevokesIfItMust(s)'
      BY <3>1, <3>2 DEF ChangesAreSound, RevokesIfItMust
    <3>5. ~interleaved => IsUpToDate(s)'
      BY <1>1, <1>3, <2>3, <3>1 DEF ChangesAreSound, IsUpToDate, OtherAdmins
    <3> QED
      BY <3>3, <3>4, <3>5
  <2>5. OthersAreSound'
    BY <1>1, <2>3 DEF OthersAreSound
  <2>6. TrailKnowsEveryChange' /\ OldSessionsAreEnding'
    <3>1. \A s \in AccountRequests : req[s].pc \in {"revoke", "audit"} => req'[s] = req[s]
      BY <1>1, <2>3
    <3> QED
      BY <1>1, <3>1 DEF TrailKnowsEveryChange, OldSessionsAreEnding
  <2> QED
    BY <1>1, <2>2, <2>4, <2>5, <2>6, QuietStep
<1> QED
  BY <1>2, <1>3

LEMMA RevokeStep ==
  ASSUME StaffInv, NEW r \in AccountRequests, Revoke(r)
  PROVE  StaffInv'
<1> USE DEF StaffInv
<1>1. /\ req[r].pc = "revoke" /\ req' = [req EXCEPT ![r].pc = "audit"]
      /\ standing' = [standing EXCEPT ![req[r].user] = FALSE]
      /\ UNCHANGED <<staff, auditLog, made, interleaved, strayed, broken>>
  BY DEF Revoke
<1>2. AccountsTypeOK'
  <2>1. [req[r] EXCEPT !.pc = "audit"] \in RequestRecords
    BY DEF AccountsTypeOK, RequestRecords
  <2> QED
    BY <1>1, <2>1 DEF AccountsTypeOK
<1>3. /\ req'[r].pc = "audit" /\ req'[r].user = req[r].user
      /\ req'[r].after = req[r].after /\ req'[r].listed = req[r].listed
      /\ \A s \in AccountRequests \ {r} : req'[s] = req[s]
  BY <1>1 DEF AccountsTypeOK, RequestRecords
<1>4. ChangesAreSound'
  BY <1>1, <1>3 DEF ChangesAreSound, Changing, HoldsAnAccount, SparesItsActor,
                    RevokesIfItMust, IsUpToDate, OtherAdmins, Moved
<1>5. OthersAreSound'
  BY <1>1, <1>3 DEF OthersAreSound
<1>6. TrailKnowsEveryChange'
  BY <1>1, <1>3 DEF TrailKnowsEveryChange
<1>7. OldSessionsAreEnding'
  BY <1>1, <1>3 DEF AccountsTypeOK, OldSessionsAreEnding
<1> QED
  BY <1>1, <1>2, <1>4, <1>5, <1>6, <1>7, QuietStep

LEMMA AuditStep ==
  ASSUME StaffInv, NEW r \in AccountRequests, Audit(r)
  PROVE  StaffInv'
<1> USE DEF StaffInv
<1>1. /\ req[r].pc = "audit" /\ req' = [req EXCEPT ![r] = NoRequest]
      /\ auditLog' = auditLog \union {RowFor(r)}
      /\ UNCHANGED <<staff, standing, made, interleaved, strayed, broken>>
  BY DEF Audit
<1>2. RowFor(r) \in Rows
  BY <1>1 DEF AccountsTypeOK, RequestRecords, OthersAreSound, RowFor, Rows
<1>3. AccountsTypeOK'
  BY <1>1, <1>2, IdleIsInFlight DEF AccountsTypeOK
<1>4. req'[r].pc = "idle" /\ \A s \in AccountRequests \ {r} : req'[s] = req[s]
  BY <1>1 DEF AccountsTypeOK, NoRequest
<1>5. ChangesAreSound'
  BY <1>1, <1>4 DEF ChangesAreSound, Changing, HoldsAnAccount, SparesItsActor,
                    RevokesIfItMust, IsUpToDate, OtherAdmins, Moved
<1>6. OthersAreSound'
  BY <1>4 DEF OthersAreSound
<1>7. TrailKnowsEveryChange'
  <2>1. /\ RowFor(r).user = req[r].user /\ RowFor(r).fields = req[r].listed
        /\ RowFor(r).to = req[r].after
    BY DEF RowFor
  <2> QED
    BY <1>1, <1>4, <2>1 DEF TrailKnowsEveryChange
<1>8. OldSessionsAreEnding'
  BY <1>1, <1>4 DEF OldSessionsAreEnding
<1> QED
  BY <1>1, <1>3, <1>5, <1>6, <1>7, <1>8, QuietStep

LEMMA InsertStep ==
  ASSUME StaffInv, NEW r \in AccountRequests, Insert(r)
  PROVE  StaffInv'
<1> USE DEF StaffInv
<1> DEFINE u == req[r].user
<1>1. /\ req[r].pc = "insert"
      /\ UNCHANGED <<standing, auditLog, made, interleaved, strayed, broken>>
  BY DEF Insert
<1>2. u \in Users /\ req[r].after \in Accounts /\ Fits(req[r].after) /\ req[r].listed = {"role"}
  BY <1>1 DEF OthersAreSound
<1>3. CASE UNCHANGED staff /\ req' = [req EXCEPT ![r] = NoRequest]
  <2>1. NoRequest.pc = "idle" /\ made' \in Nat /\ broken' \in BOOLEAN
    BY <1>1 DEF NoRequest, AccountsTypeOK
  <2> QED
    BY <1>1, <1>3, <2>1, IdleIsInFlight, TurnStep
<1>4. CASE /\ staff[u] = NoAccount
           /\ staff' = [staff EXCEPT ![u] = req[r].after]
           /\ req' = [req EXCEPT ![r].pc = "audit"]
  <2>1. AccountsTypeOK'
    <3>1. [req[r] EXCEPT !.pc = "audit"] \in RequestRecords
      BY DEF AccountsTypeOK, RequestRecords
    <3> QED
      BY <1>1, <1>2, <1>4, <3>1 DEF AccountsTypeOK
  <2>2. /\ req'[r].pc = "audit" /\ req'[r].user = u
        /\ req'[r].after = req[r].after /\ req'[r].listed = req[r].listed
        /\ \A s \in AccountRequests \ {r} : req'[s] = req[s]
    BY <1>4 DEF AccountsTypeOK, RequestRecords
  <2>3. staff'[u] = req[r].after /\ \A w \in Users \ {u} : staff'[w] = staff[w]
    BY <1>2, <1>4 DEF AccountsTypeOK
  <2>4. ~ActiveAdmin(staff[u])
    BY <1>4 DEF ActiveAdmin, NoAccount
  <2>5. ChangesAreSound'
    <3> SUFFICES ASSUME NEW s \in AccountRequests, Changing(s)'
                 PROVE  /\ HoldsAnAccount(s)' /\ SparesItsActor(s)'
                        /\ ~strayed => RevokesIfItMust(s)'
                        /\ ~interleaved => IsUpToDate(s)'
      BY <1>1 DEF ChangesAreSound
    <3>1. Changing(s) /\ req'[s] = req[s]
      BY <2>2 DEF Changing
    <3>2. HoldsAnAccount(s) /\ req[s].user # u
      BY <1>4, <3>1, NoAccountIsNone DEF ChangesAreSound, HoldsAnAccount
    <3>3. staff'[req[s].user] = staff[req[s].user]
      BY <2>3, <3>2 DEF HoldsAnAccount
    <3>4. OtherAdmins(req[s].user) \subseteq OtherAdmins(req[s].user)'
      BY <2>3, <2>4, <3>1 DEF OtherAdmins, ActiveAdmin
    <3> QED
      BY <1>1, <3>1, <3>2, <3>3, <3>4
         DEF ChangesAreSound, HoldsAnAccount, SparesItsActor, RevokesIfItMust, IsUpToDate, Moved
  <2>6. OthersAreSound'
    BY <1>2, <2>2 DEF OthersAreSound
  <2>7. AccountsFit' /\ AccountsStay'
    BY <1>1, <1>2, <2>3, NoAccountIsNone DEF AccountsFit, AccountsStay
  <2>8. AnAdminIsLeft'
    BY <1>1, <2>3, <2>4 DEF AnAdminIsLeft, SomeAdminRemains, ActiveAdmin
  <2>9. TrailKnowsEveryChange'
    BY <1>1, <1>2, <1>4, <2>2, <2>3 DEF TrailKnowsEveryChange, AccountsStay, Known, Fields
  <2>10. OldSessionsAreEnding'
    BY <1>1, <2>2 DEF OldSessionsAreEnding
  <2> QED
    BY <2>1, <2>5, <2>6, <2>7, <2>8, <2>9, <2>10
<1> QED
  BY <1>3, <1>4 DEF Insert

LEMMA SaveStep ==
  ASSUME StaffInv, NEW r \in AccountRequests, Save(r)
  PROVE  StaffInv'
<1> USE DEF StaffInv
<1> DEFINE u == req[r].user
           c == req[r].copy
           a == req[r].after
           now == staff[u]
           new == Saved(c, a, now)
<1>1. /\ req[r].pc = "save" /\ Fits(a)
      /\ staff' = [staff EXCEPT ![u] = new]
      /\ standing' = [standing EXCEPT ![u] =
                        @ \/ new.role # now.role \/ new.branch # now.branch
                          \/ (now.active /\ ~new.active)]
      /\ interleaved' = (interleaved \/ Overtaken(r) # {})
      /\ strayed' = (strayed \/ (new.role = "admin" /\ new.branch # NoBranch))
      /\ req' = [req EXCEPT ![r].pc = IF req[r].revokes THEN "revoke" ELSE "audit"]
      /\ UNCHANGED <<auditLog, made, broken>>
  BY DEF Save
<1>2. /\ u \in Users /\ c \in Accounts /\ a \in Accounts /\ now \in Accounts
      /\ Moved(c, a) \subseteq req[r].listed
      /\ ~strayed => RevokesIfItMust(r)
      /\ ~interleaved => IsUpToDate(r)
  BY <1>1 DEF ChangesAreSound, Changing, HoldsAnAccount
<1>3. new \in Accounts /\ (c = now => new = a)
  BY <1>2, SavedIsAccount
<1>4. /\ req'[r].pc = IF req[r].revokes THEN "revoke" ELSE "audit"
      /\ req'[r].user = u /\ req'[r].after = a /\ req'[r].listed = req[r].listed
      /\ \A s \in AccountRequests \ {r} : req'[s] = req[s]
  BY <1>1 DEF AccountsTypeOK, RequestRecords
<1>5. staff'[u] = new /\ \A w \in Users \ {u} : staff'[w] = staff[w]
  BY <1>1, <1>2 DEF AccountsTypeOK
<1>6. ~strayed' => ~strayed /\ Fits(new)
  <2>1. ~strayed => Fits(c) /\ Fits(now)
    BY <1>2, NoAccountIsNone DEF RevokesIfItMust, AccountsFit
  <2> QED
    BY <1>1, <1>2, <2>1, SavedFits
<1>7. ~interleaved' => /\ ~interleaved /\ new = a /\ c = now
                   /\ \A s \in AccountRequests \ {r} : ~Changing(s)
  BY <1>1, <1>2, <1>3 DEF IsUpToDate, Overtaken, Changing
<1>8. AccountsTypeOK'
  <2>1. [req[r] EXCEPT !.pc = IF req[r].revokes THEN "revoke" ELSE "audit"] \in RequestRecords
    BY DEF AccountsTypeOK, RequestRecords
  <2>2. req' \in [AccountRequests -> RequestRecords]
    BY <1>1, <2>1 DEF AccountsTypeOK
  <2>3. staff' \in [Users -> Accounts \union {NoAccount}]
    BY <1>1, <1>3 DEF AccountsTypeOK
  <2>4. standing' \in [Users -> BOOLEAN] /\ interleaved' \in BOOLEAN /\ strayed' \in BOOLEAN
    BY <1>1 DEF AccountsTypeOK
  <2> QED
    BY <1>1, <2>2, <2>3, <2>4 DEF AccountsTypeOK
<1> HIDE DEF new
<1>9. ChangesAreSound'
  <2> SUFFICES ASSUME NEW s \in AccountRequests, Changing(s)'
               PROVE  /\ HoldsAnAccount(s)' /\ SparesItsActor(s)'
                      /\ ~strayed' => RevokesIfItMust(s)'
                      /\ ~interleaved' => IsUpToDate(s)'
    BY DEF ChangesAreSound
  <2>1. s # r /\ req'[s] = req[s] /\ Changing(s)
    BY <1>4 DEF Changing
  <2>2. HoldsAnAccount(s) /\ SparesItsActor(s) /\ (~strayed => RevokesIfItMust(s))
    BY <2>1 DEF ChangesAreSound
  <2>3. staff'[req[s].user] \in Accounts
    BY <1>3, <1>5, <2>2 DEF HoldsAnAccount
  <2>4. HoldsAnAccount(s)' /\ SparesItsActor(s)'
    BY <2>1, <2>2, <2>3 DEF HoldsAnAccount, SparesItsActor, Moved
  <2>5. ~strayed' => RevokesIfItMust(s)'
    BY <1>6, <2>1, <2>2 DEF RevokesIfItMust
  <2> QED
    BY <1>7, <2>1, <2>4, <2>5
<1>10. OthersAreSound'
  BY <1>2, <1>4 DEF OthersAreSound
<1>11. AccountsFit'
  BY <1>1, <1>5, <1>6, <1>7 DEF AccountsFit
<1>12. AccountsStay'
  BY <1>3, <1>5, NoAccountIsNone DEF AccountsStay
<1>13. AnAdminIsLeft'
  <2> SUFFICES ASSUME ~interleaved' PROVE \E w \in Users : ActiveAdmin(staff'[w])
    BY DEF AnAdminIsLeft, SomeAdminRemains, ActiveAdmin
  <2>1. ~interleaved /\ staff'[u] = a /\ c = now
    BY <1>5, <1>7
  <2>2. CASE ActiveAdmin(a)
    BY <1>2, <2>1, <2>2
  <2>3. CASE ~ActiveAdmin(a) /\ ActiveAdmin(c)
    <3>1. OtherAdmins(u) # {}
      BY <1>1, <1>2, <2>1, <2>3 DEF IsUpToDate
    <3> QED
      BY <1>5, <3>1 DEF OtherAdmins
  <2>4. CASE ~ActiveAdmin(c)
    <3>1. PICK w \in Users : ActiveAdmin(staff[w])
      BY <2>1 DEF AnAdminIsLeft, SomeAdminRemains
    <3> QED
      BY <1>5, <2>1, <2>4, <3>1
  <2> QED
    BY <2>2, <2>3, <2>4
<1>14. TrailKnowsEveryChange'
  <2> SUFFICES ASSUME ~broken, NEW w \in Users, NEW f \in Known(w)
               PROVE  \/ staff'[w][f] = Seed[w][f]
                      \/ \E row \in auditLog : row.user = w /\ f \in row.fields
                                           /\ row.to[f] = staff'[w][f]
                      \/ \E s \in AccountRequests : /\ req'[s].pc \in {"revoke", "audit"}
                                             /\ req'[s].user = w /\ f \in req'[s].listed
                                             /\ req'[s].after[f] = staff'[w][f]
    BY <1>1 DEF TrailKnowsEveryChange, Known
  <2>1. f \in Fields
    BY DEF Known, Fields
  <2>2. CASE w = u /\ f \in Moved(c, a)
    <3>1. new[f] = a[f]
      BY <2>1, <2>2 DEF new, Saved, Moved, Fields
    <3> QED
      BY <1>2, <1>4, <1>5, <2>2, <3>1
  <2>3. CASE w # u \/ f \notin Moved(c, a)
    <3>1. staff'[w][f] = staff[w][f]
      <4>1. CASE w # u
        BY <1>5, <4>1
      <4>2. CASE w = u /\ f \notin Moved(c, a)
        BY <1>5, <2>1, <4>2 DEF new, Saved, Moved, Fields
      <4> QED
        BY <2>3, <4>1, <4>2
    <3>2. \A s \in AccountRequests : req[s].pc \in {"revoke", "audit"} => req'[s] = req[s]
      BY <1>1, <1>4
    <3> QED
      BY <3>1, <3>2 DEF TrailKnowsEveryChange
  <2> QED
    BY <2>2, <2>3
<1>15. OldSessionsAreEnding'
  <2> SUFFICES ASSUME ~strayed', ~broken, NEW w \in Users, standing'[w]
               PROVE  \E s \in AccountRequests : req'[s].pc = "revoke" /\ req'[s].user = w
    BY <1>1 DEF OldSessionsAreEnding
  <2>1. ~strayed
    BY <1>6
  <2>2. CASE w = u /\ req[r].revokes
    BY <1>4, <2>2
  <2>3. CASE w # u \/ ~req[r].revokes
    <3>1. standing[w]
      <4>1. CASE w # u
        BY <1>1, <4>1 DEF AccountsTypeOK
      <4>2. CASE w = u /\ ~req[r].revokes
        <5>1. a.role = c.role /\ a.branch = c.branch /\ (c.active => a.active)
          BY <1>2, <2>1, <4>2 DEF RevokesIfItMust
        <5>2. new.role = now.role /\ new.branch = now.branch /\ (now.active => new.active)
          BY <1>2, <5>1 DEF new, Saved, Accounts
        <5> QED
          BY <1>1, <1>2, <4>2, <5>2 DEF AccountsTypeOK
      <4> QED
        BY <2>3, <4>1, <4>2
    <3> QED
      BY <1>1, <1>4, <2>1, <3>1 DEF OldSessionsAreEnding
  <2> QED
    BY <2>2, <2>3
<1> QED
  BY <1>8, <1>9, <1>10, <1>11, <1>12, <1>13, <1>14, <1>15

LEMMA StaffNext == StaffInv /\ [AccountsNext]_accountsVars => StaffInv'
<1> SUFFICES ASSUME StaffInv, [AccountsNext]_accountsVars PROVE StaffInv'
  OBVIOUS
<1>1. ASSUME NEW r \in AccountRequests, Begin(r) PROVE StaffInv'
  BY <1>1, ArriveStep, UpdateStep, CreateStep, DeactivateStep, ResetStep, EndStep DEF Begin
<1>2. ASSUME NEW r \in AccountRequests, AccountStep(r) PROVE StaffInv'
  BY <1>2, CountStep, SaveStep, EndStep, InsertStep, RevokeStep, AuditStep DEF AccountStep
<1>3. CASE UNCHANGED accountsVars
  <2>1. AccountsTypeOK' /\ OthersAreSound'
    BY <1>3 DEF accountsVars, StaffInv, AccountsTypeOK, OthersAreSound
  <2>2. ChangesAreSound'
    BY <1>3 DEF accountsVars, StaffInv, ChangesAreSound, Changing, HoldsAnAccount, SparesItsActor,
                RevokesIfItMust, IsUpToDate, OtherAdmins, Moved
  <2>3. TrailKnowsEveryChange' /\ OldSessionsAreEnding'
    BY <1>3 DEF accountsVars, StaffInv, TrailKnowsEveryChange, OldSessionsAreEnding
  <2> QED
    BY <1>3, <2>1, <2>2, <2>3, QuietStep DEF accountsVars, StaffInv
<1> QED
  BY <1>1, <1>2, <1>3 DEF AccountsNext

\* The invariant of the accounts and of the requests that change them.
THEOREM StaffInvariant == AccountsSpec => []StaffInv
<1> QED
  BY StaffInit, StaffNext, PTL DEF AccountsSpec

\* Every variable keeps its type.
THEOREM StaffTypeCorrect == AccountsSpec => []AccountsTypeOK
<1>1. StaffInv => AccountsTypeOK
  BY DEF StaffInv
<1> QED
  BY <1>1, StaffInvariant, PTL

\* The checks of update and deactivate suffice as long as no save crosses another
\* request: an admin is left, and roles and branches agree.
THEOREM StaffOrderlyChangesAreSafe == AccountsSpec => []OrderlyChangesAreSafe
<1>1. StaffInv => OrderlyChangesAreSafe
  BY DEF StaffInv, AccountsFit, AnAdminIsLeft, OrderlyChangesAreSafe
<1> QED
  BY <1>1, StaffInvariant, PTL

\* Crossing updates take no branch manager's branch, unless an admin was given one.
THEOREM StaffManagersHaveBranches == AccountsSpec => []ManagersHaveBranches
<1>1. StaffInv => ManagersHaveBranches
  BY DEF StaffInv, AccountsFit, ManagersHaveBranches, Fits, NoAccount
<1> QED
  BY <1>1, StaffInvariant, PTL

\* The trail accounts for the present value of every right.
THEOREM StaffTrailKnowsEveryChange == AccountsSpec => []TrailKnowsEveryChange
<1>1. StaffInv => TrailKnowsEveryChange
  BY DEF StaffInv
<1> QED
  BY <1>1, StaffInvariant, PTL

\* Sessions older than a change of rights have a revocation coming.
THEOREM StaffOldSessionsAreEnding == AccountsSpec => []OldSessionsAreEnding
<1>1. StaffInv => OldSessionsAreEnding
  BY DEF StaffInv
<1> QED
  BY <1>1, StaffInvariant, PTL

\* A request that takes a role or the access away is somebody else's.
LEMMA OnlySavesRemove ==
  ASSUME StaffInv, AccountsNext, NEW u \in Users,
         \/ staff[u] # NoAccount /\ staff'[u].role # staff[u].role
         \/ staff[u].active /\ ~staff'[u].active
  PROVE  \E r \in AccountRequests : /\ req[r].pc = "save" /\ req[r].user = u
                             /\ req'[r] # req[r] /\ req[r].actor # u
<1>1. PICK r \in AccountRequests : Insert(r) \/ Save(r)
  <2>1. PICK r \in AccountRequests : Begin(r) \/ AccountStep(r)
    BY DEF AccountsNext
  <2>2. staff' # staff
    OBVIOUS
  <2>3. ~Begin(r)
    BY <2>2 DEF Begin, Arrive, ReadToUpdate, ReadToDeactivate, ReadToReset, PrepareCreate, Refuse
  <2>4. Insert(r) \/ Save(r)
    BY <2>1, <2>2, <2>3 DEF AccountStep, CountAdmins, SaveInvalid, Revoke, Audit, Break
  <2> QED
    BY <2>4
<1>2. CASE Insert(r)
  <2>1. staff'[u] = staff[u] \/ staff[u] = NoAccount
    BY <1>2 DEF Insert, StaffInv, AccountsTypeOK
  <2> QED
    BY <2>1 DEF NoAccount
<1>3. CASE Save(r)
  <2> DEFINE c == req[r].copy
             a == req[r].after
  <2>1. /\ req[r].pc = "save"
        /\ staff' = [staff EXCEPT ![req[r].user] = Saved(c, a, staff[req[r].user])]
        /\ req' = [req EXCEPT ![r].pc = IF req[r].revokes THEN "revoke" ELSE "audit"]
    BY <1>3 DEF Save
  <2>2. SparesItsActor(r) /\ c \in Accounts /\ a \in Accounts
    BY <2>1 DEF StaffInv, ChangesAreSound, Changing, HoldsAnAccount
  <2>3. req[r].user = u /\ staff'[u] = Saved(c, a, staff[u])
    BY <2>1 DEF StaffInv, AccountsTypeOK
  <2>4. a.role # c.role \/ (c.active /\ ~a.active)
    BY <2>2, <2>3 DEF Saved, Accounts
  <2>5. req[r].actor # u
    BY <2>2, <2>3, <2>4 DEF SparesItsActor
  <2>6. req'[r] # req[r]
    <3>1. req'[r].pc # "save"
      BY <2>1 DEF StaffInv, AccountsTypeOK, RequestRecords
    <3> QED
      BY <2>1, <3>1
  <2> QED
    BY <2>1, <2>3, <2>5, <2>6
<1> QED
  BY <1>1, <1>2, <1>3

\* Nobody demotes or deactivates themselves, from whatever copy they work.
THEOREM StaffNobodyRemovesThemselves == AccountsSpec => NobodyRemovesThemselves
<1>1. StaffInv /\ [AccountsNext]_accountsVars =>
        [\A u \in Users :
           \/ staff[u] # NoAccount /\ staff'[u].role # staff[u].role
           \/ staff[u].active /\ ~staff'[u].active
           => \E r \in AccountRequests : /\ req[r].pc = "save" /\ req[r].user = u
                                  /\ req'[r] # req[r] /\ req[r].actor # u]_accountsVars
  BY OnlySavesRemove
<1> QED
  BY <1>1, StaffInvariant, PTL DEF AccountsSpec, NobodyRemovesThemselves
=============================================================================
