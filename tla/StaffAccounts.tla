---------------------------- MODULE StaffAccounts ----------------------------
(***************************************************************************)
(* The staff accounts and the administrators who change them at the same   *)
(* time: services/staffUser.service.js over models/StaffUser.js, behind    *)
(* the guards of routes/staffUser.routes.js.                               *)
(*                                                                         *)
(* A request reads an account, checks the change against what it read and  *)
(* what it counted, and saves.  A save writes the paths the request        *)
(* modified and nothing else, and is not conditional on what was read.     *)
(***************************************************************************)
EXTENDS Naturals

CONSTANTS
  Users,            \* the e-mail addresses accounts may have
  Branches,
  Seed,             \* Seed[u]: the accounts of the day the shop opened
  AccountRequests,  \* requests in flight at the same time
  MaxRequests       \* bound on the requests ever made

NoBranch == "no branch"
Nobody   == "nobody"
Keep     == "keep"      \* a field the payload leaves out
Roles    == {"admin", "branch_manager"}

Accounts  == [role : Roles, branch : Branches \union {NoBranch}, active : BOOLEAN]
NoAccount == [role |-> "none", branch |-> NoBranch, active |-> FALSE]

\* branchMatchesRole: a manager has a branch, an admin has none.
Fits(a) == IF a.role = "branch_manager" THEN a.branch # NoBranch ELSE a.branch = NoBranch

ActiveAdmin(a) == a.role = "admin" /\ a.active

ASSUME AccountsAssumption ==
  /\ Keep \notin Branches /\ NoBranch \notin Branches /\ Nobody \notin Users
  /\ Seed \in [Users -> Accounts \union {NoAccount}]
  /\ \A u \in Users : Seed[u] # NoAccount => Fits(Seed[u])
  /\ \E u \in Users : ActiveAdmin(Seed[u])
  /\ MaxRequests \in Nat

VARIABLES
  staff,        \* staff[u]: the document of u
  standing,     \* standing[u]: u may have sessions from before its rights changed
  auditLog,     \* the AuditLog rows of accounts
  req,          \* req[r]: a request in flight
  made,         \* requests made so far
  interleaved,  \* a save landed between another request's read and its save
  strayed,      \* an admin was left with a branch
  broken        \* a request ended before its time

accountsVars == <<staff, standing, auditLog, req, made, interleaved, strayed, broken>>

Fields == {"role", "branch", "active"}

\* The fields a row lists, and what became of them.
Rows == [user : Users, fields : SUBSET Fields, to : Accounts]

NoRequest == [pc |-> "idle", actor |-> Nobody, user |-> Nobody, copy |-> NoAccount,
              after |-> NoAccount, listed |-> {}, revokes |-> FALSE]

RequestRecords ==
  [pc : {"idle", "read", "count", "save", "insert", "revoke", "audit"},
   actor : Users \union {Nobody}, user : Users \union {Nobody},
   copy : Accounts \union {NoAccount}, after : Accounts \union {NoAccount},
   listed : SUBSET Fields, revokes : BOOLEAN]

AccountsTypeOK ==
  /\ staff \in [Users -> Accounts \union {NoAccount}]
  /\ standing \in [Users -> BOOLEAN]
  /\ auditLog \subseteq Rows
  /\ req \in [AccountRequests -> RequestRecords]
  /\ made \in Nat /\ interleaved \in BOOLEAN /\ strayed \in BOOLEAN /\ broken \in BOOLEAN

AccountsInit ==
  /\ staff    = Seed
  /\ standing = [u \in Users |-> FALSE]
  /\ auditLog = {}
  /\ req      = [r \in AccountRequests |-> NoRequest]
  /\ made = 0 /\ interleaved = FALSE /\ strayed = FALSE /\ broken = FALSE

-----------------------------------------------------------------------------
(***************************************************************************)
(* The checks                                                              *)
(***************************************************************************)
\* The payload of a PATCH: fields may be left out.
Payloads == [role : Roles \union {Keep}, branch : Branches \union {NoBranch, Keep},
             active : {"on", "off", Keep}]

NextRole(p, c) == IF p.role = Keep THEN c.role ELSE p.role

NextBranch(p, c) == IF p.branch = Keep THEN c.branch ELSE p.branch

\* resolveRoleAndBranch returns, and does not throw.
Resolvable(p, c) ==
  IF NextRole(p, c) = "admin" THEN p.branch \notin Branches ELSE NextBranch(p, c) # NoBranch

\* Mutated: the fields taken as the payload has them.
AsItCame(p, c) == [role |-> p.role, branch |-> p.branch, active |-> c.active]

\* The account the request would make of its copy.
Resolved(p, c) ==
  [role   |-> NextRole(p, c),
   branch |-> IF NextRole(p, c) = "admin" THEN NoBranch ELSE NextBranch(p, c),
   active |-> IF p.active = Keep THEN c.active ELSE p.active = "on"]

\* Mutated: any account.
AnyoneAtAll(r, u) == TRUE

\* assertNotSelf.
NotSelf(r, u) == req[r].actor # u

\* Mutated: the account itself among them.
EveryAdmin(u) == {w \in Users : ActiveAdmin(staff[w])}

\* The query of assertNotLastAdmin.
OtherAdmins(u) == {w \in Users \ {u} : ActiveAdmin(staff[w])}

\* Mutated: a transfer between branches forgotten.
RoleOrActivityOnly(p, removes) == removes

\* A PATCH that touches rights ends the sessions.
EndsSessions(p, removes) == removes \/ p.branch # Keep

\* Mutated: the role never assigned to the document.
ForgetRole(c, a, now) ==
  [now EXCEPT !.branch = IF a.branch # c.branch THEN a.branch ELSE @,
              !.active = IF a.active # c.active THEN a.active ELSE @]

\* save: $set of the paths in which the document differs from what was loaded.
Saved(c, a, now) ==
  [role   |-> IF a.role   # c.role   THEN a.role   ELSE now.role,
   branch |-> IF a.branch # c.branch THEN a.branch ELSE now.branch,
   active |-> IF a.active # c.active THEN a.active ELSE now.active]

\* audit.diff: the fields an update moved.
Moved(c, a) == {f \in Fields : c[f] # a[f]}

\* Mutated: the row made of the document as it was loaded.
RowBefore(r) == [user |-> req[r].user, fields |-> req[r].listed, to |-> req[r].copy]

\* The row of a request.
RowFor(r) == [user |-> req[r].user, fields |-> req[r].listed, to |-> req[r].after]

-----------------------------------------------------------------------------
(***************************************************************************)
(* The steps of a request                                                  *)
(***************************************************************************)
\* requireStaff and requireRole: an active admin, as of now.
Arrive(r, a) ==
  /\ req[r].pc = "idle"
  /\ made < MaxRequests /\ made' = made + 1
  /\ ActiveAdmin(staff[a])
  /\ req' = [req EXCEPT ![r] = [NoRequest EXCEPT !.pc = "read", !.actor = a]]
  /\ UNCHANGED <<staff, standing, auditLog, interleaved, strayed, broken>>

\* The request holds a copy of the account and what it will make of it.
Hold(r, u, pc, after, listed, revokes) ==
  req' = [req EXCEPT ![r] = [@ EXCEPT !.pc = pc, !.user = u, !.copy = staff[u],
                               !.after = after, !.listed = listed, !.revokes = revokes]]

\* update, up to its first await after the read.
ReadToUpdate(r, u, p) ==
  LET c == staff[u]
      removes == p.role \notin {Keep, c.role} \/ (p.active = "off" /\ c.active)
  IN /\ req[r].pc = "read" /\ c # NoAccount
     /\ removes => NotSelf(r, u)
     /\ Resolvable(p, c)
     /\ Hold(r, u, IF removes /\ ActiveAdmin(c) THEN "count" ELSE "save",
             Resolved(p, c), Moved(c, Resolved(p, c)), EndsSessions(p, removes))
     /\ UNCHANGED <<staff, standing, auditLog, made, interleaved, strayed, broken>>

ReadToDeactivate(r, u) ==
  LET c == staff[u]
  IN /\ req[r].pc = "read" /\ c # NoAccount
     /\ NotSelf(r, u)
     /\ Hold(r, u, IF ActiveAdmin(c) THEN "count" ELSE "save",
             [c EXCEPT !.active = FALSE], {"active"}, TRUE)
     /\ UNCHANGED <<staff, standing, auditLog, made, interleaved, strayed, broken>>

\* resetPassword: no right changes, and the sessions end.
ReadToReset(r, u) ==
  /\ req[r].pc = "read" /\ staff[u] # NoAccount
  /\ Hold(r, u, "save", staff[u], {}, TRUE)
  /\ UNCHANGED <<staff, standing, auditLog, made, interleaved, strayed, broken>>

\* create, before the insert.
PrepareCreate(r, u, p) ==
  /\ req[r].pc = "read" /\ p.role # Keep /\ p.active = Keep
  /\ Resolvable(p, NoAccount)
  /\ req' = [req EXCEPT ![r] = [@ EXCEPT !.pc = "insert", !.user = u, !.listed = {"role"},
                                   !.after = [Resolved(p, NoAccount) EXCEPT !.active = TRUE]]]
  /\ UNCHANGED <<staff, standing, auditLog, made, interleaved, strayed, broken>>

\* assertNotLastAdmin, and a 409 when there is no other.
CountAdmins(r) ==
  /\ req[r].pc = "count"
  /\ req' = [req EXCEPT ![r] =
               IF OtherAdmins(req[r].user) = {} THEN NoRequest ELSE [@ EXCEPT !.pc = "save"]]
  /\ UNCHANGED <<staff, standing, auditLog, made, interleaved, strayed, broken>>

\* Requests that act on what they read before this save.
Overtaken(r) == {s \in AccountRequests \ {r} : req[s].pc \in {"count", "save"}}

Save(r) ==
  LET q   == req[r]
      now == staff[q.user]
      new == Saved(q.copy, q.after, now)
  IN /\ q.pc = "save" /\ Fits(q.after)
     /\ staff' = [staff EXCEPT ![q.user] = new]
     /\ standing' = [standing EXCEPT ![q.user] =
                       @ \/ new.role # now.role \/ new.branch # now.branch
                         \/ (now.active /\ ~new.active)]
     /\ interleaved' = (interleaved \/ Overtaken(r) # {})
     /\ strayed' = (strayed \/ (new.role = "admin" /\ new.branch # NoBranch))
     /\ req' = [req EXCEPT ![r].pc = IF q.revokes THEN "revoke" ELSE "audit"]
     /\ UNCHANGED <<auditLog, made, broken>>

\* The model validates the copy as a whole and refuses it.
SaveInvalid(r) ==
  /\ req[r].pc = "save" /\ ~Fits(req[r].after)
  /\ req' = [req EXCEPT ![r] = NoRequest]
  /\ UNCHANGED <<staff, standing, auditLog, made, interleaved, strayed, broken>>

\* The unique index on the address decides between two creations.
Insert(r) ==
  LET u == req[r].user
  IN /\ req[r].pc = "insert"
     /\ \/ /\ staff[u] = NoAccount
           /\ staff' = [staff EXCEPT ![u] = req[r].after]
           /\ req' = [req EXCEPT ![r].pc = "audit"]
        \/ /\ staff[u] # NoAccount
           /\ UNCHANGED staff
           /\ req' = [req EXCEPT ![r] = NoRequest]
     /\ UNCHANGED <<standing, auditLog, made, interleaved, strayed, broken>>

\* revokeAllSessions.
Revoke(r) ==
  /\ req[r].pc = "revoke"
  /\ standing' = [standing EXCEPT ![req[r].user] = FALSE]
  /\ req' = [req EXCEPT ![r].pc = "audit"]
  /\ UNCHANGED <<staff, auditLog, made, interleaved, strayed, broken>>

Audit(r) ==
  /\ req[r].pc = "audit"
  /\ auditLog' = auditLog \union {RowFor(r)}
  /\ req' = [req EXCEPT ![r] = NoRequest]
  /\ UNCHANGED <<staff, standing, made, interleaved, strayed, broken>>

\* Refused by a validator, or for an account that does not exist.
Refuse(r) ==
  /\ req[r].pc = "read"
  /\ req' = [req EXCEPT ![r] = NoRequest]
  /\ UNCHANGED <<staff, standing, auditLog, made, interleaved, strayed, broken>>

\* A call throws, or its process dies: what the request has not done yet stays undone.
Break(r) ==
  /\ req[r].pc \notin {"idle", "read"}
  /\ req' = [req EXCEPT ![r] = NoRequest]
  /\ broken' = TRUE
  /\ UNCHANGED <<staff, standing, auditLog, made, interleaved, strayed>>

Begin(r) ==
  \/ \E a \in Users : Arrive(r, a)
  \/ \E u \in Users, p \in Payloads : ReadToUpdate(r, u, p) \/ PrepareCreate(r, u, p)
  \/ \E u \in Users : ReadToDeactivate(r, u) \/ ReadToReset(r, u)
  \/ Refuse(r)

AccountStep(r) ==
  \/ CountAdmins(r) \/ Save(r) \/ SaveInvalid(r) \/ Insert(r)
  \/ Revoke(r) \/ Audit(r) \/ Break(r)

AccountsNext == \E r \in AccountRequests : Begin(r) \/ AccountStep(r)

AccountsSpec == AccountsInit /\ [][AccountsNext]_accountsVars

-----------------------------------------------------------------------------
(***************************************************************************)
(* Properties                                                              *)
(***************************************************************************)
\* "The system must never be left without a way in" (assertNotLastAdmin).
SomeAdminRemains == \E u \in Users : ActiveAdmin(staff[u])

\* "An admin must NOT carry a branch" (models/StaffUser.js).
AdminsHaveNoBranch ==
  \A u \in Users : staff[u].role = "admin" => staff[u].branch = NoBranch

\* As long as no save lands between another request's read and its save, the checks
\* of update and deactivate suffice: an admin is left, and roles and branches agree.
OrderlyChangesAreSafe ==
  ~interleaved => SomeAdminRemains /\ \A u \in Users : staff[u] # NoAccount => Fits(staff[u])

\* Whatever updates of one account cross, a branch manager keeps a branch, as long as
\* no admin has been given one (resolveRoleAndBranch, save).
ManagersHaveBranches ==
  ~strayed =>
    \A u \in Users : staff[u].role = "branch_manager" => staff[u].branch # NoBranch

\* What the trail can know of an account: create records no branch.
Known(u) == IF Seed[u] = NoAccount THEN {"role"} ELSE Fields

\* The trail knows how every right came to be what it is, even when updates of one
\* account cross: its value has a row, or the request that saved it is about to
\* write one, unless it broke off in between (audit.record, audit.diff).
TrailKnowsEveryChange ==
  ~broken =>
    \A u \in Users : \A f \in Known(u) :
      \/ staff[u][f] = Seed[u][f]
      \/ \E row \in auditLog : row.user = u /\ f \in row.fields /\ row.to[f] = staff[u][f]
      \/ \E r \in AccountRequests : /\ req[r].pc \in {"revoke", "audit"} /\ req[r].user = u
                             /\ f \in req[r].listed /\ req[r].after[f] = staff[u][f]

\* Nobody's own request takes their role or their access away, not even one that
\* works on a copy that is out of date (assertNotSelf).
NobodyRemovesThemselves ==
  [][\A u \in Users :
       \/ staff[u] # NoAccount /\ staff'[u].role # staff[u].role
       \/ staff[u].active /\ ~staff'[u].active
       => \E r \in AccountRequests : /\ req[r].pc = "save" /\ req[r].user = u
                              /\ req'[r] # req[r] /\ req[r].actor # u]_accountsVars

\* Sessions from before a change of rights are being ended: whoever else works on the
\* account, a request holds the revocation, unless one broke off in between, or an
\* admin had a branch, whose removal ends no session (revokeAllSessions in update).
OldSessionsAreEnding ==
  ~strayed /\ ~broken =>
    \A u \in Users :
      standing[u] => \E r \in AccountRequests : req[r].pc = "revoke" /\ req[r].user = u
=============================================================================
