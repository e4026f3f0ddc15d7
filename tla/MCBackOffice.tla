---------------------------- MODULE MCBackOffice ----------------------------
(* Four components that share no state, side by side: a behaviour is one   *)
(* of one of them, the others rest, and one run visits them all.           *)
EXTENDS MCStaffAccounts, StaffSessions, ProductImages, EnquiryInbox, TLC

CONSTANTS q1, q2

VARIABLE part

allVars == <<part, accountsVars, vars, photoVars, inboxVars>>

PartInit ==
    /\ part \in {"accounts", "sessions", "photos", "inbox"}
    /\ AccountsInit /\ Init /\ PhotoInit /\ InboxInit

AccountsPart ==
    /\ part = "accounts" /\ AccountsNext
    /\ UNCHANGED <<part, vars, photoVars, inboxVars>>

SessionsPart ==
    /\ part = "sessions" /\ Next
    /\ UNCHANGED <<part, accountsVars, photoVars, inboxVars>>

PhotosPart ==
    /\ part = "photos" /\ PhotoNext
    /\ UNCHANGED <<part, accountsVars, vars, inboxVars>>

InboxPart ==
    /\ part = "inbox" /\ InboxNext
    /\ UNCHANGED <<part, accountsVars, vars, photoVars>>

PartNext == AccountsPart \/ SessionsPart \/ PhotosPart \/ InboxPart

PartSpec == PartInit /\ [][PartNext]_allVars

Alike == Permutations({q1, q2})
=============================================================================
