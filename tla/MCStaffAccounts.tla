--------------------------- MODULE MCStaffAccounts ---------------------------
(***************************************************************************)
(* An admin, a branch manager, a free address, two branches.               *)
(***************************************************************************)
EXTENDS StaffAccounts

CONSTANTS ann, bob, cat, b1, b2

MCUsers    == {ann, bob, cat}
MCBranches == {b1, b2}

AnAdmin  == [role |-> "admin", branch |-> NoBranch, active |-> TRUE]
AManager == [role |-> "branch_manager", branch |-> b1, active |-> TRUE]

MCSeed == [u \in Users |-> CASE u = ann -> AnAdmin
                             [] u = bob -> AManager
                             [] OTHER   -> NoAccount]
=============================================================================
