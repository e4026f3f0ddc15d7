\* Two admins deactivate each other.
SPECIFICATION AccountsSpec
CONSTANTS
  ann = ann  bob = bob  cat = cat  b1 = b1  b2 = b2
  Users <- MCUsers
  Branches <- MCBranches
  Seed <- MCSeed
  AccountRequests = {r1, r2}
  MaxRequests = 3
INVARIANTS
  SomeAdminRemains
CHECK_DEADLOCK FALSE
