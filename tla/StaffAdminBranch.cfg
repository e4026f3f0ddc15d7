\* A transfer crosses a promotion.
SPECIFICATION AccountsSpec
CONSTANTS
  ann = ann  bob = bob  cat = cat  b1 = b1  b2 = b2
  Users <- MCUsers
  Branches <- MCBranches
  Seed <- MCSeed
  AccountRequests = {r1, r2}
  MaxRequests = 2
INVARIANTS
  AdminsHaveNoBranch
CHECK_DEADLOCK FALSE
