\* Nobody at the board: two orders, two sweeps of one order a pass.
SPECIFICATION FairSpec
CONSTANTS
  o1 = o1  o2 = o2  d1 = d1  d2 = d2  i1 = i1  i2 = i2  b1 = b1  b2 = b2
  Orders <- TwoOrders
  Fulfilment <- MCFulfilment
  BranchOf <- MCBranchOf
  Desks <- NoDesk
  Scope <- MCScope
  Instances <- TwoProcesses
  Levels <- NoRedis
  RungAt <- MCRungAt
  Fuse = 2
  ClosesAt <- MCClosesAt
  Reach <- MCReach
  StaffReasons <- MCReasons
  MaxPerSweep = 1
  MaxAttempts = 2
  MaxClock = 1
  MaxFaults = 1
  MaxCrashes = 1
INVARIANTS
  NoAcceptedOrderExpires
PROPERTIES
  NoOrderWaitsForever
CHECK_DEADLOCK FALSE
