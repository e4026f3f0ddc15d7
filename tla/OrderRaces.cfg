\* Two staff requests, a sweep in each of two processes, one of which may die.
SPECIFICATION Spec
CONSTANTS
  o1 = o1  o2 = o2  d1 = d1  d2 = d2  i1 = i1  i2 = i2  b1 = b1  b2 = b2
  Orders <- OneOrder
  Fulfilment <- MCFulfilment
  BranchOf <- MCBranchOf
  Desks <- TwoDesks
  Scope <- MCScope
  Instances <- TwoProcesses
  Levels <- NoRedis
  RungAt <- MCRungAt
  Fuse = 1
  ClosesAt <- MCClosesAt
  Reach <- MCReach
  StaffReasons <- MCReasons
  MaxPerSweep = 1
  MaxAttempts = 2
  MaxClock = 1
  MaxFaults = 0
  MaxCrashes = 1
SYMMETRY Alike
INVARIANTS
  HistoryIsPath
  NoAcceptedOrderExpires
  AuditTellsTheTruth
  NoticesAreDeserved
PROPERTY
  ImplementsBook
CHECK_DEADLOCK FALSE
