\* A collection placed shortly before closing, with the whole ladder up.
SPECIFICATION Spec
CONSTANTS
  o1 = o1  o2 = o2  d1 = d1  d2 = d2  i1 = i1  i2 = i2  b1 = b1  b2 = b2
  Orders <- OneOrder
  Fulfilment <- AllPickup
  BranchOf <- MCBranchOf
  Desks <- OneDesk
  Scope <- MCScope
  Instances <- OneProcess
  Levels <- BothRungs
  RungAt <- LateRungs
  Fuse = 4
  ClosesAt <- ClosesSoon
  Reach <- MCReach
  StaffReasons <- MCReasons
  MaxPerSweep = 1
  MaxAttempts = 2
  MaxClock = 0
  MaxFaults = 0
  MaxCrashes = 0
INVARIANT ExpiresOnlyAfterTwoChases
CHECK_DEADLOCK FALSE
