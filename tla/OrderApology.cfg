\* A process is redeployed while its sweep is telling the customer.
SPECIFICATION FairSpec
CONSTANTS
  o1 = o1  o2 = o2  d1 = d1  d2 = d2  i1 = i1  i2 = i2  b1 = b1  b2 = b2
  Orders <- OneOrder
  Fulfilment <- MCFulfilment
  BranchOf <- MCBranchOf
  Desks <- NoDesk
  Scope <- MCScope
  Instances <- OneProcess
  Levels <- OneRung
  RungAt <- MCRungAt
  Fuse = 2
  ClosesAt <- MCClosesAt
  Reach <- MCReach
  StaffReasons <- MCReasons
  MaxPerSweep = 1
  MaxAttempts = 2
  MaxClock = 0
  MaxFaults = 0
  MaxCrashes = 1
PROPERTY ExpiredCustomerIsTold
CHECK_DEADLOCK FALSE
