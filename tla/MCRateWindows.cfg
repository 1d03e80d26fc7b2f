CONSTANTS
  p1 = p1
  p2 = p2
  Procs <- MCProcs
  Nobody = Nobody
  Orphan = Orphan
  NoItem = NoItem
  Lifetimes <- MCLifetimes
  Prompt = TRUE
  Kinds <- MCKinds
  Limit = 2
  Window = 2
  PerPeriod = 1
  Grace = 1
  MaxWait = 1
  MaxTime = 5
  MaxFaults = 1
SYMMETRY Symmetry
CHECK_DEADLOCK FALSE
SPECIFICATION Spec
INVARIANTS
  TypeOK
  BurstIsBounded
  SlidingWithinLimit
  BucketWithinRate
  ShutOutOnlyByCutConstructor
PROPERTY WindowsAreCharged
