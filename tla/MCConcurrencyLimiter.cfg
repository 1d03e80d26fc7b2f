CONSTANTS
  n1 = n1
  n2 = n2
  r1 = r1
  r2 = r2
  r3 = r3
  Nodes <- MCNodes
  Reqs <- MCReqs
  NodeOf <- MCNodeOf
  Ordinal <- MCOrdinal
  NoReq = NoReq
  PermitLimit = 1
  QueueLimit = 1
  Timeout = 1
  MaxFaults = 1
  Stopping <- MCStopping
SPECIFICATION Spec
INVARIANTS
  TypeOK
  PermitsWithinLimit
  NoLeakedLease

  
CHECK_DEADLOCK FALSE
