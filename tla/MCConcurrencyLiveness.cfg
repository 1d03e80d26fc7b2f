CONSTANTS
  n1 = n1
  n2 = n2
  r1 = r1
  r2 = r2
  r3 = r3
  Nodes <- MCNodes
  Reqs <- MCReqs
  NodeOf <- MCNodeOf
  Ordinal <- MCOrdinal
  NoReq = NoReq
  PermitLimit = 1
  QueueLimit = 2
  Timeout = 1
  MaxFaults = 0
  Stopping <- MCNone
SPECIFICATION FairSpec
PROPERTIES
  QueuedIsServed
CHECK_DEADLOCK FALSE
