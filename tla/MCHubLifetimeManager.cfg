CONSTANTS
  s1 = s1
  c1 = c1
  c2 = c2
  x1 = x1
  x2 = x2
  x3 = x3
  x4 = x4
  m1 = m1
  NoSet = NoSet
  Servers <- MCServers
  Conns <- MCConns
  Home <- MCHome
  Sets <- MCSets
  Msgs <- MCMsgs
  MaxTopics = 4
  MaxFaults = 1
  MaxCalls = 2
SYMMETRY Symmetry
CHECK_DEADLOCK FALSE
SPECIFICATION Spec
INVARIANTS
  TypeOK
  
  
  GhostOnlyAfterLateJoin
  
