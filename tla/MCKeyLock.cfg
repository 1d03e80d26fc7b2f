CONSTANTS
  p1 = p1
  p2 = p2
  p3 = p3
  Procs <- MCProcs
  Nobody = Nobody
  Orphan = Orphan
  Lifetimes <- MCLifetimes
  Prompt = TRUE
SPECIFICATION FairSpec
INVARIANTS
  TypeOK
  MutualExclusion
PROPERTIES
  ImplementsLease
  CrashNeverWedges
  ForeignTokenKeepsLock
