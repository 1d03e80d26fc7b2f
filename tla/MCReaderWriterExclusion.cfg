CONSTANTS
  p1 = p1
  p2 = p2
  p3 = p3
  Procs <- MCProcs
  Nobody = Nobody
  Orphan = Orphan
  Lease = 2
  MaxWait = 3
  Lifetimes <- MCLifetimes
  Prompt = TRUE
SYMMETRY Symmetry
SPECIFICATION Spec
INVARIANT ReaderWriterExclusion
