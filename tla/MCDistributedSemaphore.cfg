CONSTANTS
  p1 = p1
  p2 = p2
  p3 = p3
  a1 = a1
  a2 = a2
  a3 = a3
  a4 = a4
  a5 = a5
  Procs <- MCProcs
  Acqs <- MCAcqs
  NoAcq = NoAcq
  Nobody = Nobody
  Orphan = Orphan
  Capacity = 2
  Lease = 2
  Lifetimes <- MCLifetimes
  Prompt = TRUE
SYMMETRY Symmetry
SPECIFICATION Spec
INVARIANTS
  TypeOK
  SlotsWithinCapacity
  HoldersWithinCapacity
  HolderIsListed
