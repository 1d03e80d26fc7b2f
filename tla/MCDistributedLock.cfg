CONSTANTS
  p1 = p1
  p2 = p2
  Procs <- MCProcs
  Nobody = Nobody
  Orphan = Orphan
  Lease = 2
  MaxWait = 1
SPECIFICATION FairSpec
INVARIANTS
  TypeOK
  OneHandleKeepsItsRecord
  NoFalseLoss
PROPERTIES
  LossIsSignalled
  TimeoutsEnd
