CONSTANTS
  j1 = j1
  j2 = j2
  s1 = s1
  s2 = s2
  w1 = w1
  w2 = w2
  w3 = w3
  Jobs <- MCJobs
  Servers <- MCServers
  Workers <- MCWorkers
  ServerOf <- MCServerOf
  Nobody = Nobody
  Orphan = Orphan
  NoJob = NoJob
  Stopping <- MCStopping
  MaxFaults = 0
  MaxRequeues = 4
SPECIFICATION FairSpec
PROPERTIES
  CrashedServersJobsAreRequeued
CHECK_DEADLOCK FALSE
