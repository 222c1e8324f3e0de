\* "Anchor now", clicked twice, and a scheduled job; two faults.
SPECIFICATION FairSpec
CONSTANTS
  w1 = w1  w2 = w2  r1 = r1  r2 = r2  r3 = r3 
  Threads <- TwoThreads
  NoOne = NoOne
  Runs <- ThreeRuns
  NoRun = NoRun
  MaxFaults = 2
INVARIANTS
  TypeOK
  OneRunAtATime
  HeldByItsRun
  AbandonedByFault
PROPERTIES
  LockIsFreed
