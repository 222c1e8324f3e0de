\* A retry that comes due is handled, under the fairness of the threads.
\* No symmetry: it is unsound for liveness.
SPECIFICATION FairSpec
CONSTANTS
  w1 = w1  w2 = w2
  g1 = g1  g2 = g2  g3 = g3  g4 = g4  g5 = g5
  Workers <- TwoWorkers
  Gens <- FiveGens
  Reloader = Reloader
  NoOne = NoOne
  NoGen = NoGen
  Lifecycles = {"active"}
  OffTimes = {}
  RetryDelay = 1
  CollisionDelay = 1
  DueNowDelay = 0
  Grace = 1
  SkipMissed = {TRUE, FALSE}
  MaxReset = 1
  MaxTime = 3
CHECK_DEADLOCK FALSE
PROPERTIES
  DueRecoveryIsHandled
