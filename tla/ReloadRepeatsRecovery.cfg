\* missed_anchor_policy = run_if_within_grace: a reload during a recovery's
\* turn makes the recovery again.
SPECIFICATION Spec
CONSTANTS
  w1 = w1  w2 = w2
  g1 = g1  g2 = g2  g3 = g3  g4 = g4  g5 = g5
  Workers <- TwoWorkers
  Gens <- FiveGens
  Reloader = Reloader
  NoOne = NoOne
  NoGen = NoGen
  Lifecycles = {"active"}
  OffTimes = {}
  RetryDelay = 1
  CollisionDelay = 1
  DueNowDelay = 0
  Grace = 1
  SkipMissed = {FALSE}
  MaxReset = 1
  MaxTime = 4
SYMMETRY Symmetry
CHECK_DEADLOCK FALSE
PROPERTIES
  CompletedRecoveryIsOver
