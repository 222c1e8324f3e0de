\* Every interleaving of two pool threads and a reload, with crashes,
\* under both missed_anchor_policies.
SPECIFICATION Spec
CONSTANTS
  w1 = w1  w2 = w2
  g1 = g1  g2 = g2  g3 = g3  g4 = g4  g5 = g5
  Workers <- TwoWorkers
  Gens <- FiveGens
  Reloader = Reloader
  NoOne = NoOne
  NoGen = NoGen
  Lifecycles = {"active", "disabled", "archived"}
  OffTimes = {4}
  RetryDelay = 1
  CollisionDelay = 1
  DueNowDelay = 0
  Grace = 1
  SkipMissed = {TRUE, FALSE}
  MaxReset = 2
  MaxTime = 4
SYMMETRY Symmetry
CHECK_DEADLOCK FALSE
INVARIANTS
  TypeOK
  OneScheduledTurn
  NoOrphanRecovery
  ScheduledIsPending
PROPERTIES
  DueOnlyMovesLater
  StaleRunLeavesRow
  OnlyReloadInterferes
  RefinesSlot
