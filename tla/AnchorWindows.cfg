\* A scheduled anchor, and the notifications that come meanwhile.
SPECIFICATION AnchorSpec
CONSTANTS
  a = a  l = l
  Refreshers <- OnlyAnchor
  Anchor = a
  Listener = l
  FiveHours = 2
  Weekly <- TwoWeeklies
  StaleAfter = 2
  OneMinute = 2
  Day = 4
  MaxTime = 4
INVARIANTS
  VerifiedMeansNew
  RecoveryOutlasts
  
PROPERTIES
  SkipIsJustified
\* The clock stops at MaxTime.
CHECK_DEADLOCK FALSE
