\* A notification that overtakes the first refresh.
SPECIFICATION Spec
CONSTANTS
  r1 = r1  r2 = r2  l = l
  Refreshers <- TwoRefreshers
  Listener = l
  FiveHours = 2
  Weekly <- OneWeekly
  StaleAfter = 2
  MaxTime = 5
PROPERTIES
  KnownIsShown
CHECK_DEADLOCK FALSE
