\* Two refreshes and the notifications of one account.
SPECIFICATION Spec
CONSTANTS
  r1 = r1  r2 = r2  l = l
  Refreshers <- TwoRefreshers
  Listener = l
  FiveHours = 2
  Weekly <- OneWeekly
  StaleAfter = 2
  MaxTime = 5
SYMMETRY Symmetry
INVARIANTS
  TypeOK
  QuietRefreshDecides
  ActiveIsOpen
PROPERTIES
  KnownStaysKnown
\* The clock stops at MaxTime.
CHECK_DEADLOCK FALSE
