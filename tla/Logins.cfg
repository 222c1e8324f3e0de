\* One account, two attempts at a time; cancels may raise, the process may be
\* restarted.
SPECIFICATION FairSpec
CONSTANTS
  a1 = a1  t1 = t1  t2 = t2  id1 = id1
  Accounts <- OneAccount
  Attempts <- TwoAttempts
  Identities = {id1}
  NoIdentity = NoIdentity
  NoAttempt = NoAttempt
  Loop = Loop
  CancelMayFail = TRUE
  Restarts = TRUE
CHECK_DEADLOCK FALSE
INVARIANTS
  TypeOK
  OneLiveCode
  ActiveIsWatched
  PendingIsWatched
PROPERTIES
  LoginEnds
