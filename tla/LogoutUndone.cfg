\* A logout while a login that was completed is being read.
SPECIFICATION Spec
CONSTANTS
  a1 = a1  t1 = t1  t2 = t2  id1 = id1
  Accounts <- OneAccount
  Attempts <- OneAttempt
  Identities = {id1}
  NoIdentity = NoIdentity
  NoAttempt = NoAttempt
  Loop = Loop
  CancelMayFail = FALSE
  Restarts = FALSE
CHECK_DEADLOCK FALSE
INVARIANTS
  LoggedOutIsNotConnected
