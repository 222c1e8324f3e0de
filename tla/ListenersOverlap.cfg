\* The event loop and a login's waiter reload.
SPECIFICATION Spec
CONSTANTS
  a1 = a1  a2 = a2  c1 = c1  c2 = c2  c3 = c3  w1 = w1
  Accounts <- TwoAccounts
  Threads <- LoopAndWaiter
  Loop = Loop
  Clients <- ThreeClients
  NoClient = NoClient
SYMMETRY Symmetry
INVARIANTS
  TypeOK
  RegisteredIsOpen
  ReloadRepairs
