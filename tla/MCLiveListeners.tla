--------------------------- MODULE MCLiveListeners --------------------------
(* LiveListeners with the event loop and a login's waiter.                 *)
EXTENDS LiveListeners, TLC

CONSTANTS a1, a2, c1, c2, c3, w1

LoopAndWaiter == {Loop, w1}
TwoAccounts   == {a1, a2}
ThreeClients  == {c1, c2, c3}
Symmetry      == Permutations(Clients)
=============================================================================
