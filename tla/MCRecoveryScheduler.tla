------------------------ MODULE MCRecoveryScheduler ------------------------
(* Small instances of RecoveryScheduler for TLC.                           *)
EXTENDS RecoveryScheduler, TLC

CONSTANTS w1, w2, g1, g2, g3, g4, g5

TwoWorkers == {w1, w2}
FiveGens   == {g1, g2, g3, g4, g5}
Symmetry   == Permutations(TwoWorkers)
=============================================================================
