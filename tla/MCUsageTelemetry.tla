-------------------------- MODULE MCUsageTelemetry --------------------------
(* UsageTelemetry with two refreshes and the listener.                     *)
EXTENDS UsageTelemetry, TLC

CONSTANTS r1, r2, l

TwoRefreshers == {r1, r2}
Symmetry      == Permutations(TwoRefreshers)
OneWeekly     == {[used |-> "low", reset |-> MaxTime]}
=============================================================================
