---------------------------- MODULE MCAnchorRuns ----------------------------
(* AnchorRuns with two threads and room for their rows.                    *)
EXTENDS AnchorRuns, TLC

CONSTANTS w1, w2, r1, r2, r3

TwoThreads   == {w1, w2}
ThreeRuns    == {r1, r2, r3}
=============================================================================
