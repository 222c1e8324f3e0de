-------------------------- MODULE MCAnchorWindows --------------------------
(* AnchorWindows with a scheduled anchor and the listener.                 *)
EXTENDS AnchorWindows

CONSTANTS a, l

OnlyAnchor  == {a}
TwoWeeklies == [used : {"full"}, reset : {NoTime, MaxTime}]
=============================================================================
