--------------------------- MODULE MCDeviceLogin ---------------------------
(* DeviceLogin with one account.                                           *)
EXTENDS DeviceLogin

CONSTANTS a1, t1, t2, id1

OneAccount  == {a1}
OneAttempt  == {t1}
TwoAttempts == {t1, t2}
=============================================================================
