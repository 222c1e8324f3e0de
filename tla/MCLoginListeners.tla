-------------------------- MODULE MCLoginListeners --------------------------
(* LoginListeners with one account, one attempt and two clients, and that   *)
(* it is a DeviceLogin and a LiveListeners.                                 *)
EXTENDS LoginListeners

CONSTANTS a1, t1, id1, c1, c2

OneAccount == {a1}
OneAttempt == {t1}
TwoClients == {c1, c2}

IsLogin     == Spec
IsListeners == L!Spec
=============================================================================
