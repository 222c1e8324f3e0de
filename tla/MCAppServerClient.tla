------------------------- MODULE MCAppServerClient -------------------------
(* AppServerClient with small pipes.                                       *)
EXTENDS AppServerClient
=============================================================================
