--------------------------- MODULE AppServerCall ---------------------------
(***************************************************************************)
(* What services/app_server.py promises its caller: a conversation with     *)
(* the app-server in which a request is answered or fails, with no reader   *)
(* thread, no queue, no pipe and nothing the child says in between.         *)
(* AppServerClient implements it (its RefinesCall).                         *)
(***************************************************************************)

VARIABLES
  listening,   \* is the client kept for its notifications?
  phase,       \* how far the caller is
  step,        \* the message it sends next, or the request it has made
  got,         \* were the limits returned to it?
  runs,        \* is there a child?
  owes, gave   \* the requests the child has not answered, and those it has

callVars == <<listening, phase, step, got, runs, owes, gave>>

Init ==
  /\ listening \in BOOLEAN
  /\ phase = "new" /\ step = "initialize" /\ got = FALSE
  /\ runs = FALSE /\ owes = {} /\ gave = {}

Starts ==
  /\ phase = "new"
  /\ \/ phase' = "closed" /\ UNCHANGED runs
     \/ phase' = "ready" /\ runs' = TRUE
  /\ UNCHANGED <<listening, step, got, owes, gave>>

Asks ==
  /\ phase = "ready" /\ runs /\ step \in {"initialize", "read"}
  /\ phase' = "waiting"
  /\ owes' = owes \cup {step}
  /\ UNCHANGED <<listening, step, got, runs, gave>>

(* That the handshake is over; a listener then only listens.               *)
Tells ==
  /\ phase = "ready" /\ runs /\ step = "initialized"
  /\ \/ listening /\ phase' = "using" /\ UNCHANGED step
     \/ ~listening /\ step' = "read" /\ UNCHANGED phase
  /\ UNCHANGED <<listening, got, runs, owes, gave>>

(* Only an answer to its own request is returned to the caller.            *)
Hears ==
  /\ phase = "waiting" /\ step \in gave
  /\ \/ /\ step = "initialize"
        /\ phase' = "ready" /\ step' = "initialized" /\ UNCHANGED got
     \/ /\ step = "read"
        /\ phase' = "closing" /\ got' = TRUE /\ UNCHANGED step
  /\ UNCHANGED <<listening, runs, owes, gave>>

(* A message that cannot be sent, a request that fails, for any reason.    *)
(* Only the handshake of a with block leaves its child behind.              *)
Fails ==
  /\ phase \in {"ready", "waiting"}
  /\ phase' = IF step = "read" \/ listening THEN "closing" ELSE "dropped"
  /\ UNCHANGED <<listening, step, got, runs, owes, gave>>

Closes ==
  /\ phase \in {"closing", "using"}
  /\ phase' = "closed" /\ runs' = FALSE /\ owes' = {}
  /\ UNCHANGED <<listening, step, got, gave>>

(* The child answers what it was asked, once, or ends.                     *)
Answers ==
  /\ runs
  /\ \E r \in owes : owes' = owes \ {r} /\ gave' = gave \cup {r}
  /\ UNCHANGED <<listening, phase, step, got, runs>>

Ends ==
  /\ runs
  /\ runs' = FALSE /\ owes' = {}
  /\ UNCHANGED <<listening, phase, step, got, gave>>

Next == Starts \/ Asks \/ Tells \/ Hears \/ Fails \/ Closes \/ Answers \/ Ends

Spec == Init /\ [][Next]_callVars
=============================================================================
