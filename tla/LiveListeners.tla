--------------------------- MODULE LiveListeners ---------------------------
(***************************************************************************)
(* services/live_updates.py: RateLimitUpdateListener, with the life of its  *)
(* app-server clients (services/app_server.py) and the callers of reload:   *)
(* the handlers of routes/dashboard.py and the start and stop of main.py on *)
(* the event loop, and the status callback of services/codex_auth.py on the *)
(* waiter thread of a login.                                                *)
(*                                                                          *)
(* The lock covers the closing of the listeners that are not wanted, the    *)
(* look-up of one listener and its registration, each by itself.  Starting  *)
(* a client, which takes seconds, happens outside of it.                    *)
(***************************************************************************)
CONSTANTS
  Accounts,
  Threads,   \* the threads that call reload
  Loop,      \* the event loop, one of them
  Clients,   \* CodexAppServerClient objects; a closed one is used again
  NoClient

ASSUME NamesAssumption ==
  Loop \in Threads /\ NoClient \notin Clients /\ Accounts # {}

VARIABLES
  connected,  \* accounts in use, enabled and with auth_status "connected"
  clients,    \* _clients
  child,      \* the app-server child of each client
  task,       \* where each thread is in reload
  failed,     \* history: accounts whose last start failed
  quiet,      \* history: the last reload began while no other was under way,
              \* and no account has left connected without a reload since
  app         \* the application is starting, serves, or has been shut down

vars == <<connected, clients, child, task, failed, quiet, app>>

-----------------------------------------------------------------------------
Closed == [account |-> CHOOSE a \in Accounts : TRUE, state |-> "closed"]

TypeOK ==
  /\ connected \subseteq Accounts
  /\ clients \in [Accounts -> Clients \cup {NoClient}]
  /\ child \in [Clients -> [account : Accounts,
                            state : {"closed", "starting", "live", "dead"}]]
  /\ task \in [Threads -> [pc : {"idle", "load", "close", "ensure", "starting"},
                           todo : SUBSET Accounts,
                           client : Clients \cup {NoClient}]]
  /\ \A t \in Threads : task[t].client # NoClient <=> task[t].pc = "starting"
  /\ failed \subseteq Accounts
  /\ quiet \in BOOLEAN
  /\ app \in {"starting", "serving", "stopped"}

(* main.py calls start(), which is a reload, before it serves requests.    *)
Init ==
  /\ connected \in SUBSET Accounts
  /\ clients = [a \in Accounts |-> NoClient]
  /\ child = [c \in Clients |-> Closed]
  /\ task = [t \in Threads |-> [pc |-> IF t = Loop THEN "load" ELSE "idle",
                                todo |-> {}, client |-> NoClient]]
  /\ failed = {}
  /\ quiet = TRUE
  /\ app = "starting"

-----------------------------------------------------------------------------
Go(t, pc, todo, c) ==
  task' = [task EXCEPT ![t] = [pc |-> pc, todo |-> todo, client |-> c]]

(* close(): the child is terminated and the reader thread ends with it.    *)
CloseClients(closing) ==
  child' = [c \in Clients |-> IF c \in closing THEN Closed ELSE child[c]]

(* Accounts are archived, enabled, logged in or out, or marked as a failure *)
(* one at a time, and whoever commits that calls reload next; a status      *)
(* check that finds nothing new calls it as well.  Waiters do so until the  *)
(* process exits, the event loop while the application serves.              *)
Change(t, changed) ==
  /\ app = "serving" \/ (app = "stopped" /\ t # Loop)
  /\ task[t].pc = "idle"
  /\ connected' = (connected \ changed) \cup (changed \ connected)
  /\ Go(t, "load", {}, NoClient)
  /\ quiet' = \A u \in Threads : task[u].pc = "idle"
  /\ UNCHANGED <<clients, child, failed, app>>

(* The start of a login is the one change that nobody reloads after: the   *)
(* account is "login_pending", or "auth_failed" if its child refuses.      *)
StartLogin(a) ==
  /\ app = "serving" /\ task[Loop].pc = "idle"
  /\ a \in connected
  /\ connected' = connected \ {a}
  /\ quiet' = FALSE
  /\ UNCHANGED <<clients, child, task, failed, app>>

(* reload: the accounts are read in a session of their own.                *)
LoadAccounts(t) ==
  /\ task[t].pc = "load"
  /\ Go(t, "close", connected, NoClient)
  /\ UNCHANGED <<connected, clients, child, failed, quiet, app>>

(* Mutant: unwanted clients are closed and stay registered.                *)
CloseOthersKept(t) ==
  LET others == {a \in Accounts \ task[t].todo : clients[a] # NoClient}
  IN /\ task[t].pc = "close"
     /\ CloseClients({clients[a] : a \in others})
     /\ Go(t, "ensure", task[t].todo, NoClient)
     /\ UNCHANGED <<connected, clients, failed, quiet, app>>

(* Mutant: a client that is not wanted is left alone.                      *)
CloseOthersNever(t) ==
  /\ task[t].pc = "close"
  /\ Go(t, "ensure", task[t].todo, NoClient)
  /\ UNCHANGED <<connected, clients, child, failed, quiet, app>>

(* Under the lock: the clients of all other accounts are popped and closed. *)
CloseOthers(t) ==
  LET others == {a \in Accounts \ task[t].todo : clients[a] # NoClient}
  IN /\ task[t].pc = "close"
     /\ CloseClients({clients[a] : a \in others})
     /\ clients' = [a \in Accounts |->
                      IF a \in others THEN NoClient ELSE clients[a]]
     /\ Go(t, "ensure", task[t].todo, NoClient)
     /\ UNCHANGED <<connected, failed, quiet, app>>

(* _ensure_account_listener: an account that has a client is done, alive or *)
(* not.                                                                     *)
HasListener(t, a) ==
  /\ task[t].pc = "ensure" /\ a \in task[t].todo
  /\ clients[a] # NoClient
  /\ Go(t, "ensure", task[t].todo \ {a}, NoClient)
  /\ UNCHANGED <<connected, clients, child, failed, quiet, app>>

(* One that has none gets a child of its own, and the handshake begins.    *)
StartClient(t, a, c) ==
  /\ task[t].pc = "ensure" /\ a \in task[t].todo
  /\ clients[a] = NoClient
  /\ child[c].state = "closed"
  /\ child' = [child EXCEPT ![c] = [account |-> a, state |-> "starting"]]
  /\ Go(t, "starting", task[t].todo, c)
  /\ UNCHANGED <<connected, clients, failed, quiet, app>>

(* The child cannot even be started.                                       *)
SpawnFails(t, a) ==
  /\ task[t].pc = "ensure" /\ a \in task[t].todo
  /\ clients[a] = NoClient
  /\ failed' = failed \cup {a}
  /\ Go(t, "ensure", task[t].todo \ {a}, NoClient)
  /\ UNCHANGED <<connected, clients, child, quiet, app>>

(* The child dies, refuses or does not answer in time: the client is      *)
(* closed and the reload goes on with the next account.                    *)
StartFails(t) ==
  LET c == task[t].client
      a == child[c].account
  IN /\ task[t].pc = "starting"
     /\ CloseClients({c})
     /\ failed' = failed \cup {a}
     /\ Go(t, "ensure", task[t].todo \ {a}, NoClient)
     /\ UNCHANGED <<connected, clients, quiet, app>>

(* Mutant: a registered client is still taken for one being started.       *)
RegisterInHand(t) ==
  LET c == task[t].client
      a == child[c].account
  IN /\ task[t].pc = "starting"
     /\ child' = [child EXCEPT ![c] = [account |-> a, state |-> "live"]]
     /\ clients' = [clients EXCEPT ![a] = c]
     /\ failed' = failed \ {a}
     /\ Go(t, "ensure", task[t].todo \ {a}, c)
     /\ UNCHANGED <<connected, quiet, app>>

(* The handshake is done: the client is registered, whatever happened      *)
(* meanwhile.                                                              *)
Register(t) ==
  LET c == task[t].client
      a == child[c].account
  IN /\ task[t].pc = "starting"
     /\ child' = [child EXCEPT ![c] = [account |-> a, state |-> "live"]]
     /\ clients' = [clients EXCEPT ![a] = c]
     /\ failed' = failed \ {a}
     /\ Go(t, "ensure", task[t].todo \ {a}, NoClient)
     /\ UNCHANGED <<connected, quiet, app>>

(* The start-up reload is over before requests are served.                 *)
EndReload(t) ==
  /\ task[t].pc = "ensure" /\ task[t].todo = {}
  /\ Go(t, "idle", {}, NoClient)
  /\ app' = IF app = "starting" THEN "serving" ELSE app
  /\ UNCHANGED <<connected, clients, child, failed, quiet>>

(* shutdown, from the end of main.py's lifespan: every registered client   *)
(* is closed.  Waiters still run until the process exits.                  *)
Shutdown ==
  /\ app = "serving" /\ task[Loop].pc = "idle"
  /\ app' = "stopped"
  /\ CloseClients({clients[a] : a \in Accounts} \ {NoClient})
  /\ clients' = [a \in Accounts |-> NoClient]
  /\ UNCHANGED <<connected, task, failed, quiet>>

(* The child of a listener exits: its reader thread ends with it.          *)
Dies(c) ==
  /\ child[c].state = "live"
  /\ child' = [child EXCEPT ![c] = [account |-> child[c].account,
                                     state |-> "dead"]]
  /\ UNCHANGED <<connected, clients, task, failed, quiet, app>>

(* The process ends or is killed, its children with it, and starts again:  *)
(* only the rows remain.                                                   *)
Restart ==
  /\ clients' = [a \in Accounts |-> NoClient]
  /\ child' = [c \in Clients |-> Closed]
  /\ task' = [t \in Threads |-> [pc |-> IF t = Loop THEN "load" ELSE "idle",
                                 todo |-> {}, client |-> NoClient]]
  /\ failed' = {}
  /\ quiet' = TRUE
  /\ app' = "starting"
  /\ UNCHANGED connected

-----------------------------------------------------------------------------
Reload(t) ==
  \/ LoadAccounts(t) \/ CloseOthers(t)
  \/ \E a \in Accounts :
       \/ HasListener(t, a) \/ SpawnFails(t, a)
       \/ \E c \in Clients : StartClient(t, a, c)
  \/ StartFails(t) \/ Register(t) \/ EndReload(t)

Next ==
  \/ \E t \in Threads :
       Reload(t) \/ Change(t, {}) \/ \E a \in Accounts : Change(t, {a})
  \/ \E a \in Accounts : StartLogin(a)
  \/ Shutdown \/ Restart
  \/ \E c \in Clients : Dies(c)

Spec == Init /\ [][Next]_vars

-----------------------------------------------------------------------------
(* Properties.                                                             *)

AtRest == app = "serving" /\ \A t \in Threads : task[t].pc = "idle"
Open(c) == child[c].state # "closed"

(* A registered client has not been closed, is the one of its account and  *)
(* is not being started by anybody, whatever reloads overlap.              *)
RegisteredIsOpen ==
  \A a \in Accounts : clients[a] # NoClient =>
    /\ Open(clients[a]) /\ child[clients[a]].account = a
    /\ \A t \in Threads : task[t].client # clients[a]

(* technical-reference.md:123 "the app keeps long-running app-server       *)
(* listeners open for connected accounts": once no reload is under way, a  *)
(* connected account has a client, unless its last start failed.           *)
ConnectedHasListener ==
  AtRest => \A a \in connected \ failed : clients[a] # NoClient

(* usage.md:34 "stops scheduled anchors, telemetry polling, and live       *)
(* listeners for it": once no reload is under way, no account that is      *)
(* archived, disabled or not connected has a client.                       *)
ListenerIsConnected ==
  AtRest => \A a \in Accounts \ connected : clients[a] = NoClient

(* What overlapping reloads get wrong, the next one that runs by itself    *)
(* puts right: exactly the connected accounts have clients, those whose    *)
(* start has just failed excepted.                                         *)
ReloadRepairs ==
  quiet => ConnectedHasListener /\ ListenerIsConnected

(* A child that runs can be closed: its client is registered, or a reload  *)
(* has it in hand.                                                         *)
NoLeakedListener ==
  \A c \in Clients : Open(c) =>
    \/ \E a \in Accounts : clients[a] = c
    \/ \E t \in Threads : task[t].client = c

=============================================================================
