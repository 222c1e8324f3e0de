------------------------ MODULE LiveListenersProofs ------------------------
(* Proofs about LiveListeners, for every set of accounts, threads, clients. *)
EXTENDS LiveListeners, TLAPS

(* What a reload has in hand is a child of its own that is being started.  *)
InHand ==
  \A t \in Threads : task[t].pc = "starting" =>
    /\ child[task[t].client].state = "starting"
    /\ \A u \in Threads \ {t} : task[u].client # task[t].client

(* A registered client has finished its handshake.                         *)
Registered ==
  \A a \in Accounts : clients[a] # NoClient =>
    /\ child[clients[a]].state \in {"live", "dead"}
    /\ child[clients[a]].account = a

IInv == TypeOK /\ InHand /\ Registered

-----------------------------------------------------------------------------
LEMMA ClosedIsTyped == Closed.account \in Accounts /\ Closed.state = "closed"
                         /\ Closed \in [account : Accounts,
                               state : {"closed", "starting", "live", "dead"}]
BY NamesAssumption DEF Closed

LEMMA InitIInv == Init => IInv
<1> SUFFICES ASSUME Init PROVE IInv
  OBVIOUS
<1> USE NamesAssumption, ClosedIsTyped DEF Init
<1>1. TypeOK
  BY DEF TypeOK
<1>2. InHand
  BY DEF InHand
<1>3. Registered
  BY DEF Registered
<1>. QED
  BY <1>1, <1>2, <1>3 DEF IInv

LEMMA NextIInv == IInv /\ [Next]_vars => IInv'
<1> SUFFICES ASSUME IInv, [Next]_vars PROVE IInv'
  OBVIOUS
<1> USE NamesAssumption, ClosedIsTyped DEF IInv
<1>1. ASSUME NEW t \in Threads, NEW changed \in SUBSET Accounts,
             Change(t, changed)
      PROVE  IInv'
  BY <1>1 DEF Change, Go, TypeOK, InHand, Registered
<1>2. ASSUME NEW t \in Threads, LoadAccounts(t) PROVE IInv'
  BY <1>2 DEF LoadAccounts, Go, TypeOK, InHand, Registered
<1>3. ASSUME NEW t \in Threads, CloseOthers(t) PROVE IInv'
  <2>1. TypeOK'
    BY <1>3 DEF CloseOthers, CloseClients, Go, TypeOK
  <2>2. InHand'
    BY <1>3 DEF CloseOthers, CloseClients, Go, TypeOK, InHand, Registered
  <2>3. Registered'
    BY <1>3 DEF CloseOthers, CloseClients, Go, TypeOK, Registered
  <2>. QED
    BY <2>1, <2>2, <2>3
<1>4. ASSUME NEW t \in Threads, NEW a \in Accounts, HasListener(t, a)
      PROVE  IInv'
  BY <1>4 DEF HasListener, Go, TypeOK, InHand, Registered
<1>5. ASSUME NEW t \in Threads, NEW a \in Accounts, SpawnFails(t, a)
      PROVE  IInv'
  BY <1>5 DEF SpawnFails, Go, TypeOK, InHand, Registered
<1>6. ASSUME NEW t \in Threads, NEW a \in Accounts, NEW c \in Clients,
             StartClient(t, a, c)
      PROVE  IInv'
  <2>1. TypeOK'
    BY <1>6 DEF StartClient, Go, TypeOK
  <2>2. InHand'
    BY <1>6 DEF StartClient, Go, TypeOK, InHand
  <2>3. Registered'
    BY <1>6 DEF StartClient, Go, TypeOK, Registered
  <2>. QED
    BY <2>1, <2>2, <2>3
<1>7. ASSUME NEW t \in Threads, StartFails(t) PROVE IInv'
  <2>1. task[t].client \in Clients /\ child[task[t].client].account \in Accounts
    BY <1>7 DEF StartFails, TypeOK
  <2>2. TypeOK'
    BY <1>7, <2>1 DEF StartFails, CloseClients, Go, TypeOK
  <2>3. InHand'
    BY <1>7, <2>1 DEF StartFails, CloseClients, Go, TypeOK, InHand
  <2>4. Registered'
    BY <1>7, <2>1 DEF StartFails, CloseClients, Go, TypeOK, InHand, Registered
  <2>. QED
    BY <2>2, <2>3, <2>4
<1>8. ASSUME NEW t \in Threads, Register(t) PROVE IInv'
  <2>1. task[t].client \in Clients /\ child[task[t].client].account \in Accounts
    BY <1>8 DEF Register, TypeOK
  <2>2. TypeOK'
    BY <1>8, <2>1 DEF Register, Go, TypeOK
  <2>3. InHand'
    BY <1>8, <2>1 DEF Register, Go, TypeOK, InHand
  <2>4. Registered'
    BY <1>8, <2>1 DEF Register, Go, TypeOK, InHand, Registered
  <2>. QED
    BY <2>2, <2>3, <2>4
<1>9. ASSUME NEW t \in Threads, EndReload(t) PROVE IInv'
  BY <1>9 DEF EndReload, Go, TypeOK, InHand, Registered
<1>10. CASE Shutdown
  <2>1. TypeOK'
    BY <1>10 DEF Shutdown, CloseClients, TypeOK
  <2>2. InHand'
    BY <1>10 DEF Shutdown, CloseClients, TypeOK, InHand, Registered
  <2>3. Registered'
    BY <1>10 DEF Shutdown, CloseClients, TypeOK, Registered
  <2>. QED
    BY <2>1, <2>2, <2>3
<1>11. ASSUME NEW c \in Clients, Dies(c) PROVE IInv'
  BY <1>11 DEF Dies, TypeOK, InHand, Registered
<1>12. ASSUME NEW a \in Accounts, StartLogin(a) PROVE IInv'
  <2>1. /\ UNCHANGED <<clients, child, task, failed, app>>
        /\ connected' \subseteq connected /\ quiet' = FALSE
    BY <1>12 DEF StartLogin
  <2>2. TypeOK'
    BY <2>1 DEF TypeOK
  <2>3. InHand' /\ Registered'
    BY <2>1 DEF InHand, Registered
  <2>. QED
    BY <2>2, <2>3
<1>13. CASE Restart
  BY <1>13 DEF Restart, TypeOK, InHand, Registered
<1>14. CASE UNCHANGED vars
  BY <1>14 DEF vars, TypeOK, InHand, Registered
<1>. QED
  BY <1>1, <1>2, <1>3, <1>4, <1>5, <1>6, <1>7, <1>8, <1>9, <1>10, <1>11,
     <1>12, <1>13, <1>14 DEF Next, Reload

THEOREM ListenerInvariance == Spec => []IInv
BY InitIInv, NextIInv, PTL DEF Spec

(* Types, and a client in hand exactly while a handshake goes on.          *)
THEOREM ListenersTyped == Spec => []TypeOK
<1>1. IInv => TypeOK
  BY DEF IInv
<1>. QED
  BY <1>1, ListenerInvariance, PTL

(* However many threads reload at once, the client registered for an       *)
(* account is its own, has not been closed, and is nobody's to close.      *)
THEOREM RegisteredClientsAreOpen == Spec => []RegisteredIsOpen
<1>1. IInv => RegisteredIsOpen
  BY NamesAssumption DEF IInv, TypeOK, InHand, Registered, RegisteredIsOpen, Open
<1>. QED
  BY <1>1, ListenerInvariance, PTL

-----------------------------------------------------------------------------
(* A leak takes two reloads that overlap.                                  *)
OneReloadAtATime ==
  \A t, u \in Threads : task[t].pc # "idle" /\ task[u].pc # "idle" => t = u

(* Then what is being started replaces nothing.                            *)
LInv ==
  /\ IInv /\ NoLeakedListener
  /\ \A t \in Threads : task[t].pc = "starting" =>
       clients[child[task[t].client].account] = NoClient

(* A step that starts no child and ends none keeps that.                   *)
LEMMA SameChildrenKeepLInv ==
  ASSUME LInv, IInv', clients' = clients, child' = child,
         \A u \in Threads : /\ task'[u].client = task[u].client
                            /\ task'[u].pc = "starting" => task[u].pc = "starting"
  PROVE  LInv'
BY DEF LInv, NoLeakedListener, Open

LEMMA OneReloadKeepsLInv ==
  ASSUME LInv, OneReloadAtATime, [Next]_vars
  PROVE  LInv'
<1>1. IInv'
  BY NextIInv DEF LInv
<1> USE NamesAssumption, ClosedIsTyped
    DEF LInv, IInv, TypeOK, NoLeakedListener, Open, OneReloadAtATime
<1>2. ASSUME NEW t \in Threads, NEW changed \in SUBSET Accounts,
             Change(t, changed)
      PROVE  LInv'
  BY <1>1, <1>2 DEF Change, Go
<1>3. ASSUME NEW t \in Threads, LoadAccounts(t) PROVE LInv'
  <2>1. /\ clients' = clients /\ child' = child
        /\ \A u \in Threads : /\ task'[u].client = task[u].client
                              /\ task'[u].pc = "starting" => task[u].pc = "starting"
    <3> HIDE DEF LInv, NoLeakedListener, OneReloadAtATime
    <3>. QED
      BY <1>1, <1>3 DEF LoadAccounts, Go, LInv
  <2> HIDE DEF LInv, IInv, TypeOK, NoLeakedListener, OneReloadAtATime
  <2>. QED
    BY <1>1, <2>1, SameChildrenKeepLInv
<1>4. ASSUME NEW t \in Threads, CloseOthers(t) PROVE LInv'
  <2>1. \A u \in Threads : task'[u].pc # "starting"
    <3>1. task' = [task EXCEPT ![t] = [pc |-> "ensure", todo |-> task[t].todo,
                                       client |-> NoClient]]
      BY <1>4 DEF CloseOthers, Go
    <3>2. \A u \in Threads \ {t} : task[u].pc = "idle"
      BY <1>4 DEF CloseOthers
    <3>3. DOMAIN task = Threads
      OBVIOUS
    <3> HIDE DEF LInv, IInv, TypeOK, NoLeakedListener, OneReloadAtATime
    <3>. QED
      BY <3>1, <3>2, <3>3
  <2>2. \A u \in Threads : task[u].client = NoClient
    BY <1>4 DEF CloseOthers
  <2>3. \A c \in Clients : child'[c].state # "closed" =>
          /\ Open(c)
          /\ \A a \in Accounts \ task[t].todo : clients[a] # c
    BY <1>4 DEF CloseOthers, CloseClients
  <2>4. \A a \in Accounts : a \in task[t].todo => clients'[a] = clients[a]
    BY <1>4 DEF CloseOthers
  <2>5. ASSUME NEW c \in Clients, child'[c].state # "closed"
        PROVE  \E a \in Accounts : clients'[a] = c
    <3>1. Open(c) /\ c # NoClient
      BY <2>3, <2>5
    <3>2. PICK a \in Accounts : clients[a] = c
      BY <2>2, <3>1
    <3>3. a \in task[t].todo
      BY <2>3, <2>5, <3>2
    <3> HIDE DEF LInv, IInv, TypeOK, NoLeakedListener, OneReloadAtATime, Open
    <3>. QED
      BY <2>4, <3>2, <3>3
  <2>6. NoLeakedListener'
    BY <2>5
  <2>. QED
    BY <1>1, <2>1, <2>6
<1>5. ASSUME NEW t \in Threads, NEW a \in Accounts, HasListener(t, a)
      PROVE  LInv'
  <2>1. /\ clients' = clients /\ child' = child
        /\ \A u \in Threads : /\ task'[u].client = task[u].client
                              /\ task'[u].pc = "starting" => task[u].pc = "starting"
    <3> HIDE DEF LInv, NoLeakedListener, OneReloadAtATime
    <3>. QED
      BY <1>1, <1>5 DEF HasListener, Go, LInv
  <2> HIDE DEF LInv, IInv, TypeOK, NoLeakedListener, OneReloadAtATime
  <2>. QED
    BY <1>1, <2>1, SameChildrenKeepLInv
<1>6. ASSUME NEW t \in Threads, NEW a \in Accounts, SpawnFails(t, a)
      PROVE  LInv'
  <2>1. /\ clients' = clients /\ child' = child
        /\ \A u \in Threads : /\ task'[u].client = task[u].client
                              /\ task'[u].pc = "starting" => task[u].pc = "starting"
    <3> HIDE DEF LInv, NoLeakedListener, OneReloadAtATime
    <3>. QED
      BY <1>1, <1>6 DEF SpawnFails, Go, LInv
  <2> HIDE DEF LInv, IInv, TypeOK, NoLeakedListener, OneReloadAtATime
  <2>. QED
    BY <1>1, <2>1, SameChildrenKeepLInv
<1>7. ASSUME NEW t \in Threads, NEW a \in Accounts, NEW c \in Clients,
             StartClient(t, a, c)
      PROVE  LInv'
  <2>1. NoLeakedListener'
    BY <1>7 DEF StartClient, Go
  <2>2. \A u \in Threads : task'[u].pc = "starting" => u = t
    BY <1>7 DEF StartClient, Go
  <2>3. clients'[child'[task'[t].client].account] = NoClient
    BY <1>7 DEF StartClient, Go
  <2>. QED
    BY <1>1, <2>1, <2>2, <2>3
<1>8. ASSUME NEW t \in Threads, StartFails(t) PROVE LInv'
  <2>1. \A u \in Threads : task'[u].pc # "starting"
    BY <1>8 DEF StartFails, Go
  <2>2. \A u \in Threads : task[u].client # NoClient => u = t
    BY <1>8 DEF StartFails
  <2>3. \A c \in Clients \ {task[t].client} :
          Open(c) => \E a \in Accounts : clients[a] = c
    BY <2>2
  <2>4. /\ UNCHANGED clients
        /\ \A c \in Clients : child'[c].state # "closed" =>
             Open(c) /\ c # task[t].client
    BY <1>8 DEF StartFails, CloseClients
  <2>5. NoLeakedListener'
    BY <2>3, <2>4
  <2>. QED
    BY <1>1, <2>1, <2>5
<1>9. ASSUME NEW t \in Threads, Register(t) PROVE LInv'
  <2>1. task[t].client \in Clients /\ clients[child[task[t].client].account] = NoClient
    BY <1>9 DEF Register
  <2>2. \A u \in Threads : task'[u].pc # "starting"
    BY <1>9 DEF Register, Go
  <2>3. NoLeakedListener'
    BY <1>9, <2>1 DEF Register, Go
  <2>. QED
    BY <1>1, <2>2, <2>3
<1>10. ASSUME NEW t \in Threads, EndReload(t) PROVE LInv'
  BY <1>1, <1>10 DEF EndReload, Go
<1>11. CASE Shutdown
  BY <1>1, <1>11 DEF Shutdown, CloseClients
<1>12. ASSUME NEW c \in Clients, Dies(c) PROVE LInv'
  BY <1>1, <1>12 DEF Dies
<1>13. ASSUME NEW a \in Accounts, StartLogin(a) PROVE LInv'
  BY <1>1, <1>13 DEF StartLogin
<1>14. CASE Restart
  BY <1>1, <1>14 DEF Restart
<1>15. CASE UNCHANGED vars
  BY <1>1, <1>15 DEF vars
<1> HIDE DEF LInv, IInv, TypeOK, NoLeakedListener, Open, OneReloadAtATime
<1>. QED
  BY <1>2, <1>3, <1>4, <1>5, <1>6, <1>7, <1>8, <1>9, <1>10, <1>11, <1>12,
     <1>13, <1>14, <1>15 DEF Next, Reload

(* Whichever threads reload, the event loop or waiters, and however often:  *)
(* in a run in which no two reloads have overlapped, every child that runs  *)
(* is registered or being started, so that it can be closed.               *)
THEOREM LeaksTakeOverlap == Spec /\ []OneReloadAtATime => []NoLeakedListener
<1>1. Init => LInv
  BY InitIInv, ClosedIsTyped DEF LInv, Init, NoLeakedListener, Open
<1>2. LInv /\ OneReloadAtATime /\ [Next]_vars => LInv'
  BY OneReloadKeepsLInv
<1>3. LInv => NoLeakedListener
  BY DEF LInv
<1>. QED
  BY <1>1, <1>2, <1>3, PTL DEF Spec

-----------------------------------------------------------------------------
(* What a reload that has the listeners to itself has achieved so far.     *)
Repairing(t) ==
  /\ \A u \in Threads \ {t} : task[u].pc = "idle"
  /\ task[t].pc = "close" => task[t].todo = connected
  /\ task[t].pc = "starting" => child[task[t].client].account \in task[t].todo
  /\ task[t].pc \in {"ensure", "starting", "idle"} =>
       /\ task[t].todo \subseteq connected
       /\ \A a \in Accounts \ connected : clients[a] = NoClient
       /\ \A a \in connected \ failed :
            a \in task[t].todo \/ clients[a] # NoClient
  /\ task[t].pc = "idle" => task[t].todo = {}

RInv ==
  /\ IInv
  /\ quiet /\ app # "stopped" => \E t \in Threads : Repairing(t)

LEMMA NextRInv == RInv /\ [Next]_vars => RInv'
<1> SUFFICES ASSUME RInv, [Next]_vars PROVE RInv'
  OBVIOUS
<1>1. IInv /\ IInv'
  BY NextIInv DEF RInv
<1> SUFFICES ASSUME quiet', app' # "stopped"
             PROVE  (\E t \in Threads : Repairing(t))'
  BY <1>1 DEF RInv
<1> USE NamesAssumption, ClosedIsTyped DEF IInv, TypeOK
<1>2. ASSUME NEW t \in Threads, NEW changed \in SUBSET Accounts,
             Change(t, changed)
      PROVE  Repairing(t)'
  <2>1. /\ task' = [task EXCEPT ![t] = [pc |-> "load", todo |-> {}, client |-> NoClient]]
        /\ \A u \in Threads : task[u].pc = "idle"
    BY <1>2 DEF Change, Go
  <2>2. task'[t].pc = "load" /\ \A u \in Threads \ {t} : task'[u].pc = "idle"
    <3>1. DOMAIN task = Threads
      BY <1>1
    <3> HIDE DEF TypeOK, IInv
    <3>. QED
      BY <2>1, <3>1
  <2>. QED
    BY <2>2 DEF Repairing
<1>3. ASSUME NEW t \in Threads, Reload(t)
      PROVE  Repairing(t)'
  <2>1. Repairing(t)
    <3>1. quiet /\ app # "stopped"
      BY <1>3 DEF Reload, LoadAccounts, CloseOthers, HasListener, SpawnFails,
                  StartClient, StartFails, Register, EndReload
    <3>2. task[t].pc # "idle"
      BY <1>3 DEF Reload, LoadAccounts, CloseOthers, HasListener, SpawnFails,
                  StartClient, StartFails, Register, EndReload
    <3>. QED
      BY <3>1, <3>2 DEF RInv, Repairing
  <2>2. CASE LoadAccounts(t)
    BY <1>1, <2>1, <2>2 DEF LoadAccounts, Go, Repairing
  <2>3. CASE CloseOthers(t)
    BY <1>1, <2>1, <2>3 DEF CloseOthers, CloseClients, Go, Repairing
  <2>4. ASSUME NEW a \in Accounts, HasListener(t, a) PROVE Repairing(t)'
    BY <1>1, <2>1, <2>4 DEF HasListener, Go, Repairing
  <2>5. ASSUME NEW a \in Accounts, SpawnFails(t, a) PROVE Repairing(t)'
    BY <1>1, <2>1, <2>5 DEF SpawnFails, Go, Repairing
  <2>6. ASSUME NEW a \in Accounts, NEW c \in Clients, StartClient(t, a, c)
        PROVE  Repairing(t)'
    BY <1>1, <2>1, <2>6 DEF StartClient, Go, Repairing
  <2>7. CASE StartFails(t)
    BY <1>1, <2>1, <2>7 DEF StartFails, CloseClients, Go, Repairing
  <2>8. CASE Register(t)
    <3>1. task[t].client \in Clients
      BY <1>1, <2>8 DEF Register
    <3>. QED
      BY <1>1, <2>1, <2>8, <3>1 DEF Register, Go, Repairing
  <2>9. CASE EndReload(t)
    BY <1>1, <2>1, <2>9 DEF EndReload, Go, Repairing
  <2>. QED
    BY <1>3, <2>2, <2>3, <2>4, <2>5, <2>6, <2>7, <2>8, <2>9 DEF Reload
<1>4. CASE Shutdown
  BY <1>4 DEF Shutdown
<1>5. ASSUME NEW c \in Clients, Dies(c)
      PROVE  (\E t \in Threads : Repairing(t))'
  <2>1. PICK t \in Threads : Repairing(t)
    BY <1>5 DEF Dies, RInv
  <2>2. Repairing(t)'
    BY <1>1, <1>5, <2>1 DEF Dies, Repairing, InHand
  <2>. QED
    BY <2>2
<1>6. ASSUME NEW a \in Accounts, StartLogin(a)
      PROVE  (\E t \in Threads : Repairing(t))'
  BY <1>6 DEF StartLogin
<1>7. CASE Restart
  <2>1. Repairing(Loop)'
    BY <1>7 DEF Restart, Repairing
  <2>. QED
    BY <2>1
<1>8. CASE UNCHANGED vars
  BY <1>8 DEF vars, RInv, Repairing
<1>. QED
  BY <1>2, <1>3, <1>4, <1>5, <1>6, <1>7, <1>8 DEF Next

(* Whatever overlapping reloads left behind, the next reload that runs by  *)
(* itself gives exactly the connected accounts a client.                   *)
THEOREM UndisturbedReloadRepairs == Spec => []ReloadRepairs
<1>1. Init => RInv
  <2> SUFFICES ASSUME Init PROVE RInv
    OBVIOUS
  <2>1. Repairing(Loop)
    BY NamesAssumption DEF Init, Repairing
  <2>. QED
    BY <2>1, InitIInv, NamesAssumption DEF RInv
<1>2. RInv => ReloadRepairs
  BY DEF RInv, ReloadRepairs, ConnectedHasListener, ListenerIsConnected,
         AtRest, Repairing
<1>. QED
  BY <1>1, <1>2, NextRInv, PTL DEF Spec
=============================================================================
