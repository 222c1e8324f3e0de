-------------------------- MODULE DeviceLoginProofs --------------------------
(* The safety properties of DeviceLogin hold for every number of accounts,  *)
(* attempts and identities, with cancels that raise and with restarts.     *)
(* Together with the listeners (LoginListeners) they and those of           *)
(* LiveListeners hold: each is the environment the other takes it for.      *)
EXTENDS LoginListeners, TLAPS

-----------------------------------------------------------------------------
(* The inductive invariant.                                                *)

(* A waiter works for the account of its attempt, which is not closed, and *)
(* whose code is dead once the wait is over.                               *)
Waiters ==
  \A t \in Attempts : task[t].pc # "idle" =>
    /\ task[t].pc \in {"waiting", "lost", "read", "apply", "fail", "close"}
    /\ task[t].account = attempt[t].account
    /\ attempt[t].outcome # "closed"
    /\ task[t].pc # "waiting" => attempt[t].outcome \notin Live

(* Between a new attempt and its waiter, the attempt is the active one.    *)
Starting ==
  task[Loop].pc = "pending" =>
    /\ active[task[Loop].account] # NoAttempt
    /\ task[active[task[Loop].account]].pc = "idle"

(* A waiter that will write over a pending login of a: it has not loaded   *)
(* the row yet, or it loaded it pending, so that its commit writes.        *)
Minds(t, a) ==
  /\ task[t].account = a
  /\ \/ task[t].pc \in {"waiting", "lost"}
     \/ /\ task[t].pc \in {"read", "apply", "fail"}
        /\ task[t].seen.status = "login_pending"

Guarded ==
  \A a \in Accounts \ (archived \cup stranded) : status[a] = "login_pending" =>
    \E t \in Attempts : Minds(t, a)

IInv == TypeOK /\ Waiters /\ Starting /\ ActiveIsWatched /\ OneLiveCode /\ Guarded

-----------------------------------------------------------------------------
LEMMA InitIInv == Init => IInv
<1> SUFFICES ASSUME Init PROVE IInv
  OBVIOUS
<1> USE NamesAssumption
<1>1. AnyAccount \in Accounts
  BY DEF AnyAccount
<1>2. TypeOK
  BY <1>1 DEF Init, TypeOK, Statuses, People, Actors, Live, Outcomes, TaskPCs, Columns,
              Unloaded, TaskAt, NoTask, NoLogin
<1>3. QED
  BY <1>2 DEF Init, IInv, Waiters, Starting, ActiveIsWatched, OneLiveCode, Guarded,
              Actors, NoTask, TaskAt, NoLogin

(* A login that is popped and cancelled leaves the rest in order.          *)
LEMMA CancelKeeps ==
  ASSUME IInv, NEW a \in Accounts, NEW pc \in {"unset", "unset_archive", "logout"},
         LoopIdle, CancelActive(a, pc),
         UNCHANGED <<status, external, archived, home, stranded>>
  PROVE  IInv'
<1> USE NamesAssumption
<1> USE DEF IInv, TypeOK, Statuses, People, Actors, Live, Outcomes, TaskPCs, Columns
<1>1. /\ active[a] \in Attempts /\ active' = [active EXCEPT ![a] = NoAttempt]
      /\ attempt[active[a]].account = a /\ attempt[active[a]].outcome # "closed"
  BY DEF CancelActive, ActiveIsWatched
<1>2. PICK o \in {"complete", "failed", "uncancelled"} :
        /\ attempt' = [attempt EXCEPT ![active[a]] = [account |-> a, outcome |-> o]]
        /\ o = "uncancelled" => attempt[active[a]].outcome \in Live
  BY <1>1 DEF CancelActive, Cancelled, Ended
<1>3. /\ task' \in [Actors -> [pc : TaskPCs, account : Accounts, seen : Columns,
                               info : People]]
      /\ \A t \in Attempts : task'[t] = task[t]
      /\ task[Loop].pc = "idle" /\ task'[Loop].pc \in {"idle", pc}
  BY DEF CancelActive, Load, Row, LoopIdle
<1>4. TypeOK'
  BY <1>1, <1>2, <1>3
<1>5. Waiters'
  BY <1>1, <1>2, <1>3 DEF Waiters
<1>6. Starting'
  BY <1>3 DEF Starting
<1>7. ActiveIsWatched'
  BY <1>1, <1>2, <1>3 DEF ActiveIsWatched
<1>8. OneLiveCode'
  BY <1>1, <1>2 DEF OneLiveCode
<1>9. Guarded'
  BY <1>3 DEF Guarded, Minds
<1>10. QED
  BY <1>4, <1>5, <1>6, <1>7, <1>8, <1>9

(* Every step preserves the invariant: one step of the proof per action.   *)
LEMMA NextIInv == IInv /\ [Next]_vars => IInv'
<1> SUFFICES ASSUME IInv, [Next]_vars PROVE IInv'
  OBVIOUS
<1> USE NamesAssumption
<1>any. AnyAccount \in Accounts
  BY DEF AnyAccount
<1> USE <1>any
<1> USE DEF IInv, TypeOK, Waiters, Starting, ActiveIsWatched, OneLiveCode, Guarded,
        Minds, Statuses, People, Actors, Live, Outcomes, TaskPCs, Columns, Unloaded,
        TaskAt, NoTask, NoLogin, Row, Load, GoOn, CommitStatus, CommitExternal,
        Leave, Ended, Cancelled, LoopIdle, CancelActive
<1>1. ASSUME NEW a \in Accounts, BeginLogin(a) PROVE IInv'
  <2>1. TypeOK'
    BY <1>1 DEF BeginLogin
  <2>2. Waiters'
    BY <1>1 DEF BeginLogin
  <2>3. Starting'
    BY <1>1 DEF BeginLogin
  <2>4. ActiveIsWatched'
    BY <1>1 DEF BeginLogin
  <2>5. OneLiveCode'
    BY <1>1 DEF BeginLogin
  <2>6. Guarded'
    BY <1>1 DEF BeginLogin
  <2>7. QED
    BY <2>1, <2>2, <2>3, <2>4, <2>5, <2>6
<1>2. CASE LoginRefused
  <2>1. TypeOK'
    BY <1>2 DEF LoginRefused
  <2>2. Waiters'
    BY <1>2 DEF LoginRefused
  <2>3. Starting'
    BY <1>2 DEF LoginRefused
  <2>4. ActiveIsWatched'
    BY <1>2 DEF LoginRefused
  <2>5. OneLiveCode'
    BY <1>2 DEF LoginRefused
  <2>6. Guarded'
    BY <1>2 DEF LoginRefused
  <2>7. QED
    BY <2>1, <2>2, <2>3, <2>4, <2>5, <2>6
<1>3. ASSUME NEW t \in Attempts, AttemptStarts(t) PROVE IInv'
  <2>1. PICK a \in Accounts : a = task[Loop].account
    BY DEF IInv
  <2>2. /\ attempt[t].outcome = "closed" /\ task[t].pc = "idle"
        /\ active' = [active EXCEPT ![a] = t] /\ task[Loop].pc = "starting"
        /\ UNCHANGED <<status, archived>>
        /\ \A s \in Attempts : task'[s] = task[s]
        /\ \/ task'[Loop].pc = "pending" /\ stranded' = stranded
           \/ task'[Loop].pc = "idle" /\ stranded' = stranded \cup {a}
        /\ task'[Loop].pc = "pending" => task'[Loop].account = a
    BY <1>3, <2>1 DEF AttemptStarts
  <2>3. /\ attempt'[t] = [account |-> a, outcome |-> "open"]
        /\ \A s \in Attempts \ {t} :
             /\ attempt'[s].account = attempt[s].account
             /\ attempt'[s].outcome = "closed" <=> attempt[s].outcome = "closed"
             /\ attempt'[s].outcome \in Live => attempt[s].outcome \in Live
             /\ attempt'[s].outcome = "open"
                  => attempt[s].outcome = "open" /\ s # active[a]
    BY <1>3, <2>1, <2>2 DEF AttemptStarts
  <2>4. \A b \in Accounts : active[b] # t
    BY <2>2
  <2>5. TypeOK'
    BY <1>3 DEF AttemptStarts
  <2>6. Waiters'
    BY <2>2, <2>3
  <2>7. Starting'
    BY <2>2
  <2>8. ActiveIsWatched'
    <3> SUFFICES ASSUME NEW b \in Accounts, active'[b] # NoAttempt
                 PROVE  /\ attempt'[active'[b]].account = b
                        /\ attempt'[active'[b]].outcome # "closed"
                        /\ \/ task'[active'[b]].pc # "idle"
                           \/ task'[Loop].pc = "pending" /\ task'[Loop].account = b
                           \/ b \in stranded'
      OBVIOUS
    <3>1. CASE b = a
      BY <2>2, <2>3, <3>1
    <3>2. CASE b # a
      <4>1. active'[b] = active[b] /\ active[b] \in Attempts \ {t}
        BY <2>2, <2>4, <3>2
      <4>2. QED
        BY <2>2, <2>3, <4>1
    <3>3. QED
      BY <3>1, <3>2
  <2>9. OneLiveCode'
    BY <2>2, <2>3
  <2>10. Guarded'
    <3> SUFFICES ASSUME NEW b \in Accounts \ (archived \cup stranded'),
                        status[b] = "login_pending"
                 PROVE  \E s \in Attempts : Minds(s, b)'
      BY <2>2
    <3>1. b \in Accounts \ (archived \cup stranded)
      BY <2>2
    <3>2. PICK s \in Attempts : Minds(s, b)
      <4> HIDE DEF Minds
      <4>1. QED
        BY <3>1 DEF Guarded
    <3>3. QED
      BY <2>2, <3>2
  <2>11. QED
    BY <2>5, <2>6, <2>7, <2>8, <2>9, <2>10
<1>4. CASE CommitPending
  <2>1. TypeOK'
    BY <1>4 DEF CommitPending
  <2>2. Waiters'
    BY <1>4, SMTT(20) DEF CommitPending
  <2>3. Starting'
    BY <1>4 DEF CommitPending
  <2>4. ActiveIsWatched'
    BY <1>4 DEF CommitPending
  <2>5. OneLiveCode'
    BY <1>4 DEF CommitPending
  <2>6. Guarded'
    BY <1>4 DEF CommitPending
  <2>7. QED
    BY <2>1, <2>2, <2>3, <2>4, <2>5, <2>6
<1>5. ASSUME NEW a \in Accounts, CancelLogin(a) PROVE IInv'
  <2> HIDE DEF IInv, CancelActive, LoopIdle
  <2>1. QED
    BY <1>5, CancelKeeps DEF CancelLogin
<1>6. CASE CommitUnset
  <2>1. TypeOK'
    BY <1>6 DEF CommitUnset
  <2>2. Waiters'
    BY <1>6 DEF CommitUnset
  <2>3. Starting'
    BY <1>6 DEF CommitUnset
  <2>4. ActiveIsWatched'
    BY <1>6 DEF CommitUnset
  <2>5. OneLiveCode'
    BY <1>6 DEF CommitUnset
  <2>6. Guarded'
    BY <1>6 DEF CommitUnset
  <2>7. QED
    BY <2>1, <2>2, <2>3, <2>4, <2>5, <2>6
<1>7. ASSUME NEW a \in Accounts, Archive(a) PROVE IInv'
  <2>1. CASE CancelActive(a, "unset_archive")
    <3> HIDE DEF IInv, CancelActive, LoopIdle
    <3>1. UNCHANGED <<status, external, archived, home, stranded>>
      BY <1>7, <2>1 DEF Archive, CancelActive
    <3>2. QED
      BY <1>7, <2>1, <3>1, CancelKeeps DEF Archive
  <2>2. CASE active[a] = NoAttempt
    <3>1. TypeOK'
      BY <1>7, <2>2 DEF Archive
    <3>2. Waiters'
      BY <1>7, <2>2 DEF Archive
    <3>3. Starting'
      BY <1>7, <2>2 DEF Archive
    <3>4. ActiveIsWatched'
      BY <1>7, <2>2 DEF Archive
    <3>5. OneLiveCode'
      BY <1>7, <2>2 DEF Archive
    <3>6. Guarded'
      BY <1>7, <2>2 DEF Archive
    <3>7. QED
      BY <3>1, <3>2, <3>3, <3>4, <3>5, <3>6
  <2>3. QED
    BY <1>7, <2>1, <2>2 DEF Archive
<1>8. CASE ArchiveCancelled
  <2>1. TypeOK'
    BY <1>8 DEF ArchiveCancelled
  <2>2. Waiters'
    BY <1>8 DEF ArchiveCancelled
  <2>3. Starting'
    BY <1>8 DEF ArchiveCancelled
  <2>4. ActiveIsWatched'
    BY <1>8 DEF ArchiveCancelled
  <2>5. OneLiveCode'
    BY <1>8 DEF ArchiveCancelled
  <2>6. Guarded'
    BY <1>8 DEF ArchiveCancelled
  <2>7. QED
    BY <2>1, <2>2, <2>3, <2>4, <2>5, <2>6
<1>9. ASSUME NEW a \in Accounts, RefreshStatus(a) PROVE IInv'
  <2>1. TypeOK'
    BY <1>9 DEF RefreshStatus
  <2>2. Waiters'
    BY <1>9 DEF RefreshStatus
  <2>3. Starting'
    BY <1>9 DEF RefreshStatus
  <2>4. ActiveIsWatched'
    BY <1>9 DEF RefreshStatus
  <2>5. OneLiveCode'
    BY <1>9 DEF RefreshStatus
  <2>6. Guarded'
    BY <1>9 DEF RefreshStatus
  <2>7. QED
    BY <2>1, <2>2, <2>3, <2>4, <2>5, <2>6
<1>10. ASSUME NEW a \in Accounts, Logout(a) PROVE IInv'
  <2>1. CASE CancelActive(a, "logout")
    <3> HIDE DEF IInv, CancelActive, LoopIdle
    <3>1. UNCHANGED <<status, external, archived, home, stranded>>
      BY <1>10, <2>1 DEF Logout, CancelActive
    <3>2. QED
      BY <1>10, <2>1, <3>1, CancelKeeps, SMTT(20) DEF Logout
  <2>2. CASE active[a] = NoAttempt
    <3>1. TypeOK'
      BY <1>10, <2>2, SMTT(20) DEF Logout
    <3>2. Waiters'
      BY <1>10, <2>2, SMTT(20) DEF Logout
    <3>3. Starting'
      BY <1>10, <2>2 DEF Logout
    <3>4. ActiveIsWatched'
      BY <1>10, <2>2 DEF Logout
    <3>5. OneLiveCode'
      BY <1>10, <2>2 DEF Logout
    <3>6. Guarded'
      BY <1>10, <2>2 DEF Logout
    <3>7. QED
      BY <3>1, <3>2, <3>3, <3>4, <3>5, <3>6
  <2>3. QED
    BY <1>10, <2>1, <2>2 DEF Logout
<1>11. CASE LogoutDone
  <2>1. TypeOK'
    BY <1>11 DEF LogoutDone
  <2>2. Waiters'
    BY <1>11 DEF LogoutDone
  <2>3. Starting'
    BY <1>11 DEF LogoutDone
  <2>4. ActiveIsWatched'
    BY <1>11 DEF LogoutDone
  <2>5. OneLiveCode'
    BY <1>11 DEF LogoutDone
  <2>6. Guarded'
    BY <1>11 DEF LogoutDone
  <2>7. QED
    BY <2>1, <2>2, <2>3, <2>4, <2>5, <2>6
<1>12. CASE LogoutFails
  <2>1. TypeOK'
    BY <1>12 DEF LogoutFails
  <2>2. Waiters'
    BY <1>12 DEF LogoutFails
  <2>3. Starting'
    BY <1>12 DEF LogoutFails
  <2>4. ActiveIsWatched'
    BY <1>12 DEF LogoutFails
  <2>5. OneLiveCode'
    BY <1>12 DEF LogoutFails
  <2>6. Guarded'
    BY <1>12 DEF LogoutFails
  <2>7. QED
    BY <2>1, <2>2, <2>3, <2>4, <2>5, <2>6
<1>13. ASSUME NEW t \in Attempts, WaitEnds(t) PROVE IInv'
  <2>1. PICK a \in Accounts : a = attempt[t].account /\ a = attempt[t].account
    BY <1>13, SMTT(20) DEF WaitEnds
  <2>2. /\ task[t].pc = "waiting" /\ t # Loop
        /\ attempt[t].outcome \notin Live \cup {"closed"}
        /\ UNCHANGED <<status, external, archived, home, active, attempt, stranded>>
        /\ \A x \in Actors \ {t} : task'[x] = task[x]
        /\ task'[t].account = a /\ task'[t].pc \in {"read", "fail", "close"}
        /\ a \notin archived =>
             task'[t].pc # "close" /\ task'[t].seen.status = status[a]
    BY <1>13, <2>1 DEF WaitEnds
  <2>3. TypeOK'
    <3>1. PICK r \in [pc : TaskPCs, account : Accounts, seen : Columns,
                      info : People] : task' = [task EXCEPT ![t] = r]
      <4>1. CASE a \in archived
        <5> HIDE DEF IInv
        <5>1. task' = [task EXCEPT ![t] = TaskAt("close", task[t].account)]
          BY <1>13, <2>1, <2>2, <4>1 DEF WaitEnds
        <5>2. task[t].account = a
          BY <2>1, <2>2 DEF IInv
        <5>3. QED
          BY <5>1, <5>2
      <4>2. CASE a \notin archived
        <5> HIDE DEF IInv
        <5>1. PICK pc \in {"read", "fail"} :
                task' = [task EXCEPT ![t] = [pc |-> pc, account |-> a,
                                             seen |-> Row(a), info |-> NoIdentity]]
          BY <1>13, <2>1, <4>2 DEF WaitEnds
        <5>2. Row(a) \in Columns
          BY DEF IInv
        <5>3. QED
          BY <5>1, <5>2
      <4>3. QED
        BY <4>1, <4>2
    <3>2. QED
      BY <2>2, <3>1
  <2>4. Waiters'
    <3> HIDE DEF TypeOK
    <3>1. QED
      BY <2>1, <2>2
  <2>5. Starting'
    <3>1. task'[Loop] = task[Loop]
      BY <2>2
    <3>2. task[Loop].pc = "pending" => active[task[Loop].account] # t
      BY <2>2
    <3>3. QED
      BY <2>2, <3>1, <3>2
  <2>6. ActiveIsWatched'
    <3> HIDE DEF TypeOK, Waiters, Guarded, OneLiveCode, Starting
    <3>1. task'[Loop] = task[Loop]
      BY <2>2 DEF TypeOK
    <3>2. \A s \in Attempts : task[s].pc # "idle" => task'[s].pc # "idle"
      BY <2>2
    <3>3. active \in [Accounts -> Attempts \cup {NoAttempt}]
      BY DEF TypeOK
    <3>. QED
      BY <2>2, <3>1, <3>2, <3>3
  <2>7. OneLiveCode'
    BY <2>2
  <2>8. Guarded'
    BY <2>1, <2>2
  <2>9. QED
    BY <2>3, <2>4, <2>5, <2>6, <2>7, <2>8
<1>14. ASSUME NEW t \in Attempts, LostLoads(t) PROVE IInv'
  <2>1. PICK a \in Accounts : a = task[t].account /\ a = attempt[t].account
    BY <1>14 DEF LostLoads
  <2>2. /\ task[t].pc = "lost" /\ t # Loop
        /\ attempt[t].outcome \notin Live \cup {"closed"}
        /\ UNCHANGED <<status, external, archived, home, active, attempt, stranded>>
        /\ \A x \in Actors \ {t} : task'[x] = task[x]
        /\ task'[t].account = a /\ task'[t].pc \in {"fail", "close"}
        /\ a \notin archived =>
             task'[t].pc # "close" /\ task'[t].seen.status = status[a]
    BY <1>14, <2>1 DEF LostLoads
  <2>3. TypeOK'
    <3>1. PICK r \in [pc : TaskPCs, account : Accounts, seen : Columns,
                      info : People] : task' = [task EXCEPT ![t] = r]
      <4>1. CASE a \in archived
        <5> HIDE DEF IInv
        <5>1. task' = [task EXCEPT ![t] = TaskAt("close", a)]
          BY <1>14, <2>1, <2>2, <4>1 DEF LostLoads
        <5>2. QED
          BY <5>1
      <4>2. CASE a \notin archived
        <5> HIDE DEF IInv
        <5>1. task' = [task EXCEPT ![t] = [pc |-> "fail", account |-> a,
                                           seen |-> Row(a), info |-> NoIdentity]]
          BY <1>14, <2>1, <4>2 DEF LostLoads
        <5>2. Row(a) \in Columns
          BY DEF IInv
        <5>3. QED
          BY <5>1, <5>2
      <4>3. QED
        BY <4>1, <4>2
    <3>2. QED
      BY <2>2, <3>1
  <2>4. Waiters'
    <3> HIDE DEF TypeOK
    <3>1. QED
      BY <2>1, <2>2
  <2>5. Starting'
    <3>1. task'[Loop] = task[Loop]
      BY <2>2
    <3>2. task[Loop].pc = "pending" => active[task[Loop].account] # t
      BY <2>2
    <3>3. QED
      BY <2>2, <3>1, <3>2
  <2>6. ActiveIsWatched'
    <3> HIDE DEF TypeOK, Waiters, Guarded, OneLiveCode, Starting
    <3>1. task'[Loop] = task[Loop]
      BY <2>2 DEF TypeOK
    <3>2. \A s \in Attempts : task[s].pc # "idle" => task'[s].pc # "idle"
      BY <2>2
    <3>3. active \in [Accounts -> Attempts \cup {NoAttempt}]
      BY DEF TypeOK
    <3>. QED
      BY <2>2, <3>1, <3>2, <3>3
  <2>7. OneLiveCode'
    BY <2>2
  <2>8. Guarded'
    BY <2>1, <2>2
  <2>9. QED
    BY <2>3, <2>4, <2>5, <2>6, <2>7, <2>8
<1>15. ASSUME NEW t \in Attempts, Close(t) PROVE IInv'
  <2>1. /\ task[t].pc = "close" /\ t # Loop
        /\ UNCHANGED <<status, archived, stranded>>
        /\ \A x \in Actors \ {t} : task'[x] = task[x]
        /\ task'[t].pc = "idle"
        /\ \A s \in Attempts \ {t} : attempt'[s] = attempt[s]
        /\ attempt'[t].outcome = "closed"
        /\ \A b \in Accounts :
             \/ active'[b] = active[b] /\ active'[b] # t
             \/ active'[b] = NoAttempt /\ active[b] = t
    BY <1>15 DEF Close
  <2>2. TypeOK'
    BY <1>15 DEF Close
  <2>3. Waiters'
    BY <2>1
  <2>4. Starting'
    BY <2>1
  <2>5. ActiveIsWatched'
    BY <2>1
  <2>6. OneLiveCode'
    BY <2>1
  <2>7. Guarded'
    BY <2>1
  <2>8. QED
    BY <2>2, <2>3, <2>4, <2>5, <2>6, <2>7
<1>16. ASSUME NEW x \in Actors, ReadAccount(x) PROVE IInv'
  <2>1. TypeOK'
    BY <1>16 DEF ReadAccount
  <2>2. Waiters'
    BY <1>16 DEF ReadAccount
  <2>3. Starting'
    BY <1>16 DEF ReadAccount
  <2>4. ActiveIsWatched'
    BY <1>16 DEF ReadAccount
  <2>5. OneLiveCode'
    BY <1>16 DEF ReadAccount
  <2>6. Guarded'
    BY <1>16 DEF ReadAccount
  <2>7. QED
    BY <2>1, <2>2, <2>3, <2>4, <2>5, <2>6
<1>17. ASSUME NEW x \in Actors, ReadFails(x) PROVE IInv'
  <2>1. TypeOK'
    BY <1>17 DEF ReadFails
  <2>2. Waiters'
    BY <1>17 DEF ReadFails
  <2>3. Starting'
    BY <1>17 DEF ReadFails
  <2>4. ActiveIsWatched'
    BY <1>17 DEF ReadFails
  <2>5. OneLiveCode'
    BY <1>17 DEF ReadFails
  <2>6. Guarded'
    BY <1>17 DEF ReadFails
  <2>7. QED
    BY <2>1, <2>2, <2>3, <2>4, <2>5, <2>6
<1>18. ASSUME NEW x \in Actors, Apply(x) PROVE IInv'
  <2>1. TypeOK'
    BY <1>18 DEF Apply
  <2>2. Waiters'
    BY <1>18 DEF Apply
  <2>3. Starting'
    BY <1>18 DEF Apply
  <2>4. ActiveIsWatched'
    BY <1>18 DEF Apply
  <2>5. OneLiveCode'
    BY <1>18 DEF Apply
  <2>6. Guarded'
    BY <1>18 DEF Apply
  <2>7. QED
    BY <2>1, <2>2, <2>3, <2>4, <2>5, <2>6
<1>19. ASSUME NEW x \in Actors, CommitFailed(x) PROVE IInv'
  <2>1. TypeOK'
    BY <1>19 DEF CommitFailed
  <2>2. Waiters'
    BY <1>19 DEF CommitFailed
  <2>3. Starting'
    BY <1>19 DEF CommitFailed
  <2>4. ActiveIsWatched'
    BY <1>19 DEF CommitFailed
  <2>5. OneLiveCode'
    BY <1>19 DEF CommitFailed
  <2>6. Guarded'
    BY <1>19 DEF CommitFailed
  <2>7. QED
    BY <2>1, <2>2, <2>3, <2>4, <2>5, <2>6
<1>20. ASSUME NEW t \in Attempts, NEW who \in Identities, UserCompletes(t, who) PROVE IInv'
  <2>1. TypeOK'
    BY <1>20 DEF UserCompletes
  <2>2. Waiters'
    BY <1>20 DEF UserCompletes
  <2>3. Starting'
    BY <1>20 DEF UserCompletes
  <2>4. ActiveIsWatched'
    BY <1>20 DEF UserCompletes
  <2>5. OneLiveCode'
    BY <1>20 DEF UserCompletes
  <2>6. Guarded'
    BY <1>20 DEF UserCompletes
  <2>7. QED
    BY <2>1, <2>2, <2>3, <2>4, <2>5, <2>6
<1>21. ASSUME NEW t \in Attempts, AttemptExpires(t) PROVE IInv'
  <2>1. TypeOK'
    BY <1>21 DEF AttemptExpires
  <2>2. Waiters'
    BY <1>21 DEF AttemptExpires
  <2>3. Starting'
    BY <1>21 DEF AttemptExpires
  <2>4. ActiveIsWatched'
    BY <1>21 DEF AttemptExpires
  <2>5. OneLiveCode'
    BY <1>21 DEF AttemptExpires
  <2>6. Guarded'
    BY <1>21 DEF AttemptExpires
  <2>7. QED
    BY <2>1, <2>2, <2>3, <2>4, <2>5, <2>6
<1>22. CASE Restart
  <2>1. TypeOK'
    BY <1>22 DEF Restart
  <2>2. Waiters'
    BY <1>22 DEF Restart
  <2>3. Starting'
    BY <1>22 DEF Restart
  <2>4. ActiveIsWatched'
    BY <1>22 DEF Restart
  <2>5. OneLiveCode'
    BY <1>22 DEF Restart
  <2>6. Guarded'
    BY <1>22 DEF Restart
  <2>7. QED
    BY <2>1, <2>2, <2>3, <2>4, <2>5, <2>6
<1>23. CASE UNCHANGED vars
  BY <1>23 DEF vars
<1>24. QED
  BY <1>1, <1>2, <1>3, <1>4, <1>5, <1>6, <1>7, <1>8, <1>9, <1>10, <1>11, <1>12, <1>13, <1>14, <1>15, <1>16, <1>17, <1>18, <1>19, <1>20, <1>21, <1>22, <1>23
  DEF Next, Request, LoopStep, WaiterStep, Provider

(* The inductive invariant holds in every reachable state.                 *)
THEOREM Invariance == Spec => []IInv
  BY InitIInv, NextIInv, PTL DEF Spec

-----------------------------------------------------------------------------
(* The properties.                                                         *)

(* Every variable keeps its type.                                          *)
THEOREM LoginTyped == Spec => []TypeOK
<1>1. IInv => TypeOK
  BY DEF IInv
<1>2. QED
  BY <1>1, Invariance, PTL

(* The only code that can still be entered is the one on the card.         *)
THEOREM DeadCodesStayDead == Spec => []OneLiveCode
<1>1. IInv => OneLiveCode
  BY DEF IInv
<1>2. QED
  BY <1>1, Invariance, PTL

(* An active login has a waiter, or a handler about to start one.          *)
THEOREM ActiveLoginsAreWatched == Spec => []ActiveIsWatched
<1>1. IInv => ActiveIsWatched
  BY DEF IInv
<1>2. QED
  BY <1>1, Invariance, PTL

(* A pending login that has not lost its waiter is being worked on.        *)
THEOREM PendingLoginsAreWatched == Spec => []PendingIsWatched
<1>1. IInv => PendingIsWatched
  BY DEF IInv, Guarded, Minds, PendingIsWatched, Actors
<1>2. QED
  BY <1>1, Invariance, PTL

-----------------------------------------------------------------------------
(* The exceptions are exact: only a restart, or a cancel that raises,      *)
(* strands an account.                                                     *)
LEMMA NothingIsStranded ==
  ASSUME ~Restarts, ~CancelMayFail
  PROVE  Spec => [](stranded = {})
<1>1. Init => stranded = {}
  BY DEF Init
<1>2. stranded = {} /\ [Next]_vars => (stranded = {})'
  <2> SUFFICES ASSUME stranded = {}, [Next]_vars PROVE stranded' = {}
    OBVIOUS
  <2>1. CASE Restart
    BY <2>1 DEF Restart
  <2>2. ASSUME NEW t \in Attempts, AttemptStarts(t) PROVE stranded' = {}
    <3>1. \A s : MayRaise(s) = {FALSE}
      BY DEF MayRaise
    <3>. QED
      BY <2>2, <3>1 DEF AttemptStarts
  <2>3. CASE CommitPending
    BY <2>3 DEF CommitPending
  <2>. QED
    BY <2>1, <2>2, <2>3
    DEF Next, vars, Request, LoopStep, WaiterStep, Provider, BeginLogin,
        LoginRefused, CancelLogin, CommitUnset, Archive, ArchiveCancelled,
        RefreshStatus, Logout, LogoutDone, LogoutFails, WaitEnds, LostLoads,
        Close, ReadAccount, ReadFails, Apply, CommitFailed, UserCompletes,
        AttemptExpires
<1>. QED
  BY <1>1, <1>2, PTL DEF Spec

(* Without them, every account in use that shows a pending login has a     *)
(* waiter thread that is not done, and every login shown as active has one *)
(* or is about to get one: no card waits for nobody.                       *)
EveryLoginIsWatched ==
  \A a \in Accounts :
    /\ a \notin archived /\ status[a] = "login_pending" =>
         \E t \in Attempts : task[t].pc # "idle" /\ task[t].account = a
    /\ active[a] # NoAttempt =>
         \/ task[active[a]].pc # "idle"
         \/ task[Loop].pc = "pending" /\ task[Loop].account = a

THEOREM UndisturbedLoginsAreWatched ==
  ASSUME ~Restarts, ~CancelMayFail
  PROVE  Spec => []EveryLoginIsWatched
<1>1. IInv /\ stranded = {} => EveryLoginIsWatched
  BY DEF IInv, Guarded, Minds, ActiveIsWatched, EveryLoginIsWatched
<1>. QED
  BY <1>1, Invariance, NothingIsStranded, PTL

-----------------------------------------------------------------------------
(* The manager and the listeners together.                                 *)

(* One account's status is written.                                        *)
LEMMA OneIsWritten ==
  ASSUME TypeOK, NEW x \in Actors, NEW new \in Statuses, CommitStatus(x, new),
         UNCHANGED archived
  PROVE  /\ LoggedIn \ {task[x].account} = LoggedIn' \ {task[x].account}
         /\ new # "connected" => LoggedIn' \subseteq LoggedIn
<1> DEFINE a == task[x].account
<1>1. a \in Accounts /\ status \in [Accounts -> Statuses]
  BY DEF TypeOK
<1>2. \/ status' = status
      \/ status' = [status EXCEPT ![a] = new]
  BY <1>1 DEF CommitStatus
<1>3. \A b \in Accounts : b # a => status'[b] = status[b]
  BY <1>1, <1>2
<1>4. new # "connected" =>
        \A b \in Accounts : status'[b] = "connected" => status[b] = "connected"
  BY <1>1, <1>2
<1>. QED
  BY <1>3, <1>4 DEF LoggedIn

LEMMA OneIsCommitted ==
  ASSUME TypeOK, NEW x \in Actors, Commits(x)
  PROVE  \E a \in Accounts : LoggedIn \ {a} = LoggedIn' \ {a}
<1> DEFINE a == task[x].account
<1>1. a \in Accounts /\ Loop \in Actors /\ status \in [Accounts -> Statuses]
  BY DEF TypeOK, Actors
<1>2. CASE Apply(x)
  <2>1. UNCHANGED archived
    BY <1>2 DEF Apply
  <2>2. CASE status' = [status EXCEPT ![a] = "duplicate_account"]
    <3>1. \A b \in Accounts : b # a => status'[b] = status[b]
      BY <1>1, <2>2
    <3>. QED
      BY <1>1, <2>1, <3>1 DEF LoggedIn
  <2>3. ASSUME NEW new \in {"not_configured", "connected"}, CommitStatus(x, new)
        PROVE  LoggedIn \ {a} = LoggedIn' \ {a}
    BY <2>1, <2>3, OneIsWritten DEF Statuses
  <2>. QED
    BY <1>1, <1>2, <2>2, <2>3 DEF Apply
<1>3. CASE CommitFailed(x)
  BY <1>1, <1>3, OneIsWritten DEF CommitFailed, Statuses
<1>4. CASE LostLoads(x) \/ (x = Loop /\ LogoutFails)
  BY <1>1, <1>4 DEF LostLoads, LogoutFails, LoggedIn
<1>5. CASE x = Loop /\ (CommitUnset \/ LogoutDone)
  <2>1. CommitStatus(x, "not_configured") /\ UNCHANGED archived
    BY <1>5 DEF CommitUnset, LogoutDone
  <2>. QED
    BY <1>1, <2>1, OneIsWritten DEF Statuses
<1>6. CASE x = Loop /\ ArchiveCancelled
  BY <1>1, <1>6 DEF ArchiveCancelled, LoggedIn
<1>7. ASSUME NEW b \in Accounts, Archive(b), active[b] = NoAttempt
      PROVE  LoggedIn \ {b} = LoggedIn' \ {b}
  BY <1>7 DEF Archive, CancelActive, LoggedIn
<1>8. ASSUME NEW b \in Accounts, Logout(b)
      PROVE  LoggedIn \ {b} = LoggedIn' \ {b}
  BY <1>8 DEF Logout, LoggedIn
<1>. QED
  BY <1>2, <1>3, <1>4, <1>5, <1>6, <1>7, <1>8 DEF Commits

(* Every step of the manager is a commit, the start of a login, or leaves  *)
(* alone what reload reads.                                                 *)
LEMMA OthersWriteNothing ==
  ASSUME [Next]_vars
  PROVE  \/ \E x \in Actors : Commits(x)
         \/ LoginRefused \/ CommitPending
         \/ UNCHANGED <<status, archived>>
<1> USE DEF Actors
<1>1. ASSUME NEW a \in Accounts, Request(a)
      PROVE  Commits(Loop) \/ UNCHANGED <<status, archived>>
  BY <1>1 DEF Request, BeginLogin, CancelLogin, RefreshStatus, Logout, Archive,
              CancelActive, Commits
<1>2. CASE LoopStep
  BY <1>2 DEF LoopStep, Commits, AttemptStarts, ReadAccount, ReadFails
<1>3. ASSUME NEW t \in Attempts, WaiterStep(t) \/ Provider(t)
      PROVE  Commits(t) \/ UNCHANGED <<status, archived>>
  BY <1>3 DEF WaiterStep, Commits, WaitEnds, LostLoads, Close, ReadAccount, ReadFails,
              Provider, UserCompletes, AttemptExpires
<1>4. CASE Restart \/ UNCHANGED vars
  BY <1>4 DEF Restart, vars
<1>. QED
  BY <1>1, <1>2, <1>3, <1>4 DEF Next

(* What LiveListeners assumes of the rows is what the manager does to them: *)
(* one account at a time, followed by a reload or by nothing but a login    *)
(* that is under way.                                                       *)
THEOREM ManagerIsTheEnvironment == Spec => ReloadsCanFollow
<1> DEFINE A == /\ \E a \in Accounts : LoggedIn \ {a} = LoggedIn' \ {a}
                /\ LoggedIn' # LoggedIn =>
                     \/ \E x \in Actors : Commits(x)
                     \/ (LoginRefused \/ CommitPending) /\ LoggedIn' \subseteq LoggedIn
<1>1. TypeOK /\ [Next]_vars => A
  <2> SUFFICES ASSUME TypeOK, [Next]_vars PROVE A
    OBVIOUS
  <2>1. PICK a0 \in Accounts : TRUE
    BY NamesAssumption
  <2>2. ASSUME NEW x \in Actors, Commits(x) PROVE A
    BY <2>2, OneIsCommitted
  <2>3. ASSUME LoginRefused \/ CommitPending PROVE A
    <3>1. PICK new \in {"auth_failed", "login_pending"} :
            CommitStatus(Loop, new) /\ UNCHANGED archived
      BY <2>3 DEF LoginRefused, CommitPending
    <3>2. Loop \in Actors /\ new \in Statuses /\ new # "connected"
      BY DEF Actors, Statuses
    <3>3. task[Loop].account \in Accounts
      BY <3>2 DEF TypeOK
    <3>4. /\ LoggedIn \ {task[Loop].account} = LoggedIn' \ {task[Loop].account}
          /\ LoggedIn' \subseteq LoggedIn
      BY <3>1, <3>2, OneIsWritten
    <3>. QED
      BY <2>3, <3>3, <3>4
  <2>4. ASSUME UNCHANGED <<status, archived>> PROVE A
    BY <2>1, <2>4 DEF LoggedIn
  <2>. QED
    BY <2>2, <2>3, <2>4, OthersWriteNothing
<1>. QED
  BY <1>1, LoginTyped, PTL DEF Spec, ReloadsCanFollow

jointVars == <<vars, enabled, listenerVars>>

(* The manager takes no step it does not take by itself.                   *)
LEMMA CommitIsLogin == ASSUME NEW x \in Actors, Commits(x) PROVE Next
BY DEF Commits, Next, LoopStep, WaiterStep, Request, Actors

LEMMA GoesOnIsLogin == ASSUME NEW x \in Actors, GoesOn(x) PROVE Next
BY DEF GoesOn, LoopGoesOn, WaiterGoesOn, Next, LoopStep, WaiterStep, Request, Actors

LEMMA JointStepIsLogin == [JointNext]_jointVars => [Next]_vars
<1> SUFFICES ASSUME [JointNext]_jointVars PROVE [Next]_vars
  OBVIOUS
<1>1. ASSUME NEW x \in Actors, CommitAndReload(x) PROVE Next
  BY <1>1, CommitIsLogin DEF CommitAndReload
<1>2. CASE CommitStartOfLogin
  BY <1>2 DEF CommitStartOfLogin, Next, LoopStep
<1>3. ASSUME NEW a \in Accounts, SaveSchedule(a) PROVE UNCHANGED vars
  BY <1>3 DEF SaveSchedule
<1>4. CASE CodeIsEntered
  BY <1>4 DEF CodeIsEntered, Next
<1>5. CASE Listening
  BY <1>5 DEF Listening
<1>6. CASE RestartBoth
  BY <1>6 DEF RestartBoth, Next
<1>. QED
  BY <1>1, <1>2, <1>3, <1>4, <1>5, <1>6, GoesOnIsLogin DEF JointNext, jointVars

(* With its rows watched by the listeners the manager is that of           *)
(* DeviceLogin.                                                             *)
THEOREM JointIsLogin == JointSpec => Spec
<1>1. JointInit => Init
  BY DEF JointInit
<1>. QED
  BY <1>1, JointStepIsLogin, PTL DEF JointSpec, Spec, jointVars

(* The listeners take no step they do not take by themselves.              *)
LEMMA ConnectedStays ==
  ASSUME UNCHANGED <<status, archived, enabled>>
  PROVE  Connected' = Connected
BY DEF Connected

LEMMA ReloadIsListeners ==
  ASSUME NEW x \in Actors, ReloadsNext(x) PROVE L!Next
BY DEF ReloadsNext, L!Next

LEMMA GoesOnStutters == ASSUME NEW x \in Actors, GoesOn(x) PROVE UNCHANGED L!vars
<1>1. UNCHANGED <<status, archived, enabled, listenerVars>>
  BY DEF GoesOn, LoopGoesOn, WaiterGoesOn, BeginLogin, CancelLogin, RefreshStatus, Logout,
         Archive, CancelActive, AttemptStarts, WaitEnds, Close, LostLoads, ReadAccount, ReadFails
<1>. QED
  BY <1>1, ConnectedStays DEF L!vars, listenerVars

LEMMA JointStepIsListeners == [JointNext]_jointVars => [L!Next]_(L!vars)
<1> SUFFICES ASSUME [JointNext]_jointVars PROVE [L!Next]_(L!vars)
  OBVIOUS
<1>1. ASSUME NEW x \in Actors, CommitAndReload(x) PROVE L!Next
  BY <1>1, ReloadIsListeners DEF CommitAndReload
<1>2. CASE CommitStartOfLogin
  BY <1>2 DEF CommitStartOfLogin, L!Next, L!vars, listenerVars
<1>3. ASSUME NEW a \in Accounts, SaveSchedule(a) PROVE L!Next
  BY <1>3, ReloadIsListeners DEF SaveSchedule, Actors
<1>4. CASE CodeIsEntered
  <2>1. UNCHANGED <<status, archived, enabled, listenerVars>>
    BY <1>4 DEF CodeIsEntered, Provider, UserCompletes, AttemptExpires
  <2>. QED
    BY <2>1, ConnectedStays DEF L!vars, listenerVars
<1>5. CASE Listening
  BY <1>5 DEF Listening, L!Next
<1>6. CASE RestartBoth
  BY <1>6 DEF RestartBoth, L!Next
<1>7. CASE UNCHANGED jointVars
  BY <1>7, ConnectedStays DEF jointVars, vars, L!vars, listenerVars
<1>. QED
  BY <1>1, <1>2, <1>3, <1>4, <1>5, <1>6, <1>7, GoesOnStutters DEF JointNext

(* And with logins for their environment the listeners are those of         *)
(* LiveListeners, the waiters being its other threads.                      *)
THEOREM JointIsListeners == JointSpec => L!Spec
<1>1. JointInit => L!Init
  BY DEF JointInit
<1>. QED
  BY <1>1, JointStepIsListeners, PTL DEF JointSpec, L!Spec, jointVars

LEMMA NoTaskIsIdle == NoTask.pc = "idle"
BY DEF NoTask, TaskAt

(* Nobody is served, and no waiter is left, while main.py starts: so the   *)
(* reload that follows a commit is always one that LiveListeners allows.    *)
LEMMA ServedWhenWorking ==
  NobodyWorksAtStart /\ [JointNext]_jointVars => NobodyWorksAtStart'
<1> SUFFICES ASSUME NobodyWorksAtStart, [JointNext]_jointVars, app' = "starting",
                    NEW y \in Actors
             PROVE  task'[y].pc = "idle"
  BY DEF NobodyWorksAtStart
<1>1. CASE RestartBoth
  BY <1>1, NoTaskIsIdle DEF RestartBoth, Restart
<1>2. ASSUME UNCHANGED <<app, task>> PROVE task'[y].pc = "idle"
  BY <1>2 DEF NobodyWorksAtStart
<1>3. ASSUME NEW x \in Actors, CommitAndReload(x) PROVE FALSE
  <2>1. app = "starting" /\ x # Loop
    BY <1>3 DEF CommitAndReload, ReloadsNext, L!Change, Free
  <2>2. task[x].pc = "idle"
    BY <2>1 DEF NobodyWorksAtStart
  <2>. QED
    BY <1>3, <2>1, <2>2 DEF CommitAndReload, Commits, Apply, CommitFailed, LostLoads
<1>4. ASSUME NEW x \in Actors, GoesOn(x) PROVE FALSE
  <2>1. app = "starting" /\ x # Loop
    BY <1>4 DEF GoesOn, Free, listenerVars
  <2>2. task[x].pc = "idle"
    BY <2>1 DEF NobodyWorksAtStart
  <2>. QED
    BY <1>4, <2>1, <2>2
       DEF GoesOn, WaiterGoesOn, WaitEnds, Close, LostLoads, ReadAccount, ReadFails
<1>5. CASE CommitStartOfLogin
  BY <1>5 DEF CommitStartOfLogin, Free, L!StartLogin, listenerVars
<1>6. ASSUME NEW a \in Accounts, SaveSchedule(a) PROVE FALSE
  BY <1>6 DEF SaveSchedule, Free, ReloadsNext, L!Change
<1>7. CASE CodeIsEntered
  BY <1>2, <1>7 DEF CodeIsEntered, Provider, UserCompletes, AttemptExpires, listenerVars
<1>8. CASE Listening
  <2>1. UNCHANGED task
    BY <1>8 DEF Listening, vars
  <2>2. app = "starting"
    BY <1>8 DEF Listening, L!Reload, L!LoadAccounts, L!CloseOthers, L!HasListener,
                L!SpawnFails, L!StartClient, L!StartFails, L!Register, L!EndReload,
                L!Dies, L!Shutdown
  <2>. QED
    BY <2>1, <2>2 DEF NobodyWorksAtStart
<1>9. CASE UNCHANGED jointVars
  BY <1>2, <1>9 DEF jointVars, vars, listenerVars
<1>. QED
  BY <1>1, <1>3, <1>4, <1>5, <1>6, <1>7, <1>8, <1>9 DEF JointNext

THEOREM NobodyIsRefusedAReload == JointSpec => []NobodyWorksAtStart
<1>1. JointInit => NobodyWorksAtStart
  BY NoTaskIsIdle DEF JointInit, Init, NobodyWorksAtStart
<1>. QED
  BY <1>1, ServedWhenWorking, PTL DEF JointSpec, jointVars

(* The theorems of LiveListenersProofs, for waiters as threads.            *)
LP == INSTANCE LiveListenersProofs WITH
        Threads <- Actors, connected <- Connected, task <- reload

LEMMA SameInit == L!Init => LP!Init
BY DEF L!Init, LP!Init, L!Closed, LP!Closed

LEMMA SameStep == [L!Next]_(L!vars) => [LP!Next]_(LP!vars)
BY DEF L!vars, LP!vars, L!Next, LP!Next, L!Change, LP!Change, L!StartLogin,
       LP!StartLogin, L!Reload, LP!Reload, L!LoadAccounts, LP!LoadAccounts,
       L!CloseOthers, LP!CloseOthers, L!HasListener, LP!HasListener, L!SpawnFails,
       LP!SpawnFails, L!StartClient, LP!StartClient, L!StartFails, LP!StartFails,
       L!Register, LP!Register, L!EndReload, LP!EndReload, L!Shutdown, LP!Shutdown,
       L!Restart, LP!Restart, L!Dies, LP!Dies, L!Go, LP!Go, L!CloseClients,
       LP!CloseClients, L!Closed, LP!Closed

LEMMA SameSpec == L!Spec => LP!Spec
BY SameInit, SameStep, PTL DEF L!Spec, LP!Spec

LEMMA SameProperties == /\ LP!TypeOK => Connected \subseteq Accounts
                        /\ LP!ReloadRepairs => L!ReloadRepairs
                        /\ LP!RegisteredIsOpen => L!RegisteredIsOpen
BY DEF LP!TypeOK, LP!ReloadRepairs, L!ReloadRepairs, LP!ConnectedHasListener,
       L!ConnectedHasListener, LP!ListenerIsConnected, L!ListenerIsConnected,
       LP!AtRest, L!AtRest, LP!RegisteredIsOpen, L!RegisteredIsOpen, LP!Open, L!Open

(* The cards and the listeners agree: what LiveListeners says of the        *)
(* accounts reload wants is true of the rows that logins, logouts, checks,  *)
(* archives and settings write, with any number of waiters.                 *)
THEOREM RowsHaveListeners ==
  ASSUME NoClient \notin Clients
  PROVE  JointSpec => []ListenersFollowRows
<1>1. LP!NamesAssumption
  BY NamesAssumption DEF LP!NamesAssumption, Actors
<1>2. LP!Spec => []LP!TypeOK
  BY <1>1, LP!ListenersTyped
<1>3. LP!Spec => []LP!ReloadRepairs
  BY <1>1, LP!UndisturbedReloadRepairs
<1>4. LP!Spec => []LP!RegisteredIsOpen
  BY <1>1, LP!RegisteredClientsAreOpen
<1>5. Connected \subseteq Accounts /\ L!ReloadRepairs /\ L!RegisteredIsOpen
        => ListenersFollowRows
  BY DEF L!ReloadRepairs, L!ConnectedHasListener, L!ListenerIsConnected,
         L!RegisteredIsOpen, ListenersFollowRows
<1>. QED
  BY <1>2, <1>3, <1>4, <1>5, JointIsListeners, SameSpec, SameProperties, PTL

(* What is proved of the manager alone holds beside the listeners.         *)
THEOREM LoginsBesideListeners ==
  JointSpec => [](OneLiveCode /\ ActiveIsWatched /\ PendingIsWatched) /\ ReloadsCanFollow
<1>1. Spec => [](OneLiveCode /\ ActiveIsWatched /\ PendingIsWatched)
  BY DeadCodesStayDead, ActiveLoginsAreWatched, PendingLoginsAreWatched, PTL
<1>. QED
  BY <1>1, JointIsLogin, ManagerIsTheEnvironment
=============================================================================
