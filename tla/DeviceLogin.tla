---------------------------- MODULE DeviceLogin ----------------------------
(***************************************************************************)
(* services/codex_auth.py: CodexAuthManager, with the device-login, status  *)
(* and logout handlers of routes/dashboard.py.                              *)
(*                                                                          *)
(* The event loop runs one handler at a time; every started login has a     *)
(* waiter thread of its own (_wait_for_login), identified here by its       *)
(* attempt.  Both work on the account row through a database session: what  *)
(* they loaded is kept in their task, and a commit writes only the columns  *)
(* whose value differs from the loaded one.  Calls to the Codex child (start *)
(* a login, read the account, log out) take long, so other threads run      *)
(* between a load and its commit.                                           *)
(***************************************************************************)
EXTENDS Integers, FiniteSets

CONSTANTS
  Accounts,
  Attempts,       \* slots for login attempts; a closed one is used again
  Identities,     \* the Codex account identities people log in with
  NoIdentity,     \* nobody is logged in
  NoAttempt,
  Loop,           \* the event loop
  CancelMayFail,  \* may attempt.cancel() raise?
  Restarts        \* may the process be killed and started again?

ASSUME NamesAssumption ==
  /\ Accounts # {}
  /\ NoIdentity \notin Identities /\ NoAttempt \notin Attempts
  /\ Loop \notin Attempts
  /\ CancelMayFail \in BOOLEAN /\ Restarts \in BOOLEAN

VARIABLES
  status,    \* Account.auth_status
  external,  \* Account.account_external_id
  archived,  \* accounts with archived_at
  home,      \* whose credentials are in the account's CODEX_HOME
  active,    \* _active_logins: the attempt of each account
  attempt,   \* the login attempts: their account and how they ended
  task,      \* what the event loop and the waiters are doing
  stranded   \* history: accounts whose last login has lost its waiter to a
             \* restart or to a cancel that raised

vars == <<status, external, archived, home, active, attempt, task, stranded>>

-----------------------------------------------------------------------------
Statuses == {"not_configured", "login_pending", "connected", "auth_failed",
             "duplicate_account"}
People   == Identities \cup {NoIdentity}
Actors   == Attempts \cup {Loop}

(* An attempt is "open" while its code can be entered, and "uncancelled"    *)
(* when it still can because the call that should have cancelled it raised. *)
Live     == {"open", "uncancelled"}
Outcomes == {"closed", "complete", "failed"} \cup Live

(* A task: where it is, the account, the columns of the row it loaded, and *)
(* what the Codex child told it.                                           *)
TaskPCs == {"idle", "starting", "pending", "unset", "unset_archive", "archive",
            "logout", "waiting", "lost", "read", "apply", "fail", "close"}
Columns == [status : Statuses, external : People]

TypeOK ==
  /\ status \in [Accounts -> Statuses]
  /\ external \in [Accounts -> People]
  /\ archived \subseteq Accounts
  /\ home \in [Accounts -> People]
  /\ active \in [Accounts -> Attempts \cup {NoAttempt}]
  /\ attempt \in [Attempts -> [account : Accounts, outcome : Outcomes]]
  /\ task \in [Actors -> [pc : TaskPCs, account : Accounts, seen : Columns,
                          info : People]]
  /\ stranded \subseteq Accounts

Unloaded == [status |-> "not_configured", external |-> NoIdentity]
TaskAt(pc, a) == [pc |-> pc, account |-> a, seen |-> Unloaded,
                  info |-> NoIdentity]
AnyAccount == CHOOSE a \in Accounts : TRUE
NoTask     == TaskAt("idle", AnyAccount)
NoLogin    == [account |-> AnyAccount, outcome |-> "closed"]

Init ==
  /\ status = [a \in Accounts |-> "not_configured"]
  /\ external = [a \in Accounts |-> NoIdentity]
  /\ archived = {}
  /\ home = [a \in Accounts |-> NoIdentity]
  /\ active = [a \in Accounts |-> NoAttempt]
  /\ attempt = [t \in Attempts |-> NoLogin]
  /\ task = [x \in Actors |-> NoTask]
  /\ stranded = {}

-----------------------------------------------------------------------------
(* Sessions.                                                               *)

Row(a) == [status |-> status[a], external |-> external[a]]

(* _active_account: the row is loaded, and the task goes on at pc.         *)
Load(x, a, pc) ==
  task' = [task EXCEPT ![x] = [pc |-> pc, account |-> a, seen |-> Row(a),
                               info |-> NoIdentity]]

GoOn(x, pc, info) ==
  task' = [task EXCEPT ![x] = [pc |-> pc, account |-> task[x].account,
                               seen |-> task[x].seen, info |-> info]]

(* A commit: a column assigned the value it was loaded with is not written. *)
CommitStatus(x, new) ==
  status' = [status EXCEPT ![task[x].account] =
               IF new = task[x].seen.status THEN @ ELSE new]
CommitExternal(x, new) ==
  external' = [external EXCEPT ![task[x].account] =
                 IF new = task[x].seen.external THEN @ ELSE new]

(* Another account that is not archived has this identity.                 *)
Taken(a, who) ==
  \E b \in Accounts \ (archived \cup {a}) : external[b] = who

(* The task of x is over: a waiter still has its attempt to close.         *)
Leave(x) ==
  task' = [task EXCEPT ![x] = IF x = Loop THEN NoTask
                                ELSE TaskAt("close", task[x].account)]

Ended(t, outcome) == [account |-> attempt[t].account, outcome |-> outcome]

(* attempt.cancel(): the child is told to stop and closed, and its waiter's *)
(* wait ends.  When telling it raises, it is not closed: the code can still *)
(* be entered, and the waiter waits on.                                    *)
Cancelled(t, raises) ==
  IF attempt[t].outcome = "open"
    THEN Ended(t, IF raises THEN "uncancelled" ELSE "failed")
    ELSE attempt[t]

MayRaise(t) == IF CancelMayFail /\ t # NoAttempt THEN BOOLEAN ELSE {FALSE}

LoopIdle == task[Loop].pc = "idle"

-----------------------------------------------------------------------------
(* Handlers of the event loop.                                             *)

(* start_device_login: the row is loaded, the child is asked for a code.   *)
BeginLogin(a) ==
  /\ LoopIdle /\ a \notin archived
  /\ Load(Loop, a, "starting")
  /\ UNCHANGED <<status, external, archived, home, active, attempt, stranded>>

LoginRefused ==
  /\ task[Loop].pc = "starting"
  /\ CommitStatus(Loop, "auth_failed")
  /\ Leave(Loop)
  /\ UNCHANGED <<external, archived, home, active, attempt, stranded>>

(* Mutant: the attempt replaced is left open.                              *)
AttemptStartsUncancelled(t) ==
  LET a == task[Loop].account
  IN /\ task[Loop].pc = "starting"
     /\ task[t].pc = "idle" /\ attempt[t].outcome = "closed"
     /\ active' = [active EXCEPT ![a] = t]
     /\ attempt' = [attempt EXCEPT ![t] = [account |-> a, outcome |-> "open"]]
     /\ GoOn(Loop, "pending", NoIdentity)
     /\ UNCHANGED <<status, external, archived, home, stranded>>

(* The child answers with a code: the attempt becomes the active one and   *)
(* the one it replaces is cancelled.                                       *)
AttemptStarts(t) ==
  LET a == task[Loop].account
      previous == active[a]
  IN /\ task[Loop].pc = "starting"
     /\ task[t].pc = "idle" /\ attempt[t].outcome = "closed"
     /\ active' = [active EXCEPT ![a] = t]
     /\ \E raises \in MayRaise(previous) :
          /\ attempt' =
               [s \in Attempts |->
                  CASE s = t        -> [account |-> a, outcome |-> "open"]
                    [] s = previous -> Cancelled(s, raises)
                    [] OTHER        -> attempt[s]]
          /\ IF raises THEN Leave(Loop) /\ stranded' = stranded \cup {a}
                       ELSE GoOn(Loop, "pending", NoIdentity) /\ UNCHANGED stranded
     /\ UNCHANGED <<status, external, archived, home>>

(* The status is committed, then the waiter thread starts.                 *)
CommitPending ==
  LET a == task[Loop].account
  IN /\ task[Loop].pc = "pending"
     /\ CommitStatus(Loop, "login_pending")
     /\ task' = [task EXCEPT ![Loop] = NoTask,
                             ![active[a]] = TaskAt("waiting", a)]
     /\ stranded' = stranded \ {a}
     /\ UNCHANGED <<external, archived, home, active, attempt>>

(* The active login is popped and cancelled; the row is loaded after.  When *)
(* cancel() raises the request ends here, with the login forgotten.        *)
CancelActive(a, pc) ==
  /\ active[a] # NoAttempt
  /\ active' = [active EXCEPT ![a] = NoAttempt]
  /\ \E raises \in MayRaise(active[a]) :
       /\ attempt' = [attempt EXCEPT ![active[a]] = Cancelled(active[a], raises)]
       /\ IF raises THEN UNCHANGED task ELSE Load(Loop, a, pc)

(* cancel_device_login: nothing happens when no login is active.           *)
CancelLogin(a) ==
  /\ LoopIdle /\ a \notin archived
  /\ CancelActive(a, "unset")
  /\ UNCHANGED <<status, external, archived, home, stranded>>

CommitUnset ==
  /\ task[Loop].pc \in {"unset", "unset_archive"}
  /\ CommitStatus(Loop, "not_configured")
  /\ IF task[Loop].pc = "unset" THEN Leave(Loop)
                                ELSE GoOn(Loop, "archive", NoIdentity)
  /\ UNCHANGED <<external, archived, home, active, attempt, stranded>>

(* The archive handler cancels the login, if there is one, and archives.   *)
Archive(a) ==
  /\ LoopIdle /\ a \notin archived
  /\ \/ /\ CancelActive(a, "unset_archive")
        /\ UNCHANGED archived
     \/ /\ active[a] = NoAttempt
        /\ archived' = archived \cup {a}
        /\ UNCHANGED <<active, attempt, task>>
  /\ UNCHANGED <<status, external, home, stranded>>

ArchiveCancelled ==
  /\ task[Loop].pc = "archive"
  /\ archived' = archived \cup {task[Loop].account}
  /\ Leave(Loop)
  /\ UNCHANGED <<status, external, home, active, attempt, stranded>>

(* refresh_status.                                                         *)
RefreshStatus(a) ==
  /\ LoopIdle /\ a \notin archived
  /\ Load(Loop, a, "read")
  /\ UNCHANGED <<status, external, archived, home, active, attempt, stranded>>

(* logout: the active login is cancelled first.                            *)
Logout(a) ==
  /\ LoopIdle /\ a \notin archived
  /\ \/ CancelActive(a, "logout")
     \/ /\ active[a] = NoAttempt
        /\ Load(Loop, a, "logout")
        /\ UNCHANGED <<active, attempt>>
  /\ UNCHANGED <<status, external, archived, home, stranded>>

(* Mutant: the status column is emptied like the others.                   *)
LogoutDoneEmpty ==
  /\ task[Loop].pc = "logout"
  /\ home' = [home EXCEPT ![task[Loop].account] = NoIdentity]
  /\ CommitStatus(Loop, NoIdentity)
  /\ CommitExternal(Loop, NoIdentity)
  /\ Leave(Loop)
  /\ UNCHANGED <<archived, active, attempt, stranded>>

(* The child removes the credentials; the row is committed after.          *)
LogoutDone ==
  /\ task[Loop].pc = "logout"
  /\ home' = [home EXCEPT ![task[Loop].account] = NoIdentity]
  /\ CommitStatus(Loop, "not_configured")
  /\ CommitExternal(Loop, NoIdentity)
  /\ Leave(Loop)
  /\ UNCHANGED <<archived, active, attempt, stranded>>

LogoutFails ==
  /\ task[Loop].pc = "logout"
  /\ Leave(Loop)
  /\ UNCHANGED <<status, external, archived, home, active, attempt, stranded>>

-----------------------------------------------------------------------------
(* _wait_for_login.                                                        *)

(* Mutant: a login that failed is not written.                             *)
WaitEndsSilently(t) ==
  LET a == attempt[t].account
  IN /\ task[t].pc = "waiting" /\ attempt[t].outcome \in {"complete", "failed"}
     /\ IF a \in archived \/ attempt[t].outcome = "failed"
          THEN Leave(t)
          ELSE Load(t, a, "read")
     /\ UNCHANGED <<status, external, archived, home, active, attempt, stranded>>

(* wait() returns or raises; then the row is loaded, unless it is archived. *)
WaitEnds(t) ==
  LET a == attempt[t].account
  IN /\ task[t].pc = "waiting" /\ attempt[t].outcome \in {"complete", "failed"}
     /\ IF a \in archived
          THEN Leave(t)
          ELSE Load(t, a, IF attempt[t].outcome = "complete" THEN "read"
                                                             ELSE "fail")
     /\ UNCHANGED <<status, external, archived, home, active, attempt, stranded>>

(* Mutant: the account is read again until the child answers.              *)
LostRetries(t) ==
  /\ task[t].pc = "lost"
  /\ IF task[t].account \in archived THEN Leave(t)
                                     ELSE Load(t, task[t].account, "read")
  /\ UNCHANGED <<status, external, archived, home, active, attempt, stranded>>

(* The exception handler loads the row again, in _update_status.           *)
LostLoads(t) ==
  /\ task[t].pc = "lost"
  /\ IF task[t].account \in archived THEN Leave(t)
                                     ELSE Load(t, task[t].account, "fail")
  /\ UNCHANGED <<status, external, archived, home, active, attempt, stranded>>

(* Mutant: the finally block only closes the attempt.                      *)
CloseKeepsActive(t) ==
  /\ task[t].pc = "close"
  /\ attempt' = [attempt EXCEPT ![t] = NoLogin]
  /\ task' = [task EXCEPT ![t] = NoTask]
  /\ UNCHANGED <<status, external, archived, home, active, stranded>>

(* The finally block: the attempt is closed, and forgotten if still active. *)
Close(t) ==
  /\ task[t].pc = "close"
  /\ active' = [active EXCEPT ![attempt[t].account] =
                  IF @ = t THEN NoAttempt ELSE @]
  /\ attempt' = [attempt EXCEPT ![t] = NoLogin]
  /\ task' = [task EXCEPT ![t] = NoTask]
  /\ UNCHANGED <<status, external, archived, home, stranded>>

-----------------------------------------------------------------------------
(* Reading the account from the child and applying what it says, by a      *)
(* waiter or by refresh_status.                                            *)

ReadAccount(x) ==
  /\ task[x].pc = "read"
  /\ GoOn(x, "apply", home[task[x].account])
  /\ UNCHANGED <<status, external, archived, home, active, attempt, stranded>>

ReadFails(x) ==
  /\ task[x].pc = "read"
  /\ GoOn(x, IF x = Loop THEN "fail" ELSE "lost", NoIdentity)
  /\ UNCHANGED <<status, external, archived, home, active, attempt, stranded>>

(* _apply_account_info and the commit.  The query for a duplicate flushes   *)
(* the assignments first, so it runs inside the write transaction.         *)
Apply(x) ==
  LET a == task[x].account
      who == task[x].info
  IN /\ task[x].pc = "apply"
     /\ CommitExternal(x, who)
     /\ IF who # NoIdentity /\ Taken(a, who)
          THEN status' = [status EXCEPT ![a] = "duplicate_account"]
          ELSE CommitStatus(x, IF who = NoIdentity THEN "not_configured"
                                                   ELSE "connected")
     /\ Leave(x)
     /\ UNCHANGED <<archived, home, active, attempt, stranded>>

CommitFailed(x) ==
  /\ task[x].pc = "fail"
  /\ CommitStatus(x, "auth_failed")
  /\ Leave(x)
  /\ UNCHANGED <<external, archived, home, active, attempt, stranded>>

-----------------------------------------------------------------------------
(* The provider, the user's browser and the operating system.              *)

(* Somebody enters the code: the child stores the credentials.             *)
UserCompletes(t, who) ==
  /\ attempt[t].outcome \in Live
  /\ attempt' = [attempt EXCEPT ![t] = Ended(t, "complete")]
  /\ home' = [home EXCEPT ![attempt[t].account] = who]
  /\ UNCHANGED <<status, external, archived, active, task, stranded>>

(* The code expires, is refused, or the child dies.                        *)
AttemptExpires(t) ==
  /\ attempt[t].outcome \in Live
  /\ attempt' = [attempt EXCEPT ![t] = Ended(t, "failed")]
  /\ UNCHANGED <<status, external, archived, home, active, task, stranded>>

(* The process is killed and starts again: only the row and the           *)
(* credentials remain.                                                     *)
Restart ==
  /\ Restarts
  /\ active' = [a \in Accounts |-> NoAttempt]
  /\ attempt' = [t \in Attempts |-> NoLogin]
  /\ task' = [x \in Actors |-> NoTask]
  /\ stranded' = Accounts
  /\ UNCHANGED <<status, external, archived, home>>

-----------------------------------------------------------------------------
Request(a) == BeginLogin(a) \/ CancelLogin(a) \/ Archive(a)
                \/ RefreshStatus(a) \/ Logout(a)

LoopStep ==
  \/ LoginRefused \/ \E t \in Attempts : AttemptStarts(t)
  \/ CommitPending \/ CommitUnset \/ ArchiveCancelled
  \/ LogoutDone \/ LogoutFails
  \/ ReadAccount(Loop) \/ ReadFails(Loop) \/ Apply(Loop) \/ CommitFailed(Loop)

WaiterStep(t) ==
  \/ WaitEnds(t) \/ LostLoads(t) \/ Close(t)
  \/ ReadAccount(t) \/ ReadFails(t) \/ Apply(t) \/ CommitFailed(t)

Provider(t) ==
  AttemptExpires(t) \/ \E who \in Identities : UserCompletes(t, who)

Next ==
  \/ \E a \in Accounts : Request(a)
  \/ LoopStep
  \/ \E t \in Attempts : WaiterStep(t) \/ Provider(t)
  \/ Restart

Spec == Init /\ [][Next]_vars

(* A handler and a waiter go on, and a code is entered or expires.         *)
FairSpec ==
  /\ Spec
  /\ WF_vars(LoopStep)
  /\ \A t \in Attempts : WF_vars(WaiterStep(t)) /\ WF_vars(Provider(t))

-----------------------------------------------------------------------------
(* Properties.                                                             *)

(* A login shown as active has somebody waiting for it: its waiter, which  *)
(* has not yet forgotten it, or the handler that is about to start one;    *)
(* unless starting it raised when the one before was cancelled.            *)
ActiveIsWatched ==
  \A a \in Accounts : active[a] # NoAttempt =>
    /\ attempt[active[a]].account = a
    /\ attempt[active[a]].outcome # "closed"
    /\ \/ task[active[a]].pc # "idle"
       \/ task[Loop].pc = "pending" /\ task[Loop].account = a
       \/ a \in stranded

(* The only code a person can still enter for an account is the one on its *)
(* card: a login that was replaced, cancelled or logged out is dead, unless *)
(* the very call that should have cancelled it raised ("uncancelled").      *)
OneLiveCode ==
  \A t \in Attempts :
    attempt[t].outcome = "open" => active[attempt[t].account] = t

(* docs/usage.md:40 "Wait for the account card to update automatically": an *)
(* account in use that shows a pending login has a handler or a waiter at  *)
(* work on it, which will write what became of it, also when the login was  *)
(* replaced or forgotten with its cancel() raising; a restart, or a cancel  *)
(* that raised before the new login's waiter was started, may lose a waiter, *)
(* and the next login makes up for it.                                     *)
PendingIsWatched ==
  \A a \in Accounts \ (archived \cup stranded) : status[a] = "login_pending" =>
    \E x \in Actors : task[x].pc # "idle" /\ task[x].account = a

(* And the pending login of an account in use ends, however often it is    *)
(* replaced, cancelled and checked on the way, unless its waiter is lost.  *)
LoginEnds ==
  \A a \in Accounts :
    a \notin archived \cup stranded /\ status[a] = "login_pending"
      ~> a \in archived \cup stranded \/ status[a] # "login_pending"

-----------------------------------------------------------------------------
(* What a test says and the code does not do.                              *)

(* tests/unit/test_codex_auth.py:180 "assert account.auth_status ==        *)
(* 'not_configured'" after a logout: once the credentials are gone and no  *)
(* handler or login is under way, no account is connected.                 *)
Quiet == \A x \in Actors : task[x].pc = "idle"
LoggedOutIsNotConnected ==
  \A a \in Accounts : Quiet /\ home[a] = NoIdentity => status[a] # "connected"
=============================================================================
