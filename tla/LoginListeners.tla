--------------------------- MODULE LoginListeners ---------------------------
(***************************************************************************)
(* CodexAuthManager and RateLimitUpdateListener in one process: the rows    *)
(* that DeviceLogin writes are those that LiveListeners reads, the threads  *)
(* that reload are the event loop and the waiters of the logins, and main.py *)
(* makes reload the manager's status callback.  A thread that commits a     *)
(* change reloads before it does anything else.                             *)
(***************************************************************************)
EXTENDS DeviceLogin

CONSTANTS Clients, NoClient

VARIABLES
  enabled,                                     \* Account.enabled
  clients, child, reload, failed, quiet, app   \* those of LiveListeners

listenerVars == <<clients, child, reload, failed, quiet, app>>

(* The accounts that reload wants.                                         *)
Connected == {a \in enabled \ archived : status[a] = "connected"}

L == INSTANCE LiveListeners WITH
       Threads <- Actors, connected <- Connected, task <- reload

JointInit == Init /\ enabled \in SUBSET Accounts /\ L!Init

-----------------------------------------------------------------------------
(* A thread in reload does nothing else, and handlers run while the        *)
(* application serves.                                                     *)
Free(x) == reload[x].pc = "idle" /\ (x = Loop => app = "serving")

ReloadsNext(x) == L!Change(x, {}) \/ \E a \in Accounts : L!Change(x, {a})

(* What is followed by a reload: the manager's commits, through its        *)
(* callback or by the handler, a waiter that failed for an account archived *)
(* meanwhile, a logout or its cancel that failed, and the archive handler.  *)
Commits(x) ==
  \/ Apply(x) \/ CommitFailed(x)
  \/ x # Loop /\ LostLoads(x) /\ task[x].account \in archived
  \/ /\ x = Loop
     /\ \/ CommitUnset \/ ArchiveCancelled \/ LogoutDone \/ LogoutFails
        \/ \E a \in Accounts : \/ Archive(a) /\ active[a] = NoAttempt
                               \/ Logout(a) /\ UNCHANGED task

CommitAndReload(x) ==
  /\ Free(x) /\ Commits(x)
  /\ UNCHANGED enabled
  /\ ReloadsNext(x)

(* The start of a login is not: an account that was connected leaves its   *)
(* listener to the next reload.                                            *)
CommitStartOfLogin ==
  /\ Free(Loop) /\ (LoginRefused \/ CommitPending)
  /\ UNCHANGED enabled
  /\ \/ UNCHANGED <<Connected, listenerVars>>
     \/ \E a \in Accounts : L!StartLogin(a)

(* save_schedule enables or disables an account, or leaves it as it is; so  *)
(* does, then, the second reload of a check or a logout: the callback's is  *)
(* followed by the handler's.                                               *)
SaveSchedule(a) ==
  /\ Free(Loop) /\ LoopIdle /\ a \notin archived
  /\ enabled' \in {enabled \cup {a}, enabled \ {a}}
  /\ UNCHANGED vars
  /\ ReloadsNext(Loop)

(* The other steps of handlers and waiters do not touch what reload reads. *)
LoopGoesOn ==
  \/ \E a \in Accounts :
       \/ BeginLogin(a) \/ CancelLogin(a) \/ RefreshStatus(a)
       \/ Logout(a) /\ task'[Loop].pc = "logout"
       \/ Archive(a) /\ active[a] # NoAttempt
  \/ \E t \in Attempts : AttemptStarts(t)

WaiterGoesOn(t) ==
  WaitEnds(t) \/ Close(t) \/ (LostLoads(t) /\ task[t].account \notin archived)

GoesOn(x) ==
  /\ Free(x)
  /\ \/ x = Loop /\ LoopGoesOn
     \/ x # Loop /\ WaiterGoesOn(x)
     \/ ReadAccount(x) \/ ReadFails(x)
  /\ UNCHANGED <<enabled, listenerVars>>

CodeIsEntered == \E t \in Attempts : Provider(t) /\ UNCHANGED <<enabled, listenerVars>>

(* Steps of reload, ends of listeners' children, and the end of lifespan,  *)
(* which waits for the handler under way.                                  *)
Listening ==
  /\ UNCHANGED <<vars, enabled>>
  /\ \/ \E x \in Actors : L!Reload(x)
     \/ \E c \in Clients : L!Dies(c)
     \/ LoopIdle /\ L!Shutdown

RestartBoth == UNCHANGED enabled /\ Restart /\ L!Restart

JointNext ==
  \/ \E x \in Actors : CommitAndReload(x) \/ GoesOn(x)
  \/ CommitStartOfLogin
  \/ \E a \in Accounts : SaveSchedule(a)
  \/ CodeIsEntered \/ Listening \/ RestartBoth

JointSpec == JointInit /\ [][JointNext]_<<vars, enabled, listenerVars>>

-----------------------------------------------------------------------------
(* Properties.                                                             *)

(* What LiveListeners takes for granted of those who write the rows: a     *)
(* step changes one account, somebody reloads next unless it is the start   *)
(* of a login, and that only takes an account out of the connected ones.    *)
LoggedIn == {a \in Accounts \ archived : status[a] = "connected"}

ReloadsCanFollow ==
  [][ /\ \E a \in Accounts : LoggedIn \ {a} = LoggedIn' \ {a}
      /\ LoggedIn' # LoggedIn =>
           \/ \E x \in Actors : Commits(x)
           \/ (LoginRefused \/ CommitPending) /\ LoggedIn' \subseteq LoggedIn ]_vars

(* While main.py starts, whose reload nobody is served in, no handler and  *)
(* no waiter is at work.                                                   *)
NobodyWorksAtStart ==
  app = "starting" => \A x \in Actors : task[x].pc = "idle"

(* Logins, logouts, checks and archives of any number of threads come and   *)
(* go: once no reload is under way, and the last one ran by itself, the     *)
(* accounts whose cards say connected, and no others, have a listener that  *)
(* is open, those whose start failed excepted.                              *)
ListenersFollowRows ==
  quiet /\ L!AtRest =>
    /\ \A a \in Connected \ failed : clients[a] # NoClient /\ L!Open(clients[a])
    /\ \A a \in Accounts \ Connected : clients[a] = NoClient
=============================================================================
