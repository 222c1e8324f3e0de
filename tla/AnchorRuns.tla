----------------------------- MODULE AnchorRuns -----------------------------
(***************************************************************************)
(* services/anchors.py: AnchorService.run_manual_anchor, called by the      *)
(* "Anchor now" handler of routes/dashboard.py on worker threads and by     *)
(* services/smart_anchors.py on the scheduler's pool, with the telemetry    *)
(* refresh before and after that goes with it.                              *)
(*                                                                          *)
(* Locks and runs are kept by account, so the model keeps one.  A step ends *)
(* where a database session is committed, the lock is touched, or a call to *)
(* the Codex child returns.                                                 *)
(***************************************************************************)
EXTENDS Integers, FiniteSets

CONSTANTS
  Threads,
  NoOne,      \* the lock is free
  Runs,       \* rows of anchor_runs; that of a run that has ended is used again
  NoRun,
  MaxFaults   \* bound: crashes and failing commits that lose track of a run

ASSUME NamesAssumption == NoOne \notin Threads /\ NoRun \notin Runs
ASSUME BoundAssumption == MaxFaults \in Nat

VARIABLES
  account,       \* the columns that are read: archived, paused, connected
  lock,          \* _locks[account.id]
  running,       \* rows of anchor_runs with status "running"
  task,          \* where each thread is, the auth_status it has read, its run
  createFailed,  \* history: the last _create_run of this process raised
  faults         \* history: how often a run may have been lost track of

vars == <<account, lock, running, task, createFailed, faults>>

-----------------------------------------------------------------------------
(* Between acquire() and release().                                        *)
RunPcs == {"create", "turn", "complete", "fail", "completed", "failed"}
InRun(t) == task[t].pc \in RunPcs
Idle == [pc |-> "idle", ready |-> FALSE, run |-> NoRun]

TypeOK ==
  /\ account \in [archived : BOOLEAN, paused : BOOLEAN, connected : BOOLEAN]
  /\ lock \in Threads \cup {NoOne}
  /\ running \subseteq Runs
  /\ task \in [Threads -> [pc : RunPcs \cup {"idle", "pre", "load", "lock", "post"},
                           ready : BOOLEAN, run : Runs \cup {NoRun}]]
  /\ \A t \in Threads :
       task[t].run # NoRun <=> task[t].pc \in RunPcs \ {"create"}
  /\ createFailed \in BOOLEAN
  /\ faults \in 0..MaxFaults

Init ==
  /\ account \in [archived : {FALSE}, paused : BOOLEAN, connected : BOOLEAN]
  /\ lock = NoOne /\ running = {}
  /\ task = [t \in Threads |-> Idle]
  /\ createFailed = FALSE /\ faults = 0

Go(t, pc) ==
  task' = [task EXCEPT ![t] = [pc |-> pc, ready |-> task[t].ready,
                               run |-> task[t].run]]
Stop(t) == task' = [task EXCEPT ![t] = Idle]

-----------------------------------------------------------------------------
(* Pausing, logging in or out, archiving.                                  *)
ChangeAccount ==
  /\ ~account.archived
  /\ \E new \in [archived : BOOLEAN, paused : BOOLEAN, connected : BOOLEAN] :
       account' = new
  /\ UNCHANGED <<lock, running, task, createFailed, faults>>

(* The "Anchor now" handler.                                               *)
RunAnchor(t) ==
  /\ task[t].pc = "idle"
  /\ Go(t, "load")
  /\ UNCHANGED <<account, lock, running, createFailed, faults>>

(* run_scheduled_anchor: an archived account raises, a paused one is       *)
(* skipped; the telemetry is refreshed otherwise.                          *)
RunScheduled(t) ==
  /\ task[t].pc = "idle"
  /\ ~account.archived /\ ~account.paused
  /\ Go(t, "pre")
  /\ UNCHANGED <<account, lock, running, createFailed, faults>>

(* The refresh fails or shows no active window (or skipping is off).       *)
PreRefresh(t) ==
  /\ task[t].pc = "pre"
  /\ Go(t, "load")
  /\ UNCHANGED <<account, lock, running, createFailed, faults>>

(* It shows an active window.                                              *)
SkipActiveWindow(t) ==
  /\ task[t].pc = "pre"
  /\ Stop(t)
  /\ UNCHANGED <<account, lock, running, createFailed, faults>>

(* _load_anchor_inputs.                                                    *)
LoadInputs(t) ==
  /\ task[t].pc = "load"
  /\ IF account.archived
       THEN Stop(t)
       ELSE task' = [task EXCEPT ![t] = [pc |-> "lock", run |-> NoRun,
                                         ready |-> account.connected]]
  /\ UNCHANGED <<account, lock, running, createFailed, faults>>

(* Mutant: the result of acquire() is not looked at.                       *)
AcquireAnyway(t) ==
  /\ task[t].pc = "lock"
  /\ lock' = IF lock = NoOne THEN t ELSE lock
  /\ Go(t, "create")
  /\ UNCHANGED <<account, running, createFailed, faults>>

Acquire(t) ==
  /\ task[t].pc = "lock" /\ lock = NoOne
  /\ lock' = t
  /\ Go(t, "create")
  /\ UNCHANGED <<account, running, createFailed, faults>>

(* AnchorAlreadyRunningError.                                              *)
Refuse(t) ==
  /\ task[t].pc = "lock" /\ lock # NoOne
  /\ Stop(t)
  /\ UNCHANGED <<account, lock, running, createFailed, faults>>

(* Mutant: an account that is not connected is turned away without a row   *)
(* that says so.                                                           *)
CreateRunUnready(t) ==
  /\ task[t].pc = "create"
  /\ \E r \in Runs \ running :
       /\ running' = running \cup {r}
       /\ task' = [task EXCEPT ![t] =
                     [pc |-> IF task[t].ready THEN "turn" ELSE "failed",
                      ready |-> task[t].ready, run |-> r]]
  /\ UNCHANGED <<account, lock, createFailed, faults>>

(* The row is committed as running; an account that was not connected when *)
(* it was loaded has no turn.                                              *)
CreateRun(t) ==
  /\ task[t].pc = "create"
  /\ \E r \in Runs \ running :
       /\ running' = running \cup {r}
       /\ task' = [task EXCEPT ![t] =
                     [pc |-> IF task[t].ready THEN "turn" ELSE "fail",
                      ready |-> task[t].ready, run |-> r]]
  /\ UNCHANGED <<account, lock, createFailed, faults>>

(* The commit raises.  The try block that releases the lock has not begun. *)
CreateFails(t) ==
  /\ task[t].pc = "create"
  /\ Stop(t)
  /\ createFailed' = TRUE
  /\ UNCHANGED <<account, lock, running, faults>>

(* The provider's turn returns, or raises.                                 *)
TurnReturns(t) ==
  /\ task[t].pc = "turn"
  /\ Go(t, "complete")
  /\ UNCHANGED <<account, lock, running, createFailed, faults>>

TurnRaises(t) ==
  /\ task[t].pc = "turn"
  /\ Go(t, "fail")
  /\ UNCHANGED <<account, lock, running, createFailed, faults>>

CompleteRun(t) ==
  /\ task[t].pc = "complete"
  /\ running' = running \ {task[t].run}
  /\ Go(t, "completed")
  /\ UNCHANGED <<account, lock, createFailed, faults>>

(* Mutant: the turn is sent again.                                         *)
CompleteResends(t) ==
  /\ task[t].pc = "complete"
  /\ Go(t, "turn")
  /\ UNCHANGED <<account, lock, running, createFailed, faults>>

(* The commit raises: the run is recorded as failed.                       *)
CompleteFails(t) ==
  /\ task[t].pc = "complete"
  /\ Go(t, "fail")
  /\ UNCHANGED <<account, lock, running, createFailed, faults>>

FailRun(t) ==
  /\ task[t].pc = "fail"
  /\ running' = running \ {task[t].run}
  /\ Go(t, "failed")
  /\ UNCHANGED <<account, lock, createFailed, faults>>

(* The commit raises: the row is left as it is.                            *)
FailFails(t) ==
  /\ task[t].pc = "fail" /\ faults < MaxFaults
  /\ faults' = faults + 1
  /\ Go(t, "failed")
  /\ UNCHANGED <<account, lock, running, createFailed>>

(* Mutants: only a run that completed releases the lock; the run is kept.  *)
ReleaseCompleted(t) ==
  /\ task[t].pc \in {"completed", "failed"}
  /\ IF task[t].pc = "completed"
       THEN /\ lock' = NoOne
            /\ task' = [task EXCEPT ![t] = [pc |-> "post", ready |-> FALSE,
                                            run |-> NoRun]]
       ELSE UNCHANGED lock /\ Stop(t)
  /\ UNCHANGED <<account, running, createFailed, faults>>

ReleaseKeepsRun(t) ==
  /\ task[t].pc \in {"completed", "failed"}
  /\ lock' = NoOne
  /\ Go(t, IF task[t].pc = "completed" THEN "post" ELSE "idle")
  /\ UNCHANGED <<account, running, createFailed, faults>>

(* The finally block.                                                      *)
Release(t) ==
  /\ task[t].pc \in {"completed", "failed"}
  /\ lock' = NoOne
  /\ task' = [task EXCEPT ![t] =
                [pc |-> IF task[t].pc = "completed" THEN "post" ELSE "idle",
                 ready |-> FALSE, run |-> NoRun]]
  /\ UNCHANGED <<account, running, createFailed, faults>>

(* The refresh after a run, whatever comes of it.                          *)
PostRefresh(t) ==
  /\ task[t].pc = "post"
  /\ Stop(t)
  /\ UNCHANGED <<account, lock, running, createFailed, faults>>

(* The process ends and starts again: the rows remain.                     *)
Restart ==
  /\ faults < MaxFaults
  /\ faults' = faults + 1
  /\ lock' = NoOne /\ createFailed' = FALSE
  /\ task' = [t \in Threads |-> Idle]
  /\ UNCHANGED <<account, running>>

-----------------------------------------------------------------------------
Step(t) ==
  \/ PreRefresh(t) \/ SkipActiveWindow(t) \/ LoadInputs(t)
  \/ Acquire(t) \/ Refuse(t)
  \/ CreateRun(t) \/ CreateFails(t)
  \/ TurnReturns(t) \/ TurnRaises(t)
  \/ CompleteRun(t) \/ CompleteFails(t) \/ FailRun(t) \/ FailFails(t)
  \/ Release(t) \/ PostRefresh(t)

Next ==
  \/ ChangeAccount \/ Restart
  \/ \E t \in Threads : RunAnchor(t) \/ RunScheduled(t) \/ Step(t)

Spec == Init /\ [][Next]_vars

(* Once begun, a run goes on: nothing it waits for is held for ever, and   *)
(* the SDK call returns or raises.                                         *)
FairSpec == Spec /\ \A t \in Threads : WF_vars(Step(t))

-----------------------------------------------------------------------------
(* Properties.                                                             *)

(* At most one run of an account is under way, between "Anchor now" clicks *)
(* on worker threads and scheduled jobs on the pool.                       *)
OneRunAtATime == \A t, u \in Threads : InRun(t) /\ InRun(u) => t = u

(* The lock is held by a run that is under way, unless the row of the last *)
(* one could not be created.                                               *)
HeldByItsRun == lock # NoOne /\ ~createFailed => InRun(lock)

(* A row says "running" only while a thread is at work on it, except for   *)
(* one row for each crash and each run whose failure could not be written. *)
Abandoned ==
  {r \in running : \A t \in Threads :
                     task[t].pc \in {"turn", "complete", "fail"} => task[t].run # r}
AbandonedByFault == Cardinality(Abandoned) <= faults

(* The lock is given back, however the turn and the commits end, with the  *)
(* exception above.                                                        *)
LockIsFreed == lock # NoOne ~> (lock = NoOne \/ createFailed)
=============================================================================
