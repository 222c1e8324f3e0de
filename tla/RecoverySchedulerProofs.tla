---------------------- MODULE RecoverySchedulerProofs ----------------------
(* The safety properties of RecoveryScheduler hold for every number of     *)
(* pool threads, every set of generations, all delays and bounds.          *)
EXTENDS RecoveryScheduler, FiniteSetTheorems, TLAPS

-----------------------------------------------------------------------------
(* The inductive invariant.                                                *)

(* Which generation a thread carries at each point of its run, and whether *)
(* it has acquired the execution lock; a reload only runs while the        *)
(* process is up.                                                          *)
Shapes ==
  /\ \A w \in Workers :
       /\ worker[w].pc \in {"idle", "fixed"} => worker[w].gen = NoGen
       /\ worker[w].pc \in {"submitted", "claimed", "cancel", "delay"}
            => worker[w].gen \in Gens
       /\ worker[w].pc \in {"idle", "fixed", "submitted", "claimed"}
            => ~worker[w].own
       /\ worker[w].pc \in {"turn", "completed", "schedule", "commit", "cancel"}
            => worker[w].own
  /\ reloader.pc \in {"restore", "swap"} <=> reloader.gen \in Gens
  /\ reloader.time <= now
  /\ mode = "up" \/ reloader.pc = "idle"

(* Who holds the locks, and that a job is swapped for a committed row of a *)
(* new generation.  A run that acquired the execution lock holds it, until *)
(* another releases it; a run that collided swaps for a delayed retry.     *)
Swapping == reloader.pc = "swap" \/ \E w \in Workers : worker[w].pc = "swap"
Locks ==
  /\ \A w \in Workers :
       /\ recoveryLock = w <=> worker[w].pc \in {"commit", "swap"}
       /\ executionLock = w => worker[w].own
       /\ ~broken /\ worker[w].own => executionLock = w
       /\ worker[w].pc = "swap" => row.gen # worker[w].gen
       /\ worker[w].pc = "swap" /\ ~worker[w].own => row.collisions = 1
  /\ recoveryLock = Reloader <=> reloader.pc = "swap"
  /\ Swapping => Pending

(* A job carries the due time of its row; a run whose generation is still  *)
(* the row's was fired at that time, so the row is due.                    *)
Timing ==
  /\ \A j \in jobs : j.gen = row.gen => j.at = row.due
  /\ \A w \in Workers :
       Current(w) => /\ row.due <= now
                     /\ worker[w].pc = "submitted" => worker[w].time = row.due
                     /\ worker[w].pc = "commit" => row.due < worker[w].time

(* A generation has one run; if that of the row is claimed, it has a run   *)
(* past its claim.                                                         *)
Claims ==
  /\ \A v, w \in Workers :
       worker[v].gen = worker[w].gen /\ worker[v].gen \in Gens => v = w
  /\ row.gen \in inflight => \E w \in Workers :
       worker[w].gen = row.gen /\ worker[w].pc \notin {"idle", "submitted"}

(* At most one job; a swap has seen all there are; a job that is not the   *)
(* row's is already due.                                                   *)
Store ==
  /\ \A j, k \in jobs : j = k
  /\ \A j, k \in scan : j = k
  /\ Swapping => jobs \subseteq scan
  /\ \A j \in jobs : j.at <= now \/ j.gen = row.gen \/ Swapping
  /\ mode # "up" => jobs = {}

IInv == TypeOK /\ Shapes /\ Locks /\ Timing /\ Claims /\ Store
          /\ NoOrphanRecovery

-----------------------------------------------------------------------------
(* Lemmas.                                                                 *)

(* A new generation is one that no row, job, run or reload has.            *)
LEMMA FreshIsNew ==
  ASSUME FreshGens # {}
  PROVE  /\ NewGen \in Gens /\ NewGen # row.gen /\ NewGen # reloader.gen
         /\ \A j \in jobs : j.gen # NewGen
         /\ \A j \in scan : j.gen # NewGen
         /\ \A w \in Workers : worker[w].gen # NewGen
  BY DEF NewGen, FreshGens, LiveGens

(* The process starts with nothing in flight and every lock free.          *)
LEMMA InitIInv == Init => IInv
<1> SUFFICES ASSUME Init PROVE IInv
  OBVIOUS
<1> USE ThreadsAssumption, GenAssumption, AccountAssumption
        DEF Init, Swapping, Pending, Current, NoRow, Idle, ReloaderIdle
<1>1. TypeOK
  BY DEF TypeOK, WorkerStates, WorkerPCs, ReloaderStates, ReloaderPCs
<1>2. Shapes /\ Claims /\ Store /\ NoOrphanRecovery
  BY DEF Shapes, Claims, Store, NoOrphanRecovery
<1>3. Locks /\ Timing
  BY DEF Locks, Timing
<1>4. QED
  BY <1>1, <1>2, <1>3 DEF IInv

(* When the job of a committed row is swapped in, the store is left with   *)
(* that job alone, or with nothing after a JobLookupError or a shutdown.   *)
LEMMA SwapResult ==
  ASSUME IInv, Swapping, NEW o, NEW raises \in BOOLEAN, SwapJob(o, raises)
  PROVE  /\ row.gen \in Gens /\ row.due \in Nat
         /\ recoveryLock' = NoOne /\ scan' = {}
         /\ lookupFailed' \in BOOLEAN
         /\ jobs' \subseteq {[gen |-> row.gen, at |-> row.due]}
         /\ mode # "up" => jobs' = {}
         /\ mode = "up" /\ lookupFailed' = FALSE => jobs' # {}
<1>1. row.gen \in Gens /\ row.due \in Nat
  BY DEF IInv, TypeOK, Locks, Pending, NoRow, Rows
<1>2. jobs \subseteq scan /\ (\A j, k \in scan : j = k) /\ (mode # "up" => jobs = {})
  BY DEF IInv, Store
<1>3. jobs \ scan = {}
  BY <1>2
<1>4. lookupFailed' \in BOOLEAN
  BY DEF SwapJob, IInv, TypeOK
<1>5. CASE mode = "up" /\ scan \subseteq jobs
  BY <1>1, <1>3, <1>4, <1>5 DEF SwapJob
<1>6. CASE mode = "up" /\ ~(scan \subseteq jobs)
  BY <1>1, <1>3, <1>4, <1>6 DEF SwapJob
<1>7. CASE mode # "up"
  BY <1>1, <1>2, <1>4, <1>7 DEF SwapJob
<1>8. QED
  BY <1>5, <1>6, <1>7

(* A run is claimed, or it ends because its row is gone or claimed.        *)
LEMMA ClaimResult ==
  ASSUME IInv, NEW w \in Workers, Claim(w)
  PROVE  /\ worker[w].pc = "submitted" /\ recoveryLock = NoOne
         /\ UNCHANGED <<now, account, row, mode, jobs, fixedJobs, recoveryLock,
                        scan, reloader, lookupFailed, executionLock, broken>>
         /\ \A v \in Workers \ {w} : worker'[v] = worker[v]
         /\ worker' \in [Workers -> WorkerStates]
         /\ \/ /\ worker'[w].pc = "claimed" /\ worker'[w].gen = worker[w].gen
               /\ worker'[w].own = FALSE
               /\ inflight' = inflight \cup {worker[w].gen}
            \/ /\ worker'[w] = Idle /\ inflight' = inflight
               /\ ~Current(w) \/ worker[w].gen \in inflight
<1>1. /\ worker \in [Workers -> WorkerStates]
      /\ worker[w].gen \in Gens \cup {NoGen}
  BY DEF IInv, TypeOK, WorkerStates
<1>2. /\ worker[w].pc = "submitted" /\ recoveryLock = NoOne
      /\ UNCHANGED <<now, account, row, mode, jobs, fixedJobs, recoveryLock,
                     scan, reloader, lookupFailed>>
  BY DEF Claim
<1>3. CASE Current(w) /\ worker[w].gen \notin inflight
  <2> DEFINE run == [pc |-> "claimed", gen |-> worker[w].gen, time |-> 0,
                     own |-> FALSE]
  <2>1. /\ worker' = [worker EXCEPT ![w] = run]
        /\ inflight' = inflight \cup {worker[w].gen}
        /\ UNCHANGED <<executionLock, broken>>
    BY <1>3 DEF Claim
  <2>2. run \in WorkerStates
    BY <1>1 DEF WorkerStates, WorkerPCs
  <2>3. /\ worker' \in [Workers -> WorkerStates] /\ worker'[w] = run
        /\ \A v \in Workers \ {w} : worker'[v] = worker[v]
    <3> HIDE DEF run
    <3>. QED
      BY <1>1, <2>1, <2>2
  <2>. QED
    BY <1>2, <2>1, <2>3
<1>4. CASE ~(Current(w) /\ worker[w].gen \notin inflight)
  <2>1. Retire(w)
    BY <1>4 DEF Claim
  <2>2. Idle \in WorkerStates
    BY DEF Idle, WorkerStates, WorkerPCs
  <2>. QED
    BY <1>1, <1>2, <1>4, <2>1, <2>2 DEF Retire
<1>. QED
  BY <1>3, <1>4

(* Every step preserves the invariant: one step of the proof per action.   *)
LEMMA NextIInv == IInv /\ [Next]_vars => IInv'
<1> SUFFICES ASSUME IInv, [Next]_vars PROVE IInv'
  OBVIOUS
<1> USE ThreadsAssumption, GenAssumption, AccountAssumption, DelayAssumption,
        BoundAssumption
<1> USE DEF IInv, TypeOK, Shapes, Locks, Timing, Claims, Store,
        NoOrphanRecovery, Attended, InstanceOf, Swapping, Current, Pending,
        Rows, NoRow, Jobs, Idle, WorkerStates, WorkerPCs, ReloaderStates,
        ReloaderPCs, ReloaderIdle, MoveTo, Goto, Acquire, Return
<1>1. CASE Tick
  BY <1>1 DEF Tick
<1>2. CASE ChangeAuth
  BY <1>2 DEF ChangeAuth
<1>3. CASE Start
  BY <1>3 DEF Start
<1>4. CASE Shutdown
  <2>1. TypeOK'
    BY <1>4 DEF Shutdown
  <2>2. Shapes'
    BY <1>4 DEF Shutdown
  <2>3. Locks'
    BY <1>4 DEF Shutdown
  <2>4. Timing'
    BY <1>4 DEF Shutdown
  <2>5. Claims'
    BY <1>4 DEF Shutdown
  <2>6. Store'
    BY <1>4 DEF Shutdown
  <2>7. NoOrphanRecovery'
    BY <1>4 DEF Shutdown
  <2>8. QED
    BY <2>1, <2>2, <2>3, <2>4, <2>5, <2>6, <2>7
<1>5. CASE Exit
  <2>1. TypeOK'
    BY <1>5 DEF Exit
  <2>2. Shapes'
    BY <1>5 DEF Exit
  <2>3. Locks'
    BY <1>5 DEF Exit
  <2>4. Timing'
    BY <1>5 DEF Exit
  <2>5. Claims'
    BY <1>5 DEF Exit
  <2>6. Store'
    BY <1>5 DEF Exit
  <2>7. NoOrphanRecovery'
    BY <1>5 DEF Exit
  <2>8. QED
    BY <2>1, <2>2, <2>3, <2>4, <2>5, <2>6, <2>7
<1>6. ASSUME NEW life \in Lifecycles, EditAccount(life) PROVE IInv'
  BY <1>6 DEF EditAccount
<1>7. CASE ReloadFixed
  BY <1>7 DEF ReloadFixed
<1>8. CASE RestoreWithoutJob
  BY <1>8 DEF RestoreWithoutJob, KeepRow, DeleteRow
<1>9. CASE RestoreDueNow
  BY <1>9, FreshIsNew DEF RestoreDueNow, Replace, Overdue, OutsideGrace
<1>10. CASE RestorePending
  BY <1>10 DEF RestorePending
<1>11. CASE RestoreJob
  <2>holds. Swapping /\ \E raises \in BOOLEAN : SwapJob(Reloader, raises)
    BY <1>11 DEF RestoreJob
  <2>swap. /\ row.gen \in Gens /\ row.due \in Nat
           /\ recoveryLock' = NoOne /\ scan' = {}
           /\ lookupFailed' \in BOOLEAN
           /\ jobs' \subseteq {[gen |-> row.gen, at |-> row.due]}
           /\ mode # "up" => jobs' = {}
           /\ mode = "up" /\ lookupFailed' = FALSE => jobs' # {}
    <3> HIDE DEF IInv, Swapping
    <3>1. QED
      BY <2>holds, SwapResult
  <2>1. TypeOK'
    BY <1>11, <2>swap DEF RestoreJob
  <2>2. Shapes'
    BY <1>11, <2>swap DEF RestoreJob
  <2>3. Locks'
    BY <1>11, <2>swap DEF RestoreJob
  <2>4. Timing'
    BY <1>11, <2>swap DEF RestoreJob
  <2>5. Claims'
    BY <1>11, <2>swap DEF RestoreJob
  <2>6. Store'
    BY <1>11, <2>swap DEF RestoreJob
  <2>7. NoOrphanRecovery'
    BY <1>11, <2>swap DEF RestoreJob
  <2>8. QED
    BY <2>1, <2>2, <2>3, <2>4, <2>5, <2>6, <2>7
<1>12. ASSUME NEW j \in jobs, SkipInstance(j) PROVE IInv'
  BY <1>12 DEF SkipInstance
<1>13. ASSUME NEW w \in Workers, FireFixed(w) PROVE IInv'
  BY <1>13 DEF FireFixed
<1>14. ASSUME NEW w \in Workers, NEW j \in jobs, FireRecovery(w, j) PROVE IInv'
  BY <1>14 DEF FireRecovery
<1>15. ASSUME NEW w \in Workers, StartFixed(w) PROVE IInv'
  BY <1>15 DEF StartFixed
<1>16. ASSUME NEW w \in Workers, SkipFixed(w) PROVE IInv'
  BY <1>16 DEF SkipFixed, Retire
<1>17. ASSUME NEW w \in Workers, Missed(w) PROVE IInv'
  BY <1>17 DEF Missed, Retire, KeepRow, DeleteRow
<1>18. ASSUME NEW w \in Workers, Claim(w) PROVE IInv'
  <2>a. /\ worker[w].pc = "submitted" /\ recoveryLock = NoOne
        /\ UNCHANGED <<now, account, row, mode, jobs, fixedJobs, recoveryLock,
                       scan, reloader, lookupFailed, executionLock, broken>>
        /\ \A v \in Workers \ {w} : worker'[v] = worker[v]
        /\ worker' \in [Workers -> WorkerStates]
        /\ \/ /\ worker'[w].pc = "claimed" /\ worker'[w].gen = worker[w].gen
              /\ worker'[w].own = FALSE
              /\ inflight' = inflight \cup {worker[w].gen}
           \/ /\ worker'[w] = Idle /\ inflight' = inflight
              /\ ~Current(w) \/ worker[w].gen \in inflight
    <3> HIDE DEF IInv, Current
    <3>. QED
      BY <1>18, ClaimResult
  <2>1. TypeOK'
    BY <2>a
  <2>2. Shapes'
    BY <2>a, SMTT(20)
  <2>3. Locks'
    BY <2>a, SMTT(20)
  <2>4. Timing'
    BY <2>a, SMTT(20)
  <2>5. Claims'
    BY <2>a, SMTT(20)
  <2>6. Store'
    BY <2>a
  <2>7. NoOrphanRecovery'
    BY <2>a
  <2>8. QED
    BY <2>1, <2>2, <2>3, <2>4, <2>5, <2>6, <2>7
<1>19. ASSUME NEW w \in Workers, StartRecovery(w) PROVE IInv'
  BY <1>19 DEF StartRecovery
<1>20. ASSUME NEW w \in Workers, Collide(w) PROVE IInv'
  BY <1>20 DEF Collide
<1>21. ASSUME NEW w \in Workers, TurnCompletes(w) PROVE IInv'
  BY <1>21 DEF TurnCompletes
<1>22. ASSUME NEW w \in Workers, TurnFails(w) PROVE IInv'
  <2>a. CASE worker[w].gen = NoGen /\ Return(w)
    <3>1. TypeOK'
      BY <1>22, <2>a DEF TurnFails, Finish
    <3>2. Shapes'
      BY <1>22, <2>a DEF TurnFails, Finish
    <3>3. Locks'
      BY <1>22, <2>a DEF TurnFails, Finish
    <3>4. Timing'
      BY <1>22, <2>a DEF TurnFails, Finish
    <3>5. Claims'
      BY <1>22, <2>a DEF TurnFails, Finish
    <3>6. Store'
      BY <1>22, <2>a DEF TurnFails, Finish
    <3>7. NoOrphanRecovery'
      BY <1>22, <2>a DEF TurnFails, Finish
    <3>8. QED
      BY <3>1, <3>2, <3>3, <3>4, <3>5, <3>6, <3>7
  <2>b. CASE worker[w].gen # NoGen /\ Goto(w, "cancel")
    <3>1. TypeOK'
      BY <1>22, <2>b DEF TurnFails
    <3>2. Shapes'
      BY <1>22, <2>b DEF TurnFails
    <3>3. Locks'
      BY <1>22, <2>b DEF TurnFails
    <3>4. Timing'
      BY <1>22, <2>b DEF TurnFails
    <3>5. Claims'
      BY <1>22, <2>b DEF TurnFails
    <3>6. Store'
      BY <1>22, <2>b DEF TurnFails
    <3>7. NoOrphanRecovery'
      BY <1>22, <2>b DEF TurnFails
    <3>8. QED
      BY <3>1, <3>2, <3>3, <3>4, <3>5, <3>6, <3>7
  <2>c. QED
    BY <1>22, <2>a, <2>b DEF TurnFails
<1>23. ASSUME NEW w \in Workers, TurnCollides(w) PROVE IInv'
  <2>a. CASE worker[w].gen = NoGen /\ Return(w)
    <3>1. TypeOK'
      BY <1>23, <2>a DEF TurnCollides, Finish
    <3>2. Shapes'
      BY <1>23, <2>a DEF TurnCollides, Finish
    <3>3. Locks'
      BY <1>23, <2>a DEF TurnCollides, Finish
    <3>4. Timing'
      BY <1>23, <2>a DEF TurnCollides, Finish
    <3>5. Claims'
      BY <1>23, <2>a DEF TurnCollides, Finish
    <3>6. Store'
      BY <1>23, <2>a DEF TurnCollides, Finish
    <3>7. NoOrphanRecovery'
      BY <1>23, <2>a DEF TurnCollides, Finish
    <3>8. QED
      BY <3>1, <3>2, <3>3, <3>4, <3>5, <3>6, <3>7
  <2>b. CASE worker[w].gen # NoGen /\ Goto(w, "delay")
    <3>1. TypeOK'
      BY <1>23, <2>b DEF TurnCollides
    <3>2. Shapes'
      BY <1>23, <2>b DEF TurnCollides
    <3>3. Locks'
      BY <1>23, <2>b DEF TurnCollides
    <3>4. Timing'
      BY <1>23, <2>b DEF TurnCollides
    <3>5. Claims'
      BY <1>23, <2>b DEF TurnCollides
    <3>6. Store'
      BY <1>23, <2>b DEF TurnCollides
    <3>7. NoOrphanRecovery'
      BY <1>23, <2>b DEF TurnCollides
    <3>8. QED
      BY <3>1, <3>2, <3>3, <3>4, <3>5, <3>6, <3>7
  <2>c. QED
    BY <1>23, <2>a, <2>b DEF TurnCollides
<1>24. ASSUME NEW w \in Workers, NEW reset \in now + 1 .. now + MaxReset, TurnBlocked(w, reset) PROVE IInv'
  BY <1>24 DEF TurnBlocked
<1>25. ASSUME NEW w \in Workers, Clear(w) PROVE IInv'
  BY <1>25 DEF Clear, Finish, KeepRow, DeleteRow
<1>26. ASSUME NEW w \in Workers, DelayRecovery(w) PROVE IInv'
  BY <1>26, FreshIsNew DEF DelayRecovery, Replace
<1>27. ASSUME NEW w \in Workers, GiveUpDelay(w) PROVE IInv'
  BY <1>27 DEF GiveUpDelay, Finish
<1>28. ASSUME NEW w \in Workers, ScheduleUnresolved(w) PROVE IInv'
  BY <1>28 DEF ScheduleUnresolved, Finish, KeepRow, DeleteRow
<1>29. ASSUME NEW w \in Workers, ScheduleEligible(w) PROVE IInv'
  BY <1>29 DEF ScheduleEligible
<1>30. ASSUME NEW w \in Workers, KeepSchedule(w) PROVE IInv'
  BY <1>30 DEF KeepSchedule, Finish, Superseded, Retained
<1>31. ASSUME NEW w \in Workers, CommitSchedule(w) PROVE IInv'
  BY <1>31, FreshIsNew DEF CommitSchedule, Replace, Superseded, Retained
<1>32. ASSUME NEW w \in Workers, AddRecoveryJob(w) PROVE IInv'
  <2>holds. Swapping /\ \E raises \in BOOLEAN :
               SwapJob(w, raises) /\ Finish(w, worker[w].own \/ raises)
    BY <1>32 DEF AddRecoveryJob
  <2>swap. /\ row.gen \in Gens /\ row.due \in Nat
           /\ recoveryLock' = NoOne /\ scan' = {}
           /\ lookupFailed' \in BOOLEAN
           /\ jobs' \subseteq {[gen |-> row.gen, at |-> row.due]}
           /\ mode # "up" => jobs' = {}
           /\ mode = "up" /\ lookupFailed' = FALSE => jobs' # {}
    <3> HIDE DEF IInv, Swapping
    <3>1. QED
      BY <2>holds, SwapResult
  <2>1. TypeOK'
    BY <1>32, <2>swap DEF AddRecoveryJob, Finish
  <2>2. Shapes'
    BY <1>32, <2>swap DEF AddRecoveryJob, Finish
  <2>3. Locks'
    BY <1>32, <2>swap DEF AddRecoveryJob, Finish
  <2>4. Timing'
    BY <1>32, <2>swap DEF AddRecoveryJob, Finish
  <2>5. Claims'
    BY <1>32, <2>swap DEF AddRecoveryJob, Finish
  <2>6. Store'
    BY <1>32, <2>swap DEF AddRecoveryJob, Finish
  <2>7. NoOrphanRecovery'
    BY <1>32, <2>swap DEF AddRecoveryJob, Finish
  <2>8. QED
    BY <2>1, <2>2, <2>3, <2>4, <2>5, <2>6, <2>7
<1>33. CASE UNCHANGED vars
  BY <1>33 DEF vars
<1>34. QED
  BY <1>1, <1>2, <1>3, <1>4, <1>5, <1>6, <1>7, <1>8, <1>9, <1>10, <1>11, <1>12, <1>13, <1>14, <1>15, <1>16, <1>17, <1>18, <1>19, <1>20, <1>21, <1>22, <1>23, <1>24, <1>25, <1>26, <1>27, <1>28, <1>29, <1>30, <1>31, <1>32, <1>33
  DEF Next, Reload, Fire, RunJob, TurnEnds

(* The inductive invariant holds in every reachable state.                 *)
THEOREM Invariance == Spec => []IInv
  BY InitIInv, NextIInv, PTL DEF Spec

-----------------------------------------------------------------------------
(* Invariants.                                                             *)

(* Every variable keeps its type.                                          *)
THEOREM TypeCorrect == Spec => []TypeOK
<1>1. IInv => TypeOK
  BY DEF IInv
<1>2. QED
  BY <1>1, Invariance, PTL

(* Scheduled turns of an account never overlap unless a raising collision  *)
(* has released the lock of one of them.                                   *)
THEOREM TurnsNeverOverlap == Spec => []OneScheduledTurn
<1>1. IInv => OneScheduledTurn
  BY DEF IInv, Shapes, Locks, OneScheduledTurn, Turning
<1>2. QED
  BY <1>1, Invariance, PTL

(* A pending recovery is never left with nobody to act on it, except by a  *)
(* JobLookupError.                                                         *)
THEOREM PendingIsAttended == Spec => []NoOrphanRecovery
<1>1. IInv => NoOrphanRecovery
  BY DEF IInv
<1>2. QED
  BY <1>1, Invariance, PTL

(* The job the dashboard lists for a future instant is the pending one.    *)
THEOREM DashboardIsTrue == Spec => []ScheduledIsPending
<1>1. IInv => ScheduledIsPending
  BY ThreadsAssumption
  DEF IInv, TypeOK, Jobs, Locks, Timing, Store, Swapping, ScheduledIsPending
<1>2. QED
  BY <1>1, Invariance, PTL

-----------------------------------------------------------------------------
(* Locks, claims and generations at rest.                                  *)

(* What a scan saw is forgotten once the job is swapped.                   *)
Forgotten == Swapping \/ scan = {}

LEMMA NextForgotten == IInv /\ Forgotten /\ [Next]_vars => Forgotten'
<1> SUFFICES ASSUME IInv, Forgotten, [Next]_vars PROVE Forgotten'
  OBVIOUS
<1> USE ThreadsAssumption
    DEF Forgotten, IInv, TypeOK, Locks, Swapping, Goto, MoveTo, Acquire, Idle,
        Retire, Finish, Return
<1>1. CASE Tick \/ ChangeAuth \/ Start \/ Shutdown \/ ReloadFixed
             \/ RestoreWithoutJob \/ (\E life \in Lifecycles : EditAccount(life))
             \/ \E j \in jobs : SkipInstance(j)
  BY <1>1 DEF Tick, ChangeAuth, Start, Shutdown, ReloadFixed, RestoreWithoutJob,
              EditAccount, SkipInstance, Shapes
<1>2. CASE Exit
  BY <1>2 DEF Exit
<1>3. CASE RestoreDueNow \/ RestorePending
  <2>1. reloader'.pc = "swap"
    BY <1>3 DEF RestoreDueNow, RestorePending, ReloaderStates, ReloaderIdle
  <2>. QED
    BY <2>1
<1>r. CASE RestoreJob
  BY <1>r DEF RestoreJob, SwapJob
<1>4. ASSUME NEW w \in Workers,
             \/ FireFixed(w) \/ (\E j \in jobs : FireRecovery(w, j))
             \/ StartFixed(w) \/ SkipFixed(w) \/ Missed(w) \/ Claim(w)
             \/ StartRecovery(w) \/ Collide(w)
      PROVE  Forgotten'
  BY <1>4 DEF FireFixed, FireRecovery, StartFixed, SkipFixed, Missed, Claim,
              StartRecovery, Collide
<1>5. ASSUME NEW w \in Workers, TurnEnds(w) \/ Clear(w) PROVE Forgotten'
  BY <1>5 DEF TurnEnds, TurnCompletes, TurnFails, TurnCollides, TurnBlocked, Clear
<1>6. ASSUME NEW w \in Workers,
             GiveUpDelay(w) \/ ScheduleUnresolved(w) \/ ScheduleEligible(w)
      PROVE  Forgotten'
  BY <1>6 DEF GiveUpDelay, ScheduleUnresolved, ScheduleEligible
<1>d. ASSUME NEW w \in Workers, DelayRecovery(w) \/ CommitSchedule(w)
      PROVE  Forgotten'
  <2>1. worker'[w].pc = "swap"
    BY <1>d DEF DelayRecovery, CommitSchedule, WorkerStates
  <2>. QED
    BY <2>1
<1>7. ASSUME NEW w \in Workers, AddRecoveryJob(w) PROVE Forgotten'
  BY <1>7 DEF AddRecoveryJob, SwapJob
<1>k. ASSUME NEW w \in Workers, KeepSchedule(w) PROVE Forgotten'
  <2>1. scan = {} /\ scan' = scan
    BY <1>k DEF KeepSchedule
  <2>. QED
    BY <2>1
<1>8. CASE UNCHANGED vars
  BY <1>8 DEF vars
<1>. QED
  BY <1>1, <1>2, <1>3, <1>r, <1>4, <1>5, <1>6, <1>d, <1>7, <1>k, <1>8
  DEF Next, Reload, Fire, RunJob

LEMMA ScanInvariance == Spec => [](IInv /\ Forgotten)
<1>1. Init => Forgotten
  BY DEF Init, Forgotten
<1>. QED
  BY <1>1, InitIInv, NextIInv, NextForgotten, PTL DEF Spec

(* Nothing outlives its run to block a later one, whatever raised, misfired *)
(* or was refused before, and although a run whose lock another released    *)
(* never releases its claim: when no job runs, the execution lock is free,  *)
(* so that no later job of the account is skipped or counted as a          *)
(* collision; the pending retry is not claimed, so that its run is not     *)
(* turned away; and only a reload's swap holds the recovery lock.          *)
NothingIsBlocked ==
  (\A w \in Workers : worker[w].pc = "idle") =>
    /\ executionLock = NoOne
    /\ Pending => row.gen \notin inflight
    /\ recoveryLock # NoOne => reloader.pc = "swap"

THEOREM LocksOutliveNoRun == Spec => []NothingIsBlocked
<1>1. IInv => NothingIsBlocked
  <2> SUFFICES ASSUME IInv, \A w \in Workers : worker[w].pc = "idle"
               PROVE  /\ executionLock = NoOne
                      /\ row.gen \notin inflight
                      /\ recoveryLock # NoOne => reloader.pc = "swap"
    BY DEF NothingIsBlocked
  <2>1. executionLock = NoOne
    BY DEF IInv, TypeOK, Shapes, Locks
  <2>2. row.gen \notin inflight
    BY DEF IInv, Claims
  <2>3. recoveryLock # NoOne => reloader.pc = "swap"
    BY DEF IInv, TypeOK, Locks
  <2>. QED
    BY <2>1, <2>2, <2>3
<1>. QED
  BY <1>1, Invariance, PTL

(* How many generations can be live when a new one is needed: those of the  *)
(* runs and two more.                                                      *)
NeedsGen ==
  \/ reloader.pc = "restore" /\ recoveryLock = NoOne /\ row.gen = reloader.gen
  \/ \E w \in Workers :
       \/ worker[w].pc = "delay" /\ recoveryLock = NoOne /\ Current(w)
       \/ worker[w].pc = "commit" /\ ~Superseded(w)

RunGens(ws) == {worker[w].gen : w \in ws}

LEMMA RunGensAreFew ==
  ASSUME NEW ws, IsFiniteSet(ws)
  PROVE  IsFiniteSet(RunGens(ws)) /\ Cardinality(RunGens(ws)) <= Cardinality(ws)
<1> DEFINE f == [w \in ws |-> worker[w].gen]
<1>1. f \in Surjection(ws, RunGens(ws))
  BY DEF Surjection, RunGens
<1>. QED
  BY <1>1, FS_Surjection DEF ExistsSurjection

(* Two elements more make a finite set larger by at most two.              *)
LEMMA OneMore ==
  ASSUME NEW S, IsFiniteSet(S), NEW x, NEW n \in Nat, Cardinality(S) <= n
  PROVE  IsFiniteSet(S \cup {x}) /\ Cardinality(S \cup {x}) <= n + 1
<1>1. /\ IsFiniteSet(S \cup {x})
      /\ Cardinality(S \cup {x}) =
           IF x \in S THEN Cardinality(S) ELSE Cardinality(S) + 1
  BY FS_AddElement
<1>2. Cardinality(S) \in Nat
  BY FS_CardinalityType
<1>. QED
  BY <1>1, <1>2

LEMMA TwoMore ==
  ASSUME NEW S, IsFiniteSet(S), NEW x, NEW y, NEW n \in Nat, Cardinality(S) <= n
  PROVE  IsFiniteSet(S \cup {x, y}) /\ Cardinality(S \cup {x, y}) <= n + 2
<1>n. n + 1 \in Nat
  OBVIOUS
<1>1. IsFiniteSet(S \cup {x}) /\ Cardinality(S \cup {x}) <= n + 1
  BY OneMore
<1>2. /\ IsFiniteSet((S \cup {x}) \cup {y})
      /\ Cardinality((S \cup {x}) \cup {y}) <= (n + 1) + 1
  BY <1>n, <1>1, OneMore
<1>3. S \cup {x, y} = (S \cup {x}) \cup {y}
  OBVIOUS
<1>. QED
  BY <1>2, <1>3

LEMMA FewAreLive ==
  ASSUME IInv, Forgotten, NeedsGen, IsFiniteSet(Workers)
  PROVE  \E F : /\ LiveGens \cap Gens \subseteq F /\ IsFiniteSet(F)
                /\ Cardinality(F) <= Cardinality(Workers) + 2
<1> USE ThreadsAssumption, GenAssumption
<1>1. PICK job : \A j \in jobs : j.gen = job
  BY DEF IInv, Store
<1>2. scan = {}
  BY DEF NeedsGen, Forgotten, Swapping, IInv, TypeOK, Locks
<1>live. LiveGens \subseteq RunGens(Workers) \cup {row.gen, reloader.gen, job}
  BY <1>1, <1>2 DEF LiveGens, RunGens
<1>few. /\ IsFiniteSet(RunGens(Workers)) /\ Cardinality(Workers) \in Nat
        /\ Cardinality(RunGens(Workers)) <= Cardinality(Workers)
  BY RunGensAreFew, FS_CardinalityType
<1>4. CASE row.gen = reloader.gen
  <2>1. LiveGens \cap Gens \subseteq RunGens(Workers) \cup {row.gen, job}
    BY <1>live, <1>4
  <2>2. /\ IsFiniteSet(RunGens(Workers) \cup {row.gen, job})
        /\ Cardinality(RunGens(Workers) \cup {row.gen, job})
             <= Cardinality(Workers) + 2
    BY <1>few, TwoMore
  <2>. QED
    BY <2>1, <2>2
<1>5. ASSUME NEW w \in Workers, Current(w)
      PROVE  \E F : /\ LiveGens \cap Gens \subseteq F /\ IsFiniteSet(F)
                    /\ Cardinality(F) <= Cardinality(Workers) + 2
  <2>1. LiveGens \cap Gens \subseteq RunGens(Workers) \cup {reloader.gen, job}
    BY <1>live, <1>5 DEF Current, RunGens
  <2>2. /\ IsFiniteSet(RunGens(Workers) \cup {reloader.gen, job})
        /\ Cardinality(RunGens(Workers) \cup {reloader.gen, job})
             <= Cardinality(Workers) + 2
    BY <1>few, TwoMore
  <2>. QED
    BY <2>1, <2>2
<1>6. ASSUME NEW w \in Workers, worker[w].gen = NoGen, worker[w].pc = "commit"
      PROVE  \E F : /\ LiveGens \cap Gens \subseteq F /\ IsFiniteSet(F)
                    /\ Cardinality(F) <= Cardinality(Workers) + 2
  <2> DEFINE others == Workers \ {w}
  <2>1. /\ IsFiniteSet(others) /\ Cardinality(others) \in Nat
        /\ Cardinality(others) + 1 = Cardinality(Workers)
    <3>1. /\ IsFiniteSet(others)
          /\ Cardinality(others) = IF w \in Workers THEN Cardinality(Workers) - 1
                                                    ELSE Cardinality(Workers)
      BY FS_RemoveElement
    <3>2. Cardinality(others) \in Nat
      BY <3>1, FS_CardinalityType
    <3>. QED
      BY <1>few, <3>1, <3>2
  <2>2. LiveGens \cap Gens
          \subseteq (RunGens(others) \cup {row.gen, reloader.gen}) \cup {job}
    BY <1>live, <1>6 DEF RunGens
  <2>3. /\ IsFiniteSet(RunGens(others))
        /\ Cardinality(RunGens(others)) <= Cardinality(others)
    BY <2>1, RunGensAreFew
  <2>4. /\ IsFiniteSet(RunGens(others) \cup {row.gen, reloader.gen})
        /\ Cardinality(RunGens(others) \cup {row.gen, reloader.gen})
             <= Cardinality(others) + 2
    BY <2>1, <2>3, TwoMore
  <2>n. Cardinality(others) + 2 \in Nat
    BY <2>1
  <2>5. /\ IsFiniteSet((RunGens(others) \cup {row.gen, reloader.gen}) \cup {job})
        /\ Cardinality((RunGens(others) \cup {row.gen, reloader.gen}) \cup {job})
             <= (Cardinality(others) + 2) + 1
    BY <2>n, <2>4, OneMore
  <2> DEFINE all == (RunGens(others) \cup {row.gen, reloader.gen}) \cup {job}
  <2>6. /\ LiveGens \cap Gens \subseteq all /\ IsFiniteSet(all)
        /\ Cardinality(all) <= Cardinality(Workers) + 2
    <3>1. IsFiniteSet(all) /\ Cardinality(all) <= (Cardinality(others) + 2) + 1
      BY <2>5
    <3>2. Cardinality(all) \in Nat
      BY <3>1, FS_CardinalityType
    <3>3. LiveGens \cap Gens \subseteq all
      BY <2>2
    <3> HIDE DEF all, others
    <3>. QED
      BY <2>1, <3>1, <3>2, <3>3
  <2> HIDE DEF all
  <2>. QED
    BY <2>6
<1>7. ASSUME NEW w \in Workers, worker[w].pc = "commit", ~Superseded(w)
      PROVE  worker[w].gen = NoGen \/ Current(w)
  BY <1>7 DEF Superseded, Current, Pending
<1>. QED
  BY <1>4, <1>5, <1>6, <1>7 DEF NeedsGen

(* A uuid4 is always new; the model's generations are as good as new if     *)
(* there are more of them than pool threads and two: wherever the code      *)
(* makes a generation, one that nothing live refers to is left, so the     *)
(* bound never blocks a step the code would take.                          *)
GenerationLeft == NeedsGen => FreshGens # {}

THEOREM GenerationsSuffice ==
  ASSUME IsFiniteSet(Workers),
         IsFiniteSet(Gens) => Cardinality(Gens) > Cardinality(Workers) + 2
  PROVE  Spec => []GenerationLeft
<1>1. IInv /\ Forgotten => GenerationLeft
  <2> SUFFICES ASSUME IInv, Forgotten, NeedsGen, FreshGens = {} PROVE FALSE
    BY DEF GenerationLeft
  <2>1. PICK F : /\ LiveGens \cap Gens \subseteq F /\ IsFiniteSet(F)
                 /\ Cardinality(F) <= Cardinality(Workers) + 2
    BY FewAreLive
  <2>2. Gens \subseteq F
    BY <2>1 DEF FreshGens
  <2>3. IsFiniteSet(Gens) /\ Cardinality(Gens) <= Cardinality(F)
    BY <2>1, <2>2, FS_Subset
  <2>. QED
    BY <2>1, <2>3, FS_CardinalityType
<1>. QED
  BY <1>1, ScanInvariance, PTL

-----------------------------------------------------------------------------
(* Action properties.                                                      *)

(* The only steps that change the row.                                     *)
LEMMA RowWriters ==
  ASSUME [Next]_vars, row' # row
  PROVE  \/ RestoreWithoutJob \/ RestoreDueNow
         \/ \E w \in Workers :
              \/ Missed(w) \/ Clear(w) \/ GiveUpDelay(w) \/ ScheduleUnresolved(w)
              \/ DelayRecovery(w) \/ CommitSchedule(w)
  BY DEF Next, vars, Reload, Fire, RunJob, TurnEnds, Tick, ChangeAuth, Start,
         Shutdown, Exit, EditAccount, ReloadFixed, RestorePending, RestoreJob,
         SkipInstance, FireFixed, FireRecovery, StartFixed, SkipFixed, Claim,
         StartRecovery, Collide, TurnCompletes, TurnFails, TurnCollides,
         TurnBlocked, ScheduleEligible, KeepSchedule, AddRecoveryJob

(* Every rewrite of a pending row moves it later, under a new generation.  *)
THEOREM RetryOnlyMovesLater == Spec => DueOnlyMovesLater
<1>1. IInv /\ [Next]_vars
        => [Pending /\ Pending' /\ row' # row
              => row'.due > row.due /\ row'.gen # row.gen]_vars
  <2> SUFFICES ASSUME IInv, [Next]_vars, Pending, Pending', row' # row
               PROVE  row'.due > row.due /\ row'.gen # row.gen
    OBVIOUS
  <2> USE FreshIsNew, DelayAssumption
      DEF IInv, TypeOK, Pending, NoRow, Rows, Replace
  <2>1. CASE RestoreDueNow
    BY <2>1 DEF RestoreDueNow, Shapes, ReloaderStates, Overdue
  <2>2. ASSUME NEW w \in Workers, DelayRecovery(w)
        PROVE  row'.due > row.due /\ row'.gen # row.gen
    BY <2>2 DEF DelayRecovery, Timing, Current
  <2>3. ASSUME NEW w \in Workers, CommitSchedule(w)
        PROVE  row'.due > row.due /\ row'.gen # row.gen
    BY <2>3 DEF CommitSchedule, Retained, WorkerStates
  <2>4. ~RestoreWithoutJob
    BY DEF RestoreWithoutJob, DeleteRow, KeepRow
  <2>5. ASSUME NEW w \in Workers
        PROVE  ~(Missed(w) \/ Clear(w) \/ GiveUpDelay(w) \/ ScheduleUnresolved(w))
    BY DEF Missed, Clear, GiveUpDelay, ScheduleUnresolved, DeleteRow, KeepRow
  <2>6. QED
    BY <2>1, <2>2, <2>3, <2>4, <2>5, RowWriters
<1>2. QED
  BY <1>1, Invariance, PTL DEF Spec, DueOnlyMovesLater

(* A run whose generation is no longer the row's leaves the row alone.     *)
THEOREM StaleRunsAreHarmless == Spec => StaleRunLeavesRow
<1>1. IInv /\ [Next]_vars
        => [\A w \in Workers :
              worker[w].gen # NoGen /\ worker[w].gen # row.gen
                /\ worker'[w] # worker[w] /\ mode' # "down"
              => row' = row]_vars
  <2> SUFFICES ASSUME IInv, [Next]_vars, NEW w \in Workers,
                      worker[w].gen # NoGen, worker[w].gen # row.gen,
                      worker'[w] # worker[w], row' # row
               PROVE  FALSE
    OBVIOUS
  <2> USE DEF IInv, TypeOK, Current, Goto, Retire, Finish, Return, KeepRow
  <2>1. ~(RestoreWithoutJob \/ RestoreDueNow)
    BY DEF RestoreWithoutJob, RestoreDueNow
  <2>2. PICK v \in Workers :
           \/ Missed(v) \/ Clear(v) \/ GiveUpDelay(v) \/ ScheduleUnresolved(v)
           \/ DelayRecovery(v) \/ CommitSchedule(v)
    BY <2>1, RowWriters
  <2>3. v = w
    BY <2>2 DEF Missed, Clear, GiveUpDelay, ScheduleUnresolved, DelayRecovery,
                CommitSchedule
  <2>4. QED
    BY <2>2, <2>3 DEF Missed, Clear, GiveUpDelay, ScheduleUnresolved,
                      DelayRecovery, CommitSchedule, Superseded
<1>2. QED
  BY <1>1, Invariance, PTL DEF Spec, StaleRunLeavesRow

(* Only itself or a reload takes the row away from a recovery in its turn. *)
THEOREM TurnKeepsItsRow == Spec => OnlyReloadInterferes
<1>1. IInv /\ [Next]_vars
        => [\A w \in Workers :
              ~broken /\ Turning(w) /\ Current(w) /\ row' # row
                => worker'[w] # worker[w] \/ reloader' # reloader]_vars
  <2> SUFFICES ASSUME IInv, [Next]_vars, NEW w \in Workers,
                      ~broken, Turning(w), Current(w), row' # row,
                      worker'[w] = worker[w], reloader' = reloader
               PROVE  FALSE
    OBVIOUS
  <2>r. \/ reloader.pc # "restore"
        \/ ~(RestoreWithoutJob \/ RestoreDueNow)
    <3>1. RestoreWithoutJob => reloader'.pc = "idle"
      BY DEF RestoreWithoutJob, ReloaderIdle
    <3>2. RestoreDueNow => reloader'.pc = "swap"
      BY DEF RestoreDueNow, MoveTo, IInv, TypeOK, ReloaderStates, ReloaderIdle
    <3>. QED
      BY <3>1, <3>2
  <2>1. ~(RestoreWithoutJob \/ RestoreDueNow)
    BY <2>r DEF RestoreWithoutJob, RestoreDueNow
  <2>2. PICK v \in Workers :
           \/ Missed(v) \/ Clear(v) \/ GiveUpDelay(v) \/ ScheduleUnresolved(v)
           \/ DelayRecovery(v) \/ CommitSchedule(v)
    BY <2>1, RowWriters
  <2>3. worker[w].gen \in Gens /\ worker[w].gen = row.gen
    BY GenAssumption DEF IInv, TypeOK, Current, Pending, Rows, NoRow
  <2>4. worker[w].pc \in {"turn", "completed"}
    BY DEF Turning
  <2>s. ASSUME NEW u \in Workers,
               \/ Missed(u) \/ Clear(u) \/ GiveUpDelay(u) \/ ScheduleUnresolved(u)
               \/ DelayRecovery(u) \/ CommitSchedule(u)
        PROVE  worker'[u] # worker[u]
    <3>0. worker[u] \in WorkerStates /\ worker \in [Workers -> WorkerStates]
      BY DEF IInv, TypeOK
    <3>1. /\ worker[u].pc \in {"submitted", "completed", "cancel", "delay",
                               "schedule", "commit"}
          /\ Retire(u) \/ Return(u) \/ Goto(u, "swap")
      BY <2>s DEF Missed, Clear, GiveUpDelay, ScheduleUnresolved, DelayRecovery,
                  CommitSchedule
    <3>a. ASSUME Retire(u) \/ Return(u) PROVE worker'[u].pc = "idle"
      <4>1. worker' = [worker EXCEPT ![u] = Idle]
        BY <3>a DEF Retire, Return, Finish
      <4>. QED
        BY <3>0, <4>1 DEF Idle
    <3>b. ASSUME Goto(u, "swap") PROVE worker'[u].pc = "swap"
      BY <3>0, <3>b DEF Goto, MoveTo, WorkerStates
    <3>2. worker'[u].pc \in {"idle", "swap"}
      BY <3>0, <3>1, <3>a, <3>b
    <3>. QED
      BY <3>1, <3>2
  <2>5. v # w
    BY <2>2, <2>s
  <2>6. worker[v].gen # row.gen
    BY <2>3, <2>5 DEF IInv, Claims
  <2>7. worker[v].pc \notin {"turn", "completed", "schedule", "commit"}
    BY <2>4, <2>5 DEF IInv, Shapes, Locks
  <2>8. worker[v].pc = "cancel" => worker[v].gen \in Gens
    BY DEF IInv, Shapes
  <2>9. QED
    BY <2>2, <2>6, <2>7, <2>8, GenAssumption
    DEF Missed, Clear, GiveUpDelay, ScheduleUnresolved, DelayRecovery,
        CommitSchedule, Current, KeepRow
<1>2. QED
  BY <1>1, Invariance, PTL DEF Spec, OnlyReloadInterferes

-----------------------------------------------------------------------------
(* RecoveryScheduler implements RecoverySlot.                              *)

(* What the refinement maps the threads to.                                *)
Turns == [w \in Workers |-> IF InTurn(w) THEN worker[w].gen ELSE NoOne]

(* A thread that leaves its turn stops, and nobody else.                   *)
LEMMA OneStops ==
  ASSUME NEW w \in Workers,
         \A v \in Workers \ {w} : worker'[v] = worker[v], ~InTurn(w)'
  PROVE  Slot!Stop(w)
  BY DEF Slot!Stop, InTurn

(* Turns are kept apart again only when the last run that acquired the     *)
(* execution lock has ended: nobody is in a turn then.                     *)
LEMMA QuietAfter ==
  ASSUME IInv, NEW w \in Workers, NEW releases \in BOOLEAN,
         Finish(w, releases), broken, ~broken'
  PROVE  Turns' = Slot!Quiet
<1>1. /\ worker'[w].pc = "idle"
      /\ \A v \in Workers \ {w} : worker'[v] = worker[v] /\ ~worker[v].own
  BY DEF Finish, Idle, IInv, TypeOK
<1>2. \A v \in Workers : ~InTurn(v)'
  BY <1>1 DEF InTurn, IInv, Shapes
<1>. QED
  BY <1>2 DEF Turns, Slot!Quiet, InTurn

LEMMA Mending ==
  ASSUME IInv, NEW w \in Workers, Return(w) \/ broken' = broken
  PROVE  Slot!MayMend
<1>b. broken \in BOOLEAN /\ worker[w].own \in BOOLEAN
  BY DEF IInv, TypeOK, WorkerStates
<1>1. CASE broken' = broken
  BY <1>1 DEF Slot!MayMend
<1>2. CASE Return(w) /\ broken' # broken
  <2>1. broken /\ ~broken'
    BY <1>b, <1>2 DEF Return, Finish
  <2>2. Turns' = Slot!Quiet
    BY <1>b, <1>2, <2>1, QuietAfter DEF Return
  <2>. QED
    BY <2>1, <2>2 DEF Slot!MayMend, Turns
<1>. QED
  BY <1>1, <1>2

(* A step inside a run keeps the turns if it neither starts nor ends one.  *)
LEMMA TurnsKept ==
  ASSUME \A w \in Workers : InTurn(w)' <=> InTurn(w),
         \A w \in Workers : InTurn(w) => worker'[w].gen = worker[w].gen
  PROVE  Turns' = Turns
  BY DEF Turns, InTurn

(* The turn of a fixed job, or of the pending retry, may settle the slot.  *)
LEMMA OwnTurn ==
  ASSUME IInv, NEW w \in Workers, InTurn(w), worker[w].gen = NoGen \/ Current(w)
  PROVE  Slot!OwnTurn(w)
  BY DEF Slot!OwnTurn, Current, Pending, NoRow

(* A step that leaves the clock, the account, the row, the turns and what  *)
(* keeps them apart alone is a stutter of the slot.                        *)
LEMMA SlotStutters ==
  ASSUME Turns' = Turns, UNCHANGED <<now, account, row, broken>>
  PROVE  UNCHANGED Slot!slotVars
  BY DEF Turns, Slot!slotVars

(* The initial state, and each step by what it does to the slot.           *)
LEMMA SlotInit == Init => Slot!Init
  BY DEF Init, Slot!Init, Slot!Quiet, InTurn, Idle

LEMMA SlotStep == IInv /\ [Next]_vars => [Slot!Next]_(Slot!slotVars)
<1> SUFFICES ASSUME IInv, [Next]_vars
             PROVE  Slot!Next \/ UNCHANGED Slot!slotVars
  OBVIOUS
<1> DEFINE Goal == Slot!Next \/ UNCHANGED Slot!slotVars
<1> USE ThreadsAssumption, GenAssumption, DelayAssumption
<1>typed. /\ TypeOK
          /\ \A w \in Workers : worker[w] \in WorkerStates
          /\ row \in Rows \cup {NoRow} /\ now \in Nat /\ broken \in BOOLEAN
  BY DEF IInv, TypeOK
<1>1. CASE Tick \/ ChangeAuth \/ \E life \in Lifecycles : EditAccount(life)
  <2>1. Turns' = Turns /\ row' = row /\ broken' = broken
    BY <1>1, TurnsKept DEF Tick, ChangeAuth, EditAccount, InTurn
  <2>2. CASE Tick
    BY <2>1, <2>2 DEF Tick, Slot!Next, Slot!Pass, Turns
  <2>3. CASE ChangeAuth \/ \E life \in Lifecycles : EditAccount(life)
    <3>1. account' \in [lifecycle : Lifecycles, connected : BOOLEAN]
      BY <2>3, <1>typed DEF ChangeAuth, EditAccount, TypeOK
    <3>2. now' = now
      BY <2>3 DEF ChangeAuth, EditAccount
    <3>3. Slot!AccountChanges
      BY <2>1, <3>1, <3>2 DEF Slot!AccountChanges, Turns
    <3>4. QED
      BY <3>3 DEF Slot!Next
  <2>4. QED
    BY <1>1, <2>2, <2>3
<1>2. CASE Start \/ Shutdown \/ ReloadFixed \/ RestorePending \/ RestoreJob
           \/ \E j \in jobs : SkipInstance(j)
  BY <1>2, TurnsKept, SlotStutters
  DEF Start, Shutdown, ReloadFixed, RestorePending, RestoreJob, SkipInstance,
      InTurn
<1>3. ASSUME NEW w \in Workers,
             \/ FireFixed(w) \/ \E j \in jobs : FireRecovery(w, j)
             \/ SkipFixed(w) \/ Claim(w) \/ Collide(w) \/ TurnCompletes(w)
             \/ \E reset \in now + 1 .. now + MaxReset : TurnBlocked(w, reset)
             \/ ScheduleEligible(w)
      PROVE  Goal
  <2>1. UNCHANGED <<now, account, row, broken>>
    BY <1>3 DEF FireFixed, FireRecovery, SkipFixed, Claim, Collide, Retire,
                TurnCompletes, TurnBlocked, ScheduleEligible
  <2> DEFINE Same == /\ \A v \in Workers : InTurn(v)' <=> InTurn(v)
                     /\ \A v \in Workers : InTurn(v) => worker'[v].gen = worker[v].gen
  <2>a. ASSUME \/ FireFixed(w) \/ \E j \in jobs : FireRecovery(w, j)
               \/ SkipFixed(w) \/ Claim(w) \/ Collide(w)
        PROVE  Same
    <3>1. /\ \A v \in Workers \ {w} : worker'[v] = worker[v]
          /\ worker[w].pc \in {"idle", "fixed", "submitted", "claimed"}
          /\ worker'[w].pc \in {"idle", "fixed", "submitted", "claimed", "delay"}
      BY <2>a, <1>typed
      DEF FireFixed, FireRecovery, SkipFixed, Claim, Collide, Goto, MoveTo, Retire,
          Idle, TypeOK, WorkerStates
    <3>. QED
      BY <3>1 DEF InTurn
  <2>b. ASSUME \/ TurnCompletes(w) \/ ScheduleEligible(w)
               \/ \E reset \in now + 1 .. now + MaxReset : TurnBlocked(w, reset)
        PROVE  Same
    <3>1. /\ \A v \in Workers \ {w} : worker'[v] = worker[v]
          /\ worker[w].pc \in {"turn", "schedule"}
          /\ worker'[w].pc \in {"completed", "schedule", "commit"}
          /\ worker'[w].gen = worker[w].gen
      BY <2>b, <1>typed
      DEF TurnCompletes, ScheduleEligible, TurnBlocked, Goto, MoveTo, TypeOK,
          WorkerStates
    <3>. QED
      BY <3>1 DEF InTurn
  <2>2. Same
    BY <1>3, <2>a, <2>b
  <2>3. Turns' = Turns
    BY <2>2, TurnsKept
  <2>4. QED
    BY <2>1, <2>3, SlotStutters
<1>swap. ASSUME NEW w \in Workers, AddRecoveryJob(w) PROVE Goal
  <2>1. /\ worker[w].pc = "swap" /\ UNCHANGED <<now, account, row>>
        /\ row # NoRow
    BY <1>swap DEF AddRecoveryJob, IInv, Locks, Swapping, Pending, NoRow
  <2>2. PICK raises \in BOOLEAN : Finish(w, worker[w].own \/ raises)
    BY <1>swap DEF AddRecoveryJob
  <2>3. /\ \A v \in Workers \ {w} : worker'[v] = worker[v]
        /\ worker'[w].pc = "idle"
        /\ broken' \in BOOLEAN
        /\ worker[w].own \in BOOLEAN
        /\ (worker[w].own \/ raises) \in BOOLEAN
    BY <1>typed, <2>2 DEF Finish, Idle, TypeOK, WorkerStates
  <2>4. Turns' = Turns
    BY <2>1, <2>3, TurnsKept DEF InTurn
  <2>5. CASE broken' = broken
    BY <2>1, <2>4, <2>5, SlotStutters
  <2>6. CASE ~broken /\ broken'
    <3>1. ~worker[w].own
      BY <2>2, <2>6 DEF Finish
    <3>2. row.collisions = 1
      BY <2>1, <3>1 DEF IInv, Locks
    <3>3. Slot!Breaks
      BY <2>1, <2>4, <2>6, <3>2 DEF Slot!Breaks, Turns
    <3>. QED
      BY <3>3 DEF Slot!Next
  <2>7. CASE broken /\ ~broken'
    <3>1. Turns' = Slot!Quiet
      BY <2>2, <2>3, <2>7, QuietAfter
    <3>2. Slot!Mends
      BY <2>1, <2>4, <2>7, <3>1 DEF Slot!Mends, Slot!MayMend, Turns
    <3>. QED
      BY <3>2 DEF Slot!Next
  <2>8. QED
    BY <1>typed, <2>3, <2>5, <2>6, <2>7
<1>4. CASE Exit
  <2>1. Turns' = Slot!Quiet
    BY <1>4 DEF Exit, Turns, InTurn, Slot!Quiet, Idle
  <2>2. Slot!ProcessEnds
    BY <1>4, <2>1 DEF Exit, Slot!ProcessEnds, Turns
  <2>3. QED
    BY <2>2 DEF Slot!Next
<1>5. CASE RestoreWithoutJob
  <2>1. Turns' = Turns /\ UNCHANGED <<now, account, broken>>
    BY <1>5, TurnsKept DEF RestoreWithoutJob, InTurn
  <2>2. CASE row' = row
    BY <2>1, <2>2, SlotStutters
  <2>3. CASE row' # row
    <3>1. row' = NoRow /\ row # NoRow
      BY <1>5, <2>3 DEF RestoreWithoutJob, KeepRow, DeleteRow
    <3>2. EligibleAt(row.due) => row.due < reloader.time
      BY <1>5, <2>3 DEF RestoreWithoutJob, KeepRow, Overdue
    <3>3. reloader.time <= now /\ reloader.time \in Nat
      BY <1>typed DEF IInv, Shapes, TypeOK, ReloaderStates
    <3>4. row.due <= now \/ ~Slot!Eligible(row.due)
      BY <1>typed, <3>1, <3>2, <3>3 DEF Slot!Eligible, EligibleAt, Rows
    <3>5. Slot!Lapses
      BY <2>1, <3>1, <3>4 DEF Slot!Lapses, Slot!MayMend, Turns
    <3>6. QED
      BY <3>5 DEF Slot!Next
  <2>4. QED
    BY <2>2, <2>3
<1>6. CASE RestoreDueNow
  <2>1. Turns' = Turns /\ UNCHANGED <<now, account, broken>>
    BY <1>6, TurnsKept DEF RestoreDueNow, InTurn
  <2>2. row # NoRow /\ row \in Rows
    BY <1>6, <1>typed DEF RestoreDueNow, IInv, Shapes, NoRow
  <2>3. row.due < now
    BY <1>6, <1>typed, <2>2
    DEF RestoreDueNow, Overdue, IInv, Shapes, TypeOK, ReloaderStates, Rows
  <2>4. /\ row'.gen \in Gens /\ row'.gen # row.gen
        /\ row' = [gen |-> NewGen, due |-> now + DueNowDelay,
                   collisions |-> row.collisions]
    BY <1>6, FreshIsNew DEF RestoreDueNow, Replace
  <2>5. Slot!Postpones
    BY <1>typed, <2>1, <2>2, <2>3, <2>4 DEF Slot!Postpones, Slot!Slots, Rows, Turns
  <2>6. QED
    BY <2>5 DEF Slot!Next
<1>7. ASSUME NEW w \in Workers, StartFixed(w) \/ StartRecovery(w) PROVE Goal
  <2>1. executionLock = NoOne /\ UNCHANGED <<now, account, row, broken>>
    BY <1>7 DEF StartFixed, StartRecovery
  <2>2. ~broken => Turns = Slot!Quiet
    <3>1. ~broken => \A v \in Workers : ~worker[v].own
      BY <2>1 DEF IInv, Locks
    <3>2. ~broken => \A v \in Workers : ~InTurn(v)
      BY <3>1 DEF InTurn, IInv, Shapes
    <3>. QED
      BY <3>2 DEF Turns, Slot!Quiet
  <2>n. worker[w].pc \in {"fixed", "claimed"}
    BY <1>7 DEF StartFixed, StartRecovery
  <2>3. \E pc \in {"turn", "cancel"} : Acquire(w, pc)
    BY <1>7 DEF StartFixed, StartRecovery
  <2>o. /\ \A v \in Workers \ {w} : worker'[v] = worker[v]
        /\ worker'[w].pc \in {"turn", "cancel"}
        /\ worker'[w].gen = worker[w].gen
    BY <1>typed, <2>3 DEF Acquire, TypeOK
  <2>4. CASE worker'[w].pc = "cancel"
    <3>1. Turns' = Turns
      BY <2>n, <2>o, <2>4, TurnsKept DEF InTurn
    <3>2. QED
      BY <2>1, <3>1, SlotStutters
  <2>5. CASE worker'[w].pc = "turn"
    <3>2. Turns' = [Turns EXCEPT ![w] = worker[w].gen]
      BY <2>o, <2>5 DEF Turns, InTurn
    <3>3. \/ worker[w].gen = NoGen /\ account.lifecycle \notin {"paused", "archived"}
          \/ Current(w) /\ EligibleAt(now)
      <4>1. CASE StartFixed(w)
        BY <4>1 DEF StartFixed, IInv, Shapes
      <4>2. CASE StartRecovery(w)
        BY <1>typed, <4>2, <2>5 DEF StartRecovery, Acquire, TypeOK
      <4>3. QED
        BY <1>7, <4>1, <4>2
    <3>4. Current(w) => row # NoRow /\ worker[w].gen = row.gen /\ row.due <= now
      BY DEF IInv, Timing, Current, Pending, NoRow
    <3>5. PICK who \in Gens \cup {NoGen} : who = worker[w].gen
      BY <1>typed DEF WorkerStates
    <3>6. Slot!Begins(w, who)
      BY <2>1, <2>2, <3>2, <3>3, <3>4, <3>5
      DEF Slot!Begins, Slot!Eligible, EligibleAt, Turns
    <3>7. QED
      BY <3>6 DEF Slot!Next
  <2>6. QED
    BY <2>o, <2>4, <2>5
<1>8. ASSUME NEW w \in Workers, TurnFails(w) \/ TurnCollides(w) \/ KeepSchedule(w)
      PROVE  Goal
  <2>0. /\ UNCHANGED <<now, account, row>>
        /\ Return(w) \/ Goto(w, "cancel") \/ Goto(w, "delay")
    BY <1>8 DEF TurnFails, TurnCollides, KeepSchedule
  <2>1. /\ UNCHANGED <<now, account, row>>
        /\ \A v \in Workers \ {w} : worker'[v] = worker[v]
        /\ worker'[w].pc \in {"idle", "cancel", "delay"}
    <3>1. CASE Return(w)
      BY <2>0, <3>1, <1>typed DEF Return, Finish, Idle, TypeOK
    <3>2. ASSUME NEW pc \in {"cancel", "delay"}, Goto(w, pc)
          PROVE  /\ \A v \in Workers \ {w} : worker'[v] = worker[v]
                 /\ worker'[w].pc = pc
      BY <3>2, <1>typed DEF Goto, MoveTo, TypeOK, WorkerStates
    <3>. QED
      BY <2>0, <3>1, <3>2
  <2>m. Slot!MayMend
    BY <1>8, Mending DEF TurnFails, TurnCollides, KeepSchedule
  <2>2. Slot!Stop(w)
    BY <2>1, OneStops DEF InTurn
  <2>3. Slot!Ends(w)
    BY <2>1, <2>m, <2>2 DEF Slot!Ends
  <2>4. QED
    BY <2>3 DEF Slot!Next
<1>lapse. ASSUME Turns' = Turns, UNCHANGED <<now, account>>, Slot!MayMend,
                 row # NoRow, row.due <= now, row' = NoRow
          PROVE  Goal
  <2>1. Slot!Lapses
    BY <1>lapse DEF Slot!Lapses, Turns
  <2>2. QED
    BY <2>1 DEF Slot!Next
<1>mend. ASSUME Turns' = Turns, UNCHANGED <<now, account, row>>, Slot!MayMend
         PROVE  Goal
  <2>1. Slot!Mends
    BY <1>mend DEF Slot!Mends, Turns
  <2>2. QED
    BY <2>1 DEF Slot!Next
<1>9. ASSUME NEW w \in Workers, Missed(w) \/ GiveUpDelay(w) PROVE Goal
  <2>1. /\ UNCHANGED <<now, account>>
        /\ \A v \in Workers \ {w} : worker'[v] = worker[v]
        /\ worker[w].pc \in {"submitted", "delay"} /\ worker'[w].pc = "idle"
        /\ row' = row \/ (row' = NoRow /\ Current(w))
    <3>1. CASE Missed(w)
      BY <1>typed, <3>1 DEF Missed, Retire, Idle, KeepRow, DeleteRow, TypeOK
    <3>2. CASE GiveUpDelay(w)
      BY <1>typed, <3>2 DEF GiveUpDelay, Return, Finish, Idle, TypeOK
    <3>. QED
      BY <1>9, <3>1, <3>2
  <2>m. Slot!MayMend
    BY <1>9, Mending DEF Missed, GiveUpDelay, Retire
  <2>2. Turns' = Turns
    BY <2>1, TurnsKept DEF InTurn
  <2>3. Current(w) => row # NoRow /\ row.due <= now
    BY DEF IInv, Timing, Current, Pending, NoRow
  <2>4. QED
    BY <1>lapse, <1>mend, <2>1, <2>m, <2>2, <2>3
<1>settle. ASSUME NEW w \in Workers, InTurn(w), UNCHANGED <<now, account>>,
                  Slot!Stop(w), Slot!MayMend,
                  \/ row' = row
                  \/ row' = NoRow /\ (worker[w].gen = NoGen \/ Current(w))
           PROVE  Goal
  <2>1. CASE row' = row
    <3>1. Slot!Ends(w)
      BY <1>settle, <2>1 DEF Slot!Ends
    <3>2. QED
      BY <3>1 DEF Slot!Next
  <2>2. CASE row' = NoRow /\ (worker[w].gen = NoGen \/ Current(w))
    <3>1. Slot!OwnTurn(w)
      BY <1>settle, <2>2, OwnTurn
    <3>2. Slot!Settles(w)
      BY <1>settle, <2>2, <3>1 DEF Slot!Settles
    <3>3. QED
      BY <3>2 DEF Slot!Next
  <2>3. QED
    BY <1>settle, <2>1, <2>2
<1>10. ASSUME NEW w \in Workers, Clear(w) PROVE Goal
  <2>1. /\ UNCHANGED <<now, account>>
        /\ \A v \in Workers \ {w} : worker'[v] = worker[v]
        /\ worker[w].pc \in {"completed", "cancel"} /\ worker'[w].pc = "idle"
        /\ \/ row' = row
           \/ row' = NoRow /\ (worker[w].gen = NoGen \/ Current(w))
    BY <1>10, <1>typed
    DEF Clear, Return, Finish, Idle, KeepRow, DeleteRow, Current, TypeOK
  <2>m. Slot!MayMend
    BY <1>10, Mending DEF Clear
  <2>2. CASE worker[w].pc = "completed"
    <3>1. InTurn(w)
      BY <2>2 DEF InTurn
    <3>2. Slot!Stop(w)
      BY <2>1, OneStops DEF InTurn
    <3>3. QED
      BY <1>settle, <2>1, <2>m, <3>1, <3>2
  <2>3. CASE worker[w].pc = "cancel"
    <3>1. Turns' = Turns
      BY <2>1, <2>3, TurnsKept DEF InTurn
    <3>2. worker[w].gen # NoGen
      BY <2>3, GenAssumption DEF IInv, Shapes
    <3>3. Current(w) => row # NoRow /\ row.due <= now
      BY DEF IInv, Timing, Current, Pending, NoRow
    <3>4. QED
      BY <1>lapse, <1>mend, <2>1, <2>m, <3>1, <3>2, <3>3
  <2>4. QED
    BY <2>1, <2>2, <2>3
<1>11. ASSUME NEW w \in Workers, ScheduleUnresolved(w) PROVE Goal
  <2>1. /\ UNCHANGED <<now, account>>
        /\ \A v \in Workers \ {w} : worker'[v] = worker[v]
        /\ worker[w].pc = "schedule" /\ worker'[w].pc = "idle"
        /\ row' = row \/ (row' = NoRow /\ Current(w))
    BY <1>11, <1>typed
    DEF ScheduleUnresolved, Return, Finish, Idle, KeepRow, DeleteRow, TypeOK
  <2>2. InTurn(w) /\ Slot!MayMend
    BY <1>11, <2>1, Mending DEF InTurn, ScheduleUnresolved
  <2>3. Slot!Stop(w)
    BY <2>1, OneStops DEF InTurn
  <2>4. QED
    BY <1>settle, <2>1, <2>2, <2>3
<1>12. ASSUME NEW w \in Workers, DelayRecovery(w) PROVE Goal
  <2>1. /\ UNCHANGED <<now, account, broken>>
        /\ \A v \in Workers \ {w} : worker'[v] = worker[v]
        /\ worker[w].pc = "delay" /\ worker'[w].pc = "swap"
        /\ Current(w) /\ row.collisions = 0 /\ row'.gen # row.gen
        /\ row' = [gen |-> NewGen, due |-> now + CollisionDelay, collisions |-> 1]
        /\ NewGen \in Gens
    BY <1>12, <1>typed, FreshIsNew DEF DelayRecovery, Replace, Goto, MoveTo, TypeOK
  <2>2. Turns' = Turns
    BY <2>1, TurnsKept DEF InTurn
  <2>3. row # NoRow /\ row \in Rows /\ row.due <= now
    BY <1>typed, <2>1 DEF IInv, Timing, Current, Pending, NoRow
  <2>4. Slot!Postpones
    BY <1>typed, <2>1, <2>2, <2>3 DEF Slot!Postpones, Slot!Slots, Rows, Turns
  <2>5. QED
    BY <2>4 DEF Slot!Next
<1>13. ASSUME NEW w \in Workers, CommitSchedule(w) PROVE Goal
  <2>1. /\ UNCHANGED <<now, account, broken>>
        /\ \A v \in Workers \ {w} : worker'[v] = worker[v]
        /\ worker[w].pc = "commit" /\ worker'[w].pc = "swap"
        /\ ~Superseded(w) /\ ~Retained(w)
        /\ row' = [gen |-> NewGen, due |-> worker[w].time, collisions |-> 0]
        /\ NewGen \in Gens /\ NewGen # row.gen
    BY <1>13, <1>typed, FreshIsNew DEF CommitSchedule, Replace, Goto, MoveTo, TypeOK
  <2>2. InTurn(w)
    BY <2>1 DEF InTurn
  <2>3. Slot!Stop(w)
    BY <2>1, OneStops DEF InTurn
  <2>4. worker[w].gen = NoGen \/ Current(w)
    BY <1>typed, <2>1 DEF Superseded, Current, Pending
  <2>5. Slot!OwnTurn(w)
    BY <2>2, <2>4, OwnTurn
  <2>6. worker[w].time \in Nat
    BY <1>typed DEF WorkerStates
  <2>7. row # NoRow => row'.gen # row.gen /\ row'.due > row.due
    BY <1>typed, <2>1, <2>6 DEF Retained, Pending, Rows
  <2>8. Slot!Reschedules(w)
    BY <2>1, <2>3, <2>5, <2>6, <2>7 DEF Slot!Reschedules, Slot!Slots
  <2>9. QED
    BY <2>8 DEF Slot!Next
<1>14. CASE UNCHANGED vars
  <2>1. UNCHANGED <<now, account, row, worker, broken>>
    BY <1>14 DEF vars
  <2>2. Turns' = Turns
    BY <2>1 DEF Turns, InTurn
  <2>3. QED
    BY <2>1, <2>2, SlotStutters
<1>15. QED
  BY <1>1, <1>2, <1>3, <1>swap, <1>4, <1>5, <1>6, <1>7, <1>8, <1>9, <1>10, <1>11,
     <1>12, <1>13, <1>14
  DEF Next, Reload, Fire, RunJob, TurnEnds

(* The scheduler implements its abstract specification: the initial states *)
(* map to initial states, every step to a step of the slot or a stutter.   *)
THEOREM ImplementsSlot == Spec => RefinesSlot
  BY SlotInit, SlotStep, Invariance, PTL DEF Spec, RefinesSlot, Slot!Spec
=============================================================================
