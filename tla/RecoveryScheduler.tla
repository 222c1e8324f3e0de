------------------------- MODULE RecoveryScheduler -------------------------
(***************************************************************************)
(* The daily-anchor recovery of services/scheduler.py (QuotaScheduler), for *)
(* one account.  Recovery rows, recovery locks, execution locks and claims  *)
(* are all keyed by the account id, so accounts share only the clock, the   *)
(* settings and the lifetime of the process, and one account shows every    *)
(* interleaving on its row.                                                 *)
(*                                                                          *)
(* Processes:                                                               *)
(*   - the APScheduler thread, which takes due jobs out of its store;       *)
(*   - Workers, the threads of its pool, each running one job at a time:    *)
(*     run_anchor_job (a fixed daily job) or run_recovery_job;              *)
(*   - the Reloader, the event-loop thread that runs start() and the        *)
(*     request handlers that save something and then call reload().         *)
(*                                                                          *)
(* The provider turn itself (services/smart_anchors.py) appears by its      *)
(* outcomes.  A generation is a uuid4: here an element of Gens that nothing *)
(* live refers to.                                                          *)
(***************************************************************************)
EXTENDS Integers, FiniteSets

CONSTANTS
  Workers,         \* threads of the APScheduler pool
  Reloader,        \* the event-loop thread
  NoOne,           \* a lock that is free
  Gens,            \* generation tokens
  NoGen,           \* "no generation": no row, or a fixed job
  Lifecycles,      \* the account states in use, see AllLifecycles
  OffTimes,        \* instants that fall on a weekday the schedule leaves out
  RetryDelay,      \* due = provider reset + RetryDelay
  CollisionDelay,  \* the single delay after a collision
  DueNowDelay,     \* an overdue row restored within grace is due this much later
  Grace,           \* misfire_grace_time
  SkipMissed,      \* what missed_anchor_policy = "skip_missed" may be: TRUE, FALSE
  MaxReset,        \* bound: a provider reset is at most this far ahead
  MaxTime          \* bound of the clock

AllLifecycles == {"active", "paused", "disabled", "archived"}

ASSUME ThreadsAssumption ==
  /\ Reloader \notin Workers /\ NoOne \notin Workers /\ NoOne # Reloader
ASSUME GenAssumption == NoGen \notin Gens /\ NoOne \notin Gens \cup {NoGen}
ASSUME AccountAssumption == Lifecycles \subseteq AllLifecycles /\ "active" \in Lifecycles
ASSUME DelayAssumption ==
  /\ RetryDelay \in Nat \ {0} /\ CollisionDelay \in Nat \ {0}
  /\ DueNowDelay \in Nat /\ Grace \in Nat /\ SkipMissed \subseteq BOOLEAN
ASSUME BoundAssumption == MaxReset \in Nat /\ MaxTime \in Nat

VARIABLES
  now,            \* the wall clock
  account,        \* Account and AccountSchedule: [lifecycle, connected]
  row,            \* the daily_anchor_recoveries row of the account
  mode,           \* the process: "down", "up", "stopping"
  jobs,           \* recovery jobs in APScheduler's (memory) store
  fixedJobs,      \* are the account's daily cron jobs in the store?
  recoveryLock,   \* owner of _recovery_locks[account]
  scan,           \* jobs seen by the get_jobs() scan of _add_recovery_job
  executionLock,  \* owner of _execution_locks[account]
  inflight,       \* generations in _inflight_recoveries
  worker,         \* what each pool thread is doing
  reloader,       \* what the event-loop thread is doing
  lookupFailed,   \* history: the last _add_recovery_job died in remove_job
  broken          \* history: a run released the execution lock another held,
                  \* and not every run that acquired it has ended since

vars == <<now, account, row, mode, jobs, fixedJobs, recoveryLock, scan,
          executionLock, inflight, worker, reloader, lookupFailed, broken>>

-----------------------------------------------------------------------------
(* Types and null records.                                                 *)

NoRow == [gen |-> NoGen, due |-> 0, collisions |-> 0]
Rows  == [gen : Gens, due : Nat, collisions : 0..1]
Jobs  == [gen : Gens, at : Nat]

(* worker[w].gen is the generation of the recovery job it runs, and NoGen  *)
(* for a fixed job: the replacing_generation its handlers pass on.         *)
(* worker[w].time is the run time of a submitted job, then the due time it *)
(* wants to schedule; worker[w].own: it acquired the execution lock.       *)
WorkerPCs == {"idle", "fixed", "submitted", "claimed", "turn", "completed",
              "cancel", "delay", "schedule", "commit", "swap"}
Idle      == [pc |-> "idle", gen |-> NoGen, time |-> 0, own |-> FALSE]
WorkerStates ==
  [pc : WorkerPCs, gen : Gens \cup {NoGen}, time : Nat, own : BOOLEAN]

ReloaderPCs    == {"idle", "reload", "restore", "swap"}
ReloaderIdle   == [pc |-> "idle", gen |-> NoGen, time |-> 0]
ReloaderStates == [pc : ReloaderPCs, gen : Gens \cup {NoGen}, time : Nat]

TypeOK ==
  /\ now \in Nat
  /\ account \in [lifecycle : Lifecycles, connected : BOOLEAN]
  /\ row \in Rows \cup {NoRow}
  /\ mode \in {"down", "up", "stopping"}
  /\ jobs \subseteq Jobs
  /\ fixedJobs \in BOOLEAN
  /\ recoveryLock \in Workers \cup {Reloader, NoOne}
  /\ scan \subseteq Jobs
  /\ executionLock \in Workers \cup {NoOne}
  /\ inflight \subseteq Gens
  /\ worker \in [Workers -> WorkerStates]
  /\ reloader \in ReloaderStates
  /\ lookupFailed \in BOOLEAN
  /\ broken \in BOOLEAN

-----------------------------------------------------------------------------
(* State formulae.                                                         *)

Pending == row.gen # NoGen

(* _eligible_recovery_now(account, t), and the None of _load_account.      *)
EligibleAt(t) ==
  account.lifecycle = "active" /\ account.connected /\ t \notin OffTimes

(* Tokens that may be looked up again.  A claim alone looks nothing up.    *)
LiveGens ==
  {row.gen, reloader.gen}
    \cup {j.gen : j \in jobs \cup scan} \cup {worker[w].gen : w \in Workers}

FreshGens == Gens \ LiveGens

(* uuid4().hex: a token nothing live refers to.                            *)
NewGen == CHOOSE g \in FreshGens : TRUE

(* APScheduler counts the running instances of a job id (max_instances=1). *)
InstanceOf(g) == \E w \in Workers : worker[w].gen = g

(* Does worker w's recovery still own the row?                             *)
Current(w) == row.gen = worker[w].gen /\ Pending

Overdue == row.due < reloader.time
OutsideGrace(skip) == skip \/ reloader.time - row.due > Grace

-----------------------------------------------------------------------------
Init ==
  /\ now = 0
  /\ account = [lifecycle |-> "active", connected |-> TRUE]
  /\ row = NoRow
  /\ mode = "down"
  /\ jobs = {}
  /\ fixedJobs = FALSE
  /\ recoveryLock = NoOne
  /\ scan = {}
  /\ executionLock = NoOne
  /\ inflight = {}
  /\ worker = [w \in Workers |-> Idle]
  /\ reloader = ReloaderIdle
  /\ lookupFailed = FALSE
  /\ broken = FALSE

-----------------------------------------------------------------------------
(* Pieces of steps.                                                        *)

MoveTo(thread, pc) == [thread EXCEPT !.pc = pc]

Goto(w, pc) == worker' = [worker EXCEPT ![w] = MoveTo(worker[w], pc)]

(* execution_lock.acquire(blocking=False) succeeds.                        *)
Acquire(w, pc) ==
  /\ executionLock' = w
  /\ worker' = [worker EXCEPT ![w] = [pc |-> pc, gen |-> worker[w].gen,
                                      time |-> worker[w].time, own |-> TRUE]]

(* A job returns without having claimed or locked anything.                *)
Retire(w) ==
  /\ worker' = [worker EXCEPT ![w] = Idle]
  /\ UNCHANGED <<executionLock, inflight, broken>>

(* The finally blocks.  A threading.Lock has no owner: release() frees     *)
(* whatever run holds it.  On a free lock it raises, and the claim is not  *)
(* released.                                                               *)
Finish(w, releases) ==
  /\ worker' = [worker EXCEPT ![w] = Idle]
  /\ \/ /\ releases /\ executionLock = NoOne
        /\ UNCHANGED <<executionLock, inflight>>
     \/ /\ ~(releases /\ executionLock = NoOne)
        /\ executionLock' = IF releases THEN NoOne ELSE executionLock
        /\ inflight' = inflight \ {worker[w].gen}
  /\ broken' = /\ \E v \in Workers \ {w} : worker[v].own
               /\ broken \/ (releases /\ ~worker[w].own)

(* A run that raised nothing on its way releases what it acquired.         *)
Return(w) == Finish(w, worker[w].own)

(* _clear_recovery once its guard holds: the row, then that row's job.     *)
DeleteRow ==
  /\ row' = NoRow
  /\ jobs' = {j \in jobs : j.gen # row.gen}

KeepRow == UNCHANGED <<row, jobs>>

(* A commit of the row followed by _add_recovery_job, up to the get_jobs() *)
(* scan; the lock stays with o until the job is swapped.  A claim that was *)
(* never released is on another uuid4 than the new one.                    *)
Replace(o, due, collisions) ==
  /\ FreshGens # {}
  /\ row' = [gen |-> NewGen, due |-> due, collisions |-> collisions]
  /\ inflight' = inflight \ {NewGen}
  /\ recoveryLock' = o
  /\ scan' = jobs

(* Mutant: the jobs seen are left in the store.                            *)
SwapJobWithoutRemove(o, raises) ==
  /\ recoveryLock = o
  /\ jobs' = jobs \cup {[gen |-> row.gen, at |-> row.due]}
  /\ lookupFailed' = FALSE
  /\ recoveryLock' = NoOne
  /\ scan' = {}

(* The rest of _add_recovery_job: remove_job for each job seen (it raises  *)
(* JobLookupError when that job fired meanwhile), then add_job.  After     *)
(* shutdown() nothing is added: _require_scheduler raises, unless it found *)
(* the scheduler just before.                                              *)
SwapJob(o, raises) ==
  /\ recoveryLock = o
  /\ \/ /\ mode = "up" /\ scan \subseteq jobs /\ ~raises
        /\ jobs' = (jobs \ scan) \cup {[gen |-> row.gen, at |-> row.due]}
        /\ lookupFailed' = FALSE
     \/ /\ mode = "up" /\ ~(scan \subseteq jobs) /\ raises
        /\ jobs' = jobs \ scan
        /\ lookupFailed' = TRUE
     \/ /\ mode # "up"
        /\ UNCHANGED <<jobs, lookupFailed>>
  /\ recoveryLock' = NoOne
  /\ scan' = {}

-----------------------------------------------------------------------------
(* The environment: the clock, the user, the provider's login.             *)

Tick ==
  /\ now < MaxTime
  /\ now' = now + 1
  /\ UNCHANGED <<account, row, mode, jobs, fixedJobs, recoveryLock, scan,
                 executionLock, inflight, worker, reloader, lookupFailed,
                 broken>>

(* Settings, schedule, pause, resume, add and archive handlers: the save,  *)
(* then reload().  An unchanged lifecycle is a save of anything else.      *)
EditAccount(life) ==
  /\ mode = "up" /\ reloader.pc = "idle"
  /\ account.lifecycle = "archived" => life = "archived"
  /\ account' = [lifecycle |-> life, connected |-> account.connected]
  /\ reloader' = MoveTo(reloader, "reload")
  /\ UNCHANGED <<now, row, mode, jobs, fixedJobs, recoveryLock, scan,
                 executionLock, inflight, worker, lookupFailed, broken>>

(* Login, logout and status checks change auth_status and reload only the  *)
(* rate-limit listener.                                                    *)
ChangeAuth ==
  /\ mode = "up" /\ account.lifecycle # "archived"
  /\ \E ok \in BOOLEAN \ {account.connected} :
       account' = [lifecycle |-> account.lifecycle, connected |-> ok]
  /\ UNCHANGED <<now, row, mode, jobs, fixedJobs, recoveryLock, scan,
                 executionLock, inflight, worker, reloader, lookupFailed,
                 broken>>

-----------------------------------------------------------------------------
(* The life of the process.                                                *)

Start ==
  /\ mode = "down"
  /\ mode' = "up"
  /\ reloader' = MoveTo(reloader, "reload")
  /\ UNCHANGED <<now, account, row, jobs, fixedJobs, recoveryLock, scan,
                 executionLock, inflight, worker, lookupFailed, broken>>

(* shutdown(wait=False): the store is emptied, submitted jobs still run.   *)
Shutdown ==
  /\ mode = "up" /\ reloader.pc = "idle"
  /\ mode' = "stopping"
  /\ jobs' = {} /\ fixedJobs' = FALSE
  /\ UNCHANGED <<now, account, row, recoveryLock, scan, executionLock,
                 inflight, worker, reloader, lookupFailed, broken>>

(* The process ends, after shutdown or by a crash between any two steps:   *)
(* only the clock and the database survive.                                *)
Exit ==
  /\ mode # "down"
  /\ mode' = "down"
  /\ jobs' = {} /\ fixedJobs' = FALSE
  /\ recoveryLock' = NoOne /\ scan' = {} /\ executionLock' = NoOne
  /\ inflight' = {} /\ worker' = [w \in Workers |-> Idle]
  /\ reloader' = ReloaderIdle /\ lookupFailed' = FALSE /\ broken' = FALSE
  /\ UNCHANGED <<now, account, row>>

-----------------------------------------------------------------------------
(* reload(): the fixed jobs, then _restore_recoveries().                   *)

(* The cron jobs are rebuilt from the account; then the time and the rows  *)
(* are read, before any recovery lock is taken.                            *)
ReloadFixed ==
  /\ reloader.pc = "reload"
  /\ fixedJobs' = (account.lifecycle = "active")
  /\ reloader' = IF Pending
                   THEN [pc |-> "restore", gen |-> row.gen, time |-> now]
                   ELSE ReloaderIdle
  /\ UNCHANGED <<now, account, row, mode, jobs, recoveryLock, scan,
                 executionLock, inflight, worker, lookupFailed, broken>>

(* The row read is gone, no longer eligible, or missed.                    *)
RestoreWithoutJob ==
  /\ reloader.pc = "restore" /\ recoveryLock = NoOne
  /\ IF row.gen # reloader.gen
       THEN KeepRow
       ELSE /\ EligibleAt(row.due) =>
                 Overdue /\ \E skip \in SkipMissed : OutsideGrace(skip)
            /\ DeleteRow
  /\ reloader' = ReloaderIdle
  /\ UNCHANGED <<now, account, mode, fixedJobs, recoveryLock, scan,
                 executionLock, inflight, worker, lookupFailed, broken>>

(* _make_recovery_due_now: overdue within the grace, a new generation.     *)
RestoreDueNow ==
  /\ reloader.pc = "restore" /\ recoveryLock = NoOne
  /\ row.gen = reloader.gen /\ EligibleAt(row.due)
  /\ Overdue /\ \E skip \in SkipMissed : ~OutsideGrace(skip)
  /\ Replace(Reloader, now + DueNowDelay, row.collisions)
  /\ reloader' = MoveTo(reloader, "swap")
  /\ UNCHANGED <<now, account, mode, jobs, fixedJobs, executionLock, worker,
                 lookupFailed, broken>>

RestorePending ==
  /\ reloader.pc = "restore" /\ recoveryLock = NoOne
  /\ row.gen = reloader.gen /\ EligibleAt(row.due) /\ ~Overdue
  /\ recoveryLock' = Reloader /\ scan' = jobs
  /\ reloader' = MoveTo(reloader, "swap")
  /\ UNCHANGED <<now, account, row, mode, jobs, fixedJobs, executionLock,
                 inflight, worker, lookupFailed, broken>>

RestoreJob ==
  /\ reloader.pc = "swap"
  /\ \E raises \in BOOLEAN : SwapJob(Reloader, raises)
  /\ reloader' = ReloaderIdle
  /\ UNCHANGED <<now, account, row, mode, fixedJobs, executionLock,
                 inflight, worker, broken>>

-----------------------------------------------------------------------------
(* APScheduler hands jobs to its pool.                                     *)

FireFixed(w) ==
  /\ mode = "up" /\ fixedJobs /\ worker[w].pc = "idle"
  /\ Goto(w, "fixed")
  /\ UNCHANGED <<now, account, row, mode, jobs, fixedJobs, recoveryLock,
                 scan, executionLock, inflight, reloader, lookupFailed,
                 broken>>

(* A date job leaves the store as it fires.                                *)
FireRecovery(w, j) ==
  /\ mode = "up" /\ worker[w].pc = "idle"
  /\ j.at <= now /\ ~InstanceOf(j.gen)
  /\ jobs' = jobs \ {j}
  /\ worker' = [worker EXCEPT ![w] =
                  [pc |-> "submitted", gen |-> j.gen, time |-> j.at,
                   own |-> FALSE]]
  /\ UNCHANGED <<now, account, row, mode, fixedJobs, recoveryLock, scan,
                 executionLock, inflight, reloader, lookupFailed, broken>>

(* max_instances=1: the job is consumed and nothing runs.                  *)
SkipInstance(j) ==
  /\ mode = "up"
  /\ j.at <= now /\ InstanceOf(j.gen)
  /\ jobs' = jobs \ {j}
  /\ UNCHANGED <<now, account, row, mode, fixedJobs, recoveryLock, scan,
                 executionLock, inflight, worker, reloader, lookupFailed,
                 broken>>

(* Mutant: the fixed job does not try the execution lock.                  *)
StartFixedUnguarded(w) ==
  /\ worker[w].pc = "fixed"
  /\ account.lifecycle \notin {"paused", "archived"}
  /\ Goto(w, "turn")
  /\ UNCHANGED <<now, account, row, mode, jobs, fixedJobs, recoveryLock,
                 scan, executionLock, inflight, reloader, lookupFailed,
                 broken>>

-----------------------------------------------------------------------------
(* run_anchor_job up to the provider turn.  A paused account is skipped,   *)
(* an archived one is not found: neither has a turn.                       *)

StartFixed(w) ==
  /\ worker[w].pc = "fixed"
  /\ executionLock = NoOne
  /\ account.lifecycle \notin {"paused", "archived"}
  /\ Acquire(w, "turn")
  /\ UNCHANGED <<now, account, row, mode, jobs, fixedJobs, recoveryLock,
                 scan, inflight, reloader, lookupFailed, broken>>

SkipFixed(w) ==
  /\ worker[w].pc = "fixed"
  /\ executionLock # NoOne \/ account.lifecycle \in {"paused", "archived"}
  /\ Retire(w)
  /\ UNCHANGED <<now, account, row, mode, jobs, fixedJobs, recoveryLock,
                 scan, reloader, lookupFailed>>

-----------------------------------------------------------------------------
(* run_recovery_job up to the provider turn.                               *)

(* Mutant: a misfire is only recorded as an event.                         *)
MissedUnsettled(w) ==
  /\ worker[w].pc = "submitted" /\ recoveryLock = NoOne
  /\ now - worker[w].time > Grace
  /\ KeepRow
  /\ Retire(w)
  /\ UNCHANGED <<now, account, mode, fixedJobs, recoveryLock, scan,
                 reloader, lookupFailed>>

(* EVENT_JOB_MISSED: the pool thread finds the job too late to run, and    *)
(* _settle_missed_recovery drops the row it was for.                       *)
Missed(w) ==
  /\ worker[w].pc = "submitted" /\ recoveryLock = NoOne
  /\ now - worker[w].time > Grace
  /\ IF Current(w) /\ row.due <= worker[w].time THEN DeleteRow ELSE KeepRow
  /\ Retire(w)
  /\ UNCHANGED <<now, account, mode, fixedJobs, recoveryLock, scan,
                 reloader, lookupFailed>>

(* _claim_recovery.                                                        *)
Claim(w) ==
  /\ worker[w].pc = "submitted" /\ recoveryLock = NoOne
  /\ now - worker[w].time <= Grace
  /\ IF Current(w) /\ worker[w].gen \notin inflight
       THEN /\ inflight' = inflight \cup {worker[w].gen}
            /\ worker' = [worker EXCEPT ![w] =
                  [pc |-> "claimed", gen |-> worker[w].gen, time |-> 0,
                   own |-> FALSE]]
            /\ UNCHANGED <<executionLock, broken>>
       ELSE Retire(w)
  /\ UNCHANGED <<now, account, row, mode, jobs, fixedJobs, recoveryLock,
                 scan, reloader, lookupFailed>>

(* Mutant: the recovery goes ahead whoever holds the execution lock.       *)
StartRecoveryUnguarded(w) ==
  /\ worker[w].pc = "claimed"
  /\ Acquire(w, IF Current(w) /\ EligibleAt(now) THEN "turn" ELSE "cancel")
  /\ UNCHANGED <<now, account, row, mode, jobs, fixedJobs, recoveryLock,
                 scan, inflight, reloader, lookupFailed, broken>>

(* Mutant: what the claim saw of the row is trusted under the lock.        *)
StartRecoveryUnchecked(w) ==
  /\ worker[w].pc = "claimed"
  /\ executionLock = NoOne
  /\ Acquire(w, IF EligibleAt(now) THEN "turn" ELSE "cancel")
  /\ UNCHANGED <<now, account, row, mode, jobs, fixedJobs, recoveryLock,
                 scan, inflight, reloader, lookupFailed, broken>>

(* The execution lock is free: recheck the row and the account under it.   *)
StartRecovery(w) ==
  /\ worker[w].pc = "claimed"
  /\ executionLock = NoOne
  /\ Acquire(w, IF Current(w) /\ EligibleAt(now) THEN "turn" ELSE "cancel")
  /\ UNCHANGED <<now, account, row, mode, jobs, fixedJobs, recoveryLock,
                 scan, inflight, reloader, lookupFailed, broken>>

(* It is not: the run goes on to _delay_recovery without it.               *)
Collide(w) ==
  /\ worker[w].pc = "claimed"
  /\ executionLock # NoOne
  /\ Goto(w, "delay")
  /\ UNCHANGED <<now, account, row, mode, jobs, fixedJobs, recoveryLock,
                 scan, executionLock, inflight, reloader, lookupFailed,
                 broken>>

-----------------------------------------------------------------------------
(* The outcomes of run_scheduled_anchor(account, "daily"), which both kinds *)
(* of run handle: the row is settled, or a later retry is scheduled.       *)

(* decision "sent..." and an anchor_run that is completed.                 *)
TurnCompletes(w) ==
  /\ worker[w].pc = "turn"
  /\ Goto(w, "completed")
  /\ UNCHANGED <<now, account, row, mode, jobs, fixedJobs, recoveryLock,
                 scan, executionLock, inflight, reloader, lookupFailed,
                 broken>>

(* Mutant: a failed recovery leaves its row to the next restart.           *)
TurnFailsUncancelled(w) ==
  /\ worker[w].pc = "turn"
  /\ Return(w)
  /\ UNCHANGED <<now, account, row, mode, jobs, fixedJobs, recoveryLock,
                 scan, reloader, lookupFailed>>

(* Any other end: not completed, a failure that is no usage limit, or a    *)
(* block without a trustworthy future reset.  A fixed job is done; a       *)
(* recovery is cancelled.                                                  *)
TurnFails(w) ==
  /\ worker[w].pc = "turn"
  /\ IF worker[w].gen = NoGen
       THEN Return(w)
       ELSE Goto(w, "cancel") /\ UNCHANGED <<executionLock, inflight,
                                             broken>>
  /\ UNCHANGED <<now, account, row, mode, jobs, fixedJobs, recoveryLock,
                 scan, reloader, lookupFailed>>

(* AnchorAlreadyRunningError: a manual run of the account is active.       *)
TurnCollides(w) ==
  /\ worker[w].pc = "turn"
  /\ IF worker[w].gen = NoGen
       THEN Return(w)
       ELSE Goto(w, "delay") /\ UNCHANGED <<executionLock, inflight,
                                            broken>>
  /\ UNCHANGED <<now, account, row, mode, jobs, fixedJobs, recoveryLock,
                 scan, reloader, lookupFailed>>

(* An active window or a usage limit whose reset is still ahead.           *)
TurnBlocked(w, reset) ==
  /\ worker[w].pc = "turn"
  /\ reset > now
  /\ worker' = [worker EXCEPT ![w] = [pc |-> "schedule", gen |-> worker[w].gen,
                                      time |-> reset + RetryDelay,
                                      own |-> worker[w].own]]
  /\ UNCHANGED <<now, account, row, mode, jobs, fixedJobs, recoveryLock,
                 scan, executionLock, inflight, reloader, lookupFailed,
                 broken>>

-----------------------------------------------------------------------------
(* Settling and rescheduling the row, under the recovery lock.             *)

(* _clear_recovery: a fixed run (NoGen) clears whatever row is pending, a  *)
(* recovery only the row of its own generation.                            *)
Clear(w) ==
  /\ worker[w].pc \in {"completed", "cancel"} /\ recoveryLock = NoOne
  /\ IF Pending /\ worker[w].gen \in {NoGen, row.gen}
       THEN DeleteRow
       ELSE KeepRow
  /\ Return(w)
  /\ UNCHANGED <<now, account, mode, fixedJobs, recoveryLock, scan,
                 reloader, lookupFailed>>

(* Mutant: every collision delays.                                         *)
DelayRecoveryUnbounded(w) ==
  /\ worker[w].pc = "delay" /\ recoveryLock = NoOne
  /\ Current(w)
  /\ Replace(w, now + CollisionDelay, row.collisions + 1)
  /\ Goto(w, "swap")
  /\ UNCHANGED <<now, account, mode, jobs, fixedJobs, executionLock,
                 reloader, lookupFailed, broken>>

(* _delay_recovery: one delay, then the row is deleted.                    *)
DelayRecovery(w) ==
  /\ worker[w].pc = "delay" /\ recoveryLock = NoOne
  /\ Current(w) /\ row.collisions = 0
  /\ Replace(w, now + CollisionDelay, row.collisions + 1)
  /\ Goto(w, "swap")
  /\ UNCHANGED <<now, account, mode, jobs, fixedJobs, executionLock,
                 reloader, lookupFailed, broken>>

GiveUpDelay(w) ==
  /\ worker[w].pc = "delay" /\ recoveryLock = NoOne
  /\ Current(w) => row.collisions >= 1
  /\ row' = IF Current(w) THEN NoRow ELSE row
  /\ Return(w)
  /\ UNCHANGED <<now, account, mode, jobs, fixedJobs, recoveryLock, scan,
                 reloader, lookupFailed>>

(* _schedule_recovery finds the due time past, or the account ineligible   *)
(* then; a recovery has no usable replacement and settles its own row.     *)
ScheduleUnresolved(w) ==
  /\ worker[w].pc = "schedule" /\ recoveryLock = NoOne
  /\ worker[w].time <= now \/ ~EligibleAt(worker[w].time)
  /\ IF Current(w) THEN DeleteRow ELSE KeepRow
  /\ Return(w)
  /\ UNCHANGED <<now, account, mode, fixedJobs, recoveryLock, scan,
                 reloader, lookupFailed>>

(* It finds the account eligible and goes on to the database session.      *)
ScheduleEligible(w) ==
  /\ worker[w].pc = "schedule" /\ recoveryLock = NoOne
  /\ worker[w].time > now /\ EligibleAt(worker[w].time)
  /\ recoveryLock' = w
  /\ Goto(w, "commit")
  /\ UNCHANGED <<now, account, row, mode, jobs, fixedJobs, scan,
                 executionLock, inflight, reloader, lookupFailed, broken>>

(* Mutants: the generation is not compared; the newest block always wins.  *)
SupersededNever(w) == FALSE
RetainedNever(w) == FALSE

(* A recovery whose row was replaced, or a later retry already pending:    *)
(* the row stays as it is and no job is added.                             *)
Superseded(w) == worker[w].gen # NoGen /\ row.gen # worker[w].gen
Retained(w) == Pending /\ row.due >= worker[w].time

KeepSchedule(w) ==
  /\ worker[w].pc = "commit"
  /\ Superseded(w) \/ Retained(w)
  /\ recoveryLock' = NoOne
  /\ Return(w)
  /\ UNCHANGED <<now, account, row, mode, jobs, fixedJobs, scan, reloader,
                 lookupFailed>>

CommitSchedule(w) ==
  /\ worker[w].pc = "commit"
  /\ ~Superseded(w) /\ ~Retained(w)
  /\ Replace(w, worker[w].time, 0)
  /\ Goto(w, "swap")
  /\ UNCHANGED <<now, account, mode, jobs, fixedJobs, executionLock,
                 reloader, lookupFailed, broken>>

(* If this raises in the delay of a run that never acquired the execution  *)
(* lock, its finally releases that lock all the same: execution_lock is    *)
(* set before the acquire and only reset after the delay.                  *)
AddRecoveryJob(w) ==
  /\ worker[w].pc = "swap"
  /\ \E raises \in BOOLEAN :
       SwapJob(w, raises) /\ Finish(w, worker[w].own \/ raises)
  /\ UNCHANGED <<now, account, row, mode, fixedJobs, reloader>>

-----------------------------------------------------------------------------
Reload == ReloadFixed \/ RestoreWithoutJob \/ RestoreDueNow \/ RestorePending
            \/ RestoreJob

Fire(w) == FireFixed(w) \/ \E j \in jobs : FireRecovery(w, j)

TurnEnds(w) ==
  \/ TurnCompletes(w) \/ TurnFails(w) \/ TurnCollides(w)
  \/ \E reset \in now + 1 .. now + MaxReset : TurnBlocked(w, reset)

RunJob(w) ==
  \/ StartFixed(w) \/ SkipFixed(w)
  \/ Missed(w) \/ Claim(w) \/ StartRecovery(w) \/ Collide(w)
  \/ TurnEnds(w)
  \/ Clear(w) \/ DelayRecovery(w) \/ GiveUpDelay(w)
  \/ ScheduleUnresolved(w) \/ ScheduleEligible(w)
  \/ KeepSchedule(w) \/ CommitSchedule(w) \/ AddRecoveryJob(w)

Next ==
  \/ Tick \/ ChangeAuth \/ Start \/ Shutdown \/ Exit
  \/ \E life \in Lifecycles : EditAccount(life)
  \/ Reload
  \/ \E j \in jobs : SkipInstance(j)
  \/ \E w \in Workers : Fire(w) \/ RunJob(w)

Spec == Init /\ [][Next]_vars

(* The threads keep running: a reload and a running job take their next    *)
(* step and are not starved of the recovery lock, the provider's turn      *)
(* ends, and a due job reaches a pool thread (the pool's queue is FIFO).   *)
(* Nothing forces the user, the clock, a start, a stop or a crash.         *)
Fairness ==
  /\ SF_vars(Reload)
  /\ SF_vars(\E w \in Workers : \E j \in jobs : FireRecovery(w, j))
  /\ \A w \in Workers : SF_vars(RunJob(w))

FairSpec == Spec /\ Fairness

-----------------------------------------------------------------------------
(* Safety.                                                                 *)

(* At most one scheduled turn of the account at a time: a fixed job and a  *)
(* recovery, or two recoveries of different generations, overlap (despite  *)
(* the execution lock of run_anchor_job and run_recovery_job) only when a  *)
(* collision whose delay raised has released the lock of a run under way.  *)
Turning(w) == worker[w].pc \in {"turn", "completed"}
OneScheduledTurn ==
  ~broken => \A v, w \in Workers : Turning(v) /\ Turning(w) => v = w

(* While the process is up, a pending row always has somebody to act on    *)
(* it: its job in the store, a run of its generation, a reload about to    *)
(* restore it, or the holder of the recovery lock about to add its job.    *)
(* The one exception is a JobLookupError in _add_recovery_job.             *)
Attended ==
  \/ \E j \in jobs : j.gen = row.gen
  \/ InstanceOf(row.gen)
  \/ reloader.pc = "reload" \/ reloader.gen = row.gen
  \/ recoveryLock # NoOne /\ (reloader.pc = "swap"
                              \/ \E w \in Workers : worker[w].pc = "swap")
NoOrphanRecovery ==
  mode = "up" /\ Pending /\ ~lookupFailed => Attended

(* The dashboard's "Scheduled anchors" never lists a retry that is not the *)
(* pending one: a recovery job dated in the future is the job of the row,  *)
(* at the row's due time, unless its replacement is being swapped in.      *)
(* At most one recovery job is ever in the store.                          *)
ScheduledIsPending ==
  /\ \A j, k \in jobs : j = k
  /\ \A j \in jobs : j.at > now /\ recoveryLock = NoOne
        => row.gen = j.gen /\ row.due = j.at

(* The retry of an account only ever moves later, whoever moves it and in  *)
(* whatever order: "a later pending reset wins", a collision and a restore *)
(* postpone, and each move takes a new generation.                         *)
DueOnlyMovesLater ==
  [][Pending /\ Pending' /\ row' # row
       => row'.due > row.due /\ row'.gen # row.gen]_vars

(* A step of a recovery run whose generation is no longer the row's leaves *)
(* the row alone: "a generation token prevents a stale job from clearing a *)
(* newer replacement".                                                     *)
StaleRunLeavesRow ==
  [][\A w \in Workers :
       worker[w].gen # NoGen /\ worker[w].gen # row.gen /\ worker'[w] # worker[w]
         /\ mode' # "down"
       => row' = row]_vars

(* While a recovery has its turn, nobody but itself and a reload takes its *)
(* row away: a fixed success cannot (the execution lock, unless a raising  *)
(* collision has released it), nor a second instance (the claim), nor a    *)
(* misfire.                                                                *)
OnlyReloadInterferes ==
  [][\A w \in Workers :
       ~broken /\ Turning(w) /\ Current(w) /\ row' # row
         => worker'[w] # worker[w] \/ reloader' # reloader]_vars

-----------------------------------------------------------------------------
(* The abstract specification.  A thread is in its turn from the moment it *)
(* starts until what the turn means for the row is written.                *)

InTurn(w) == worker[w].pc \in {"turn", "completed", "schedule", "commit"}

Slot == INSTANCE RecoverySlot WITH
          Threads <- Workers, Retries <- Gens, Daily <- NoGen,
          Nobody <- NoOne, Empty <- NoRow,
          Accounts <- [lifecycle : Lifecycles, connected : BOOLEAN],
          NewAccount <- [lifecycle |-> "active", connected |-> TRUE],
          slot <- row,
          turn <- [w \in Workers |-> IF InTurn(w) THEN worker[w].gen ELSE NoOne],
          apart <- ~broken

(* The locks, claims, generations, jobs and reloads amount to one slot and *)
(* one turn: a retry has its turn only while it is the pending one, once   *)
(* due, with the account eligible; only its own turn, a daily turn, its    *)
(* due time or its account takes it away; it moves once due or by a turn,  *)
(* later only, and by at most one collision.  Turns overlap only after the *)
(* one delay of a collided retry raised.                                   *)
RefinesSlot == Slot!Spec

-----------------------------------------------------------------------------
(* Liveness.                                                               *)

(* A retry that has come due is handled while the process stays up: it is  *)
(* settled, or moved to a later instant, however often settings are saved  *)
(* and fixed jobs fire meanwhile.  The exception is the JobLookupError.    *)
DueRecoveryIsHandled ==
  (mode = "up" /\ Pending /\ row.due <= now)
    ~> (mode # "up" \/ ~Pending \/ row.due > now \/ lookupFailed)

-----------------------------------------------------------------------------
(* What the documentation says and the code does not do.                   *)

(* docs/usage.md:98 "the scheduler keeps one pending recovery for that     *)
(* account and retries one minute after the observed provider reset": once *)
(* that retry has completed, nothing is pending any more.  A reload during *)
(* the turn gives the row a new generation, which the finished run cannot  *)
(* clear, and the retry is made again.                                     *)
CompletedRecoveryIsOver ==
  [][\A w \in Workers :
       worker[w].pc = "completed" /\ worker'[w].pc = "idle" /\ mode' # "down"
         => ~Pending']_vars

(* scheduler.py:346 "the per-account scheduled-run guard", whose events say *)
(* "skipped because another scheduled run is active" (:273) and "another   *)
(* scheduled anchor is active for this account" (:341): two scheduled runs *)
(* are never in their turns together.  The run that collided releases the  *)
(* guard of the other when its delay raises, and a third run starts.       *)
ScheduledRunsAreGuarded ==
  \A v, w \in Workers : Turning(v) /\ Turning(w) => v = w
=============================================================================
