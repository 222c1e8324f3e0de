# Formal verification of ai-quota-monitor

TLA+ modules, TLC runs and TLAPS proofs for the parts of `src/ai_quota_monitor`
whose correctness depends on the order in which threads, timers, saved settings,
crashes and provider answers happen.

## 1. The system

One process: an asyncio event loop serving FastAPI, the APScheduler thread and
its pool, one waiter thread per device login, one reader thread per app-server
child, and the worker threads of `asyncio.to_thread`. All share one SQLite
database; nothing else survives a restart. Request handlers are `async def` but
call the services synchronously, so a handler is atomic with respect to other
handlers (unless it awaits a `to_thread`) and interleaves with every thread.

| Component | State | Operations | Talks to | Module |
| --- | --- | --- | --- | --- |
| `services/scheduler.py` QuotaScheduler | recovery row, recovery and execution locks per account, in-flight claims, APScheduler's memory store | start, shutdown, reload, run_anchor_job, run_recovery_job, misfire listener | smart anchors, telemetry, accounts | `RecoveryScheduler`, `RecoverySlot` |
| `services/smart_anchors.py` | none of its own | run_scheduled_anchor: pre-refresh, decide, anchor, post-refresh, verify | telemetry, anchors | `AnchorWindows` |
| `services/anchors.py` AnchorService | one lock per account, `anchor_runs` rows | run_manual_anchor | Codex SDK turn | `AnchorRuns` |
| `services/recovery.py`, `reset_times.py` | none (pure) | which reset instant to trust, the daily cadence | scheduler, telemetry | `AnchorWindows` in part |
| `services/codex_auth.py` CodexAuthManager | `_active_logins`, `auth_status` and identity of the account row | start, cancel, refresh, logout, the waiter thread | Codex SDK, listener reload callback | `DeviceLogin` |
| `services/live_updates.py` RateLimitUpdateListener | `_clients` | reload, shutdown, notification ingest | app-server clients, telemetry | `LiveListeners` |
| `services/app_server.py` CodexAppServerClient | child process, reader thread, message queue | start, request, notify, close | the Codex child | `AppServerClient` |
| `services/telemetry.py` TelemetryService | `usage_raw`, `usage_snapshots`, failure events | refresh one / connected / all, record update, latest | app-server client | `UsageTelemetry` |
| `services/accounts.py` | account and schedule rows | create, archive, schedule, pause, seed | dashboard | as state of the others |
| `services/system.py`, `update.py` | the Git checkout, backups | info, check_update, update | git, pip, alembic, systemd | `SystemUpdate` |
| `services/monitor.py`, `routes/`, templates | none | read models and HTTP plumbing | all of the above | the labels, in `UsageTelemetry` |
| `main.py` lifespan | application state | start-up and shutdown order | all of the above | start and stop, in the others |

Where it is hard:

* the recovery row is moved by fixed jobs, recoveries, reloads, misfires and
  restarts on different threads, guarded by a per-account lock, a per-account
  execution lock, a claim set and a generation token, and each of these covers a
  different part of the path;
* APScheduler's store has its own lock, so a job may fire between any two calls;
* a login's waiter outlives the login it waits for, and the status it writes is
  the one the listeners and the scheduler trust;
* a listener is checked for under a lock, started without it (the start takes
  seconds) and registered under it again;
* telemetry is stamped before a slow read, and read back in stamp order;
* any of it may stop at any point and start again from the database alone.

## 2. The modules

Most important first; each module is written to be proved about (constants with
named assumptions, one action per operation, no RECURSIVE operator).

1. `RecoveryScheduler`: the recovery row, its jobs and locks.
2. `RecoverySlot`: what 1 promises, in the abstract; 1 implements it.
3. `DeviceLogin`: `codex_auth.py`, accounts, their attempts and waiters.
4. `LiveListeners`: `live_updates.py` with concurrent reloads.
5. `LoginListeners`, which composes 3 and 4.
6. `AnchorRuns`: `anchors.py`, the account lock and its rows.
7. `UsageTelemetry`: `telemetry.py`, snapshots stamped before a slow read.
8. `AnchorWindows`, which extends 7: `smart_anchors.py` and `recovery.py`.
9. `AppServerClient`: requests, timeouts and the reader thread; `AppServerCall` is what
   it promises, in the abstract.
10. `SystemUpdate`: updates as sequences of commands that may fail.

Theorems about `X` are in `XProofs`; `MCX` and the `.cfg` files that use it are its
instances for TLC. A run that expects a violation checks what a document says and
the code does not do; PROJECT.json quotes the document under "findings".

## 3. RecoveryScheduler: the recovery of a blocked daily anchor

Rows, locks, claims and jobs are all keyed by the account id, so the model keeps
one account; what accounts share (the clock, settings, the life of the process)
is in the model. The state corresponds to the code as follows.

| Variable | Code |
| --- | --- |
| `row` | the `daily_anchor_recoveries` row: generation, `due_at`, `collision_count` |
| `account` | `accounts` and `account_schedules`: what `_eligible_recovery_now` reads |
| `jobs`, `fixedJobs` | APScheduler's memory job store |
| `recoveryLock`, `scan` | `_recovery_locks[id]` while a job is swapped, and the `get_jobs()` result of `_add_recovery_job` |
| `executionLock` | who acquired `_execution_locks[id]` last, if it is held |
| `inflight` | `_inflight_recoveries` |
| `worker`, `reloader` | where each pool thread and the event loop are in their handler; `own`: this run acquired the execution lock |
| `mode` | the process: down, up, or after `shutdown(wait=False)` |
| `lookupFailed` | history: the last `_add_recovery_job` ended in a JobLookupError |
| `broken` | history: a run has released the execution lock that another had acquired, and a run that acquired it is still under way |

Each action is one stretch of code that no other thread can interrupt to any
effect. Merged on purpose: a commit and the `get_jobs()` scan after it (a job
that fires in between is not in the scan, which is the case where it fired
before); the deletion of the row and of its job, both under the recovery lock
(a job that fires in between finds no row at its claim); the acquisition of the
execution lock and the recheck after it; `release()` and the release of the claim. Split on purpose: the scan and the
removal of the jobs it saw, because a job can fire in between and that is where
`remove_job` raises; the eligibility check and the database session of
`_schedule_recovery`. The provider's turn is one step with every outcome the
handlers tell apart. A generation is a uuid4: an element of `Gens` that no row,
job or thread refers to (a claim is looked up only by a thread that carries
its generation, so a token that only a leaked claim is left of is used again,
without the claim); five are enough for two threads (`GenerationsSuffice`:
more than the threads and two always are).

### Runs

| Run | Shows | Bounds |
| --- | --- | --- |
| `recovery_safety` | one turn at a time, but for the foreign release below (`OneScheduledTurn`); a pending retry is never forgotten (`NoOrphanRecovery`); the store holds one recovery job and a future one is the row's (`ScheduledIsPending`); the retry only moves later, under a new generation (`DueOnlyMovesLater`); stale runs leave the row alone (`StaleRunLeavesRow`); during its turn a recovery loses its row only to itself or a reload (`OnlyReloadInterferes`); all of it implements `RecoverySlot` (`RefinesSlot`) | 2 pool threads, clock 0..4, resets at most 2 ahead, delays 1, grace 1, weekday 4 off, active, disabled and archived accounts, either `missed_anchor_policy` at each reload |
| `recovery_liveness` | a retry that came due is settled or moved later (`DueRecoveryIsHandled`) | as above, clock 0..3, resets 1 ahead, no symmetry |
| `reload_repeats_recovery` | violated: a settings save during a recovery's turn makes the recovery twice | 2 threads, clock 0..4, `run_if_within_grace` |

`recovery_safety` has 1,302,870 distinct states (about three minutes) and
`recovery_liveness` 316,988 (four).

The abstract specification is `RecoverySlot`: one slot with at most one retry, and
turns that are kept apart (`apart`) until the one delay of a collided retry
raises (`Breaks`), with no job store, lock, claim or reload. A turn begins for a
fixed job, or for the pending retry once it is due and the account may have it; a
retry is settled by a turn, lapses once due or when its account may not have it,
is replaced by a turn with a later one, or is postponed once due. The refinement
maps the row to the slot and a thread from its check to its last write to a turn;
claiming, locking, scanning, swapping jobs and restoring are stuttering steps.

A threading.Lock has no owner, and `run_recovery_job` sets `execution_lock` before
it tries to acquire it (scheduler.py:336-337) and to None only after
`_delay_recovery` has returned (343). If the delay raises, its `finally` releases the
lock of the run it collided with (391-392). `Finish(w, releases)` is that `finally`:
it frees the lock whoever acquired it, and on a free lock `release()` raises and
the claim stays (393). From then until the last run that acquired the lock has ended
(`broken`), a third run may start beside the first; `OneScheduledTurn`,
`OnlyReloadInterferes` and `RefinesSlot` say what holds otherwise, and
`ScheduledRunsOverlap.cfg` is an instance of `MCRecoveryScheduler` to explore by hand,
no run, in which TLC finds the overlap (`ScheduledRunsAreGuarded`, which leaves `broken`
out) in 25 steps. Even then the two provider turns stay
apart, because `AnchorService` has a lock of its own (section 6). What raises in a
delay is `remove_job`; database exceptions in the scheduler's sessions are not
modelled.

A job that fires between `get_jobs()` and `remove_job()` makes the latter raise
JobLookupError (scheduler.py:551-556) after the new row was committed: the row has no
job until the next reload. `NoOrphanRecovery` and `DueRecoveryIsHandled` make this one
exception, recorded in `lookupFailed`; with the exception left out TLC finds the first violated.

The bounds are enough for the interesting cases: two threads overlap a fixed job
with a recovery, or two recoveries of different generations, while the event
loop reloads as a third party; four instants hold a block, its due time, a
collision delay and a misfire beyond the grace; the crash (`Exit`) is enabled in
every state. A paused account is left out of
`recovery_safety` for its size: its fixed jobs are skipped like an archived one's, its
recoveries ineligible and its return possible like a disabled one's. `CHECK_DEADLOCK FALSE` because the clock is bounded and the system
may rest.

Fairness (`recovery_liveness` only): strong fairness for each thread's steps and
for the reload, because Python's locks wake some waiter and the holders hold
them for a bounded time; the provider's turn ends (the SDK call returns or
raises); a due job reaches a thread because the pool's queue is FIFO. Nothing
forces the clock, the user, a start, a stop or a crash.

### Proofs

`RecoverySchedulerProofs` proves, for every number of threads, every set of
generations, all delays, graces and bounds, that every safety and action
property of `recovery_safety` holds. None of the invariants is inductive alone;
`IInv` adds what they rest on:

* `Shapes`: which generation a thread carries at each point of its run;
* `Locks`: who holds the two locks at each point (the execution lock: as long as
  it is not `broken`), and that a job is swapped only for a committed row;
* `Timing`: a job is dated at its row's due time, and a run that still owns the
  row was fired at that time (so every later due time is later: this is what
  makes `DueOnlyMovesLater` true of the unguarded collision delay and restore);
* `Claims`: a generation has at most one run (so nobody else settles a row
  during its turn);
* `Store`: one job, and a swap has seen all there are.

`FreshIsNew` and `SwapResult` are the lemmas about a new generation and about
the swap, `NextIInv` has one step per action, `RowWriters` says who may change
the row. The assumptions are those of the constants: locks have distinct owners,
delays are positive. `ImplementsSlot` proves the refinement, one lemma per kind of
step. The liveness property is model-checked only.

Two theorems go beyond the properties of the run. `LocksOutliveNoRun`: whenever no
run is under way, the execution lock is free, the pending retry is not claimed and
only a reload's swap holds the recovery lock (`NothingIsBlocked`): no exception,
misfire or refusal blocks a later run. A foreign release does leak a claim, on a
generation that the row no longer has and, a uuid4, will not have again.
`GenerationsSuffice` counts what a row, a job, a claim or a thread can refer to
(`RunGens`): each pool thread carries one generation, the row and its job, being
swapped, at most two more. So the model's finite supply never stands in for a
guard the code does not have.

## 4. DeviceLogin: device logins, status checks and logouts

The event loop runs one handler at a time (the handlers are `async def` and call
the manager synchronously, so a handler that waits for the Codex child blocks
the loop); every started login has a waiter thread. A waiter is identified by
its attempt, so attempt slots bound both, and a closed slot is used again.

| Variable | Code |
| --- | --- |
| `status`, `external`, `archived` | `auth_status`, `account_external_id`, `archived_at` of the account rows |
| `home` | whose credentials are in the account's `CODEX_HOME` |
| `active` | `CodexAuthManager._active_logins` |
| `stranded` | history: accounts whose pending status a restart or a failed cancel has left alone |
| `attempt` | the SDK's login handles: open, uncancelled (open, after a `cancel()` that raised), completed, failed, or closed |
| `task` | where the event loop and each waiter are, the columns of the row their session loaded, what the child told them |

A session writes at commit the columns whose value differs from the one it
loaded (SQLAlchemy's unit of work); `CommitStatus` and `CommitExternal` do the
same, and so a status check can write part of a row over what was committed meanwhile. The query for a duplicate
flushes first, which takes SQLite's write lock, so `_apply_account_info` and its
commit are one step. A call to the child lies between two steps.

| Run | Shows | Bounds |
| --- | --- | --- |
| `logins` | the only code that can still be entered is the active one, or one whose `cancel()` raised (`OneLiveCode`); an active login is watched (`ActiveIsWatched`); a pending status has somebody at work on it (`PendingIsWatched`) and ends (`LoginEnds`) | 1 account, 2 attempts, cancels may raise, restarts; 508,078 states |
| `logout_undone` | violated: a logout is overwritten with connected | 1 account, 1 attempt |

Two attempts are what it takes for one to be replaced while its waiter still
runs; one account is enough because nothing but the duplicate query reads another
account's row. Fairness: a handler and a waiter go on, because nothing they wait
for is held for ever, and an open code is entered or expires, because the provider
gives it a lifetime. `CHECK_DEADLOCK FALSE`: once every account is archived
there is nothing left to do.

Two cases leave a pending status that nobody ends, and the history variable
`stranded` exempts the account they happened to until its next login: a restart (the
status is persisted, its waiter is not) and a cancel that raises after the new
attempt became active (codex_auth.py:159).

`_OpenAiDeviceLoginAttempt.cancel` is a request to the child and then `close()`, with
no `finally` (codex_auth.py:356-358). When the request raises, the child lives on:
a code that was still open stays open, although its login was replaced or
popped, and its waiter waits on (`Cancelled`, outcome "uncancelled"). Under
`CancelMayFail` the model lets this happen at every cancel, of any attempt. Such a
code is what `OneLiveCode` exempts: it is live until it is entered or expires, and
entering it logs the account in. The waiter it still has is why `PendingIsWatched` needs an
exemption only for the case at line 159, and `LoginEnds` too.

With two accounts of one identity there is a sequence that the run, with one
account, does not reach: a first account connects, a second logs in with the same
identity and is marked `duplicate`, then the first is checked again; the query for
another account with that identity (codex_auth.py:288) takes the marked one too, and now
neither is connected, where docs/usage.md:44 speaks of the duplicate only.

`DeviceLoginProofs` proves the four invariants for any accounts, attempts and
identities. `IInv` adds to them that a waiter waits for an attempt of its own account
(`Waiters`), that what is being started is nobody's yet (`Starting`) and what the
event loop holds at each step of a handler (`Guarded`). Under `~Restarts` and
`~CancelMayFail` nothing is ever stranded, and every pending status and every active
login has somebody at work on it (`UndisturbedLoginsAreWatched`): the two cases above
are all there are. `LoginEnds` is model-checked only.

The cancel and the pop of the active login in `cancel_device_login`, and the
pop, the cancel and the load in `logout`, are one step each: the loop is the
only one that starts logins, and a waiter does nothing between the pop and the
cancel that either of them would see. The archive handler is its cancel, its
status commit and its own commit.

## 5. LiveListeners: the app-server listeners

`RateLimitUpdateListener.reload` runs on the event loop (handlers, start-up) and,
as the status callback of `CodexAuthManager`, on the waiter thread of a login.
`Threads` are its callers, `Loop` one of them.

| Variable | Code |
| --- | --- |
| `connected` | the accounts `reload` wants: in use, enabled, `auth_status` "connected" |
| `clients` | `RateLimitUpdateListener._clients` |
| `child` | the child process of each `CodexAppServerClient` object |
| `task` | where each caller is in `reload`, the accounts it has left, the client it is starting |
| `failed` | history: accounts whose last start failed |
| `quiet` | history: the last reload began while no other was under way, and no login has been started for a connected account since |
| `app` | the lifespan of `main.py`: starting, serving, stopped |

The lock covers three stretches separately (closing, look-up, registration); each
is one step, and so is the session that reads the accounts. Whoever commits a
change of an account calls `reload` next, hence `Change` goes straight to it, with
one exception: nobody reloads after the start of a login, which takes a
connected account to `login_pending` (or `auth_failed`), so its listener stays until
somebody else reloads. `StartLogin` is that step. After `Shutdown` only waiters
still call `reload`; `Restart` ends the process with all its children at any
moment, and begins with the reload of `start`.

| Run | Shows | Bounds |
| --- | --- | --- |
| `listeners_overlap` | with two threads, `RegisteredIsOpen`, and the next undisturbed reload repairs what overlapping ones left behind (`ReloadRepairs`) | 2 accounts, 3 clients |

Two threads make every overlap there is between two reloads, the second account
gives a reload something left to do, and three clients leave one free when the
overlap has leaked one; when all are taken a start fails (`SpawnFails`), which a
start may always do. Clients are symmetric.

`ConnectedHasListener` and `ListenerIsConnected`, the two halves of
`ReloadRepairs`, do not hold between overlapping reloads: one that read the
accounts before a login closes the listener the login's own reload has started,
and an account disconnected while its listener starts has it registered after
all. They hold again after the next reload that runs by itself.

Two starts for one account can lose one of the two children (live_updates.py:98
overwrites the entry): nobody closes it before the service ends, and its
notifications are recorded twice. The model has this; `NoLeakedListener` says it
does not happen, and `LeaksTakeOverlap` that it takes two reloads that overlap, whichever
threads they are on. No more than that is true: `main.py:103` makes the waiters
reload, and two overlap when a login completes during a handler's reload. A
listener whose child has died stays registered and is not replaced either
(live_updates.py:75 looks at the entry only).

`LiveListenersProofs` proves `TypeOK`, `RegisteredIsOpen` and `ReloadRepairs` for
any sets of accounts, threads and clients, and `LeaksTakeOverlap`. Nothing is
claimed of the shutdown: a waiter that reloads after it starts a child nobody
closes. A reload of the model always reaches its end; in the code an exception
of the database, in `list_accounts` or `_record_event`, ends it earlier, which
`ReloadRepairs` does not cover. `IInv` adds to the types that a client in hand is still
starting and is in one thread's hands only (`InHand`), and that a registered one
has finished its handshake (`Registered`), so that closing registered clients
cannot touch one that is being started. `ReloadRepairs` follows from `RInv`: a
reload that has the listeners to itself has, at each point, closed what is not
connected and settled all accounts that are no longer in its list.

### LoginListeners: the manager and the listeners together

`LoginListeners` puts `DeviceLogin` and `LiveListeners` (as `L`) into one process:
`connected` is what `reload` computes from the rows (`Connected`), the threads are the
event loop and the waiters, and a thread that commits a change is in `reload`
before it does anything else (`CommitAndReload`). `save_schedule` enables and
disables accounts; a restart is one of both.

Its theorems are in `DeviceLoginProofs`. `JointIsLogin` and `JointIsListeners` say that
the two modules are each the environment the other takes it for, so everything
proved of either holds here (`LoginsBesideListeners`, and `RowsHaveListeners`, which says
`ReloadRepairs` of the rows: `ListenersFollowRows`). A composition could hold because it
forbids steps; that it does not is the point of `ManagerIsTheEnvironment` (every
step of the manager is one the listeners allow at that moment: one account,
followed by a reload unless it starts a login) and of `NobodyIsRefusedAReload` (the
application serves, or has been shut down, whenever somebody commits).

No run is devoted to it, because every module in it has its own and the
theorems cover the rest; `MCLoginListeners` with `LoginListeners.cfg` is an instance to
explore by hand (1 account, 1 waiter, 2 clients, 446,007 states, with cancels that
raise and restarts), in which TLC finds all of this to hold and every action to fire.

## 6. AnchorRuns: manual and scheduled anchor turns

`AnchorService.run_manual_anchor` is called by the "Anchor now" handler on a
worker thread and by `SmartAnchorService.run_scheduled_anchor` on the scheduler's
pool. `RecoveryScheduler` sees the whole of it as one turn with its outcomes; here
it is taken apart, for any number of callers.

| Variable | Code |
| --- | --- |
| `account` | the columns that are read: archived, paused, connected |
| `lock` | `AnchorService._locks[id]` |
| `running` | the account's `anchor_runs` rows with status "running" |
| `task` | where each thread is, the `auth_status` it has read, its row |
| `createFailed` | history: the last `_create_run` of this process raised |
| `faults` | history: crashes and failures that could not be written |

| Run | Shows | Bounds |
| --- | --- | --- |
| `anchor_runs` | one run at a time (`OneRunAtATime`); the lock belongs to a run under way (`HeldByItsRun`) and is given back (`LockIsFreed`), unless the row could not be created; rows are left running by faults only, one each (`AbandonedByFault`) | 2 threads, 2 faults, 3 rows |

Two threads are enough because only one of them can be past the lock; a run needs
one row and each fault leaves one behind. Fairness: a thread goes on, because
nothing it waits for is held for ever and the SDK call returns or raises.

The exception `createFailed` is the code's: the row is created after the lock was
taken and before the `try` that gives it back (anchors.py:58-66), so when that commit raises,
every later anchor of the account is refused until the service is restarted.

`AnchorRunsProofs` proves the four invariants for any number of threads, rows and
faults. `IInv` adds to the types that a run under way has the lock (`Owner`), from
which both mutual exclusion and the bound on abandoned rows follow: only the
owner's row can be lost by a restart. `FewerRows` and `OneMoreRow` do the counting.
`LockIsFreed` is model-checked only. `RowsSuffice` shows that the supply of rows
never keeps a run from being recorded, and `LostLockLastsUntilRestart` that the
exception `createFailed` is permanent: once the lock is lost that way it
stays with a thread that has gone, until the process is restarted.

## 7. UsageTelemetry and AnchorWindows: what is known of an account's usage

`UsageTelemetry` is `telemetry.py` for one account (rows and failure events are
kept by account): any number of threads that refresh (the poll, the dashboard,
an anchor) and the reader thread that records notifications, together with the
label the dashboard derives. Codex is external: a 5-hour window opens at its
first use and is reset five hours later; a payload says truly what Codex counts
but may leave out either window. The reset of a window that is not open is
absent from a payload.

| Variable | Code |
| --- | --- |
| `now` | `datetime.now(UTC)`; it moves with each stamp, so no two stamps agree (they have microseconds and a commit or a read lies between two) |
| `codex` | external: when the window was opened and is reset, whether it is at its limit, the weekly window |
| `latest` | the `usage_snapshots` row with the latest `captured_at`: nothing else is ever looked up |
| `failed` | the latest `telemetry.refresh.failed` event |
| `calls` | the threads in `refresh_account_usage` or `_handle_notification`: their stamp and what the child answered |
| `outcome` | history: how the last call to be recorded ended, if it was alone |

A refresh is three steps, because the stamp is taken before the child is asked
(telemetry.py:88) and the answer is recorded after. `Store` is one step: its first
statement inserts into `usage_raw`, which takes SQLite's write lock until the
commit, and the look-up it merges with comes after that.

`AnchorWindows` extends it with one scheduled anchor: `smart_anchors.py`
(pre-check, decision, turn, refresh, verification) and the resets that
`recovery.py` finds for a turn that was skipped or refused. A refusal (`anchor.error`)
may tell its reset as metadata (`structured_reset_from_error`, trusted first), name
it as an hour and a minute in its text (`parse_usage_limit_reset`, the last
resort), both, or neither; between the two comes the payload of a refresh made
for it. `TextReset` is what the text is worth: a time without a date is of the
day of the failure, or of the next when it is a minute past. Its refreshes are
those of `UsageTelemetry`, made by the thread `Anchor`.

| Run | Shows | Bounds |
| --- | --- | --- |
| `usage_telemetry` | a value once known stays known in whatever order calls read, are stamped and stored (`KnownStaysKnown`); a refresh that ran alone decides whether an error is shown (`QuietRefreshDecides`); a window shown as "Active" by a reported reset is open at Codex (`ActiveIsOpen`) | 2 refreshing threads and the listener, clock 1..5, window 2 |
| `anchor_windows` | an anchor is skipped only while Codex has a window open (`SkipIsJustified`); it is verified only if a window was opened since the reset seen before (`VerifiedMeansNew`); a recovery is set to what the error told as metadata, to the reset of the last window its payload shows at the limit, or to the minute the text named (`RecoveryOutlasts`); a turn is left without a recovery only once the reset its error told has passed (`ToldIsHeard`) | the anchor and the listener, clock 1..4, minutes of 2, days of 4, weekly reset known or not; 1,800,944 states |
| `known_is_shown` | violated: a sparse notification that overtakes the first full read hides a value the database holds | as `usage_telemetry` |

Two refreshes and a notification are all the orders there are between a stamp, a
commit and another stamp; five instants hold a read, a later stamp committed
before it, a failure, and a window that opens and is reset. The clock stops at
its bound: hence `CHECK_DEADLOCK FALSE`.

`known_is_shown` needs the first refresh: later ones are merged with a row that
has the value already, which is why `KnownStaysKnown` holds and is proved.

`UsageTelemetryProofs` proves the four properties of `usage_telemetry` for any
number of threads, any window length and any weekly windows. `IInv` adds to the types `Alone`
(a call marked alone has no other in flight, and no other row or event was
recorded since its stamp) and `Reported` (no reset in a row or in a call in flight
lies beyond the one Codex has now, which only grows).

`AnchorWindowsProofs` proves the four properties of `anchor_windows` and its types
(`AnchorTypeOK`, which is in no run), on top of that
invariant: every step of an anchor is a step of `UsageTelemetry` (`AnchorIsUser`), so
`AnchorWindows` implements it (`AnchorsUseTelemetry`) and the dashboard's properties
hold while anchors run (`AnchorsKeepTheDashboard`). What it adds
is that a reset somebody was told is the reset of the last window Codex opened or lies before its
opening (`Told`), which is what makes a later reset the sign of a new window; that a
run keeps comparing with the reset its own pre-check was told (`Sound`); and, of the
resets `recovery.py` finds in a payload (`BlockingOf`, `ActiveOf`), that they are those of the last window that
blocks, and of the one it reads in a text, that it is the minute meant (`ByText`, `Near`).

What a refusal tells is true in the model, of a window that blocks; of which one, the
code has no means to know, and takes it as it is. A text is taken to be in
the account's time zone, as the code takes it; days have one length (the code
refuses the ambiguous and the missing times of the days on which clocks change);
and a reset named more than a day ahead comes out early, so that the retry is
refused again: `TextIsNear` sets it apart.

Not modelled: a poll ends at the first account whose payload does not parse
(only `KeyError` is caught, telemetry.py:181), so the accounts after it wait for
the next poll; the wording of an error, with the two regular expressions that find a
usage limit and a time in it; the calendar of expected resets (a Boolean: there is one in
the future, or none); a wall clock that is set back.

## 8. AppServerClient: JSON-RPC over a child's pipes

One client from `start` to `close`, with its reader thread and its child. Telemetry
uses one in a `with` block for a single request, a listener keeps one for its
notifications (`listening`).

| Variable | Code |
| --- | --- |
| `user` | the thread in `start`, `initialize`, `request`, `close`: where it is, which message it sends or waits for, whether the limits were returned |
| `reader` | the thread in `_read_stdout` |
| `queue` | `_messages` |
| `child` | external: the process, the requests it owes and has answered, what it wrote to standard error |
| `stdout` | the pipe between child and reader |

The child is a hostile environment: it answers or not, in any order and with a
result or an error; in between it sends notifications, requests of its own and
lines that do not parse; it hangs for good once the pipe of standard error, which nobody
reads while it runs, is full; it may end at any moment. A listener that raises
ends the reader, and so does a line that does not parse.

| Run | Shows | Bounds |
| --- | --- | --- |
| `app_server` | what `request` returns is the child's answer to that request, and the limits are asked for only after `initialize` was answered (`AnswersItsOwn`); a request never waits at a queue nobody will write to (`WaitIsWoken`); for its user the client is the conversation of `AppServerCall` (`RefinesCall`); a request ends (`RequestEnds`) | pipes of 2, 4 messages that answer nothing |

Pipes of two lines fill up before the reader takes one and let an answer stand
behind chatter; four messages are one of each kind. Fairness: the threads of the
service go on and a timeout ends a wait; nothing is assumed of the child. That
it does not chatter for ever is the bound `MaxChatter`, and the run needs it: the
timeout is per message (app_server.py:118), so notifications keep a request
waiting as long as they come. `CHECK_DEADLOCK FALSE`: the client ends.

`AppServerCall` is what the client promises: a caller that starts, asks, hears the
answer to what it asked or fails, and closes, and a child that answers each request
at most once or ends. It has no reader, no queue, no pipe and nothing the child
says in between; `AppServerClient` maps `user` and the child's life and answers to
it and hides the rest. A failure of any kind (a broken pipe, an `error`, an end of
output, an exception of the reader, a timeout) is one step of it, and the rule which
failures close the child is stated there once. `LeftIsEnded` follows, and is proved.

The exception is the code's: `__enter__` starts the child and then
initializes it (app_server.py:55-58), and Python does not call `__exit__` when
`__enter__` raises, so the child of a client whose handshake failed lives on
until the service ends. Every other failure closes it.

`AppServerClientProofs` proves `TypeOK`, `AnswersItsOwn`, `WaitIsWoken` and
`LeftIsEnded` for pipes of every size and any amount of chatter, and
`ImplementsCall`, the refinement, one step after the other. The invariant adds who
has been asked what: an answer in the pipe or in the queue was given by the child
(`Given`), and a user that may come to wait is told when the reader ends
(`WillBeWoken`). `Given` is what the refinement needs: the head of the queue, when
it is taken for the answer, is one the child has given. `RequestEnds` is model-checked
only.

## 9. SystemUpdate: updates of a running service

`SystemService.update` and `check_update`, called from the dashboard (on worker
threads) and from a shell (`update.py`), on one checkout, one virtual environment
and one database, together with systemd and the start of the service, which
migrates too. A version is a commit of the upstream branch and brings one
revision of the schema and one set of dependencies.

| Variable | Code |
| --- | --- |
| `conf` | settings: deployment mode, web updates, SQLite or not, and whether the sudo helper is installed |
| `upstream`, `git` | the remote branch; the remote-tracking ref, HEAD, local commits and edits, the owner of the files |
| `deps`, `schema`, `half` | what pip installed; the revision the database is stamped with, or that there is none; whether the next revision is begun and not stamped |
| `service`, `restartDue` | the systemd unit and the version of its code; the helper's timer of two seconds |
| `task` | each call: its next command, what it found, copied and read, and its answer |

A command is a step; the copy of the database, pip and Alembic have a begin and
an end, because what they found may be changed in between by another call.
Alembic applies one revision after another, so that two migrations interleave; it
re-reads nothing between them, but the database refuses one that is not at the
revision it expects. Every revision under `src/alembic/versions` begins with a statement
of the schema language, which SQLite commits at once, and its stamp is committed
after its last statement: so a revision has a begin and an end (`BeginRevision`,
`MigrateStep`, and the same for the service's start), and a failure, a kill or a
restart between them leaves it `half` applied under the old stamp. From then on
every migration fails on a table or column that exists, the service's own
included. Every command may fail (`CommandFails`), the service may
be killed (`Crash`), a shell interrupted (`Interrupt`), somebody may edit or
commit tracked files (`WorkLocally`). `conf.sqlite` is that `_database_path` (system.py:627)
finds a file name in the URL, `NoDb` that there is no such file.

| Run | Shows | Bounds |
| --- | --- | --- |
| `system_update` | "Update completed." means that code, packages and schema are of the commit merged, when no other update ran (`CompletedInstalls`); running code never meets a schema older than it needs (`CodeKnowsSchema`); while an update's Alembic is at work, the database the update found is copied, at no later revision, and in one piece unless another migrated it meanwhile (`MigratesWhatItCopied`); an offered update can be fast-forwarded to (`OfferIsSafe`) | one call from each side, two versions behind, three deployments; 2,996,410 states |

One dashboard call and one shell call are every pair of updates and checks there
is, since both have the same steps; two versions let a push come between two
fetches. `CompletedInstalls` and `OfferIsSafe` say nothing of calls that were not alone:
two updates at a time can complete with each other's packages, and a merge or an
edit during a check makes its answer old, so that what `OfferIsSafe` guards
against is an offer made for commits of one's own, or beside the fetches of
other calls. `CompletedInstalls` takes it that running pip again repairs an
environment that an interrupted pip has left broken.

`SystemUpdateProofs` proves the five invariants for any number of callers and
versions. Its lemmas are invariants of their own, each inductive relative to those
before: `Forward` (no ref, schema or running code is ahead of what it came from),
`Copied` (from its copy on, what a call has copied is what it found, or `Torn` if the
stamp has moved since), `Exclusive` (of two updates
marked alone one has ended), `Reached` (what the commands of an update that is
alone have done so far still holds) and `Read` (what a check that is alone has read
is still so).

What the model shows and no property states, because nothing promises
otherwise: an update of root's that fails before its last command leaves files
of root's, which the service cannot fetch into (src/README.md:152 speaks only of updates
that complete); after an update that failed in pip or Alembic the next check finds HEAD at
upstream and answers "Already up to date." (system.py:463-468), which hides the
button that would repair it; the helper of one update restarts the service and
kills another; the start of the service migrates without a copy; a revision cut
short, by any of these, ends all migrating until somebody repairs the database by
hand or puts the copy back. Not modelled:
that `copy2` of a database in use (system.py:167) can hold half a transaction, and
a relative database URL, which the service and the update resolve against
different directories.

## 10. Composition

`DeviceLogin`, `LiveListeners`, `RecoveryScheduler` and `AnchorRuns` meet in the account
row: the first writes the status that the second sees as `connected` and the
others as `account`. `LoginListeners` composes the first two, and it is proved that
each is the environment the other takes it for (section 5). The other two take
every change of the row at any moment (`ChangeAuth`, `EditAccount`, `ChangeAccount`),
which is more than `DeviceLogin` does, so what holds in each holds in the whole.

`AnchorRuns` takes apart the turn of `RecoveryScheduler` (completed,
failed or refused, each of which that module allows at any time), and
`AnchorWindows` what comes before and after it: which of skipped, completed and
limited it ends as, and to which reset the retry is set. `AnchorWindows` extends
`UsageTelemetry`, so an anchor's refreshes interleave with all other refreshes, and
it is proved to implement it.

`AppServerClient` is the child that `UsageTelemetry` asks in one step (`Answer`, `Fail`)
and that `LiveListeners` starts and closes; that one step is enough is what
`AppServerCall`, the conversation the client implements, says. `SystemUpdate`
restarts the service, which the other modules have as `Exit` or `Restart` at any
moment.

## 11. What is proved and what is model-checked only

Proved for all values of the constants: every invariant and action property of the
passing runs, the refinements of `RecoverySlot`, `AppServerCall` and `UsageTelemetry`, the
composition of `DeviceLogin` and `LiveListeners`, that locks outlive no run, that a
lost lock stays lost, that finite supplies of generations and rows block nothing,
and that a leaked listener takes two reloads that overlap.

Model-checked only: the liveness properties `DueRecoveryIsHandled`, `LoginEnds`,
`LockIsFreed` and `RequestEnds`, which rest on fairness, and the three violated claims
of documents and tests.

## 12. Not modelled

* Wording and calendars: `reset_times.py` beyond the test for an active window
  (the daily cadence, expected resets), the wording of error messages (the time
  found in one is modelled), time zones and clock changes.
* The event log and the read models other than a window's label: no decision
  reads them.
* Accounts are created, slugged and seeded by straight-line code in one
  transaction.
* Configuration, engine and logger set-up, templates, static files, what the Alembic
  revisions do to tables (that one is not atomic is modelled), the installer and
  update shell scripts.

## 13. Out of the provers' reach

Liveness under fairness and `ENABLED`, which stay with TLC. The rest needs no
induction over data: no definition here is recursive.
