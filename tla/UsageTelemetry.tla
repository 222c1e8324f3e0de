--------------------------- MODULE UsageTelemetry ---------------------------
(***************************************************************************)
(* services/telemetry.py: the usage of a Codex account, read by polls,      *)
(* refreshes of the dashboard and anchors, each on a thread of its own, and *)
(* told by the notifications that services/live_updates.py hands over; and  *)
(* what services/monitor.py makes of it on the dashboard.                   *)
(*                                                                          *)
(* Rows and events are kept by account, so the model keeps one account.  Of *)
(* the rows only the latest is ever looked up, by the time it is stamped    *)
(* with, so only that one is kept.  The clock moves on with each stamp: a   *)
(* stamp has microseconds, and a commit or a read lies between two.         *)
(***************************************************************************)
EXTENDS Integers

CONSTANTS
  Refreshers,   \* threads that call refresh_account_usage
  Listener,     \* the reader thread of the account's app-server child
  FiveHours,    \* length of the 5-hour window
  Weekly,       \* the weekly windows considered
  StaleAfter,   \* build_monitor_view: max(15, 3 * usage_poll_interval_minutes)
  MaxTime       \* bound: instants of the clock

Callers == Refreshers \cup {Listener}
NoTime  == 0
Clock   == 0..MaxTime
Times   == 0..(MaxTime + FiveHours)

ASSUME CallersAssumption == Listener \notin Refreshers
ASSUME TimesAssumption ==
  FiveHours \in Nat \ {0} /\ StaleAfter \in Nat /\ MaxTime \in Nat \ {0}

ASSUME WeeklyAssumption ==
  Weekly \subseteq [used : {"low", "full"}, reset : Times]

VARIABLES
  now,       \* datetime.now()
  codex,     \* external: the windows as Codex counts them
  latest,    \* latest_usage_snapshot
  failed,    \* created_at of the latest telemetry.refresh.failed event
  calls,     \* the threads in TelemetryService
  outcome    \* history: how the last refresh to be recorded ended, if alone

vars == <<now, codex, latest, failed, calls, outcome>>

-----------------------------------------------------------------------------
(* A window: how much of it is used (below or at its limit) and when it is *)
(* reset.  _parse_window drops one without usedPercent.                     *)
Window  == [used : {"none", "low", "full"}, reset : Times]
Absent  == [used |-> "none", reset |-> NoTime]
Payload == [five : Window, week : Window]
Status  == {"ok", "partial", "unsupported"}
Row     == [at : Clock, five : Window, week : Window, status : Status \cup {"none"}]
NoRow   == [at |-> NoTime, five |-> Absent, week |-> Absent, status |-> "none"]

(* A call in flight; with no result to keep it is idle again.              *)
InFlight == {"reading", "answered"}
Idle     == [pc |-> "idle", at |-> NoTime, alone |-> FALSE,
             payload |-> [five |-> Absent, week |-> Absent]]
Call     == [pc : InFlight \cup {"idle"}, at : Clock, alone : BOOLEAN, payload : Payload]

Known(row) == {w \in {"five", "week"} : row[w].used # "none"}

TypeOK ==
  /\ now \in Clock
  /\ codex \in [opened : Clock, reset : Times, full : BOOLEAN, week : Window]
  /\ latest \in Row /\ latest.at <= now
  /\ latest.status = "ok" => Known(latest) = {"five", "week"}
  /\ failed \in Clock /\ failed <= now
  /\ calls \in [Callers -> Call]
  /\ \A c \in Callers : calls[c].at <= now
  /\ outcome \in {"stored", "failed", "mixed"}

(* The account is new, or there was a refresh before the first instant.    *)
Init ==
  /\ now = 1
  /\ codex \in [opened : {NoTime}, reset : {NoTime}, full : {FALSE},
                week : Weekly]
  /\ latest = NoRow /\ failed = NoTime
  /\ calls = [c \in Callers |-> Idle]
  /\ outcome = "mixed"

-----------------------------------------------------------------------------
(* Codex: a window is open from its first use until its reset, which is    *)
(* what it is reported with; a payload may leave out a window.              *)
Open == codex.reset > now
FiveHour == [used  |-> IF Open /\ codex.full THEN "full" ELSE "low",
             reset |-> IF Open THEN codex.reset ELSE NoTime]
Payloads == [five : {Absent, FiveHour},
             week : {Absent, codex.week}]

(* Used in an open window it may come to its limit.                        *)
UseCodex ==
  /\ IF Open
       THEN \E f \in BOOLEAN : codex' = [codex EXCEPT !.full = codex.full \/ f]
       ELSE codex' = [codex EXCEPT !.opened = now, !.reset = now + FiveHours,
                                   !.full = FALSE]

-----------------------------------------------------------------------------
(* normalize_rate_limits and _snapshot_from_normalized.                    *)
ParserStatusOfAny(p) == IF Known(p) = {} THEN "unsupported" ELSE "ok"   \* mutant
ParserStatus(p) ==
  IF Known(p) = {"five", "week"} THEN "ok"
  ELSE IF Known(p) = {} THEN "unsupported" ELSE "partial"

Pick(new, previous) ==
  [used  |-> IF new.used # "none" THEN new.used ELSE previous.used,
   reset |-> IF new.reset # NoTime THEN new.reset ELSE previous.reset]

Snapshot(c) == [at |-> calls[c].at, status |-> ParserStatus(calls[c].payload),
                five |-> Pick(calls[c].payload.five, latest.five),
                week |-> Pick(calls[c].payload.week, latest.week)]

(* _latest_refresh_error.                                                  *)
ErrorShownUntilFirst == failed # NoTime /\ latest = NoRow   \* mutant
ErrorShown == failed # NoTime /\ (latest = NoRow \/ failed > latest.at)

-----------------------------------------------------------------------------
Stamp == now < MaxTime /\ now' = now + 1

(* History: a call that begins finds others in flight, or is found.        *)
Entered(c, call) ==
  [d \in Callers |->
     IF d = c THEN [call EXCEPT !.alone = \A e \in Callers \ {c} :
                                             calls[e].pc \notin InFlight]
     ELSE IF calls[d].pc \in InFlight THEN [calls[d] EXCEPT !.alone = FALSE]
     ELSE calls[d]]

(* refresh_account_usage: the stamp is taken before the child is asked.    *)
Begin(c) ==
  /\ c \in Refreshers
  /\ calls[c].pc = "idle"
  /\ Stamp
  /\ calls' = Entered(c, [Idle EXCEPT !.pc = "reading", !.at = now + 1])
  /\ UNCHANGED <<codex, latest, failed, outcome>>

(* The child answers.                                                      *)
Answer(c) ==
  /\ calls[c].pc = "reading"
  /\ \E p \in Payloads : calls' = [calls EXCEPT ![c].pc = "answered", ![c].payload = p]
  /\ UNCHANGED <<now, codex, latest, failed, outcome>>

(* _handle_notification.                                                   *)
Notify ==
  /\ calls[Listener].pc = "idle"
  /\ Stamp
  /\ \E p \in Payloads :
       calls' = Entered(Listener, [Idle EXCEPT !.pc = "answered", !.at = now + 1,
                                               !.payload = p])
  /\ UNCHANGED <<codex, latest, failed, outcome>>

(* What is left of a call that returns or raises.                          *)
Ends(c)       == calls' = [calls EXCEPT ![c] = Idle]
Recorded(c, end) == outcome' = IF calls[c].alone THEN end ELSE "mixed"

(* The child does not answer: _record_refresh_failure.                     *)
Fail(c) ==
  /\ calls[c].pc = "reading"
  /\ Stamp
  /\ failed' = now + 1
  /\ Ends(c) /\ Recorded(c, "failed")
  /\ UNCHANGED <<codex, latest>>

(* Mutant: only the payload of a notification is merged.                   *)
StoreAsReported(c) ==
  /\ calls[c].pc = "answered"
  /\ latest' = IF calls[c].at <= latest.at THEN latest
               ELSE IF c = Listener THEN Snapshot(c)
               ELSE [Snapshot(c) EXCEPT !.five = calls[c].payload.five,
                                        !.week = calls[c].payload.week]
  /\ Ends(c) /\ Recorded(c, "stored")
  /\ UNCHANGED <<now, codex, failed>>

(* record_rate_limit_update: SQLite lets one writer at a time from the     *)
(* insert into usage_raw to the commit, so it is one step.                  *)
Store(c) ==
  /\ calls[c].pc = "answered"
  /\ latest' = IF calls[c].at > latest.at THEN Snapshot(c) ELSE latest
  /\ Ends(c) /\ Recorded(c, "stored")
  /\ UNCHANGED <<now, codex, failed>>

(* The account is archived, a value does not parse, or the database is     *)
(* locked for too long.                                                     *)
StoreRaises(c) ==
  /\ calls[c].pc = "answered"
  /\ Ends(c)
  /\ UNCHANGED <<now, codex, latest, failed, outcome>>

-----------------------------------------------------------------------------
(* The service is restarted.                                               *)
Restart ==
  /\ calls' = [c \in Callers |-> Idle]
  /\ UNCHANGED <<now, codex, latest, failed, outcome>>

Tick ==
  /\ Stamp
  /\ UNCHANGED <<codex, latest, failed, calls, outcome>>

(* The user works with Codex.                                              *)
Work == UseCodex /\ UNCHANGED <<now, latest, failed, calls, outcome>>

Refresh(c) == Begin(c) \/ Answer(c) \/ Fail(c) \/ Store(c) \/ StoreRaises(c)

Next == (\E c \in Callers : Refresh(c)) \/ Notify \/ Restart \/ Tick \/ Work

Spec == Init /\ [][Next]_vars

-----------------------------------------------------------------------------
(* The dashboard: _window_status_label.  The reset of a row that has none  *)
(* is the one expected of the schedule, if it has any.                      *)
Stale == latest # NoRow /\ latest.at < now - StaleAfter
LabelAsCaptured(w, expected) ==                             \* mutant
  IF latest = NoRow THEN IF ErrorShown THEN "Error" ELSE "Waiting"
  ELSE IF Stale THEN "Stale"
  ELSE IF latest.status # "ok" THEN latest.status
  ELSE IF IF w.reset # NoTime THEN w.reset > latest.at ELSE expected THEN "Active"
  ELSE IF w.used = "none" THEN "Unknown"
  ELSE IF w.used = "full" THEN "High" ELSE "Ready"
Label(w, expected) ==
  IF latest = NoRow THEN IF ErrorShown THEN "Error" ELSE "Waiting"
  ELSE IF Stale THEN "Stale"
  ELSE IF latest.status # "ok" THEN latest.status
  ELSE IF IF w.reset # NoTime THEN w.reset > now ELSE expected THEN "Active"
  ELSE IF w.used = "none" THEN "Unknown"
  ELSE IF w.used = "full" THEN "High" ELSE "Ready"

-----------------------------------------------------------------------------
(* Properties.                                                             *)

(* A value of the dashboard, once known, stays known, in whatever order    *)
(* polls, refreshes and notifications read, are stamped and are stored.     *)
KnownStaysKnown == [][Known(latest) \subseteq Known(latest')]_latest

(* What a refresh that ran alone has found is what the dashboard shows, an *)
(* error or none, until something else is recorded.                         *)
QuietRefreshDecides ==
  /\ outcome = "failed" => ErrorShown
  /\ outcome = "stored" => ~ErrorShown

(* A 5-hour window that is shown as "Active" by what Codex has reported is *)
(* open, even when the row has its reset from an older one; and no label    *)
(* but one of an incomplete, old or missing snapshot hides an unknown value.*)
ActiveIsOpen ==
  /\ Label(latest.five, FALSE) = "Active" => Open
  /\ \A e \in BOOLEAN : Label(latest.five, e) # "Unknown" /\ Label(latest.week, e) # "Unknown"

(* What docs/usage.md says of sparse responses: a value that Codex has     *)
(* reported, and that was stored, is known to the dashboard.                *)
KnownIsShown ==
  [][\A c \in Callers : Store(c) => Known(calls[c].payload) \subseteq Known(latest')]_vars
=============================================================================
