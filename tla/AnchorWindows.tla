---------------------------- MODULE AnchorWindows ----------------------------
(***************************************************************************)
(* What scheduled anchors make of the usage: services/smart_anchors.py      *)
(* skips a turn while the 5-hour window is open and verifies by the next    *)
(* refresh that it moved; services/recovery.py finds in the error or in the *)
(* payload of a refresh when a turn that was skipped or refused may be made *)
(* up for.                                                                  *)
(*                                                                          *)
(* One scheduled anchor of the account of UsageTelemetry; its locks and     *)
(* runs are those of AnchorRuns, its recovery row that of RecoveryScheduler.*)
(***************************************************************************)
EXTENDS UsageTelemetry

CONSTANTS
  Anchor,      \* the thread of the scheduler's pool
  OneMinute,   \* _schedule_recovery makes the job due a minute after the reset
  Day          \* the day of which an error names a time, to the minute

ASSUME AnchorAssumption ==
  /\ Anchor \in Refreshers /\ OneMinute \in Nat \ {0} /\ Day \in Nat \ {0}
  /\ \E minutes \in 1..Day : Day = OneMinute * minutes

VARIABLES
  skips,       \* AccountSchedule.skip_if_window_active
  anchor       \* run_scheduled_anchor and the recovery after it

anchorVars == <<skips, anchor>>
allVars    == <<vars, anchorVars>>

(* A refusal may carry its reset as metadata, name it in its text, or both. *)
Refusal == [meta : Times, text : Times]
Silent  == [meta |-> NoTime, text |-> NoTime]

Resting == [pc |-> "idle", before |-> NoTime, raw |-> Idle.payload, at |-> NoTime,
            found |-> "none", error |-> Silent, source |-> "none", reset |-> NoTime]
Refreshing == {"pre", "post", "quota"}
Run == [pc : Refreshing \cup {"idle", "checked", "skipped", "turn", "sent",
                              "limited", "done"},
        before : Times, raw : Payload, at : Clock,
        found : {"none", "failed", "verified", "unchanged", "unverified",
                 "unknown", "recover", "unresolved"},
        error : Refusal, source : {"none", "error", "payload", "text"}, reset : Nat]

AnchorTypeOK ==
  /\ skips \in BOOLEAN
  /\ anchor \in Run
  /\ anchor.pc \in Refreshing <=> calls[Anchor].pc # "idle"
  /\ anchor.found # "none" <=> anchor.pc = "done"

AnchorInit == Init /\ skips \in BOOLEAN /\ anchor = Resting

-----------------------------------------------------------------------------
(* reset_times.py: five_hour_window_is_active.                             *)
ActiveInclusive(reset) == reset # NoTime /\ reset >= now    \* mutant
WindowIsActive(reset) == reset # NoTime /\ reset > now

(* smart_anchors.py: _verify_reset, of the resets before and after the turn*)
(* and the time of the decision.                                            *)
VerifyResetKept(before, after, at) ==                       \* mutant
  IF after = NoTime THEN "unknown"
  ELSE IF before = NoTime THEN IF after > at THEN "verified" ELSE "unverified"
  ELSE IF after >= before THEN "verified" ELSE "unverified"
VerifyReset(before, after, at) ==
  IF after = NoTime THEN "unknown"
  ELSE IF before = NoTime THEN IF after > at THEN "verified" ELSE "unverified"
  ELSE IF after > before THEN "verified"
  ELSE IF after = before THEN "unchanged" ELSE "unverified"

(* recovery.py: the resets that are to come of the windows at their limit, *)
(* and none when it is unknown when the weekly one is reset.                *)
WeeklyUnknown(p)    == p.week.used = "full" /\ p.week.reset = NoTime
Blocking(p, at)     == {w \in {"five", "week"} : p[w].used = "full" /\ p[w].reset > at}
Later(a, b)         == IF a > b THEN a ELSE b
BlockingReset(p, at) ==
  IF WeeklyUnknown(p) \/ Blocking(p, at) = {} THEN NoTime
  ELSE CHOOSE t \in {p[w].reset : w \in Blocking(p, at)} :
         \A w \in Blocking(p, at) : t >= p[w].reset
(* Mutant: the weekly window is not looked at.                             *)
ActiveResetOfFive(p, at) ==
  IF p.five.reset <= at THEN NoTime ELSE p.five.reset
ActiveReset(p, at) ==
  IF p.five.reset <= at \/ WeeklyUnknown(p) THEN NoTime
  ELSE Later(p.five.reset, BlockingReset(p, at))

(* recovery.py: parse_usage_limit_reset.  The text has the hour and minute  *)
(* of the reset meant; it is taken for that of the day of the failure, or   *)
(* of the next when it is a minute past.                                    *)
Minute(t) == t - (t % OneMinute)
(* Mutant: of the day of the failure whatever the time.                    *)
TextResetToday(meant, at) == (at - (at % Day)) + (Minute(meant) % Day)
TextReset(meant, at) ==
  LET candidate == (at - (at % Day)) + (Minute(meant) % Day)
  IN IF candidate + OneMinute <= at THEN candidate + Day ELSE candidate

(* Codex refuses a turn while a window is at its limit; it may know of a    *)
(* weekly window's reset that it does not report.                           *)
Refuses == (Open /\ codex.full) \/ (codex.week.used = "full" /\ codex.week.reset > now)
Unreported == codex.week.used = "full" /\ codex.week.reset = NoTime
BlockEnds == {t \in Times : /\ t > now
                            /\ \/ Open /\ codex.full /\ t = codex.reset
                               \/ codex.week.used = "full" /\ t = codex.week.reset
                               \/ Unreported}
Refusals == [meta : BlockEnds \cup {NoTime}, text : BlockEnds \cup {NoTime}]

-----------------------------------------------------------------------------
(* run_scheduled_anchor, and the refresh of _recover_after_usage_limit.    *)
StartRefresh ==
  /\ anchor.pc \in {"idle", "sent", "limited"}
  /\ anchor.pc = "limited" => anchor.error.meta <= anchor.at
  /\ Begin(Anchor)
  /\ anchor' = [anchor EXCEPT !.pc = CASE @ = "idle" -> "pre" [] @ = "sent" -> "post"
                                       [] @ = "limited" -> "quota"]
  /\ UNCHANGED skips

(* The pre-check ends, with a snapshot or without.                         *)
EndPreCheck ==
  /\ anchor.pc = "pre"
  /\ \/ /\ Store(Anchor)
        /\ anchor' = [anchor EXCEPT !.pc = "checked",
                                    !.before = Snapshot(Anchor).five.reset,
                                    !.raw = calls[Anchor].payload]
     \/ /\ Fail(Anchor) \/ StoreRaises(Anchor)
        /\ anchor' = [anchor EXCEPT !.pc = "checked"]
  /\ UNCHANGED skips

Decide ==
  /\ anchor.pc = "checked"
  /\ anchor' = [anchor EXCEPT
       !.pc = IF skips /\ WindowIsActive(anchor.before) THEN "skipped" ELSE "turn",
       !.at = now]
  /\ UNCHANGED <<vars, skips>>

(* run_manual_anchor: the turn completes, is refused for the limit, or     *)
(* fails otherwise, which raises.                                           *)
Turn ==
  /\ anchor.pc = "turn"
  /\ \/ ~Refuses /\ UseCodex /\ anchor' = [anchor EXCEPT !.pc = "sent"]
     \/ /\ Refuses \/ Unreported
        /\ codex' = codex
        /\ \E e \in Refusals :
             anchor' = [Resting EXCEPT !.pc = "limited", !.at = now, !.error = e]
     \/ codex' = codex
        /\ anchor' = [Resting EXCEPT !.pc = "done", !.found = "failed"]
  /\ UNCHANGED <<now, latest, failed, calls, outcome, skips>>

(* The refresh after the turn ends, and with it the anchor.                *)
Verify ==
  /\ anchor.pc = "post"
  /\ \/ /\ Store(Anchor)
        /\ anchor' = [anchor EXCEPT
             !.pc = "done", !.before = NoTime, !.at = NoTime,
             !.found = VerifyReset(anchor.before, Snapshot(Anchor).five.reset, anchor.at)]
     \/ /\ Fail(Anchor) \/ StoreRaises(Anchor)
        /\ anchor' = [Resting EXCEPT !.pc = "done", !.found = "unknown"]
  /\ UNCHANGED skips

(* _schedule_recovery: a recovery is due a minute after the reset found.   *)
Schedule(payload, source, reset) ==
  anchor' = [Resting EXCEPT
    !.pc = "done", !.raw = payload, !.at = anchor.at, !.error = anchor.error,
    !.source = source, !.reset = reset,
    !.found = IF source # "none" /\ reset + OneMinute > now THEN "recover"
              ELSE "unresolved"]
Unresolved(payload) == Schedule(payload, "none", NoTime)

(* _recover_after_active_window: the payload of the pre-check is asked.    *)
RecoverAfterSkip ==
  LET reset == ActiveReset(anchor.raw, now)
  IN /\ anchor.pc = "skipped"
     /\ IF reset # NoTime THEN Schedule(anchor.raw, "payload", reset)
                          ELSE Unresolved(anchor.raw)
     /\ UNCHANGED <<vars, skips>>

(* _recover_after_usage_limit: the metadata of the error is trusted first. *)
RecoverFromError ==
  /\ anchor.pc = "limited" /\ anchor.error.meta > anchor.at
  /\ Schedule(Idle.payload, "error", anchor.error.meta)
  /\ UNCHANGED <<vars, skips>>

(* Without it the payload of a refresh made for it is asked, for the time  *)
(* of the failure, and the text of the error when that does not tell.      *)
Resolve(payload) ==
  LET reset == BlockingReset(payload, anchor.at)
      text  == anchor.error.text
  IN \/ reset # NoTime /\ Schedule(payload, "payload", reset)
     \/ /\ reset = NoTime /\ text # NoTime
        /\ Schedule(payload, "text", TextReset(text, anchor.at))
     \/ reset = NoTime /\ text = NoTime /\ Unresolved(payload)

RecoverAfterLimit ==
  /\ anchor.pc = "quota"
  /\ \/ Store(Anchor) /\ Resolve(calls[Anchor].payload)
     \/ (Fail(Anchor) \/ StoreRaises(Anchor)) /\ Resolve(Idle.payload)
  /\ UNCHANGED skips

AnchorStep == StartRefresh \/ EndPreCheck \/ Decide \/ Turn \/ Verify
              \/ RecoverAfterSkip \/ RecoverFromError \/ RecoverAfterLimit

AnchorNext ==
  \/ AnchorStep
  \/ Answer(Anchor) /\ UNCHANGED anchorVars
  \/ (\E c \in Callers \ {Anchor} : Refresh(c)) /\ UNCHANGED anchorVars
  \/ (Notify \/ Tick \/ Work) /\ UNCHANGED anchorVars
  \/ Restart /\ anchor' = Resting /\ skips' = skips

AnchorSpec == AnchorInit /\ [][AnchorNext]_allVars

-----------------------------------------------------------------------------
(* Properties.                                                             *)

(* An anchor is skipped for an active window only while Codex has one open,*)
(* whichever rows were merged into the snapshot it looked at.               *)
SkipIsJustified ==
  [][anchor.pc = "checked" /\ anchor'.pc = "skipped" => Open]_anchor

(* An anchor is verified only when Codex has opened a 5-hour window since  *)
(* the reset that the payload of the pre-check told.                        *)
VerifiedMeansNew ==
  anchor.found = "verified" /\ anchor.raw.five.reset # NoTime
    => codex.opened >= anchor.raw.five.reset

(* A recovery set by a payload is set to a reset that it reported, to come  *)
(* when it was decided on, and not before that of a window which it showed *)
(* at its limit.                                                            *)
ToldByPayload ==
  /\ anchor.reset \in {anchor.raw.five.reset, anchor.raw.week.reset}
  /\ anchor.reset > anchor.at
  /\ \A w \in {"five", "week"} : anchor.raw[w].used = "full" =>
       anchor.raw[w].reset <= anchor.reset /\ (w = "week" => anchor.raw[w].reset # NoTime)

(* The text of the refusal names a reset less than a day ahead.            *)
TextIsNear == /\ anchor.error.text # NoTime
              /\ anchor.error.text + OneMinute <= anchor.at + Day

(* docs/technical-reference.md:176 "its strict terminal usage-limit text is *)
(* a fallback only when no fresh structured reset is available": no window  *)
(* of the payload, if there was one, is known to block for longer.  It is   *)
(* due after the failure, and when the reset it names was less than a day   *)
(* ahead, after that reset too and no more than a minute, though the text   *)
(* has neither date nor seconds.                                            *)
ToldByText ==
  LET due == anchor.reset + OneMinute
  IN /\ \/ anchor.raw.week.used = "full" /\ anchor.raw.week.reset = NoTime
        \/ \A w \in {"five", "week"} :
             anchor.raw[w].used = "full" => anchor.raw[w].reset <= anchor.at
     /\ due > anchor.at
     /\ TextIsNear => anchor.error.text < due /\ due <= anchor.error.text + OneMinute

(* Whatever tells of the reset a recovery is set to, it is to come, and by  *)
(* all that was told at the time no other window blocks for longer.        *)
RecoveryOutlasts ==
  anchor.found = "recover" =>
    \/ /\ anchor.source = "error"
       /\ anchor.reset = anchor.error.meta /\ anchor.reset > anchor.at
    \/ anchor.source = "payload" /\ ToldByPayload
    \/ anchor.source = "text" /\ ToldByText

(* What a refusal tells of its reset is not dropped: a turn is left without *)
(* a recovery only once the reset its error told has passed, be it told as  *)
(* metadata, or as a time of the next day where no payload told another.    *)
ToldIsHeard ==
  anchor.found = "unresolved" =>
    /\ anchor.error.meta # NoTime => anchor.error.meta < now
    /\ anchor.source \notin {"error", "payload"} /\ TextIsNear => anchor.error.text < now
=============================================================================
