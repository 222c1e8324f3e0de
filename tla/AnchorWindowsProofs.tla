------------------------ MODULE AnchorWindowsProofs ------------------------
(***************************************************************************)
(* Proofs of the properties of AnchorWindows, for any number of refreshes   *)
(* and any lengths of the windows.  The steps of an anchor are steps of     *)
(* UsageTelemetry, so its invariant holds; what is added says of the resets *)
(* an anchor carries which windows of Codex they can be of.                 *)
(***************************************************************************)
EXTENDS AnchorWindows, UsageTelemetryProofs

(* A reset that was told is that of the last window, or lies before it.    *)
Told(r, cx) == r = NoTime \/ r = cx.reset \/ r <= cx.opened

(* The resets of a pre-check are compared until the anchor ends.           *)
Comparing == {"idle", "pre", "checked", "turn", "sent", "post"}

(* RecoveryOutlasts, of a run, with the payload p asked for it.            *)
ByError(t) == t.source = "error" /\ t.reset = t.error.meta /\ t.reset > t.at
ByPayload(t, p) ==
  /\ t.source = "payload" /\ t.reset \in {p.five.reset, p.week.reset} /\ t.reset > t.at
  /\ p.five.used = "full" => p.five.reset <= t.reset
  /\ p.week.used = "full" => p.week.reset <= t.reset /\ p.week.reset # NoTime
Near(t) == t.error.text # NoTime /\ t.error.text + OneMinute <= t.at + Day
ByText(t, p) ==
  /\ t.source = "text"
  /\ \/ WeeklyUnknown(p)
     \/ /\ p.five.used = "full" => p.five.reset <= t.at
        /\ p.week.used = "full" => p.week.reset <= t.at
  /\ t.reset + OneMinute > t.at
  /\ Near(t) => /\ t.error.text < t.reset + OneMinute
                /\ t.reset + OneMinute <= t.error.text + OneMinute
Outlasts(t) ==
  t.found = "recover" => ByError(t) \/ ByPayload(t, t.raw) \/ ByText(t, t.raw)

(* ToldIsHeard, of a run, at time n.                                       *)
Heard(t, n) ==
  t.found = "unresolved" =>
    /\ t.error.meta # NoTime => t.error.meta < n
    /\ t.source \notin {"error", "payload"} /\ Near(t) => t.error.text < n

(* The error that a run has is that of a turn refused for the limit, and    *)
(* what it tells was to come; a refresh is made only if it has no metadata. *)
ErrorOf(t) ==
  /\ t.pc \notin {"limited", "quota", "done"} => t.error = Silent
  /\ t.pc \in {"limited", "quota"} =>
       /\ t.error.meta = NoTime \/ t.error.meta > t.at
       /\ t.error.text = NoTime \/ t.error.text > t.at
  /\ t.pc = "quota" => t.error.meta = NoTime

(* A run, with Codex's windows cx at time n.                               *)
Sound(t, cx, n) ==
  /\ t.found # "none" <=> t.pc = "done"
  /\ t.before <= cx.reset
  /\ t.at <= n
  /\ Told(t.raw.five.reset, cx)
  /\ t.pc \in Comparing /\ t.raw.five.reset # NoTime => t.before = t.raw.five.reset
  /\ t.found = "verified" /\ t.raw.five.reset # NoTime => cx.opened >= t.raw.five.reset
  /\ ErrorOf(t) /\ Outlasts(t) /\ Heard(t, n)

Genuine == \A c \in Callers : Told(calls[c].payload.five.reset, codex)

AInv ==
  /\ IInv /\ AnchorTypeOK /\ Genuine
  /\ codex.opened <= now
  /\ Sound(anchor, codex, now)

-----------------------------------------------------------------------------
LEMMA AnchorCalls == Anchor \in Callers /\ Anchor \in Refreshers
BY AnchorAssumption DEF Callers

LEMMA PayloadFields == ASSUME NEW p \in Payload
                       PROVE  /\ p.five \in Window /\ p.week \in Window
                              /\ p.five.reset \in Nat /\ p.week.reset \in Nat
                              /\ p.five.reset \in Times /\ p.week.reset \in Times
<1>1. p.five \in Window /\ p.week \in Window
  BY DEF Payload
<1> QED
  BY <1>1, WindowFields

LEMMA RunFields == ASSUME NEW t \in Run
                   PROVE  /\ t.before \in Nat /\ t.at \in Nat /\ t.reset \in Nat
                          /\ t.before \in Times /\ t.at \in Clock /\ t.raw \in Payload
                          /\ t.raw.five.reset \in Nat /\ t.raw.week.reset \in Nat
                          /\ t.error \in Refusal
                          /\ t.error.meta \in Times /\ t.error.text \in Times
                          /\ t.error.meta \in Nat /\ t.error.text \in Nat
<1>1. /\ t.before \in Times /\ t.at \in Clock /\ t.raw \in Payload /\ t.reset \in Nat
      /\ t.error \in Refusal
  BY Zenon DEF Run
<1>2. t.error.meta \in Times /\ t.error.text \in Times
  BY <1>1 DEF Refusal
<1> QED
  BY <1>1, <1>2, PayloadFields, Numbers

LEMMA IdlePayload == /\ Idle.payload \in Payload /\ Idle.payload.five.reset = NoTime
                     /\ Idle.payload.week.reset = NoTime
BY IdleCall DEF Absent

LEMMA RestingRun == /\ Resting \in Run /\ Resting.pc = "idle" /\ Resting.found = "none"
                    /\ Resting.before = NoTime /\ Resting.at = NoTime
                    /\ Resting.reset = NoTime /\ Resting.raw = Idle.payload
                    /\ Resting.error = Silent /\ Resting.source = "none"
<1>1. Silent \in Refusal /\ NoTime \in Nat
  BY Numbers DEF Silent, Refusal
<1> QED
  BY <1>1, IdlePayload, Numbers, Zenon DEF Resting, Run

LEMMA SilentFields == Silent.meta = NoTime /\ Silent.text = NoTime
BY DEF Silent

-----------------------------------------------------------------------------
(* The resets that recovery.py finds.                                      *)

(* Of the windows that block one is the last to be reset.                  *)
LEMMA LastBlock ==
  ASSUME NEW p \in Payload, NEW at \in Nat, Blocking(p, at) # {}
  PROVE  \E w \in Blocking(p, at) : \A v \in Blocking(p, at) : p[w].reset >= p[v].reset
<1> DEFINE B == Blocking(p, at)
<1>1. p.five.reset \in Nat /\ p.week.reset \in Nat
  BY PayloadFields
<1>2. B \subseteq {"five", "week"}
  BY DEF Blocking
<1> HIDE DEF B
<1>3. CASE B = {"five"}
  BY <1>3, <1>1 DEF B
<1>4. CASE B = {"week"}
  BY <1>4, <1>1 DEF B
<1>5. CASE B = {"five", "week"}
  <2>1. CASE p.five.reset >= p.week.reset
    <3>1. \A v \in B : p["five"].reset >= p[v].reset
      BY <2>1, <1>5, <1>1
    <3> QED
      BY <3>1, <1>5 DEF B
  <2>2. CASE ~(p.five.reset >= p.week.reset)
    <3>1. \A v \in B : p["week"].reset >= p[v].reset
      BY <2>2, <1>5, <1>1
    <3> QED
      BY <3>1, <1>5 DEF B
  <2> QED
    BY <2>1, <2>2
<1>6. B # {}
  BY DEF B
<1> QED
  BY <1>2, <1>3, <1>4, <1>5, <1>6

(* When windows block and it is known until when, that is what is found.   *)
LEMMA BlockingFound ==
  ASSUME NEW p \in Payload, NEW at \in Nat, Blocking(p, at) # {}, ~WeeklyUnknown(p)
  PROVE  \E w \in Blocking(p, at) : /\ BlockingReset(p, at) = p[w].reset
                                     /\ \A v \in Blocking(p, at) : p[w].reset >= p[v].reset
<1> DEFINE R == {p[w].reset : w \in Blocking(p, at)}
<1>1. BlockingReset(p, at) = CHOOSE t \in R : \A w \in Blocking(p, at) : t >= p[w].reset
  BY DEF BlockingReset
<1>2. \E t \in R : \A w \in Blocking(p, at) : t >= p[w].reset
  BY LastBlock
<1>3. /\ BlockingReset(p, at) \in R
      /\ \A w \in Blocking(p, at) : BlockingReset(p, at) >= p[w].reset
  BY <1>1, <1>2
<1> QED
  BY <1>3

(* What is found is the reset of the last window that blocks.              *)
LEMMA BlockingOf ==
  ASSUME NEW p \in Payload, NEW at \in Nat, BlockingReset(p, at) # NoTime
  PROVE  /\ ~WeeklyUnknown(p)
         /\ BlockingReset(p, at) \in {p.five.reset, p.week.reset}
         /\ BlockingReset(p, at) > at
         /\ p.five.used = "full" => p.five.reset <= BlockingReset(p, at)
         /\ p.week.used = "full" => p.week.reset <= BlockingReset(p, at)
<1>1. p.five.reset \in Nat /\ p.week.reset \in Nat
  BY PayloadFields
<1>2. ~WeeklyUnknown(p) /\ Blocking(p, at) # {}
  BY DEF BlockingReset
<1>3. PICK w \in Blocking(p, at) : /\ BlockingReset(p, at) = p[w].reset
                                   /\ \A v \in Blocking(p, at) : p[w].reset >= p[v].reset
  BY <1>2, BlockingFound
<1>4. w \in {"five", "week"} /\ p[w].reset > at /\ p[w].reset \in Nat
  BY <1>1, <1>3 DEF Blocking
<1>5. ASSUME NEW v \in {"five", "week"}, p[v].used = "full" PROVE p[v].reset <= p[w].reset
  <2>1. p[v].reset \in Nat
    BY <1>1
  <2>2. CASE p[v].reset > at
    <3>1. v \in Blocking(p, at)
      BY <2>2, <1>5 DEF Blocking
    <3> QED
      BY <3>1, <2>1, <1>3, <1>4
  <2>3. CASE ~(p[v].reset > at)
    BY <2>1, <2>3, <1>4
  <2> QED
    BY <2>2, <2>3
<1> QED
  BY <1>2, <1>3, <1>4, <1>5

(* A window that is open is waited for, and every one that blocks.         *)
LEMMA ActiveOf ==
  ASSUME NEW p \in Payload, NEW at \in Nat, ActiveReset(p, at) # NoTime
  PROVE  /\ ~WeeklyUnknown(p)
         /\ ActiveReset(p, at) \in {p.five.reset, p.week.reset}
         /\ ActiveReset(p, at) > at
         /\ p.five.used = "full" => p.five.reset <= ActiveReset(p, at)
         /\ p.week.used = "full" => p.week.reset <= ActiveReset(p, at)
<1>1. p.five.reset \in Nat /\ p.week.reset \in Nat
  BY PayloadFields
<1>2. /\ p.five.reset > at /\ ~WeeklyUnknown(p)
      /\ ActiveReset(p, at) = Later(p.five.reset, BlockingReset(p, at))
  BY <1>1 DEF ActiveReset
<1>3. CASE BlockingReset(p, at) = NoTime
  <2>1. ActiveReset(p, at) = p.five.reset
    BY <1>1, <1>2, <1>3 DEF Later, NoTime
  <2>2. Blocking(p, at) = {}
    <3> SUFFICES ASSUME Blocking(p, at) # {} PROVE FALSE
      OBVIOUS
    <3>1. PICK w \in Blocking(p, at) : BlockingReset(p, at) = p[w].reset
      BY <1>2, BlockingFound
    <3>2. w \in {"five", "week"} /\ p[w].reset > at
      BY <3>1 DEF Blocking
    <3>3. p[w].reset \in Nat
      BY <3>2, <1>1
    <3> QED
      BY <3>1, <3>2, <3>3, <1>3 DEF NoTime
  <2>3. p.week.used = "full" => ~(p.week.reset > at)
    BY <2>2 DEF Blocking
  <2> QED
    BY <1>1, <1>2, <2>1, <2>3
<1>4. CASE BlockingReset(p, at) # NoTime
  BY <1>1, <1>2, <1>4, BlockingOf DEF Later
<1> QED
  BY <1>3, <1>4

LEMMA ResetsTyped == ASSUME NEW p \in Payload, NEW at \in Nat
                     PROVE  BlockingReset(p, at) \in Times /\ ActiveReset(p, at) \in Times
<1>1. p.five.reset \in Times /\ p.week.reset \in Times /\ NoTime \in Times
  BY PayloadFields, Numbers
<1> QED
  BY <1>1, BlockingOf, ActiveOf

-----------------------------------------------------------------------------
(* Division with a remainder, and what it is to multiply a smaller number. *)
LEMMA Division ==
  ASSUME NEW n \in Nat, NEW d \in Nat \ {0}
  PROVE  \E q \in Nat : n = d * q + (n % d) /\ (n % d) \in 0..(d - 1)
<1>1. n = d * (n \div d) + (n % d) /\ (n % d) \in 0..(d - 1) /\ (n \div d) \in Int
  BY Z3
<1>2. (n \div d) \in Nat
  BY Z3
<1> QED
  BY <1>1, <1>2

LEMMA Multiples ==
  ASSUME NEW d \in Nat \ {0}, NEW a \in Int, NEW b \in Int
  PROVE  /\ d * a \in Int /\ d * b \in Int /\ d * (b + 1) = d * b + d
         /\ d * (b + 2) = d * b + d + d
         /\ a < b => d * a + d <= d * b
<1>1. /\ d * a \in Int /\ d * b \in Int /\ d * (b + 1) = d * b + d
      /\ d * (b + 2) = d * b + d + d
  BY Z3
<1>2. ASSUME a < b PROVE d * a + d <= d * b
  <2>1. b - a - 1 \in Nat
    BY <1>2
  <2>2. d * (b - a - 1) >= 0
    BY <2>1, Z3
  <2>3. d * (b - a - 1) = d * b - d * a - d
    BY Z3
  <2> QED
    BY <2>2, <2>3, <1>1
<1> QED
  BY <1>1, <1>2

(* The midnight before t, and the time of day of a full minute.            *)
LEMMA TimeOfDay ==
  ASSUME NEW t \in Nat
  PROVE  /\ Minute(t) \in Nat /\ Minute(t) <= t /\ t < Minute(t) + OneMinute
         /\ (Minute(t) % Day) \in 0..(Day - OneMinute)
<1>0. /\ OneMinute \in Nat \ {0} /\ Day \in Nat \ {0} 
  BY AnchorAssumption
<1>1. PICK k \in 1..Day : Day = OneMinute * k
  BY AnchorAssumption
<1>2. PICK j \in Nat : t = OneMinute * j + (t % OneMinute) /\ (t % OneMinute) \in 0..(OneMinute - 1)
  BY <1>0, Division
<1>3. OneMinute * j \in Nat
  BY <1>0, Z3
<1>4. Minute(t) = OneMinute * j
  BY <1>2, <1>3 DEF Minute
<1>5. PICK q \in Nat : /\ Minute(t) = Day * q + (Minute(t) % Day)
                       /\ (Minute(t) % Day) \in 0..(Day - 1)
  BY <1>0, <1>3, <1>4, Division
<1>6. Day * q = OneMinute * (k * q)
  BY <1>0, <1>1, Z3
<1>7. k * q \in Nat /\ j - k * q \in Int
  BY <1>1, Z3
<1>8. Minute(t) % Day = OneMinute * (j - k * q)
  <2>1. OneMinute * (j - k * q) = OneMinute * j - OneMinute * (k * q)
    BY <1>0, <1>7, Z3
  <2>2. Day * q \in Int
    BY <1>0, Z3
  <2> QED
    BY <2>1, <2>2, <1>3, <1>4, <1>5, <1>6
<1>9. j - k * q < k
  <2> SUFFICES ASSUME ~(j - k * q < k) PROVE FALSE
    OBVIOUS
  <2>1. k = j - k * q \/ k < j - k * q
    BY <1>1, <1>7
  <2>2. OneMinute * k <= OneMinute * (j - k * q)
    BY <2>1, <1>0, <1>1, <1>7, Multiples
  <2> QED
    BY <2>2, <1>0, <1>1, <1>5, <1>8
<1>10. OneMinute * (j - k * q) + OneMinute <= OneMinute * k
  BY <1>0, <1>1, <1>7, <1>9, Multiples
<1> QED
  BY <1>0, <1>1, <1>2, <1>3, <1>4, <1>5, <1>8, <1>10

(* The time that is read in a text comes after the failure, and is that of  *)
(* the reset meant, cut to its minute, when that is less than a day ahead. *)
LEMMA TextTells ==
  ASSUME NEW text \in Nat, NEW at \in Nat, text > at
  PROVE  /\ TextReset(text, at) \in Nat /\ TextReset(text, at) + OneMinute > at
         /\ text + OneMinute <= at + Day => TextReset(text, at) = Minute(text)
<1> DEFINE m == Minute(text)
           r == m % Day
<1>0. OneMinute \in Nat \ {0} /\ Day \in Nat \ {0}
  BY AnchorAssumption
<1>1. m \in Nat /\ m <= text /\ text < m + OneMinute /\ r \in 0..(Day - OneMinute)
  BY TimeOfDay
<1>2. PICK p \in Nat : at = Day * p + (at % Day) /\ (at % Day) \in 0..(Day - 1)
  BY <1>0, Division
<1>3. PICK q \in Nat : m = Day * q + r
  BY <1>0, <1>1, Division
<1>4. /\ Day * p \in Int /\ Day * q \in Int /\ Day * (p + 1) = Day * p + Day
      /\ p < q => Day * p + Day <= Day * q
      /\ q < p => Day * q + Day <= Day * p
      /\ p + 1 < q => Day * p + Day + Day <= Day * q
  <2>1. /\ Day * p \in Int /\ Day * q \in Int /\ Day * (p + 1) = Day * p + Day
        /\ q < p => Day * q + Day <= Day * p
        /\ p < q => Day * p + Day <= Day * q
    BY <1>0, Multiples
  <2>2. p + 1 < q => Day * (p + 1) + Day <= Day * q
    BY <1>0, Multiples
  <2> QED
    BY <2>1, <2>2, <1>0
<1>5. Day * p >= 0
  BY <1>0, Z3
<1> DEFINE c == Day * p + r
<1>6. TextReset(text, at) = IF c + OneMinute <= at THEN c + Day ELSE c
  <2>1. at - (at % Day) = Day * p
    BY <1>0, <1>2, <1>4
  <2> QED
    BY <2>1 DEF TextReset
<1> HIDE DEF m, r
<1>7. c \in Nat /\ (c + OneMinute <= at \/ c + OneMinute > at) /\ c + Day + OneMinute > at
  BY <1>0, <1>1, <1>2, <1>4, <1>5
<1>8. ASSUME text + OneMinute <= at + Day, c + OneMinute <= at PROVE c + Day = m
  <2>1. Day * p < Day * q
    BY <1>0, <1>1, <1>3, <1>4, <1>8
  <2>2. p < q
    BY <2>1, <1>4, <1>0
  <2>3. Day * q < Day * p + Day + Day
    BY <1>0, <1>1, <1>2, <1>3, <1>4, <1>8
  <2>4. q = p + 1
    BY <2>2, <2>3, <1>4, <1>0
  <2> QED
    BY <2>4, <1>0, <1>1, <1>3, <1>4
<1>9. ASSUME text + OneMinute <= at + Day, c + OneMinute > at PROVE c = m
  <2>1. ~(p < q)
    BY <1>0, <1>1, <1>2, <1>3, <1>4, <1>9
  <2>2. ~(q < p)
    BY <1>0, <1>1, <1>2, <1>3, <1>4, <1>9
  <2>3. p = q
    BY <2>1, <2>2
  <2> QED
    BY <2>3, <1>3
<1> HIDE DEF c
<1> QED
  BY <1>0, <1>6, <1>7, <1>8, <1>9 DEF m

-----------------------------------------------------------------------------
(* Every step of an anchor is one of UsageTelemetry.                       *)
LEMMA AnchorIsUser == [AnchorNext]_allVars => [Next]_vars
<1> SUFFICES ASSUME [AnchorNext]_allVars PROVE [Next]_vars
  OBVIOUS
<1> USE AnchorCalls
<1>1. CASE AnchorStep
  <2>1. StartRefresh \/ EndPreCheck \/ Verify \/ RecoverAfterLimit
          => Refresh(Anchor) \/ UNCHANGED vars
    BY DEF StartRefresh, EndPreCheck, Verify, RecoverAfterLimit, Refresh
  <2>2. Decide \/ RecoverAfterSkip \/ RecoverFromError => UNCHANGED vars
    BY DEF Decide, RecoverAfterSkip, RecoverFromError, vars
  <2>3. Turn => Work \/ UNCHANGED vars
    BY DEF Turn, Work, vars
  <2> QED
    BY <1>1, <2>1, <2>2, <2>3 DEF AnchorStep, Next
<1>2. CASE UNCHANGED allVars
  BY <1>2 DEF allVars
<1>3. CASE AnchorNext /\ ~AnchorStep
  BY <1>3 DEF AnchorNext, Next, Refresh
<1> QED
  BY <1>1, <1>2, <1>3

(* How Codex and the clock move on: a window is opened after the last one. *)
LEMMA CodexMoves ==
  ASSUME IInv, codex.opened <= now, [Next]_vars
  PROVE  /\ now <= now' /\ codex'.opened <= now'
         /\ codex.opened <= codex'.opened /\ codex.reset <= codex'.reset
         /\ codex'.reset # codex.reset => codex.reset <= codex'.opened
         /\ now' \in Nat /\ codex'.opened \in Nat /\ codex'.reset \in Nat
         /\ now \in Nat /\ codex.opened \in Nat /\ codex.reset \in Nat
<1>1. /\ now \in Nat /\ codex.opened \in Nat /\ codex.reset \in Nat
      /\ codex \in [opened : Clock, reset : Times, full : BOOLEAN, week : Window]
  BY Facts, Numbers DEF IInv, TypeOK
<1>2. CASE Work
  <2>1. now' = now
    BY <1>2 DEF Work
  <2>2. CASE Open
    <3>1. PICK f \in BOOLEAN : codex' = [codex EXCEPT !.full = codex.full \/ f]
      BY <1>2, <2>2 DEF Work, UseCodex
    <3>2. codex'.opened = codex.opened /\ codex'.reset = codex.reset
      BY <1>1, <3>1, Zenon
    <3> QED
      BY <2>1, <3>2, <1>1
  <2>3. CASE ~Open
    <3>1. codex' = [codex EXCEPT !.opened = now, !.reset = now + FiveHours, !.full = FALSE]
      BY <1>2, <2>3 DEF Work, UseCodex
    <3>2. codex'.opened = now /\ codex'.reset = now + FiveHours
      BY <1>1, <3>1, Zenon
    <3>3. codex.reset <= now
      BY <1>1, <2>3 DEF Open
    <3> QED
      BY <2>1, <3>2, <3>3, <1>1, TimesAssumption
  <2> QED
    BY <2>2, <2>3
<1>3. CASE ~Work
  <2>1. codex' = codex /\ (now' = now \/ now' = now + 1)
    BY <1>3 DEF Next, Refresh, Begin, Answer, Fail, Store, StoreRaises, Notify, Restart,
                Tick, Stamp, vars
  <2> QED
    BY <2>1, <1>1
<1> QED
  BY <1>2, <1>3

(* What was told of a window, and what a run has, stays so.                *)
LEMMA ToldLater ==
  ASSUME NEW r \in Nat, IInv, codex.opened <= now, [Next]_vars, Told(r, codex)
  PROVE  Told(r, codex')
BY CodexMoves DEF Told

LEMMA SoundLater ==
  ASSUME NEW t \in Run, IInv, codex.opened <= now, [Next]_vars, Sound(t, codex, now)
  PROVE  Sound(t, codex', now')
<1>1. t.before \in Nat /\ t.at \in Nat /\ t.raw.five.reset \in Nat
  BY RunFields
<1>2. Told(t.raw.five.reset, codex')
  BY <1>1, ToldLater DEF Sound
<1>3. t.before <= codex'.reset /\ t.at <= now'
  BY <1>1, CodexMoves DEF Sound
<1>4. t.found = "verified" /\ t.raw.five.reset # NoTime => codex'.opened >= t.raw.five.reset
  BY <1>1, CodexMoves DEF Sound
<1>5. Heard(t, now')
  <2>1. t.error.meta \in Nat /\ t.error.text \in Nat
    BY RunFields
  <2> QED
    BY <2>1, CodexMoves DEF Sound, Heard
<1> QED
  BY <1>2, <1>3, <1>4, <1>5 DEF Sound

(* What a payload tells is of the window that is open.                     *)
LEMMA PayloadsTold == ASSUME NEW p \in Payloads PROVE Told(p.five.reset, codex)
BY DEF Payloads, Absent, FiveHour, Told, NoTime

(* A call that enters changes of the others what is kept of history only.  *)
LEMMA EnteredOf ==
  ASSUME IInv, NEW d \in Callers, NEW k \in Call, calls' = Entered(d, k)
  PROVE  /\ calls'[d].pc = k.pc /\ calls'[d].payload = k.payload
         /\ \A c \in Callers \ {d} : /\ calls'[c].pc = calls[c].pc
                                     /\ calls'[c].payload = calls[c].payload
<1> DEFINE alone == \A e \in Callers \ {d} : calls[e].pc \notin InFlight
<1>1. /\ calls'[d] = [k EXCEPT !.alone = alone]
      /\ \A c \in Callers \ {d} : calls'[c] = IF calls[c].pc \in InFlight
                                                THEN [calls[c] EXCEPT !.alone = FALSE]
                                                ELSE calls[c]
  BY DEF Entered
<1> HIDE DEF alone
<1>2. ASSUME NEW q \in Call
      PROVE  /\ [q EXCEPT !.alone = alone].pc = q.pc /\ [q EXCEPT !.alone = FALSE].pc = q.pc
             /\ [q EXCEPT !.alone = alone].payload = q.payload
             /\ [q EXCEPT !.alone = FALSE].payload = q.payload
  BY Zenon DEF Call
<1>3. \A c \in Callers : calls[c] \in Call
  BY Facts
<1> QED
  BY <1>1, <1>2, <1>3

LEMMA BeginOf ==
  ASSUME IInv, NEW d \in Callers, Begin(d)
  PROVE  /\ calls[d].pc = "idle" /\ calls'[d].pc = "reading"
         /\ calls'[d].payload = Idle.payload
         /\ \A c \in Callers \ {d} : /\ calls'[c].pc = calls[c].pc
                                     /\ calls'[c].payload = calls[c].payload
         /\ UNCHANGED <<codex, latest, failed, outcome>>
<1> DEFINE k == [Idle EXCEPT !.pc = "reading", !.at = now + 1]
<1>1. now + 1 \in Clock
  BY Facts, TimesAssumption DEF Begin, Stamp, Clock
<1>2. k \in Call /\ k.pc = "reading" /\ k.payload = Idle.payload
  BY <1>1, IdleCall, Zenon DEF Call, InFlight
<1>3. calls' = Entered(d, k)
  BY DEF Begin
<1> HIDE DEF k
<1> QED
  BY <1>2, <1>3, EnteredOf DEF Begin

LEMMA NotifyOf ==
  ASSUME IInv, Notify
  PROVE  /\ calls'[Listener].payload \in Payloads /\ codex' = codex
         /\ \A c \in Callers \ {Listener} : /\ calls'[c].pc = calls[c].pc
                                            /\ calls'[c].payload = calls[c].payload
<1>1. PICK p \in Payloads :
        calls' = Entered(Listener, [Idle EXCEPT !.pc = "answered", !.at = now + 1,
                                                !.payload = p])
  BY DEF Notify
<1> DEFINE k == [Idle EXCEPT !.pc = "answered", !.at = now + 1, !.payload = p]
<1>2. now + 1 \in Clock /\ p \in Payload
  BY PayloadsTyped, Facts, TimesAssumption DEF Notify, Stamp, Clock
<1>3. k \in Call /\ k.payload = p
  BY <1>2, IdleCall, Zenon DEF Call, InFlight
<1>4. calls' = Entered(Listener, k) /\ Listener \in Callers
  BY <1>1 DEF Callers
<1> HIDE DEF k
<1> QED
  BY <1>3, <1>4, EnteredOf DEF Notify

LEMMA AnswerOf ==
  ASSUME IInv, NEW d \in Callers, Answer(d)
  PROVE  /\ calls[d].pc = "reading" /\ calls'[d].pc = "answered"
         /\ calls'[d].payload \in Payloads
         /\ \A c \in Callers \ {d} : calls'[c] = calls[c]
         /\ UNCHANGED <<now, codex, latest, failed, outcome>>
<1>1. PICK p \in Payloads :
        calls' = [calls EXCEPT ![d].pc = "answered", ![d].payload = p]
  BY DEF Answer
<1>2. calls \in [Callers -> Call] /\ calls[d] \in Call
  BY Facts
<1> DEFINE k == [calls[d] EXCEPT !.pc = "answered", !.payload = p]
<1>3. calls' = [calls EXCEPT ![d] = k]
  BY <1>1, <1>2
<1>4. k.pc = "answered" /\ k.payload = p
  BY <1>2, Zenon DEF Call
<1> HIDE DEF k
<1>5. calls'[d] = k /\ \A c \in Callers \ {d} : calls'[c] = calls[c]
  BY <1>2, <1>3
<1> QED
  BY <1>4, <1>5 DEF Answer

(* The end of a call.                                                      *)
LEMMA EndOf ==
  ASSUME IInv, NEW d \in Callers, Store(d) \/ Fail(d) \/ StoreRaises(d)
  PROVE  /\ calls[d].pc # "idle" /\ calls'[d] = Idle
         /\ \A c \in Callers \ {d} : calls'[c] = calls[c]
         /\ codex' = codex
<1>1. Ends(d) /\ calls[d].pc \in InFlight /\ codex' = codex
  BY DEF Store, Fail, StoreRaises, InFlight
<1> QED
  BY <1>1, EndTyped DEF InFlight

(* A payload comes to a call from Codex, stays, or goes.                   *)
LEMMA PayloadSteps ==
  ASSUME IInv, [Next]_vars, NEW c \in Callers
  PROVE  \/ calls'[c].payload = calls[c].payload
         \/ calls'[c].payload = Idle.payload
         \/ calls'[c].payload \in Payloads /\ codex' = codex
<1>1. CASE \E d \in Callers : Refresh(d)
  <2>1. PICK d \in Callers : Refresh(d)
    BY <1>1
  <2>2. CASE c = d
    BY <2>1, <2>2, BeginOf, AnswerOf, EndOf DEF Refresh, Answer
  <2>3. CASE c # d
    BY <2>1, <2>3, BeginOf, AnswerOf, EndOf DEF Refresh
  <2> QED
    BY <2>2, <2>3
<1>2. CASE Notify
  BY <1>2, NotifyOf
<1>3. CASE Restart \/ Tick \/ Work \/ UNCHANGED vars
  BY <1>3 DEF Restart, Tick, Work, vars
<1> QED
  BY <1>1, <1>2, <1>3 DEF Next

(* So no call holds a reset that Codex has not had.                        *)
LEMMA GenuineLater ==
  ASSUME IInv, codex.opened <= now, Genuine, [Next]_vars
  PROVE  Genuine'
<1> SUFFICES ASSUME NEW c \in Callers PROVE Told(calls'[c].payload.five.reset, codex')
  BY DEF Genuine
<1>1. CASE calls'[c].payload = calls[c].payload
  <2>1. calls[c].payload.five.reset \in Nat /\ Told(calls[c].payload.five.reset, codex)
    BY Facts DEF Genuine
  <2>2. Told(calls[c].payload.five.reset, codex')
    BY <2>1, ToldLater
  <2> QED
    BY <1>1, <2>2
<1>2. CASE calls'[c].payload = Idle.payload
  BY <1>2, IdlePayload DEF Told
<1>3. CASE calls'[c].payload \in Payloads /\ codex' = codex
  BY <1>3, PayloadsTold
<1> QED
  BY <1>1, <1>2, <1>3, PayloadSteps

-----------------------------------------------------------------------------
(* The steps of an anchor.  Each leaves a run that is sound for what Codex *)
(* has after it.                                                           *)
RunPcs == Refreshing \cup {"idle", "checked", "skipped", "turn", "sent", "limited", "done"}

LEMMA AtPc ==
  ASSUME NEW t \in Run, NEW q \in RunPcs
  PROVE  /\ [t EXCEPT !.pc = q] \in Run /\ [t EXCEPT !.pc = q].pc = q
         /\ [t EXCEPT !.pc = q].before = t.before /\ [t EXCEPT !.pc = q].raw = t.raw
         /\ [t EXCEPT !.pc = q].at = t.at /\ [t EXCEPT !.pc = q].found = t.found
         /\ [t EXCEPT !.pc = q].reset = t.reset /\ [t EXCEPT !.pc = q].error = t.error
BY Zenon DEF Run, RunPcs

(* The state before a step of an anchor, and its run after Codex moved on. *)
LEMMA Here ==
  ASSUME AInv, [AnchorNext]_allVars
  PROVE  /\ IInv /\ IInv' /\ [Next]_vars /\ Genuine' /\ codex'.opened <= now'
         /\ anchor \in Run /\ skips \in BOOLEAN
         /\ anchor.pc \in Refreshing <=> calls[Anchor].pc # "idle"
         /\ Sound(anchor, codex, now) /\ Sound(anchor, codex', now')
         /\ now \in Clock /\ now' \in Clock /\ now \in Nat /\ now' \in Nat /\ now <= now'
         /\ codex'.opened \in Nat /\ codex'.reset \in Nat
<1>1. IInv /\ Genuine /\ codex.opened <= now /\ AnchorTypeOK /\ Sound(anchor, codex, now)
  BY DEF AInv
<1>2. [Next]_vars
  BY AnchorIsUser
<1>3. anchor \in Run /\ skips \in BOOLEAN /\ (anchor.pc \in Refreshing <=> calls[Anchor].pc # "idle")
  BY <1>1 DEF AnchorTypeOK
<1>4. IInv' /\ Genuine' /\ Sound(anchor, codex', now')
  BY <1>1, <1>2, <1>3, NextIInv, GenuineLater, SoundLater
<1>5. now \in Clock /\ now' \in Clock
  BY <1>1, <1>4 DEF IInv, TypeOK
<1> QED
  BY <1>1, <1>2, <1>3, <1>4, <1>5, CodexMoves

(* What is left to show of a step.                                         *)
Sounds == AnchorTypeOK' /\ Sound(anchor', codex', now')

LEMMA StartRefreshSounds ==
  ASSUME AInv, [AnchorNext]_allVars, StartRefresh
  PROVE  Sounds
<1> DEFINE q == CASE anchor.pc = "idle" -> "pre" [] anchor.pc = "sent" -> "post"
                  [] anchor.pc = "limited" -> "quota"
<1>1. /\ anchor.pc \in {"idle", "sent", "limited"} /\ Begin(Anchor) /\ skips' = skips
      /\ anchor' = [anchor EXCEPT !.pc = q]
  BY DEF StartRefresh
<1>2. /\ q \in RunPcs /\ q \in Refreshing /\ q # "done"
      /\ q \in Comparing => anchor.pc \in Comparing
  BY <1>1 DEF RunPcs, Refreshing, Comparing
<1> HIDE DEF q
<1>3. /\ anchor' \in Run /\ anchor'.pc = q /\ anchor'.before = anchor.before
      /\ anchor'.raw = anchor.raw /\ anchor'.at = anchor.at /\ anchor'.found = anchor.found
      /\ anchor'.reset = anchor.reset /\ anchor'.error = anchor.error
  BY <1>1, <1>2, Here, AtPc
<1>4. calls'[Anchor].pc # "idle"
  BY <1>1, Here, BeginOf, AnchorCalls
<1>5. anchor.found = "none"
  BY <1>1, Here DEF Sound
<1>6. anchor.error.meta \in Nat /\ anchor.at \in Nat
  BY Here, RunFields
<1>7. ErrorOf(anchor)
  BY Here DEF Sound
<1>8. anchor.pc = "limited" => anchor.error.meta = NoTime
  BY <1>6, <1>7 DEF StartRefresh, ErrorOf
<1>9. q = "quota" <=> anchor.pc = "limited"
  BY <1>1 DEF q
<1>10. ErrorOf(anchor')
  BY <1>1, <1>2, <1>3, <1>7, <1>8, <1>9 DEF ErrorOf, Refreshing
<1> QED
  BY <1>1, <1>2, <1>3, <1>4, <1>5, <1>10, Here
     DEF Sounds, AnchorTypeOK, Sound, Outlasts, Heard

(* The payload of the pre-check is the one that Codex gave, and the reset   *)
(* that the merged snapshot has is its own when it has one.                 *)
LEMMA EndPreCheckSounds ==
  ASSUME AInv, [AnchorNext]_allVars, EndPreCheck
  PROVE  Sounds
<1>1. /\ anchor.pc = "pre" /\ skips' = skips
      /\ calls'[Anchor] = Idle /\ codex' = codex
  BY Here, EndOf, AnchorCalls DEF EndPreCheck
<1>2. anchor.found = "none"
  BY <1>1, Here DEF Sound
<1>3. CASE Store(Anchor) /\ anchor' = [anchor EXCEPT !.pc = "checked",
                                         !.before = Snapshot(Anchor).five.reset,
                                         !.raw = calls[Anchor].payload]
  <2> DEFINE b == Snapshot(Anchor).five.reset
             p == calls[Anchor].payload
  <2>1. calls[Anchor] \in Call /\ latest \in Row /\ p \in Payload
    BY Here, Facts, CallFields, AnchorCalls
  <2>2. b \in {p.five.reset, latest.five.reset}
        /\ (p.five.reset # NoTime => b = p.five.reset)
    BY <2>1, SnapshotOf DEF Snapshot, Pick
  <2>3. p.five.reset \in Times /\ latest.five.reset \in Times
    BY <2>1, PayloadFields, RowFields, WindowFields
  <2>4. p.five.reset <= codex.reset /\ latest.five.reset <= codex.reset
    BY Here, AnchorCalls DEF IInv, Reported
  <2>5. Told(p.five.reset, codex)
    BY AnchorCalls DEF AInv, Genuine
  <2>6. anchor' = [anchor EXCEPT !.pc = "checked", !.before = b, !.raw = p]
    BY <1>3
  <2> HIDE DEF b, p
  <2>7. b \in Times
    BY <2>2, <2>3
  <2>8. /\ anchor' \in Run /\ anchor'.pc = "checked" /\ anchor'.before = b
        /\ anchor'.raw = p /\ anchor'.at = anchor.at /\ anchor'.found = anchor.found
        /\ anchor'.error = anchor.error
    BY <2>1, <2>6, <2>7, Here, Zenon DEF Run
  <2> QED
    BY <1>1, <1>2, <2>2, <2>4, <2>5, <2>8, Here, IdleCall
       DEF Sounds, AnchorTypeOK, Sound, ErrorOf, Outlasts, Heard, Refreshing, Comparing
<1>4. CASE anchor' = [anchor EXCEPT !.pc = "checked"]
  <2>1. /\ anchor' \in Run /\ anchor'.pc = "checked" /\ anchor'.before = anchor.before
        /\ anchor'.raw = anchor.raw /\ anchor'.at = anchor.at
        /\ anchor'.found = anchor.found /\ anchor'.error = anchor.error
    BY <1>4, Here, AtPc DEF RunPcs
  <2> QED
    BY <1>1, <1>2, <2>1, Here, IdleCall
       DEF Sounds, AnchorTypeOK, Sound, ErrorOf, Outlasts, Heard, Refreshing, Comparing
<1> QED
  BY <1>3, <1>4 DEF EndPreCheck

LEMMA DecideSounds ==
  ASSUME AInv, [AnchorNext]_allVars, Decide
  PROVE  Sounds
<1> DEFINE q == IF skips /\ WindowIsActive(anchor.before) THEN "skipped" ELSE "turn"
<1>1. /\ anchor.pc = "checked" /\ skips' = skips /\ calls' = calls /\ now' = now
      /\ anchor' = [anchor EXCEPT !.pc = q, !.at = now]
  BY DEF Decide, vars
<1>2. q \in {"skipped", "turn"}
  OBVIOUS
<1> HIDE DEF q
<1>3. q \in RunPcs /\ q \notin Refreshing /\ q # "done"
  BY <1>2 DEF RunPcs, Refreshing
<1>4. /\ anchor' \in Run /\ anchor'.pc = q /\ anchor'.before = anchor.before
      /\ anchor'.raw = anchor.raw /\ anchor'.at = now /\ anchor'.found = anchor.found
      /\ anchor'.error = anchor.error
  BY <1>1, <1>3, Here, Zenon DEF Run, RunPcs
<1>5. anchor.found = "none" /\ anchor.pc \in Comparing /\ anchor.pc \notin Refreshing
  BY <1>1, Here DEF Sound, Comparing, Refreshing
<1>6. q \notin {"limited", "quota"}
  BY <1>2
<1> QED
  BY <1>1, <1>3, <1>4, <1>5, <1>6, Here
     DEF Sounds, AnchorTypeOK, Sound, ErrorOf, Outlasts, Heard

LEMMA TurnSounds ==
  ASSUME AInv, [AnchorNext]_allVars, Turn
  PROVE  Sounds
<1>1. /\ anchor.pc = "turn" /\ skips' = skips /\ calls' = calls /\ now' = now
  BY DEF Turn
<1>2. /\ anchor.found = "none" /\ anchor.pc \in Comparing /\ anchor.pc \notin Refreshing
  BY <1>1, Here DEF Sound, Comparing, Refreshing
<1>3. CASE anchor' = [anchor EXCEPT !.pc = "sent"]
  <2>1. /\ anchor' \in Run /\ anchor'.pc = "sent" /\ anchor'.before = anchor.before
        /\ anchor'.raw = anchor.raw /\ anchor'.at = anchor.at
        /\ anchor'.found = anchor.found /\ anchor'.error = anchor.error
    BY <1>3, Here, AtPc DEF RunPcs
  <2> QED
    BY <1>1, <1>2, <2>1, Here
       DEF Sounds, AnchorTypeOK, Sound, ErrorOf, Outlasts, Heard, Refreshing, Comparing
<1>4. CASE \E e \in Refusals :
             anchor' = [Resting EXCEPT !.pc = "limited", !.at = now, !.error = e]
  <2>1. PICK e \in Refusals :
               anchor' = [Resting EXCEPT !.pc = "limited", !.at = now, !.error = e]
    BY <1>4
  <2>2. /\ e \in Refusal
        /\ e.meta = NoTime \/ e.meta > now
        /\ e.text = NoTime \/ e.text > now
    BY Numbers DEF Refusals, Refusal, BlockEnds
  <2>3. /\ anchor' \in Run /\ anchor'.pc = "limited" /\ anchor'.before = NoTime
        /\ anchor'.raw = Idle.payload /\ anchor'.at = now /\ anchor'.found = "none"
        /\ anchor'.error = e
    <3>1. /\ anchor' \in Run /\ anchor'.pc = "limited" /\ anchor'.before = Resting.before
          /\ anchor'.raw = Resting.raw /\ anchor'.at = now
          /\ anchor'.found = Resting.found /\ anchor'.error = e
      BY <2>1, <2>2, RestingRun, Here, Zenon DEF Run
    <3> QED
      BY <3>1, RestingRun
  <2>4. ErrorOf(anchor')
    BY <2>2, <2>3 DEF ErrorOf
  <2> QED
    BY <1>1, <1>2, <2>3, <2>4, Here, IdlePayload
       DEF Sounds, AnchorTypeOK, Sound, Outlasts, Heard, Refreshing, Comparing, Told, NoTime
<1>5. CASE anchor' = [Resting EXCEPT !.pc = "done", !.found = "failed"]
  <2>1. /\ anchor' \in Run /\ anchor'.pc = "done" /\ anchor'.before = NoTime
        /\ anchor'.raw = Idle.payload /\ anchor'.at = NoTime /\ anchor'.found = "failed"
    <3>1. /\ anchor' \in Run /\ anchor'.pc = "done" /\ anchor'.before = Resting.before
          /\ anchor'.raw = Resting.raw /\ anchor'.at = Resting.at
          /\ anchor'.found = "failed"
      BY <1>5, RestingRun, Zenon DEF Run
    <3> QED
      BY <3>1, RestingRun
  <2> QED
    BY <1>1, <1>2, <2>1, Here, IdlePayload
       DEF Sounds, AnchorTypeOK, Sound, ErrorOf, Outlasts, Heard, Refreshing, Comparing,
           Told, NoTime
<1> QED
  BY <1>3, <1>4, <1>5 DEF Turn

(* An anchor is verified by a reset after the one it compares with, which  *)
(* is that of a window opened since.                                       *)
LEMMA VerifySounds ==
  ASSUME AInv, [AnchorNext]_allVars, Verify
  PROVE  Sounds
<1>1. /\ anchor.pc = "post" /\ skips' = skips
      /\ calls'[Anchor] = Idle /\ codex' = codex
  BY Here, EndOf, AnchorCalls DEF Verify
<1>2. CASE /\ Store(Anchor)
           /\ anchor' = [anchor EXCEPT
                !.pc = "done", !.before = NoTime, !.at = NoTime,
                !.found = VerifyReset(anchor.before, Snapshot(Anchor).five.reset, anchor.at)]
  <2> DEFINE after == Snapshot(Anchor).five.reset
             found == VerifyReset(anchor.before, after, anchor.at)
  <2>1. calls[Anchor] \in Call /\ latest \in Row
    BY Here, Facts, AnchorCalls
  <2>2. after \in {calls[Anchor].payload.five.reset, latest.five.reset}
    BY <2>1, SnapshotOf
  <2>3. after \in Nat /\ after <= codex.reset
    BY <2>2, Here, Facts, AnchorCalls DEF IInv, Reported
  <2>4. found \in {"verified", "unchanged", "unverified", "unknown"}
    BY DEF VerifyReset
  <2>5. found = "verified" /\ anchor.before # NoTime => after > anchor.before
    BY DEF VerifyReset
  <2>6. anchor' = [anchor EXCEPT !.pc = "done", !.before = NoTime, !.at = NoTime,
                                 !.found = found]
    BY <1>2
  <2> HIDE DEF found, after
  <2>7. /\ anchor' \in Run /\ anchor'.pc = "done" /\ anchor'.before = NoTime
        /\ anchor'.raw = anchor.raw /\ anchor'.at = NoTime /\ anchor'.found = found
    BY <2>4, <2>6, Here, Numbers, Zenon DEF Run
  <2>8. found = "verified" /\ anchor.raw.five.reset # NoTime
          => codex.opened >= anchor.raw.five.reset
    <3> SUFFICES ASSUME found = "verified", anchor.raw.five.reset # NoTime
                 PROVE  codex.opened >= anchor.raw.five.reset
      OBVIOUS
    <3>1. anchor.before = anchor.raw.five.reset
      BY <1>1, Here DEF Sound, Comparing
    <3>2. anchor.raw.five.reset < codex.reset
      BY <2>3, <2>5, <3>1, Here, RunFields, Facts
    <3>3. Told(anchor.raw.five.reset, codex)
      BY Here DEF Sound
    <3> QED
      BY <3>2, <3>3, Here, RunFields, Facts, CodexMoves DEF Told, AInv
  <2> QED
    BY <1>1, <2>4, <2>7, <2>8, Here, IdleCall
       DEF Sounds, AnchorTypeOK, Sound, ErrorOf, Outlasts, Heard, Refreshing, Comparing,
           NoTime
<1>3. CASE anchor' = [Resting EXCEPT !.pc = "done", !.found = "unknown"]
  <2>1. /\ anchor' \in Run /\ anchor'.pc = "done" /\ anchor'.before = NoTime
        /\ anchor'.raw = Idle.payload /\ anchor'.at = NoTime /\ anchor'.found = "unknown"
    <3>1. /\ anchor' \in Run /\ anchor'.pc = "done" /\ anchor'.before = Resting.before
          /\ anchor'.raw = Resting.raw /\ anchor'.at = Resting.at
          /\ anchor'.found = "unknown"
      BY <1>3, RestingRun, Zenon DEF Run
    <3> QED
      BY <3>1, RestingRun
  <2> QED
    BY <1>1, <2>1, Here, IdlePayload, IdleCall
       DEF Sounds, AnchorTypeOK, Sound, ErrorOf, Outlasts, Heard, Refreshing, Comparing,
           Told, NoTime
<1> QED
  BY <1>2, <1>3 DEF Verify

(* The run that a recovery is set by, whether or not it is due already.    *)
SetTo(p, s, r) == [Resting EXCEPT !.pc = "done", !.raw = p, !.at = anchor.at,
                                  !.error = anchor.error, !.source = s, !.reset = r]

LEMMA SetFields ==
  ASSUME AInv, [AnchorNext]_allVars,
         NEW p \in Payload, NEW s \in {"none", "error", "payload", "text"}, NEW r \in Nat
  PROVE  /\ SetTo(p, s, r).at = anchor.at /\ SetTo(p, s, r).error = anchor.error
         /\ SetTo(p, s, r).source = s /\ SetTo(p, s, r).reset = r
<1>1. anchor.at \in Clock /\ anchor.error \in Refusal
  BY Here, RunFields
<1> QED
  BY <1>1, RestingRun, Zenon DEF Run, SetTo

(* What a recovery is set to, given what has told of the reset.            *)
LEMMA ScheduleSounds ==
  ASSUME AInv, [AnchorNext]_allVars,
         NEW p \in Payload, NEW s \in {"none", "error", "payload", "text"}, NEW r \in Nat,
         Schedule(p, s, r), skips' = skips, calls'[Anchor].pc = "idle",
         Told(p.five.reset, codex'),
         s # "none" => \/ ByError(SetTo(p, s, r))
                       \/ ByPayload(SetTo(p, s, r), p)
                       \/ ByText(SetTo(p, s, r), p),
         anchor.error.meta # NoTime => s = "error",
         s = "none" => anchor.error.text = NoTime
  PROVE  Sounds
<1> DEFINE t     == SetTo(p, s, r)
           found == IF s # "none" /\ r + OneMinute > now THEN "recover" ELSE "unresolved"
<1>1. /\ found \in {"recover", "unresolved"} /\ (found = "recover" => s # "none")
      /\ found = "unresolved" /\ s # "none" => ~(r + OneMinute > now)
  OBVIOUS
<1>2. anchor' = [Resting EXCEPT !.pc = "done", !.raw = p, !.at = anchor.at,
                                !.error = anchor.error, !.source = s, !.reset = r,
                                !.found = found]
  BY DEF Schedule
<1> HIDE DEF found
<1>3. anchor.at \in Clock /\ anchor.error \in Refusal /\ anchor.at \in Nat
  BY Here, RunFields
<1>4. /\ anchor' \in Run /\ anchor'.pc = "done" /\ anchor'.before = Resting.before
      /\ anchor'.raw = p /\ anchor'.at = anchor.at /\ anchor'.found = found
      /\ anchor'.error = anchor.error /\ anchor'.source = s /\ anchor'.reset = r
  BY <1>1, <1>2, <1>3, RestingRun, Zenon DEF Run
<1>5. t.at = anchor.at /\ t.error = anchor.error /\ t.source = s /\ t.reset = r
  BY SetFields
<1> HIDE DEF t
<1>6. Outlasts(anchor')
  BY <1>1, <1>4, <1>5 DEF Outlasts, ByError, ByPayload, ByText, Near, t
<1>7. Heard(anchor', now')
  <2> SUFFICES ASSUME anchor'.found = "unresolved" PROVE Heard(anchor', now')
    BY DEF Heard
  <2>1. now' \in Nat /\ now \in Nat /\ now <= now' /\ OneMinute \in Nat \ {0} /\ Day \in Nat
    BY Here, AnchorAssumption
  <2>2. anchor.error.meta \in Nat /\ anchor.error.text \in Nat
    BY Here, RunFields
  <2>3. s # "none" => r + OneMinute <= now
    BY <1>1, <1>4, <2>1
  <2>4. anchor.error.meta # NoTime => anchor.error.meta < now
    <3> SUFFICES ASSUME anchor.error.meta # NoTime PROVE anchor.error.meta < now
      OBVIOUS
    <3>1. ByError(t)
      BY <1>5 DEF ByPayload, ByText, t
    <3> QED
      BY <3>1, <1>5, <2>1, <2>2, <2>3 DEF ByError
  <2>5. s \notin {"error", "payload"} /\ Near(t) => anchor.error.text < now
    <3> SUFFICES ASSUME s \notin {"error", "payload"}, Near(t) PROVE anchor.error.text < now
      OBVIOUS
    <3>1. s = "text"
      BY <1>5 DEF Near
    <3>2. ByText(t, p)
      BY <3>1, <1>5 DEF ByError, ByPayload, t
    <3> QED
      BY <3>1, <3>2, <1>5, <2>1, <2>2, <2>3 DEF ByText
  <2> QED
    BY <1>4, <1>5, <2>1, <2>2, <2>4, <2>5 DEF Heard, Near
<1>8. anchor'.before = NoTime /\ anchor'.at <= now'
  BY <1>4, RestingRun, Here DEF Sound
<1> QED
  BY <1>1, <1>4, <1>6, <1>7, <1>8, Here
     DEF Sounds, AnchorTypeOK, Sound, ErrorOf, Refreshing, Comparing, NoTime

(* No reset was found, and no text told any.                               *)
LEMMA UnresolvedSounds ==
  ASSUME AInv, [AnchorNext]_allVars, NEW p \in Payload, Unresolved(p), skips' = skips,
         calls'[Anchor].pc = "idle", Told(p.five.reset, codex'),
         anchor.error.meta = NoTime, anchor.error.text = NoTime
  PROVE  Sounds
BY ScheduleSounds, Numbers DEF Unresolved

(* A payload told the reset.                                               *)
LEMMA PayloadSounds ==
  ASSUME AInv, [AnchorNext]_allVars, NEW p \in Payload, NEW r \in Nat,
         Schedule(p, "payload", r), skips' = skips,
         calls'[Anchor].pc = "idle", Told(p.five.reset, codex'),
         anchor.error.meta = NoTime,
         ~WeeklyUnknown(p), r \in {p.five.reset, p.week.reset}, r > anchor.at,
         p.five.used = "full" => p.five.reset <= r,
         p.week.used = "full" => p.week.reset <= r
  PROVE  Sounds
<1> DEFINE t == SetTo(p, "payload", r)
<1>1. t.at = anchor.at /\ t.source = "payload" /\ t.reset = r
  BY SetFields
<1> HIDE DEF t
<1>2. ByPayload(t, p)
  BY <1>1 DEF ByPayload, WeeklyUnknown
<1> QED
  BY <1>2, ScheduleSounds DEF t

LEMMA RecoverAfterSkipSounds ==
  ASSUME AInv, [AnchorNext]_allVars, RecoverAfterSkip
  PROVE  Sounds
<1> DEFINE r == ActiveReset(anchor.raw, now)
<1>1. /\ anchor.pc = "skipped" /\ skips' = skips /\ calls' = calls /\ codex' = codex
      /\ \/ r # NoTime /\ Schedule(anchor.raw, "payload", r)
         \/ r = NoTime /\ Unresolved(anchor.raw)
  BY DEF RecoverAfterSkip, vars
<1>2. anchor.raw \in Payload /\ anchor.at \in Nat /\ anchor.at <= now
  BY Here, RunFields DEF Sound
<1>3. r \in Times /\ r \in Nat
  BY <1>2, Here, ResetsTyped, Numbers
<1>4. r # NoTime => /\ ~WeeklyUnknown(anchor.raw)
                    /\ r \in {anchor.raw.five.reset, anchor.raw.week.reset}
                    /\ r > anchor.at
                    /\ anchor.raw.five.used = "full" => anchor.raw.five.reset <= r
                    /\ anchor.raw.week.used = "full" => anchor.raw.week.reset <= r
  BY <1>2, <1>3, Here, ActiveOf
<1>5. Told(anchor.raw.five.reset, codex')
  BY Here DEF Sound
<1>6. calls'[Anchor].pc = "idle"
  BY <1>1, Here DEF Refreshing
<1>7. anchor.error.meta = NoTime /\ anchor.error.text = NoTime
  <2>1. anchor.error = Silent
    BY <1>1, Here DEF Sound, ErrorOf
  <2> QED
    BY <2>1, SilentFields
<1> HIDE DEF r
<1>8. CASE r # NoTime
  BY <1>1, <1>2, <1>3, <1>4, <1>5, <1>6, <1>7, <1>8, PayloadSounds
<1>9. CASE r = NoTime
  BY <1>1, <1>2, <1>5, <1>6, <1>7, <1>9, UnresolvedSounds
<1> QED
  BY <1>8, <1>9

LEMMA RecoverFromErrorSounds ==
  ASSUME AInv, [AnchorNext]_allVars, RecoverFromError
  PROVE  Sounds
<1> DEFINE r == anchor.error.meta
           t == SetTo(Idle.payload, "error", r)
<1>1. /\ anchor.pc = "limited" /\ r > anchor.at /\ skips' = skips /\ calls' = calls
      /\ Schedule(Idle.payload, "error", r)
  BY DEF RecoverFromError, vars
<1>2. r \in Nat
  BY Here, RunFields
<1>3. t.at = anchor.at /\ t.error = anchor.error /\ t.source = "error" /\ t.reset = r
  BY <1>2, IdlePayload, SetFields
<1>4. calls'[Anchor].pc = "idle"
  BY <1>1, Here DEF Refreshing
<1>5. Told(Idle.payload.five.reset, codex')
  BY IdlePayload DEF Told
<1> HIDE DEF t
<1>6. ByError(t)
  BY <1>1, <1>3 DEF ByError
<1> QED
  BY <1>1, <1>2, <1>4, <1>5, <1>6, IdlePayload, ScheduleSounds DEF t

(* No window of a payload blocks for longer when it tells no reset.        *)
LEMMA NothingBlocks ==
  ASSUME NEW p \in Payload, NEW at \in Nat, BlockingReset(p, at) = NoTime
  PROVE  \/ WeeklyUnknown(p)
         \/ /\ p.five.used = "full" => p.five.reset <= at
            /\ p.week.used = "full" => p.week.reset <= at
<1> SUFFICES ASSUME ~WeeklyUnknown(p)
             PROVE  /\ p.five.used = "full" => p.five.reset <= at
                    /\ p.week.used = "full" => p.week.reset <= at
  OBVIOUS
<1>1. p.five.reset \in Nat /\ p.week.reset \in Nat
  BY PayloadFields
<1>2. Blocking(p, at) = {}
  <2> SUFFICES ASSUME Blocking(p, at) # {} PROVE FALSE
    OBVIOUS
  <2>1. PICK w \in Blocking(p, at) : BlockingReset(p, at) = p[w].reset
    BY BlockingFound
  <2>2. w \in {"five", "week"} /\ p[w].reset > at
    BY <2>1 DEF Blocking
  <2>3. p[w].reset \in Nat
    BY <2>2, <1>1
  <2> QED
    BY <2>1, <2>2, <2>3 DEF NoTime
<1>3. /\ p.five.used = "full" => ~(p.five.reset > at)
      /\ p.week.used = "full" => ~(p.week.reset > at)
  BY <1>2 DEF Blocking
<1> QED
  BY <1>1, <1>3

LEMMA ResolveSounds ==
  ASSUME AInv, [AnchorNext]_allVars, NEW p \in Payload, Resolve(p), skips' = skips,
         anchor.pc = "quota", calls'[Anchor].pc = "idle", Told(p.five.reset, codex')
  PROVE  Sounds
<1> DEFINE r == BlockingReset(p, anchor.at)
           text == anchor.error.text
<1>1. \/ r # NoTime /\ Schedule(p, "payload", r)
      \/ r = NoTime /\ text # NoTime /\ Schedule(p, "text", TextReset(text, anchor.at))
      \/ r = NoTime /\ text = NoTime /\ Unresolved(p)
  BY DEF Resolve
<1>2. anchor.at \in Nat /\ text \in Nat /\ anchor.at \in Clock /\ anchor.error \in Refusal
  BY Here, RunFields
<1>3. anchor.error.meta = NoTime /\ (text = NoTime \/ text > anchor.at)
  BY Here DEF Sound, ErrorOf
<1>4. r \in Nat
  BY <1>2, ResetsTyped, Numbers
<1>5. CASE r # NoTime
  <2>1. /\ ~WeeklyUnknown(p) /\ r \in {p.five.reset, p.week.reset} /\ r > anchor.at
        /\ p.five.used = "full" => p.five.reset <= r
        /\ p.week.used = "full" => p.week.reset <= r
    BY <1>2, <1>5, BlockingOf
  <2>2. Schedule(p, "payload", r)
    BY <1>1, <1>5
  <2> HIDE DEF r
  <2> QED
    BY <2>1, <2>2, <1>3, <1>4, PayloadSounds
<1>6. CASE r = NoTime /\ text # NoTime
  <2> DEFINE c == TextReset(text, anchor.at)
             t == SetTo(p, "text", c)
  <2>1. /\ c \in Nat /\ c + OneMinute > anchor.at
        /\ text + OneMinute <= anchor.at + Day => c = Minute(text)
    BY <1>2, <1>3, <1>6, TextTells
  <2>2. Minute(text) \in Nat /\ Minute(text) <= text /\ text < Minute(text) + OneMinute
    BY <1>2, TimeOfDay
  <2>3. Schedule(p, "text", c)
    BY <1>1, <1>6
  <2>4. \/ WeeklyUnknown(p)
        \/ /\ p.five.used = "full" => p.five.reset <= anchor.at
           /\ p.week.used = "full" => p.week.reset <= anchor.at
    BY <1>2, <1>6, NothingBlocks
  <2> HIDE DEF c
  <2>5. t.at = anchor.at /\ t.error = anchor.error /\ t.source = "text" /\ t.reset = c
    BY <2>1, SetFields
  <2> HIDE DEF t
  <2>6. Near(t) => c = Minute(text)
    BY <2>1, <2>5 DEF Near
  <2>7. Near(t) => text < c + OneMinute /\ c + OneMinute <= text + OneMinute
    BY <2>2, <2>6, <1>2, AnchorAssumption
  <2>8. ByText(t, p)
    BY <2>1, <2>4, <2>5, <2>7 DEF ByText
  <2> QED
    BY <2>1, <2>3, <2>8, <1>3, <1>6, ScheduleSounds DEF t
<1>7. CASE r = NoTime /\ text = NoTime
  BY <1>1, <1>3, <1>7, UnresolvedSounds
<1> QED
  BY <1>5, <1>6, <1>7

LEMMA RecoverAfterLimitSounds ==
  ASSUME AInv, [AnchorNext]_allVars, RecoverAfterLimit
  PROVE  Sounds
<1>1. /\ anchor.pc = "quota" /\ skips' = skips
      /\ calls'[Anchor].pc = "idle" /\ codex' = codex
  BY Here, EndOf, AnchorCalls, IdleCall DEF RecoverAfterLimit
<1>2. CASE Resolve(calls[Anchor].payload)
  <2>1. calls[Anchor].payload \in Payload
    BY Here, Facts, CallFields, AnchorCalls
  <2>2. Told(calls[Anchor].payload.five.reset, codex')
    BY <1>1, AnchorCalls DEF AInv, Genuine
  <2> QED
    BY <1>1, <1>2, <2>1, <2>2, ResolveSounds
<1>3. CASE Resolve(Idle.payload)
  <2>1. Told(Idle.payload.five.reset, codex')
    BY IdlePayload DEF Told
  <2> QED
    BY <1>1, <1>3, <2>1, IdlePayload, ResolveSounds
<1> QED
  BY <1>2, <1>3 DEF RecoverAfterLimit

(* The steps of the others, and a restart.                                 *)
LEMMA OthersSound ==
  ASSUME AInv, [AnchorNext]_allVars, ~AnchorStep
  PROVE  Sounds
<1>1. CASE anchor' = anchor /\ skips' = skips
           /\ (calls'[Anchor].pc = "idle" <=> calls[Anchor].pc = "idle")
  <2>1. Sound(anchor', codex', now')
    BY <1>1, Here DEF Sound
  <2>2. AnchorTypeOK'
    BY <1>1, Here DEF AnchorTypeOK, Sound
  <2> QED
    BY <2>1, <2>2 DEF Sounds
<1>2. CASE Answer(Anchor) /\ UNCHANGED anchorVars
  BY <1>2, <1>1, Here, AnchorCalls, AnswerOf DEF anchorVars
<1>3. CASE (\E c \in Callers \ {Anchor} : Refresh(c)) /\ UNCHANGED anchorVars
  <2>1. PICK c \in Callers \ {Anchor} : Refresh(c)
    BY <1>3
  <2>2. calls'[Anchor].pc = calls[Anchor].pc
    BY <2>1, Here, AnchorCalls, BeginOf, AnswerOf, EndOf DEF Refresh
  <2> QED
    BY <1>1, <1>3, <2>2 DEF anchorVars
<1>4. CASE (Notify \/ Tick \/ Work) /\ UNCHANGED anchorVars
  <2>1. Anchor # Listener
    BY AnchorCalls, CallersAssumption
  <2>2. calls'[Anchor].pc = calls[Anchor].pc
    BY <1>4, <2>1, Here, AnchorCalls, NotifyOf DEF Tick, Work
  <2> QED
    BY <1>1, <1>4, <2>2 DEF anchorVars
<1>5. CASE Restart /\ anchor' = Resting /\ skips' = skips
  <2>1. calls'[Anchor].pc = "idle"
    BY <1>5, AnchorCalls, IdleCall DEF Restart
  <2> QED
    BY <1>5, <2>1, Here, RestingRun, IdlePayload
       DEF Sounds, AnchorTypeOK, Sound, ErrorOf, Outlasts, Heard, Refreshing, Comparing,
           Told, NoTime
<1>6. CASE UNCHANGED allVars
  BY <1>1, <1>6 DEF allVars, vars, anchorVars
<1> QED
  BY <1>2, <1>3, <1>4, <1>5, <1>6 DEF AnchorNext

LEMMA NextAInv == AInv /\ [AnchorNext]_allVars => AInv'
<1> SUFFICES ASSUME AInv, [AnchorNext]_allVars PROVE AInv'
  OBVIOUS
<1>1. Sounds
  BY StartRefreshSounds, EndPreCheckSounds, DecideSounds, TurnSounds, VerifySounds,
     RecoverAfterSkipSounds, RecoverFromErrorSounds, RecoverAfterLimitSounds, OthersSound
     DEF AnchorStep
<1>2. AnchorTypeOK' /\ Sound(anchor', codex', now')
  BY <1>1 DEF Sounds
<1> QED
  BY <1>2, Here DEF AInv

LEMMA InitAInv == AnchorInit => AInv
<1> SUFFICES ASSUME AnchorInit PROVE AInv
  OBVIOUS
<1>1. IInv
  BY InitIInv DEF AnchorInit
<1>2. /\ now = 1 /\ anchor = Resting /\ skips \in BOOLEAN
      /\ \A c \in Callers : calls[c] = Idle
  BY DEF AnchorInit, Init
<1>3. codex.opened = NoTime /\ codex.reset = NoTime
  BY DEF AnchorInit, Init
<1>4. AnchorTypeOK
  BY <1>2, RestingRun, IdleCall, AnchorCalls DEF AnchorTypeOK, Refreshing
<1>5. Genuine
  BY <1>2, IdlePayload DEF Genuine, Told
<1>6. Sound(anchor, codex, now)
  BY <1>2, <1>3, RestingRun, IdlePayload
     DEF Sound, ErrorOf, Outlasts, Heard, Comparing, Told, NoTime
<1> QED
  BY <1>1, <1>2, <1>3, <1>4, <1>5, <1>6 DEF AInv, NoTime

-----------------------------------------------------------------------------
THEOREM AnchorInvariance == AnchorSpec => []AInv
BY InitAInv, NextAInv, PTL DEF AnchorSpec

(* Types; an anchor is at a refresh just when its thread has one to end.   *)
THEOREM AnchorTyped == AnchorSpec => []AnchorTypeOK
<1>1. AInv => AnchorTypeOK
  BY DEF AInv
<1> QED
  BY <1>1, AnchorInvariance, PTL

(* "verified" means that Codex has opened a window since the reset that    *)
(* the pre-check was told.                                                 *)
THEOREM VerifiedTruly == AnchorSpec => []VerifiedMeansNew
<1>1. AInv => VerifiedMeansNew
  BY DEF AInv, Sound, VerifiedMeansNew
<1> QED
  BY <1>1, AnchorInvariance, PTL

(* A recovery is set to what its error told as metadata, or else to the     *)
(* last of the windows that the payload read for it showed to block, or     *)
(* else to the minute that the error named in its text.                     *)
THEOREM RecoveryWaits == AnchorSpec => []RecoveryOutlasts
<1>1. AInv => RecoveryOutlasts
  <2> SUFFICES ASSUME AInv, anchor.found = "recover"
               PROVE  \/ /\ anchor.source = "error"
                         /\ anchor.reset = anchor.error.meta /\ anchor.reset > anchor.at
                      \/ anchor.source = "payload" /\ ToldByPayload
                      \/ anchor.source = "text" /\ ToldByText
    BY DEF RecoveryOutlasts
  <2>1. \/ ByError(anchor) \/ ByPayload(anchor, anchor.raw) \/ ByText(anchor, anchor.raw)
    BY DEF AInv, Sound, Outlasts
  <2>2. ByPayload(anchor, anchor.raw) => anchor.source = "payload" /\ ToldByPayload
    BY DEF ByPayload, ToldByPayload
  <2>3. ByText(anchor, anchor.raw) => anchor.source = "text" /\ ToldByText
    BY DEF ByText, ToldByText, Near, TextIsNear, WeeklyUnknown
  <2> QED
    BY <2>1, <2>2, <2>3 DEF ByError
<1> QED
  BY <1>1, AnchorInvariance, PTL

(* A reset that a refusal told is not dropped before it has passed.        *)
THEOREM RefusalsAreHeard == AnchorSpec => []ToldIsHeard
<1>1. AInv => ToldIsHeard
  BY DEF AInv, Sound, Heard, Near, ToldIsHeard, TextIsNear
<1> QED
  BY <1>1, AnchorInvariance, PTL

(* An anchor is skipped only while a window is open.                       *)
THEOREM SkipsTruly == AnchorSpec => SkipIsJustified
<1>1. AInv /\ [AnchorNext]_allVars
        => [anchor.pc = "checked" /\ anchor'.pc = "skipped" => Open]_anchor
  <2> SUFFICES ASSUME AInv, [AnchorNext]_allVars,
                      anchor.pc = "checked", anchor'.pc = "skipped"
               PROVE  Open
    OBVIOUS
  <2>1. Decide
    <3>1. anchor' # anchor
      OBVIOUS
    <3>2. ~StartRefresh /\ ~EndPreCheck /\ ~Turn /\ ~Verify /\ ~RecoverAfterSkip
          /\ ~RecoverFromError /\ ~RecoverAfterLimit
      BY DEF StartRefresh, EndPreCheck, Turn, Verify, RecoverAfterSkip, RecoverFromError,
             RecoverAfterLimit, Resolve, Unresolved, Schedule
    <3>3. anchor' # Resting
      BY RestingRun
    <3> QED
      BY <3>1, <3>2, <3>3 DEF AnchorNext, AnchorStep, anchorVars, allVars
  <2>2. WindowIsActive(anchor.before)
    <3>1. anchor' = [anchor EXCEPT
            !.pc = IF skips /\ WindowIsActive(anchor.before) THEN "skipped" ELSE "turn",
            !.at = now]
      BY <2>1 DEF Decide
    <3>2. anchor'.pc = IF skips /\ WindowIsActive(anchor.before) THEN "skipped" ELSE "turn"
      BY <3>1, Here, Zenon DEF Run
    <3> QED
      BY <3>2
  <2>3. anchor.before > now /\ anchor.before <= codex.reset
    BY <2>2, Here DEF WindowIsActive, Sound
  <2>4. anchor.before \in Nat /\ now \in Nat /\ codex.reset \in Nat
    BY Here, RunFields, Facts
  <2> QED
    BY <2>3, <2>4 DEF Open
<1> QED
  BY <1>1, AnchorInvariance, PTL DEF AnchorSpec, SkipIsJustified

-----------------------------------------------------------------------------
(* A scheduled anchor is one more user of TelemetryService: with its own   *)
(* variables hidden, every behaviour of AnchorWindows is one of            *)
(* UsageTelemetry, where a turn is the work of a user.                     *)
THEOREM AnchorsUseTelemetry == AnchorSpec => Spec
<1>1. AnchorInit => Init
  BY DEF AnchorInit
<1>. QED
  BY <1>1, AnchorIsUser, PTL DEF AnchorSpec, Spec

(* So what is proved of the dashboard holds while anchors run: a known      *)
(* value stays known, a refresh that ran alone decides what is shown, and  *)
(* a window shown as active is open, pre-checks and turns included.        *)
THEOREM AnchorsKeepTheDashboard ==
  AnchorSpec => /\ KnownStaysKnown
                /\ []QuietRefreshDecides
                /\ []ActiveIsOpen
BY AnchorsUseTelemetry, NothingIsForgotten, RefreshDecides, ActiveTruly
=============================================================================
