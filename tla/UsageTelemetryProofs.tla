------------------------ MODULE UsageTelemetryProofs ------------------------
(***************************************************************************)
(* Proofs of the properties of UsageTelemetry, for any number of refreshes *)
(* at once, any window lengths and any bound on the clock.                  *)
(***************************************************************************)
EXTENDS UsageTelemetry, TLAPS

(* A call that is alone has nobody beside it, and was stamped after the    *)
(* last failure; a call in flight is stamped.                               *)
Alone ==
  \A c \in Callers : calls[c].pc \in InFlight =>
    /\ calls[c].at >= 1
    /\ calls[c].alone = TRUE =>
         /\ failed <= calls[c].at
         /\ \A d \in Callers \ {c} : calls[d].pc \notin InFlight

(* No reset of the 5-hour window is reported that is later than Codex's.   *)
Reported ==
  /\ latest.five.reset <= codex.reset
  /\ \A c \in Callers : calls[c].payload.five.reset <= codex.reset

IInv == TypeOK /\ Alone /\ QuietRefreshDecides /\ Reported

-----------------------------------------------------------------------------
LEMMA Numbers == /\ Clock \subseteq Times /\ Times \subseteq Nat /\ Clock \subseteq Nat
                 /\ NoTime \in Clock /\ 1 \in Nat
BY TimesAssumption DEF Clock, Times, NoTime

LEMMA AbsentWindow == Absent \in Window
BY Numbers DEF Absent, Window

LEMMA IdleCall == /\ Idle \in Call /\ Idle.pc = "idle" /\ Idle.at = NoTime
                  /\ Idle.alone = FALSE /\ Idle.payload = [five |-> Absent, week |-> Absent]
                  /\ Idle.payload \in Payload
<1>1. [five |-> Absent, week |-> Absent] \in Payload
  BY AbsentWindow DEF Payload
<1>2. QED
  BY <1>1, Numbers, Zenon DEF Idle, Call

(* What a row or a call is made of.                                        *)
LEMMA RowFields == ASSUME NEW r \in Row
                   PROVE  /\ r.at \in Clock /\ r.five \in Window /\ r.week \in Window
                          /\ r.status \in Status \cup {"none"}
BY DEF Row

LEMMA CallFields == ASSUME NEW k \in Call
                    PROVE  /\ k.pc \in InFlight \cup {"idle"} /\ k.at \in Clock
                           /\ k.alone \in BOOLEAN /\ k.payload \in Payload
                           /\ k.payload.five \in Window /\ k.payload.week \in Window
<1>1. k.payload \in Payload
  BY Zenon DEF Call
<1>2. k.payload.five \in Window /\ k.payload.week \in Window
  BY <1>1 DEF Payload
<1>3. k.pc \in InFlight \cup {"idle"} /\ k.at \in Clock /\ k.alone \in BOOLEAN
  BY Zenon DEF Call
<1>4. QED
  BY <1>1, <1>2, <1>3

LEMMA WindowFields == ASSUME NEW w \in Window
                      PROVE  w.used \in {"none", "low", "full"} /\ w.reset \in Times
                             /\ w.reset \in Nat
BY Numbers DEF Window

(* Merging.                                                                *)
LEMMA PickTyped == ASSUME NEW v \in Window, NEW w \in Window
                   PROVE  /\ Pick(v, w) \in Window
                          /\ w.used # "none" => Pick(v, w).used # "none"
                          /\ v.used # "none" => Pick(v, w).used # "none"
                          /\ Pick(v, w).reset \in {v.reset, w.reset}
BY WindowFields DEF Pick, Window

LEMMA KnownOf == ASSUME NEW r
                 PROVE  /\ "five" \in Known(r) <=> r.five.used # "none"
                        /\ "week" \in Known(r) <=> r.week.used # "none"
                        /\ Known(r) \subseteq {"five", "week"}
BY DEF Known

(* A snapshot keeps what was known, and is complete when it is "ok".       *)
LEMMA SnapshotOf == ASSUME NEW c, calls[c] \in Call, latest \in Row
                    PROVE  /\ Snapshot(c) \in Row /\ Snapshot(c).at = calls[c].at
                           /\ Known(latest) \subseteq Known(Snapshot(c))
                           /\ Snapshot(c).status = "ok" => Known(Snapshot(c)) = {"five", "week"}
                           /\ Snapshot(c).five.reset \in {calls[c].payload.five.reset, latest.five.reset}
<1> DEFINE five == Pick(calls[c].payload.five, latest.five)
           week == Pick(calls[c].payload.week, latest.week)
           status == ParserStatus(calls[c].payload)
<1>1. /\ calls[c].payload.five \in Window /\ calls[c].payload.week \in Window
      /\ latest.five \in Window /\ latest.week \in Window /\ calls[c].at \in Clock
  BY CallFields, RowFields
<1>2. /\ five \in Window /\ week \in Window
      /\ latest.five.used # "none" => five.used # "none"
      /\ latest.week.used # "none" => week.used # "none"
      /\ calls[c].payload.five.used # "none" => five.used # "none"
      /\ calls[c].payload.week.used # "none" => week.used # "none"
      /\ five.reset \in {calls[c].payload.five.reset, latest.five.reset}
  BY <1>1, PickTyped
<1>3. /\ status \in Status
      /\ status = "ok" => Known(calls[c].payload) = {"five", "week"}
  BY DEF ParserStatus, Status
<1>4. /\ Snapshot(c).at = calls[c].at /\ Snapshot(c).status = status
      /\ Snapshot(c).five = five /\ Snapshot(c).week = week
  BY DEF Snapshot
<1>5. Snapshot(c) \in Row
  <2>1. Snapshot(c) = [at |-> calls[c].at, status |-> status, five |-> five, week |-> week]
    BY DEF Snapshot
  <2> HIDE DEF five, week, status
  <2> QED
    BY <2>1, <1>1, <1>2, <1>3 DEF Row
<1> HIDE DEF five, week, status
<1>6. Known(latest) \subseteq Known(Snapshot(c))
  BY <1>2, <1>4, KnownOf
<1>7. Snapshot(c).status = "ok" => Known(Snapshot(c)) = {"five", "week"}
  BY <1>2, <1>3, <1>4, KnownOf
<1>8. QED
  BY <1>2, <1>4, <1>5, <1>6, <1>7

-----------------------------------------------------------------------------
LEMMA InitIInv == Init => IInv
<1> SUFFICES ASSUME Init PROVE IInv
  OBVIOUS
<1>1. /\ latest \in Row /\ latest.at = NoTime /\ latest.five.reset = NoTime
      /\ latest.status # "ok" /\ latest = NoRow
  BY Numbers, AbsentWindow DEF Init, NoRow, Row, Absent
<1>2. \A c \in Callers : calls[c] = Idle
  BY DEF Init
<1>3. calls \in [Callers -> Call]
  BY <1>2, IdleCall DEF Init
<1>4. now \in Clock /\ now = 1 /\ failed = NoTime /\ outcome = "mixed"
  BY TimesAssumption DEF Init, Clock
<1>5. codex \in [opened : Clock, reset : Times, full : BOOLEAN, week : Window]
  <2>1. Weekly \subseteq Window
    BY WeeklyAssumption DEF Window
  <2>2. codex \in [opened : {NoTime}, reset : {NoTime}, full : {FALSE}, week : Weekly]
    BY DEF Init
  <2>3. {NoTime} \subseteq Clock /\ {NoTime} \subseteq Times /\ {FALSE} \subseteq BOOLEAN
    BY Numbers
  <2> QED
    BY <2>1, <2>2, <2>3, Zenon
<1>6. codex.reset = NoTime
  BY DEF Init
<1>7. TypeOK
  BY <1>1, <1>2, <1>3, <1>4, <1>5, IdleCall, Numbers DEF TypeOK, NoTime
<1>8. Alone
  BY <1>2, IdleCall DEF Alone, InFlight
<1>9. QuietRefreshDecides
  BY <1>4 DEF QuietRefreshDecides
<1>10. Reported
  BY <1>1, <1>2, <1>6, IdleCall DEF Reported, Absent, NoTime
<1> QED
  BY <1>7, <1>8, <1>9, <1>10 DEF IInv

-----------------------------------------------------------------------------
(* One call is replaced.                                                   *)
LEMMA OneCall == ASSUME NEW c \in Callers, NEW k \in Call, calls \in [Callers -> Call],
                        calls' = [calls EXCEPT ![c] = k]
                 PROVE  /\ calls' \in [Callers -> Call] /\ calls'[c] = k
                        /\ \A d \in Callers \ {c} : calls'[d] = calls[d]
OBVIOUS

(* The facts of the state before a step.                                   *)
LEMMA Facts == ASSUME IInv
               PROVE  /\ now \in Nat /\ now \in Clock /\ failed \in Nat /\ failed <= now
                      /\ latest \in Row /\ latest.at \in Nat /\ latest.at <= now
                      /\ latest.five.reset \in Nat
                      /\ calls \in [Callers -> Call]
                      /\ codex.reset \in Nat /\ codex.opened \in Clock /\ codex.reset \in Times
                      /\ codex.week \in Window
                      /\ \A c \in Callers : /\ calls[c] \in Call /\ calls[c].at \in Nat
                                            /\ calls[c].at <= now
                                            /\ calls[c].payload.five.reset \in Nat
<1>1. /\ now \in Clock /\ failed \in Clock /\ latest \in Row /\ calls \in [Callers -> Call]
      /\ failed <= now /\ latest.at <= now /\ \A c \in Callers : calls[c].at <= now
      /\ codex \in [opened : Clock, reset : Times, full : BOOLEAN, week : Window]
  BY DEF IInv, TypeOK
<1>2. codex.reset \in Times /\ codex.opened \in Clock /\ codex.week \in Window
  BY <1>1, Zenon
<1>3. latest.at \in Clock /\ latest.five.reset \in Nat
  BY <1>1, RowFields, WindowFields
<1>4. ASSUME NEW c \in Callers
      PROVE  calls[c] \in Call /\ calls[c].at \in Clock /\ calls[c].payload.five.reset \in Nat
  <2>1. calls[c] \in Call
    BY <1>1
  <2> QED
    BY <2>1, CallFields, WindowFields
<1>5. QED
  BY <1>1, <1>2, <1>3, <1>4, Numbers

(* A call enters, stamped with the time the clock moves to.                *)
LEMMA EnterIInv ==
  ASSUME IInv, NEW c \in Callers, NEW k \in Call, Stamp, calls' = Entered(c, k),
         calls[c].pc = "idle", k.pc \in InFlight, k.at = now + 1,
         k.payload.five.reset <= codex.reset,
         UNCHANGED <<codex, latest, failed, outcome>>
  PROVE  IInv'
<1>1. now' = now + 1 /\ now' \in Clock
  BY Facts, TimesAssumption DEF Stamp, Clock
<1> DEFINE alone == \A e \in Callers \ {c} : calls[e].pc \notin InFlight
<1>2. /\ DOMAIN calls' = Callers
      /\ calls'[c] = [k EXCEPT !.alone = alone]
      /\ \A d \in Callers \ {c} : calls'[d] = IF calls[d].pc \in InFlight
                                                THEN [calls[d] EXCEPT !.alone = FALSE]
                                                ELSE calls[d]
      /\ calls' = [d \in Callers |-> calls'[d]]
  BY DEF Entered
<1>3. alone \in BOOLEAN
  BY Zenon
<1> HIDE DEF alone
<1>4. ASSUME NEW q \in Call, NEW b \in BOOLEAN
      PROVE  /\ [q EXCEPT !.alone = b] \in Call
             /\ [q EXCEPT !.alone = b].pc = q.pc /\ [q EXCEPT !.alone = b].at = q.at
             /\ [q EXCEPT !.alone = b].payload = q.payload
             /\ [q EXCEPT !.alone = b].alone = b
  BY Zenon DEF Call
<1>5. /\ calls'[c] \in Call /\ calls'[c].pc = k.pc /\ calls'[c].at = now + 1
      /\ calls'[c].payload = k.payload /\ calls'[c].alone = alone
  BY <1>2, <1>3, <1>4
<1>6. ASSUME NEW d \in Callers \ {c}
      PROVE  /\ calls'[d] \in Call /\ calls'[d].pc = calls[d].pc
             /\ calls'[d].at = calls[d].at /\ calls'[d].payload = calls[d].payload
             /\ calls[d].pc \in InFlight => calls'[d].alone = FALSE
  <2>1. calls[d] \in Call
    BY Facts
  <2>2. CASE calls[d].pc \in InFlight
    <3>1. calls'[d] = [calls[d] EXCEPT !.alone = FALSE]
      BY <2>2, <1>2
    <3>2. \A q \in Call :
            /\ [q EXCEPT !.alone = FALSE] \in Call
            /\ [q EXCEPT !.alone = FALSE].pc = q.pc /\ [q EXCEPT !.alone = FALSE].at = q.at
            /\ [q EXCEPT !.alone = FALSE].payload = q.payload
            /\ [q EXCEPT !.alone = FALSE].alone = FALSE
      BY Zenon DEF Call
    <3> QED
      BY <2>1, <3>1, <3>2, Zenon
  <2>3. CASE calls[d].pc \notin InFlight
    BY <2>1, <2>3, <1>2
  <2> QED
    BY <2>2, <2>3
<1>7. calls' \in [Callers -> Call]
  BY <1>2, <1>5, <1>6
<1>8. TypeOK'
  <2>1. ASSUME NEW d \in Callers PROVE calls'[d].at <= now'
    <3>1. CASE d = c
      <4>1. calls'[d].at = now + 1
        BY <3>1, <1>5
      <4> QED
        BY <4>1, <1>1, Facts
    <3>2. CASE d # c
      <4>1. calls'[d].at = calls[d].at /\ calls[d].at \in Nat /\ calls[d].at <= now
        BY <3>2, <1>6, Facts
      <4> QED
        BY <4>1, <1>1, Facts
    <3> QED
      BY <3>1, <3>2
  <2>2. latest'.at <= now' /\ failed' <= now'
    BY <1>1, Facts
  <2> QED
    BY <1>1, <1>7, <2>1, <2>2 DEF IInv, TypeOK, Known
<1>9. Alone'
  <2>1. alone => \A e \in Callers \ {c} : calls[e].pc \notin InFlight
    BY DEF alone
  <2>2. /\ calls'[c].at >= 1 /\ failed' <= calls'[c].at
        /\ calls'[c].alone = TRUE => \A d \in Callers \ {c} : calls'[d].pc \notin InFlight
    <3>1. calls'[c].at = now + 1
      BY <1>5
    <3>2. calls'[c].alone = TRUE => alone
      BY <1>5, Zenon
    <3>3. alone => \A d \in Callers \ {c} : calls'[d].pc \notin InFlight
      BY <2>1, <1>6
    <3>4. failed' = failed
      OBVIOUS
    <3> QED
      BY <3>1, <3>2, <3>3, <3>4, Facts
  <2>3. ASSUME NEW d \in Callers \ {c}, calls'[d].pc \in InFlight
        PROVE  calls'[d].at >= 1 /\ calls'[d].alone = FALSE
    BY <2>3, <1>6 DEF IInv, Alone
  <2> QED
    BY <2>2, <2>3 DEF Alone
<1>10. QuietRefreshDecides'
  BY DEF IInv, QuietRefreshDecides, ErrorShown
<1>11. Reported'
  BY <1>5, <1>6 DEF IInv, Reported
<1> QED
  BY <1>8, <1>9, <1>10, <1>11 DEF IInv

(* What Codex reports is no later than what it counts.                     *)
LEMMA PayloadsTyped == ASSUME IInv, NEW p \in Payloads
                       PROVE  p \in Payload /\ p.five.reset <= codex.reset
<1>1. FiveHour \in Window /\ FiveHour.reset <= codex.reset
  BY Facts, Numbers DEF FiveHour, Window, NoTime
<1>2. Absent.reset <= codex.reset /\ Absent \in Window
  BY Facts, AbsentWindow DEF Absent, NoTime
<1> QED
  BY <1>1, <1>2, Facts DEF Payloads, Payload

(* A call ends; the latest row may have been stored.                       *)
LEMMA EndTyped ==
  ASSUME IInv, NEW c \in Callers, Ends(c)
  PROVE  /\ calls' \in [Callers -> Call] /\ calls'[c] = Idle
         /\ \A d \in Callers \ {c} : calls'[d] = calls[d]
BY IdleCall, Facts, OneCall DEF Ends

LEMMA StoreIInv == ASSUME IInv, NEW c \in Callers, Store(c)
                   PROVE  IInv' /\ Known(latest) \subseteq Known(latest')
<1>1. /\ calls[c].pc = "answered" /\ UNCHANGED <<now, codex, failed>>
      /\ latest' = IF calls[c].at > latest.at THEN Snapshot(c) ELSE latest
      /\ outcome' = IF calls[c].alone THEN "stored" ELSE "mixed"
  BY DEF Store, Recorded
<1>2. /\ calls' \in [Callers -> Call] /\ calls'[c] = Idle
      /\ \A d \in Callers \ {c} : calls'[d] = calls[d]
  BY EndTyped DEF Store
<1>3. /\ Snapshot(c) \in Row /\ Snapshot(c).at = calls[c].at
      /\ Known(latest) \subseteq Known(Snapshot(c))
      /\ Snapshot(c).status = "ok" => Known(Snapshot(c)) = {"five", "week"}
      /\ Snapshot(c).five.reset \in {calls[c].payload.five.reset, latest.five.reset}
  BY Facts, SnapshotOf
<1>4. /\ latest' \in Row /\ latest'.at <= now /\ calls[c].at <= latest'.at
      /\ latest'.status = "ok" => Known(latest') = {"five", "week"}
      /\ latest'.five.reset <= codex.reset
      /\ Known(latest) \subseteq Known(latest')
  BY <1>1, <1>3, Facts DEF IInv, TypeOK, Reported
<1>5. outcome' \in {"stored", "mixed"}
  BY <1>1
<1>6. Known(latest') = Known(latest)'
  BY DEF Known
<1>7. TypeOK'
  BY <1>1, <1>2, <1>4, <1>5, <1>6, Facts, IdleCall DEF IInv, TypeOK, NoTime
<1>8. Alone'
  BY <1>1, <1>2, IdleCall DEF IInv, Alone, InFlight
<1>9. Reported'
  BY <1>1, <1>2, <1>4, Facts, IdleCall DEF IInv, Reported, Absent, NoTime
<1>10. QuietRefreshDecides'
  <2>1. ASSUME outcome' = "stored" PROVE ~ErrorShown'
    <3>1. calls[c].alone = TRUE
      <4>1. CASE calls[c].alone
        BY <4>1, Facts, CallFields
      <4>2. CASE ~calls[c].alone
        BY <4>2, <2>1, <1>1
      <4> QED
        BY <4>1, <4>2
    <3>2. failed <= calls[c].at /\ calls[c].at >= 1
      BY <3>1, <1>1 DEF IInv, Alone, InFlight
    <3>3. latest'.at >= 1 /\ failed <= latest'.at /\ latest'.at \in Nat
      BY <3>2, <1>1, <1>3, Facts
    <3> QED
      BY <3>3, <1>1, Facts DEF ErrorShown, NoRow, NoTime
  <2> QED
    BY <2>1, <1>5 DEF QuietRefreshDecides
<1> QED
  BY <1>4, <1>7, <1>8, <1>9, <1>10 DEF IInv

LEMMA FailIInv == ASSUME IInv, NEW c \in Callers, Fail(c) PROVE IInv'
<1>1. /\ calls[c].pc = "reading" /\ UNCHANGED <<codex, latest>>
      /\ failed' = now + 1 /\ now' = now + 1 /\ now < MaxTime
      /\ outcome' = IF calls[c].alone THEN "failed" ELSE "mixed"
  BY DEF Fail, Recorded, Stamp
<1>2. /\ calls' \in [Callers -> Call] /\ calls'[c] = Idle
      /\ \A d \in Callers \ {c} : calls'[d] = calls[d]
  BY EndTyped DEF Fail
<1>3. now' \in Clock /\ outcome' \in {"failed", "mixed"}
  BY <1>1, Facts, TimesAssumption DEF Clock
<1>4. TypeOK'
  BY <1>1, <1>2, <1>3, Facts, IdleCall DEF IInv, TypeOK, NoTime, Known
<1>5. Alone'
  BY <1>1, <1>2, IdleCall DEF IInv, Alone, InFlight
<1>6. QuietRefreshDecides'
  BY <1>1, <1>3, Facts DEF QuietRefreshDecides, ErrorShown, NoTime
<1>7. Reported'
  BY <1>1, <1>2, Facts, IdleCall DEF IInv, Reported, Absent, NoTime
<1> QED
  BY <1>4, <1>5, <1>6, <1>7 DEF IInv

LEMMA AnswerIInv == ASSUME IInv, NEW c \in Callers, Answer(c) PROVE IInv'
<1>1. PICK p \in Payloads : calls' = [calls EXCEPT ![c].pc = "answered", ![c].payload = p]
  BY DEF Answer
<1>2. p \in Payload /\ p.five.reset <= codex.reset
  BY PayloadsTyped
<1> DEFINE k == [calls[c] EXCEPT !.pc = "answered", !.payload = p]
<1>3. calls' = [calls EXCEPT ![c] = k]
  BY <1>1, Facts
<1>4. calls[c] \in Call
  BY Facts
<1>5. /\ k \in Call /\ k.pc = "answered" /\ k.payload = p
      /\ k.at = calls[c].at /\ k.alone = calls[c].alone
  BY <1>2, <1>4, Zenon DEF Call, InFlight
<1> HIDE DEF k
<1>6. /\ calls' \in [Callers -> Call] /\ calls'[c] = k
      /\ \A d \in Callers \ {c} : calls'[d] = calls[d]
  BY <1>3, <1>5, Facts, OneCall
<1>7. calls[c].pc = "reading" /\ UNCHANGED <<now, codex, latest, failed, outcome>>
  BY DEF Answer
<1>8. TypeOK'
  BY <1>5, <1>6, <1>7, Facts DEF IInv, TypeOK, Known
<1>9. Alone'
  BY <1>5, <1>6, <1>7 DEF IInv, Alone, InFlight
<1>10. QuietRefreshDecides' /\ Reported'
  BY <1>2, <1>5, <1>6, <1>7 DEF IInv, QuietRefreshDecides, ErrorShown, Reported
<1> QED
  BY <1>8, <1>9, <1>10 DEF IInv

(* Every step keeps the invariant, and what is known.                      *)
LEMMA NextIInv == ASSUME IInv, [Next]_vars
                  PROVE  IInv' /\ Known(latest) \subseteq Known(latest')
<1>1. ASSUME NEW c \in Callers, Begin(c) PROVE IInv' /\ latest' = latest
  <2>1. [Idle EXCEPT !.pc = "reading", !.at = now + 1] \in Call
    <3>1. now + 1 \in Clock
      BY <1>1, Facts, TimesAssumption DEF Begin, Stamp, Clock
    <3> QED
      BY <3>1, IdleCall, Zenon DEF Call, InFlight
  <2>2. LET k == [Idle EXCEPT !.pc = "reading", !.at = now + 1]
        IN  k.pc \in InFlight /\ k.at = now + 1 /\ k.payload.five.reset <= codex.reset
    BY Facts DEF Idle, InFlight, Absent, NoTime
  <2> QED
    BY <1>1, <2>1, <2>2, EnterIInv DEF Begin
<1>2. ASSUME Notify PROVE IInv' /\ latest' = latest
  <2>1. PICK p \in Payloads :
          calls' = Entered(Listener, [Idle EXCEPT !.pc = "answered", !.at = now + 1,
                                                  !.payload = p])
    BY <1>2 DEF Notify
  <2>2. p \in Payload /\ p.five.reset <= codex.reset
    BY PayloadsTyped
  <2> DEFINE k == [Idle EXCEPT !.pc = "answered", !.at = now + 1, !.payload = p]
  <2>3. k \in Call
    <3>1. now + 1 \in Clock
      BY <1>2, Facts, TimesAssumption DEF Notify, Stamp, Clock
    <3> QED
      BY <3>1, <2>2, IdleCall, Zenon DEF Call, InFlight
  <2>4. k.pc \in InFlight /\ k.at = now + 1 /\ k.payload = p
    BY DEF Idle, InFlight
  <2>5. Listener \in Callers
    BY DEF Callers
  <2> HIDE DEF k
  <2>6. IInv'
    BY <1>2, <2>1, <2>2, <2>3, <2>4, <2>5, EnterIInv DEF Notify, k
  <2> QED
    BY <2>6, <1>2 DEF Notify
<1>3. ASSUME NEW c \in Callers, StoreRaises(c) PROVE IInv' /\ latest' = latest
  <2>1. /\ calls' \in [Callers -> Call] /\ calls'[c] = Idle
        /\ \A d \in Callers \ {c} : calls'[d] = calls[d]
        /\ UNCHANGED <<now, codex, latest, failed, outcome>>
    BY <1>3, EndTyped DEF StoreRaises
  <2>2. TypeOK'
    BY <2>1, Facts, IdleCall DEF IInv, TypeOK, NoTime, Known
  <2>3. Alone'
    BY <2>1, IdleCall DEF IInv, Alone, InFlight
  <2>4. QuietRefreshDecides' /\ Reported'
    BY <2>1, Facts, IdleCall
       DEF IInv, QuietRefreshDecides, ErrorShown, Reported, Absent, NoTime
  <2> QED
    BY <2>1, <2>2, <2>3, <2>4 DEF IInv
<1>4. ASSUME Restart PROVE IInv' /\ latest' = latest
  <2>1. /\ \A c \in Callers : calls'[c] = Idle
        /\ calls' \in [Callers -> Call]
        /\ UNCHANGED <<now, codex, latest, failed, outcome>>
    BY <1>4, IdleCall DEF Restart
  <2>2. TypeOK'
    BY <2>1, Facts, IdleCall DEF IInv, TypeOK, NoTime, Known
  <2>3. Alone'
    BY <2>1, IdleCall DEF IInv, Alone, InFlight
  <2>4. QuietRefreshDecides' /\ Reported'
    BY <2>1, Facts, IdleCall
       DEF IInv, QuietRefreshDecides, ErrorShown, Reported, Absent, NoTime
  <2> QED
    BY <2>1, <2>2, <2>3, <2>4 DEF IInv
<1>5. ASSUME Tick PROVE IInv' /\ latest' = latest
  <2>1. /\ now' = now + 1 /\ now' \in Clock
        /\ UNCHANGED <<codex, latest, failed, calls, outcome>>
    BY <1>5, Facts, TimesAssumption DEF Tick, Stamp, Clock
  <2>2. TypeOK'
    BY <2>1, Facts DEF IInv, TypeOK, Known
  <2>3. Alone' /\ QuietRefreshDecides' /\ Reported'
    BY <2>1 DEF IInv, Alone, QuietRefreshDecides, ErrorShown, Reported
  <2> QED
    BY <2>1, <2>2, <2>3 DEF IInv
<1>6. ASSUME Work PROVE IInv' /\ latest' = latest
  <2>1. UNCHANGED <<now, latest, failed, calls, outcome>>
    BY <1>6 DEF Work
  <2>2. /\ codex' \in [opened : Clock, reset : Times, full : BOOLEAN, week : Window]
        /\ codex'.reset >= codex.reset
    <3>1. codex \in [opened : Clock, reset : Times, full : BOOLEAN, week : Window]
      BY DEF IInv, TypeOK
    <3>2. CASE Open
      <4>1. PICK f \in BOOLEAN : codex' = [codex EXCEPT !.full = codex.full \/ f]
        BY <1>6, <3>2 DEF Work, UseCodex
      <4>2. codex' \in [opened : Clock, reset : Times, full : BOOLEAN, week : Window]
        BY <3>1, <4>1, Zenon
      <4>3. codex'.reset = codex.reset
        BY <3>1, <4>1, Zenon
      <4> QED
        BY <4>2, <4>3, Facts
    <3>3. CASE ~Open
      <4>1. codex' = [codex EXCEPT !.opened = now, !.reset = now + FiveHours, !.full = FALSE]
        BY <1>6, <3>3 DEF Work, UseCodex
      <4>2. now + FiveHours \in Times /\ now \in Clock /\ now + FiveHours >= codex.reset
        BY <3>3, Facts, TimesAssumption DEF Open, Times, Clock
      <4>3. codex' \in [opened : Clock, reset : Times, full : BOOLEAN, week : Window]
        BY <3>1, <4>1, <4>2, Zenon
      <4>4. codex'.reset = now + FiveHours
        BY <3>1, <4>1, Zenon
      <4> QED
        BY <4>2, <4>3, <4>4
    <3> QED
      BY <3>2, <3>3
  <2>3. codex'.reset \in Nat
    <3>1. codex'.reset \in Times
      BY <2>2, Zenon
    <3> QED
      BY <3>1, Numbers
  <2>4. TypeOK'
    BY <2>1, <2>2, Facts DEF IInv, TypeOK, Known
  <2>5. Alone' /\ QuietRefreshDecides'
    BY <2>1 DEF IInv, Alone, QuietRefreshDecides, ErrorShown
  <2>6. Reported'
    BY <2>1, <2>2, <2>3, Facts DEF IInv, Reported
  <2> QED
    BY <2>1, <2>4, <2>5, <2>6 DEF IInv
<1>7. ASSUME UNCHANGED vars PROVE IInv' /\ latest' = latest
  BY <1>7 DEF vars, IInv, TypeOK, Alone, QuietRefreshDecides, ErrorShown, Reported, Known
<1>8. ASSUME NEW c \in Callers, Refresh(c)
      PROVE  IInv' /\ Known(latest) \subseteq Known(latest')
  BY <1>8, <1>1, <1>3, StoreIInv, FailIInv, AnswerIInv DEF Refresh, Answer, Fail
<1> QED
  BY <1>2, <1>4, <1>5, <1>6, <1>7, <1>8 DEF Next

-----------------------------------------------------------------------------
THEOREM Invariance == Spec => []IInv
<1>1. IInv /\ [Next]_vars => IInv'
  BY NextIInv
<1> QED
  BY InitIInv, <1>1, PTL DEF Spec

(* Types; and a snapshot that is "ok" has both values.                     *)
THEOREM TelemetryTyped == Spec => []TypeOK
<1>1. IInv => TypeOK
  BY DEF IInv
<1> QED
  BY <1>1, Invariance, PTL

(* No order of reads, stamps and commits makes a known value unknown.      *)
THEOREM NothingIsForgotten == Spec => KnownStaysKnown
<1>1. IInv /\ [Next]_vars => [Known(latest) \subseteq Known(latest')]_latest
  BY NextIInv
<1> QED
  BY <1>1, Invariance, PTL DEF Spec, KnownStaysKnown

(* A refresh that ran alone decides whether an error is shown.             *)
THEOREM RefreshDecides == Spec => []QuietRefreshDecides
<1>1. IInv => QuietRefreshDecides
  BY DEF IInv
<1> QED
  BY <1>1, Invariance, PTL

(* "Active" is shown of an open window only.                               *)
THEOREM ActiveTruly == Spec => []ActiveIsOpen
<1>1. IInv => ActiveIsOpen
  <2> SUFFICES ASSUME IInv PROVE ActiveIsOpen
    OBVIOUS
  <2>1. ASSUME Label(latest.five, FALSE) = "Active" PROVE Open
    <3>1. latest.status \in Status \cup {"none"}
      BY Facts, RowFields
    <3>2. latest.five.reset # NoTime /\ latest.five.reset > now
      BY <2>1, <3>1 DEF Label, Status
    <3> QED
      BY <3>2, Facts DEF Open, IInv, Reported
  <2>2. ASSUME NEW e \in BOOLEAN
        PROVE  Label(latest.five, e) # "Unknown" /\ Label(latest.week, e) # "Unknown"
    <3>1. latest.status \in Status \cup {"none"}
      BY Facts, RowFields
    <3>2. latest.status = "ok" => latest.five.used # "none" /\ latest.week.used # "none"
      BY KnownOf DEF IInv, TypeOK
    <3> QED
      BY <3>1, <3>2 DEF Label, Status
  <2> QED
    BY <2>1, <2>2 DEF ActiveIsOpen
<1> QED
  BY <1>1, Invariance, PTL
=============================================================================
