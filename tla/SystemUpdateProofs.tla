------------------------- MODULE SystemUpdateProofs -------------------------
(***************************************************************************)
(* What SystemUpdate promises for every set of callers and deployments and  *)
(* every number of versions.                                                *)
(***************************************************************************)
EXTENDS SystemUpdate, TLAPS

-----------------------------------------------------------------------------
(* Types.  What the fields of a call may be set to.  That a copy under way  *)
(* has something to copy is shown apart from the rest of TypeOK.            *)
Types ==
  /\ conf \in Configs
  /\ upstream \in Versions
  /\ git \in Checkout
  /\ deps \in Versions \cup {Broken}
  /\ schema \in Versions \cup {NoDb}
  /\ half \in BOOLEAN
  /\ service \in Unit
  /\ restartDue \in BOOLEAN
  /\ task \in [Callers -> Call]
Copying == \A u \in Callers : task[u].pc = "copying" => task[u].found # NoDb

(* The names of the steps, for the lemmas below.                           *)
LEMMA StepNames ==
  /\ {"plan", "backup", "copying", "status", "idle"} \subseteq Pcs
  /\ Commands \subseteq Pcs /\ Checks \subseteq Pcs /\ Answers \subseteq Pcs
  BY DEF Pcs

(* A call that has not begun is a call.                                    *)
LEMMA IdleTyped == Idle \in Call
  BY VersionAssumption DEF Call, Idle, Versions, NoDb, Unstamped, Torn, Pcs, Commands,
     Checks, Answers

(* The step of a call may change.                                          *)
LEMMA PcTyped ==
  ASSUME NEW t \in Call, NEW p \in Pcs
  PROVE  [t EXCEPT !.pc = p] \in Call
  BY DEF Call

(* A call that has ended keeps its answer.                                 *)
LEMMA AnswerTyped ==
  ASSUME NEW t \in Call, NEW p \in Pcs
  PROVE  Answer(t, p) \in Call
<1>1. ASSUME NEW i \in Call, NEW r \in BOOLEAN, NEW a \in BOOLEAN
      PROVE  [i EXCEPT !.pc = p, !.root = r, !.alone = a] \in Call
  BY DEF Call
<1>2. t.root \in BOOLEAN /\ t.alone \in BOOLEAN
  BY DEF Call
<1> QED
  BY <1>1, <1>2, IdleTyped, Zenon DEF Answer

(* What is kept of a call in the history fields.                           *)
LEMMA HistoryTyped ==
  ASSUME TypeOK
  PROVE  /\ Unsettled \in [Callers -> Call]
         /\ \A u \in Callers : Crowded(u) \in [Callers -> Call]
<1>1. ASSUME NEW t \in Call PROVE [t EXCEPT !.alone = FALSE] \in Call
  BY DEF Call
<1> QED
  BY <1>1, Zenon DEF TypeOK, Crowded, Unsettled

(* One call changes.                                                       *)
LEMMA OneCallTyped ==
  ASSUME NEW f \in [Callers -> Call], NEW u \in Callers, NEW t \in Call
  PROVE  [f EXCEPT ![u] = t] \in [Callers -> Call]
  OBVIOUS

LEMMA ToTyped ==
  ASSUME TypeOK, NEW u \in Callers, NEW p \in Pcs, To(u, p)
  PROVE  task' \in [Callers -> Call]
  BY PcTyped DEF To, TypeOK

LEMMA ReplyTyped ==
  ASSUME TypeOK, NEW u \in Callers, NEW p \in Pcs, Reply(u, p)
  PROVE  task' \in [Callers -> Call]
  BY AnswerTyped, OneCallTyped, Zenon DEF Reply, TypeOK

LEMMA KilledTyped ==
  ASSUME TypeOK, NEW u \in Callers
  PROVE  Killed(u) \in Call
<1>1. "lost" \in Pcs
  BY DEF Pcs, Answers
<1> QED
  BY <1>1, AnswerTyped, Zenon DEF Killed, TypeOK

(* The steps of an update keep the types.                                  *)
LEMMA UpdateTyped ==
  ASSUME TypeOK, NEW u \in Callers, Update(u)
  PROVE  Types'
<1> USE VersionAssumption DEF Versions, NoDb, Unstamped, Torn, Broken
<1>0. task \in [Callers -> Call] /\ task[u] \in Call /\ git \in Checkout
      /\ schema \in Versions \cup {NoDb} /\ git.head \in Versions
      /\ git.fetched \in Versions /\ upstream \in Versions
  BY DEF TypeOK, Checkout
<1>1. CASE BeginUpdate(u)
  <2>1. PICK root \in BOOLEAN, restart \in BOOLEAN, dry \in BOOLEAN :
          task' = [(IF dry THEN task ELSE Crowded(u)) EXCEPT
               ![u] = [Idle EXCEPT
                         !.pc = IF dry THEN "plan"
                                ELSE IF conf.sqlite THEN "backup" ELSE "status",
                         !.root = root, !.restart = restart,
                         !.alone = \A v \in Callers \ {u} : ~Updating(v)]]
    BY <1>1, Zenon DEF BeginUpdate
  <2>2. ASSUME NEW i \in Call, NEW p \in Pcs, NEW a \in BOOLEAN
        PROVE  [i EXCEPT !.pc = p, !.root = root, !.restart = restart,
                         !.alone = a] \in Call
    BY DEF Call
  <2>3. (IF dry THEN "plan" ELSE IF conf.sqlite THEN "backup" ELSE "status") \in Pcs
        /\ (\A v \in Callers \ {u} : ~Updating(v)) \in BOOLEAN
    BY StepNames
  <2>4. (IF dry THEN task ELSE Crowded(u)) \in [Callers -> Call]
    BY <1>0, HistoryTyped, Zenon
  <2>5. task' \in [Callers -> Call]
    BY <2>1, <2>2, <2>3, <2>4, IdleTyped, OneCallTyped, Zenon
  <2> QED
    BY <2>5, <1>1 DEF TypeOK, Types, BeginUpdate
<1>2. CASE RefuseUpdate(u)
  <2>1. task' \in [Callers -> Call]
    BY <1>2, ReplyTyped, StepNames DEF RefuseUpdate, Answers
  <2> QED
    BY <2>1, <1>2 DEF TypeOK, Types, RefuseUpdate
<1>3. CASE BeginCopy(u)
  BY <1>3, <1>0, StepNames DEF TypeOK, Types, BeginCopy, Stamp, Call
<1>4. CASE EndCopy(u)
  <2>1. CASE Reply(u, "failed")
    <3>1. task' \in [Callers -> Call]
      BY <2>1, ReplyTyped, StepNames DEF Answers
    <3> QED
      BY <3>1, <1>4 DEF TypeOK, Types, EndCopy
  <2>2. CASE ~Reply(u, "failed")
    <3>1. (IF Stamp = task[u].found THEN task[u].found ELSE Torn)
             \in Versions \cup {NoDb, Unstamped, Torn}
      BY <1>0 DEF Call
    <3>2. ASSUME NEW c \in Versions \cup {NoDb, Unstamped, Torn}
          PROVE  [task[u] EXCEPT !.pc = "status", !.saved = c] \in Call
      BY <1>0, StepNames DEF Call
    <3>3. task' = [task EXCEPT ![u] =
            [task[u] EXCEPT !.pc = "status",
                            !.saved = IF Stamp = task[u].found THEN task[u].found
                                      ELSE Torn]]
      BY <1>4, <2>2, Zenon DEF EndCopy
    <3>4. task' \in [Callers -> Call]
      BY <3>1, <3>2, <3>3, <1>0, OneCallTyped, Zenon
    <3> QED
      BY <3>4, <1>4 DEF TypeOK, Types, EndCopy
  <2> QED
    BY <2>1, <2>2
<1>5. CASE Status(u)
  <2>1. \/ \E p \in Answers : Reply(u, p)
        \/ To(u, "fetch")
    BY <1>5 DEF Status, Answers
  <2>2. task' \in [Callers -> Call]
    BY <2>1, ReplyTyped, ToTyped, StepNames DEF Commands
  <2> QED
    BY <2>2, <1>5 DEF TypeOK, Types, Status
<1>6. CASE Fetch(u)
  <2>1. task' \in [Callers -> Call]
    BY <1>6, ToTyped, StepNames DEF Fetch, Commands
  <2> QED
    BY <2>1, <1>6 DEF TypeOK, Types, Fetch, Checkout, Own
<1>7. CASE Merge(u)
  <2>1. [Unsettled[u] EXCEPT !.pc = "install"] \in Call
    BY <1>0, HistoryTyped, PcTyped, StepNames DEF Commands
  <2>2. task' \in [Callers -> Call]
    BY <2>1, <1>7, HistoryTyped, OneCallTyped DEF Merge
  <2> QED
    BY <2>2, <1>7 DEF TypeOK, Types, Merge, Checkout, Own
<1>8. CASE BeginInstall(u)
  <2>1. task' \in [Callers -> Call]
    BY <1>8, <1>0, StepNames DEF BeginInstall, Call, Commands
  <2> QED
    BY <2>1, <1>8 DEF TypeOK, Types, BeginInstall
<1>9. CASE EndInstall(u)
  <2>1. task' \in [Callers -> Call]
    BY <1>9, ToTyped, StepNames DEF EndInstall, Commands
  <2>2. deps' \in Versions
    BY <1>9, <1>0 DEF EndInstall, Call
  <2> QED
    BY <2>1, <2>2, <1>9 DEF TypeOK, Types, EndInstall, Checkout, Own
<1>10. CASE BeginMigrate(u)
  <2>1. task' \in [Callers -> Call]
    BY <1>10, <1>0, StepNames DEF BeginMigrate, Call, Commands
  <2> QED
    BY <2>1, <1>10 DEF TypeOK, Types, BeginMigrate
<1>18. CASE BeginRevision(u)
  <2>1. task' \in [Callers -> Call]
    BY <1>18, ToTyped, StepNames DEF BeginRevision, Commands
  <2> QED
    BY <2>1, <1>18 DEF TypeOK, Types, BeginRevision
<1>11. CASE MigrateStep(u)
  <2>1. schema + 1 \in Versions
    BY <1>11, <1>0 DEF MigrateStep, Call
  <2>2. [task[u] EXCEPT !.pc = "alembic", !.at = schema + 1] \in Call
    BY <2>1, <1>0, StepNames DEF Call, Commands
  <2>3. task' = [task EXCEPT ![u] =
                   [task[u] EXCEPT !.pc = "alembic", !.at = schema + 1]]
    BY <1>11, Zenon DEF MigrateStep
  <2>4. task' \in [Callers -> Call]
    BY <2>2, <2>3, <1>0, OneCallTyped, Zenon
  <2> QED
    BY <2>1, <2>4, <1>11 DEF TypeOK, Types, MigrateStep
<1>12. CASE EndMigrate(u)
  <2>1. AfterMigrate(task[u]) \in Call
    BY <1>0, PcTyped, AnswerTyped, StepNames
       DEF AfterMigrate, AfterOwnership, Commands, Answers
  <2>2. task' \in [Callers -> Call]
    BY <1>12, <2>1, <1>0, OneCallTyped DEF EndMigrate
  <2> QED
    BY <2>2, <1>12 DEF TypeOK, Types, EndMigrate
<1>13. CASE Ownership(u)
  <2>1. AfterOwnership(task[u]) \in Call
    BY <1>0, PcTyped, AnswerTyped, StepNames DEF AfterOwnership, Commands, Answers
  <2>2. task' \in [Callers -> Call]
    BY <1>13, <2>1, <1>0, OneCallTyped DEF Ownership
  <2> QED
    BY <2>2, <1>13 DEF TypeOK, Types, Ownership, Checkout
<1>14. CASE CommandFails(u)
  <2>1. task' \in [Callers -> Call]
    BY <1>14, ReplyTyped, StepNames DEF CommandFails, Answers
  <2> QED
    BY <2>1, <1>14 DEF TypeOK, Types, CommandFails, Checkout, Own
<1>15. CASE RestartNow(u)
  <2>1. Answer(task[u], "restarted") \in Call /\ \A v \in Callers : Killed(v) \in Call
    BY <1>0, AnswerTyped, KilledTyped, StepNames DEF Answers
  <2>2. task' \in [Callers -> Call]
    BY <1>15, <2>1, Zenon DEF RestartNow
  <2> QED
    BY <2>2, <1>15 DEF TypeOK, Types, RestartNow, Stopped, Unit, CutShort
<1>16. CASE RestartLater(u)
  <2>1. task' \in [Callers -> Call]
    BY <1>16, ReplyTyped, StepNames DEF RestartLater, Answers
  <2> QED
    BY <2>1, <1>16 DEF TypeOK, Types, RestartLater
<1>17. CASE Interrupt(u)
  <2>1. task' \in [Callers -> Call]
    BY <1>17, ReplyTyped, StepNames DEF Interrupt, Answers
  <2> QED
    BY <2>1, <1>17 DEF TypeOK, Types, Interrupt, CutShort
<1> QED
  BY <1>1, <1>2, <1>3, <1>4, <1>5, <1>6, <1>7, <1>8, <1>9, <1>10, <1>11, <1>12,
     <1>13, <1>14, <1>15, <1>16, <1>17, <1>18 DEF Update

(* So do those of a check, of the unit and of the people around.           *)
LEMMA OthersTyped ==
  ASSUME TypeOK,
         (\E u \in Callers : CheckUpdate(u)) \/ Service \/ Push \/ WorkLocally
  PROVE  Types'
<1> USE VersionAssumption DEF Versions, NoDb, Unstamped, Torn, Broken
<1>0. task \in [Callers -> Call] /\ git \in Checkout /\ service \in Unit
      /\ schema \in Versions \cup {NoDb} /\ upstream \in Versions
      /\ git.head \in Versions /\ git.fetched \in Versions
  BY DEF TypeOK, Checkout
<1>1. ASSUME NEW u \in Callers, CheckUpdate(u) PROVE Types'
  <2>1. CASE BeginCheck(u)
    <3>1. task' \in [Callers -> Call]
      BY <2>1, ReplyTyped, ToTyped, StepNames DEF BeginCheck, Answers, Checks
    <3> QED
      BY <3>1, <2>1 DEF TypeOK, Types, BeginCheck
  <2>2. CASE CheckFetches(u)
    <3>1. task' \in [Callers -> Call]
      BY <2>2, ReplyTyped, ToTyped, StepNames DEF CheckFetches, Answers, Checks
    <3> QED
      BY <3>1, <2>2 DEF TypeOK, Types, CheckFetches, Checkout
  <2>3. CASE ReadHead(u)
    <3>1. ASSUME NEW t \in Call, NEW h \in Versions, NEW l \in BOOLEAN
          PROVE  [t EXCEPT !.pc = "cremote", !.head = h, !.local = l] \in Call
      BY StepNames DEF Call, Checks
    <3>2. git.local \in BOOLEAN
      BY <1>0 DEF Checkout
    <3>3. task' = [task EXCEPT ![u] = [task[u] EXCEPT !.pc = "cremote",
                                        !.head = git.head, !.local = git.local]]
      BY <2>3, Zenon DEF ReadHead
    <3>4. task[u] \in Call
      BY <1>0
    <3>5. task' \in [Callers -> Call]
      BY <1>0, <3>1, <3>2, <3>3, <3>4, OneCallTyped, Zenon
    <3> QED
      BY <3>5, <2>3 DEF TypeOK, Types, ReadHead
  <2>4. CASE ReadRemote(u)
    <3>1. CASE Reply(u, "failed")
      <4>1. task' \in [Callers -> Call]
        BY <3>1, ReplyTyped, StepNames DEF Answers
      <4> QED
        BY <4>1, <2>4 DEF TypeOK, Types, ReadRemote
    <3>2. CASE task' = [task EXCEPT ![u].pc = "cstatus", ![u].ahead = git.fetched]
      <4>0. ASSUME NEW t \in Call, NEW h \in Versions, NEW p \in Pcs
            PROVE  [t EXCEPT !.pc = p, !.ahead = h] \in Call
        BY DEF Call
      <4>4. "cstatus" \in Pcs /\ task[u] \in Call /\ git.fetched \in Versions
        BY <1>0, StepNames DEF Checks
      <4>1. [task[u] EXCEPT !.pc = "cstatus", !.ahead = git.fetched] \in Call
        BY <4>0, <4>4, Zenon
      <4>2. task' = [task EXCEPT ![u] =
                       [task[u] EXCEPT !.pc = "cstatus", !.ahead = git.fetched]]
        BY <3>2, Zenon
      <4>3. task' \in [Callers -> Call]
        BY <4>1, <4>2, <1>0, OneCallTyped, Zenon
      <4> QED
        BY <4>3, <2>4 DEF TypeOK, Types, ReadRemote
    <3> QED
      BY <2>4, <3>1, <3>2 DEF ReadRemote
  <2>5. CASE Compare(u)
    <3>1. \E p \in Answers : Reply(u, p)
      BY <2>5 DEF Compare, Answers
    <3>2. task' \in [Callers -> Call]
      BY <3>1, ReplyTyped, StepNames
    <3> QED
      BY <3>2, <2>5 DEF TypeOK, Types, Compare
  <2> QED
    BY <1>1, <2>1, <2>2, <2>3, <2>4, <2>5 DEF CheckUpdate
<1>2. CASE RestartFires \/ Crash
  <2>1. task' \in [Callers -> Call]
    BY <1>2, KilledTyped, Zenon DEF RestartFires, Crash
  <2>2. restartDue' \in BOOLEAN
    BY <1>2, Zenon DEF RestartFires, Crash, TypeOK
  <2> QED
    BY <2>1, <2>2, <1>2, <1>0
       DEF TypeOK, Types, RestartFires, Crash, Stopped, Unit, CutShort
<1>3. CASE StartService \/ ServiceLoadsRevisions \/ StartFails \/ Serve
  BY <1>3, <1>0
     DEF TypeOK, Types, StartService, ServiceLoadsRevisions, StartFails, Serve, Stopped,
         Unit
<1>7. CASE ServiceBeginsRevision
  BY <1>7, <1>0 DEF TypeOK, Types, ServiceBeginsRevision, Unit
<1>4. CASE ServiceMigrates
  <2>1. schema + 1 \in Versions
    BY <1>4, <1>0 DEF ServiceMigrates, Unit
  <2> QED
    BY <2>1, <1>4, <1>0 DEF TypeOK, Types, ServiceMigrates, Unit
<1>5. CASE Push
  BY <1>5, <1>0 DEF TypeOK, Types, Push
<1>6. CASE WorkLocally
  <2>1. task' \in [Callers -> Call]
    BY <1>6, HistoryTyped DEF WorkLocally
  <2>2. git' \in Checkout
    <3>1. ASSUME NEW g \in Checkout, NEW d \in BOOLEAN, NEW l \in BOOLEAN
          PROVE  [g EXCEPT !.dirty = d, !.local = l] \in Checkout
                 /\ [g EXCEPT !.dirty = d] \in Checkout
      BY DEF Checkout
    <3>2. CASE git' = [git EXCEPT !.dirty = ~git.dirty]
      <4>1. (~git.dirty) \in BOOLEAN
        OBVIOUS
      <4> QED
        BY <3>1, <3>2, <4>1, <1>0, Zenon
    <3>3. CASE git' = [git EXCEPT !.dirty = FALSE, !.local = TRUE]
      BY <3>3, <1>0 DEF Checkout
    <3> QED
      BY <1>6, <3>2, <3>3, Zenon DEF WorkLocally
  <2> QED
    BY <2>1, <2>2, <1>6 DEF TypeOK, Types, WorkLocally
<1> QED
  BY <1>1, <1>2, <1>3, <1>4, <1>5, <1>6, <1>7 DEF Service

LEMMA TypesStep == TypeOK /\ [Next]_vars => Types'
<1> SUFFICES ASSUME TypeOK, [Next]_vars PROVE Types'
  OBVIOUS
<1>1. CASE UNCHANGED vars
  BY <1>1 DEF vars, TypeOK, Types
<1> QED
  BY <1>1, UpdateTyped, OthersTyped DEF Next

LEMMA TypeInit == Init => TypeOK
<1> SUFFICES ASSUME Init PROVE TypeOK
  OBVIOUS
<1>1. task \in [Callers -> Call]
  BY IdleTyped, Zenon DEF Init
<1>2. git \in Checkout
  BY VersionAssumption DEF Init, Checkout, Versions
<1>4. restartDue \in BOOLEAN
  BY Zenon DEF Init
<1>3. service \in Unit
  BY VersionAssumption DEF Init, Unit, Versions, NoDb
<1>5. half \in BOOLEAN /\ \A u \in Callers : task[u].pc = "idle"
  BY Zenon DEF Init, Idle
<1> QED
  BY <1>1, <1>2, <1>3, <1>4, <1>5, VersionAssumption
     DEF Init, TypeOK, Versions, NoDb, Broken

(* What a step of one call leaves of another: all of it but the history,   *)
(* or only that it was lost.                                                *)
Kept(v) ==
  /\ task'[v].pc = task[v].pc /\ task'[v].root = task[v].root
  /\ task'[v].found = task[v].found /\ task'[v].saved = task[v].saved
  /\ task'[v].goal = task[v].goal /\ task'[v].at = task[v].at
  /\ task'[v].head = task[v].head /\ task'[v].ahead = task[v].ahead
  /\ task'[v].local = task[v].local
  /\ task'[v].alone => task[v].alone

LEMMA SameIsKept ==
  ASSUME NEW v \in Callers, task'[v] = task[v]
  PROVE  Kept(v)
  BY Zenon DEF Kept

LEMMA HistoryIsKept ==
  ASSUME TypeOK, NEW v \in Callers,
         task'[v] = task[v] \/ task'[v] = [task[v] EXCEPT !.alone = FALSE]
  PROVE  Kept(v)
<1>1. task[v] \in Call
  BY DEF TypeOK
<1> QED
  BY <1>1 DEF Kept, Call

LEMMA Frame ==
  ASSUME TypeOK, NEW u \in Callers, Update(u) \/ CheckUpdate(u),
         NEW v \in Callers, v # u
  PROVE  Kept(v) \/ (v \in Web /\ task'[v] = Answer(task[v], "lost"))
<1>0. task \in [Callers -> Call]
  BY DEF TypeOK
<1>1. CASE BeginUpdate(u)
  <2>1. task'[v] = task[v] \/ task'[v] = Crowded(u)[v]
    BY <1>1, <1>0, HistoryTyped DEF BeginUpdate
  <2>2. Crowded(u)[v] = task[v] \/ Crowded(u)[v] = [task[v] EXCEPT !.alone = FALSE]
    BY Zenon DEF Crowded
  <2> QED
    BY <2>1, <2>2, HistoryIsKept
<1>2. CASE Merge(u)
  <2>1. task'[v] = Unsettled[v]
    BY <1>2, HistoryTyped DEF Merge
  <2>2. Unsettled[v] = task[v] \/ Unsettled[v] = [task[v] EXCEPT !.alone = FALSE]
    BY Zenon DEF Unsettled
  <2> QED
    BY <2>1, <2>2, HistoryIsKept
<1>3. CASE RestartNow(u)
  <2>1. task'[v] = Killed(v)
    BY <1>3 DEF RestartNow
  <2> QED
    BY <2>1, SameIsKept, Zenon DEF Killed
<1>4. CASE \/ RefuseUpdate(u) \/ BeginCopy(u) \/ EndCopy(u) \/ Status(u)
           \/ Fetch(u) \/ BeginInstall(u) \/ EndInstall(u) \/ BeginMigrate(u)
           \/ BeginRevision(u) \/ MigrateStep(u) \/ EndMigrate(u) \/ Ownership(u)
  <2>1. task'[v] = task[v]
    BY <1>4, <1>0
       DEF RefuseUpdate, BeginCopy, EndCopy, Status, Fetch, BeginInstall, EndInstall,
           BeginMigrate, BeginRevision, MigrateStep, EndMigrate, Ownership, To, Reply
  <2> QED
    BY <2>1, SameIsKept
<1>5. CASE CommandFails(u) \/ RestartLater(u) \/ Interrupt(u) \/ CheckUpdate(u)
  <2>1. task'[v] = task[v]
    BY <1>5, <1>0
       DEF CommandFails, RestartLater, Interrupt, CheckUpdate, BeginCheck, CheckFetches,
           ReadHead, ReadRemote, Compare, To, Reply
  <2> QED
    BY <2>1, SameIsKept
<1> QED
  BY <1>1, <1>2, <1>3, <1>4, <1>5 DEF Update

(* The fields of a call that has ended, and of the steps of its own.       *)
LEMMA AnswerFields ==
  ASSUME NEW t \in Call, NEW p \in Pcs
  PROVE  /\ Answer(t, p).pc = p /\ Answer(t, p).goal = 0
         /\ Answer(t, p).found = NoDb /\ Answer(t, p).saved = NoDb
         /\ Answer(t, p).at = NoDb
  BY DEF Answer, Idle

LEMMA ToFields ==
  ASSUME TypeOK, NEW u \in Callers, NEW p \in Pcs, To(u, p)
  PROVE  /\ task'[u].pc = p /\ task'[u].root = task[u].root
         /\ task'[u].goal = task[u].goal /\ task'[u].at = task[u].at
         /\ task'[u].found = task[u].found /\ task'[u].saved = task[u].saved
         /\ task'[u].alone = task[u].alone
         /\ task'[u].head = task[u].head /\ task'[u].ahead = task[u].ahead
         /\ task'[u].local = task[u].local
<1>1. task'[u] = [task[u] EXCEPT !.pc = p] /\ task[u] \in Call
  BY DEF To, TypeOK
<1> QED
  BY <1>1 DEF Call

LEMMA ReplyFields ==
  ASSUME TypeOK, NEW u \in Callers, NEW p \in Pcs, Reply(u, p)
  PROVE  task'[u] = Answer(task[u], p)
  BY DEF Reply, TypeOK

LEMMA BeginFields ==
  ASSUME TypeOK, NEW u \in Callers, BeginUpdate(u)
  PROVE  /\ task'[u].pc \in {"plan", "status", "backup"}
         /\ task'[u].goal = 0 /\ task'[u].at = NoDb
         /\ task'[u].found = NoDb /\ task'[u].saved = NoDb
<1>1. PICK root \in BOOLEAN, restart \in BOOLEAN, dry \in BOOLEAN :
        task' = [(IF dry THEN task ELSE Crowded(u)) EXCEPT
             ![u] = [Idle EXCEPT
                       !.pc = IF dry THEN "plan"
                              ELSE IF conf.sqlite THEN "backup" ELSE "status",
                       !.root = root, !.restart = restart,
                       !.alone = \A v \in Callers \ {u} : ~Updating(v)]]
  BY Zenon DEF BeginUpdate
<1>2. (IF dry THEN task ELSE Crowded(u)) \in [Callers -> Call]
  BY HistoryTyped, Zenon DEF TypeOK
<1>3. PICK alone : alone = \A v \in Callers \ {u} : ~Updating(v)
  OBVIOUS
<1>4. task'[u] = [Idle EXCEPT
                    !.pc = IF dry THEN "plan"
                           ELSE IF conf.sqlite THEN "backup" ELSE "status",
                    !.root = root, !.restart = restart, !.alone = alone]
  BY <1>1, <1>2, <1>3, Zenon
<1> QED
  BY <1>4 DEF Idle

(* What the end of a copy leaves.                                          *)
LEMMA CopyFields ==
  ASSUME TypeOK, NEW u \in Callers, EndCopy(u), ~Reply(u, "failed")
  PROVE  /\ task'[u].pc = "status" /\ task'[u].found = task[u].found
         /\ task'[u].saved = IF Stamp = task[u].found THEN task[u].found ELSE Torn
         /\ task'[u].goal = task[u].goal /\ task'[u].at = task[u].at
         /\ task'[u].alone = task[u].alone
<1>1. task[u] \in Call
  BY DEF TypeOK
<1>2. PICK c : c = IF Stamp = task[u].found THEN task[u].found ELSE Torn
  OBVIOUS
<1>3. task'[u] = [task[u] EXCEPT !.pc = "status", !.saved = c]
  BY <1>2, Zenon DEF EndCopy, TypeOK
<1> QED
  BY <1>1, <1>2, <1>3 DEF Call

(* A copy is begun of what is there.                                       *)
LEMMA CopyingStep == TypeOK /\ [Next]_vars => Copying'
<1> SUFFICES ASSUME TypeOK, [Next]_vars, NEW v \in Callers, task'[v].pc = "copying"
             PROVE  task'[v].found # NoDb
  BY DEF Copying
<1>0. /\ task \in [Callers -> Call] /\ task[v] \in Call
      /\ task[v].pc = "copying" => task[v].found # NoDb
  BY DEF TypeOK
<1>1. ASSUME NEW p \in Answers, task'[v] = Answer(task[v], p) PROVE FALSE
  <2>1. task'[v].pc = p
    BY <1>0, <1>1, AnswerFields, StepNames
  <2> QED
    BY <2>1 DEF Answers
<1>2. ASSUME NEW p \in Commands \cup Checks, To(v, p) PROVE FALSE
  <2>1. task'[v].pc = p
    BY <1>2, ToFields, StepNames
  <2> QED
    BY <2>1 DEF Commands, Checks
<1>3. ASSUME NEW u \in Callers, Update(u) \/ CheckUpdate(u), u # v
      PROVE  task'[v].found # NoDb
  BY <1>0, <1>1, <1>3, Frame DEF Kept, Answers
<1>4. ASSUME Update(v) PROVE task'[v].found # NoDb
  <2>1. CASE BeginUpdate(v)
    BY <2>1, BeginFields
  <2>2. CASE BeginCopy(v)
    <3>1. task'[v] = [task[v] EXCEPT !.found = Stamp,
                       !.pc = IF Stamp = NoDb THEN "status" ELSE "copying"]
      BY <1>0, <2>2, Zenon DEF BeginCopy
    <3>2. PICK c : c = Stamp
      OBVIOUS
    <3> QED
      BY <1>0, <3>1, <3>2 DEF Call
  <2>3. CASE EndCopy(v)
    BY <2>3, <1>1, CopyFields, ReplyFields, StepNames DEF Answers
  <2>4. CASE BeginInstall(v) \/ BeginMigrate(v) \/ MigrateStep(v)
    BY <2>4, <1>0 DEF BeginInstall, BeginMigrate, MigrateStep, Call
  <2>5. CASE Merge(v)
    <3>1. [Unsettled EXCEPT ![v].pc = "install"][v].pc = "install"
      BY HistoryTyped, <1>0 DEF Call
    <3> QED
      BY <2>5, <3>1 DEF Merge
  <2>6. CASE \/ RefuseUpdate(v) \/ Status(v) \/ Fetch(v) \/ EndInstall(v)
             \/ BeginRevision(v) \/ CommandFails(v) \/ RestartLater(v) \/ Interrupt(v)
    <3>1. \/ \E p \in Answers : Reply(v, p)
          \/ \E p \in Commands : To(v, p)
      BY <2>6 DEF RefuseUpdate, Status, Fetch, EndInstall, BeginRevision, CommandFails,
                  RestartLater, Interrupt, Answers, Commands
    <3> QED
      BY <3>1, <1>1, <1>2, ReplyFields, StepNames
  <2>7. CASE RestartNow(v)
    BY <2>7, <1>1 DEF RestartNow, Answers
  <2>8. CASE EndMigrate(v) \/ Ownership(v)
    <3>1. \/ task'[v] = Answer(task[v], "done")
          \/ \E p \in Commands : task'[v] = [task[v] EXCEPT !.pc = p]
      BY <2>8, <1>0 DEF EndMigrate, Ownership, AfterMigrate, AfterOwnership, Commands
    <3>2. ASSUME NEW p \in Commands, task'[v] = [task[v] EXCEPT !.pc = p] PROVE FALSE
      BY <1>0, <3>2 DEF Call, Commands
    <3> QED
      BY <3>1, <3>2, <1>1 DEF Answers
  <2> QED
    BY <1>4, <2>1, <2>2, <2>3, <2>4, <2>5, <2>6, <2>7, <2>8 DEF Update
<1>5. ASSUME CheckUpdate(v) PROVE FALSE
  <2>1. \/ \E p \in Answers : Reply(v, p)
        \/ \E p \in Checks : To(v, p)
        \/ ReadHead(v)
        \/ task' = [task EXCEPT ![v].pc = "cstatus", ![v].ahead = git.fetched]
    BY <1>5 DEF CheckUpdate, BeginCheck, CheckFetches, ReadRemote, Compare, Answers,
                Checks
  <2>2. CASE ReadHead(v)
    BY <2>2, <1>0 DEF ReadHead, Call
  <2>3. CASE task' = [task EXCEPT ![v].pc = "cstatus", ![v].ahead = git.fetched]
    BY <2>3, <1>0 DEF Call
  <2> QED
    BY <2>1, <2>2, <2>3, <1>1, <1>2, ReplyFields, StepNames
<1>6. CASE RestartFires \/ Crash
  <2>1. task'[v] = task[v] \/ task'[v] = Answer(task[v], "lost")
    BY <1>6 DEF RestartFires, Crash, Killed
  <2> QED
    BY <2>1, <1>0, <1>1 DEF Answers
<1>7. CASE WorkLocally
  <2>1. task'[v] = task[v] \/ task'[v] = [task[v] EXCEPT !.alone = FALSE]
    BY <1>7 DEF WorkLocally, Unsettled
  <2> QED
    BY <2>1, <1>0, HistoryIsKept DEF Kept
<1>8. CASE \/ StartService \/ ServiceLoadsRevisions \/ ServiceBeginsRevision
           \/ ServiceMigrates \/ StartFails \/ Serve \/ Push \/ UNCHANGED vars
  BY <1>0, <1>8 DEF StartService, ServiceLoadsRevisions, ServiceBeginsRevision,
                    ServiceMigrates, StartFails, Serve, Push, vars
<1> QED
  BY <1>3, <1>4, <1>5, <1>6, <1>7, <1>8 DEF Next, Service

LEMMA TypeStep == TypeOK /\ [Next]_vars => TypeOK'
  BY TypesStep, CopyingStep DEF TypeOK, Types, Copying

(* The types hold always.                                                  *)
THEOREM Typed == Spec => []TypeOK
  BY TypeInit, TypeStep, PTL DEF Spec

-----------------------------------------------------------------------------
(* The schema between the code that runs and the checkout.  It is moved up *)
(* to a goal that was HEAD once, and HEAD only moves forward, because what *)
(* was fetched does.                                                        *)
Forward ==
  /\ git.head <= git.fetched /\ git.fetched <= upstream
  /\ schema <= git.head /\ (half => schema < git.head)
  /\ \A u \in Callers : task[u].goal <= git.head
  /\ service.goal <= git.head /\ service.code <= git.head
  /\ service.pc \in {"migrate", "revision"}
       => service.code <= service.goal /\ service.at <= schema
  /\ service.pc = "up" => service.code <= schema

LEMMA GoalsStep ==
  ASSUME TypeOK, [Next]_vars, NEW v \in Callers
  PROVE  task'[v].goal \in {task[v].goal, git.head, 0}
<1>0. task \in [Callers -> Call] /\ task[v] \in Call
  BY DEF TypeOK
<1>1. ASSUME NEW p \in Answers PROVE Answer(task[v], p).goal = 0
  BY <1>0, <1>1, AnswerFields, StepNames
<1>2. ASSUME NEW u \in Callers, Update(u) \/ CheckUpdate(u), u # v
      PROVE  task'[v].goal \in {task[v].goal, git.head, 0}
  BY <1>1, <1>2, Frame DEF Kept, Answers
<1>3. ASSUME Update(v)
      PROVE  task'[v].goal \in {task[v].goal, git.head, 0}
  <2>1. CASE BeginUpdate(v)
    BY <2>1, BeginFields
  <2>2. CASE BeginInstall(v) \/ BeginMigrate(v) \/ MigrateStep(v) \/ BeginCopy(v)
    BY <2>2, <1>0 DEF BeginInstall, BeginMigrate, MigrateStep, BeginCopy, Call
  <2>3. CASE Merge(v)
    <3>1. task'[v] = [Unsettled[v] EXCEPT !.pc = "install"]
      BY <2>3, HistoryTyped DEF Merge
    <3>2. Unsettled[v].goal = task[v].goal /\ Unsettled[v] \in Call
      BY <1>0, HistoryTyped DEF Unsettled, Call
    <3> QED
      BY <3>1, <3>2 DEF Call
  <2>4. CASE \/ RefuseUpdate(v) \/ Status(v) \/ Fetch(v) \/ EndInstall(v)
             \/ BeginRevision(v)
    <3>1. \/ \E p \in Answers : Reply(v, p)
          \/ \E p \in Commands : To(v, p)
      BY <2>4 DEF RefuseUpdate, Status, Fetch, EndInstall, BeginRevision, Answers,
                  Commands
    <3> QED
      BY <3>1, <1>1, ToFields, ReplyFields, StepNames
  <2>7. CASE EndCopy(v)
    BY <2>7, <1>1, CopyFields, ReplyFields, StepNames DEF Answers
  <2>6. CASE CommandFails(v) \/ RestartNow(v) \/ RestartLater(v) \/ Interrupt(v)
    <3>1. PICK p \in Answers : task'[v] = Answer(task[v], p)
      BY <2>6, <1>0 DEF CommandFails, RestartNow, RestartLater, Interrupt, Reply, Answers
    <3> QED
      BY <3>1, <1>1
  <2>5. CASE EndMigrate(v) \/ Ownership(v)
    BY <2>5, <1>0, <1>1
       DEF EndMigrate, Ownership, AfterMigrate, AfterOwnership, Call, Answers
  <2> QED
    BY <1>3, <2>1, <2>2, <2>3, <2>4, <2>5, <2>6, <2>7 DEF Update
<1>4. ASSUME CheckUpdate(v)
      PROVE  task'[v].goal \in {task[v].goal, git.head, 0}
  BY <1>4, <1>0, <1>1
     DEF CheckUpdate, BeginCheck, CheckFetches, ReadHead, ReadRemote, Compare, To, Reply,
         Call, Answers
<1>5. CASE RestartFires \/ Crash
  BY <1>5, <1>1 DEF RestartFires, Crash, Killed, Answers
<1>6. CASE WorkLocally
  BY <1>6, <1>0 DEF WorkLocally, Unsettled, Call
<1>7. CASE \/ StartService \/ ServiceLoadsRevisions \/ ServiceBeginsRevision
           \/ ServiceMigrates \/ StartFails \/ Serve \/ Push \/ UNCHANGED vars
  BY <1>7 DEF StartService, ServiceLoadsRevisions, ServiceBeginsRevision,
              ServiceMigrates, StartFails, Serve, Push, vars
<1> QED
  BY <1>2, <1>3, <1>4, <1>5, <1>6, <1>7 DEF Next, Service

LEMMA ForwardStep == TypeOK /\ Forward /\ [Next]_vars => Forward'
<1> SUFFICES ASSUME TypeOK, Forward, [Next]_vars PROVE Forward'
  OBVIOUS
<1> USE VersionAssumption DEF Versions, NoDb
<1>0. /\ git \in Checkout /\ service \in Unit /\ task \in [Callers -> Call]
      /\ schema \in Versions \cup {NoDb} /\ upstream \in Versions
      /\ git.head \in Versions /\ git.fetched \in Versions
      /\ service.code \in Int /\ service.goal \in Int /\ service.at \in Int
      /\ half \in BOOLEAN
  BY DEF TypeOK, Checkout, Unit
<1>1. git.head <= git'.head
      => \A v \in Callers : task'[v].goal <= git'.head
  <2>1. ASSUME NEW v \in Callers PROVE task[v].goal \in Int /\ task[v].goal <= git.head
    BY <1>0 DEF Forward, Call
  <2>2. git'.head \in Int
    BY TypeStep DEF TypeOK, Checkout
  <2> QED
    BY <2>1, <2>2, <1>0, GoalsStep
<1>2. ASSUME NEW u \in Callers, Update(u) PROVE Forward'
  <2>1. CASE Fetch(u)
    BY <2>1, <1>0, <1>1 DEF Fetch, Forward, Checkout
  <2>2. CASE Merge(u)
    BY <2>2, <1>0, <1>1 DEF Merge, Forward, Checkout
  <2>3. CASE BeginRevision(u) \/ MigrateStep(u)
    <3>1. task[u].goal \in Int /\ task[u].at \in Int
      BY <1>0 DEF Call
    <3> QED
      BY <2>3, <3>1, <1>0, <1>1 DEF BeginRevision, MigrateStep, Forward
  <2>4. CASE RestartNow(u)
    BY <2>4, <1>0, <1>1 DEF RestartNow, Forward, Stopped, Unit
  <2>5. CASE EndInstall(u) \/ Ownership(u) \/ CommandFails(u)
    <3>1. git'.head = git.head /\ git'.fetched = git.fetched
      BY <2>5, <1>0 DEF EndInstall, Ownership, CommandFails, Checkout
    <3>2. UNCHANGED <<upstream, schema, half, service>>
      BY <2>5 DEF EndInstall, Ownership, CommandFails
    <3> QED
      BY <3>1, <3>2, <1>0, <1>1 DEF Forward
  <2>6. CASE \/ BeginUpdate(u) \/ RefuseUpdate(u) \/ BeginCopy(u) \/ EndCopy(u)
             \/ Status(u) \/ BeginInstall(u) \/ BeginMigrate(u) \/ EndMigrate(u)
             \/ RestartLater(u) \/ Interrupt(u)
    <3>1. UNCHANGED <<git, upstream, schema, half, service>>
      BY <2>6 DEF BeginUpdate, RefuseUpdate, BeginCopy, EndCopy, Status, BeginInstall,
                  BeginMigrate, EndMigrate, RestartLater, Interrupt
    <3> QED
      BY <3>1, <1>0, <1>1 DEF Forward
  <2> QED
    BY <1>2, <2>1, <2>2, <2>3, <2>4, <2>5, <2>6 DEF Update
<1>3. ASSUME NEW u \in Callers, CheckUpdate(u) PROVE Forward'
  <2>1. CASE CheckFetches(u)
    BY <2>1, <1>0, <1>1 DEF CheckFetches, Forward, Checkout
  <2>2. CASE BeginCheck(u) \/ ReadHead(u) \/ ReadRemote(u) \/ Compare(u)
    <3>1. UNCHANGED <<git, upstream, schema, half, service>>
      BY <2>2 DEF BeginCheck, ReadHead, ReadRemote, Compare
    <3> QED
      BY <3>1, <1>0, <1>1 DEF Forward
  <2> QED
    BY <1>3, <2>1, <2>2 DEF CheckUpdate
<1>4. CASE Service
  <2>1. CASE RestartFires \/ Crash \/ StartFails
    BY <2>1, <1>0, <1>1 DEF RestartFires, Crash, StartFails, Forward, Stopped, Unit
  <2>2. CASE StartService
    BY <2>2, <1>0, <1>1 DEF StartService, Forward, Unit
  <2>4. CASE ServiceLoadsRevisions
    BY <2>4, <1>0, <1>1 DEF ServiceLoadsRevisions, Forward, Unit
  <2>5. CASE Serve
    BY <2>5, <1>0, <1>1 DEF Serve, Forward, Unit
  <2>3. CASE ServiceBeginsRevision
    BY <2>3, <1>0, <1>1 DEF ServiceBeginsRevision, Forward, Unit
  <2>6. CASE ServiceMigrates
    BY <2>6, <1>0, <1>1 DEF ServiceMigrates, Forward, Unit
  <2> QED
    BY <1>4, <2>1, <2>2, <2>3, <2>4, <2>5, <2>6 DEF Service
<1>5. CASE Push
  BY <1>5, <1>0, <1>1 DEF Push, Forward
<1>6. CASE WorkLocally
  <2>1. git'.head = git.head /\ git'.fetched = git.fetched
    BY <1>6, <1>0 DEF WorkLocally, Checkout
  <2>2. UNCHANGED <<upstream, schema, half, service>>
    BY <1>6 DEF WorkLocally
  <2> QED
    BY <2>1, <2>2, <1>0, <1>1 DEF Forward
<1>7. CASE UNCHANGED vars
  BY <1>7 DEF vars, Forward
<1> QED
  BY <1>2, <1>3, <1>4, <1>5, <1>6, <1>7 DEF Next

LEMMA ForwardInit == Init => Forward
  BY VersionAssumption DEF Init, Forward, Idle, NoDb

(* The code that runs never meets a schema older than its own, and the     *)
(* checkout knows every revision the database can be of, whatever fails or *)
(* overlaps.                                                                *)
THEOREM SchemaFits == Spec => []CodeKnowsSchema
<1>1. Forward => CodeKnowsSchema
  BY DEF Forward, CodeKnowsSchema
<1> QED
  BY <1>1, TypeInit, TypeStep, ForwardInit, ForwardStep, PTL DEF Spec

-----------------------------------------------------------------------------
(* The copy of the database.  From the end of the copy on, a call has       *)
(* saved what it found, or what another moved past it meanwhile, and         *)
(* neither is newer than the schema.                                        *)
Intact(t, now) == t.saved = t.found \/ (t.saved = Torn /\ t.found < now)
CopiedBy(t, now) ==
  /\ t.found <= now /\ t.saved <= now
  /\ t.pc \in Commands \cup {"status"} /\ t.found # NoDb => Intact(t, now)
  /\ t.pc \in {"alembic", "revision"} =>
       t.saved <= t.at /\ (t.found # NoDb => Intact(t, t.at))
Copied == \A u \in Callers : CopiedBy(task[u], schema)

LEMMA SchemaGrows == ASSUME TypeOK, [Next]_vars PROVE schema <= schema'
<1>1. schema \in Int
  BY VersionAssumption DEF TypeOK, Versions, NoDb
<1>2. ASSUME NEW u \in Callers, Update(u) PROVE schema' \in {schema, schema + 1}
  <2>1. CASE \/ BeginUpdate(u) \/ RefuseUpdate(u) \/ BeginCopy(u) \/ EndCopy(u)
             \/ Status(u) \/ Fetch(u) \/ Merge(u) \/ BeginInstall(u)
    BY <2>1 DEF BeginUpdate, RefuseUpdate, BeginCopy, EndCopy, Status, Fetch, Merge,
                BeginInstall
  <2>2. CASE \/ EndInstall(u) \/ BeginMigrate(u) \/ BeginRevision(u) \/ MigrateStep(u)
             \/ EndMigrate(u) \/ Ownership(u) \/ CommandFails(u) \/ RestartNow(u)
             \/ RestartLater(u) \/ Interrupt(u)
    BY <2>2 DEF EndInstall, BeginMigrate, BeginRevision, MigrateStep, EndMigrate,
                Ownership, CommandFails, RestartNow, RestartLater, Interrupt
  <2> QED
    BY <1>2, <2>1, <2>2 DEF Update
<1>3. ASSUME NEW u \in Callers, CheckUpdate(u) PROVE schema' = schema
  BY <1>3 DEF CheckUpdate, BeginCheck, CheckFetches, ReadHead, ReadRemote, Compare
<1>4. CASE Service \/ Push \/ WorkLocally \/ UNCHANGED vars
  BY <1>1, <1>4 DEF Service, RestartFires, Crash, StartService, ServiceLoadsRevisions,
              ServiceBeginsRevision, ServiceMigrates, StartFails, Serve, Push,
              WorkLocally, vars
<1> QED
  BY <1>1, <1>2, <1>3, <1>4 DEF Next

LEMMA CopiedStep == TypeOK /\ Copied /\ [Next]_vars => Copied'
<1> SUFFICES ASSUME TypeOK, Copied, [Next]_vars, NEW v \in Callers
             PROVE  CopiedBy(task'[v], schema')
  BY DEF Copied
<1> USE VersionAssumption DEF Versions, NoDb, Unstamped, Torn, Intact
<1>0. /\ task \in [Callers -> Call] /\ task[v] \in Call
      /\ schema \in Int /\ -1 <= schema /\ schema' \in Int /\ half \in BOOLEAN
      /\ schema <= schema' /\ CopiedBy(task[v], schema)
      /\ task[v].found \in Int /\ task[v].saved \in Int /\ task[v].at \in Int
  BY SchemaGrows, TypeStep DEF TypeOK, Copied, Call
<1>1. ASSUME task'[v].pc = task[v].pc, task'[v].found = task[v].found,
             task'[v].saved = task[v].saved, task'[v].at = task[v].at
      PROVE  CopiedBy(task'[v], schema')
  BY <1>0, <1>1 DEF CopiedBy
<1>2. ASSUME NEW p \in Answers, task'[v] = Answer(task[v], p)
      PROVE  CopiedBy(task'[v], schema')
  BY <1>0, <1>2, AnswerFields, StepNames DEF CopiedBy, Answers, Commands
<1>3. ASSUME NEW u \in Callers, Update(u) \/ CheckUpdate(u), u # v
      PROVE  CopiedBy(task'[v], schema')
  BY <1>1, <1>2, <1>3, Frame DEF Kept, Answers
<1>4. ASSUME NEW p \in Commands \ {"alembic", "revision"}, To(v, p),
             task[v].pc \in Commands \cup {"status"}
      PROVE  CopiedBy(task'[v], schema')
  BY <1>0, <1>4, ToFields, StepNames DEF CopiedBy
<1>5. ASSUME Update(v) PROVE CopiedBy(task'[v], schema')
  <2>1. CASE BeginUpdate(v)
    BY <2>1, <1>0, BeginFields DEF CopiedBy, Commands
  <2>2. CASE BeginCopy(v)
    <3>1. Stamp \in Int /\ Stamp <= schema /\ schema' = schema
      BY <2>2, <1>0 DEF Stamp, BeginCopy
    <3>2. PICK c : c = Stamp
      OBVIOUS
    <3>3. task'[v] = [task[v] EXCEPT !.found = c,
                       !.pc = IF c = NoDb THEN "status" ELSE "copying"]
      BY <1>0, <2>2, <3>2, Zenon DEF BeginCopy
    <3>4. /\ task'[v].pc = IF c = NoDb THEN "status" ELSE "copying"
          /\ task'[v].found = c /\ task'[v].saved = task[v].saved
      BY <3>3, <1>0 DEF Call
    <3> QED
      BY <3>1, <3>2, <3>4, <1>0 DEF CopiedBy, Commands
  <2>3. CASE EndCopy(v)
    <3>1. CASE Reply(v, "failed")
      BY <3>1, <1>2, ReplyFields, StepNames DEF Answers
    <3>2. CASE ~Reply(v, "failed")
      <4>1. Stamp \in Int /\ Stamp <= schema /\ schema' = schema
        BY <2>3, <1>0 DEF Stamp, EndCopy
      <4>2. task[v].found = Stamp \/ task[v].found < schema
        BY <2>3, <1>0 DEF Stamp, CopiedBy, EndCopy, TypeOK
      <4> QED
        BY <4>1, <4>2, <3>2, <2>3, <1>0, CopyFields DEF CopiedBy
    <3> QED
      BY <3>1, <3>2
  <2>4. CASE Merge(v)
    <3>1. task'[v] = [Unsettled[v] EXCEPT !.pc = "install"]
      BY <2>4, HistoryTyped DEF Merge
    <3>2. Unsettled[v] = task[v]
      BY <2>4 DEF Unsettled, Merge, Checks
    <3> QED
      BY <3>1, <3>2, <2>4, <1>0 DEF Call, CopiedBy, Commands, Merge
  <2>5. CASE BeginInstall(v)
    BY <2>5, <1>0 DEF BeginInstall, Call, CopiedBy, Commands
  <2>6. CASE BeginMigrate(v)
    BY <2>6, <1>0 DEF BeginMigrate, Call, CopiedBy, Commands
  <2>10. CASE BeginRevision(v)
    BY <2>10, <1>0, ToFields, StepNames DEF BeginRevision, CopiedBy, Commands
  <2>11. CASE MigrateStep(v)
    BY <2>11, <1>0 DEF MigrateStep, Call, CopiedBy, Commands
  <2>7. CASE Status(v) \/ Fetch(v) \/ EndInstall(v)
    <3>1. \/ \E p \in Answers : Reply(v, p)
          \/ /\ \E p \in Commands \ {"alembic", "revision"} : To(v, p)
             /\ task[v].pc \in Commands \cup {"status"}
      BY <2>7 DEF Status, Fetch, EndInstall, Answers, Commands
    <3> QED
      BY <3>1, <1>2, <1>4, ReplyFields, StepNames
  <2>8. CASE EndMigrate(v) \/ Ownership(v)
    <3>1. \/ \E p \in Answers : task'[v] = Answer(task[v], p)
          \/ /\ \E p \in Commands \ {"alembic", "revision"} :
                  task'[v] = [task[v] EXCEPT !.pc = p]
             /\ task[v].pc \in Commands
      BY <2>8, <1>0
         DEF EndMigrate, Ownership, AfterMigrate, AfterOwnership, Answers, Commands
    <3>2. ASSUME NEW p \in Commands \ {"alembic", "revision"},
                 task'[v] = [task[v] EXCEPT !.pc = p], task[v].pc \in Commands
          PROVE  CopiedBy(task'[v], schema')
      BY <1>0, <3>2 DEF Call, CopiedBy
    <3> QED
      BY <3>1, <3>2, <1>2
  <2>9. CASE RefuseUpdate(v) \/ CommandFails(v) \/ RestartNow(v) \/ RestartLater(v)
             \/ Interrupt(v)
    <3>1. PICK p \in Answers : task'[v] = Answer(task[v], p)
      BY <2>9, <1>0
         DEF RefuseUpdate, CommandFails, RestartNow, RestartLater, Interrupt, Reply, Answers
    <3> QED
      BY <3>1, <1>2
  <2> QED
    BY <1>5, <2>1, <2>2, <2>3, <2>4, <2>5, <2>6, <2>7, <2>8, <2>9,
       <2>10, <2>11 DEF Update
<1>6. ASSUME CheckUpdate(v) PROVE CopiedBy(task'[v], schema')
  <2>1. \/ \E p \in Answers : Reply(v, p)
        \/ \E p \in Checks : To(v, p)
        \/ ReadHead(v)
        \/ task' = [task EXCEPT ![v].pc = "cstatus", ![v].ahead = git.fetched]
    BY <1>6 DEF CheckUpdate, BeginCheck, CheckFetches, ReadRemote, Compare, Answers, Checks
  <2>2. ASSUME NEW p \in Checks, To(v, p) PROVE CopiedBy(task'[v], schema')
    BY <1>0, <2>2, ToFields, StepNames DEF CopiedBy, Checks, Commands
  <2>3. CASE ReadHead(v)
    BY <2>3, <1>0 DEF ReadHead, Call, CopiedBy, Commands
  <2>4. CASE task' = [task EXCEPT ![v].pc = "cstatus", ![v].ahead = git.fetched]
    BY <2>4, <1>0 DEF Call, CopiedBy, Commands
  <2> QED
    BY <2>1, <2>2, <2>3, <2>4, <1>2, ReplyFields, StepNames
<1>7. CASE RestartFires \/ Crash
  BY <1>7, <1>1, <1>2 DEF RestartFires, Crash, Killed, Answers
<1>8. CASE WorkLocally
  <2>1. task'[v] = Unsettled[v]
    BY <1>8 DEF WorkLocally
  <2> QED
    BY <2>1, <1>0, <1>1 DEF Unsettled, Call
<1>9. CASE \/ StartService \/ ServiceLoadsRevisions \/ ServiceBeginsRevision
           \/ ServiceMigrates \/ StartFails \/ Serve \/ Push \/ UNCHANGED vars
  <2>1. task' = task
    BY <1>9 DEF StartService, ServiceLoadsRevisions, ServiceBeginsRevision,
                ServiceMigrates, StartFails, Serve, Push, vars
  <2> QED
    BY <2>1, <1>1
<1> QED
  BY <1>3, <1>5, <1>6, <1>7, <1>8, <1>9 DEF Next, Service

LEMMA CopiedInit == Init => Copied
  BY VersionAssumption DEF Init, Copied, CopiedBy, Intact, Idle, NoDb, Torn, Commands

(* When an update's Alembic runs, the update has copied the database that  *)
(* it found as it began, if it found one, at no later revision; the copy is *)
(* whole unless another migrated the database while it was made.            *)
THEOREM CopiedFirst == Spec => []MigratesWhatItCopied
<1>1. TypeOK /\ Copied => MigratesWhatItCopied
  BY DEF Copied, CopiedBy, Intact, MigratesWhatItCopied, Commands
<1> QED
  BY <1>1, TypeInit, TypeStep, CopiedInit, CopiedStep, PTL DEF Spec

-----------------------------------------------------------------------------
(* One update at a time, as long as it counts as alone.                    *)
SettledBy(t) == t.alone /\ t.pc \in Active \cup {"done", "restarted"}
Exclusive == \A u, v \in Callers :
               u # v /\ SettledBy(task[u]) => task[v].pc \notin Active

LEMMA AnswerHistory ==
  ASSUME NEW t \in Call, NEW p \in Pcs
  PROVE  /\ Answer(t, p).alone => t.alone
         /\ Answer(t, p).root <=> t.root
<1>1. Answer(t, p).alone = t.alone /\ Answer(t, p).root = t.root
  BY Zenon DEF Answer, Idle
<1> QED
  BY <1>1, Zenon

(* What a call that has begun does next: it ends, or goes on as what it is.*)
LEMMA Walk ==
  ASSUME TypeOK, NEW v \in Callers, Update(v), ~BeginUpdate(v)
  PROVE  \/ \E p \in Answers :
              /\ task'[v] = Answer(task[v], p)
              /\ p \in {"done", "restarted"}
                   => task[v].pc \in {"alembic", "ownership", "restart"}
         \/ /\ task[v].pc \in Active /\ task'[v].pc \in Active
            /\ task'[v].alone => task[v].alone
<1>0. task \in [Callers -> Call] /\ task[v] \in Call
  BY DEF TypeOK
<1>1. ASSUME NEW p \in Active, task[v].pc \in Active,
             task'[v] = [task[v] EXCEPT !.pc = p]
      PROVE  task'[v].pc \in Active /\ (task'[v].alone => task[v].alone)
  BY <1>0, <1>1 DEF Call
<1>2. CASE BeginCopy(v) \/ BeginInstall(v) \/ BeginMigrate(v) \/ MigrateStep(v)
  BY <1>2, <1>0
     DEF BeginCopy, BeginInstall, BeginMigrate, MigrateStep, Call, Active, Commands
<1>3. CASE EndCopy(v)
  <2>1. CASE Reply(v, "failed")
    BY <2>1, ReplyFields, StepNames DEF Answers
  <2>2. CASE ~Reply(v, "failed")
    BY <1>3, <2>2, CopyFields DEF Active, EndCopy
  <2> QED
    BY <2>1, <2>2
<1>4. CASE Merge(v)
  <2>1. task'[v] = [Unsettled[v] EXCEPT !.pc = "install"]
    BY <1>4, HistoryTyped DEF Merge
  <2>2. Unsettled[v] = task[v]
    BY <1>4 DEF Unsettled, Merge, Checks
  <2> QED
    BY <2>1, <2>2, <1>4, <1>1 DEF Merge, Active, Commands
<1>5. CASE Status(v) \/ Fetch(v) \/ EndInstall(v) \/ BeginRevision(v)
  <2>1. \/ \E p \in {"failed", "refused", "planned"} : Reply(v, p)
        \/ /\ \E p \in Commands : To(v, p)
           /\ task[v].pc \in Active
    BY <1>5 DEF Status, Fetch, EndInstall, BeginRevision, Active, Commands
  <2>2. {"failed", "refused", "planned"} \subseteq Answers \ {"done", "restarted"}
    BY DEF Answers
  <2> QED
    BY <2>1, <2>2, ReplyFields, ToFields, StepNames DEF Active
<1>6. CASE EndMigrate(v) \/ Ownership(v)
  <2>1. \/ task'[v] = Answer(task[v], "done")
        \/ \E p \in Commands : task'[v] = [task[v] EXCEPT !.pc = p]
    BY <1>6, <1>0
       DEF EndMigrate, Ownership, AfterMigrate, AfterOwnership, Commands
  <2>2. task[v].pc \in {"alembic", "ownership", "restart"} /\ task[v].pc \in Active
    BY <1>6 DEF EndMigrate, Ownership, Active, Commands
  <2> QED
    BY <2>1, <2>2, <1>1 DEF Answers, Active
<1>7. CASE RefuseUpdate(v) \/ CommandFails(v) \/ Interrupt(v)
  <2>1. \E p \in {"refused", "failed", "lost"} : Reply(v, p)
    BY <1>7 DEF RefuseUpdate, CommandFails, Interrupt
  <2>2. {"refused", "failed", "lost"} \subseteq Answers \ {"done", "restarted"}
    BY DEF Answers
  <2> QED
    BY <2>1, <2>2, ReplyFields, StepNames
<1>8. CASE RestartNow(v) \/ RestartLater(v)
  <2>1. task'[v] = Answer(task[v], "restarted") /\ task[v].pc = "restart"
    BY <1>8, <1>0 DEF RestartNow, RestartLater, Reply
  <2> QED
    BY <2>1 DEF Answers
<1> QED
  BY <1>2, <1>3, <1>4, <1>5, <1>6, <1>7, <1>8 DEF Update

(* A check is no update, before or after its step.                         *)
LEMMA CheckWalk ==
  ASSUME TypeOK, NEW v \in Callers, CheckUpdate(v)
  PROVE  /\ task[v].pc \notin Active /\ task'[v].pc \notin Active
         /\ task'[v].pc \notin {"done", "restarted"}
<1>0. task \in [Callers -> Call] /\ task[v] \in Call
  BY DEF TypeOK
<1>1. task[v].pc \notin Active
  BY <1>0 DEF CheckUpdate, BeginCheck, CheckFetches, ReadHead, ReadRemote, Compare,
              Active, Commands
<1>2. \/ \E p \in {"refused", "failed", "uptodate", "unsafe", "offer"} : Reply(v, p)
      \/ \E p \in Checks : To(v, p)
      \/ ReadHead(v)
      \/ task' = [task EXCEPT ![v].pc = "cstatus", ![v].ahead = git.fetched]
  BY DEF CheckUpdate, BeginCheck, CheckFetches, ReadRemote, Compare, Checks
<1>3. ASSUME NEW p \in {"refused", "failed", "uptodate", "unsafe", "offer"}, Reply(v, p)
      PROVE  task'[v].pc = p
  BY <1>0, <1>3, ReplyFields, AnswerFields, StepNames DEF Answers
<1>4. ASSUME NEW p \in Checks, To(v, p) PROVE task'[v].pc = p
  BY <1>4, ToFields, StepNames
<1>5. CASE ReadHead(v)
  BY <1>5, <1>0, <1>1 DEF ReadHead, Call, Active, Commands
<1>6. CASE task' = [task EXCEPT ![v].pc = "cstatus", ![v].ahead = git.fetched]
  BY <1>6, <1>0, <1>1 DEF Call, Active, Commands
<1> QED
  BY <1>1, <1>2, <1>3, <1>4, <1>5, <1>6 DEF Active, Commands, Checks

(* Without a new update nobody starts to update or counts as alone.        *)
LEMMA NoNewcomer ==
  ASSUME TypeOK, [Next]_vars, NEW v \in Callers, ~BeginUpdate(v)
  PROVE  /\ task'[v].pc \in Active => task[v].pc \in Active
         /\ SettledBy(task'[v]) => SettledBy(task[v])
<1>0. task \in [Callers -> Call] /\ task[v] \in Call
  BY DEF TypeOK
<1>1. ASSUME NEW p \in Answers, task'[v] = Answer(task[v], p),
             p \in {"done", "restarted"} => task[v].pc \in Active
      PROVE  /\ task'[v].pc \notin Active
             /\ SettledBy(task'[v]) => SettledBy(task[v])
  <2>1. task'[v].pc = p /\ (task'[v].alone => task[v].alone)
    BY <1>0, <1>1, AnswerFields, AnswerHistory, StepNames
  <2> QED
    BY <1>1, <2>1 DEF SettledBy, Active, Commands, Answers
<1>2. ASSUME task'[v].pc = task[v].pc, task'[v].alone => task[v].alone
      PROVE  SettledBy(task'[v]) => SettledBy(task[v])
  BY <1>2 DEF SettledBy
<1>3. ASSUME NEW u \in Callers, Update(u) \/ CheckUpdate(u), u # v
      PROVE  /\ task'[v].pc \in Active => task[v].pc \in Active
             /\ SettledBy(task'[v]) => SettledBy(task[v])
  <2>1. CASE Kept(v)
    BY <2>1, <1>2 DEF Kept
  <2>2. CASE task'[v] = Answer(task[v], "lost")
    BY <2>2, <1>1 DEF Answers
  <2> QED
    BY <1>3, <2>1, <2>2, Frame
<1>4. CASE Update(v)
  BY <1>4, <1>1, Walk DEF SettledBy, Active, Commands
<1>5. CASE CheckUpdate(v)
  BY <1>5, CheckWalk DEF SettledBy
<1>6. CASE RestartFires \/ Crash
  <2>1. task'[v] = task[v] \/ task'[v] = Answer(task[v], "lost")
    BY <1>6 DEF RestartFires, Crash, Killed
  <2> QED
    BY <2>1, <1>1 DEF Answers
<1>7. CASE WorkLocally
  <2>1. task'[v] = task[v] \/ task'[v] = [task[v] EXCEPT !.alone = FALSE]
    BY <1>7 DEF WorkLocally, Unsettled
  <2> QED
    BY <2>1, <1>2, HistoryIsKept DEF Kept
<1>8. CASE \/ StartService \/ ServiceLoadsRevisions \/ ServiceBeginsRevision
           \/ ServiceMigrates \/ StartFails \/ Serve \/ Push \/ UNCHANGED vars
  BY <1>8 DEF StartService, ServiceLoadsRevisions, ServiceBeginsRevision,
              ServiceMigrates, StartFails, Serve, Push, vars
<1> QED
  BY <1>3, <1>4, <1>5, <1>6, <1>7, <1>8 DEF Next, Service

(* A real update that begins takes the others' history; a dry run is none. *)
LEMMA BeginHistory ==
  ASSUME TypeOK, NEW u \in Callers, BeginUpdate(u)
  PROVE  /\ \A v \in Callers \ {u} : task'[v].pc = task[v].pc
                                    /\ (SettledBy(task'[v]) => SettledBy(task[v]))
         /\ \/ task'[u].pc = "plan"
            \/ /\ \A v \in Callers \ {u} : ~SettledBy(task'[v])
               /\ task'[u].alone => \A v \in Callers \ {u} : ~Updating(v)
<1>1. PICK root \in BOOLEAN, restart \in BOOLEAN, dry \in BOOLEAN :
        task' = [(IF dry THEN task ELSE Crowded(u)) EXCEPT
             ![u] = [Idle EXCEPT
                       !.pc = IF dry THEN "plan"
                              ELSE IF conf.sqlite THEN "backup" ELSE "status",
                       !.root = root, !.restart = restart,
                       !.alone = \A v \in Callers \ {u} : ~Updating(v)]]
  BY Zenon DEF BeginUpdate
<1>2. (IF dry THEN task ELSE Crowded(u)) \in [Callers -> Call]
  BY HistoryTyped, Zenon DEF TypeOK
<1>3. PICK alone : alone = \A v \in Callers \ {u} : ~Updating(v)
  OBVIOUS
<1>4. task'[u] = [Idle EXCEPT
                    !.pc = IF dry THEN "plan"
                           ELSE IF conf.sqlite THEN "backup" ELSE "status",
                    !.root = root, !.restart = restart, !.alone = alone]
  BY <1>1, <1>2, <1>3, Zenon
<1>5. task'[u].pc = (IF dry THEN "plan" ELSE IF conf.sqlite THEN "backup" ELSE "status")
      /\ task'[u].alone = alone
  BY <1>4 DEF Idle
<1>6. ASSUME NEW v \in Callers \ {u}
      PROVE  task'[v] = (IF dry THEN task ELSE Crowded(u))[v]
  BY <1>1, <1>2, <1>6, Zenon
<1>7. ASSUME NEW v \in Callers \ {u}
      PROVE  task'[v].pc = task[v].pc /\ (SettledBy(task'[v]) => SettledBy(task[v]))
  <2>1. task'[v] = task[v] \/ task'[v] = [task[v] EXCEPT !.alone = FALSE]
    BY <1>6, Zenon DEF Crowded
  <2> QED
    BY <2>1, HistoryIsKept DEF Kept, SettledBy
<1>8. ASSUME ~dry, NEW v \in Callers \ {u}
      PROVE  ~SettledBy(task'[v])
  <2>1. task'[v] = Crowded(u)[v]
    BY <1>6, <1>8, Zenon
  <2>2. task[v] \in Call
    BY DEF TypeOK
  <2>3. CASE task[v].pc \in Active \cup {"done", "restarted"}
    <3>1. task'[v] = [task[v] EXCEPT !.alone = FALSE]
      BY <2>1, <2>3, Zenon DEF Crowded, Updating
    <3>2. task'[v].alone = FALSE
      BY <3>1, <2>2 DEF Call
    <3> QED
      BY <3>2, Zenon DEF SettledBy
  <2>4. CASE task[v].pc \notin Active \cup {"done", "restarted"}
    BY <1>7, <2>4 DEF SettledBy
  <2> QED
    BY <2>3, <2>4
<1>9. ASSUME ~dry, task'[u].alone
      PROVE  \A v \in Callers \ {u} : ~Updating(v)
  BY <1>3, <1>5, <1>9, Zenon
<1>10. CASE dry
  BY <1>5, <1>7, <1>10
<1>11. CASE ~dry
  BY <1>7, <1>8, <1>9, <1>11
<1> QED
  BY <1>10, <1>11

LEMMA ExclusiveStep == TypeOK /\ Exclusive /\ [Next]_vars => Exclusive'
<1> SUFFICES ASSUME TypeOK, Exclusive, [Next]_vars, NEW u \in Callers, NEW v \in Callers,
                    u # v, SettledBy(task'[u])
             PROVE  task'[v].pc \notin Active
  BY DEF Exclusive
<1>1. CASE BeginUpdate(u)
  <2>1. task'[v].pc = task[v].pc
    BY <1>1, BeginHistory
  <2>2. task'[u].alone /\ task'[u].pc # "plan"
    BY DEF SettledBy, Active, Commands
  <2> QED
    BY <1>1, <2>1, <2>2, BeginHistory DEF Updating
<1>2. CASE BeginUpdate(v)
  BY <1>2, BeginHistory DEF Active, Commands
<1>3. CASE ~BeginUpdate(u) /\ ~BeginUpdate(v)
  BY <1>3, NoNewcomer DEF Exclusive
<1> QED
  BY <1>1, <1>2, <1>3

-----------------------------------------------------------------------------
(* How far an update that counts as alone has brought the installation.    *)
ReachedBy(t) ==
  /\ t.pc = "pip" => t.goal = git.head
  /\ t.pc \in {"migrate", "alembic", "revision", "ownership", "restart", "done",
               "restarted"}
       => deps = git.head
  /\ t.pc \in {"alembic", "revision"} => t.goal = git.head /\ t.at <= schema
  /\ t.pc \in {"ownership", "restart", "done", "restarted"} => schema = git.head
  /\ t.pc \in {"restart", "done", "restarted"} /\ conf.mode = "proxmox" /\ t.root
       => git.owner = "service"
  /\ t.pc = "restarted" =>
       restartDue \/ service.pc = "down" \/ service.code = git.head
Reached == \A u \in Callers : SettledBy(task[u]) => ReachedBy(task[u])

(* Nobody else works on the installation of an update that is alone.       *)
LEMMA Undisturbed ==
  ASSUME TypeOK, Exclusive, NEW u \in Callers, SettledBy(task[u]), SettledBy(task'[u]),
         NEW w \in Callers, w # u, Update(w) \/ CheckUpdate(w)
  PROVE  /\ UNCHANGED <<conf, deps, schema, service, restartDue>>
         /\ git'.head = git.head /\ git'.owner = git.owner
<1>0. git \in Checkout
  BY DEF TypeOK
<1>1. task[w].pc \notin Active
  BY DEF Exclusive
<1>2. CASE BeginUpdate(w) \/ RefuseUpdate(w) \/ Status(w)
  BY <1>2 DEF BeginUpdate, RefuseUpdate, Status
<1>3. CASE Interrupt(w)
  BY <1>1, <1>3 DEF Interrupt, CutShort, Active, Commands
<1>4. CASE CheckFetches(w)
  BY <1>4, <1>0 DEF CheckFetches, Checkout
<1>5. CASE BeginCheck(w) \/ ReadHead(w) \/ ReadRemote(w) \/ Compare(w)
  BY <1>5 DEF BeginCheck, ReadHead, ReadRemote, Compare
<1>6. ~(\/ BeginCopy(w) \/ EndCopy(w) \/ Fetch(w) \/ Merge(w) \/ BeginInstall(w)
        \/ EndInstall(w) \/ BeginMigrate(w) \/ BeginRevision(w) \/ MigrateStep(w)
        \/ EndMigrate(w) \/ Ownership(w) \/ CommandFails(w) \/ RestartNow(w)
        \/ RestartLater(w))
  BY <1>1 DEF BeginCopy, EndCopy, Fetch, Merge, BeginInstall, EndInstall, BeginMigrate,
              BeginRevision, MigrateStep, EndMigrate, Ownership, CommandFails, RestartNow,
              RestartLater, Active, Commands
<1> QED
  BY <1>2, <1>3, <1>4, <1>5, <1>6 DEF Update, CheckUpdate
LEMMA ExclusiveInit == Init => Exclusive
  BY DEF Init, Exclusive, SettledBy, Idle, Active, Commands

(* The end of an update: the last command has succeeded.                   *)
LEMMA Finished ==
  ASSUME TypeOK, NEW u \in Callers,
         task'[u] = Answer(task[u], "done") \/ task'[u] = Answer(task[u], "restarted")
  PROVE  /\ task'[u].pc \in {"done", "restarted"}
         /\ task'[u].root <=> task[u].root
         /\ task'[u] = Answer(task[u], "done") => task'[u].pc = "done"
<1>1. task[u] \in Call /\ {"done", "restarted"} \subseteq Pcs
  BY StepNames DEF TypeOK, Answers
<1> QED
  BY <1>1, AnswerFields, AnswerHistory

(* The commands of an update that is alone build on each other.            *)
LEMMA OwnStepReaches ==
  ASSUME TypeOK, Forward, Exclusive, NEW u \in Callers, SettledBy(task[u]),
         ReachedBy(task[u]), Update(u), ~BeginUpdate(u), SettledBy(task'[u])
  PROVE  ReachedBy(task[u])'
<1> USE VersionAssumption DEF Versions, NoDb
<1>0. /\ task \in [Callers -> Call] /\ task[u] \in Call /\ git \in Checkout
      /\ schema \in Int /\ git.head \in Int /\ schema <= git.head
      /\ task[u].at \in Int /\ task[u].goal \in Int
  BY DEF TypeOK, Forward, Call, Checkout
<1>1. CASE BeginCopy(u) \/ EndCopy(u) \/ Status(u) \/ Fetch(u)
  <2>1. \/ \E p \in {"failed", "refused", "planned"} : Reply(u, p)
        \/ task'[u].pc \in {"copying", "status", "fetch", "merge"}
    BY <1>1, <1>0 DEF BeginCopy, EndCopy, Status, Fetch, To, Call
  <2>2. ASSUME NEW p \in {"failed", "refused", "planned"}, Reply(u, p)
        PROVE  task'[u].pc = p
    BY <1>0, <2>2, ReplyFields, AnswerFields, StepNames DEF Answers
  <2> QED
    BY <2>1, <2>2 DEF ReachedBy, SettledBy, Active, Commands
<1>2. CASE Merge(u)
  <2>1. [Unsettled EXCEPT ![u].pc = "install"][u].pc = "install"
    BY HistoryTyped, <1>0 DEF Call
  <2> QED
    BY <1>2, <2>1 DEF Merge, ReachedBy
<1>3. CASE BeginInstall(u)
  BY <1>3, <1>0 DEF BeginInstall, ReachedBy, Call
<1>4. CASE EndInstall(u)
  <2>1. task'[u].pc = "migrate" /\ deps' = task[u].goal /\ git'.head = git.head
    BY <1>4, <1>0, ToFields, StepNames DEF EndInstall, Commands, Checkout
  <2> QED
    BY <2>1, <1>4 DEF ReachedBy, EndInstall
<1>5. CASE BeginMigrate(u) \/ BeginRevision(u) \/ MigrateStep(u)
  <2>1. task'[u].pc \in {"alembic", "revision"}
        /\ task'[u].goal = git.head /\ task'[u].at <= schema'
    BY <1>5, <1>0 DEF BeginMigrate, BeginRevision, MigrateStep, To, ReachedBy, Call
  <2>2. UNCHANGED <<conf, git, deps>> /\ deps = git.head
    BY <1>5, <1>0 DEF BeginMigrate, BeginRevision, MigrateStep, ReachedBy
  <2> QED
    BY <2>1, <2>2 DEF ReachedBy
<1>6. CASE EndMigrate(u)
  <2>1. schema = git.head /\ deps = git.head
    BY <1>6, <1>0 DEF EndMigrate, ReachedBy
  <2>2. task'[u] = AfterMigrate(task[u])
        /\ UNCHANGED <<conf, git, deps, schema, service, restartDue>>
    BY <1>6, <1>0 DEF EndMigrate
  <2>3. CASE conf.mode = "proxmox" /\ task[u].root
    <3>1. task'[u].pc = "ownership"
      BY <2>2, <2>3, <1>0 DEF AfterMigrate, Call
    <3> QED
      BY <3>1, <2>1, <2>2 DEF ReachedBy
  <2>4. CASE ~(conf.mode = "proxmox" /\ task[u].root)
    <3>1. \/ task'[u] = [task[u] EXCEPT !.pc = "restart"]
          \/ task'[u] = Answer(task[u], "done")
      BY <2>2, <2>4, Zenon DEF AfterMigrate, AfterOwnership
    <3>2. task'[u].pc \in {"restart", "done"} /\ (task'[u].root <=> task[u].root)
      BY <3>1, <1>0, Finished DEF Call
    <3> QED
      BY <3>2, <2>1, <2>2, <2>4 DEF ReachedBy
  <2> QED
    BY <2>3, <2>4
<1>7. CASE Ownership(u)
  <2>1. \/ task'[u] = [task[u] EXCEPT !.pc = "restart"]
        \/ task'[u] = Answer(task[u], "done")
    BY <1>7, <1>0 DEF Ownership, AfterOwnership
  <2>2. task'[u].pc \in {"restart", "done"}
    BY <2>1, <1>0, Finished DEF Call
  <2>3. git'.owner = "service" /\ git'.head = git.head
        /\ UNCHANGED <<conf, deps, schema, service, restartDue>>
    BY <1>7, <1>0 DEF Ownership, Checkout
  <2> QED
    BY <2>2, <2>3, <1>7 DEF ReachedBy, Ownership
<1>8. CASE RefuseUpdate(u) \/ CommandFails(u) \/ Interrupt(u)
  <2>1. \E p \in {"refused", "failed", "lost"} : Reply(u, p)
    BY <1>8 DEF RefuseUpdate, CommandFails, Interrupt
  <2>2. ASSUME NEW p \in {"refused", "failed", "lost"}, Reply(u, p)
        PROVE  task'[u].pc = p
    BY <1>0, <2>2, ReplyFields, AnswerFields, StepNames DEF Answers
  <2> QED
    BY <2>1, <2>2 DEF SettledBy, Active, Commands
<1>9. CASE RestartNow(u) \/ RestartLater(u)
  <2>1. task'[u] = Answer(task[u], "restarted") /\ task[u].pc = "restart"
    BY <1>9, <1>0 DEF RestartNow, RestartLater, Reply
  <2>2. task'[u].pc \in {"done", "restarted"} /\ (task'[u].root <=> task[u].root)
    BY <2>1, Finished
  <2>3. \A v \in Callers \ {u} : task[v].pc # "pip"
    BY DEF Exclusive, Active, Commands
  <2>4. UNCHANGED <<conf, git, schema, deps>>
    BY <1>9, <2>1, <2>3 DEF RestartNow, RestartLater, CutShort, Callers
  <2>5. restartDue' \/ service'.pc = "down"
    BY <1>9 DEF RestartNow, RestartLater, Stopped, TypeOK, Unit
  <2> QED
    BY <2>1, <2>2, <2>4, <2>5 DEF ReachedBy
<1> QED
  BY <1>1, <1>2, <1>3, <1>4, <1>5, <1>6, <1>7, <1>8, <1>9 DEF Update

LEMMA ReachedStep == TypeOK /\ Forward /\ Exclusive /\ Reached /\ [Next]_vars => Reached'
<1> SUFFICES ASSUME TypeOK, Forward, Exclusive, Reached, [Next]_vars,
                    NEW u \in Callers, SettledBy(task[u])'
             PROVE  ReachedBy(task[u])'
  BY DEF Reached
<1> USE VersionAssumption DEF Versions, NoDb
<1>0. /\ task \in [Callers -> Call] /\ task[u] \in Call /\ git \in Checkout
      /\ service \in Unit /\ schema \in Int /\ git.head \in Int /\ task[u].at \in Int
      /\ service.goal \in Int /\ service.goal <= git.head /\ SettledBy(task'[u])
  BY DEF TypeOK, Forward, Call, Checkout, Unit, SettledBy
<1>1. CASE BeginUpdate(u)
  BY <1>1, BeginFields DEF ReachedBy
<1>2. CASE ~BeginUpdate(u)
  <2>1. SettledBy(task[u]) /\ ReachedBy(task[u])
    BY <1>0, <1>2, NoNewcomer DEF Reached
  <2>2. task'[u] # Answer(task[u], "lost")
    <3>1. Answer(task[u], "lost").pc = "lost"
      BY <1>0, AnswerFields, StepNames DEF Answers
    <3> QED
      BY <1>0, <3>1 DEF SettledBy, Active, Commands
  <2>3. ASSUME NEW w \in Callers, w # u, Update(w) \/ CheckUpdate(w)
        PROVE  ReachedBy(task[u])'
    <3>1. Kept(u)
      BY <2>2, <2>3, Frame
    <3>2. /\ UNCHANGED <<conf, deps, schema, service, restartDue>>
          /\ git'.head = git.head /\ git'.owner = git.owner
      BY <1>0, <2>1, <2>3, Undisturbed
    <3> QED
      BY <3>1, <3>2, <2>1 DEF ReachedBy, Kept
  <2>4. CASE Update(u)
    BY <1>0, <1>2, <2>1, <2>4, OwnStepReaches
  <2>5. CASE CheckUpdate(u)
    BY <1>0, <2>5, CheckWalk DEF SettledBy
  <2>6. CASE RestartFires \/ Crash
    <3>1. task'[u] = Killed(u)
      BY <2>6 DEF RestartFires, Crash
    <3>2. task'[u] = task[u] /\ ~(u \in Web /\ Running(u))
      BY <2>2, <3>1, Zenon DEF Killed
    <3>3. \A v \in Web : task[v].pc # "pip"
      <4>1. \A v \in Web \ {u} : task[v].pc # "pip"
        BY <2>1 DEF Exclusive, Active, Commands, Callers
      <4>2. u \in Web => task[u].pc # "pip"
        BY <3>2 DEF Running, Answers
      <4> QED
        BY <4>1, <4>2
    <3>4. UNCHANGED <<conf, git, deps, schema>> /\ service'.pc = "down"
      BY <2>6, <3>3, <1>0 DEF RestartFires, Crash, CutShort, Stopped, Unit
    <3> QED
      BY <3>2, <3>4, <2>1 DEF ReachedBy
  <2>7. CASE StartService
    <3>1. UNCHANGED <<conf, git, deps, schema, restartDue, task>>
          /\ service'.code = git.head
      BY <2>7, <1>0 DEF StartService, Unit
    <3> QED
      BY <3>1, <2>1 DEF ReachedBy
  <2>8. CASE ServiceLoadsRevisions \/ ServiceBeginsRevision \/ Serve \/ StartFails
    <3>1. /\ UNCHANGED <<conf, git, deps, schema, restartDue, task>>
          /\ service'.code = service.code /\ service.pc # "down"
      BY <2>8, <1>0 DEF ServiceLoadsRevisions, ServiceBeginsRevision, Serve, StartFails,
                        Stopped, Unit
    <3> QED
      BY <3>1, <2>1 DEF ReachedBy
  <2>9. CASE ServiceMigrates
    <3>1. /\ UNCHANGED <<conf, git, deps, restartDue, task>>
          /\ service'.code = service.code /\ service'.pc # "down"
          /\ service.pc # "down" /\ schema' = schema + 1 /\ schema < git.head
      BY <2>9, <1>0 DEF ServiceMigrates, Unit
    <3> QED
      BY <3>1, <2>1, <1>0 DEF ReachedBy
  <2>10. CASE WorkLocally
    <3>1. task'[u] = task[u] \/ task'[u] = [task[u] EXCEPT !.alone = FALSE]
      BY <2>10 DEF WorkLocally, Unsettled
    <3>2. Kept(u)
      BY <3>1, HistoryIsKept
    <3>3. /\ UNCHANGED <<conf, deps, schema, service, restartDue>>
          /\ git'.head = git.head /\ git'.owner = git.owner
      BY <2>10, <1>0 DEF WorkLocally, Checkout
    <3> QED
      BY <3>2, <3>3, <2>1 DEF ReachedBy, Kept
  <2>11. CASE Push \/ UNCHANGED vars
    BY <2>11, <2>1 DEF Push, vars, ReachedBy
  <2> QED
    BY <2>3, <2>4, <2>5, <2>6, <2>7, <2>8, <2>9, <2>10, <2>11 DEF Next, Service
<1> QED
  BY <1>1, <1>2

LEMMA ReachedInit == Init => Reached
  BY DEF Init, Reached, SettledBy, Idle, Active, Commands

(* An update that says it is completed, and that no other update met, has  *)
(* installed one version: checkout, dependencies and schema agree, on       *)
(* Proxmox root owns nothing of it, and a service restarted for it runs it. *)
THEOREM CompletedTruly == Spec => []CompletedInstalls
<1>1. TypeOK /\ Forward /\ Reached => CompletedInstalls
  <2> SUFFICES ASSUME TypeOK, Forward, Reached PROVE CompletedInstalls
    OBVIOUS
  <2>1. git.head \in Int /\ (schema = git.head => ~half)
    BY VersionAssumption DEF TypeOK, Checkout, Versions, Forward
  <2> QED
    BY <2>1 DEF Reached, ReachedBy, SettledBy, CompletedInstalls
<1> QED
  BY <1>1, TypeInit, TypeStep, ForwardInit, ForwardStep, ExclusiveInit, ExclusiveStep,
     ReachedInit, ReachedStep, PTL DEF Spec
-----------------------------------------------------------------------------
(* What a check that counts as alone has read is still so.                 *)
ReadBy(t) ==
  /\ t.pc \in {"cremote", "cstatus"} => t.head = git.head /\ (t.local <=> git.local)
  /\ t.pc = "cstatus" => t.head <= t.ahead /\ t.ahead <= git.fetched
  /\ t.pc = "offer" => ~git.dirty /\ ~git.local /\ git.head < git.fetched
Read == \A u \in Callers : task[u].alone => ReadBy(task[u])

(* The fields of the checkout that a check reads change in three ways.     *)
LEMMA CheckoutMoves ==
  ASSUME TypeOK, Forward, [Next]_vars
  PROVE  /\ git.fetched <= git'.fetched
         /\ \/ /\ git'.head = git.head /\ git'.dirty = git.dirty
               /\ git'.local = git.local
            \/ \E u \in Callers : Merge(u)
            \/ WorkLocally
<1> USE VersionAssumption DEF Versions
<1>0. git \in Checkout /\ upstream \in Versions
  BY DEF TypeOK
<1>1. ASSUME NEW u \in Callers, Fetch(u) \/ CheckFetches(u)
      PROVE  /\ git.fetched <= git'.fetched /\ git'.head = git.head
             /\ git'.dirty = git.dirty /\ git'.local = git.local
  <2>1. \/ git' = git
        \/ git' = [git EXCEPT !.fetched = upstream]
        \/ \E o : git' = [git EXCEPT !.fetched = upstream, !.owner = o]
    BY <1>1, Zenon DEF Fetch, CheckFetches
  <2>2. ASSUME git' = git
        PROVE  /\ git'.fetched = git.fetched /\ git'.head = git.head
               /\ git'.dirty = git.dirty /\ git'.local = git.local
    BY <2>2, Zenon
  <2>3. ASSUME git' = [git EXCEPT !.fetched = upstream]
        PROVE  /\ git'.fetched = upstream /\ git'.head = git.head
               /\ git'.dirty = git.dirty /\ git'.local = git.local
    BY <1>0, <2>3 DEF Checkout
  <2>4. ASSUME NEW o, git' = [git EXCEPT !.fetched = upstream, !.owner = o]
        PROVE  /\ git'.fetched = upstream /\ git'.head = git.head
               /\ git'.dirty = git.dirty /\ git'.local = git.local
    BY <1>0, <2>4 DEF Checkout
  <2>5. (git'.fetched = git.fetched \/ git'.fetched = upstream) /\ git'.head = git.head
        /\ git'.dirty = git.dirty /\ git'.local = git.local
    BY <2>1, <2>2, <2>3, <2>4, Zenon
  <2> QED
    BY <2>5, <1>0 DEF Forward, Checkout
<1>2. ASSUME NEW u \in Callers, Merge(u)
      PROVE  git.fetched <= git'.fetched
  BY <1>0, <1>2 DEF Merge, Checkout
<1>3. ASSUME NEW u \in Callers, EndInstall(u) \/ Ownership(u) \/ CommandFails(u)
      PROVE  /\ git'.fetched = git.fetched /\ git'.head = git.head
             /\ git'.dirty = git.dirty /\ git'.local = git.local
  BY <1>0, <1>3 DEF EndInstall, Ownership, CommandFails, Checkout
<1>4. ASSUME NEW u \in Callers, Update(u) \/ CheckUpdate(u)
      PROVE  \/ git' = git \/ Fetch(u) \/ CheckFetches(u) \/ Merge(u)
             \/ EndInstall(u) \/ Ownership(u) \/ CommandFails(u)
  BY <1>4 DEF Update, BeginUpdate, RefuseUpdate, BeginCopy, EndCopy, Status, BeginInstall,
     BeginMigrate, BeginRevision, MigrateStep, EndMigrate, RestartNow, RestartLater,
     Interrupt, CheckUpdate, BeginCheck, ReadHead, ReadRemote, Compare
<1>5. CASE WorkLocally
  <2>1. git'.fetched = git.fetched
    BY <1>0, <1>5 DEF WorkLocally, Checkout
  <2> QED
    BY <1>0, <1>5, <2>1 DEF Checkout
<1>6. CASE Service \/ Push \/ UNCHANGED vars
  <2>1. git' = git
    BY <1>6 DEF Service, RestartFires, Crash, StartService, ServiceLoadsRevisions,
       ServiceBeginsRevision, ServiceMigrates, StartFails, Serve, Push, vars
  <2> QED
    BY <1>0, <2>1 DEF Checkout
<1>7. git.fetched <= git.fetched
  BY <1>0 DEF Checkout
<1> QED
  BY <1>1, <1>2, <1>3, <1>4, <1>5, <1>6, <1>7 DEF Next

(* A caller that has no part in a step has read what it had read, or is    *)
(* not alone any more.                                                      *)
LEMMA OthersRead ==
  ASSUME TypeOK, Forward, Read, [Next]_vars, NEW v \in Callers, Kept(v),
         ~Merge(v), task'[v].alone
  PROVE  ReadBy(task[v])'
<1>0. task \in [Callers -> Call] /\ task[v] \in Call /\ git \in Checkout
      /\ ReadBy(task[v])
  BY DEF TypeOK, Read, Kept
<1>1. git.fetched \in Int /\ git'.fetched \in Int /\ task[v].ahead \in Int
      /\ git.head \in Int
  BY <1>0, TypeStep, VersionAssumption DEF TypeOK, Checkout, Call, Versions
<1>2. CASE git'.head = git.head /\ git'.dirty = git.dirty /\ git'.local = git.local
  BY <1>0, <1>1, <1>2, CheckoutMoves DEF ReadBy, Kept
<1>3. CASE WorkLocally \/ \E u \in Callers \ {v} : Merge(u)
  <2>1. task'[v] = Unsettled[v]
    BY <1>3, HistoryTyped DEF WorkLocally, Merge
  <2>2. task[v].pc \notin Checks \cup {"offer"}
    BY <1>0, <2>1 DEF Unsettled, Call
  <2> QED
    BY <2>2 DEF ReadBy, Kept, Checks
<1> QED
  BY <1>2, <1>3, CheckoutMoves

LEMMA ReadStep == TypeOK /\ Forward /\ Read /\ [Next]_vars => Read'
<1> SUFFICES ASSUME TypeOK, Forward, Read, [Next]_vars, NEW v \in Callers, task'[v].alone
             PROVE  ReadBy(task[v])'
  BY DEF Read
<1> USE VersionAssumption DEF Versions
<1>0. /\ task \in [Callers -> Call] /\ task[v] \in Call /\ git \in Checkout
      /\ git.head <= git.fetched /\ git.head \in Int /\ git.fetched \in Int
      /\ git'.fetched \in Int
  BY TypeStep DEF TypeOK, Forward, Checkout
<1>1. ASSUME NEW p \in Answers \ {"offer"}, task'[v] = Answer(task[v], p)
      PROVE  ReadBy(task[v])'
  <2>1. task'[v].pc = p
    BY <1>0, <1>1, AnswerFields, StepNames
  <2> QED
    BY <2>1 DEF ReadBy, Answers
<1>2. ASSUME task'[v] = task[v] \/ task'[v] = [task[v] EXCEPT !.alone = FALSE], ~Merge(v)
      PROVE  ReadBy(task[v])'
  BY <1>2, HistoryIsKept, OthersRead
<1>3. ASSUME NEW u \in Callers, Update(u) \/ CheckUpdate(u), u # v
      PROVE  ReadBy(task[v])'
  <2>1. CASE Kept(v) /\ ~Merge(v)
    BY <2>1, OthersRead
  <2>2. CASE Merge(v)
    <3>1. [Unsettled EXCEPT ![v].pc = "install"][v].pc = "install"
      BY HistoryTyped, <1>0 DEF Call
    <3> QED
      BY <2>2, <3>1 DEF Merge, ReadBy
  <2> QED
    BY <1>1, <1>3, <2>1, <2>2, Frame DEF Answers
<1>4. ASSUME Update(v) PROVE ReadBy(task[v])'
  <2>1. CASE BeginUpdate(v)
    BY <2>1, BeginFields DEF ReadBy
  <2>2. CASE ~BeginUpdate(v)
    <3>1. CASE task'[v].pc \in Active
      BY <3>1 DEF ReadBy, Active, Commands
    <3>2. ASSUME NEW p \in Answers, task'[v] = Answer(task[v], p), p = "offer"
          PROVE  FALSE
      <4>1. task'[v].pc = "offer"
        BY <1>0, <3>2, AnswerFields, StepNames
      <4>2. CASE Merge(v)
        <5>1. [Unsettled EXCEPT ![v].pc = "install"][v].pc = "install"
          BY HistoryTyped, <1>0 DEF Call
        <5> QED
          BY <4>1, <4>2, <5>1 DEF Merge
      <4>3. CASE BeginCopy(v) \/ BeginInstall(v) \/ BeginMigrate(v) \/ MigrateStep(v)
        BY <4>1, <4>3, <1>0 DEF BeginCopy, BeginInstall, BeginMigrate, MigrateStep, Call
      <4>4. CASE EndCopy(v) /\ ~Reply(v, "failed")
        BY <4>1, <4>4, CopyFields
      <4>5. CASE \/ \E q \in Answers \ {"offer"} : Reply(v, q)
                 \/ \E q \in Commands : To(v, q)
        BY <1>0, <4>1, <4>5, ReplyFields, AnswerFields, ToFields, StepNames
           DEF Commands
      <4>6. CASE EndMigrate(v) \/ Ownership(v)
        <5>1. \/ task'[v] = Answer(task[v], "done")
              \/ \E q \in Commands : task'[v] = [task[v] EXCEPT !.pc = q]
          BY <4>6, <1>0
             DEF EndMigrate, Ownership, AfterMigrate, AfterOwnership, Commands
        <5>2. ASSUME NEW q \in Commands, task'[v] = [task[v] EXCEPT !.pc = q]
              PROVE  task'[v].pc = q
          BY <1>0, <5>2 DEF Call
        <5> QED
          BY <1>0, <4>1, <5>1, <5>2, Finished DEF Commands
      <4>7. CASE RestartNow(v)
        BY <1>0, <4>1, <4>7, Finished DEF RestartNow
      <4> QED
        BY <1>4, <2>2, <4>2, <4>3, <4>4, <4>5, <4>6, <4>7
           DEF Update, RefuseUpdate, EndCopy, Status, Fetch, EndInstall, BeginRevision,
               CommandFails, RestartLater, Interrupt, Answers, Commands
    <3> QED
      BY <1>1, <1>4, <2>2, <3>1, <3>2, Walk
  <2> QED
    BY <2>1, <2>2
<1>5. ASSUME CheckUpdate(v) PROVE ReadBy(task[v])'
  <2>1. CASE BeginCheck(v) \/ CheckFetches(v)
    <3>1. \/ \E p \in {"refused", "failed"} : Reply(v, p)
          \/ \E p \in {"cfetch", "chead"} : To(v, p)
      BY <2>1 DEF BeginCheck, CheckFetches
    <3>2. ASSUME NEW p \in {"cfetch", "chead"}, To(v, p) PROVE ReadBy(task[v])'
      BY <3>2, ToFields, StepNames DEF ReadBy, Checks
    <3> QED
      BY <3>1, <3>2, <1>1, ReplyFields, StepNames DEF Answers
  <2>2. CASE ReadHead(v)
    <3>1. task'[v] = [task[v] EXCEPT !.pc = "cremote", !.head = git.head,
                                      !.local = git.local]
      BY <2>2, <1>0, Zenon DEF ReadHead
    <3>2. task'[v].pc = "cremote" /\ task'[v].head = git.head
          /\ task'[v].local = git.local
      BY <3>1, <1>0 DEF Call
    <3> QED
      BY <3>2, <2>2 DEF ReadBy, ReadHead
  <2>3. CASE ReadRemote(v) /\ ~Reply(v, "failed")
    <3>1. task'[v] = [task[v] EXCEPT !.pc = "cstatus", !.ahead = git.fetched]
          /\ git' = git /\ task[v].pc = "cremote"
      BY <2>3, <1>0 DEF ReadRemote
    <3>2. /\ task'[v].pc = "cstatus" /\ task'[v].ahead = git.fetched
          /\ task'[v].head = task[v].head /\ task'[v].local = task[v].local
          /\ task'[v].alone = task[v].alone
      BY <3>1, <1>0 DEF Call
    <3> QED
      BY <3>1, <3>2, <1>0 DEF ReadBy, Read
  <2>4. CASE Compare(v)
    <3>1. task[v].pc = "cstatus" /\ git' = git /\ \E p \in Answers : Reply(v, p)
      BY <2>4 DEF Compare, Answers
    <3>2. task[v].alone
      BY <1>0, <3>1, ReplyFields, AnswerHistory, StepNames
    <3>3. ReadBy(task[v]) /\ task[v].ahead \in Int
      BY <1>0, <3>2 DEF Read, Call
    <3>4. CASE /\ Reply(v, "offer")
               /\ ~(task[v].head = task[v].ahead /\ ~task[v].local)
               /\ ~(git.dirty \/ task[v].local)
      <4>1. task'[v].pc = "offer"
        BY <1>0, <3>4, ReplyFields, AnswerFields, StepNames DEF Answers
      <4> QED
        BY <4>1, <3>1, <3>3, <3>4, <1>0 DEF ReadBy
    <3> QED
      BY <2>4, <3>4, <1>1, ReplyFields, StepNames DEF Compare, Answers
  <2> QED
    BY <1>1, <1>5, <2>1, <2>2, <2>3, <2>4, ReplyFields, StepNames
       DEF CheckUpdate, Answers
<1>6. CASE RestartFires \/ Crash
  <2>1. ~Merge(v)
    BY <1>6 DEF RestartFires, Crash, Merge, Stopped, TypeOK, Unit
  <2> QED
    BY <1>1, <1>2, <1>6, <2>1 DEF RestartFires, Crash, Killed, Answers
<1>7. CASE WorkLocally /\ ~Merge(v)
  BY <1>2, <1>7 DEF WorkLocally, Unsettled
<1>8. CASE /\ \/ StartService \/ ServiceLoadsRevisions \/ ServiceBeginsRevision
              \/ ServiceMigrates \/ StartFails \/ Serve \/ Push \/ UNCHANGED vars
           /\ ~Merge(v)
  BY <1>2, <1>8 DEF StartService, ServiceLoadsRevisions, ServiceBeginsRevision,
     ServiceMigrates, StartFails, Serve, Push, vars
<1>9. Merge(v) => Update(v)
  BY DEF Update
<1> QED
  BY <1>3, <1>4, <1>5, <1>6, <1>7, <1>8, <1>9 DEF Next, Service

LEMMA ReadInit == Init => Read
  BY DEF Init, Read, ReadBy, Idle

(* An update is offered only where git can fast-forward to it, for as long *)
(* as the checkout is left where the check found it.                        *)
THEOREM OfferedSafely == Spec => []OfferIsSafe
<1>1. Read => OfferIsSafe
  BY DEF Read, ReadBy, OfferIsSafe
<1> QED
  BY <1>1, TypeInit, TypeStep, ForwardInit, ForwardStep, ReadInit, ReadStep, PTL DEF Spec
=============================================================================
