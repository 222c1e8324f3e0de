---------------------------- MODULE SystemUpdate ----------------------------
(***************************************************************************)
(* services/system.py: SystemService.update and check_update, called by     *)
(* routes/system.py on worker threads of the service and by update.py from  *)
(* a shell, together with the start of the service (migrations.py, main.py) *)
(* and systemd, which restarts it.                                          *)
(*                                                                          *)
(* A version is a commit of the upstream branch, and brings one revision of *)
(* the schema and one of the dependencies.  A command is a step, except     *)
(* copying the database, pip and Alembic, which begin with what they find   *)
(* and are still at work while others act.  Every command may fail.         *)
(*                                                                          *)
(* The upgrade of every revision under src/alembic/versions begins with a   *)
(* statement of the schema language, which SQLite commits at once; the      *)
(* stamp of the revision is committed after its last one.  What is cut      *)
(* short between the two is half applied under the old stamp, and the next  *)
(* to apply the revision fails on a table or a column that exists.          *)
(***************************************************************************)
EXTENDS Integers

CONSTANTS
  Web,         \* requests of /api/system/update*, on threads of the service
  Cli,         \* runs of ai-quota-monitor-update
  Configs,     \* the deployments considered
  MaxVersion   \* bound: commits pushed upstream

Callers  == Web \cup Cli
Versions == 0..MaxVersion
NoDb      == -1       \* there is no database file
Unstamped == -2       \* it holds a part of the first revision, and no stamp
Torn      == -3       \* a copy of a database that was migrated meanwhile
Broken    == -1       \* pip was stopped half way

ASSUME CallersAssumption == Web \cap Cli = {}
ASSUME ConfigsAssumption ==
  Configs \subseteq [mode : {"native", "proxmox", "docker"}, webUpdates : BOOLEAN,
                     helper : BOOLEAN, sqlite : BOOLEAN]
ASSUME VersionAssumption == MaxVersion \in Nat

VARIABLES
  conf,        \* Settings, and whether the sudo restart helper is installed
  upstream,    \* the branch on the remote
  git,         \* the checkout: remote-tracking ref, HEAD, local work, owner
  deps,        \* what is installed in the virtual environment
  schema,      \* the revision the database is stamped with
  half,        \* the next revision is begun, and not stamped
  service,     \* the systemd unit: its step, the version its code is of, and
               \* for the migration it starts with the goal and the position
  restartDue,  \* the helper's timer runs
  task         \* the calls of SystemService

vars == <<conf, upstream, git, deps, schema, half, service, restartDue, task>>

-----------------------------------------------------------------------------
(* The commands of an update: pip has an end of its own, and Alembic is    *)
(* between two revisions or inside one.                                     *)
Commands == {"fetch", "merge", "install", "pip", "migrate", "alembic", "revision",
             "ownership", "restart"}
Checks   == {"cfetch", "chead", "cremote", "cstatus"}
Answers  == {"planned", "refused", "failed", "done", "restarted", "lost",
             "uptodate", "unsafe", "offer"}
Pcs      == {"idle", "plan", "backup", "copying", "status"} \cup Commands \cup Checks
            \cup Answers

Idle == [pc |-> "idle", root |-> FALSE, restart |-> FALSE,
         found |-> NoDb, saved |-> NoDb, goal |-> 0, at |-> NoDb,
         head |-> 0, ahead |-> 0, local |-> FALSE, alone |-> TRUE]

Checkout == [fetched : Versions, head : Versions, local : BOOLEAN,
             dirty : BOOLEAN, owner : {"service", "root"}]
Unit     == [pc : {"down", "import", "migrate", "revision", "up"}, code : Versions,
             goal : Versions, at : Versions \cup {NoDb}]
Call     == [pc : Pcs, root : BOOLEAN, restart : BOOLEAN,
             found : Versions \cup {NoDb, Unstamped},
             saved : Versions \cup {NoDb, Unstamped, Torn},
             goal : Versions, at : Versions \cup {NoDb}, head : Versions,
             ahead : Versions, local : BOOLEAN, alone : BOOLEAN]

TypeOK ==
  /\ conf \in Configs
  /\ upstream \in Versions
  /\ git \in Checkout
  /\ deps \in Versions \cup {Broken}
  /\ schema \in Versions \cup {NoDb}
  /\ half \in BOOLEAN
  /\ service \in Unit
  /\ restartDue \in BOOLEAN
  /\ task \in [Callers -> Call]
  /\ \A u \in Callers : task[u].pc = "copying" => task[u].found # NoDb

(* The first version is installed, and the service has run or has not.     *)
Init ==
  /\ conf \in Configs
  /\ upstream = 0 /\ deps = 0
  /\ git = [fetched |-> 0, head |-> 0, local |-> FALSE, dirty |-> FALSE,
            owner |-> "service"]
  /\ \/ schema = 0 /\ service = [pc |-> "up", code |-> 0, goal |-> 0, at |-> 0]
     \/ schema = NoDb
        /\ service = [pc |-> "down", code |-> 0, goal |-> 0, at |-> NoDb]
  /\ half = FALSE /\ restartDue = FALSE
  /\ task = [u \in Callers |-> Idle]

-----------------------------------------------------------------------------
(* A real update has begun and not ended.                                  *)
Active      == {"backup", "copying", "status"} \cup Commands
Updating(u) == task[u].pc \in Active

(* History, in the field alone: no other update was there between the      *)
(* first step of an update and its answer; nobody moved the checkout        *)
(* between the first step of a check and its answer.                        *)
Crowded(u) ==
  [v \in Callers |-> IF v # u /\ (Updating(v) \/ task[v].pc \in {"done", "restarted"})
                       THEN [task[v] EXCEPT !.alone = FALSE] ELSE task[v]]
Unsettled == [v \in Callers |-> IF task[v].pc \in Checks \cup {"offer"}
                                 THEN [task[v] EXCEPT !.alone = FALSE] ELSE task[v]]

(* Of a call that has ended only the answer is kept.                       *)
Answer(t, pc) == [Idle EXCEPT !.pc = pc, !.root = t.root, !.alone = t.alone]
Reply(u, pc)  == task' = [task EXCEPT ![u] = Answer(@, pc)]
To(u, pc)     == task' = [task EXCEPT ![u].pc = pc]

(* How the restart is made: systemctl, the sudo helper, or not at all.     *)
RestartWay(root) == IF root THEN "systemctl"
                    ELSE IF conf.helper THEN "helper" ELSE "none"

(* The loop over the commands: what comes after one that succeeded, and    *)
(* "Update completed." after the last.                                      *)
AfterOwnership(t) == IF t.restart /\ RestartWay(t.root) # "none"
                       THEN [t EXCEPT !.pc = "restart"] ELSE Answer(t, "done")
AfterMigrate(t)   == IF conf.mode = "proxmox" /\ t.root
                       THEN [t EXCEPT !.pc = "ownership"] ELSE AfterOwnership(t)

Own(root, changed) == IF root /\ changed THEN "root" ELSE git.owner

-----------------------------------------------------------------------------
(* POST /api/system/update and the CLI.  A real web update is refused when *)
(* web updates are off; a container is not updated from inside.            *)
BeginUpdate(u) ==
  /\ task[u].pc = "idle"
  /\ u \in Web => service.pc = "up"
  /\ conf.mode # "docker"
  /\ \E root, restart, dry \in BOOLEAN :
       /\ u \in Web => ~root /\ (dry \/ conf.webUpdates)
       /\ task' =
            [(IF dry THEN task ELSE Crowded(u)) EXCEPT
               ![u] = [Idle EXCEPT
                         !.pc = IF dry THEN "plan"
                                ELSE IF conf.sqlite THEN "backup" ELSE "status",
                         !.root = root, !.restart = restart,
                         !.alone = \A v \in Callers \ {u} : ~Updating(v)]]
  /\ UNCHANGED <<conf, upstream, git, deps, schema, half, service, restartDue>>

RefuseUpdate(u) ==
  /\ task[u].pc = "idle"
  /\ u \in Web => service.pc = "up"
  /\ conf.mode = "docker" \/ (u \in Web /\ ~conf.webUpdates)
  /\ Reply(u, "refused")
  /\ UNCHANGED <<conf, upstream, git, deps, schema, half, service, restartDue>>

(* The database as a reader finds it.                                      *)
Stamp == IF schema = NoDb /\ half THEN Unstamped ELSE schema

(* Mutant: the copy is made only when the schema is behind the checkout,   *)
(* which is not fetched yet.                                               *)
BeginCopyWhenBehind(u) ==
  /\ task[u].pc = "backup"
  /\ task' = [task EXCEPT ![u].found = Stamp,
                ![u].pc = IF schema # NoDb /\ schema < git.head
                            THEN "copying" ELSE "status"]
  /\ UNCHANGED <<conf, upstream, git, deps, schema, half, service, restartDue>>

(* Mutant: nobody looks whether there is a database file.                  *)
BeginCopyAlways(u) ==
  /\ task[u].pc = "backup"
  /\ task' = [task EXCEPT ![u].found = Stamp, ![u].pc = "copying"]
  /\ UNCHANGED <<conf, upstream, git, deps, schema, half, service, restartDue>>

(* The database is copied if there is one.                                 *)
BeginCopy(u) ==
  /\ task[u].pc = "backup"
  /\ task' = [task EXCEPT ![u].found = Stamp,
                          ![u].pc = IF Stamp = NoDb THEN "status" ELSE "copying"]
  /\ UNCHANGED <<conf, upstream, git, deps, schema, half, service, restartDue>>

(* copy2 returns; when it raises, the update ends there.  A copy during    *)
(* which another moved the stamp counts as torn.                            *)
EndCopy(u) ==
  /\ task[u].pc = "copying"
  /\ \/ task' = [task EXCEPT ![u].pc = "status",
                  ![u].saved = IF Stamp = task[u].found THEN task[u].found ELSE Torn]
     \/ Reply(u, "failed")
  /\ UNCHANGED <<conf, upstream, git, deps, schema, half, service, restartDue>>

(* git status: it fails, finds tracked changes, or a dry run ends here.    *)
Status(u) ==
  /\ task[u].pc \in {"plan", "status"}
  /\ \/ Reply(u, "failed")
     \/ git.dirty /\ Reply(u, "refused")
     \/ ~git.dirty /\ task[u].pc = "plan" /\ Reply(u, "planned")
     \/ ~git.dirty /\ task[u].pc = "status" /\ To(u, "fetch")
  /\ UNCHANGED <<conf, upstream, git, deps, schema, half, service, restartDue>>

Fetch(u) ==
  /\ task[u].pc = "fetch"
  /\ To(u, "merge")
  /\ git' = [git EXCEPT !.fetched = upstream,
                        !.owner = Own(task[u].root, git.fetched # upstream)]
  /\ UNCHANGED <<conf, upstream, deps, schema, half, service, restartDue>>

(* git merge --ff-only: refused when a local commit is in the way, and     *)
(* nothing to do when the checkout has it all.                             *)
Merge(u) ==
  /\ task[u].pc = "merge"
  /\ git.local => git.fetched = git.head
  /\ task' = [Unsettled EXCEPT ![u].pc = "install"]
  /\ git' = [git EXCEPT !.head = git.fetched,
                        !.owner = Own(task[u].root, git.head # git.fetched)]
  /\ UNCHANGED <<conf, upstream, deps, schema, half, service, restartDue>>

(* pip reads the requirements of the checkout it finds.                    *)
BeginInstall(u) ==
  /\ task[u].pc = "install"
  /\ task' = [task EXCEPT ![u].pc = "pip", ![u].goal = git.head]
  /\ UNCHANGED <<conf, upstream, git, deps, schema, half, service, restartDue>>

EndInstall(u) ==
  /\ task[u].pc = "pip"
  /\ deps' = task[u].goal
  /\ git' = [git EXCEPT !.owner = Own(task[u].root, TRUE)]
  /\ To(u, "migrate")
  /\ UNCHANGED <<conf, upstream, schema, half, service, restartDue>>

(* Alembic loads the revisions of the checkout and the one of the database.*)
BeginMigrate(u) ==
  /\ task[u].pc = "migrate"
  /\ task' = [task EXCEPT ![u].pc = "alembic", ![u].goal = git.head, ![u].at = schema]
  /\ UNCHANGED <<conf, upstream, git, deps, schema, half, service, restartDue>>

(* The first statement of the next revision; on a revision that is begun   *)
(* already it fails, and CommandFails follows.                              *)
BeginRevision(u) ==
  /\ task[u].pc = "alembic"
  /\ task[u].at < task[u].goal /\ schema = task[u].at /\ ~half
  /\ half' = TRUE
  /\ To(u, "revision")
  /\ UNCHANGED <<conf, upstream, git, deps, schema, service, restartDue>>

(* The last ones, and the stamp, on no other than the one that was read.   *)
MigrateStep(u) ==
  /\ task[u].pc = "revision"
  /\ task[u].at < task[u].goal /\ schema = task[u].at
  /\ schema' = schema + 1 /\ half' = FALSE
  /\ task' = [task EXCEPT ![u].pc = "alembic", ![u].at = schema + 1]
  /\ UNCHANGED <<conf, upstream, git, deps, service, restartDue>>

EndMigrate(u) ==
  /\ task[u].pc = "alembic" /\ task[u].at >= task[u].goal
  /\ task' = [task EXCEPT ![u] = AfterMigrate(@)]
  /\ UNCHANGED <<conf, upstream, git, deps, schema, half, service, restartDue>>

Ownership(u) ==
  /\ task[u].pc = "ownership"
  /\ git' = [git EXCEPT !.owner = "service"]
  /\ task' = [task EXCEPT ![u] = AfterOwnership(@)]
  /\ UNCHANGED <<conf, upstream, deps, schema, half, service, restartDue>>

(* Mutant: the result of a command is not looked at.                       *)
CommandFailsUnseen(u) ==
  /\ task[u].pc \in Commands
  /\ IF task[u].pc = "pip" THEN To(u, "migrate") ELSE Reply(u, "failed")
  /\ \/ deps' = deps /\ git' = git
     \/ /\ task[u].pc = "pip"
        /\ deps' = Broken
        /\ git' = [git EXCEPT !.owner = Own(task[u].root, TRUE)]
  /\ UNCHANGED <<conf, upstream, schema, half, service, restartDue>>

(* A command ends with an error, and the update with it.  pip may have     *)
(* stopped half way; what the earlier commands did stays.                   *)
CommandFails(u) ==
  /\ task[u].pc \in Commands
  /\ Reply(u, "failed")
  /\ \/ deps' = deps /\ git' = git
     \/ /\ task[u].pc = "pip"
        /\ deps' = Broken
        /\ git' = [git EXCEPT !.owner = Own(task[u].root, TRUE)]
  /\ UNCHANGED <<conf, upstream, schema, half, service, restartDue>>

-----------------------------------------------------------------------------
(* POST /api/system/update/check.                                          *)
BeginCheck(u) ==
  /\ task[u].pc = "idle" /\ u \in Web /\ service.pc = "up"
  /\ \/ Reply(u, "refused")     \* in a container, or not a checkout
     \/ conf.mode # "docker" /\ To(u, "cfetch")
  /\ UNCHANGED <<conf, upstream, git, deps, schema, half, service, restartDue>>

CheckFetches(u) ==
  /\ task[u].pc = "cfetch"
  /\ \/ Reply(u, "failed") /\ git' = git
     \/ To(u, "chead") /\ git' = [git EXCEPT !.fetched = upstream]
  /\ UNCHANGED <<conf, upstream, deps, schema, half, service, restartDue>>

(* git rev-parse HEAD, then of the remote-tracking ref.                    *)
ReadHead(u) ==
  /\ task[u].pc = "chead"
  /\ task' = [task EXCEPT ![u].pc = "cremote", ![u].head = git.head,
                          ![u].local = git.local]
  /\ UNCHANGED <<conf, upstream, git, deps, schema, half, service, restartDue>>

ReadRemote(u) ==
  /\ task[u].pc = "cremote"
  /\ \/ Reply(u, "failed")
     \/ task' = [task EXCEPT ![u].pc = "cstatus", ![u].ahead = git.fetched]
  /\ UNCHANGED <<conf, upstream, git, deps, schema, half, service, restartDue>>

(* Mutant: a checkout with commits of its own is offered the update.       *)
CompareWithoutAncestor(u) ==
  /\ task[u].pc = "cstatus"
  /\ Reply(u, IF task[u].head = task[u].ahead /\ ~task[u].local THEN "uptodate"
              ELSE IF git.dirty THEN "unsafe" ELSE "offer")
  /\ UNCHANGED <<conf, upstream, git, deps, schema, half, service, restartDue>>

(* git status, and what the two commits and the changed files add up to.   *)
Compare(u) ==
  /\ task[u].pc = "cstatus"
  /\ \/ Reply(u, "failed")
     \/ Reply(u, IF task[u].head = task[u].ahead /\ ~task[u].local THEN "uptodate"
                 ELSE IF git.dirty \/ task[u].local THEN "unsafe" ELSE "offer")
  /\ UNCHANGED <<conf, upstream, git, deps, schema, half, service, restartDue>>

-----------------------------------------------------------------------------
(* The unit stops: its threads and their children are gone.                *)
Stopped == [service EXCEPT !.pc = "down"]
Running(u) == task[u].pc \notin Answers \cup {"idle"}
Killed(u)  == IF u \in Web /\ Running(u) THEN Answer(task[u], "lost") ELSE task[u]
(* A pip that is killed may leave its work half done.                      *)
CutShort(callers) ==
  \/ deps' = deps
  \/ (\E u \in callers : task[u].pc = "pip") /\ deps' = Broken

(* systemctl restart, as root.                                             *)
RestartNow(u) ==
  /\ task[u].pc = "restart" /\ task[u].root
  /\ service' = Stopped
  /\ task' = [v \in Callers |-> IF v = u THEN Answer(task[u], "restarted") ELSE Killed(v)]
  /\ CutShort(Web)
  /\ UNCHANGED <<conf, upstream, git, schema, half, restartDue>>

(* The helper starts a timer and returns at once.                          *)
RestartLater(u) ==
  /\ task[u].pc = "restart" /\ ~task[u].root
  /\ restartDue' = TRUE
  /\ Reply(u, "restarted")
  /\ UNCHANGED <<conf, upstream, git, deps, schema, half, service>>

RestartFires ==
  /\ restartDue
  /\ restartDue' = FALSE
  /\ service' = Stopped
  /\ task' = [u \in Callers |-> Killed(u)]
  /\ CutShort(Web)
  /\ UNCHANGED <<conf, upstream, git, schema, half>>

Crash ==
  /\ service.pc = "up"
  /\ service' = Stopped
  /\ task' = [u \in Callers |-> Killed(u)]
  /\ CutShort(Web)
  /\ UNCHANGED <<conf, upstream, git, schema, half, restartDue>>

(* The shell of an update is closed.                                       *)
Interrupt(u) ==
  /\ u \in Cli /\ Running(u)
  /\ Reply(u, "lost")
  /\ CutShort({u})
  /\ UNCHANGED <<conf, upstream, git, schema, half, service, restartDue>>

(* systemd starts the unit: the code is imported, then run_migrations.     *)
StartService ==
  /\ service.pc = "down"
  /\ service' = [service EXCEPT !.pc = "import", !.code = git.head]
  /\ UNCHANGED <<conf, upstream, git, deps, schema, half, restartDue, task>>

ServiceLoadsRevisions ==
  /\ service.pc = "import"
  /\ service' = [service EXCEPT !.pc = "migrate", !.goal = git.head, !.at = schema]
  /\ UNCHANGED <<conf, upstream, git, deps, schema, half, restartDue, task>>

ServiceBeginsRevision ==
  /\ service.pc = "migrate"
  /\ service.at < service.goal /\ schema = service.at /\ ~half
  /\ half' = TRUE
  /\ service' = [service EXCEPT !.pc = "revision"]
  /\ UNCHANGED <<conf, upstream, git, deps, schema, restartDue, task>>

ServiceMigrates ==
  /\ service.pc = "revision"
  /\ service.at < service.goal /\ schema = service.at
  /\ schema' = schema + 1 /\ half' = FALSE
  /\ service' = [service EXCEPT !.pc = "migrate", !.at = schema + 1]
  /\ UNCHANGED <<conf, upstream, git, deps, restartDue, task>>

(* The start fails, systemd will try again.  On a revision cut short it     *)
(* fails every time.                                                        *)
StartFails ==
  /\ service.pc \in {"import", "migrate", "revision"}
  /\ service' = Stopped
  /\ UNCHANGED <<conf, upstream, git, deps, schema, half, restartDue, task>>

(* Mutant: the application does not migrate as it starts.                  *)
ServeAtOnce ==
  /\ service.pc = "migrate"
  /\ service' = [service EXCEPT !.pc = "up"]
  /\ UNCHANGED <<conf, upstream, git, deps, schema, half, restartDue, task>>

Serve ==
  /\ service.pc = "migrate" /\ service.at >= service.goal
  /\ service' = [service EXCEPT !.pc = "up"]
  /\ UNCHANGED <<conf, upstream, git, deps, schema, half, restartDue, task>>

-----------------------------------------------------------------------------
Push ==
  /\ upstream < MaxVersion
  /\ upstream' = upstream + 1
  /\ UNCHANGED <<conf, git, deps, schema, half, service, restartDue, task>>

(* Somebody edits a tracked file, restores it, or commits.                 *)
WorkLocally ==
  /\ \/ git' = [git EXCEPT !.dirty = ~git.dirty]
     \/ git.dirty /\ git' = [git EXCEPT !.dirty = FALSE, !.local = TRUE]
  /\ task' = Unsettled
  /\ UNCHANGED <<conf, upstream, deps, schema, half, service, restartDue>>

Update(u) ==
  \/ BeginUpdate(u) \/ RefuseUpdate(u) \/ BeginCopy(u) \/ EndCopy(u) \/ Status(u)
  \/ Fetch(u) \/ Merge(u) \/ BeginInstall(u) \/ EndInstall(u) \/ BeginMigrate(u)
  \/ BeginRevision(u) \/ MigrateStep(u) \/ EndMigrate(u) \/ Ownership(u)
  \/ CommandFails(u) \/ RestartNow(u) \/ RestartLater(u) \/ Interrupt(u)

CheckUpdate(u) ==
  BeginCheck(u) \/ CheckFetches(u) \/ ReadHead(u) \/ ReadRemote(u) \/ Compare(u)

Service == RestartFires \/ Crash \/ StartService \/ ServiceLoadsRevisions
           \/ ServiceBeginsRevision \/ ServiceMigrates \/ StartFails \/ Serve

Next == (\E u \in Callers : Update(u) \/ CheckUpdate(u)) \/ Service \/ Push \/ WorkLocally

Spec == Init /\ [][Next]_vars

-----------------------------------------------------------------------------
(* Properties.                                                             *)

(* "Update completed." is true: when no other update was under way, the    *)
(* checkout, the dependencies and the schema are of one version, whatever   *)
(* an earlier update left behind, in Proxmox mode root has left nothing of  *)
(* its own, and a service that was restarted runs the new code.             *)
CompletedInstalls ==
  \A u \in Callers : task[u].pc \in {"done", "restarted"} /\ task[u].alone =>
    /\ deps = git.head /\ schema = git.head /\ ~half
    /\ conf.mode = "proxmox" /\ task[u].root => git.owner = "service"
    /\ task[u].pc = "restarted" =>
         restartDue \/ service.pc = "down" \/ service.code = git.head

(* The code that runs never meets a schema older than its own, and what    *)
(* the database holds, all of a revision or half of one, is of a revision   *)
(* that the checkout knows, so that no start finds a stamp it cannot read.  *)
(* A start can still fail: every one does once a revision was cut short.    *)
CodeKnowsSchema ==
  /\ service.pc = "up" => service.code <= schema
  /\ schema <= git.head
  /\ half => schema < git.head

(* When the Alembic of an update is at work, the database that the update  *)
(* found before its first command, in whatever state, is copied.  The copy  *)
(* is of no later revision than Alembic has come to, and in one piece        *)
(* unless another migrated while it was made.                               *)
MigratesWhatItCopied ==
  \A u \in Callers :
    /\ task[u].pc \in {"alembic", "revision"}
    /\ conf.sqlite /\ task[u].found # NoDb
    => /\ \/ task[u].saved = task[u].found
          \/ task[u].saved = Torn /\ task[u].found < task[u].at
       /\ task[u].saved <= task[u].at

(* An update that is offered can be fast-forwarded to, as long as nobody   *)
(* has moved the checkout since the check began.                            *)
OfferIsSafe ==
  \A u \in Callers : task[u].pc = "offer" /\ task[u].alone =>
    ~git.dirty /\ ~git.local /\ git.head < git.fetched
=============================================================================
