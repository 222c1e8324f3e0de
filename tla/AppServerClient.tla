-------------------------- MODULE AppServerClient --------------------------
(***************************************************************************)
(* services/app_server.py: one CodexAppServerClient, from the spawning of   *)
(* its child to its close.  Telemetry uses one in a with block for a single *)
(* request; live_updates keeps one for its notifications.  A reader thread  *)
(* moves what the child writes into a queue, and hands notifications to the *)
(* listener; a request waits at the queue.  Standard error is a pipe too,   *)
(* which nobody reads while the child runs.                                 *)
(***************************************************************************)
EXTENDS Naturals, Sequences

CONSTANTS
  PipeSize,    \* what fits into the pipe of standard output, or of errors
  MaxChatter   \* bound: messages of a child that answer nothing

ASSUME BoundsAssumption == PipeSize \in Nat \ {0} /\ MaxChatter \in Nat

VARIABLES
  listening,   \* is there a notification_handler?
  user,        \* the thread that uses the client
  reader,      \* _read_stdout
  queue,       \* _messages
  child,       \* the app-server process
  stdout       \* what it has written and the reader has not read

vars == <<listening, user, reader, queue, child, stdout>>

-----------------------------------------------------------------------------
Requests == {"initialize", "read"}

(* A line of the child: a result or an error for the request with that id, *)
(* a notification, a request of its own, or one that is no JSON object.     *)
Line == [kind : {"result", "error"}, id : Requests]
          \cup [kind : {"note", "junk"}, id : {"none"}]
          \cup [kind : {"ask"}, id : {"own"}]

(* _read_stdout also puts the exception that ended it, and None at its end. *)
Raised == [kind |-> "raised", id |-> "none"]
End    == [kind |-> "end", id |-> "none"]
Item   == Line \cup {Raised, End}

(* The step is the message to be sent next or the request waited for.      *)
TypeOK ==
  /\ listening \in BOOLEAN
  /\ user \in [pc : {"new", "ready", "waiting", "using", "closing", "closed", "dropped"},
               step : Requests \cup {"initialized"}, ok : BOOLEAN]
  /\ reader \in {"none", "reading", "ended"}
  /\ queue \in Seq(Item)
  /\ child \in [state : {"none", "up", "stuck", "dead"}, owes : SUBSET Requests,
                gave : SUBSET Requests, log : 0..PipeSize, chatter : 0..MaxChatter]
  /\ stdout \in Seq(Line) /\ Len(stdout) <= PipeSize
  /\ child.state = "none" <=> reader = "none"
  /\ user.pc = "new" => child.state = "none"
  /\ user.pc = "waiting" => user.step # "initialized"

Init ==
  /\ listening \in BOOLEAN
  /\ user = [pc |-> "new", step |-> "initialize", ok |-> FALSE]
  /\ reader = "none" /\ queue = <<>> /\ stdout = <<>>
  /\ child = [state |-> "none", owes |-> {}, gave |-> {}, log |-> 0, chatter |-> 0]

Lives == child.state \in {"up", "stuck"}

-----------------------------------------------------------------------------
(* The user's thread.                                                      *)

(* An exception leaves the with block, which closes the client, unless     *)
(* __enter__ has not returned; the listener closes it by itself.            *)
FailsUnclosed == user' = [user EXCEPT !.pc = "dropped"]      \* mutant
Fails ==
  user' = [user EXCEPT !.pc = IF user.step = "read" \/ listening THEN "closing"
                                                                 ELSE "dropped"]

(* Mutant: the reader is not started.                                      *)
StartUnread ==
  /\ user.pc = "new"
  /\ user' = [user EXCEPT !.pc = "ready"]
  /\ child' = [child EXCEPT !.state = "up"]
  /\ UNCHANGED <<listening, reader, queue, stdout>>

(* start: the command may not be found.                                    *)
Start ==
  /\ user.pc = "new"
  /\ \/ /\ user' = [user EXCEPT !.pc = "closed"]
        /\ UNCHANGED <<reader, child>>
     \/ /\ user' = [user EXCEPT !.pc = "ready"]
        /\ reader' = "reading"
        /\ child' = [child EXCEPT !.state = "up"]
  /\ UNCHANGED <<listening, queue, stdout>>

(* _write_message; a small message always fits into the pipe of a child,   *)
(* and raises when the child has ended.                                     *)
Send ==
  /\ user.pc = "ready"
  /\ \/ /\ Lives /\ user.step # "initialized"
        /\ user' = [user EXCEPT !.pc = "waiting"]
        /\ child' = [child EXCEPT !.owes = @ \cup {user.step}]
     \/ /\ Lives /\ user.step = "initialized"
        /\ user' = IF listening THEN [user EXCEPT !.pc = "using"]
                                ELSE [user EXCEPT !.step = "read"]
        /\ UNCHANGED child
     \/ /\ ~Lives /\ Fails
        /\ UNCHANGED child
  /\ UNCHANGED <<listening, reader, queue, stdout>>

Waiting(item) == user.pc = "waiting" /\ queue # <<>> /\ Head(queue) = item

(* Mutant: any result is taken for the answer.                             *)
IsAnswerToAny(item) == item.kind \in {"result", "error", "ask"}
IsAnswer(item) == item.id = user.step

(* request takes an item of the queue.                                     *)
Take ==
  \E item \in Item :
    /\ Waiting(item)
    /\ queue' = Tail(queue)
    /\ \/ item \in {Raised, End} /\ Fails
       \/ /\ item \notin {Raised, End} /\ ~IsAnswer(item)
          /\ UNCHANGED user
       \/ /\ item \notin {Raised, End} /\ IsAnswer(item) /\ item.kind = "error"
          /\ Fails
       \/ /\ item \notin {Raised, End} /\ IsAnswer(item) /\ item.kind # "error"
          /\ user' = IF user.step = "initialize"
                       THEN [user EXCEPT !.pc = "ready", !.step = "initialized"]
                       ELSE [user EXCEPT !.pc = "closing", !.ok = TRUE]
    /\ UNCHANGED <<listening, reader, child, stdout>>

TimesOutNever == FALSE /\ UNCHANGED vars                     \* mutant
(* No item for _timeout_seconds.                                           *)
TimesOut ==
  /\ user.pc = "waiting" /\ queue = <<>>
  /\ Fails
  /\ UNCHANGED <<listening, reader, queue, child, stdout>>

(* close: the child is terminated, and killed if it does not end in time.  *)
Close ==
  /\ user.pc \in {"closing", "using"}
  /\ user' = [user EXCEPT !.pc = "closed"]
  /\ child' = [child EXCEPT !.state = "dead", !.owes = {}]
  /\ UNCHANGED <<listening, reader, queue, stdout>>

-----------------------------------------------------------------------------
(* The reader thread: _read_stdout.                                        *)

(* A notification is the listener's, or is queued when there is none.  A   *)
(* line that does not parse and a listener that raises end the thread.      *)
Handled(line) == line.kind = "note" /\ listening
Read ==
  /\ reader = "reading" /\ stdout # <<>>
  /\ stdout' = Tail(stdout)
  /\ \/ /\ Head(stdout).kind = "junk" \/ Handled(Head(stdout))
        /\ queue' = queue \o <<Raised, End>>
        /\ reader' = "ended"
     \/ /\ Handled(Head(stdout))
        /\ UNCHANGED <<queue, reader>>
     \/ /\ Head(stdout).kind # "junk" /\ ~Handled(Head(stdout))
        /\ queue' = Append(queue, Head(stdout))
        /\ UNCHANGED reader
  /\ UNCHANGED <<listening, user, child>>

(* Mutant: nothing is put at the end.                                      *)
EndOfOutputUntold ==
  /\ reader = "reading" /\ stdout = <<>> /\ child.state = "dead"
  /\ reader' = "ended"
  /\ UNCHANGED <<listening, user, queue, child, stdout>>

EndOfOutput ==
  /\ reader = "reading" /\ stdout = <<>> /\ child.state = "dead"
  /\ queue' = Append(queue, End)
  /\ reader' = "ended"
  /\ UNCHANGED <<listening, user, child, stdout>>

-----------------------------------------------------------------------------
(* The child.                                                              *)

Writes(line) ==
  /\ child.state = "up" /\ Len(stdout) < PipeSize
  /\ stdout' = Append(stdout, line)
  /\ UNCHANGED <<listening, user, reader, queue>>

Answers(r) ==
  /\ r \in child.owes
  /\ \E kind \in {"result", "error"} : Writes([kind |-> kind, id |-> r])
  /\ child' = [child EXCEPT !.owes = @ \ {r}, !.gave = @ \cup {r}]

Chatters ==
  /\ child.chatter < MaxChatter
  /\ \E line \in Line : line.kind \in {"note", "junk", "ask"} /\ Writes(line)
  /\ child' = [child EXCEPT !.chatter = @ + 1]

(* A line for standard error; when the pipe is full, the child hangs.      *)
Logs ==
  /\ child.state = "up"
  /\ child' = IF child.log < PipeSize THEN [child EXCEPT !.log = @ + 1]
                                      ELSE [child EXCEPT !.state = "stuck"]
  /\ UNCHANGED <<listening, user, reader, queue, stdout>>

Dies ==
  /\ Lives
  /\ child' = [child EXCEPT !.state = "dead", !.owes = {}]
  /\ UNCHANGED <<listening, user, reader, queue, stdout>>

-----------------------------------------------------------------------------
UserStep   == Start \/ Send \/ Take \/ TimesOut
ReaderStep == Read \/ EndOfOutput
ChildStep  == (\E r \in Requests : Answers(r)) \/ Chatters \/ Logs \/ Dies

Next == UserStep \/ Close \/ ReaderStep \/ ChildStep

Spec == Init /\ [][Next]_vars

(* The threads of the service go on; of the child nothing is assumed.  A   *)
(* listener need not ever be closed.                                        *)
FairSpec ==
  /\ Spec
  /\ WF_vars(UserStep) /\ WF_vars(ReaderStep)
  /\ WF_vars(Close /\ user.pc = "closing")

-----------------------------------------------------------------------------
(* Properties.                                                             *)

(* What request returns is the child's answer to that very request, also   *)
(* when it asks and tells other things in between; and the child is asked   *)
(* for the limits only after it has answered initialize.                    *)
AnswersItsOwn ==
  /\ user.ok => "read" \in child.gave
  /\ user.step # "initialize" => "initialize" \in child.gave
  /\ "read" \in child.owes \cup child.gave => user.step = "read"

(* A request never waits at a queue into which nobody will put anything:   *)
(* a reader that has ended has said so, whatever ended it.                  *)
WaitIsWoken ==
  user.pc = "waiting" =>
    reader = "reading" \/ \E i \in 1..Len(queue) : queue[i] = End

(* A client that is no longer used has ended its child, unless the failure *)
(* was one of __enter__.                                                    *)
LeftIsEnded ==
  /\ user.pc = "closed" => ~Lives
  /\ user.pc = "dropped" => user.step # "read" /\ ~listening

(* For its user the client is a conversation, whatever the reader, the     *)
(* queue and the pipes do: it implements AppServerCall.                     *)
Call == INSTANCE AppServerCall WITH
  phase <- user.pc, step <- user.step, got <- user.ok,
  runs <- Lives, owes <- child.owes, gave <- child.gave

RefinesCall == Call!Spec

(* A request ends, though the child may hang on its standard error, say    *)
(* nothing or have a reader no longer, as long as it does not chatter for   *)
(* ever.                                                                    *)
RequestEnds == user.pc = "waiting" ~> user.pc # "waiting"
=============================================================================
