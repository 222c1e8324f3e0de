----------------------- MODULE AppServerClientProofs -----------------------
(***************************************************************************)
(* Proofs of the safety properties of AppServerClient, for pipes of every  *)
(* size.  What is added to make them inductive: an answer under way has    *)
(* been given, and a user that may come to wait will be woken.              *)
(***************************************************************************)
EXTENDS AppServerClient, TLAPS

Given(lines) ==
  \A i \in 1..Len(lines) : lines[i].id \in Requests => lines[i].id \in child.gave

Told == \E i \in 1..Len(queue) : queue[i] = End

WillBeWoken == user.pc \in {"ready", "waiting"} => reader = "reading" \/ Told

HasChild == user.pc \notin {"new", "closed"} => child.state # "none"

Inv == TypeOK /\ Given(stdout) /\ Given(queue) /\ AnswersItsOwn /\ WillBeWoken
         /\ LeftIsEnded /\ HasChild

(* The items of a queue.                                                   *)
LEMMA ItemShape == ASSUME NEW item \in Item
                   PROVE  /\ item.id \in Requests \cup {"none", "own"}
                          /\ item \notin {Raised, End} => item \in Line
BY DEF Item, Line, Raised, End, Requests

(* The type of the user's state is kept by a failure.                      *)
LEMMA FailsTyped == ASSUME TypeOK, Fails
                    PROVE  /\ user'.pc \in {"closing", "dropped"}
                           /\ user'.step = user.step /\ user'.ok = user.ok
                           /\ user'.pc = "dropped" => user.step # "read" /\ ~listening
BY DEF TypeOK, Fails

(* What is left of a queue, and what is added to it.                       *)
LEMMA TailOf == ASSUME NEW S, NEW q \in Seq(S), q # <<>>
                PROVE  /\ Tail(q) \in Seq(S) /\ Head(q) \in S /\ Head(q) = q[1]
                       /\ Len(q) \in Nat \ {0} /\ Len(Tail(q)) = Len(q) - 1
                       /\ \A i \in 1..Len(Tail(q)) : i + 1 \in 1..Len(q) /\ Tail(q)[i] = q[i + 1]
                       /\ \A i \in 1..Len(q) : i # 1 => /\ i - 1 \in 1..Len(Tail(q))
                                                       /\ Tail(q)[i - 1] = q[i]
OBVIOUS

LEMMA AppendOf == ASSUME NEW S, NEW q \in Seq(S), NEW e \in S
                  PROVE  /\ Append(q, e) \in Seq(S) /\ Len(Append(q, e)) = Len(q) + 1
                         /\ \A i \in 1..Len(q) : Append(q, e)[i] = q[i]
                         /\ Append(q, e)[Len(q) + 1] = e
                         /\ \A i \in 1..Len(Append(q, e)) : i \in 1..Len(q) \/ i = Len(q) + 1
OBVIOUS

(* A line that is read is added to the queue as it is.                     *)
LEMMA GivenTail == ASSUME NEW S, NEW q \in Seq(S), q # <<>>, Given(q)
                   PROVE  /\ Given(Tail(q))
                          /\ Head(q).id \in Requests => Head(q).id \in child.gave
<1>1. Head(q) = q[1] /\ 1 \in 1..Len(q)
  BY TailOf
<1>2. ASSUME NEW i \in 1..Len(Tail(q)) PROVE i + 1 \in 1..Len(q) /\ Tail(q)[i] = q[i + 1]
  BY TailOf
<1>3. QED
  BY <1>1, <1>2 DEF Given

LEMMA GivenAppend == ASSUME NEW S, NEW q \in Seq(S), NEW e \in S, Given(q),
                            e.id \in Requests => e.id \in child.gave
                     PROVE  Given(Append(q, e))
BY AppendOf DEF Given

LEMMA InitInv == Init => Inv
BY BoundsAssumption DEF Init, Inv, TypeOK, Given, AnswersItsOwn, WillBeWoken, Told,
                        LeftIsEnded, Lives, Requests, HasChild

LEMMA StepInv == Inv /\ [Next]_vars => Inv'
<1> SUFFICES ASSUME Inv, [Next]_vars PROVE Inv'
  OBVIOUS
<1> USE DEF Inv, Requests, HasChild
<1>1. CASE Start
  <2>1. /\ user.pc = "new" /\ child.state = "none" /\ reader = "none"
        /\ UNCHANGED <<listening, queue, stdout>>
    BY <1>1 DEF Start, TypeOK
  <2>2. ASSUME user' = [user EXCEPT !.pc = "closed"], UNCHANGED <<reader, child>> PROVE Inv'
    BY <2>1, <2>2
       DEF TypeOK, Given, AnswersItsOwn, WillBeWoken, Told, LeftIsEnded, Lives
  <2>3. ASSUME user' = [user EXCEPT !.pc = "ready"], reader' = "reading",
               child' = [child EXCEPT !.state = "up"]
        PROVE  Inv'
    <3>1. /\ user'.pc = "ready" /\ user'.step = user.step /\ user'.ok = user.ok
          /\ child'.state = "up" /\ child'.owes = child.owes /\ child'.gave = child.gave
      BY <2>3 DEF TypeOK
    <3>2. TypeOK'
      BY <2>1, <2>3 DEF TypeOK
    <3> QED
      BY <2>1, <2>3, <3>1, <3>2 DEF Given, AnswersItsOwn, WillBeWoken, LeftIsEnded
  <2> QED
    BY <1>1, <2>2, <2>3 DEF Start
<1>2. CASE Send
  <2>1. /\ user.pc = "ready" /\ UNCHANGED <<listening, reader, queue, stdout>>
        /\ child.state # "none"
    BY <1>2 DEF Send
  <2>2. ASSUME Lives, user.step # "initialized", user' = [user EXCEPT !.pc = "waiting"],
               child' = [child EXCEPT !.owes = @ \cup {user.step}]
        PROVE  Inv'
    BY <2>1, <2>2
       DEF TypeOK, Given, AnswersItsOwn, WillBeWoken, Told, LeftIsEnded, Lives
  <2>3. ASSUME user.step = "initialized", user' = [user EXCEPT !.pc = "using"], child' = child
        PROVE  Inv'
    BY <2>1, <2>3
       DEF TypeOK, Given, AnswersItsOwn, WillBeWoken, Told, LeftIsEnded, Lives
  <2>4. ASSUME user.step = "initialized", user' = [user EXCEPT !.step = "read"], child' = child
        PROVE  Inv'
    BY <2>1, <2>4
       DEF TypeOK, Given, AnswersItsOwn, WillBeWoken, Told, LeftIsEnded, Lives
  <2>5. ASSUME Fails, child' = child PROVE Inv'
    <3>1. TypeOK'
      BY <2>1, <2>5 DEF TypeOK, Fails
    <3> QED
      BY <2>1, <2>5, <3>1, FailsTyped
         DEF Given, AnswersItsOwn, WillBeWoken, LeftIsEnded, Lives
  <2> QED
    BY <1>2, <2>2, <2>3, <2>4, <2>5 DEF Send
<1>3. CASE Take
  <2>1. PICK item \in Item : /\ Waiting(item) /\ queue' = Tail(queue)
                             /\ UNCHANGED <<listening, reader, child, stdout>>
                             /\ \/ Fails
                                \/ UNCHANGED user /\ item \notin {Raised, End}
                                \/ /\ item \notin {Raised, End} /\ IsAnswer(item)
                                   /\ user' = IF user.step = "initialize"
                                       THEN [user EXCEPT !.pc = "ready", !.step = "initialized"]
                                       ELSE [user EXCEPT !.pc = "closing", !.ok = TRUE]
    BY <1>3 DEF Take
  <2>2. /\ queue # <<>> /\ item = Head(queue) /\ user.pc = "waiting"
        /\ queue \in Seq(Item) /\ user.step \in Requests
    BY <2>1 DEF Waiting, TypeOK
  <2>3. /\ queue' \in Seq(Item) /\ Given(queue')
        /\ item.id \in Requests => item.id \in child.gave
    BY <2>1, <2>2, TailOf, GivenTail
  <2>4. Given(stdout)' /\ Given(queue)'
    BY <2>1, <2>3 DEF Given
  <2>5. item # End => WillBeWoken'
    <3> SUFFICES ASSUME item # End, Told PROVE Told'
      BY <2>1, <2>2 DEF WillBeWoken
    <3>1. PICK i \in 1..Len(queue) : queue[i] = End
      BY DEF Told
    <3>2. i # 1
      BY <3>1, <2>2, TailOf
    <3>3. i - 1 \in 1..Len(queue') /\ queue'[i - 1] = End
      BY <3>1, <3>2, <2>1, <2>2, TailOf
    <3> QED
      BY <3>3 DEF Told
  <2>6. CASE Fails
    <3>1. TypeOK'
      BY <2>1, <2>3, <2>6 DEF TypeOK, Fails
    <3>2. AnswersItsOwn' /\ WillBeWoken' /\ LeftIsEnded'
      BY <2>1, <2>6, FailsTyped DEF AnswersItsOwn, WillBeWoken, LeftIsEnded, Lives
    <3>3. HasChild'
      BY <2>1, <2>2
    <3> QED
      BY <3>1, <3>2, <3>3, <2>4
  <2>7. CASE UNCHANGED user /\ item \notin {Raised, End}
    BY <2>1, <2>3, <2>4, <2>5, <2>7 DEF TypeOK, AnswersItsOwn, LeftIsEnded, Lives
  <2>8. ASSUME item \notin {Raised, End}, IsAnswer(item), user.step = "initialize",
               user' = [user EXCEPT !.pc = "ready", !.step = "initialized"]
        PROVE  Inv'
    BY <2>1, <2>2, <2>3, <2>4, <2>5, <2>8
       DEF TypeOK, AnswersItsOwn, LeftIsEnded, Lives, IsAnswer
  <2>9. ASSUME item \notin {Raised, End}, IsAnswer(item), user.step # "initialize",
               user' = [user EXCEPT !.pc = "closing", !.ok = TRUE]
        PROVE  Inv'
    BY <2>1, <2>2, <2>3, <2>4, <2>5, <2>9
       DEF TypeOK, AnswersItsOwn, LeftIsEnded, Lives, IsAnswer
  <2> QED
    BY <2>1, <2>6, <2>7, <2>8, <2>9
<1>4. CASE TimesOut
  BY <1>4 DEF TimesOut, Fails, TypeOK, Given, AnswersItsOwn, WillBeWoken, Told, LeftIsEnded, Lives
<1>5. CASE Close
  BY <1>5 DEF Close, TypeOK, Given, AnswersItsOwn, WillBeWoken, Told, LeftIsEnded, Lives
<1>6. CASE Read
  <2> DEFINE line == Head(stdout)
  <2>1. /\ reader = "reading" /\ stdout # <<>> /\ stdout' = Tail(stdout)
        /\ UNCHANGED <<listening, user, child>>
        /\ \/ queue' = queue \o <<Raised, End>> /\ reader' = "ended"
           \/ UNCHANGED <<queue, reader>>
           \/ queue' = Append(queue, line) /\ reader' = reader
    BY <1>6 DEF Read
  <2>2. /\ stdout \in Seq(Line) /\ queue \in Seq(Item) /\ line \in Line /\ line \in Item
        /\ Raised \in Item /\ End \in Item
        /\ Raised.id \notin Requests /\ End.id \notin Requests
    BY <2>1, TailOf DEF TypeOK, Item, Raised, End
  <2>3. /\ Given(stdout') /\ stdout' \in Seq(Line) /\ Len(stdout') <= PipeSize
        /\ line.id \in Requests => line.id \in child.gave
    BY <2>1, <2>2, TailOf, GivenTail, BoundsAssumption DEF TypeOK
  <2>4. Given(stdout)'
    BY <2>1, <2>3 DEF Given
  <2>5. queue \o <<Raised, End>> = Append(Append(queue, Raised), End)
    BY <2>2
  <2>6. queue' \in Seq(Item) /\ Given(queue')
    <3>1. CASE queue' = queue \o <<Raised, End>>
      <4>1. Append(queue, Raised) \in Seq(Item) /\ Given(Append(queue, Raised))
        BY <2>2, AppendOf, GivenAppend
      <4> QED
        <5> DEFINE q == Append(queue, Raised)
        <5>1. q \in Seq(Item) /\ Given(q) /\ queue' = Append(q, End)
          BY <3>1, <4>1, <2>5
        <5> HIDE DEF q
        <5> QED
          BY <5>1, <2>2, AppendOf, GivenAppend
    <3>2. CASE queue' = Append(queue, line)
      BY <3>2, <2>2, <2>3, AppendOf, GivenAppend
    <3> QED
      BY <3>1, <3>2, <2>1, <2>2
  <2>7. Given(queue)'
    BY <2>1, <2>6 DEF Given
  <2>8. TypeOK'
    BY <2>1, <2>3, <2>6 DEF TypeOK
  <2>9. WillBeWoken'
    <3>1. CASE queue' = queue \o <<Raised, End>>
      <4>1. queue'[Len(queue) + 2] = End /\ Len(queue') = Len(queue) + 2
        BY <3>1, <2>2
      <4> QED
        BY <4>1, <2>2, <2>6 DEF WillBeWoken, Told
    <3>2. CASE reader' = "reading"
      BY <3>2 DEF WillBeWoken
    <3> QED
      BY <3>1, <3>2, <2>1
  <2> QED
    BY <2>1, <2>4, <2>7, <2>8, <2>9 DEF AnswersItsOwn, LeftIsEnded, Lives
<1>7. CASE EndOfOutput
  <2>1. /\ queue' = Append(queue, End) /\ reader = "reading" /\ reader' = "ended"
        /\ UNCHANGED <<listening, user, child, stdout>>
    BY <1>7 DEF EndOfOutput
  <2>2. queue \in Seq(Item) /\ End \in Item /\ End.id \notin Requests
    BY DEF TypeOK, Item, End
  <2>3. queue' \in Seq(Item) /\ Given(queue')
    BY <2>1, <2>2, AppendOf, GivenAppend
  <2>4. Given(queue)' /\ Given(stdout)'
    BY <2>1, <2>3 DEF Given
  <2>5. Told'
    <3>1. Len(queue') = Len(queue) + 1 /\ queue'[Len(queue) + 1] = End
      BY <2>1, <2>2, AppendOf
    <3> QED
      BY <3>1, <2>2 DEF Told
  <2> QED
    BY <2>1, <2>3, <2>4, <2>5 DEF TypeOK, AnswersItsOwn, WillBeWoken, LeftIsEnded, Lives
<1>8. CASE ChildStep
  <2>1. ASSUME NEW line \in Line, Writes(line),
               child.gave \subseteq child'.gave, child'.gave \subseteq Requests,
               line.id \in Requests => line.id \in child'.gave
        PROVE  /\ stdout' \in Seq(Line) /\ Len(stdout') <= PipeSize
               /\ Given(stdout)' /\ Given(queue)'
    <3>1. /\ stdout \in Seq(Line) /\ stdout' = Append(stdout, line) /\ queue' = queue
          /\ Len(stdout) < PipeSize
      BY <2>1 DEF Writes, TypeOK
    <3>2. \A i \in 1..Len(stdout') : \/ i \in 1..Len(stdout) /\ stdout'[i] = stdout[i]
                                     \/ stdout'[i] = line
      BY <3>1, AppendOf
    <3> QED
      BY <3>1, <3>2, <2>1, AppendOf, BoundsAssumption DEF Given
  <2>2. ASSUME NEW r \in Requests, Answers(r) PROVE Inv'
    <3>1. PICK kind \in {"result", "error"} : Writes([kind |-> kind, id |-> r])
      BY <2>2 DEF Answers
    <3>2. /\ child' = [child EXCEPT !.owes = @ \ {r}, !.gave = @ \cup {r}]
          /\ r \in child.owes
      BY <2>2 DEF Answers
    <3>3. /\ child'.gave = child.gave \cup {r} /\ child'.owes = child.owes \ {r}
          /\ child'.state = child.state /\ child.gave \subseteq Requests
      BY <3>2 DEF TypeOK
    <3>4. [kind |-> kind, id |-> r] \in Line
      BY DEF Line
    <3>5. /\ stdout' \in Seq(Line) /\ Len(stdout') <= PipeSize
          /\ Given(stdout)' /\ Given(queue)'
      BY <2>1, <3>1, <3>3, <3>4
    <3>6. UNCHANGED <<listening, user, reader, queue>>
      BY <3>1 DEF Writes
    <3>7. child' \in [state : {"none", "up", "stuck", "dead"}, owes : SUBSET Requests,
                      gave : SUBSET Requests, log : 0..PipeSize, chatter : 0..MaxChatter]
      BY <3>2, <3>3 DEF TypeOK
    <3>8. TypeOK'
      BY <3>3, <3>5, <3>6, <3>7 DEF TypeOK
    <3> QED
      BY <3>2, <3>3, <3>5, <3>6, <3>8
         DEF AnswersItsOwn, WillBeWoken, Told, LeftIsEnded, Lives
  <2>3. ASSUME Chatters PROVE Inv'
    <3>1. PICK line \in Line : line.kind \in {"note", "junk", "ask"} /\ Writes(line)
      BY <2>3 DEF Chatters
    <3>2. line.id \notin Requests
      BY <3>1 DEF Line
    <3>3. /\ child' = [child EXCEPT !.chatter = @ + 1] /\ child.chatter < MaxChatter
      BY <2>3 DEF Chatters
    <3>4. /\ child'.gave = child.gave /\ child'.owes = child.owes
          /\ child'.state = child.state /\ child.gave \subseteq Requests
      BY <3>3 DEF TypeOK
    <3>5. /\ stdout' \in Seq(Line) /\ Len(stdout') <= PipeSize
          /\ Given(stdout)' /\ Given(queue)'
      BY <2>1, <3>1, <3>2, <3>4
    <3>6. UNCHANGED <<listening, user, reader, queue>>
      BY <3>1 DEF Writes
    <3>7. child' \in [state : {"none", "up", "stuck", "dead"}, owes : SUBSET Requests,
                      gave : SUBSET Requests, log : 0..PipeSize, chatter : 0..MaxChatter]
      <4>1. child.chatter + 1 \in 0..MaxChatter
        BY <3>3, BoundsAssumption DEF TypeOK
      <4> QED
        BY <3>3, <4>1 DEF TypeOK
    <3>8. TypeOK'
      BY <3>4, <3>5, <3>6, <3>7 DEF TypeOK
    <3> QED
      BY <3>4, <3>5, <3>6, <3>8
         DEF AnswersItsOwn, WillBeWoken, Told, LeftIsEnded, Lives
  <2>4. CASE Logs
    <3>1. child.state = "up" /\ UNCHANGED <<listening, user, reader, queue, stdout>>
      BY <2>4 DEF Logs
    <3>2. child.log < PipeSize => child.log + 1 \in 0..PipeSize
      BY BoundsAssumption DEF TypeOK
    <3>3. \/ child' = [child EXCEPT !.log = @ + 1] /\ child.log < PipeSize
          \/ child' = [child EXCEPT !.state = "stuck"]
      BY <2>4 DEF Logs
    <3>4. /\ child' \in [state : {"none", "up", "stuck", "dead"}, owes : SUBSET Requests,
                         gave : SUBSET Requests, log : 0..PipeSize, chatter : 0..MaxChatter]
          /\ child'.state \in {"up", "stuck"}
          /\ child'.owes = child.owes /\ child'.gave = child.gave
      BY <3>1, <3>2, <3>3 DEF TypeOK
    <3> QED
      BY <3>1, <3>4 DEF TypeOK, Given, AnswersItsOwn, WillBeWoken, Told, LeftIsEnded, Lives
  <2>5. CASE Dies
    BY <2>5 DEF Dies, TypeOK, Given, AnswersItsOwn, WillBeWoken, Told, LeftIsEnded, Lives
  <2> QED
    BY <1>8, <2>2, <2>3, <2>4, <2>5 DEF ChildStep
<1>9. CASE UNCHANGED vars
  BY <1>9 DEF vars, TypeOK, Given, AnswersItsOwn, WillBeWoken, Told, LeftIsEnded, Lives
<1>10. QED
  BY <1>1, <1>2, <1>3, <1>4, <1>5, <1>6, <1>7, <1>8, <1>9 DEF Next, UserStep, ReaderStep

THEOREM InvAlways == Spec => []Inv
  BY InitInv, StepInv, PTL DEF Spec

(* The types, for pipes of every size: a child and a reader exist together. *)
THEOREM ClientTyped == Spec => []TypeOK
<1>1. Inv => TypeOK
  BY DEF Inv
<1> QED
  BY <1>1, InvAlways, PTL

(* A request returns the child's answer to it, and no other.               *)
THEOREM AnswersAreOwn == Spec => []AnswersItsOwn
<1>1. Inv => AnswersItsOwn
  BY DEF Inv
<1> QED
  BY <1>1, InvAlways, PTL

(* Nobody waits at a queue whose reader has ended without a word.          *)
THEOREM WaitersAreWoken == Spec => []WaitIsWoken
<1>1. Inv => WaitIsWoken
  BY DEF Inv, WillBeWoken, Told, WaitIsWoken
<1> QED
  BY <1>1, InvAlways, PTL

(* A client that is done with has ended its child, or never left __enter__. *)
THEOREM ChildrenAreEnded == Spec => []LeftIsEnded
<1>1. Inv => LeftIsEnded
  BY DEF Inv
<1> QED
  BY <1>1, InvAlways, PTL
-----------------------------------------------------------------------------
(* The client implements AppServerCall: an item of the queue is heard only  *)
(* when it is the answer to the request, and the reader, the pipes and what *)
(* the child says besides are steps the caller does not see.                *)

LEMMA InitMaps == Init => Call!Init
BY DEF Init, Call!Init, Lives

(* Seen by the caller, every failure is the same step.                     *)
LEMMA FailureMaps == ASSUME TypeOK, Fails, user.pc \in {"ready", "waiting"},
                            UNCHANGED <<listening, child>>
                     PROVE  Call!Fails
BY DEF TypeOK, Fails, Call!Fails, Lives

LEMMA UserMaps == Inv /\ UserStep => [Call!Next]_(Call!callVars)
<1> SUFFICES ASSUME Inv, UserStep PROVE [Call!Next]_(Call!callVars)
  OBVIOUS
<1> USE DEF Requests
<1>0. TypeOK /\ Given(queue)
  BY DEF Inv
<1>1. CASE Start
  BY <1>0, <1>1 DEF Start, TypeOK, Call!Next, Call!Starts, Lives
<1>2. CASE Send
  <2>1. user.pc = "ready" /\ UNCHANGED listening
    BY <1>2 DEF Send
  <2>2. ASSUME Lives, user.step # "initialized", user' = [user EXCEPT !.pc = "waiting"],
               child' = [child EXCEPT !.owes = @ \cup {user.step}]
        PROVE  Call!Asks
    BY <1>0, <2>1, <2>2 DEF TypeOK, Call!Asks, Lives
  <2>3. ASSUME Lives, user.step = "initialized", UNCHANGED child,
               user' = IF listening THEN [user EXCEPT !.pc = "using"]
                                    ELSE [user EXCEPT !.step = "read"]
        PROVE  Call!Tells
    BY <1>0, <2>1, <2>3 DEF TypeOK, Call!Tells, Lives
  <2>4. ASSUME Fails, UNCHANGED child PROVE Call!Fails
    BY <1>0, <2>1, <2>4, FailureMaps
  <2> QED
    BY <1>2, <2>2, <2>3, <2>4 DEF Send, Call!Next
<1>3. CASE Take
  <2>1. PICK item \in Item :
          /\ Waiting(item) /\ queue' = Tail(queue)
          /\ UNCHANGED <<listening, reader, child, stdout>>
          /\ \/ Fails
             \/ UNCHANGED user
             \/ /\ IsAnswer(item)
                /\ user' = IF user.step = "initialize"
                             THEN [user EXCEPT !.pc = "ready", !.step = "initialized"]
                             ELSE [user EXCEPT !.pc = "closing", !.ok = TRUE]
    BY <1>3 DEF Take
  <2>2. /\ queue \in Seq(Item) /\ queue # <<>> /\ item = Head(queue)
        /\ user.pc = "waiting" /\ user.step \in Requests
    BY <1>0, <2>1 DEF Waiting, TypeOK
  <2>3. item.id \in Requests => item.id \in child.gave
    BY <1>0, <2>2, GivenTail
  <2>4. CASE Fails
    BY <1>0, <2>1, <2>2, <2>4, FailureMaps DEF Call!Next
  <2>5. CASE UNCHANGED user
    BY <2>1, <2>5 DEF Call!callVars, Lives
  <2>6. ASSUME IsAnswer(item),
               user' = IF user.step = "initialize"
                         THEN [user EXCEPT !.pc = "ready", !.step = "initialized"]
                         ELSE [user EXCEPT !.pc = "closing", !.ok = TRUE]
        PROVE  Call!Hears
    <3>1. user.step \in child.gave
      BY <2>2, <2>3, <2>6 DEF IsAnswer
    <3> QED
      BY <1>0, <2>1, <2>2, <2>6, <3>1 DEF TypeOK, Call!Hears, Lives
  <2> QED
    BY <2>1, <2>4, <2>5, <2>6 DEF Call!Next
<1>4. CASE TimesOut
  BY <1>0, <1>4, FailureMaps DEF TimesOut, Call!Next
<1> QED
  BY <1>1, <1>2, <1>3, <1>4 DEF UserStep

LEMMA ChildMaps == Inv /\ ChildStep => [Call!Next]_(Call!callVars)
<1> SUFFICES ASSUME Inv, ChildStep PROVE [Call!Next]_(Call!callVars)
  OBVIOUS
<1>0. TypeOK
  BY DEF Inv
<1>1. ASSUME NEW r \in Requests, Answers(r) PROVE Call!Answers
  <2>1. /\ child.state = "up" /\ UNCHANGED <<listening, user>>
        /\ r \in child.owes
        /\ child' = [child EXCEPT !.owes = @ \ {r}, !.gave = @ \cup {r}]
    BY <1>1 DEF Answers, Writes
  <2> QED
    BY <1>0, <2>1 DEF TypeOK, Call!Answers, Lives
<1>2. CASE Chatters
  BY <1>0, <1>2 DEF Chatters, Writes, TypeOK, Call!callVars, Lives
<1>3. CASE Logs
  BY <1>0, <1>3 DEF Logs, TypeOK, Call!callVars, Lives
<1>4. CASE Dies
  BY <1>0, <1>4 DEF Dies, TypeOK, Call!Next, Call!Ends, Lives
<1> QED
  BY <1>1, <1>2, <1>3, <1>4 DEF ChildStep, Call!Next

LEMMA StepMaps == Inv /\ [Next]_vars => [Call!Next]_(Call!callVars)
<1> SUFFICES ASSUME Inv, [Next]_vars PROVE [Call!Next]_(Call!callVars)
  OBVIOUS
<1>0. TypeOK
  BY DEF Inv
<1>1. CASE Close
  BY <1>0, <1>1 DEF Close, TypeOK, Call!Next, Call!Closes, Lives
<1>2. CASE ReaderStep
  BY <1>2 DEF ReaderStep, Read, EndOfOutput, Call!callVars, Lives
<1>3. CASE UNCHANGED vars
  BY <1>3 DEF vars, Call!callVars, Lives
<1> QED
  BY <1>1, <1>2, <1>3, UserMaps, ChildMaps DEF Next

(* The client, with its reader, its queue and both pipes, implements a     *)
(* conversation in which every answer heard is the answer to the request.   *)
THEOREM ImplementsCall == Spec => RefinesCall
<1>1. Spec => []Inv
  BY InvAlways
<1> QED
  BY <1>1, InitMaps, StepMaps, PTL DEF Spec, RefinesCall, Call!Spec
=============================================================================
