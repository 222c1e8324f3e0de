-------------------------- MODULE AnchorRunsProofs --------------------------
(* Proofs about AnchorRuns, for every number of threads and every bound.   *)
EXTENDS AnchorRuns, FiniteSetTheorems, TLAPS

(* A run that is under way has the lock; the lock of a thread that is not  *)
(* in a run was kept by a row that could not be created.                   *)
Owner ==
  /\ \A t \in Threads : InRun(t) => lock = t
  /\ lock # NoOne /\ ~createFailed => InRun(lock)

IInv == TypeOK /\ Owner

(* A row that nobody is going to end counts against a fault.               *)
Counted == IsFiniteSet(Abandoned) /\ AbandonedByFault

-----------------------------------------------------------------------------
LEMMA InitIInv == Init => IInv
<1> SUFFICES ASSUME Init PROVE IInv
  OBVIOUS
<1>1. account \in [archived : BOOLEAN, paused : BOOLEAN, connected : BOOLEAN]
  BY DEF Init
<1>2. /\ createFailed \in BOOLEAN
      /\ faults \in 0..MaxFaults
      /\ running \subseteq Runs
  <2>1. createFailed \in BOOLEAN
    BY Zenon DEF Init
  <2> QED
    BY <2>1, BoundAssumption DEF Init
<1>3. \A t \in Threads : task[t] = Idle
  BY DEF Init
<1>4. Idle \in [pc : RunPcs \cup {"idle", "pre", "load", "lock", "post"},
                ready : BOOLEAN, run : Runs \cup {NoRun}]
  BY DEF Idle
<1>5. TypeOK
  BY <1>1, <1>2, <1>3, <1>4, NamesAssumption DEF Init, TypeOK, Idle, RunPcs
<1>6. Owner
  BY <1>3 DEF Init, Owner, InRun, RunPcs, Idle
<1> QED
  BY <1>5, <1>6 DEF IInv

(* Every step of the runs keeps the types and the owner of the lock.       *)
LEMMA NextIInv == IInv /\ [Next]_vars => IInv'
<1> SUFFICES ASSUME IInv, [Next]_vars PROVE IInv'
  OBVIOUS
<1>0. account.connected \in BOOLEAN
  <2>1. account \in [archived : BOOLEAN, paused : BOOLEAN, connected : BOOLEAN]
    BY Zenon DEF IInv, TypeOK
  <2>2. \A x \in [archived : BOOLEAN, paused : BOOLEAN, connected : BOOLEAN] :
          x.connected \in BOOLEAN
    BY Zenon
  <2> QED
    BY <2>1, <2>2, Zenon
<1>1. CASE ChangeAccount
  <2>1. account' \in [archived : BOOLEAN, paused : BOOLEAN, connected : BOOLEAN]
    BY <1>1, Zenon DEF ChangeAccount
  <2>2. UNCHANGED <<lock, running, task, createFailed, faults>>
    BY <1>1 DEF ChangeAccount
  <2> QED
    BY <2>1, <2>2 DEF IInv, TypeOK, Owner, InRun
<1>2. CASE Restart
  <2>1. \A t \in Threads : task'[t] = Idle
    BY <1>2 DEF Restart
  <2>2. Idle \in [pc : RunPcs \cup {"idle", "pre", "load", "lock", "post"},
                  ready : BOOLEAN, run : Runs \cup {NoRun}]
    BY DEF Idle
  <2>3. createFailed' \in BOOLEAN /\ faults' \in 0..MaxFaults
    <3>1. createFailed' \in BOOLEAN
      BY <1>2, Zenon DEF Restart
    <3> QED
      BY <3>1, <1>2, BoundAssumption DEF Restart, IInv, TypeOK
  <2>4. TypeOK'
    BY <1>2, <2>1, <2>2, <2>3, NamesAssumption
       DEF Restart, IInv, TypeOK, Idle, RunPcs
  <2>5. Owner'
    BY <1>2, <2>1 DEF Restart, Owner, InRun, RunPcs, Idle
  <2> QED
    BY <2>4, <2>5 DEF IInv
<1> USE NamesAssumption, BoundAssumption
    DEF IInv, TypeOK, Owner, InRun, RunPcs, Idle, Go, Stop
<1>3. ASSUME NEW t \in Threads, RunAnchor(t) \/ RunScheduled(t) PROVE IInv'
  BY <1>3 DEF RunAnchor, RunScheduled
<1>4. ASSUME NEW t \in Threads, Step(t) PROVE IInv'
  <2>1. CASE PreRefresh(t)
    BY <2>1 DEF PreRefresh
  <2>2. CASE SkipActiveWindow(t)
    BY <2>2 DEF SkipActiveWindow
  <2>3. CASE LoadInputs(t)
    <3>1. CASE account.archived
      <4>1. task' = [task EXCEPT ![t] = Idle]
        BY <2>3, <3>1, Zenon DEF LoadInputs
      <4>2. UNCHANGED <<account, lock, running, createFailed, faults>>
        BY <2>3 DEF LoadInputs
      <4>3. task[t].pc = "load"
        BY <2>3 DEF LoadInputs
      <4> QED
        BY <4>1, <4>2, <4>3
    <3>2. CASE ~account.archived
      <4>1. PICK ready \in BOOLEAN : ready = account.connected
        BY <1>0
      <4>2. task' = [task EXCEPT ![t] = [pc |-> "lock", ready |-> ready,
                                         run |-> NoRun]]
        BY <2>3, <3>2, <4>1 DEF LoadInputs
      <4> QED
        BY <2>3, <4>2 DEF LoadInputs
    <3> QED
      BY <3>1, <3>2
  <2>4. CASE Acquire(t)
    BY <2>4 DEF Acquire
  <2>5. CASE Refuse(t)
    BY <2>5 DEF Refuse
  <2>6. CASE CreateRun(t)
    BY <2>6 DEF CreateRun
  <2>7. CASE CreateFails(t)
    BY <2>7 DEF CreateFails
  <2>8. CASE TurnReturns(t)
    BY <2>8 DEF TurnReturns
  <2>9. CASE TurnRaises(t)
    BY <2>9 DEF TurnRaises
  <2>10. CASE CompleteRun(t)
    BY <2>10 DEF CompleteRun
  <2>11. CASE CompleteFails(t)
    BY <2>11 DEF CompleteFails
  <2>12. CASE FailRun(t)
    BY <2>12 DEF FailRun
  <2>13. CASE FailFails(t)
    BY <2>13 DEF FailFails
  <2>14. CASE Release(t)
    BY <2>14 DEF Release
  <2>15. CASE PostRefresh(t)
    BY <2>15 DEF PostRefresh
  <2> QED
    BY <1>4, <2>1, <2>2, <2>3, <2>4, <2>5, <2>6, <2>7, <2>8, <2>9, <2>10,
       <2>11, <2>12, <2>13, <2>14, <2>15 DEF Step
<1>5. CASE UNCHANGED vars
  BY <1>5 DEF vars
<1> QED
  BY <1>1, <1>2, <1>3, <1>4, <1>5 DEF Next

(* The types, the owner and the bound of the bound variables hold always.  *)
THEOREM Invariance == Spec => []IInv
<1> QED
  BY InitIInv, NextIInv, PTL DEF Spec

(* Every variable has its type, and a thread carries a row exactly while   *)
(* its run has one.                                                        *)
THEOREM AnchorsTyped == Spec => []TypeOK
<1>1. IInv => TypeOK
  BY DEF IInv
<1> QED
  BY <1>1, Invariance, PTL

(* No two runs of an account overlap.                                      *)
THEOREM RunsNeverOverlap == Spec => []OneRunAtATime
<1>1. IInv => OneRunAtATime
  BY DEF IInv, Owner, OneRunAtATime
<1> QED
  BY <1>1, Invariance, PTL

(* The lock is held by a run that is under way, unless a row could not be  *)
(* created.                                                                *)
THEOREM LockIsHeldByARun == Spec => []HeldByItsRun
<1>1. IInv => HeldByItsRun
  BY DEF IInv, Owner, HeldByItsRun
<1> QED
  BY <1>1, Invariance, PTL

-----------------------------------------------------------------------------
(* What a set of rows that shrinks, or grows by one for a fault, counts.   *)
LEMMA FewerRows ==
  ASSUME TypeOK, TypeOK', Counted, Abandoned' \subseteq Abandoned, faults <= faults'
  PROVE  Counted'
<1>1. /\ IsFiniteSet(Abandoned') /\ Cardinality(Abandoned') <= Cardinality(Abandoned)
      /\ Cardinality(Abandoned) \in Nat /\ Cardinality(Abandoned') \in Nat
  BY FS_Subset, FS_CardinalityType DEF Counted
<1>2. faults \in Int /\ faults' \in Int
  BY BoundAssumption DEF TypeOK
<1> QED
  BY <1>1, <1>2 DEF Counted, AbandonedByFault

LEMMA OneMoreRow ==
  ASSUME TypeOK, TypeOK', Counted, NEW r, Abandoned' \subseteq Abandoned \cup {r},
         faults' = faults + 1
  PROVE  Counted'
<1>1. /\ IsFiniteSet(Abandoned \cup {r})
      /\ Cardinality(Abandoned \cup {r}) <= Cardinality(Abandoned) + 1
      /\ Cardinality(Abandoned) \in Nat
  BY FS_AddElement, FS_CardinalityType DEF Counted
<1>2. /\ IsFiniteSet(Abandoned')
      /\ Cardinality(Abandoned') <= Cardinality(Abandoned \cup {r})
      /\ Cardinality(Abandoned') \in Nat /\ Cardinality(Abandoned \cup {r}) \in Nat
  BY <1>1, FS_Subset, FS_CardinalityType
<1>3. faults \in Int /\ faults' \in Int
  BY BoundAssumption DEF TypeOK
<1> QED
  BY <1>1, <1>2, <1>3 DEF Counted, AbandonedByFault

LEMMA InitCounted == Init => Counted
<1> SUFFICES ASSUME Init PROVE Counted
  OBVIOUS
<1>1. Abandoned = {}
  BY DEF Init, Abandoned
<1> QED
  BY <1>1, FS_EmptySet DEF Init, Counted, AbandonedByFault

LEMMA NextCounted == IInv /\ IInv' /\ Counted /\ [Next]_vars => Counted'
<1> SUFFICES ASSUME IInv, IInv', Counted, [Next]_vars PROVE Counted'
  OBVIOUS
<1>0. TypeOK /\ TypeOK' /\ faults \in Int
  BY BoundAssumption DEF IInv, TypeOK
<1>1. CASE Restart
  <2> DEFINE r == task[lock].run
  <2>1. Abandoned' \subseteq Abandoned \cup {r}
    BY <1>0, <1>1 DEF Restart, Abandoned, IInv, Owner, InRun, RunPcs, Idle
  <2> QED
    BY <1>0, <1>1, <2>1, OneMoreRow DEF Restart
<1>2. ASSUME NEW t \in Threads, FailFails(t) PROVE Counted'
  <2>1. Abandoned' \subseteq Abandoned \cup {task[t].run}
    BY <1>0, <1>2 DEF FailFails, Go, Abandoned, TypeOK
  <2> QED
    BY <1>0, <1>2, <2>1, OneMoreRow DEF FailFails
<1>3. CASE UNCHANGED <<running, task, faults>>
  BY <1>0, <1>3, FewerRows DEF Abandoned
<1>4. ASSUME NEW t \in Threads, CreateRun(t) PROVE Counted'
  <2>1. Abandoned' \subseteq Abandoned
    BY <1>0, <1>4 DEF CreateRun, Abandoned, TypeOK, RunPcs
  <2> QED
    BY <1>0, <1>4, <2>1, FewerRows DEF CreateRun
<1>5. ASSUME NEW t \in Threads, CompleteRun(t) \/ FailRun(t) PROVE Counted'
  <2>1. Abandoned' \subseteq Abandoned
    BY <1>0, <1>5 DEF CompleteRun, FailRun, Go, Abandoned, TypeOK
  <2> QED
    BY <1>0, <1>5, <2>1, FewerRows DEF CompleteRun, FailRun
<1>6. ASSUME NEW t \in Threads,
             \/ RunAnchor(t) \/ RunScheduled(t) \/ PreRefresh(t)
             \/ SkipActiveWindow(t) \/ LoadInputs(t) \/ Acquire(t) \/ Refuse(t)
             \/ CreateFails(t) \/ TurnReturns(t) \/ TurnRaises(t)
             \/ CompleteFails(t) \/ Release(t) \/ PostRefresh(t)
      PROVE  Counted'
  <2>1. Abandoned' \subseteq Abandoned
    BY <1>0, <1>6
       DEF RunAnchor, RunScheduled, PreRefresh, SkipActiveWindow, LoadInputs,
           Acquire, Refuse, CreateFails, TurnReturns, TurnRaises, CompleteFails,
           Release, PostRefresh, Go, Stop, Idle, Abandoned, TypeOK
  <2>2. faults' = faults
    BY <1>6
       DEF RunAnchor, RunScheduled, PreRefresh, SkipActiveWindow, LoadInputs,
           Acquire, Refuse, CreateFails, TurnReturns, TurnRaises, CompleteFails,
           Release, PostRefresh
  <2> QED
    BY <1>0, <2>1, <2>2, FewerRows
<1> QED
  BY <1>1, <1>2, <1>3, <1>4, <1>5, <1>6 DEF Next, Step, ChangeAccount, vars

(* However many threads click and schedule, a row is left as "running"     *)
(* with nobody at work on it once for each fault at most.                  *)
THEOREM RunsAreEnded == Spec => []AbandonedByFault
<1>1. Counted => AbandonedByFault
  BY DEF Counted
<1> QED
  BY <1>1, InitCounted, NextCounted, Invariance, PTL DEF Spec

(* A row is left for every run: rows that say "running" are one per fault, *)
(* and one for the run that has the lock, so the finite set of rows that   *)
(* stands for the table keeps no run from being recorded.                  *)
RowLeft == \A t \in Threads : task[t].pc = "create" => Runs \ running # {}

THEOREM RowsSuffice ==
  ASSUME IsFiniteSet(Runs) => Cardinality(Runs) > MaxFaults
  PROVE  Spec => []RowLeft
<1>1. IInv /\ Counted => RowLeft
  <2> SUFFICES ASSUME IInv, Counted, NEW t \in Threads, task[t].pc = "create",
                      Runs \subseteq running
               PROVE  FALSE
    BY DEF RowLeft
  <2>1. Abandoned = running
    BY DEF IInv, Owner, InRun, RunPcs, Abandoned
  <2>2. Runs = running
    BY DEF IInv, TypeOK
  <2>3. IsFiniteSet(Runs) /\ Cardinality(Runs) <= faults
    BY <2>1, <2>2 DEF Counted, AbandonedByFault
  <2>4. faults \in Int /\ faults <= MaxFaults /\ MaxFaults \in Int
    BY BoundAssumption DEF IInv, TypeOK
  <2>5. Cardinality(Runs) \in Nat
    BY <2>3, FS_CardinalityType
  <2>. QED
    BY <2>3, <2>4, <2>5
<1>. QED
  BY <1>1, InitCounted, NextCounted, Invariance, PTL DEF Spec

-----------------------------------------------------------------------------
(* A lock whose row could not be created is lost: its thread has gone and  *)
(* nobody else may release it, so every later run of the account is refused *)
(* as already running, and only a restart of the process ends that.        *)
LockLost == lock # NoOne /\ ~InRun(lock)
LockStaysLost == [][LockLost => LockLost' \/ Restart]_vars

THEOREM LostLockLastsUntilRestart == Spec => LockStaysLost
<1>1. IInv /\ [Next]_vars => [LockLost => LockLost' \/ Restart]_vars
  <2> SUFFICES ASSUME IInv, [Next]_vars, LockLost, ~Restart
               PROVE  LockLost'
    OBVIOUS
  <2>1. \A t \in Threads : ~InRun(t)
    BY DEF LockLost, IInv, Owner
  <2> USE NamesAssumption
      DEF LockLost, IInv, TypeOK, InRun, RunPcs, Idle, Go, Stop
  <2>2. CASE ChangeAccount
    BY <2>2 DEF ChangeAccount
  <2>3. ASSUME NEW t \in Threads, RunAnchor(t) \/ RunScheduled(t)
        PROVE  LockLost'
    BY <2>3 DEF RunAnchor, RunScheduled
  <2>4. ASSUME NEW t \in Threads,
               \/ PreRefresh(t) \/ SkipActiveWindow(t) \/ LoadInputs(t)
               \/ Acquire(t) \/ Refuse(t) \/ PostRefresh(t)
        PROVE  LockLost'
    BY <2>4 DEF PreRefresh, SkipActiveWindow, LoadInputs, Acquire, Refuse,
                PostRefresh
  <2>5. ASSUME NEW t \in Threads
        PROVE  ~(\/ CreateRun(t) \/ CreateFails(t) \/ TurnReturns(t)
                 \/ TurnRaises(t) \/ CompleteRun(t) \/ CompleteFails(t)
                 \/ FailRun(t) \/ FailFails(t) \/ Release(t))
    BY <2>1 DEF CreateRun, CreateFails, TurnReturns, TurnRaises, CompleteRun,
                CompleteFails, FailRun, FailFails, Release
  <2>6. CASE UNCHANGED vars
    BY <2>6 DEF vars
  <2>. QED
    BY <2>2, <2>3, <2>4, <2>5, <2>6 DEF Next, Step
<1>. QED
  BY <1>1, Invariance, PTL DEF Spec, LockStaysLost
=============================================================================
