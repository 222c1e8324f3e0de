---------------------------- MODULE RecoverySlot ----------------------------
(***************************************************************************)
(* What the daily-anchor recovery of services/scheduler.py promises for one *)
(* account, with no job store, lock, claim, generation check or reload:     *)
(* a slot that holds at most one retry, and turns that are kept apart until *)
(* the delay of a collided retry fails.                                     *)
(* RecoveryScheduler implements it (its RefinesSlot).                       *)
(***************************************************************************)
EXTENDS Integers

CONSTANTS
  Threads,      \* who may have a turn
  Retries,      \* identities of retries
  Daily,        \* the identity of a fixed daily job
  Nobody,       \* no turn
  Empty,        \* the slot without a retry
  Accounts,     \* account states
  NewAccount,   \* the account at first
  OffTimes      \* instants on a weekday the schedule leaves out

VARIABLES
  now,          \* the wall clock
  account,      \* Account and AccountSchedule
  slot,         \* the one pending retry, [gen, due, collisions], or Empty
  turn,         \* whose provider turn each thread is in
  apart         \* are turns kept apart?

slotVars == <<now, account, slot, turn, apart>>

Slots == [gen : Retries, due : Nat, collisions : 0..1]
Quiet == [t \in Threads |-> Nobody]

Eligible(t) ==
  account.lifecycle = "active" /\ account.connected /\ t \notin OffTimes

(* The turn of thread t may settle the slot: it is a daily turn, or the    *)
(* turn of the pending retry.                                              *)
OwnTurn(t) == turn[t] = Daily \/ (slot # Empty /\ turn[t] = slot.gen)

Stop(t) == turn' = [turn EXCEPT ![t] = Nobody]

(* Once nobody is in a turn, turns may be kept apart again.                *)
MayMend == apart' = apart \/ (apart' = TRUE /\ turn' = Quiet)

-----------------------------------------------------------------------------
Init ==
  /\ now = 0
  /\ account = NewAccount
  /\ slot = Empty
  /\ turn = Quiet
  /\ apart = TRUE

Pass == now' = now + 1 /\ UNCHANGED <<account, slot, turn, apart>>

AccountChanges ==
  account' \in Accounts /\ UNCHANGED <<now, slot, turn, apart>>

(* A daily turn of an account that is neither paused nor archived, or the  *)
(* turn of the pending retry, once due, of an account that may have it;    *)
(* while turns are kept apart, no other is under way.                      *)
Begins(t, who) ==
  /\ apart => turn = Quiet
  /\ \/ who = Daily /\ account.lifecycle \notin {"paused", "archived"}
     \/ slot # Empty /\ who = slot.gen /\ slot.due <= now /\ Eligible(now)
  /\ turn' = [turn EXCEPT ![t] = who]
  /\ UNCHANGED <<now, account, slot, apart>>

(* A turn that settles nothing: it failed, collided, or found a later      *)
(* retry pending.                                                          *)
Ends(t) == Stop(t) /\ MayMend /\ UNCHANGED <<now, account, slot>>

(* The process ends, and every turn with it.                               *)
ProcessEnds ==
  turn' = Quiet /\ apart' = TRUE /\ UNCHANGED <<now, account, slot>>

(* A turn that settles the retry: the daily turn, or the retry's own.      *)
Settles(t) ==
  /\ OwnTurn(t)
  /\ slot' = Empty /\ Stop(t) /\ MayMend
  /\ UNCHANGED <<now, account>>

(* A retry nobody's turn settles is only dropped once due, or when its     *)
(* account may not have it.                                                *)
Lapses ==
  /\ slot # Empty
  /\ slot.due <= now \/ ~Eligible(slot.due)
  /\ slot' = Empty
  /\ MayMend
  /\ UNCHANGED <<now, account, turn>>

(* The turn was blocked: the retry is placed, or replaced by a later one.  *)
Reschedules(t) ==
  /\ OwnTurn(t)
  /\ slot' \in Slots /\ slot'.collisions = 0
  /\ slot # Empty => slot'.gen # slot.gen /\ slot'.due > slot.due
  /\ Stop(t)
  /\ UNCHANGED <<now, account, apart>>

(* A due retry is moved: after a collision, once, or at a restart.         *)
Postpones ==
  /\ slot # Empty /\ slot.due <= now
  /\ slot' \in Slots /\ slot'.gen # slot.gen
  /\ slot'.due >= now /\ slot'.due > slot.due
  /\ slot'.collisions \in {slot.collisions, slot.collisions + 1}
  /\ UNCHANGED <<now, account, turn, apart>>

(* A retry moved by a collision could not be given its job: turns are kept *)
(* apart no longer.                                                        *)
Breaks ==
  /\ slot # Empty /\ slot.collisions = 1
  /\ apart' = FALSE
  /\ UNCHANGED <<now, account, slot, turn>>

(* What kept turns from being kept apart is over.                          *)
Mends == MayMend /\ UNCHANGED <<now, account, slot, turn>>

Next ==
  \/ Pass \/ AccountChanges \/ ProcessEnds \/ Lapses \/ Postpones
  \/ Breaks \/ Mends
  \/ \E t \in Threads : Ends(t) \/ Settles(t) \/ Reschedules(t)
  \/ \E t \in Threads, who \in Retries \cup {Daily} : Begins(t, who)

Spec == Init /\ [][Next]_slotVars
=============================================================================
