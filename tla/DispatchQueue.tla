---------------------------- MODULE DispatchQueue ----------------------------
(***************************************************************************)
(* The work queue of supervisor() in spartan.cpp, which the launcher and   *)
(* the supervisor process each have a copy of: dispatch_msg_queue, filled  *)
(* by the main thread and emptied by the de-queue thread under the timed   *)
(* mutex qm, with the condition variable qcv, and child_process_count,     *)
(* which bounds what the de-queue thread may take.                         *)
(*                                                                         *)
(* The actions say what happens to these variables only; Launcher and      *)
(* Supervisor extend this module, add the state of their process and what  *)
(* is done with a message taken from the queue.                            *)
(***************************************************************************)
EXTENDS Integers, Sequences

CONSTANT
  MaxCount   \* child_process_max_count

ASSUME MaxCountAssumption == MaxCount \in Nat \ {0}

VARIABLES
  qm,        \* holder of the timed mutex qm
  queue,     \* dispatch_msg_queue
  qready,    \* there is work for the de-queue thread
  notified,  \* the waiting de-queue thread was notified through qcv
  dpc,       \* where the de-queue thread is
  headroom,  \* count_headroom
  batch,     \* msg_array_sp: the messages taken and not handled yet
  count      \* child_process_count

lockVars == <<qm, queue, qready, notified>>
takeVars == <<dpc, headroom, batch>>
queueVars == <<lockVars, takeVars, count>>

DQInit ==
  /\ qm = "free" /\ queue = <<>> /\ qready = FALSE /\ notified = FALSE
  /\ dpc = "lock" /\ headroom = 0 /\ batch = <<>>
  /\ count = 1              \* the process of the Java main() method

\* notify_one() reaches the de-queue thread if it waits, and is lost if it does not.
Notify == notified' = (notified \/ dpc = "wait")

-----------------------------------------------------------------------------
(* en_queue_dispatch_msg, on the main thread.                              *)

LockForEnqueue ==
  /\ qm = "free"
  /\ qm' = "main"
  /\ UNCHANGED <<queue, qready, notified, takeVars, count>>

\* Variant: the message is put in front of those that wait already.
EnqueueInFront(m) ==
  /\ queue' = <<m>> \o queue
  /\ qready' = TRUE
  /\ Notify
  /\ qm' = "free"
  /\ UNCHANGED <<takeVars, count>>

Enqueue(m) ==
  /\ queue' = Append(queue, m)
  /\ qready' = TRUE
  /\ Notify
  /\ qm' = "free"
  /\ UNCHANGED <<takeVars, count>>

\* Variant: the slot is freed under the lock only.
FreeSlotIfUnlocked == count' = IF qm = "free" THEN count - 1 ELSE count

FreeSlot == count' = count - 1

\* child_process_completion: with the lock, also notify the de-queue thread if the
\* pool was not full; without it, only free the slot.
Completion ==
  /\ FreeSlot
  /\ IF qm = "free" /\ count < MaxCount /\ queue # <<>>
     THEN qready' = TRUE /\ Notify
     ELSE UNCHANGED <<qready, notified>>
  /\ UNCHANGED <<qm, queue, takeVars>>

-----------------------------------------------------------------------------
(***************************************************************************)
(* One round of the de-queue thread.  Its wait ends when the predicate     *)
(* holds, or after two seconds whatever the predicate says ("lasttest");   *)
(* either way the headroom it goes on with is what the last test computed, *)
(* and count may have gone down since.                                     *)
(***************************************************************************)
DequeueLock ==
  /\ dpc = "lock"
  /\ qm = "free"
  /\ qm' = "dequeue"
  /\ dpc' = "test"
  /\ UNCHANGED <<queue, qready, notified, headroom, batch, count>>

\* Variant: off by one.
HeadroomPlusOne == MaxCount - count + 1

Headroom == MaxCount - count

\* Variant: a wait that timed out without work starts over.
WaitEndsWithWork == qready /\ headroom' > 0

WaitEnds == (qready /\ headroom' > 0) \/ dpc = "lasttest"

DequeueTest ==
  /\ dpc \in {"test", "lasttest"}
  /\ headroom' = Headroom
  /\ IF WaitEnds
     THEN dpc' = "take" /\ UNCHANGED qm
     ELSE dpc' = "wait" /\ qm' = "free"
  /\ UNCHANGED <<queue, qready, notified, batch, count>>

DequeueNotified ==
  /\ dpc = "wait"
  /\ notified
  /\ qm = "free"
  /\ qm' = "dequeue"
  /\ dpc' = "test"
  /\ notified' = FALSE
  /\ UNCHANGED <<queue, qready, headroom, batch, count>>

DequeueTimeout ==
  /\ dpc = "wait"
  /\ qm = "free"
  /\ qm' = "dequeue"
  /\ dpc' = "lasttest"
  /\ notified' = FALSE
  /\ UNCHANGED <<queue, qready, headroom, batch, count>>

BatchSize == IF Len(queue) > headroom THEN headroom ELSE Len(queue)

DequeueTake ==
  /\ dpc = "take"
  /\ qready' = FALSE
  /\ qm' = "free"
  /\ headroom' = 0
  /\ IF BatchSize > 0
     THEN /\ batch' = SubSeq(queue, 1, BatchSize)
          /\ queue' = SubSeq(queue, BatchSize + 1, Len(queue))
          /\ count' = count + BatchSize
          /\ dpc' = "handle"
     ELSE dpc' = "lock" /\ UNCHANGED <<batch, queue, count>>
  /\ UNCHANGED notified

\* Where the thread goes when the messages left in its batch are rest.
AfterHandling(rest) == IF rest = <<>> THEN "lock" ELSE "handle"
===============================================================================
