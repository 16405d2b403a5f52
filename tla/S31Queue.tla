------------------------------ MODULE S31Queue ------------------------------
(***************************************************************************)
(* The S31_Q_TYPE_QUEUE half of radio_firmware/s31_rtos/s31_rtos_queue.c:  *)
(* a ring buffer guarded by the lock of a Linux wait object.               *)
(*                                                                         *)
(* A call is the loop of xQueueGenericSend and xQueueReceive: sample the   *)
(* wait object's sequence, then under its lock test and update the ring;   *)
(* on success wake everybody AFTER the unlock, on failure give up or sleep *)
(* on the sample and start over when woken.  A step of the model is one    *)
(* locked block, one sample or one wake; the blob gate that serialises     *)
(* payload code between waits is not assumed, so every interleaving of     *)
(* these steps is covered.                                                 *)
(***************************************************************************)
EXTENDS QueueCalls, S31Sync

VARIABLES
  store,   \* the item slots
  head,    \* q->head: index of the oldest item
  count,   \* q->count
  pc,      \* where each context is in its call
  call,    \* the arguments of its call
  got      \* the caller's out-buffer, from the copy until the return

ring == <<store, head, count>>
vars == <<store, head, count, pc, call, got, fresh>>

Slots == 0 .. Capacity - 1

PCs == {"idle",    \* outside the queue API
        "check",   \* sample taken, about to lock and test
        "wait",    \* inside s31_linux_sync_wait
        "wake"}    \* ring updated and unlocked, s31_linux_sync_wake to come

TypeOK == /\ store \in [Slots -> Items \cup {NoItem}]
          /\ head \in Slots
          /\ count \in 0 .. Capacity
          /\ pc \in [Tasks -> PCs]
          /\ call \in [Tasks -> Call \cup {NoCall}]
          /\ got \in [Tasks -> Items \cup {NoItem}]
          /\ fresh \in SUBSET Tasks

\* xQueueGenericCreate: s31_queue_init zeroes head and count.
Init == /\ store = [i \in Slots |-> NoItem]
        /\ head = 0
        /\ count = 0
        /\ pc = [p \in Tasks |-> "idle"]
        /\ call = [p \in Tasks |-> NoCall]
        /\ got = [p \in Tasks |-> NoItem]
        /\ SyncInit

-----------------------------------------------------------------------------
(* The ring, as updated under the lock *)

Full == count >= Capacity

\* Faulty: the tail slot is computed from the count alone.
SendSlotIgnoresHead(copy) ==
  CASE copy = "front"              -> (head + Capacity - 1) % Capacity
    [] copy = "overwrite" /\ Full  -> head
    [] OTHER                       -> count % Capacity

\* idx: the slot s31_queue_send_locked writes.
SendSlot(copy) ==
  CASE copy = "front"              -> (head + Capacity - 1) % Capacity
    [] copy = "overwrite" /\ Full  -> head
    [] OTHER                       -> (head + count) % Capacity

\* Where s31_queue_send_locked leaves the head.
SendHead(copy) ==
  CASE copy = "front"              -> (head + Capacity - 1) % Capacity
    [] copy = "overwrite" /\ Full  -> (head + 1) % Capacity
    [] OTHER                       -> head

s31_queue_send_locked(copy, x) ==
  /\ store' = [store EXCEPT ![SendSlot(copy)] = x]
  /\ head' = SendHead(copy)
  /\ count' = IF Full THEN count ELSE count + 1

s31_queue_take_locked(p) ==
  /\ got' = [got EXCEPT ![p] = store[head]]
  /\ head' = (head + 1) % Capacity
  /\ count' = count - 1
  /\ UNCHANGED store

-----------------------------------------------------------------------------
(* Entering a call *)

Begin(p, c) == /\ pc[p] = "idle"
               /\ pc' = [pc EXCEPT ![p] = "check"]
               /\ call' = [call EXCEPT ![p] = c]
               /\ UNCHANGED <<store, head, count, got>>

xQueueGenericSend(p) ==
  \E c \in Offers[p] : /\ c.op \in SendOps /\ c.timeout # "isr"
                       /\ Begin(p, c)
                       /\ SyncSequence(p)

xQueueReceive(p) ==
  \E c \in Offers[p] : /\ c.op = "receive" /\ c.timeout # "isr"
                       /\ Begin(p, c)
                       /\ SyncSequence(p)

\* The FromISR variants and the reset never wait and take no sample.
xQueueGenericSendFromISR(p) ==
  \E c \in Offers[p] : /\ c.op \in SendOps /\ c.timeout = "isr"
                       /\ Begin(p, c)
                       /\ UNCHANGED fresh

xQueueReceiveFromISR(p) ==
  \E c \in Offers[p] : /\ c.op = "receive" /\ c.timeout = "isr"
                       /\ Begin(p, c)
                       /\ UNCHANGED fresh

xQueueGenericReset(p) ==
  \E c \in Offers[p] : /\ c.op = "reset"
                       /\ Begin(p, c)
                       /\ UNCHANGED fresh

-----------------------------------------------------------------------------
(* The locked block and what follows it *)

\* The predicate tested under the lock.
Ready(c) == CASE c.op = "receive"           -> count # 0
              [] c.op \in {"back", "front"} -> ~Full
              [] OTHER                      -> TRUE

\* Back in the caller, whose locals and sample are gone.
Leave(p) == /\ pc' = [pc EXCEPT ![p] = "idle"]
            /\ call' = [call EXCEPT ![p] = NoCall]
            /\ got' = [got EXCEPT ![p] = NoItem]

SendApplied(p) ==
  /\ pc[p] = "check" /\ call[p].op \in SendOps /\ Ready(call[p])
  /\ s31_queue_send_locked(call[p].op, call[p].item)
  /\ pc' = [pc EXCEPT ![p] = "wake"]
  /\ UNCHANGED <<call, got, fresh>>

ReceiveApplied(p) ==
  /\ pc[p] = "check" /\ call[p].op = "receive" /\ Ready(call[p])
  /\ s31_queue_take_locked(p)
  /\ pc' = [pc EXCEPT ![p] = "wake"]
  /\ UNCHANGED <<call, fresh>>

\* Waiters are woken, as for a queue that is not new (`new_queue'): the macro
\* xQueueReset of FreeRTOS passes pdFALSE.
ResetApplied(p) ==
  /\ pc[p] = "check" /\ call[p].op = "reset"
  /\ head' = 0
  /\ count' = 0
  /\ pc' = [pc EXCEPT ![p] = "wake"]
  /\ UNCHANGED <<store, call, got, fresh>>

\* pdFAIL without sleeping: FromISR, timeout 0, or s31_wait_remaining is 0.
Refused(p) ==
  /\ pc[p] = "check" /\ ~Ready(call[p]) /\ call[p].timeout # "forever"
  /\ Leave(p)
  /\ SyncForget(p)
  /\ UNCHANGED ring

\* Faulty: the sequence is sampled when going to sleep, and the outcome of the
\* test is out of date by then.
ParkResampling(p) ==
  /\ pc[p] = "check" /\ MayBlock(call[p])
  /\ pc' = [pc EXCEPT ![p] = "wait"]
  /\ UNCHANGED <<store, head, count, call, got>>
  /\ SyncSequence(p)

\* The call enters s31_linux_sync_wait with the sample taken before the test.
Park(p) ==
  /\ pc[p] = "check" /\ ~Ready(call[p]) /\ MayBlock(call[p])
  /\ pc' = [pc EXCEPT ![p] = "wait"]
  /\ UNCHANGED <<store, head, count, call, got, fresh>>

\* waited > 0: back to the top of the loop, which samples again.
Woken(p) ==
  /\ pc[p] = "wait" /\ SyncMoved(p)
  /\ pc' = [pc EXCEPT ![p] = "check"]
  /\ SyncSequence(p)
  /\ UNCHANGED <<store, head, count, call, got>>

\* waited = 0: pdFAIL, without looking at the ring again.
TimedOut(p) ==
  /\ pc[p] = "wait" /\ call[p].timeout = "finite"
  /\ Leave(p)
  /\ SyncForget(p)
  /\ UNCHANGED ring

\* waited < 0: the bridge interrupted the wait.
Interrupted(p) ==
  /\ pc[p] = "wait"
  /\ Leave(p)
  /\ SyncForget(p)
  /\ UNCHANGED ring

\* Faulty: only a receive wakes the waiters.
WakeUnlessSend(p) ==
  /\ pc[p] = "wake"
  /\ Leave(p)
  /\ IF call[p].op \in SendOps THEN SyncForget(p) ELSE SyncWake
  /\ UNCHANGED ring

\* s31_linux_sync_wake after the unlock, then the return.
Wake(p) ==
  /\ pc[p] = "wake"
  /\ Leave(p)
  /\ SyncWake
  /\ UNCHANGED ring

-----------------------------------------------------------------------------

Enter(p) == \/ xQueueGenericSend(p)        \/ xQueueReceive(p)
            \/ xQueueGenericSendFromISR(p) \/ xQueueReceiveFromISR(p)
            \/ xQueueGenericReset(p)

Locked(p) == \/ SendApplied(p) \/ ReceiveApplied(p) \/ ResetApplied(p)
             \/ Refused(p) \/ Park(p)

Next == \E p \in Tasks : \/ Enter(p) \/ Locked(p) \/ Woken(p)
                         \/ TimedOut(p) \/ Interrupted(p) \/ Wake(p)

Spec == Init /\ [][Next]_vars

(***************************************************************************)
(* A context inside a call runs on: Linux schedules its thread, the lock   *)
(* is only held for straight-line code, and a released waiter resumes.     *)
(* Nothing forces a context to call, a wait to time out or to be           *)
(* interrupted.                                                            *)
(***************************************************************************)
Fairness == \A p \in Tasks : /\ WF_vars(Locked(p))
                             /\ WF_vars(Woken(p))
                             /\ WF_vars(Wake(p))

FairSpec == Spec /\ Fairness

-----------------------------------------------------------------------------
(* Properties *)

Waiting(p, ops) == pc[p] = "wait" /\ call[p].op \in ops

WakePending == \E p \in Tasks : pc[p] = "wake"

(***************************************************************************)
(* "The Linux bridge sequence prevents a lost wake" (the comment in        *)
(* xQueueGenericSend): a context asleep on an up-to-date sample, one that  *)
(* no wake has been issued for, has nothing to do, or the context that     *)
(* changed the ring has its wake still to issue.  Otherwise an item sits   *)
(* in the queue while its receiver sleeps, or a slot while its sender does.*)
(***************************************************************************)
NoLostWake ==
  \A p \in fresh :
     /\ Waiting(p, {"receive"}) => count = 0 \/ WakePending
     /\ Waiting(p, {"back", "front"}) => count = Capacity \/ WakePending

(***************************************************************************)
(* The items between head and head + count, oldest first, and the abstract *)
(* queue they implement: each call of xQueueGenericSend, xQueueReceive,    *)
(* their FromISR variants and xQueueGenericReset is atomic, keeps FIFO     *)
(* order (front and overwrite as documented for FreeRTOS), neither loses   *)
(* nor duplicates an item, and a failed call changes nothing.              *)
(***************************************************************************)
RingSeq(st, h, n) == [i \in 1 .. n |-> st[(h + i - 1) % Capacity]]

Contents == RingSeq(store, head, count)

Atomic == INSTANCE AtomicQueue
            WITH items <- Contents,
                 req <- call,
                 done <- [p \in Tasks |-> pc[p] = "wake"]

\* The ring-buffer queue implements the atomic queue.
AtomicSpec == Atomic!Spec

Calling(p, ops) == pc[p] \in {"check", "wait"} /\ call[p].op \in ops

(***************************************************************************)
(* A receiver inside xQueueReceive while an item is queued returns, or     *)
(* somebody else empties the queue: no item is left to a sleeping          *)
(* receiver.  Likewise a blocked sender once the queue has room.           *)
(***************************************************************************)
CallersServed ==
  \A p \in Tasks :
     /\ Calling(p, {"receive"}) /\ count # 0
          ~> ~Calling(p, {"receive"}) \/ count = 0
     /\ Calling(p, {"back", "front"}) /\ ~Full
          ~> ~Calling(p, {"back", "front"}) \/ Full
=============================================================================
