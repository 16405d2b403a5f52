----------------------------- MODULE QueueCalls -----------------------------
(***************************************************************************)
(* The vocabulary of the FreeRTOS queue API that the radio payload calls:  *)
(* which calls exist, what a caller passes, and the constants that size    *)
(* one queue.  It is shared by the abstract queue (AtomicQueue) and by the *)
(* implementation over a ring buffer and a Linux wait object (S31Queue).   *)
(***************************************************************************)
EXTENDS Integers, Sequences

CONSTANTS
  Tasks,      \* the contexts that call the queue: payload tasks, radio worker
  Items,      \* the payloads a queue slot can hold
  NoItem,     \* an empty out-buffer, or a slot never written
  NoCall,     \* a context that is not inside a queue call
  Capacity,   \* queue_len given to xQueueGenericCreate
  Offers      \* Offers[p]: the calls context p makes

\* The three `copy' modes of xQueueGenericSend.
SendOps == {"back", "front", "overwrite"}

Ops == SendOps \cup {"receive", "reset"}

(***************************************************************************)
(* The `timeout' argument, by what the code tells apart: 0, portMAX_DELAY, *)
(* anything else, and "isr" for the FromISR entry points, which have none. *)
(***************************************************************************)
Timeouts == {"isr", "zero", "finite", "forever"}

Call == [op : Ops, item : Items \cup {NoItem}, timeout : Timeouts]

\* Calls that may sleep; a reset never does.
MayBlock(c) == c.timeout \in {"finite", "forever"}

ASSUME CapacityAssumption == Capacity \in Nat \ {0}

ASSUME NoneAssumption == NoItem \notin Items /\ NoCall \notin Call

\* Senders pass an item, nobody else does, and a reset cannot wait.
ASSUME OffersAssumption ==
  /\ Offers \in [Tasks -> SUBSET Call]
  /\ \A p \in Tasks : \A c \in Offers[p] :
        /\ c.op \in SendOps <=> c.item \in Items
        /\ c.op = "reset" => c.timeout = "zero"
=============================================================================
