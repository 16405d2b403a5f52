---------------------------- MODULE S31Semaphore ----------------------------
(***************************************************************************)
(* The semaphore half of radio_firmware/s31_rtos/s31_rtos_queue.c: mutexes *)
(* (plain and recursive, which the code does not tell apart) and counting  *)
(* semaphores, taken by xQueueSemaphoreTake and given by xQueueGenericSend,*)
(* xQueueGiveMutexRecursive or xQueueGiveFromISR.  A FreeRTOS binary       *)
(* semaphore, a queue of length one without items, is the counting         *)
(* semaphore of capacity one.                                              *)
(*                                                                         *)
(* As in S31Queue a step is one locked block, one sample of the wait       *)
(* object's sequence or one wake, and the blob gate is not assumed.        *)
(***************************************************************************)
EXTENDS Integers, S31Sync

CONSTANTS
  Tasks,      \* the task control blocks that call; the radio worker is one
  NoTask,     \* q->owner = NULL
  MaxTokens,  \* bound: the largest maximum of a counting semaphore
  MaxDepth    \* bound: how deep one task nests takes of a mutex

ASSUME TokenAssumption == MaxTokens \in Nat \ {0}

ASSUME TaskAssumption == NoTask \notin Tasks /\ MaxDepth \in Nat \ {0}

VARIABLES
  obj,       \* q->type and q->length, fixed when the object is created
  owner,     \* q->owner
  depth,     \* q->depth: takes of the owner not yet given back
  count,     \* q->count: tokens of a semaphore; 1 while a mutex is held
  pc,        \* where each task is in its call
  op,        \* the call it is in
  timeout,   \* the timeout it passed
  held       \* history: successful takes less successful gives of each task

vars == <<obj, owner, depth, count, pc, op, timeout, held, fresh>>

PCs == {"idle", "check", "wait", "wake"}
CallOps == {"none", "take", "give", "giveRecursive", "giveISR"}
Timeouts == {"zero", "finite", "forever"}

\* A mutex has length 1, a counting semaphore any maximum but 0.
Objects == [kind : {"mutex"}, capacity : {1}]
             \cup [kind : {"sem"}, capacity : 1 .. MaxTokens]

Kind == obj.kind
Capacity == obj.capacity

TypeOK == /\ obj \in Objects
          /\ owner \in Tasks \cup {NoTask}
          /\ depth \in 0 .. MaxDepth
          /\ count \in 0 .. Capacity
          /\ pc \in [Tasks -> PCs]
          /\ op \in [Tasks -> CallOps]
          /\ timeout \in [Tasks -> Timeouts]
          /\ held \in [Tasks -> 0 .. MaxDepth]
          /\ fresh \in SUBSET Tasks

\* xQueueCreateMutex, or xQueueCreateCountingSemaphore with initial <= max.
Init == /\ obj \in Objects
        /\ owner = NoTask
        /\ depth = 0
        /\ count \in IF Kind = "mutex" THEN {0} ELSE 0 .. Capacity
        /\ pc = [p \in Tasks |-> "idle"]
        /\ op = [p \in Tasks |-> "none"]
        /\ timeout = [p \in Tasks |-> "zero"]
        /\ held = [p \in Tasks |-> 0]
        /\ SyncInit

lockState == <<obj, owner, depth, count, held>>

-----------------------------------------------------------------------------
(* Entering a call *)

Begin(p, o, t) == /\ pc[p] = "idle"
                  /\ pc' = [pc EXCEPT ![p] = "check"]
                  /\ op' = [op EXCEPT ![p] = o]
                  /\ timeout' = [timeout EXCEPT ![p] = t]
                  /\ UNCHANGED lockState

\* Also xQueueTakeMutexRecursive, which only forwards.
xQueueSemaphoreTake(p) == /\ held[p] < MaxDepth
                          /\ \E t \in Timeouts : Begin(p, "take", t)
                          /\ SyncSequence(p)

\* xQueueGenericSend on a mutex or semaphore: the timeout is never used.
xSemaphoreGive(p) == Begin(p, "give", "zero") /\ SyncSequence(p)

xQueueGiveMutexRecursive(p) ==
  Kind = "mutex" /\ Begin(p, "giveRecursive", "zero") /\ UNCHANGED fresh

xQueueGiveFromISR(p) == Begin(p, "giveISR", "zero") /\ UNCHANGED fresh

-----------------------------------------------------------------------------
(* The locked blocks *)

CanTake(p) == IF Kind = "mutex" THEN owner = p \/ (owner = NoTask /\ count = 0)
                                ELSE count # 0

CanGive(p) == IF Kind = "mutex" THEN op[p] # "giveISR" /\ owner = p /\ depth # 0
                                ELSE count < Capacity

Can(p) == IF op[p] = "take" THEN CanTake(p) ELSE CanGive(p)

Leave(p) == /\ pc' = [pc EXCEPT ![p] = "idle"]
            /\ op' = [op EXCEPT ![p] = "none"]
            /\ timeout' = [timeout EXCEPT ![p] = "zero"]

\* A mutex taken again by its owner, or taken free; no wake follows.
MutexTaken(p) ==
  /\ pc[p] = "check" /\ op[p] = "take" /\ Kind = "mutex" /\ CanTake(p)
  /\ IF owner = p THEN depth' = depth + 1 /\ UNCHANGED <<owner, count>>
                  ELSE owner' = p /\ depth' = 1 /\ count' = 1
  /\ UNCHANGED obj
  /\ held' = [held EXCEPT ![p] = @ + 1]
  /\ Leave(p)
  /\ SyncForget(p)

SemaphoreTaken(p) ==
  /\ pc[p] = "check" /\ op[p] = "take" /\ Kind = "sem" /\ CanTake(p)
  /\ count' = count - 1
  /\ pc' = [pc EXCEPT ![p] = "wake"]
  /\ UNCHANGED <<obj, owner, depth, op, timeout, held, fresh>>

\* Faulty: the first give frees a mutex taken several times.
MutexGivenAtOnce(p) ==
  /\ pc[p] = "check" /\ op[p] # "take" /\ Kind = "mutex" /\ CanGive(p)
  /\ owner' = NoTask /\ depth' = 0 /\ count' = 0
  /\ held' = [held EXCEPT ![p] = @ - 1]
  /\ pc' = [pc EXCEPT ![p] = "wake"]
  /\ UNCHANGED <<obj, op, timeout, fresh>>

\* Faulty: the owner is cleared but not the count, so that the mutex is never free.
MutexGivenCountKept(p) ==
  /\ pc[p] = "check" /\ op[p] # "take" /\ Kind = "mutex" /\ CanGive(p)
  /\ depth' = depth - 1
  /\ owner' = IF depth = 1 THEN NoTask ELSE owner
  /\ held' = [held EXCEPT ![p] = @ - 1]
  /\ pc' = [pc EXCEPT ![p] = "wake"]
  /\ UNCHANGED <<obj, count, op, timeout, fresh>>

\* The last give clears owner and count; every give is followed by a wake.
MutexGiven(p) ==
  /\ pc[p] = "check" /\ op[p] # "take" /\ Kind = "mutex" /\ CanGive(p)
  /\ depth' = depth - 1
  /\ owner' = IF depth = 1 THEN NoTask ELSE owner
  /\ count' = IF depth = 1 THEN 0 ELSE count
  /\ held' = [held EXCEPT ![p] = @ - 1]
  /\ pc' = [pc EXCEPT ![p] = "wake"]
  /\ UNCHANGED <<obj, op, timeout, fresh>>

SemaphoreGiven(p) ==
  /\ pc[p] = "check" /\ op[p] # "take" /\ Kind = "sem" /\ CanGive(p)
  /\ count' = count + 1
  /\ pc' = [pc EXCEPT ![p] = "wake"]
  /\ UNCHANGED <<obj, owner, depth, op, timeout, held, fresh>>

\* pdFAIL: a give is never queued, a take fails with timeout 0 or none left.
Refused(p) ==
  /\ pc[p] = "check" /\ ~Can(p) /\ timeout[p] # "forever"
  /\ Leave(p)
  /\ SyncForget(p)
  /\ UNCHANGED lockState

Park(p) ==
  /\ pc[p] = "check" /\ ~Can(p) /\ timeout[p] # "zero"
  /\ pc' = [pc EXCEPT ![p] = "wait"]
  /\ UNCHANGED <<obj, owner, depth, count, held, op, timeout, fresh>>

Woken(p) ==
  /\ pc[p] = "wait" /\ SyncMoved(p)
  /\ pc' = [pc EXCEPT ![p] = "check"]
  /\ SyncSequence(p)
  /\ UNCHANGED <<obj, owner, depth, count, held, op, timeout>>

TimedOut(p) ==
  /\ pc[p] = "wait" /\ timeout[p] = "finite"
  /\ Leave(p)
  /\ SyncForget(p)
  /\ UNCHANGED lockState

Interrupted(p) ==
  /\ pc[p] = "wait"
  /\ Leave(p)
  /\ SyncForget(p)
  /\ UNCHANGED lockState

\* Faulty: the recursive give forgets the wake.
WakeUnlessRecursive(p) ==
  /\ pc[p] = "wake"
  /\ Leave(p)
  /\ IF op[p] = "giveRecursive" THEN SyncForget(p) ELSE SyncWake
  /\ UNCHANGED lockState

\* Faulty: a give from an ISR forgets the wake.
WakeUnlessISR(p) ==
  /\ pc[p] = "wake"
  /\ Leave(p)
  /\ IF op[p] = "giveISR" THEN SyncForget(p) ELSE SyncWake
  /\ UNCHANGED lockState

Wake(p) ==
  /\ pc[p] = "wake"
  /\ Leave(p)
  /\ SyncWake
  /\ UNCHANGED lockState

Enter(p) == \/ xQueueSemaphoreTake(p) \/ xSemaphoreGive(p)
            \/ xQueueGiveMutexRecursive(p) \/ xQueueGiveFromISR(p)

Locked(p) == \/ MutexTaken(p) \/ SemaphoreTaken(p)
             \/ MutexGiven(p) \/ SemaphoreGiven(p)
             \/ Refused(p) \/ Park(p)

Next == \E p \in Tasks : \/ Enter(p) \/ Locked(p) \/ Woken(p)
                         \/ TimedOut(p) \/ Interrupted(p) \/ Wake(p)

Spec == Init /\ [][Next]_vars

\* A task inside a call runs on; nothing forces it to call, time out or give.
Fairness == \A p \in Tasks : /\ WF_vars(Locked(p))
                             /\ WF_vars(Woken(p))
                             /\ WF_vars(Wake(p))

FairSpec == Spec /\ Fairness

-----------------------------------------------------------------------------
(* Properties *)

(***************************************************************************)
(* Mutual exclusion as the callers see it: counting what                   *)
(* xQueueSemaphoreTake and the two gives reported, two tasks never hold    *)
(* the mutex at once, however deep the owner has nested its takes and      *)
(* whoever else tries to give.                                             *)
(***************************************************************************)
MutualExclusion == \A p, q \in Tasks : held[p] # 0 /\ held[q] # 0 => p = q

\* uxQueueMessagesWaiting: one token while a mutex is free.
uxQueueMessagesWaiting ==
  IF Kind = "mutex" THEN (IF count = 0 THEN 1 ELSE 0) ELSE count

(***************************************************************************)
(* The public token count of uxQueueMessagesWaiting agrees with what the   *)
(* callers hold: a mutex reports its token exactly while nobody holds it.  *)
(***************************************************************************)
TokenVisible ==
  Kind = "mutex" =>
     (uxQueueMessagesWaiting = 1 <=> \A p \in Tasks : held[p] = 0)

WakePending == \E p \in Tasks : pc[p] = "wake"

(***************************************************************************)
(* No lost wake in xQueueSemaphoreTake: a task asleep on an up-to-date     *)
(* sample cannot take, or the wake for what it could take is still to come.*)
(***************************************************************************)
NoLostWake ==
  \A p \in fresh : pc[p] = "wait" => ~CanTake(p) \/ WakePending

Taking(p) == op[p] = "take" /\ pc[p] \in {"check", "wait"}

(***************************************************************************)
(* A task inside xQueueSemaphoreTake while the object can be taken gets    *)
(* out of the call, or a competitor takes it first.                        *)
(***************************************************************************)
TakerServed == \A p \in Tasks : Taking(p) /\ CanTake(p) ~> ~Taking(p) \/ ~CanTake(p)
=============================================================================
