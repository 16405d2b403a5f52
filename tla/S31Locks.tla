------------------------------ MODULE S31Locks ------------------------------
(***************************************************************************)
(* radio_firmware/s31_linux_locks.c: the C library's locks, each backed by *)
(* a mutex that a table of S31_LOCK_SLOTS slots assigns to it on first     *)
(* use.  The mutexes are those of S31Semaphore, taken and given here in    *)
(* one step each, which S31SemaphoreProofs justifies.                      *)
(*                                                                         *)
(* _lock_acquire returns nothing: its caller goes on into its critical     *)
(* section even when no slot was left, no mutex could be allocated or the  *)
(* wait was interrupted.  Such a caller is `unguarded' until it has left   *)
(* the section.                                                            *)
(*                                                                         *)
(* A member of Locks is a _lock_t.  The object it points to, whose address *)
(* is the key of a slot, is allocated by _lock_init: when the library asks *)
(* for it, or by the first acquire that finds the pointer NULL.  Whether   *)
(* it exists is not a variable: without it the lock has no slot, an        *)
(* acquire that gets it goes on as any first acquire, and one that does    *)
(* not (the allocation fails) is AcquireWithout, or for the try form a     *)
(* return of -1 that changes nothing.                                      *)
(***************************************************************************)
EXTENDS Integers, FiniteSets

CONSTANTS
  Tasks,      \* task control blocks
  NoTask,
  Locks,      \* the struct __lock objects
  NoLock,     \* an empty slot's key
  Slots,      \* S31_LOCK_SLOTS
  MaxDepth    \* bound: how deep one task nests one lock

ASSUME LockAssumption ==
  /\ NoTask \notin Tasks /\ NoLock \notin Locks
  /\ Slots \in Nat \ {0} /\ MaxDepth \in Nat \ {0}

Table == 1 .. Slots

VARIABLES
  key,        \* s31_locks[i].key
  owner,      \* owner of the mutex s31_locks[i].handle
  depth,      \* its recursion depth
  wants,      \* the slot whose mutex a task is waiting for, 0 for none
  asked,      \* the lock it asked for
  inside,     \* inside[p][l]: acquires of l by p less its releases
  unguarded   \* history: <<p, l>> entered without the mutex

table == <<key, owner, depth>>
vars == <<key, owner, depth, wants, asked, inside, unguarded>>

TypeOK == /\ key \in [Table -> Locks \cup {NoLock}]
          /\ owner \in [Table -> Tasks \cup {NoTask}]
          /\ depth \in [Table -> 0 .. MaxDepth]
          /\ wants \in [Tasks -> 0 .. Slots]
          /\ asked \in [Tasks -> Locks \cup {NoLock}]
          /\ inside \in [Tasks -> [Locks -> 0 .. MaxDepth]]
          /\ unguarded \in SUBSET (Tasks \X Locks)
          /\ \A i, j \in Table : key[i] = key[j] /\ key[i] # NoLock => i = j

\* esp_libc_locks_init, before its one s31_lock_get.
Init == /\ key = [i \in Table |-> NoLock]
        /\ owner = [i \in Table |-> NoTask]
        /\ depth = [i \in Table |-> 0]
        /\ wants = [p \in Tasks |-> 0]
        /\ asked = [p \in Tasks |-> NoLock]
        /\ inside = [p \in Tasks |-> [l \in Locks |-> 0]]
        /\ unguarded = {}

-----------------------------------------------------------------------------
(* The table *)

SlotsOf(l) == {i \in Table : key[i] = l}

\* s31_lock_get finds slot i for lock l, or chooses the first free one.
Gets(l, i) == \/ key[i] = l
              \/ /\ key[i] = NoLock /\ SlotsOf(l) = {}
                 /\ \A j \in Table : j < i => key[j] # NoLock

Assign(l, i) == key' = [key EXCEPT ![i] = l]

\* s31_lock_get returns NULL: the table is full or xQueueCreateMutex fails; or
\* _lock_init could not allocate the lock's object.
NoHandle(l) == SlotsOf(l) = {}

-----------------------------------------------------------------------------
(* Acquiring *)

Enter(p, l) == inside' = [inside EXCEPT ![p][l] = @ + 1]

\* The caller goes on without the mutex.
EnterUnguarded(p, l) == Enter(p, l) /\ unguarded' = unguarded \cup {<<p, l>>}

Free(p) == wants[p] = 0

CanTake(p, i) == owner[i] \in {NoTask, p}

\* The recursive take of a mutex p can take.
Taken(p, i) == /\ owner' = [owner EXCEPT ![i] = p]
               /\ depth' = [depth EXCEPT ![i] = @ + 1]

\* _lock_acquire, _lock_acquire_recursive and their __retarget forms; a lock
\* whose object does not exist yet gets it first (_lock_init).
_lock_acquire(p, l) ==
  /\ Free(p) /\ inside[p][l] < MaxDepth
  /\ \E i \in Table : /\ Gets(l, i)
                      /\ Assign(l, i)
                      /\ wants' = [wants EXCEPT ![p] = i]
  /\ asked' = [asked EXCEPT ![p] = l]
  /\ UNCHANGED <<owner, depth, inside, unguarded>>

\* xQueueTakeMutexRecursive or xQueueSemaphoreTake succeeds.
AcquireTaken(p) ==
  /\ wants[p] # 0 /\ CanTake(p, wants[p])
  /\ Taken(p, wants[p])
  /\ Enter(p, asked[p])
  /\ wants' = [wants EXCEPT ![p] = 0]
  /\ asked' = [asked EXCEPT ![p] = NoLock]
  /\ UNCHANGED <<key, unguarded>>

\* The wait for the mutex is interrupted.
AcquireInterrupted(p) ==
  /\ wants[p] # 0 /\ ~CanTake(p, wants[p])
  /\ EnterUnguarded(p, asked[p])
  /\ wants' = [wants EXCEPT ![p] = 0]
  /\ asked' = [asked EXCEPT ![p] = NoLock]
  /\ UNCHANGED table

\* No mutex for this lock.
AcquireWithout(p, l) ==
  /\ Free(p) /\ inside[p][l] < MaxDepth
  /\ NoHandle(l)
  /\ EnterUnguarded(p, l)
  /\ UNCHANGED <<key, owner, depth, wants, asked>>

\* An ISR acquires and releases without waiting, within one hold of the blob
\* gate.  It assigns the slot, but for a mutex xQueueReceiveFromISR and
\* xQueueGiveFromISR fail, so that owner and depth stay.
LockedInISR(l) ==
  /\ \E i \in Table : Gets(l, i) /\ Assign(l, i)
  /\ UNCHANGED <<owner, depth, wants, asked, inside, unguarded>>

\* _lock_try_acquire tells its caller; only the one that succeeds enters.
_lock_try_acquire(p, l) ==
  /\ Free(p) /\ inside[p][l] < MaxDepth
  /\ \E i \in Table :
        /\ Gets(l, i) /\ Assign(l, i)
        /\ \/ CanTake(p, i) /\ Taken(p, i) /\ Enter(p, l)
           \/ ~CanTake(p, i) /\ UNCHANGED <<owner, depth, inside>>
  /\ UNCHANGED <<wants, asked, unguarded>>

\* __retarget_lock_init, and its recursive form, assign the slot at once.
__retarget_lock_init(p, l) ==
  /\ Free(p)
  /\ \E i \in Table : Gets(l, i) /\ Assign(l, i)
  /\ UNCHANGED <<owner, depth, wants, asked, inside, unguarded>>

-----------------------------------------------------------------------------
(* Releasing and closing *)

\* One give of the mutexes in the slots S.
Given(S) ==
  /\ depth' = [i \in Table |-> IF i \in S THEN depth[i] - 1 ELSE depth[i]]
  /\ owner' = [i \in Table |-> IF i \in S /\ depth[i] = 1 THEN NoTask ELSE owner[i]]

\* Faulty: whoever holds the mutex, the release gives it.
GiveAnyway(p, l) == Given({i \in SlotsOf(l) : depth[i] # 0})

\* s31_lock_give: nothing without a slot, and xQueueGiveMutexRecursive
\* refuses a task that does not own the mutex.
s31_lock_give(p, l) == Given({i \in SlotsOf(l) : owner[i] = p})

_lock_release(p, l) ==
  /\ Free(p) /\ inside[p][l] > 0
  /\ s31_lock_give(p, l)
  /\ inside' = [inside EXCEPT ![p][l] = @ - 1]
  /\ unguarded' = IF inside[p][l] = 1 THEN unguarded \ {<<p, l>>} ELSE unguarded
  /\ UNCHANGED <<key, wants, asked>>

\* _lock_close: the slot is free again.  The code does not look whether the
\* lock is in use; that nobody is in it or waits for it is the C library's
\* contract, assumed here.
_lock_close(p, l) ==
  /\ Free(p)
  /\ \A q \in Tasks : inside[q][l] = 0 /\ asked[q] # l
  /\ key' = [i \in Table |-> IF key[i] = l THEN NoLock ELSE key[i]]
  /\ owner' = [i \in Table |-> IF key[i] = l THEN NoTask ELSE owner[i]]
  /\ depth' = [i \in Table |-> IF key[i] = l THEN 0 ELSE depth[i]]
  /\ UNCHANGED <<wants, asked, inside, unguarded>>

Next == \E p \in Tasks :
          \/ AcquireTaken(p) \/ AcquireInterrupted(p)
          \/ \E l \in Locks : \/ _lock_acquire(p, l) \/ AcquireWithout(p, l)
                              \/ LockedInISR(l) \/ _lock_try_acquire(p, l)
                              \/ __retarget_lock_init(p, l)
                              \/ _lock_release(p, l) \/ _lock_close(p, l)

Spec == Init /\ [][Next]_vars

-----------------------------------------------------------------------------
(* Properties *)

(***************************************************************************)
(* Two tasks are inside the same lock only if one of them went in without  *)
(* the mutex.  In particular a task that went in unguarded, because the    *)
(* table was full or its wait was interrupted, does not, when it releases, *)
(* take the mutex from the task that has it, and a slot that is closed, as *)
(* the C library may when nobody uses the lock, and assigned again does    *)
(* not let a second task in.                                               *)
(***************************************************************************)
Exclusive ==
  \A l \in Locks, p, q \in Tasks :
     inside[p][l] > 0 /\ inside[q][l] > 0 /\ p # q
        => <<p, l>> \in unguarded \/ <<q, l>> \in unguarded

(***************************************************************************)
(* What a task inside a lock believes is what the table says: it owns the  *)
(* mutex of the lock's slot, to the depth of its own nesting.              *)
(***************************************************************************)
HeldIsBacked ==
  \A l \in Locks, p \in Tasks :
     inside[p][l] > 0 /\ <<p, l>> \notin unguarded =>
        \E i \in SlotsOf(l) : owner[i] = p /\ depth[i] = inside[p][l]
=============================================================================
