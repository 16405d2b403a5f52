------------------------ MODULE S31SemaphoreProofs ------------------------
(***************************************************************************)
(* Proofs about S31Semaphore for every number of tasks, every capacity and *)
(* every nesting bound: mutual exclusion and the absence of lost wakes.    *)
(***************************************************************************)
EXTENDS S31Semaphore, TLAPS

(***************************************************************************)
(* Mutual exclusion is not inductive: that nobody but the owner holds the  *)
(* mutex has to be remembered exactly, as q->depth being the number of     *)
(* takes the owner has not given back, and q->count as whether there is    *)
(* an owner.                                                               *)
(***************************************************************************)
Ownership ==
  /\ \A p \in Tasks : held[p] = IF owner = p THEN depth ELSE 0
  /\ owner = NoTask <=> depth = 0
  /\ Kind = "mutex" => count = IF owner = NoTask THEN 0 ELSE 1
  /\ Kind = "sem" => owner = NoTask

\* A sleeping call is a take, and a take in progress has room to nest.
CallsOK ==
  \A p \in Tasks : /\ timeout[p] # "zero" => op[p] = "take"
                   /\ pc[p] = "wait" => op[p] = "take"
                   /\ Taking(p) => held[p] < MaxDepth

IndInv == TypeOK /\ Ownership /\ CallsOK /\ NoLostWake

\* A new mutex or semaphore satisfies the invariant.
LEMMA InitIndInv == Init => IndInv
<1>. SUFFICES ASSUME Init PROVE IndInv
  OBVIOUS
<1>1. TypeOK
  BY TokenAssumption, TaskAssumption
    DEF Init, Objects, Kind, Capacity, TypeOK, PCs, CallOps, Timeouts, SyncInit
<1>2. Ownership
  BY TaskAssumption DEF Init, Kind, Ownership
<1>3. CallsOK /\ NoLostWake
  BY DEF Init, CallsOK, NoLostWake, Taking, SyncInit
<1>. QED  BY <1>1, <1>2, <1>3 DEF IndInv

\* Every step keeps the owner, the depth and the counts in range.
LEMMA NextTypeOK == IndInv /\ [Next]_vars => TypeOK'
<1>. SUFFICES ASSUME IndInv, [Next]_vars PROVE TypeOK'
  OBVIOUS
<1>. USE TokenAssumption, TaskAssumption DEF IndInv, Kind, Capacity, Objects
<1>1. CASE UNCHANGED vars
  BY <1>1 DEF vars, TypeOK
<1>2. ASSUME NEW p \in Tasks, Enter(p) PROVE TypeOK'
  BY <1>2 DEF Enter, xQueueSemaphoreTake, xSemaphoreGive, xQueueGiveMutexRecursive,
       xQueueGiveFromISR, Begin, lockState, SyncSequence, TypeOK, PCs, CallOps, Timeouts
<1>3. ASSUME NEW p \in Tasks, MutexTaken(p) PROVE TypeOK'
  <2>1. held[p] < MaxDepth /\ (owner = p => depth = held[p])
    BY <1>3 DEF MutexTaken, CallsOK, Taking, Ownership
  <2>. QED  BY <1>3, <2>1 DEF MutexTaken, Leave, SyncForget, TypeOK, PCs, CallOps, Timeouts
<1>4. ASSUME NEW p \in Tasks, MutexGiven(p) PROVE TypeOK'
  <2>1. held[p] = depth /\ depth # 0
    BY <1>4 DEF MutexGiven, CanGive, Ownership
  <2>. QED  BY <1>4, <2>1 DEF MutexGiven, TypeOK, PCs
<1>5. ASSUME NEW p \in Tasks, SemaphoreTaken(p) \/ SemaphoreGiven(p) PROVE TypeOK'
  BY <1>5 DEF SemaphoreTaken, SemaphoreGiven, CanTake, CanGive, TypeOK, PCs
<1>6. ASSUME NEW p \in Tasks,
             Refused(p) \/ Park(p) \/ Woken(p) \/ TimedOut(p) \/ Interrupted(p) \/ Wake(p)
      PROVE  TypeOK'
  BY <1>6 DEF Refused, Park, Woken, TimedOut, Interrupted, Wake, Leave, lockState,
       SyncForget, SyncSequence, SyncWake, TypeOK, PCs, CallOps, Timeouts
<1>. QED  BY <1>1, <1>2, <1>3, <1>4, <1>5, <1>6 DEF Next, Locked

\* Every step keeps the owner, the depth and what the callers were told in step.
LEMMA NextOwnership == IndInv /\ [Next]_vars => Ownership'
<1>. SUFFICES ASSUME IndInv, [Next]_vars PROVE Ownership'
  OBVIOUS
<1>. USE TokenAssumption, TaskAssumption DEF IndInv, Kind, Capacity, Objects
<1>1. CASE UNCHANGED vars
  BY <1>1 DEF vars, Ownership
<1>2. ASSUME NEW p \in Tasks, Enter(p) PROVE Ownership'
  BY <1>2 DEF Enter, xQueueSemaphoreTake, xSemaphoreGive, xQueueGiveMutexRecursive,
       xQueueGiveFromISR, Begin, lockState, Ownership
<1>3. ASSUME NEW p \in Tasks, MutexTaken(p) PROVE Ownership'
  BY <1>3 DEF MutexTaken, CanTake, Ownership, TypeOK
<1>4. ASSUME NEW p \in Tasks, MutexGiven(p) PROVE Ownership'
  BY <1>4 DEF MutexGiven, CanGive, Ownership, TypeOK
<1>5. ASSUME NEW p \in Tasks, SemaphoreTaken(p) \/ SemaphoreGiven(p) PROVE Ownership'
  BY <1>5 DEF SemaphoreTaken, SemaphoreGiven, Ownership
<1>6. ASSUME NEW p \in Tasks,
             Refused(p) \/ Park(p) \/ Woken(p) \/ TimedOut(p) \/ Interrupted(p) \/ Wake(p)
      PROVE  Ownership'
  BY <1>6 DEF Refused, Park, Woken, TimedOut, Interrupted, Wake, lockState, Ownership
<1>. QED  BY <1>1, <1>2, <1>3, <1>4, <1>5, <1>6 DEF Next, Locked

\* Every step keeps what a task is doing in agreement with its call.
LEMMA NextCallsOK == IndInv /\ [Next]_vars => CallsOK'
<1>. SUFFICES ASSUME IndInv, [Next]_vars PROVE CallsOK'
  OBVIOUS
<1>. USE TaskAssumption DEF IndInv, Taking
<1>1. CASE UNCHANGED vars
  BY <1>1 DEF vars, CallsOK
<1>2. ASSUME NEW p \in Tasks, Enter(p) PROVE CallsOK'
  BY <1>2 DEF Enter, xQueueSemaphoreTake, xSemaphoreGive, xQueueGiveMutexRecursive,
       xQueueGiveFromISR, Begin, lockState, CallsOK, TypeOK
<1>3. ASSUME NEW p \in Tasks,
             MutexTaken(p) \/ MutexGiven(p) \/ SemaphoreTaken(p) \/ SemaphoreGiven(p)
      PROVE  CallsOK'
  BY <1>3 DEF MutexTaken, MutexGiven, SemaphoreTaken, SemaphoreGiven, Leave, CallsOK, TypeOK
<1>4. ASSUME NEW p \in Tasks,
             Refused(p) \/ Park(p) \/ Woken(p) \/ TimedOut(p) \/ Interrupted(p) \/ Wake(p)
      PROVE  CallsOK'
  BY <1>4 DEF Refused, Park, Woken, TimedOut, Interrupted, Wake, Leave, lockState,
       CallsOK, TypeOK
<1>. QED  BY <1>1, <1>2, <1>3, <1>4 DEF Next, Locked

\* No step leaves a sleeper that could take without a wake to come.
LEMMA NextNoLostWake == IndInv /\ [Next]_vars => NoLostWake'
<1>. SUFFICES ASSUME IndInv, [Next]_vars PROVE NoLostWake'
  OBVIOUS
<1>. USE TaskAssumption DEF IndInv, Kind
<1>1. CASE UNCHANGED vars
  BY <1>1 DEF vars, NoLostWake, CanTake, WakePending
<1>2. ASSUME NEW p \in Tasks, Enter(p) PROVE NoLostWake'
  BY <1>2 DEF Enter, xQueueSemaphoreTake, xSemaphoreGive, xQueueGiveMutexRecursive,
       xQueueGiveFromISR, Begin, lockState, SyncSequence, NoLostWake, CanTake,
       WakePending, TypeOK
<1>3. ASSUME NEW p \in Tasks, MutexTaken(p) PROVE NoLostWake'
  \* Whoever else is asleep finds the mutex owned by p.
  <2>1. \A q \in Tasks : q # p => ~CanTake(q)'
    BY <1>3 DEF MutexTaken, CanTake
  <2>2. pc'[p] # "wait"
    BY <1>3 DEF MutexTaken, Leave, TypeOK
  <2>3. fresh' \subseteq Tasks
    BY <1>3 DEF MutexTaken, SyncForget, TypeOK
  <2>. QED  BY <2>1, <2>2, <2>3 DEF NoLostWake
<1>4. ASSUME NEW p \in Tasks, MutexGiven(p) \/ SemaphoreTaken(p) \/ SemaphoreGiven(p)
      PROVE  NoLostWake'
  <2>1. pc'[p] = "wake"
    BY <1>4 DEF MutexGiven, SemaphoreTaken, SemaphoreGiven, TypeOK
  <2>. QED  BY <2>1 DEF NoLostWake, WakePending
<1>5. ASSUME NEW p \in Tasks, Park(p) PROVE NoLostWake'
  <2>1. op[p] = "take" /\ ~CanTake(p)
    BY <1>5 DEF Park, Can, CallsOK
  <2>2. WakePending => WakePending'
    BY <1>5 DEF Park, WakePending, TypeOK
  <2>. QED  BY <1>5, <2>1, <2>2 DEF Park, NoLostWake, CanTake, TypeOK
<1>6. ASSUME NEW p \in Tasks, Woken(p) PROVE NoLostWake'
  BY <1>6 DEF Woken, SyncSequence, NoLostWake, CanTake, WakePending, TypeOK
<1>7. ASSUME NEW p \in Tasks, Refused(p) \/ TimedOut(p) \/ Interrupted(p)
      PROVE  NoLostWake'
  BY <1>7 DEF Refused, TimedOut, Interrupted, Leave, lockState, SyncForget,
       NoLostWake, CanTake, WakePending, TypeOK
<1>8. ASSUME NEW p \in Tasks, Wake(p) PROVE NoLostWake'
  BY <1>8 DEF Wake, SyncWake, NoLostWake
<1>. QED  BY <1>1, <1>2, <1>3, <1>4, <1>5, <1>6, <1>7, <1>8 DEF Next, Locked

\* IndInv is inductive.
THEOREM Invariance == Spec => []IndInv
<1>1. IndInv /\ [Next]_vars => IndInv'
  BY NextTypeOK, NextOwnership, NextCallsOK, NextNoLostWake DEF IndInv
<1>. QED  BY <1>1, InitIndInv, PTL DEF Spec

(***************************************************************************)
(* Mutual exclusion of xQueueSemaphoreTake on a mutex, as its callers see  *)
(* it, for any number of tasks and any nesting of takes.                   *)
(***************************************************************************)
THEOREM MutexSafe == Spec => []MutualExclusion
<1>1. IndInv => MutualExclusion
  BY TaskAssumption DEF IndInv, Ownership, MutualExclusion
<1>. QED  BY <1>1, Invariance, PTL

(***************************************************************************)
(* uxQueueMessagesWaiting reports the token of a mutex exactly while no    *)
(* caller holds it.                                                        *)
(***************************************************************************)
THEOREM TokenVisibleAlways == Spec => []TokenVisible
<1>1. IndInv => TokenVisible
  BY TaskAssumption
    DEF IndInv, Ownership, TypeOK, TokenVisible, uxQueueMessagesWaiting
<1>. QED  BY <1>1, Invariance, PTL

(***************************************************************************)
(* No lost wake in xQueueSemaphoreTake, for mutexes and counting           *)
(* semaphores alike.                                                       *)
(***************************************************************************)
THEOREM LostWakeFree == Spec => []NoLostWake
<1>1. IndInv => NoLostWake
  BY DEF IndInv
<1>. QED  BY <1>1, Invariance, PTL
=============================================================================
