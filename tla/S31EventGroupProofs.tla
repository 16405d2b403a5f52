------------------------ MODULE S31EventGroupProofs ------------------------
(***************************************************************************)
(* Proofs about S31EventGroup for every number of setters and waiters,     *)
(* every set of bits and every set of calls: no set is lost, no set is     *)
(* handed out twice, and a set that races a timeout wins.                  *)
(***************************************************************************)
EXTENDS S31EventGroup, TLAPS

\* A context inside xEventGroupWaitBits has the arguments of its call, and
\* only a setter owes a wake.
CallsOK ==
  \A p \in Waiters : /\ pc[p] # "wake"
                     /\ InWait(p) => wait[p] \in Waits

IndInv == TypeOK /\ CallsOK /\ NoLostSet /\ ConsumedOnce

\* s31_eg_match is monotone: bits that go cannot make a wait match.
LEMMA MatchMonotone ==
  ASSUME NEW more, NEW less \in SUBSET more, NEW w, s31_eg_match(less, w)
  PROVE  s31_eg_match(more, w)
BY DEF s31_eg_match

\* A new group satisfies the invariant.
LEMMA InitIndInv == Init => IndInv
<1>. SUFFICES ASSUME Init PROVE IndInv
  OBVIOUS
<1>. USE EventAssumption DEF Init, SyncInit
<1>1. TypeOK
  BY DEF TypeOK, PCs, Tasks
<1>2. CallsOK
  BY DEF CallsOK, InWait, Tasks
<1>3. NoLostSet /\ ConsumedOnce
  BY DEF NoLostSet, ConsumedOnce
<1>. QED  BY <1>1, <1>2, <1>3 DEF IndInv

\* Every step keeps the state in its type.
LEMMA NextTypeOK == IndInv /\ [Next]_vars => TypeOK'
<1>. SUFFICES ASSUME IndInv, [Next]_vars PROVE TypeOK'
  OBVIOUS
<1>. USE EventAssumption DEF IndInv, TypeOK, Tasks, PCs
<1>1. CASE UNCHANGED vars
  BY <1>1 DEF vars
<1>2. ASSUME NEW p \in Setters, xEventGroupSetBits(p) PROVE TypeOK'
  BY <1>2 DEF xEventGroupSetBits
<1>3. ASSUME NEW p \in Setters, Wake(p) \/ xEventGroupClearBits(p) PROVE TypeOK'
  BY <1>3 DEF Wake, xEventGroupClearBits, SyncWake
<1>4. ASSUME NEW p \in Waiters, xEventGroupWaitBits(p) PROVE TypeOK'
  BY <1>4 DEF xEventGroupWaitBits, SyncSequence
<1>5. ASSUME NEW p \in Waiters, LeaveWith(p) PROVE TypeOK'
  BY <1>5 DEF LeaveWith, SyncForget
<1>6. ASSUME NEW p \in Waiters, Park(p) \/ Woken(p) \/ WaitEnds(p) PROVE TypeOK'
  BY <1>6 DEF Park, Woken, WaitEnds, SyncSequence
<1>. QED  BY <1>1, <1>2, <1>3, <1>4, <1>5, <1>6
            DEF Next, SetterNext, WaiterNext, Locked, Matched, Refused, Recheck,
                TimedOut, Interrupted

\* Every step keeps a waiter's arguments for as long as it is in its call.
LEMMA NextCallsOK == IndInv /\ [Next]_vars => CallsOK'
<1>. SUFFICES ASSUME IndInv, [Next]_vars PROVE CallsOK'
  OBVIOUS
<1>. USE EventAssumption DEF IndInv, TypeOK, Tasks, CallsOK, InWait
<1>1. CASE UNCHANGED vars
  BY <1>1 DEF vars
<1>2. ASSUME NEW p \in Setters, SetterNext(p) PROVE CallsOK'
  BY <1>2 DEF SetterNext, xEventGroupSetBits, Wake, xEventGroupClearBits
<1>3. ASSUME NEW p \in Waiters, xEventGroupWaitBits(p) PROVE CallsOK'
  BY <1>3 DEF xEventGroupWaitBits
<1>4. ASSUME NEW p \in Waiters, LeaveWith(p) PROVE CallsOK'
  BY <1>4 DEF LeaveWith
<1>5. ASSUME NEW p \in Waiters, Park(p) \/ Woken(p) \/ WaitEnds(p) PROVE CallsOK'
  BY <1>5 DEF Park, Woken, WaitEnds
<1>. QED  BY <1>1, <1>2, <1>3, <1>4, <1>5
            DEF Next, WaiterNext, Locked, Matched, Refused, Recheck, TimedOut, Interrupted

\* No step leaves a sleeper whose bits are set without a wake to come.
LEMMA NextNoLostSet == IndInv /\ [Next]_vars => NoLostSet'
<1>. SUFFICES ASSUME IndInv, [Next]_vars PROVE NoLostSet'
  OBVIOUS
<1>. USE EventAssumption DEF IndInv, TypeOK, Tasks
<1>1. CASE UNCHANGED vars
  BY <1>1 DEF vars, NoLostSet, WakePending
<1>2. ASSUME NEW p \in Setters, xEventGroupSetBits(p) PROVE NoLostSet'
  \* The setter itself owes the wake.
  BY <1>2 DEF xEventGroupSetBits, NoLostSet, WakePending
<1>3. ASSUME NEW p \in Setters, Wake(p) PROVE NoLostSet'
  BY <1>3 DEF Wake, SyncWake, NoLostSet
<1>4. ASSUME NEW p \in Setters, xEventGroupClearBits(p) PROVE NoLostSet'
  <2>1. bits' \subseteq bits /\ UNCHANGED <<pc, wait, fresh>>
    BY <1>4 DEF xEventGroupClearBits
  <2>2. \A q \in fresh : s31_eg_match(bits', wait[q]) => s31_eg_match(bits, wait[q])
    BY <2>1, MatchMonotone
  <2>. QED  BY <2>1, <2>2 DEF NoLostSet, WakePending
\* What a waiter does leaves every setter where it is.
<1>5. ASSUME NEW p \in Waiters, \A q \in Tasks : q # p => pc'[q] = pc[q]
      PROVE  WakePending => WakePending'
  BY <1>5 DEF WakePending
<1>6. ASSUME NEW p \in Waiters, xEventGroupWaitBits(p) PROVE NoLostSet'
  <2>1. WakePending => WakePending'
    BY <1>5, <1>6 DEF xEventGroupWaitBits
  <2>2. pc'[p] = "check" /\ (\A q \in Waiters : q # p => pc'[q] = pc[q] /\ wait'[q] = wait[q])
    BY <1>6 DEF xEventGroupWaitBits
  <2>. QED  BY <1>6, <2>1, <2>2 DEF xEventGroupWaitBits, SyncSequence, NoLostSet, s31_eg_match
<1>7. ASSUME NEW p \in Waiters, LeaveWith(p) PROVE NoLostSet'
  <2>1. WakePending => WakePending'
    BY <1>5, <1>7 DEF LeaveWith
  <2>2. /\ bits' \subseteq bits /\ UNCHANGED wait /\ fresh' = fresh \ {p}
        /\ \A q \in Waiters : q # p => pc'[q] = pc[q]
    BY <1>7 DEF LeaveWith, SyncForget
  <2>3. \A q \in fresh : s31_eg_match(bits', wait[q]) => s31_eg_match(bits, wait[q])
    BY <2>2, MatchMonotone
  <2>. QED  BY <2>1, <2>2, <2>3 DEF NoLostSet
<1>8. ASSUME NEW p \in Waiters, Park(p) PROVE NoLostSet'
  \* The test and the sleep are one step: p sleeps because nothing matches.
  <2>1. WakePending => WakePending'
    BY <1>5, <1>8 DEF Park
  <2>2. /\ UNCHANGED <<bits, wait, fresh>> /\ ~s31_eg_match(bits, wait[p])
        /\ \A q \in Waiters : q # p => pc'[q] = pc[q]
    BY <1>8 DEF Park
  <2>. QED  BY <2>1, <2>2 DEF NoLostSet
<1>9. ASSUME NEW p \in Waiters, Woken(p) \/ WaitEnds(p) PROVE NoLostSet'
  <2>1. WakePending => WakePending'
    BY <1>5, <1>9 DEF Woken, WaitEnds
  <2>2. /\ UNCHANGED <<bits, wait>> /\ pc'[p] # "wait" /\ fresh' \subseteq fresh \cup {p}
        /\ \A q \in Waiters : q # p => pc'[q] = pc[q]
    BY <1>9 DEF Woken, WaitEnds, SyncSequence
  <2>. QED  BY <2>1, <2>2 DEF NoLostSet
<1>. QED  BY <1>1, <1>2, <1>3, <1>4, <1>6, <1>7, <1>8, <1>9
            DEF Next, SetterNext, WaiterNext, Locked, Matched, Refused, Recheck,
                TimedOut, Interrupted

\* No step hands out a bit more often than it was set.
LEMMA NextConsumedOnce == IndInv /\ [Next]_vars => ConsumedOnce'
<1>. SUFFICES ASSUME IndInv, [Next]_vars PROVE ConsumedOnce'
  OBVIOUS
<1>. USE EventAssumption DEF IndInv, TypeOK, Tasks, ConsumedOnce
<1>1. CASE UNCHANGED vars
  BY <1>1 DEF vars
<1>2. ASSUME NEW p \in Setters, xEventGroupSetBits(p) PROVE ConsumedOnce'
  BY <1>2 DEF xEventGroupSetBits
<1>3. ASSUME NEW p \in Setters, Wake(p) \/ xEventGroupClearBits(p) PROVE ConsumedOnce'
  BY <1>3 DEF Wake, xEventGroupClearBits
<1>4. ASSUME NEW p \in Waiters, LeaveWith(p) PROVE ConsumedOnce'
  <2>1. CASE s31_eg_match(bits, wait[p]) /\ wait[p].clear
    \* A bit that is returned is no longer in the group.
    <3>1. /\ bits' = bits \ wait[p].want /\ UNCHANGED sets
          /\ consumed' = [b \in Bits |-> IF b \in bits \cap wait[p].want
                                         THEN consumed[b] + 1 ELSE consumed[b]]
      BY <1>4, <2>1 DEF LeaveWith
    <3>. QED  BY <3>1
  <2>2. CASE ~(s31_eg_match(bits, wait[p]) /\ wait[p].clear)
    BY <1>4, <2>2 DEF LeaveWith
  <2>. QED  BY <2>1, <2>2
<1>5. ASSUME NEW p \in Waiters,
             xEventGroupWaitBits(p) \/ Park(p) \/ Woken(p) \/ WaitEnds(p)
      PROVE  ConsumedOnce'
  BY <1>5 DEF xEventGroupWaitBits, Park, Woken, WaitEnds
<1>. QED  BY <1>1, <1>2, <1>3, <1>4, <1>5
            DEF Next, SetterNext, WaiterNext, Locked, Matched, Refused, Recheck,
                TimedOut, Interrupted

\* The invariant holds of every reachable state.
LEMMA SpecIndInv == Spec => []IndInv
<1>1. IndInv /\ [Next]_vars => IndInv'
  BY NextTypeOK, NextCallsOK, NextNoLostSet, NextConsumedOnce DEF IndInv
<1>. QED  BY <1>1, InitIndInv, PTL DEF Spec

(***************************************************************************)
(* Type correctness, and every wait in progress knows its arguments.       *)
(***************************************************************************)
THEOREM EventGroupTypeCorrect == Spec => [](TypeOK /\ CallsOK)
BY SpecIndInv, PTL DEF IndInv

(***************************************************************************)
(* xEventGroupWaitBits misses no set, whatever other waiters clear in      *)
(* between.                                                                *)
(***************************************************************************)
THEOREM EventGroupNoLostSet == Spec => []NoLostSet
BY SpecIndInv, PTL DEF IndInv

(***************************************************************************)
(* A bit set once is returned and cleared at most once by clear_on_exit    *)
(* waits.                                                                  *)
(***************************************************************************)
THEOREM EventGroupConsumedOnce == Spec => []ConsumedOnce
BY SpecIndInv, PTL DEF IndInv

(***************************************************************************)
(* The recheck after the deadline: a wait that ended leaves only through   *)
(* the locked recheck, and returns the bits if they match by then.         *)
(***************************************************************************)
THEOREM EventGroupRaceWonBySet == Spec => RaceWonBySet
<1>. DEFINE Step ==
       \A p \in Waiters :
         pc[p] = "ended" /\ pc'[p] = "idle" /\ s31_eg_match(bits, wait[p])
            => s31_eg_match(result'[p], wait[p])
<1>1. ASSUME IndInv, [Next]_vars PROVE [Step]_vars
  <2>. SUFFICES ASSUME Next, NEW p \in Waiters, pc[p] = "ended", pc'[p] = "idle",
                       s31_eg_match(bits, wait[p])
                PROVE  s31_eg_match(result'[p], wait[p])
    BY <1>1
  <2>. USE <1>1, EventAssumption DEF IndInv, TypeOK, Tasks
  <2>1. ASSUME NEW q \in Setters, SetterNext(q) PROVE FALSE
    BY <2>1 DEF SetterNext, xEventGroupSetBits, Wake, xEventGroupClearBits
  <2>2. ASSUME NEW q \in Waiters,
               \/ xEventGroupWaitBits(q) \/ Park(q) \/ Woken(q) \/ WaitEnds(q)
               \/ Matched(q) \/ Refused(q)
        PROVE  FALSE
    BY <2>2 DEF xEventGroupWaitBits, Park, Woken, WaitEnds, Matched, Refused, LeaveWith
  <2>3. ASSUME NEW q \in Waiters, Recheck(q) PROVE s31_eg_match(result'[p], wait[p])
    <3>1. q = p
      BY <2>3 DEF Recheck, LeaveWith
    <3>2. result'[p] = bits
      BY <2>3, <3>1 DEF Recheck, LeaveWith
    <3>. QED  BY <3>2
  <2>. QED  BY <2>1, <2>2, <2>3 DEF Next, WaiterNext, Locked, TimedOut, Interrupted
<1>. QED  BY <1>1, SpecIndInv, PTL DEF Spec, RaceWonBySet
=============================================================================
