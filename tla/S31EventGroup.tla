---------------------------- MODULE S31EventGroup ----------------------------
(***************************************************************************)
(* radio_firmware/s31_rtos/s31_rtos_event.c: an event group is a word of   *)
(* bits guarded by the lock of a Linux wait object.  xEventGroupWaitBits   *)
(* is the loop of the queue calls with one difference: when its wait ends  *)
(* without a wake it looks at the bits once more, because a set can land   *)
(* between the deadline and the moment the waiter runs again.              *)
(***************************************************************************)
EXTENDS Integers, FiniteSets, S31Sync

CONSTANTS
  Setters,   \* contexts that set and clear bits
  Waiters,   \* contexts that wait for bits
  Bits,      \* the bits of the group
  Waits,     \* the xEventGroupWaitBits calls made: want, clear, all, timeout
  NoWait,    \* a waiter outside the call
  MaxSets    \* bound: how many sets are issued

Tasks == Setters \cup Waiters

Wait == [want : SUBSET Bits \ {{}}, clear : BOOLEAN, all : BOOLEAN,
         timeout : {"zero", "finite", "forever"}]

ASSUME EventAssumption ==
  /\ Setters \cap Waiters = {}
  /\ Waits \subseteq Wait
  /\ NoWait \notin Wait
  /\ MaxSets \in Nat

VARIABLES
  bits,      \* g->bits
  pc,        \* where each context is in its call
  wait,      \* the arguments of each waiter's call
  result,    \* the bits the last finished wait of each waiter returned
  sets,      \* sets[b]: how many sets of bit b were issued
  consumed   \* consumed[b]: how many matched clear-on-exit waits returned bit b

vars == <<bits, pc, wait, result, sets, consumed, fresh>>

PCs == {"idle", "check", "wait",
        "ended",   \* the wait ended without a wake, the recheck is to come
        "wake"}

TypeOK == /\ bits \in SUBSET Bits
          /\ pc \in [Tasks -> PCs]
          /\ wait \in [Waiters -> Waits \cup {NoWait}]
          /\ result \in [Waiters -> SUBSET Bits]
          /\ sets \in [Bits -> 0 .. MaxSets]
          /\ consumed \in [Bits -> Nat]
          /\ fresh \in SUBSET Waiters

Init == /\ bits = {}
        /\ pc = [p \in Tasks |-> "idle"]
        /\ wait = [p \in Waiters |-> NoWait]
        /\ result = [p \in Waiters |-> {}]
        /\ sets = [b \in Bits |-> 0]
        /\ consumed = [b \in Bits |-> 0]
        /\ SyncInit

-----------------------------------------------------------------------------
(* Setting and clearing *)

\* xEventGroupSetBits: the locked update; the wake follows after the unlock.
xEventGroupSetBits(p) ==
  /\ pc[p] = "idle"
  /\ \E B \in SUBSET Bits \ {{}} :
        /\ \A b \in B : sets[b] < MaxSets
        /\ bits' = bits \cup B
        /\ sets' = [b \in Bits |-> IF b \in B THEN sets[b] + 1 ELSE sets[b]]
  /\ pc' = [pc EXCEPT ![p] = "wake"]
  /\ UNCHANGED <<wait, result, consumed, fresh>>

Wake(p) ==
  /\ pc[p] = "wake"
  /\ pc' = [pc EXCEPT ![p] = "idle"]
  /\ SyncWake
  /\ UNCHANGED <<bits, wait, result, sets, consumed>>

\* xEventGroupClearBits: no wake, nobody waits for a bit to go.
xEventGroupClearBits(p) ==
  /\ pc[p] = "idle"
  /\ \E B \in SUBSET Bits \ {{}} : bits' = bits \ B
  /\ UNCHANGED <<pc, wait, result, sets, consumed, fresh>>

-----------------------------------------------------------------------------
(* Waiting *)

s31_eg_match(have, w) == IF w.all THEN w.want \subseteq have
                                  ELSE w.want \cap have # {}

xEventGroupWaitBits(p) ==
  /\ pc[p] = "idle"
  /\ \E w \in Waits : wait' = [wait EXCEPT ![p] = w]
  /\ pc' = [pc EXCEPT ![p] = "check"]
  /\ result' = [result EXCEPT ![p] = {}]
  /\ SyncSequence(p)
  /\ UNCHANGED <<bits, sets, consumed>>

\* Return `bits' as the result and, on a match with clear_on_exit, clear them.
LeaveWith(p) ==
  /\ result' = [result EXCEPT ![p] = bits]
  /\ IF s31_eg_match(bits, wait[p]) /\ wait[p].clear
     THEN /\ bits' = bits \ wait[p].want
          /\ consumed' = [b \in Bits |-> IF b \in bits \cap wait[p].want
                                         THEN consumed[b] + 1 ELSE consumed[b]]
     ELSE UNCHANGED <<bits, consumed>>
  /\ pc' = [pc EXCEPT ![p] = "idle"]
  /\ SyncForget(p)
  /\ UNCHANGED <<wait, sets>>

\* The locked test of the loop found a match.
Matched(p) == pc[p] = "check" /\ s31_eg_match(bits, wait[p]) /\ LeaveWith(p)

\* No match and no time: timeout 0, an ISR caller, or the deadline has passed.
Refused(p) == /\ pc[p] = "check" /\ ~s31_eg_match(bits, wait[p])
              /\ wait[p].timeout # "forever"
              /\ LeaveWith(p)

\* Faulty: the sequence is sampled when going to sleep, and the outcome of the
\* test is out of date by then.
ParkResampling(p) == /\ pc[p] = "check" /\ wait[p].timeout # "zero"
                     /\ pc' = [pc EXCEPT ![p] = "wait"]
                     /\ SyncSequence(p)
                     /\ UNCHANGED <<bits, wait, result, sets, consumed>>

Park(p) == /\ pc[p] = "check" /\ ~s31_eg_match(bits, wait[p])
           /\ wait[p].timeout # "zero"
           /\ pc' = [pc EXCEPT ![p] = "wait"]
           /\ UNCHANGED <<bits, wait, result, sets, consumed, fresh>>

Woken(p) == /\ pc[p] = "wait" /\ SyncMoved(p)
            /\ pc' = [pc EXCEPT ![p] = "check"]
            /\ SyncSequence(p)
            /\ UNCHANGED <<bits, wait, result, sets, consumed>>

\* s31_linux_sync_wait gives up, but its caller does not run yet.
WaitEnds(p) == /\ pc[p] = "wait"
               /\ pc' = [pc EXCEPT ![p] = "ended"]
               /\ UNCHANGED <<bits, wait, result, sets, consumed, fresh>>

TimedOut(p) == wait[p] # NoWait /\ wait[p].timeout = "finite" /\ WaitEnds(p)

\* waited < 0 takes the same path, whatever the timeout.
Interrupted(p) == WaitEnds(p)

\* Faulty: a wait that ended reports that nothing matched, without a look.
RecheckSkipped(p) ==
  /\ pc[p] = "ended"
  /\ result' = [result EXCEPT ![p] = {}]
  /\ pc' = [pc EXCEPT ![p] = "idle"]
  /\ SyncForget(p)
  /\ UNCHANGED <<bits, wait, sets, consumed>>

\* Faulty: the recheck reports a match but leaves the bits for the next waiter.
RecheckWithoutClear(p) ==
  /\ pc[p] = "ended"
  /\ result' = [result EXCEPT ![p] = bits]
  /\ consumed' = [b \in Bits |->
        IF wait[p].clear /\ s31_eg_match(bits, wait[p]) /\ b \in bits \cap wait[p].want
        THEN consumed[b] + 1 ELSE consumed[b]]
  /\ pc' = [pc EXCEPT ![p] = "idle"]
  /\ SyncForget(p)
  /\ UNCHANGED <<bits, wait, sets>>

\* The locked recheck after the deadline.
Recheck(p) == pc[p] = "ended" /\ LeaveWith(p)

-----------------------------------------------------------------------------

SetterNext(p) == xEventGroupSetBits(p) \/ Wake(p) \/ xEventGroupClearBits(p)

Locked(p) == Matched(p) \/ Refused(p) \/ Park(p) \/ Recheck(p)

WaiterNext(p) == \/ xEventGroupWaitBits(p) \/ Locked(p) \/ Woken(p)
                 \/ TimedOut(p) \/ Interrupted(p)

Next == (\E p \in Setters : SetterNext(p)) \/ (\E p \in Waiters : WaiterNext(p))

Spec == Init /\ [][Next]_vars

\* A context inside a call runs on; nobody has to call, time out or clear.
Fairness == /\ \A p \in Setters : WF_vars(Wake(p))
            /\ \A p \in Waiters : WF_vars(Locked(p)) /\ WF_vars(Woken(p))

FairSpec == Spec /\ Fairness

-----------------------------------------------------------------------------
(* Properties *)

WakePending == \E p \in Setters : pc[p] = "wake"

(***************************************************************************)
(* A waiter asleep on an up-to-date sample whose bits are set is owed a    *)
(* wake by the setter: no set is missed by xEventGroupWaitBits, although   *)
(* other waiters clear bits and re-arm in between.                         *)
(***************************************************************************)
NoLostSet ==
  \A p \in fresh : pc[p] = "wait" /\ s31_eg_match(bits, wait[p]) => WakePending

(***************************************************************************)
(* "Recheck once after the deadline: the matching set and the timeout can  *)
(* race": a waiter whose wait has ended, and who resumes while its bits    *)
(* are set, returns them.                                                  *)
(***************************************************************************)
RaceWonBySet ==
  [][\A p \in Waiters :
        pc[p] = "ended" /\ pc'[p] = "idle" /\ s31_eg_match(bits, wait[p])
           => s31_eg_match(result'[p], wait[p])]_vars

(***************************************************************************)
(* clear_on_exit hands a bit to one waiter only: the waits that returned a *)
(* bit and cleared it never outnumber the sets of that bit, also when some *)
(* of them return through the recheck.                                     *)
(***************************************************************************)
ConsumedOnce ==
  \A b \in Bits : consumed[b] + (IF b \in bits THEN 1 ELSE 0) <= sets[b]

InWait(p) == pc[p] \in {"check", "wait", "ended"}

(***************************************************************************)
(* A waiter whose bits are set returns, or somebody clears them first.     *)
(***************************************************************************)
WaiterServed ==
  \A p \in Waiters :
     InWait(p) /\ s31_eg_match(bits, wait[p])
        ~> ~InWait(p) \/ ~s31_eg_match(bits, wait[p])
=============================================================================
