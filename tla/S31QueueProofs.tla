--------------------------- MODULE S31QueueProofs ---------------------------
(***************************************************************************)
(* Proofs about S31Queue, for every capacity, every set of contexts and    *)
(* every set of items: the inductive invariant, the absence of lost wakes, *)
(* and that the ring buffer implements the atomic queue.                   *)
(***************************************************************************)
EXTENDS S31Queue, SequenceTheorems, TLAPS

(***************************************************************************)
(* Index arithmetic.  An index is never further than one lap beyond the    *)
(* ring, so the remainder is a conditional subtraction.                    *)
(***************************************************************************)
Wrap(a) == IF a < Capacity THEN a ELSE a - Capacity

\* q->head + k, k at most q->capacity, reduced modulo q->capacity.
LEMMA RemainderIsWrap ==
  ASSUME NEW a \in 0 .. 2 * Capacity - 1
  PROVE  a % Capacity = Wrap(a) /\ a % Capacity \in Slots
<1>. DEFINE n == Capacity
            q == a \div n
<1>. USE CapacityAssumption
<1>1. q \in Int /\ a % n \in 0 .. n - 1 /\ a = n * q + (a % n)
  OBVIOUS
<1>. HIDE DEF q
<1>2. n * q <= a /\ n * q > a - n
  BY <1>1
<1>3. CASE a < n
  BY <1>3 DEF Wrap, Slots
<1>4. CASE a >= n
  <2>1. ~ (q <= 0)
    BY <1>1, <1>2, <1>4
  <2>2. ASSUME q >= 2 PROVE FALSE
    <3>1. n * q >= n * 2
      BY <2>2, <1>1
    <3>. QED  BY <3>1, <1>2, <1>1
  <2>3. q = 1
    BY <2>1, <2>2, <1>1
  <2>. QED  BY <2>3, <1>1, <1>4 DEF Wrap, Slots
<1>. QED  BY <1>3, <1>4

(***************************************************************************)
(* What the three index computations of s31_queue_send_locked and          *)
(* s31_queue_take_locked do to the items in the ring, read oldest first.   *)
(***************************************************************************)
LEMMA RingIsSeq ==
  ASSUME NEW V, NEW st \in [Slots -> V], NEW h \in Slots, NEW n \in 0 .. Capacity
  PROVE  /\ RingSeq(st, h, n) \in Seq(V)
         /\ Len(RingSeq(st, h, n)) = n
         /\ \A i \in 1 .. n : /\ RingSeq(st, h, n)[i] = st[Wrap(h + i - 1)]
                              /\ Wrap(h + i - 1) \in Slots
<1>. USE CapacityAssumption
<1>1. \A i \in 1 .. n : h + i - 1 \in 0 .. 2 * Capacity - 1
  BY DEF Slots
<1>2. \A i \in 1 .. n : /\ (h + i - 1) % Capacity = Wrap(h + i - 1)
                        /\ Wrap(h + i - 1) \in Slots
  BY <1>1, RemainderIsWrap
<1>3. RingSeq(st, h, n) \in [1 .. n -> V]
  BY <1>2 DEF RingSeq
<1>4. RingSeq(st, h, n) \in Seq(V) /\ Len(RingSeq(st, h, n)) = n
  BY <1>3
<1>. QED  BY <1>2, <1>4 DEF RingSeq

\* A send to the back appends.
LEMMA RingSendBack ==
  ASSUME NEW V, NEW st \in [Slots -> V], NEW h \in Slots,
         NEW n \in 0 .. Capacity, n < Capacity, NEW x \in V
  PROVE  RingSeq([st EXCEPT ![(h + n) % Capacity] = x], h, n + 1)
           = Append(RingSeq(st, h, n), x)
<1>. USE CapacityAssumption
<1>. DEFINE old == RingSeq(st, h, n)
            st2 == [st EXCEPT ![(h + n) % Capacity] = x]
            new == RingSeq(st2, h, n + 1)
<1>1. (h + n) % Capacity = Wrap(h + n) /\ Wrap(h + n) \in Slots
  <2>1. h + n \in 0 .. 2 * Capacity - 1
    BY DEF Slots
  <2>. QED  BY <2>1, RemainderIsWrap
<1>2. /\ st2 \in [Slots -> V]
      /\ st2[Wrap(h + n)] = x
      /\ \A j \in Slots : j # Wrap(h + n) => st2[j] = st[j]
  BY <1>1
<1>. HIDE DEF st2
<1>3. /\ old \in Seq(V) /\ Len(old) = n
      /\ \A i \in 1 .. n : old[i] = st[Wrap(h + i - 1)] /\ Wrap(h + i - 1) \in Slots
  BY RingIsSeq
<1>4. /\ new \in Seq(V) /\ Len(new) = n + 1
      /\ \A i \in 1 .. n + 1 : new[i] = st2[Wrap(h + i - 1)] /\ Wrap(h + i - 1) \in Slots
  <2>1. n + 1 \in 0 .. Capacity
    OBVIOUS
  <2>2. st2 \in [Slots -> V]
    BY <1>2
  <2>. QED  BY <2>1, <2>2, RingIsSeq
<1>. HIDE DEF old, new
<1>5. \A i \in 1 .. n : Wrap(h + i - 1) # Wrap(h + n)
  BY DEF Wrap, Slots
<1>6. \A i \in 1 .. n : new[i] = old[i]
  BY <1>2, <1>3, <1>4, <1>5
<1>7. new[n + 1] = x
  <2>1. h + (n + 1) - 1 = h + n /\ n + 1 \in 1 .. n + 1
    BY DEF Slots
  <2>. QED  BY <2>1, <1>2, <1>4
<1>8. /\ Append(old, x) \in Seq(V) /\ Len(Append(old, x)) = n + 1
      /\ \A i \in 1 .. n : Append(old, x)[i] = old[i]
      /\ Append(old, x)[n + 1] = x
  BY <1>3, AppendProperties
<1>9. \A i \in 1 .. Len(new) : new[i] = Append(old, x)[i]
  BY <1>4, <1>6, <1>7, <1>8
<1>10. new = Append(old, x)
  BY <1>4, <1>8, <1>9, SeqEqual
<1>. QED  BY <1>10 DEF old, st2, new

\* A send to the front moves the head back by one and prepends.
LEMMA RingSendFront ==
  ASSUME NEW V, NEW st \in [Slots -> V], NEW h \in Slots,
         NEW n \in 0 .. Capacity, n < Capacity, NEW x \in V
  PROVE  RingSeq([st EXCEPT ![(h + Capacity - 1) % Capacity] = x],
                 (h + Capacity - 1) % Capacity, n + 1)
           = <<x>> \o RingSeq(st, h, n)
<1>. USE CapacityAssumption
<1>. DEFINE old == RingSeq(st, h, n)
            g   == (h + Capacity - 1) % Capacity
            st2 == [st EXCEPT ![g] = x]
            new == RingSeq(st2, g, n + 1)
<1>1. g = Wrap(h + Capacity - 1) /\ g \in Slots
  <2>1. h + Capacity - 1 \in 0 .. 2 * Capacity - 1
    BY DEF Slots
  <2>. QED  BY <2>1, RemainderIsWrap
<1>. HIDE DEF g
<1>2. /\ st2 \in [Slots -> V]
      /\ st2[g] = x
      /\ \A j \in Slots : j # g => st2[j] = st[j]
  BY <1>1
<1>. HIDE DEF st2
<1>3. /\ old \in Seq(V) /\ Len(old) = n
      /\ \A i \in 1 .. n : old[i] = st[Wrap(h + i - 1)] /\ Wrap(h + i - 1) \in Slots
  BY RingIsSeq
<1>4. /\ new \in Seq(V) /\ Len(new) = n + 1
      /\ \A i \in 1 .. n + 1 : new[i] = st2[Wrap(g + i - 1)] /\ Wrap(g + i - 1) \in Slots
  <2>. DEFINE m == n + 1
  <2>1. m \in 0 .. Capacity
    OBVIOUS
  <2>2. st2 \in [Slots -> V]
    BY <1>2
  <2>3. g \in Slots
    BY <1>1
  <2>. HIDE DEF m
  <2>4. /\ RingSeq(st2, g, m) \in Seq(V) /\ Len(RingSeq(st2, g, m)) = m
        /\ \A i \in 1 .. m : /\ RingSeq(st2, g, m)[i] = st2[Wrap(g + i - 1)]
                             /\ Wrap(g + i - 1) \in Slots
    BY <2>1, <2>2, <2>3, RingIsSeq
  <2>. QED  BY <2>4 DEF m
<1>. HIDE DEF old, new
<1>5. \A i \in 1 .. n : /\ Wrap(g + (i + 1) - 1) = Wrap(h + i - 1)
                        /\ Wrap(h + i - 1) # g
  BY <1>1 DEF Wrap, Slots
<1>6. \A i \in 1 .. n : new[i + 1] = old[i]
  <2>1. \A i \in 1 .. n : i + 1 \in 1 .. n + 1
    OBVIOUS
  <2>2. \A i \in 1 .. n : new[i + 1] = st2[Wrap(g + (i + 1) - 1)]
    BY <2>1, <1>4
  <2>. QED  BY <2>2, <1>2, <1>3, <1>5
<1>7. new[1] = x
  <2>1. Wrap(g + 1 - 1) = g /\ 1 \in 1 .. n + 1
    BY <1>1 DEF Wrap, Slots
  <2>. QED  BY <2>1, <1>2, <1>4
<1>8. <<x>> \in Seq(V) /\ Len(<<x>>) = 1 /\ <<x>>[1] = x
  OBVIOUS
<1>9. /\ <<x>> \o old \in Seq(V) /\ Len(<<x>> \o old) = n + 1
      /\ \A i \in 1 .. n + 1 : (<<x>> \o old)[i] = IF i <= 1 THEN x ELSE old[i - 1]
  <2>1. /\ <<x>> \o old \in Seq(V) /\ Len(<<x>> \o old) = 1 + n
        /\ \A i \in 1 .. 1 + n :
              (<<x>> \o old)[i] = IF i <= 1 THEN <<x>>[i] ELSE old[i - 1]
    BY <1>3, <1>8, ConcatProperties
  <2>. QED  BY <2>1, <1>8
<1>10. ASSUME NEW i \in 1 .. n + 1
       PROVE  new[i] = (<<x>> \o old)[i]
  <2>1. CASE i = 1
    BY <2>1, <1>7, <1>9
  <2>2. CASE i > 1
    <3>1. i - 1 \in 1 .. n /\ (i - 1) + 1 = i
      BY <2>2
    <3>2. new[i] = old[i - 1]
      BY <3>1, <1>6
    <3>3. (<<x>> \o old)[i] = old[i - 1]
      BY <2>2, <1>9
    <3>. QED  BY <3>2, <3>3
  <2>3. i = 1 \/ i > 1
    OBVIOUS
  <2>. QED  BY <2>1, <2>2, <2>3
<1>11. new = <<x>> \o old
  BY <1>4, <1>9, <1>10, SeqEqual
<1>. QED  BY <1>1, <1>11 DEF old, g, st2, new

\* Overwriting a full ring drops the oldest item and appends.
LEMMA RingOverwrite ==
  ASSUME NEW V, NEW st \in [Slots -> V], NEW h \in Slots,
         NEW n \in 0 .. Capacity, n >= Capacity, NEW x \in V
  PROVE  RingSeq([st EXCEPT ![h] = x], (h + 1) % Capacity, n)
           = Append(Tail(RingSeq(st, h, n)), x)
<1>. USE CapacityAssumption
<1>. DEFINE old == RingSeq(st, h, n)
            g   == (h + 1) % Capacity
            st2 == [st EXCEPT ![h] = x]
            new == RingSeq(st2, g, n)
<1>1. g = Wrap(h + 1) /\ g \in Slots
  <2>1. h + 1 \in 0 .. 2 * Capacity - 1
    BY DEF Slots
  <2>. QED  BY <2>1, RemainderIsWrap
<1>. HIDE DEF g
<1>2. /\ st2 \in [Slots -> V]
      /\ st2[h] = x
      /\ \A j \in Slots : j # h => st2[j] = st[j]
  OBVIOUS
<1>. HIDE DEF st2
<1>3. /\ old \in Seq(V) /\ Len(old) = n
      /\ \A i \in 1 .. n : old[i] = st[Wrap(h + i - 1)] /\ Wrap(h + i - 1) \in Slots
  BY RingIsSeq
<1>4. /\ new \in Seq(V) /\ Len(new) = n
      /\ \A i \in 1 .. n : new[i] = st2[Wrap(g + i - 1)] /\ Wrap(g + i - 1) \in Slots
  <2>2. st2 \in [Slots -> V]
    BY <1>2
  <2>3. g \in Slots
    BY <1>1
  <2>. QED  BY <2>2, <2>3, RingIsSeq
<1>. HIDE DEF old, new
<1>0. n = Capacity
  OBVIOUS
<1>5. /\ Tail(old) \in Seq(V) /\ Len(Tail(old)) = n - 1
      /\ \A i \in 1 .. n - 1 : Tail(old)[i] = old[i + 1]
  <2>1. old # << >>
    BY <1>0, <1>3
  <2>. QED  BY <2>1, <1>3, HeadTailProperties
<1>6. /\ Append(Tail(old), x) \in Seq(V) /\ Len(Append(Tail(old), x)) = n
      /\ \A i \in 1 .. n - 1 : Append(Tail(old), x)[i] = Tail(old)[i]
      /\ Append(Tail(old), x)[n] = x
  <2>1. /\ Append(Tail(old), x) \in Seq(V)
        /\ Len(Append(Tail(old), x)) = Len(Tail(old)) + 1
        /\ \A i \in 1 .. Len(Tail(old)) : Append(Tail(old), x)[i] = Tail(old)[i]
        /\ Append(Tail(old), x)[Len(Tail(old)) + 1] = x
    BY <1>5, AppendProperties
  <2>. QED  BY <2>1, <1>5
<1>7. \A i \in 1 .. n - 1 : /\ Wrap(g + i - 1) = Wrap(h + (i + 1) - 1)
                            /\ Wrap(g + i - 1) # h
  BY <1>0, <1>1 DEF Wrap, Slots
<1>8. \A i \in 1 .. n - 1 : new[i] = old[i + 1]
  <2>1. \A i \in 1 .. n - 1 : i \in 1 .. n /\ i + 1 \in 1 .. n
    OBVIOUS
  <2>. QED  BY <2>1, <1>2, <1>3, <1>4, <1>7
<1>9. new[n] = x
  <2>1. Wrap(g + n - 1) = h /\ n \in 1 .. n
    BY <1>0, <1>1 DEF Wrap, Slots
  <2>. QED  BY <2>1, <1>2, <1>4
<1>10. \A i \in 1 .. Len(new) : new[i] = Append(Tail(old), x)[i]
  <2>1. \A i \in 1 .. n : i = n \/ i \in 1 .. n - 1
    OBVIOUS
  <2>. QED  BY <2>1, <1>4, <1>5, <1>6, <1>8, <1>9
<1>11. new = Append(Tail(old), x)
  BY <1>4, <1>6, <1>10, SeqEqual
<1>. QED  BY <1>1, <1>11 DEF old, g, st2, new

\* A take reads the oldest item and leaves the rest in order.
LEMMA RingTake ==
  ASSUME NEW V, NEW st \in [Slots -> V], NEW h \in Slots,
         NEW n \in 0 .. Capacity, n # 0
  PROVE  /\ (h + 1) % Capacity \in Slots
         /\ RingSeq(st, h, n) # << >>
         /\ Head(RingSeq(st, h, n)) = st[h]
         /\ RingSeq(st, (h + 1) % Capacity, n - 1) = Tail(RingSeq(st, h, n))
<1>. USE CapacityAssumption
<1>. DEFINE old == RingSeq(st, h, n)
            g   == (h + 1) % Capacity
            new == RingSeq(st, g, n - 1)
<1>1. g = Wrap(h + 1) /\ g \in Slots
  <2>1. h + 1 \in 0 .. 2 * Capacity - 1
    BY DEF Slots
  <2>. QED  BY <2>1, RemainderIsWrap
<1>. HIDE DEF g
<1>2. /\ old \in Seq(V) /\ Len(old) = n
      /\ \A i \in 1 .. n : old[i] = st[Wrap(h + i - 1)] /\ Wrap(h + i - 1) \in Slots
  BY RingIsSeq
<1>3. /\ new \in Seq(V) /\ Len(new) = n - 1
      /\ \A i \in 1 .. n - 1 : new[i] = st[Wrap(g + i - 1)] /\ Wrap(g + i - 1) \in Slots
  <2>1. n - 1 \in 0 .. Capacity
    OBVIOUS
  <2>2. g \in Slots
    BY <1>1
  <2>. QED  BY <2>1, <2>2, RingIsSeq
<1>. HIDE DEF old, new
<1>4. old # << >>
  BY <1>2
<1>5. /\ Tail(old) \in Seq(V) /\ Len(Tail(old)) = n - 1
      /\ \A i \in 1 .. n - 1 : Tail(old)[i] = old[i + 1]
  BY <1>2, <1>4, HeadTailProperties
<1>6. Head(old) = st[h]
  <2>1. Wrap(h + 1 - 1) = h /\ 1 \in 1 .. n
    BY DEF Wrap, Slots
  <2>2. Head(old) = old[1]
    BY <1>2, <1>4
  <2>. QED  BY <2>1, <2>2, <1>2
<1>7. \A i \in 1 .. n - 1 : Wrap(g + i - 1) = Wrap(h + (i + 1) - 1)
  BY <1>1 DEF Wrap, Slots
<1>8. \A i \in 1 .. Len(new) : new[i] = Tail(old)[i]
  <2>1. \A i \in 1 .. n - 1 : i + 1 \in 1 .. n
    OBVIOUS
  <2>. QED  BY <2>1, <1>2, <1>3, <1>5, <1>7
<1>9. new = Tail(old)
  BY <1>3, <1>5, <1>8, SeqEqual
<1>. QED  BY <1>1, <1>4, <1>6, <1>9 DEF old, g, new

-----------------------------------------------------------------------------
(***************************************************************************)
(* The inductive invariant.  NoLostWake needs, beside the types, that only *)
(* a call which may block is ever asleep, and that the arguments a context *)
(* works with are the ones it was called with.                             *)
(***************************************************************************)
CallsOK ==
  \A p \in Tasks :
     /\ pc[p] = "idle" <=> call[p] = NoCall
     /\ pc[p] # "idle" => call[p] \in Offers[p]
     /\ pc[p] = "wait" => MayBlock(call[p])
     /\ got[p] # NoItem => pc[p] = "wake"

IndInv == TypeOK /\ CallsOK /\ NoLostWake

\* What is known of the arguments of a context inside a call.
LEMMA CallFacts ==
  ASSUME NEW p \in Tasks, NEW c \in Offers[p]
  PROVE  /\ c \in Call /\ c # NoCall
         /\ c.op \in Ops /\ c.timeout \in Timeouts
         /\ c.op \in SendOps => c.item \in Items
         /\ c.op = "reset" => ~MayBlock(c)
BY OffersAssumption, NoneAssumption DEF Call, MayBlock

\* The ring stays well formed through the two locked updates.
LEMMA SendTypes ==
  ASSUME TypeOK, NEW copy \in SendOps, NEW x \in Items,
         copy \in {"back", "front"} => ~Full,
         s31_queue_send_locked(copy, x)
  PROVE  /\ store' \in [Slots -> Items \cup {NoItem}]
         /\ head' \in Slots
         /\ count' \in 0 .. Capacity /\ count' # 0
<1>. USE CapacityAssumption
<1>1. /\ (head + Capacity - 1) % Capacity \in Slots
      /\ (head + 1) % Capacity \in Slots
      /\ (head + count) % Capacity \in Slots
  <2>1. /\ head + Capacity - 1 \in 0 .. 2 * Capacity - 1
        /\ head + 1 \in 0 .. 2 * Capacity - 1
        /\ head + count \in 0 .. 2 * Capacity - 1
    BY DEF TypeOK, Slots
  <2>. QED  BY <2>1, RemainderIsWrap
<1>2. SendSlot(copy) \in Slots /\ SendHead(copy) \in Slots
  BY <1>1 DEF SendSlot, SendHead, TypeOK, SendOps
<1>. QED  BY <1>2 DEF s31_queue_send_locked, TypeOK, Full

\* What a receive leaves behind is again a ring of this capacity.
LEMMA TakeTypes ==
  ASSUME TypeOK, NEW p \in Tasks, count # 0, s31_queue_take_locked(p)
  PROVE  /\ store' \in [Slots -> Items \cup {NoItem}]
         /\ head' \in Slots
         /\ count' \in 0 .. Capacity
         /\ got' \in [Tasks -> Items \cup {NoItem}]
<1>. USE CapacityAssumption
<1>1. head + 1 \in 0 .. 2 * Capacity - 1
  BY DEF TypeOK, Slots
<1>2. (head + 1) % Capacity \in Slots
  BY <1>1, RemainderIsWrap
<1>. QED  BY <1>2 DEF s31_queue_take_locked, TypeOK

\* A fresh queue with nobody inside a call satisfies the invariant.
LEMMA InitIndInv == Init => IndInv
<1>. SUFFICES ASSUME Init PROVE IndInv
  OBVIOUS
<1>1. TypeOK
  BY CapacityAssumption DEF Init, TypeOK, Slots, PCs, SyncInit
<1>2. CallsOK /\ NoLostWake
  BY DEF Init, CallsOK, NoLostWake, SyncInit
<1>. QED  BY <1>1, <1>2 DEF IndInv

\* Every step keeps head, count, the slots and the calls in range.
LEMMA NextTypeOK == IndInv /\ [Next]_vars => TypeOK'
<1>. SUFFICES ASSUME IndInv, [Next]_vars PROVE TypeOK'
  OBVIOUS
<1>. USE DEF IndInv
<1>1. CASE UNCHANGED vars
  BY <1>1 DEF vars, TypeOK, Slots
<1>2. ASSUME NEW p \in Tasks, Enter(p) PROVE TypeOK'
  BY <1>2, CallFacts DEF Enter, xQueueGenericSend, xQueueReceive, xQueueGenericSendFromISR,
       xQueueReceiveFromISR, xQueueGenericReset, Begin, SyncSequence, TypeOK, PCs
<1>3. ASSUME NEW p \in Tasks, SendApplied(p) PROVE TypeOK'
  <2>1. /\ call[p].op \in SendOps /\ call[p].item \in Items
        /\ call[p].op \in {"back", "front"} => ~Full
    BY <1>3, CallFacts DEF SendApplied, CallsOK, Ready
  <2>. QED  BY <1>3, <2>1, SendTypes DEF SendApplied, TypeOK, PCs
<1>4. ASSUME NEW p \in Tasks, ReceiveApplied(p) PROVE TypeOK'
  <2>1. count # 0
    BY <1>4 DEF ReceiveApplied, Ready
  <2>. QED  BY <1>4, <2>1, TakeTypes DEF ReceiveApplied, TypeOK, PCs
<1>5. ASSUME NEW p \in Tasks, ResetApplied(p) PROVE TypeOK'
  BY <1>5, CapacityAssumption DEF ResetApplied, TypeOK, PCs, Slots
<1>6. ASSUME NEW p \in Tasks,
             Refused(p) \/ Park(p) \/ Woken(p) \/ TimedOut(p) \/ Interrupted(p) \/ Wake(p)
      PROVE  TypeOK'
  BY <1>6 DEF Refused, Park, Woken, TimedOut, Interrupted, Wake, Leave, ring,
              SyncForget, SyncSequence, SyncWake, TypeOK, PCs
<1>. QED  BY <1>1, <1>2, <1>3, <1>4, <1>5, <1>6 DEF Next, Locked

\* Every step keeps what a context is doing in agreement with its call.
LEMMA NextCallsOK == IndInv /\ [Next]_vars => CallsOK'
<1>. SUFFICES ASSUME IndInv, [Next]_vars PROVE CallsOK'
  OBVIOUS
<1>. USE DEF IndInv
<1>1. CASE UNCHANGED vars
  BY <1>1 DEF vars, CallsOK
<1>2. ASSUME NEW p \in Tasks, Enter(p) PROVE CallsOK'
  BY <1>2, CallFacts DEF Enter, xQueueGenericSend, xQueueReceive, xQueueGenericSendFromISR,
       xQueueReceiveFromISR, xQueueGenericReset, Begin, TypeOK, PCs, CallsOK
<1>3. ASSUME NEW p \in Tasks,
             SendApplied(p) \/ ReceiveApplied(p) \/ ResetApplied(p) \/ Park(p) \/ Woken(p)
      PROVE  CallsOK'
  BY <1>3 DEF SendApplied, ReceiveApplied, ResetApplied, Park, Woken,
              s31_queue_take_locked, TypeOK, PCs, CallsOK
<1>4. ASSUME NEW p \in Tasks, Refused(p) \/ TimedOut(p) \/ Interrupted(p) \/ Wake(p)
      PROVE  CallsOK'
  BY <1>4 DEF Refused, TimedOut, Interrupted, Wake, Leave, TypeOK, PCs, CallsOK
<1>. QED  BY <1>1, <1>2, <1>3, <1>4 DEF Next, Locked

\* No step leaves a sleeper with an up-to-date sample and a true predicate unwoken.
LEMMA NextNoLostWake == IndInv /\ [Next]_vars => NoLostWake'
<1>. SUFFICES ASSUME IndInv, [Next]_vars PROVE NoLostWake'
  OBVIOUS
<1>. USE DEF IndInv
<1>1. CASE UNCHANGED vars
  BY <1>1 DEF vars, NoLostWake, Waiting, WakePending
<1>2. ASSUME NEW p \in Tasks, Enter(p) PROVE NoLostWake'
  \* The entering context is not asleep, and it disturbs nobody else.
  BY <1>2 DEF Enter, xQueueGenericSend, xQueueReceive, xQueueGenericSendFromISR,
       xQueueReceiveFromISR, xQueueGenericReset, Begin, SyncSequence,
       NoLostWake, Waiting, WakePending, TypeOK
<1>3. ASSUME NEW p \in Tasks, SendApplied(p) \/ ReceiveApplied(p) \/ ResetApplied(p)
      PROVE  NoLostWake'
  \* Whatever the update enables, this context still owes a wake.
  <2>1. pc'[p] = "wake"
    BY <1>3 DEF SendApplied, ReceiveApplied, ResetApplied, TypeOK
  <2>. QED  BY <2>1 DEF NoLostWake, WakePending
<1>4. ASSUME NEW p \in Tasks, Park(p) PROVE NoLostWake'
  \* The context goes to sleep because its predicate was false under the lock.
  <2>1. /\ call[p].op = "receive" => count = 0
        /\ call[p].op \in {"back", "front"} => count = Capacity
    BY <1>4, CapacityAssumption DEF Park, Ready, Full, TypeOK
  <2>2. WakePending => WakePending'
    BY <1>4 DEF Park, WakePending, TypeOK
  <2>. QED  BY <1>4, <2>1, <2>2 DEF Park, NoLostWake, Waiting, TypeOK
<1>5. ASSUME NEW p \in Tasks, Woken(p) PROVE NoLostWake'
  BY <1>5 DEF Woken, SyncSequence, NoLostWake, Waiting, WakePending, TypeOK
<1>6. ASSUME NEW p \in Tasks, Refused(p) \/ TimedOut(p) \/ Interrupted(p)
      PROVE  NoLostWake'
  BY <1>6 DEF Refused, TimedOut, Interrupted, Leave, ring, SyncForget,
              NoLostWake, Waiting, WakePending, TypeOK
<1>7. ASSUME NEW p \in Tasks, Wake(p) PROVE NoLostWake'
  BY <1>7 DEF Wake, SyncWake, NoLostWake
<1>. QED  BY <1>1, <1>2, <1>3, <1>4, <1>5, <1>6, <1>7 DEF Next, Locked

\* IndInv is inductive.
THEOREM Invariance == Spec => []IndInv
<1>1. IndInv /\ [Next]_vars => IndInv'
  BY NextTypeOK, NextCallsOK, NextNoLostWake DEF IndInv
<1>. QED  BY <1>1, InitIndInv, PTL DEF Spec

(***************************************************************************)
(* Type correctness: head and count stay inside the ring through every     *)
(* wrap-around, for every queue_len given to xQueueGenericCreate.          *)
(***************************************************************************)
THEOREM TypeCorrect == Spec => []TypeOK
<1>1. IndInv => TypeOK
  BY DEF IndInv
<1>. QED  BY <1>1, Invariance, PTL

(***************************************************************************)
(* No lost wake in xQueueGenericSend and xQueueReceive, whatever the       *)
(* number of contexts on one queue and however their steps interleave.     *)
(***************************************************************************)
THEOREM LostWakeFree == Spec => []NoLostWake
<1>1. IndInv => NoLostWake
  BY DEF IndInv
<1>. QED  BY <1>1, Invariance, PTL

-----------------------------------------------------------------------------
(* The ring buffer implements the atomic queue. *)

\* A fresh ring stands for the empty sequence.
LEMMA InitRefines == Init => Atomic!Init
<1>. SUFFICES ASSUME Init PROVE Atomic!Init
  OBVIOUS
<1>1. Contents = << >>
  BY DEF Init, Contents, RingSeq
<1>. QED  BY <1>1 DEF Init, Atomic!Init

\* Every step of the code is a step of the atomic queue or a stutter.
LEMMA StepRefines == IndInv /\ IndInv' /\ [Next]_vars => [Atomic!Next]_Atomic!vars
<1>. SUFFICES ASSUME IndInv, IndInv', [Next]_vars PROVE [Atomic!Next]_Atomic!vars
  OBVIOUS
<1>. DEFINE done == [p \in Tasks |-> pc[p] = "wake"]
            V == Items \cup {NoItem}
<1>0. /\ Contents \in Seq(V) /\ Len(Contents) = count
      /\ Contents = << >> <=> count = 0
  <2>1. store \in [Slots -> V] /\ head \in Slots /\ count \in 0 .. Capacity
    BY DEF IndInv, TypeOK
  <2>2. Contents \in Seq(V) /\ Len(Contents) = count
    BY <2>1, RingIsSeq DEF Contents
  <2>. QED  BY <2>2
<1>1. CASE UNCHANGED vars
  BY <1>1 DEF vars, Atomic!vars, Contents
<1>2. ASSUME NEW p \in Tasks, Enter(p) PROVE Atomic!Next
  <2>1. PICK c \in Offers[p] : Begin(p, c)
    BY <1>2 DEF Enter, xQueueGenericSend, xQueueReceive, xQueueGenericSendFromISR,
         xQueueReceiveFromISR, xQueueGenericReset
  <2>2. Contents' = Contents /\ done' = done /\ got' = got
    BY <2>1 DEF Begin, Contents, IndInv, TypeOK
  <2>3. Atomic!Invoke(p)
    BY <2>1, <2>2 DEF Begin, Atomic!Invoke, IndInv, CallsOK
  <2>. QED  BY <2>3 DEF Atomic!Next
<1>3. ASSUME NEW p \in Tasks, Woken(p) \/ Park(p) PROVE UNCHANGED Atomic!vars
  BY <1>3 DEF Woken, Park, Atomic!vars, Contents, IndInv, TypeOK
<1>4. ASSUME NEW p \in Tasks, Refused(p) PROVE Atomic!Next
  <2>1. Contents' = Contents /\ done' = done /\ got' = got
    BY <1>4 DEF Refused, Leave, ring, Contents, IndInv, TypeOK, CallsOK
  <2>2. Atomic!Pending(p) /\ call' = [call EXCEPT ![p] = NoCall]
    BY <1>4 DEF Refused, Leave, Atomic!Pending, IndInv, CallsOK, TypeOK
  <2>3. CASE MayBlock(call[p])
    BY <2>1, <2>2, <2>3 DEF Atomic!GiveUp, Atomic!Next, Atomic!MayBlock, MayBlock
  <2>4. CASE ~MayBlock(call[p])
    <3>1. ~Atomic!Possible(call[p])
      BY <1>4, <1>0, CapacityAssumption
        DEF Refused, Ready, Full, Atomic!Possible, IndInv, TypeOK
    <3>. QED  BY <2>1, <2>2, <2>4, <3>1
                DEF Atomic!Refuse, Atomic!Next, Atomic!MayBlock, MayBlock
  <2>. QED  BY <2>3, <2>4
<1>5. ASSUME NEW p \in Tasks, TimedOut(p) \/ Interrupted(p) PROVE Atomic!Next
  <2>1. Contents' = Contents /\ done' = done /\ got' = got
    BY <1>5 DEF TimedOut, Interrupted, Leave, ring, Contents, IndInv, TypeOK, CallsOK
  <2>2. Atomic!Pending(p) /\ call' = [call EXCEPT ![p] = NoCall] /\ MayBlock(call[p])
    BY <1>5 DEF TimedOut, Interrupted, Leave, Atomic!Pending, IndInv, CallsOK, TypeOK
  <2>. QED  BY <2>1, <2>2 DEF Atomic!GiveUp, Atomic!Next, Atomic!MayBlock, MayBlock
<1>6. ASSUME NEW p \in Tasks, Wake(p) PROVE Atomic!Next
  <2>1. Contents' = Contents /\ done' = [done EXCEPT ![p] = FALSE]
    BY <1>6 DEF Wake, Leave, ring, Contents, IndInv, TypeOK
  <2>2. Atomic!Return(p)
    BY <1>6, <2>1 DEF Wake, Leave, Atomic!Return
  <2>. QED  BY <2>2 DEF Atomic!Next
<1>7. ASSUME NEW p \in Tasks, ReceiveApplied(p) PROVE Atomic!Next
  <2>1. count # 0 /\ call[p].op = "receive" /\ pc[p] = "check"
    BY <1>7 DEF ReceiveApplied, Ready
  <2>2. Contents # << >> /\ Contents' = Tail(Contents) /\ store[head] = Head(Contents)
    <3>1. store \in [Slots -> V] /\ head \in Slots /\ count \in 0 .. Capacity
      BY DEF IndInv, TypeOK
    <3>2. /\ RingSeq(store, head, count) # << >>
          /\ Head(RingSeq(store, head, count)) = store[head]
          /\ RingSeq(store, (head + 1) % Capacity, count - 1)
               = Tail(RingSeq(store, head, count))
      BY <2>1, <3>1, RingTake
    <3>. QED  BY <1>7, <3>2 DEF ReceiveApplied, s31_queue_take_locked, Contents
  <2>3. done' = [done EXCEPT ![p] = TRUE] /\ got' = [got EXCEPT ![p] = Head(Contents)]
    BY <1>7, <2>2 DEF ReceiveApplied, s31_queue_take_locked, IndInv, TypeOK
  <2>4. Atomic!Pending(p) /\ Atomic!Possible(call[p]) /\ call' = call
    BY <1>7, <2>1, <2>2 DEF ReceiveApplied, Atomic!Pending, Atomic!Possible,
         IndInv, CallsOK, TypeOK
  <2>5. Atomic!Apply(p)
    BY <2>1, <2>2, <2>3, <2>4 DEF Atomic!Apply
  <2>. QED  BY <2>5 DEF Atomic!Next
<1>8. ASSUME NEW p \in Tasks, ResetApplied(p) PROVE Atomic!Next
  <2>1. Contents' = << >> /\ call[p].op = "reset" /\ got' = got /\ call' = call
    BY <1>8 DEF ResetApplied, Contents, RingSeq
  <2>2. done' = [done EXCEPT ![p] = TRUE]
    BY <1>8 DEF ResetApplied, IndInv, TypeOK
  <2>3. Atomic!Pending(p) /\ Atomic!Possible(call[p])
    BY <1>8, <2>1 DEF ResetApplied, Atomic!Pending, Atomic!Possible, IndInv, CallsOK
  <2>4. Atomic!Apply(p)
    BY <2>1, <2>2, <2>3 DEF Atomic!Apply
  <2>. QED  BY <2>4 DEF Atomic!Next
<1>9. ASSUME NEW p \in Tasks, SendApplied(p) PROVE Atomic!Next
  <2>. DEFINE x == call[p].item
              copy == call[p].op
  <2>1. /\ copy \in SendOps /\ x \in Items /\ x \in V
        /\ copy \in {"back", "front"} => count < Capacity
    BY <1>9, CallFacts, CapacityAssumption
      DEF SendApplied, Ready, Full, IndInv, CallsOK, TypeOK
  <2>2. store \in [Slots -> V] /\ head \in Slots /\ count \in 0 .. Capacity
    BY DEF IndInv, TypeOK
  <2>3. Contents' = RingSeq([store EXCEPT ![SendSlot(copy)] = x], SendHead(copy),
                            IF count >= Capacity THEN count ELSE count + 1)
    BY <1>9 DEF SendApplied, s31_queue_send_locked, Contents, Full
  <2>0. x \in V
    BY <2>1
  <2>. HIDE DEF x, copy, V
  <2>4. Contents' = Atomic!Sent(copy, x)
    <3>1. CASE copy = "front"
      <4>1. count < Capacity
        BY <2>1, <3>1
      <4>2. /\ SendSlot(copy) = (head + Capacity - 1) % Capacity
            /\ SendHead(copy) = (head + Capacity - 1) % Capacity
        BY <3>1 DEF SendSlot, SendHead
      <4>3. Contents' = RingSeq([store EXCEPT ![(head + Capacity - 1) % Capacity] = x],
                                (head + Capacity - 1) % Capacity, count + 1)
        BY <2>2, <2>3, <4>1, <4>2, CapacityAssumption
      <4>4. Contents' = <<x>> \o Contents
        <5>1. RingSeq([store EXCEPT ![(head + Capacity - 1) % Capacity] = x],
                      (head + Capacity - 1) % Capacity, count + 1)
                = <<x>> \o RingSeq(store, head, count)
          BY <2>0, <2>2, <4>1, RingSendFront
        <5>. QED  BY <5>1, <4>3 DEF Contents
      <4>. QED  BY <4>4, <3>1 DEF Atomic!Sent
    <3>2. CASE copy # "front" /\ count < Capacity
      <4>1. SendSlot(copy) = (head + count) % Capacity /\ SendHead(copy) = head
        BY <3>2, <2>1, <2>2, CapacityAssumption DEF SendSlot, SendHead, SendOps, Full
      <4>2. Contents' = RingSeq([store EXCEPT ![(head + count) % Capacity] = x],
                                head, count + 1)
        BY <2>2, <2>3, <3>2, <4>1, CapacityAssumption
      <4>3. Contents' = Append(Contents, x)
        <5>1. RingSeq([store EXCEPT ![(head + count) % Capacity] = x], head, count + 1)
                = Append(RingSeq(store, head, count), x)
          BY <2>0, <2>2, <3>2, RingSendBack
        <5>. QED  BY <5>1, <4>2 DEF Contents
      <4>. QED  BY <4>3, <3>2, <1>0, <2>2, CapacityAssumption DEF Atomic!Sent
    <3>3. CASE copy # "front" /\ ~(count < Capacity)
      <4>1. copy = "overwrite" /\ count = Capacity
        BY <3>3, <2>1, <2>2, CapacityAssumption DEF SendOps
      <4>2. SendSlot(copy) = head /\ SendHead(copy) = (head + 1) % Capacity
        BY <4>1, CapacityAssumption DEF SendSlot, SendHead, Full
      <4>3. Contents' = RingSeq([store EXCEPT ![head] = x], (head + 1) % Capacity, count)
        <5>1. (IF count >= Capacity THEN count ELSE count + 1) = count
          BY <4>1, CapacityAssumption
        <5>. QED  BY <2>3, <4>2, <5>1
      <4>4. count >= Capacity
        BY <4>1, CapacityAssumption
      <4>5. Contents' = Append(Tail(Contents), x)
        <5>1. RingSeq([store EXCEPT ![head] = x], (head + 1) % Capacity, count)
                = Append(Tail(RingSeq(store, head, count)), x)
          BY <2>0, <2>2, <4>4, RingOverwrite
        <5>. QED  BY <5>1, <4>3 DEF Contents
      <4>. QED  BY <4>1, <4>5, <1>0 DEF Atomic!Sent
    <3>. QED  BY <3>1, <3>2, <3>3
  <2>. USE DEF x, copy, V
  <2>5. done' = [done EXCEPT ![p] = TRUE] /\ got' = got /\ call' = call
    BY <1>9 DEF SendApplied, IndInv, TypeOK
  <2>6. Atomic!Pending(p) /\ Atomic!Possible(call[p])
    BY <1>9, <1>0, <2>1, <2>2 DEF SendApplied, Atomic!Pending, Atomic!Possible,
         IndInv, CallsOK, SendOps
  <2>7. Atomic!Apply(p)
    BY <2>1, <2>4, <2>5, <2>6 DEF Atomic!Apply, SendOps
  <2>. QED  BY <2>7 DEF Atomic!Next
<1>. QED  BY <1>1, <1>2, <1>3, <1>4, <1>5, <1>6, <1>7, <1>8, <1>9 DEF Next, Locked

(***************************************************************************)
(* xQueueGenericSend, xQueueReceive, their FromISR variants and            *)
(* xQueueGenericReset over the ring implement the atomic queue: FIFO       *)
(* order, no loss, no duplication and no effect of a failed call, for      *)
(* every capacity and any number of callers.                               *)
(***************************************************************************)
THEOREM Refinement == Spec => AtomicSpec
<1>1. Spec => []IndInv
  BY Invariance
<1>. QED  BY <1>1, InitRefines, StepRefines, PTL DEF Spec, AtomicSpec, Atomic!Spec
=============================================================================
