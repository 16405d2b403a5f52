--------------------------- MODULE S31LocksProofs ---------------------------
(***************************************************************************)
(* For any number of tasks, locks and slots: a task inside a C-library     *)
(* lock owns the lock's mutex unless it went in unguarded, so two guarded  *)
(* tasks are never inside the same lock.                                   *)
(*                                                                         *)
(* HeldIsBacked is not inductive.  What it needs besides the types: a slot *)
(* whose mutex is held belongs to some lock and its owner is inside that   *)
(* lock at least as deep as the mutex (Held), and a waiting task's slot    *)
(* still belongs to the lock it asked for (Waits), which rests on          *)
(* _lock_close being called only for locks nobody is in or waits for.      *)
(***************************************************************************)
EXTENDS S31Locks, TLAPS

Held ==
  \A i \in Table :
     /\ owner[i] = NoTask <=> depth[i] = 0
     /\ owner[i] # NoTask => key[i] # NoLock /\ depth[i] <= inside[owner[i]][key[i]]

Waits ==
  \A p \in Tasks :
     /\ wants[p] = 0 => asked[p] = NoLock
     /\ wants[p] # 0 => /\ asked[p] \in Locks
                        /\ key[wants[p]] = asked[p]
                        /\ inside[p][asked[p]] < MaxDepth

IndInv == TypeOK /\ Held /\ Waits /\ HeldIsBacked

\* A freshly initialised table satisfies the invariant.
LEMMA InitIndInv == Init => IndInv
BY LockAssumption DEF Init, IndInv, TypeOK, Held, Waits, HeldIsBacked, Table

\* Assigning a slot: it was the lock's own, or an empty one; keys stay unique.
LEMMA AssignFacts ==
  ASSUME TypeOK, NEW l \in Locks, NEW i \in Table, Gets(l, i), Assign(l, i)
  PROVE  /\ key[i] = l \/ (key[i] = NoLock /\ \A j \in Table : key[j] # l)
         /\ key' \in [Table -> Locks \cup {NoLock}]
         /\ key'[i] = l
         /\ \A j \in Table : j # i => key'[j] = key[j]
         /\ \A j, k \in Table : key'[j] = key'[k] /\ key'[j] # NoLock => j = k
<1>1. key[i] = l \/ (key[i] = NoLock /\ \A j \in Table : key[j] # l)
  BY DEF Gets, SlotsOf
<1>2. key' \in [Table -> Locks \cup {NoLock}] /\ key'[i] = l
      /\ \A j \in Table : j # i => key'[j] = key[j]
  BY DEF Assign, TypeOK
<1> QED
  BY <1>1, <1>2 DEF TypeOK

\* An assigned slot is one whose mutex nobody holds, or the lock's own: what is
\* held, waited for and backed stays so.
LEMMA AssignKeeps ==
  ASSUME IndInv, NEW l \in Locks, NEW i \in Table, Gets(l, i), Assign(l, i),
         UNCHANGED <<owner, depth, inside, unguarded>>
  PROVE  /\ Held' /\ HeldIsBacked'
         /\ \A p \in Tasks : wants[p] # 0 => key'[wants[p]] = key[wants[p]]
<1>1. /\ key[i] = l \/ (key[i] = NoLock /\ \A j \in Table : key[j] # l)
      /\ key' \in [Table -> Locks \cup {NoLock}]
      /\ key'[i] = l
      /\ \A j \in Table : j # i => key'[j] = key[j]
  BY AssignFacts DEF IndInv
<1>2. Held'
  BY <1>1, LockAssumption DEF IndInv, TypeOK, Held
<1>3. HeldIsBacked'
  BY <1>1, LockAssumption DEF IndInv, TypeOK, HeldIsBacked, SlotsOf
<1>4. ASSUME NEW p \in Tasks, wants[p] # 0
      PROVE  key'[wants[p]] = key[wants[p]]
  <2>1. wants[p] \in Table /\ key[wants[p]] \in Locks
    BY <1>4, LockAssumption DEF IndInv, TypeOK, Waits, Table
  <2> QED BY <2>1, <1>1, LockAssumption
<1> QED
  BY <1>2, <1>3, <1>4

\* A task takes a mutex: it goes in as deep as it has the mutex.
LEMMA TakeIndInv ==
  ASSUME IndInv, NEW p \in Tasks, NEW l \in Locks, NEW i \in Table,
         key'[i] = l, key' \in [Table -> Locks \cup {NoLock}],
         \A j, k \in Table : key'[j] = key'[k] /\ key'[j] # NoLock => j = k,
         key[i] = l \/ (key[i] = NoLock /\ \A j \in Table : key[j] # l),
         \A j \in Table : j # i => key'[j] = key[j],
         inside[p][l] < MaxDepth, CanTake(p, i), Taken(p, i), Enter(p, l),
         UNCHANGED unguarded
  PROVE  /\ Held' /\ HeldIsBacked'
         /\ owner' \in [Table -> Tasks \cup {NoTask}]
         /\ depth' \in [Table -> 0 .. MaxDepth]
         /\ inside' \in [Tasks -> [Locks -> 0 .. MaxDepth]]
<1>1. /\ owner' = [owner EXCEPT ![i] = p]
      /\ depth' = [depth EXCEPT ![i] = depth[i] + 1]
      /\ inside' = [inside EXCEPT ![p][l] = inside[p][l] + 1]
      /\ owner[i] \in {NoTask, p}
  BY DEF Taken, Enter, CanTake
<1>2. /\ owner[i] = NoTask => depth[i] = 0
      /\ owner[i] = p => depth[i] <= inside[p][l] /\ key[i] = l
  BY <1>1, LockAssumption DEF IndInv, TypeOK, Held
<1>3. depth[i] <= inside[p][l]
  BY <1>1, <1>2 DEF IndInv, TypeOK
<1>4. /\ owner' \in [Table -> Tasks \cup {NoTask}]
      /\ depth' \in [Table -> 0 .. MaxDepth]
      /\ inside' \in [Tasks -> [Locks -> 0 .. MaxDepth]]
  BY <1>1, <1>3, LockAssumption DEF IndInv, TypeOK
<1>5. /\ inside'[p][l] = inside[p][l] + 1
      /\ \A q \in Tasks, m \in Locks : <<q, m>> # <<p, l>> => inside'[q][m] = inside[q][m]
      /\ owner'[i] = p /\ depth'[i] = depth[i] + 1
      /\ \A j \in Table : j # i => owner'[j] = owner[j] /\ depth'[j] = depth[j]
  BY <1>1 DEF IndInv, TypeOK
<1>6. Held'
  <2> SUFFICES ASSUME NEW j \in Table
               PROVE  /\ owner'[j] = NoTask <=> depth'[j] = 0
                      /\ owner'[j] # NoTask => /\ key'[j] # NoLock
                                               /\ depth'[j] <= inside'[owner'[j]][key'[j]]
    BY DEF Held
  <2>1. CASE j = i
    BY <2>1, <1>3, <1>5, LockAssumption DEF IndInv, TypeOK
  <2>2. CASE j # i
    <3>1. owner[j] # NoTask => owner[j] \in Tasks /\ key[j] \in Locks /\ key[j] # l
      BY <2>2, LockAssumption DEF IndInv, TypeOK, Held
    <3> QED BY <2>2, <3>1, <1>5 DEF IndInv, TypeOK, Held
  <2> QED BY <2>1, <2>2
<1>7. HeldIsBacked'
  <2> SUFFICES ASSUME NEW m \in Locks, NEW q \in Tasks,
                      inside'[q][m] > 0, <<q, m>> \notin unguarded
               PROVE  \E j \in Table : key'[j] = m /\ owner'[j] = q /\ depth'[j] = inside'[q][m]
    BY DEF HeldIsBacked, SlotsOf
  <2>1. CASE q = p /\ m = l
    <3>1. CASE inside[p][l] = 0
      BY <3>1, <2>1, <1>2, <1>3, <1>5 DEF IndInv, TypeOK
    <3>2. CASE inside[p][l] > 0
      <4>1. PICK j \in Table : key[j] = l /\ owner[j] = p /\ depth[j] = inside[p][l]
        BY <3>2, <2>1 DEF IndInv, HeldIsBacked, SlotsOf
      <4>2. j = i
        BY <4>1, LockAssumption DEF IndInv, TypeOK
      <4> QED BY <4>1, <4>2, <2>1, <1>5 DEF IndInv, TypeOK
    <3> QED BY <3>1, <3>2 DEF IndInv, TypeOK
  <2>2. CASE ~(q = p /\ m = l)
    <3>1. inside'[q][m] = inside[q][m]
      BY <2>2, <1>5
    <3>2. PICK j \in Table : key[j] = m /\ owner[j] = q /\ depth[j] = inside[q][m]
      BY <3>1 DEF IndInv, HeldIsBacked, SlotsOf
    <3>3. j # i
      BY <3>2, <2>2, <1>1, LockAssumption DEF IndInv, TypeOK
    <3> QED BY <3>1, <3>2, <3>3, <1>5
  <2> QED BY <2>1, <2>2
<1> QED
  BY <1>4, <1>6, <1>7

\* A task goes in without the mutex: nothing is claimed of it from then on.
LEMMA UnguardedIndInv ==
  ASSUME IndInv, NEW p \in Tasks, NEW l \in Locks, inside[p][l] < MaxDepth,
         EnterUnguarded(p, l), UNCHANGED table
  PROVE  /\ Held' /\ HeldIsBacked'
         /\ inside' \in [Tasks -> [Locks -> 0 .. MaxDepth]]
         /\ unguarded' \in SUBSET (Tasks \X Locks)
         /\ \A q \in Tasks, m \in Locks : q # p => inside'[q][m] = inside[q][m]
<1>1. /\ inside' = [inside EXCEPT ![p][l] = inside[p][l] + 1]
      /\ unguarded' = unguarded \cup {<<p, l>>}
      /\ key' = key /\ owner' = owner /\ depth' = depth
  BY DEF EnterUnguarded, Enter, table
<1>2. /\ inside' \in [Tasks -> [Locks -> 0 .. MaxDepth]]
      /\ inside'[p][l] = inside[p][l] + 1
      /\ \A q \in Tasks, m \in Locks : <<q, m>> # <<p, l>> => inside'[q][m] = inside[q][m]
  BY <1>1, LockAssumption DEF IndInv, TypeOK
<1>3. unguarded' \in SUBSET (Tasks \X Locks)
  BY <1>1 DEF IndInv, TypeOK
<1>4. Held'
  <2> SUFFICES ASSUME NEW j \in Table, owner[j] # NoTask
               PROVE  depth[j] <= inside'[owner[j]][key[j]]
    BY <1>1 DEF IndInv, Held
  <2>1. /\ owner[j] \in Tasks /\ key[j] \in Locks /\ depth[j] \in Nat
        /\ depth[j] <= inside[owner[j]][key[j]]
    BY LockAssumption DEF IndInv, TypeOK, Held
  <2>2. inside[owner[j]][key[j]] \in Nat /\ inside[p][l] \in Nat
    BY <2>1 DEF IndInv, TypeOK
  <2> QED BY <1>2, <2>1, <2>2
<1>5. HeldIsBacked'
  BY <1>1, <1>2 DEF IndInv, HeldIsBacked, SlotsOf
<1> QED
  BY <1>2, <1>3, <1>4, <1>5

\* A release gives the mutex its caller owns, and no other.
LEMMA ReleaseIndInv ==
  ASSUME IndInv, NEW p \in Tasks, NEW l \in Locks, _lock_release(p, l)
  PROVE  IndInv'
<1> DEFINE Mine(j) == key[j] = l /\ owner[j] = p
<1>1. /\ \A j \in Table : depth'[j] = IF Mine(j) THEN depth[j] - 1 ELSE depth[j]
      /\ \A j \in Table : owner'[j] = IF Mine(j) /\ depth[j] = 1 THEN NoTask ELSE owner[j]
      /\ depth' = [j \in Table |-> depth'[j]]
      /\ owner' = [j \in Table |-> owner'[j]]
      /\ inside' = [inside EXCEPT ![p][l] = inside[p][l] - 1]
      /\ inside[p][l] > 0 /\ wants[p] = 0
      /\ unguarded' = IF inside[p][l] = 1 THEN unguarded \ {<<p, l>>} ELSE unguarded
      /\ key' = key /\ wants' = wants /\ asked' = asked
  BY DEF _lock_release, s31_lock_give, Given, SlotsOf, Free
<1>2. \A j \in Table : /\ depth[j] \in 0 .. MaxDepth
                        /\ Mine(j) => depth[j] > 0 /\ depth[j] <= inside[p][l]
  BY LockAssumption DEF IndInv, TypeOK, Held
<1>3. /\ inside' \in [Tasks -> [Locks -> 0 .. MaxDepth]]
      /\ inside'[p][l] = inside[p][l] - 1
      /\ \A q \in Tasks, m \in Locks : <<q, m>> # <<p, l>> => inside'[q][m] = inside[q][m]
  BY <1>1, LockAssumption DEF IndInv, TypeOK
<1>4. TypeOK'
  <2>1. depth' \in [Table -> 0 .. MaxDepth]
    <3>1. \A j \in Table : depth'[j] \in 0 .. MaxDepth
      <4> SUFFICES ASSUME NEW j \in Table PROVE depth'[j] \in 0 .. MaxDepth
        OBVIOUS
      <4>1. CASE Mine(j)
        <5>1. depth[j] \in 0 .. MaxDepth
          BY DEF IndInv, TypeOK
        <5>2. depth[j] # 0
          BY <4>1, LockAssumption DEF IndInv, TypeOK, Held
        <5>3. depth'[j] = depth[j] - 1
          BY <4>1, <1>1
        <5> QED BY <5>1, <5>2, <5>3, LockAssumption
      <4>2. CASE ~Mine(j)
        <5>1. depth[j] \in 0 .. MaxDepth
          BY DEF IndInv, TypeOK
        <5>2. depth'[j] = depth[j]
          BY <4>2, <1>1
        <5> QED BY <5>1, <5>2
      <4> QED BY <4>1, <4>2
    <3>2. depth' = [j \in Table |-> IF Mine(j) THEN depth[j] - 1 ELSE depth[j]]
      BY DEF _lock_release, s31_lock_give, Given, SlotsOf
    <3> QED BY <3>1, <3>2
  <2>2. owner' \in [Table -> Tasks \cup {NoTask}]
    BY <1>1 DEF IndInv, TypeOK
  <2>3. unguarded' \in SUBSET (Tasks \X Locks)
    BY <1>1 DEF IndInv, TypeOK
  <2> QED BY <1>1, <1>3, <2>1, <2>2, <2>3 DEF IndInv, TypeOK
<1>5. Held'
  <2> SUFFICES ASSUME NEW j \in Table
               PROVE  /\ owner'[j] = NoTask <=> depth'[j] = 0
                      /\ owner'[j] # NoTask => /\ key[j] # NoLock
                                               /\ depth'[j] <= inside'[owner'[j]][key[j]]
    BY <1>1 DEF Held
  <2>1. CASE Mine(j)
    BY <2>1, <1>1, <1>2, <1>3, LockAssumption DEF IndInv, TypeOK, Held
  <2>2. CASE ~Mine(j)
    <3>1. owner'[j] = owner[j] /\ depth'[j] = depth[j]
      BY <2>2, <1>1
    <3>2. owner[j] # NoTask => owner[j] \in Tasks /\ key[j] \in Locks
      BY LockAssumption DEF IndInv, TypeOK, Held
    <3>3. owner[j] # NoTask => inside'[owner[j]][key[j]] = inside[owner[j]][key[j]]
      BY <2>2, <3>2, <1>3
    <3> QED BY <3>1, <3>3 DEF IndInv, Held
  <2> QED BY <2>1, <2>2
<1>6. Waits'
  <2> SUFFICES ASSUME NEW q \in Tasks
               PROVE  /\ wants[q] = 0 => asked[q] = NoLock
                      /\ wants[q] # 0 => /\ asked[q] \in Locks
                                         /\ key[wants[q]] = asked[q]
                                         /\ inside'[q][asked[q]] < MaxDepth
    BY <1>1 DEF Waits
  <2>1. wants[q] # 0 => q # p
    BY <1>1
  <2> QED BY <2>1, <1>3 DEF IndInv, Waits
<1>7. HeldIsBacked'
  <2> SUFFICES ASSUME NEW m \in Locks, NEW q \in Tasks,
                      inside'[q][m] > 0, <<q, m>> \notin unguarded'
               PROVE  \E j \in Table : key[j] = m /\ owner'[j] = q /\ depth'[j] = inside'[q][m]
    BY <1>1 DEF HeldIsBacked, SlotsOf
  <2>1. CASE q = p /\ m = l
    <3>1. inside[p][l] > 1 /\ <<p, l>> \notin unguarded
      BY <2>1, <1>1, <1>3 DEF IndInv, TypeOK
    <3>2. PICK j \in Table : key[j] = l /\ owner[j] = p /\ depth[j] = inside[p][l]
      BY <3>1, <1>1 DEF IndInv, HeldIsBacked, SlotsOf
    <3> QED BY <2>1, <3>1, <3>2, <1>1, <1>3
  <2>2. CASE ~(q = p /\ m = l)
    <3>1. inside'[q][m] = inside[q][m] /\ <<q, m>> \notin unguarded
      BY <2>2, <1>1, <1>3
    <3>2. PICK j \in Table : key[j] = m /\ owner[j] = q /\ depth[j] = inside[q][m]
      BY <3>1 DEF IndInv, HeldIsBacked, SlotsOf
    <3> QED BY <2>2, <3>1, <3>2, <1>1
  <2> QED BY <2>1, <2>2
<1> QED
  BY <1>4, <1>5, <1>6, <1>7 DEF IndInv

\* Closing a lock nobody is in or waits for frees a slot whose mutex is free.
LEMMA CloseIndInv ==
  ASSUME IndInv, NEW p \in Tasks, NEW l \in Locks, _lock_close(p, l)
  PROVE  IndInv'
<1>1. /\ \A q \in Tasks : inside[q][l] = 0 /\ asked[q] # l
      /\ key' = [j \in Table |-> IF key[j] = l THEN NoLock ELSE key[j]]
      /\ owner' = [j \in Table |-> IF key[j] = l THEN NoTask ELSE owner[j]]
      /\ depth' = [j \in Table |-> IF key[j] = l THEN 0 ELSE depth[j]]
      /\ wants' = wants /\ asked' = asked /\ inside' = inside /\ unguarded' = unguarded
  BY DEF _lock_close
<1>2. TypeOK'
  BY <1>1, LockAssumption DEF IndInv, TypeOK
<1>3. Held'
  BY <1>1, LockAssumption DEF IndInv, TypeOK, Held
<1>4. Waits'
  BY <1>1, LockAssumption DEF IndInv, TypeOK, Waits, Table
<1>5. HeldIsBacked'
  <2>0. inside' = inside /\ unguarded' = unguarded
    BY <1>1
  <2> SUFFICES ASSUME NEW m \in Locks, NEW q \in Tasks,
                      inside[q][m] > 0, <<q, m>> \notin unguarded
               PROVE  \E j \in Table : key'[j] = m /\ owner'[j] = q /\ depth'[j] = inside[q][m]
    BY <2>0 DEF HeldIsBacked, SlotsOf
  <2>1. PICK j \in Table : key[j] = m /\ owner[j] = q /\ depth[j] = inside[q][m]
    BY DEF IndInv, HeldIsBacked, SlotsOf
  <2>2. m # l
    BY <1>1
  <2> QED BY <1>1, <2>1, <2>2
<1> QED
  BY <1>2, <1>3, <1>4, <1>5 DEF IndInv

\* Every step preserves the invariant.
LEMMA NextIndInv == IndInv /\ [Next]_vars => IndInv'
<1> SUFFICES ASSUME IndInv, [Next]_vars PROVE IndInv'
  OBVIOUS
<1>1. ASSUME NEW p \in Tasks, AcquireTaken(p) PROVE IndInv'
  <2>1. /\ wants[p] # 0 /\ wants[p] \in Table /\ asked[p] \in Locks
        /\ key[wants[p]] = asked[p] /\ inside[p][asked[p]] < MaxDepth
        /\ key' = key /\ unguarded' = unguarded
        /\ wants' = [wants EXCEPT ![p] = 0] /\ asked' = [asked EXCEPT ![p] = NoLock]
        /\ CanTake(p, wants[p]) /\ Taken(p, wants[p]) /\ Enter(p, asked[p])
    BY <1>1, LockAssumption DEF AcquireTaken, IndInv, TypeOK, Waits, Table
  <2>2. /\ Held' /\ HeldIsBacked'
        /\ owner' \in [Table -> Tasks \cup {NoTask}]
        /\ depth' \in [Table -> 0 .. MaxDepth]
        /\ inside' \in [Tasks -> [Locks -> 0 .. MaxDepth]]
    BY <2>1, TakeIndInv DEF IndInv, TypeOK
  <2>3. TypeOK'
    <3>1. wants' \in [Tasks -> 0 .. Slots] /\ asked' \in [Tasks -> Locks \cup {NoLock}]
      <4>1. 0 \in 0 .. Slots
        BY LockAssumption
      <4> QED BY <2>1, <4>1 DEF IndInv, TypeOK
    <3> QED BY <2>1, <2>2, <3>1 DEF IndInv, TypeOK
  <2>4. Waits'
    <3> SUFFICES ASSUME NEW q \in Tasks
                 PROVE  /\ wants'[q] = 0 => asked'[q] = NoLock
                        /\ wants'[q] # 0 => /\ asked'[q] \in Locks
                                            /\ key'[wants'[q]] = asked'[q]
                                            /\ inside'[q][asked'[q]] < MaxDepth
      BY DEF Waits
    <3>1. CASE q = p
      BY <2>1, <3>1 DEF IndInv, TypeOK
    <3>2. CASE q # p
      <4>1. wants'[q] = wants[q] /\ asked'[q] = asked[q] /\ inside'[q] = inside[q]
        BY <2>1, <3>2 DEF IndInv, TypeOK, Enter
      <4> QED BY <2>1, <4>1 DEF IndInv, Waits
    <3> QED BY <3>1, <3>2
  <2> QED BY <2>2, <2>3, <2>4 DEF IndInv
<1>2. ASSUME NEW p \in Tasks, AcquireInterrupted(p) PROVE IndInv'
  <2>1. /\ wants[p] # 0 /\ asked[p] \in Locks /\ inside[p][asked[p]] < MaxDepth
        /\ wants' = [wants EXCEPT ![p] = 0] /\ asked' = [asked EXCEPT ![p] = NoLock]
        /\ EnterUnguarded(p, asked[p]) /\ UNCHANGED table
        /\ key' = key /\ owner' = owner /\ depth' = depth
    BY <1>2 DEF AcquireInterrupted, IndInv, Waits, table
  <2>2. /\ Held' /\ HeldIsBacked'
        /\ inside' \in [Tasks -> [Locks -> 0 .. MaxDepth]]
        /\ unguarded' \in SUBSET (Tasks \X Locks)
        /\ \A q \in Tasks, m \in Locks : q # p => inside'[q][m] = inside[q][m]
    BY <2>1, UnguardedIndInv
  <2>3. TypeOK'
    <3>1. wants' \in [Tasks -> 0 .. Slots] /\ asked' \in [Tasks -> Locks \cup {NoLock}]
      <4>1. 0 \in 0 .. Slots
        BY LockAssumption
      <4> QED BY <2>1, <4>1 DEF IndInv, TypeOK
    <3> QED BY <2>1, <2>2, <3>1 DEF IndInv, TypeOK
  <2>4. Waits'
    <3> SUFFICES ASSUME NEW q \in Tasks
                 PROVE  /\ wants'[q] = 0 => asked'[q] = NoLock
                        /\ wants'[q] # 0 => /\ asked'[q] \in Locks
                                            /\ key'[wants'[q]] = asked'[q]
                                            /\ inside'[q][asked'[q]] < MaxDepth
      BY DEF Waits
    <3>1. CASE q = p
      BY <2>1, <3>1 DEF IndInv, TypeOK
    <3>2. CASE q # p
      <4>1. wants'[q] = wants[q] /\ asked'[q] = asked[q]
        BY <2>1, <3>2 DEF IndInv, TypeOK
      <4> QED BY <2>1, <2>2, <3>2, <4>1 DEF IndInv, Waits
    <3> QED BY <3>1, <3>2
  <2> QED BY <2>2, <2>3, <2>4 DEF IndInv
<1>3. ASSUME NEW p \in Tasks, NEW l \in Locks, _lock_acquire(p, l) PROVE IndInv'
  <2>1. PICK i \in Table : /\ Gets(l, i) /\ Assign(l, i)
                           /\ wants' = [wants EXCEPT ![p] = i]
    BY <1>3 DEF _lock_acquire
  <2>2. /\ wants[p] = 0 /\ inside[p][l] < MaxDepth
        /\ asked' = [asked EXCEPT ![p] = l]
        /\ UNCHANGED <<owner, depth, inside, unguarded>>
    BY <1>3 DEF _lock_acquire, Free
  <2>3. /\ Held' /\ HeldIsBacked'
        /\ \A q \in Tasks : wants[q] # 0 => key'[wants[q]] = key[wants[q]]
    BY <2>1, <2>2, AssignKeeps
  <2>4. /\ key' \in [Table -> Locks \cup {NoLock}] /\ key'[i] = l
        /\ \A j, k \in Table : key'[j] = key'[k] /\ key'[j] # NoLock => j = k
    BY <2>1, AssignFacts DEF IndInv
  <2>5. TypeOK'
    BY <2>1, <2>2, <2>4, LockAssumption DEF IndInv, TypeOK, Table
  <2>6. Waits'
    <3> SUFFICES ASSUME NEW q \in Tasks
                 PROVE  /\ wants'[q] = 0 => asked'[q] = NoLock
                        /\ wants'[q] # 0 => /\ asked'[q] \in Locks
                                            /\ key'[wants'[q]] = asked'[q]
                                            /\ inside'[q][asked'[q]] < MaxDepth
      BY DEF Waits
    <3>1. CASE q = p
      <4>1. wants'[q] = i /\ i # 0 /\ asked'[q] = l
        BY <2>1, <2>2, <3>1, LockAssumption DEF IndInv, TypeOK, Table
      <4> QED BY <2>2, <2>4, <3>1, <4>1
    <3>2. CASE q # p
      <4>1. wants'[q] = wants[q] /\ asked'[q] = asked[q]
        BY <2>1, <2>2, <3>2 DEF IndInv, TypeOK
      <4> QED BY <2>2, <2>3, <4>1 DEF IndInv, Waits
    <3> QED BY <3>1, <3>2
  <2> QED BY <2>3, <2>5, <2>6 DEF IndInv
<1>4. ASSUME NEW p \in Tasks, NEW l \in Locks, AcquireWithout(p, l) PROVE IndInv'
  <2>1. /\ inside[p][l] < MaxDepth /\ wants[p] = 0
        /\ EnterUnguarded(p, l) /\ UNCHANGED table
        /\ UNCHANGED <<key, owner, depth, wants, asked>>
    BY <1>4 DEF AcquireWithout, table, Free
  <2>2. /\ Held' /\ HeldIsBacked'
        /\ inside' \in [Tasks -> [Locks -> 0 .. MaxDepth]]
        /\ unguarded' \in SUBSET (Tasks \X Locks)
        /\ \A q \in Tasks, m \in Locks : q # p => inside'[q][m] = inside[q][m]
    BY <2>1, UnguardedIndInv
  <2>3. TypeOK'
    BY <2>1, <2>2 DEF IndInv, TypeOK
  <2>4. Waits'
    BY <2>1, <2>2 DEF IndInv, Waits
  <2> QED BY <2>2, <2>3, <2>4 DEF IndInv
<1>5. ASSUME NEW l \in Locks, NEW i \in Table, Gets(l, i), Assign(l, i),
             UNCHANGED <<owner, depth, wants, asked, inside, unguarded>>
      PROVE  IndInv'
  <2>1. /\ Held' /\ HeldIsBacked'
        /\ \A q \in Tasks : wants[q] # 0 => key'[wants[q]] = key[wants[q]]
    BY <1>5, AssignKeeps
  <2>2. TypeOK'
    BY <1>5, AssignFacts DEF IndInv, TypeOK
  <2>3. Waits'
    BY <1>5, <2>1 DEF IndInv, Waits
  <2> QED BY <2>1, <2>2, <2>3 DEF IndInv
<1>6. ASSUME NEW p \in Tasks, NEW l \in Locks, _lock_try_acquire(p, l) PROVE IndInv'
  <2>1. PICK i \in Table : /\ Gets(l, i) /\ Assign(l, i)
                           /\ \/ CanTake(p, i) /\ Taken(p, i) /\ Enter(p, l)
                              \/ UNCHANGED <<owner, depth, inside>>
    BY <1>6 DEF _lock_try_acquire
  <2>2. /\ inside[p][l] < MaxDepth /\ wants[p] = 0
        /\ UNCHANGED <<wants, asked, unguarded>>
    BY <1>6 DEF _lock_try_acquire, Free
  <2>3. CASE UNCHANGED <<owner, depth, inside>>
    BY <2>1, <2>2, <2>3, <1>5
  <2>4. CASE CanTake(p, i) /\ Taken(p, i) /\ Enter(p, l)
    <3>1. /\ key[i] = l \/ (key[i] = NoLock /\ \A j \in Table : key[j] # l)
          /\ key' \in [Table -> Locks \cup {NoLock}]
          /\ key'[i] = l
          /\ \A j \in Table : j # i => key'[j] = key[j]
          /\ \A j, k \in Table : key'[j] = key'[k] /\ key'[j] # NoLock => j = k
      BY <2>1, AssignFacts DEF IndInv
    <3>2. /\ Held' /\ HeldIsBacked'
          /\ owner' \in [Table -> Tasks \cup {NoTask}]
          /\ depth' \in [Table -> 0 .. MaxDepth]
          /\ inside' \in [Tasks -> [Locks -> 0 .. MaxDepth]]
      BY <2>2, <2>4, <3>1, TakeIndInv
    <3>3. TypeOK'
      BY <2>2, <3>1, <3>2 DEF IndInv, TypeOK
    <3>4. \A q \in Tasks : wants[q] # 0 =>
             key'[wants[q]] = key[wants[q]] /\ inside'[q] = inside[q]
      <4> SUFFICES ASSUME NEW q \in Tasks, wants[q] # 0
                   PROVE  key'[wants[q]] = key[wants[q]] /\ inside'[q] = inside[q]
        OBVIOUS
      <4>1. wants[q] \in Table /\ key[wants[q]] \in Locks
        BY LockAssumption DEF IndInv, TypeOK, Waits, Table
      <4>2. key'[wants[q]] = key[wants[q]]
        BY <4>1, <3>1, LockAssumption
      <4>3. inside'[q] = inside[q]
        BY <2>2, <2>4 DEF Enter, IndInv, TypeOK
      <4> QED BY <4>2, <4>3
    <3>5. Waits'
      BY <2>2, <3>4 DEF IndInv, Waits
    <3> QED BY <3>2, <3>3, <3>5 DEF IndInv
  <2> QED BY <2>1, <2>3, <2>4
<1>7. ASSUME UNCHANGED vars PROVE IndInv'
  BY <1>7 DEF vars, IndInv, TypeOK, Held, Waits, HeldIsBacked, SlotsOf
<1>8. ASSUME NEW p \in Tasks, NEW l \in Locks, LockedInISR(l) \/ __retarget_lock_init(p, l)
      PROVE  IndInv'
  BY <1>5, <1>8 DEF LockedInISR, __retarget_lock_init
<1> QED
  BY <1>1, <1>2, <1>3, <1>4, <1>6, <1>7, <1>8, ReleaseIndInv, CloseIndInv DEF Next

(***************************************************************************)
(* For every table size, what a guarded task believes it holds is what the *)
(* table of s31_linux_locks.c says, and the table never has a key twice.   *)
(***************************************************************************)
THEOREM LocksBacked == Spec => [](TypeOK /\ HeldIsBacked)
<1>1. IndInv => TypeOK /\ HeldIsBacked
  BY DEF IndInv
<1> QED
  BY InitIndInv, NextIndInv, <1>1, PTL DEF Spec

(***************************************************************************)
(* _lock_acquire and _lock_try_acquire exclude: two tasks are inside one   *)
(* lock only if one of them went in without the mutex.                     *)
(***************************************************************************)
THEOREM LocksExclusive == Spec => []Exclusive
<1>1. IndInv => Exclusive
  <2> SUFFICES ASSUME IndInv, NEW l \in Locks, NEW p \in Tasks, NEW q \in Tasks,
                      inside[p][l] > 0, inside[q][l] > 0, p # q,
                      <<p, l>> \notin unguarded, <<q, l>> \notin unguarded
               PROVE  FALSE
    BY DEF Exclusive
  <2>1. PICK i \in Table : key[i] = l /\ owner[i] = p
    BY DEF IndInv, HeldIsBacked, SlotsOf
  <2>2. PICK j \in Table : key[j] = l /\ owner[j] = q
    BY DEF IndInv, HeldIsBacked, SlotsOf
  <2> QED BY <2>1, <2>2, LockAssumption DEF IndInv, TypeOK
<1> QED
  BY InitIndInv, NextIndInv, <1>1, PTL DEF Spec
=============================================================================
