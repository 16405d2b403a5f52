---------------------------- MODULE S31TaskProofs ----------------------------
(***************************************************************************)
(* Proofs about S31Task, and with it about S31Notify and S31Deadline, for  *)
(* every number of notifiers, every width of notify_value and of the tick  *)
(* counter, every set of styles and every number of TLS slots: the         *)
(* deadlines and the notifications of a task, and its life from creation   *)
(* to release.                                                             *)
(***************************************************************************)
EXTENDS S31Task, WellFoundedInduction, TLAPS

-----------------------------------------------------------------------------
(* The deadline arithmetic *)

\* A remainder of a number less than one modulus away from the range of ticks.
LEMMA ModOnce ==
  ASSUME NEW W \in Nat \ {0}, NEW r \in 0 .. W - 1
  PROVE  r % W = r /\ (r + W) % W = r /\ (r - W) % W = r
<1>1. r % W = r
  BY SMT
<1>2. (r + W) % W = r
  BY SMT
<1>3. (r - W) % W = r
  BY SMT
<1> QED BY <1>1, <1>2, <1>3

(***************************************************************************)
(* What s31_wait_remaining measures is the time that has passed: the       *)
(* difference of the two readings is exact although the counter may have   *)
(* wrapped between them, as long as less than one turn of it has passed.   *)
(***************************************************************************)
LEMMA ElapsedExact ==
  ASSUME NEW t0 \in Ticks, NEW d \in Ticks
  PROVE  (TickAfter(t0, d) - t0) % Word = d
<1>1. Word \in Nat \ {0} /\ t0 \in 0 .. Word - 1 /\ d \in 0 .. Word - 1
  BY DeadlineAssumption DEF Ticks
<1>2. CASE t0 + d < Word
  <2>1. t0 + d \in 0 .. Word - 1
    BY <1>1, <1>2
  <2>2. (t0 + d) % Word = t0 + d /\ d % Word = d
    BY <1>1, <2>1, ModOnce
  <2> QED BY <1>1, <2>2 DEF TickAfter
<1>3. CASE t0 + d >= Word
  <2>1. t0 + d - Word \in 0 .. Word - 1
    BY <1>1, <1>3
  <2>2. (t0 + d - Word + Word) % Word = t0 + d - Word
    BY <1>1, <2>1, ModOnce
  <2>3. TickAfter(t0, d) = t0 + d - Word
    <3>1. t0 + d - Word + Word = t0 + d
      BY <1>1
    <3> QED BY <2>2, <3>1 DEF TickAfter
  <2>4. (d - Word) % Word = d
    BY <1>1, ModOnce
  <2>5. TickAfter(t0, d) - t0 = d - Word
    BY <1>1, <2>3
  <2> QED BY <2>4, <2>5
<1> QED BY <1>1, <1>2, <1>3

(***************************************************************************)
(* A wait that is resumed any number of times keeps the deadline of its    *)
(* call: what s31_wait_remaining grants after d ticks ends exactly when    *)
(* the timeout ends, wherever the counter stood and whether it wrapped;    *)
(* after that it grants nothing; and portMAX_DELAY is granted for ever.    *)
(***************************************************************************)
THEOREM DeadlineExact ==
  ASSUME NEW timeout \in Ticks, NEW t0 \in Ticks, NEW d \in Ticks
  PROVE  LET granted == s31_wait_remaining(timeout, t0, TickAfter(t0, d))
         IN /\ granted \in Ticks
            /\ timeout = portMAX_DELAY => granted = portMAX_DELAY
            /\ timeout # portMAX_DELAY /\ d <= timeout => d + granted = timeout
            /\ timeout # portMAX_DELAY /\ d > timeout => granted = 0
<1>1. (TickAfter(t0, d) - t0) % Word = d
  BY ElapsedExact
<1>2. Word \in Nat /\ Word > 1 /\ timeout \in 0 .. Word - 1 /\ d \in 0 .. Word - 1
  BY DeadlineAssumption DEF Ticks
<1> QED BY <1>1, <1>2 DEF s31_wait_remaining, portMAX_DELAY, Ticks

-----------------------------------------------------------------------------
(***************************************************************************)
(* The inductive invariant.  Of a notification call: a target inside one   *)
(* has its arguments, and a wait for ever is never granted zero ticks, so  *)
(* that it cannot end.                                                     *)
(***************************************************************************)
CallOK ==
  /\ pc[Target] # "wake"
  /\ InCall => call \in style.calls
  /\ pc[Target] = "wait" /\ call.timeout = portMAX_DELAY => left # 0

Building == {"contexts", "check", "stack", "thread"}

\* Of the life of the task: who can be inside which function at which time.
JobsOK ==
  /\ job[Target] \in {"none", "suspended", "dtors", "dtorWaits"}
  /\ job[Target] # "none" => life = "running" /\ pc[Target] = "idle"
  /\ pc[Target] # "idle" => life = "running"
  /\ job[Creator] \in Building <=> life = "creating"

\* What the RTOS layer has allocated for the task at each point of its life.
Owned ==
  CASE life \in {"none", "failed", "released"}            -> {}
    [] life = "creating" /\ job[Creator] = "contexts"     -> {"tcb"}
    [] life = "creating" /\ job[Creator] = "check"        -> {"tcb"} \cup Got
    [] life = "creating" /\ job[Creator] = "thread"       -> Resources
    [] OTHER                                              -> {"tcb", "notify", "suspend"}

HeldOK == \A r \in Resources : held[r] = IF r \in Owned THEN 1 ELSE 0

\* Of the destructors: the slots still to be visited belong to one context and
\* have not run, and unless another context deletes the task, the task's own
\* loop accounts for every slot.
TlsOK ==
  /\ life \in {"none", "creating", "failed"} => ~tls_cleaned
  /\ ~tls_cleaned => /\ \A i \in Slots : ran[i] = 0
                     /\ \A c \in Contexts : todo[c] = {}
  /\ \A c \in Contexts : /\ todo[c] # {} => job[c] \in {"dtors", "dtorWaits"}
                         /\ Deleting(c) => tls_cleaned
                         /\ \A i \in todo[c] : ran[i] = 0
  /\ \A c, d \in Contexts : c # d => todo[c] \cap todo[d] = {}
  /\ \A i \in Slots : ran[i] <= 1

EndsByItself == tls_cleaned /\ ~stopped /\ \A c \in Notifiers : ~Deleting(c)

OwnEndOK ==
  /\ life \in {"exiting", "released"} => tls_cleaned \/ stopped
  /\ EndsByItself => /\ life \in {"running", "exiting", "released"}
                     /\ life = "running" => job[Target] \in {"dtors", "dtorWaits"}
                     /\ \A i \in tls : ran[i] = 1 \/ i \in todo[Target]

IndInv == /\ TypeOK /\ CallOK /\ BitsKept /\ GivesConserved /\ DeadlineKept
          /\ JobsOK /\ HeldOK /\ TlsOK /\ OwnEndOK

-----------------------------------------------------------------------------
(* The notifications *)

\* What the proofs use of the constants.
LEMMA Constants ==
  /\ Modulus \in Nat \ {0} /\ 0 \in Values
  /\ Word \in Nat /\ Word > 1 /\ 0 \in Ticks /\ Starts \subseteq Ticks
  /\ MaxSends \in Nat /\ MaxElapsed \in Nat /\ Target \notin Notifiers
BY NotifyAssumption, DeadlineAssumption DEF Values, Ticks

\* Words are closed under the operations of xTaskGenericNotify and of the masks.
LEMMA WordOperations ==
  ASSUME NEW v \in Values, NEW w \in Values
  PROVE  BitOr(v, w) \in Values /\ Cleared(v, w) \in Values /\ (v + 1) % Modulus \in Values
<1>1. Modulus \in Nat \ {0} /\ v \in 0 .. Modulus - 1
  BY Constants DEF Values
<1>2. BitOr(v, w) \in Values /\ BitAnd(v, w) \in 0 .. v
  BY NotifyAssumption
<1>3. Cleared(v, w) \in Values
  BY <1>1, <1>2 DEF Cleared, Values
<1>4. (v + 1) % Modulus \in Values
  BY <1>1 DEF Values
<1>. QED  BY <1>2, <1>3, <1>4

\* What the proofs use of the arguments of a call.
LEMMA CallArguments ==
  ASSUME style \in Styles, call \in style.calls
  PROVE  /\ call \in Call /\ call # NoCall
         /\ call.kind \in {"take", "wait"} /\ call.timeout \in Ticks
         /\ call.kind = "wait" => call.entry \in Values /\ call.exit \in Values
BY NotifyAssumption DEF Call

\* What ParkOrEnd is told by s31_notify_wait_remaining.
LEMMA Remaining ==
  ASSUME NotifyTypeOK, call \in style.calls
  PROVE  /\ s31_notify_wait_remaining \in Ticks
         /\ call.timeout = portMAX_DELAY => s31_notify_wait_remaining = portMAX_DELAY
         /\ call.timeout # portMAX_DELAY /\ elapsed <= call.timeout
               => elapsed + s31_notify_wait_remaining = call.timeout
         /\ call.timeout # portMAX_DELAY /\ elapsed > call.timeout
               => s31_notify_wait_remaining = 0
<1>1. call.timeout \in Ticks /\ start \in Ticks
  BY CallArguments DEF NotifyTypeOK
<1>2. elapsed \in Ticks
  BY NotifyAssumption, DeadlineAssumption DEF NotifyTypeOK, Ticks
<1>. QED  BY <1>1, <1>2, DeadlineExact DEF s31_notify_wait_remaining

\* The locked actions of the target, one by one.
TargetSteps ==
  \/ Enter \/ TakeSucceeds \/ TakeParks \/ TakeFails
  \/ WaitSucceeds \/ WaitParks \/ WaitFails \/ Woken \/ TimedOut \/ Interrupted

\* A step of S31Task changes the notification by one of its calls, by the clock
\* or by ending the thread, or not at all; none changes the style.
LEMMA NotifySteps ==
  ASSUME [Next]_vars
  PROVE  /\ UNCHANGED style
         /\ \/ UNCHANGED notifyVars
            \/ StoppedInWait
            \/ \E c \in Notifiers : xTaskGenericNotify(c) \/ Wake(c)
            \/ Tick
            \/ life = "running" /\ TargetSteps
<1>1. CASE UNCHANGED vars
  BY <1>1 DEF vars, notifyVars
<1>2. CASE CreateNext
  BY <1>2 DEF CreateNext, Create, CreateContexts, CheckContexts, CreateStack, CreateThread, Publish, notifyVars
<1>3. CASE LifeNext
  <2>1. CASE StoppedInWait
    BY <2>1 DEF StoppedInWait
  <2>2. CASE UNCHANGED notifyVars
    BY <2>2 DEF notifyVars
  <2>3. StoppedInWait \/ UNCHANGED notifyVars
    BY <1>3 DEF LifeNext, TaskEntry, vTaskSuspend, SuspendInterrupted, TaskEnds, TaskLeaves,
         vTaskSetThreadLocalStoragePointerAndDelCallback, Destroy, DestructorWoken, vTaskDelete,
         CleanedForStop, Stop, ReadsFreed, s31_rtos_task_release
  <2>. QED  BY <2>1, <2>2, <2>3
<1>4. CASE TargetCalls
  BY <1>4 DEF TargetCalls, TargetNext, TargetSteps, Locked, Enter, Woken, TimedOut, Interrupted,
       WaitEnds
<1>5. CASE TickStep
  BY <1>5 DEF TickStep, Tick
<1>6. CASE \E c \in Notifiers : Notify(c) \/ NotifyWake(c)
  BY <1>6 DEF Notify, NotifyWake, xTaskGenericNotify, Wake
<1>. QED  BY <1>1, <1>2, <1>3, <1>4, <1>5, <1>6 DEF Next

NotifyInv == NotifyTypeOK /\ CallOK /\ BitsKept /\ GivesConserved /\ DeadlineKept

\* A task that has just been created satisfies the notification part.
LEMMA InitNotifyInv == Init => NotifyInv
<1>. SUFFICES ASSUME Init PROVE NotifyInv
  OBVIOUS
<1>. USE Constants DEF Init, NotifyInit, SyncInit
<1>1. NotifyTypeOK
  <2>1. start \in Ticks /\ elapsed \in 0 .. MaxElapsed /\ left \in Ticks /\ sent \in 0 .. MaxSends
    OBVIOUS
  <2>2. owed \in Values /\ taken \in Nat /\ value \in Values
    OBVIOUS
  <2>. QED  BY <2>1, <2>2 DEF NotifyTypeOK
<1>2. CallOK /\ DeadlineKept
  BY DEF CallOK, DeadlineKept, InCall
<1>3. BitsKept
  BY NotifyAssumption DEF BitsKept
<1>4. GivesConserved
  <2>1. taken + value <= sent /\ sent - taken - value = 0
    OBVIOUS
  <2>2. 0 % Modulus = 0
    BY ModOnce
  <2>. QED  BY <2>1, <2>2 DEF GivesConserved
<1>. QED  BY <1>1, <1>2, <1>3, <1>4 DEF NotifyInv

\* Every step keeps notify_value a word, a deadline a tick and a call a call.
LEMMA NextNotifyTypeOK == NotifyInv /\ [Next]_vars => NotifyTypeOK'
<1>. SUFFICES ASSUME NotifyInv, [Next]_vars PROVE NotifyTypeOK'
  OBVIOUS
<1>. USE Constants DEF NotifyInv
<1>a. UNCHANGED style
  BY NotifySteps
<1>1. CASE UNCHANGED notifyVars
  BY <1>1 DEF notifyVars, NotifyTypeOK
<1>2. CASE StoppedInWait
  BY <1>2 DEF StoppedInWait, Leave, SyncForget, NotifyTypeOK, Ticks
<1>3. ASSUME NEW c \in Notifiers, xTaskGenericNotify(c) PROVE NotifyTypeOK'
  <2>1. PICK s \in style.sends :
          /\ value' = Notified(s[1], s[2])
          /\ owed' = IF BitsOnly /\ s[1] = "bits" THEN BitOr(owed, s[2]) ELSE owed
    BY <1>3 DEF xTaskGenericNotify
  <2>2. s[1] \in Actions /\ s[2] \in Values
    BY <2>1, NotifyAssumption DEF NotifyTypeOK
  <2>3. value' \in Values
    BY <2>1, <2>2, WordOperations DEF Notified, NotifyTypeOK
  <2>4. owed' \in Values
    BY <2>1, <2>2, WordOperations DEF NotifyTypeOK
  <2>. QED  BY <1>3, <2>3, <2>4 DEF xTaskGenericNotify, timing, NotifyTypeOK
<1>4. ASSUME NEW c \in Notifiers, Wake(c) PROVE NotifyTypeOK'
  BY <1>4 DEF Wake, SyncWake, timing, NotifyTypeOK
<1>5. CASE Tick
  BY <1>5 DEF Tick, Clocked, NotifyTypeOK, Ticks
<1>6. CASE Enter
  BY <1>6, <1>a DEF Enter, SyncSequence, NotifyTypeOK, Ticks
<1>7. ASSUME TakeSucceeds \/ TakeFails \/ WaitSucceeds \/ WaitFails PROVE NotifyTypeOK'
  <2>1. pc' \in [{Target} \cup Notifiers -> {"idle", "check", "wait", "ended", "interrupted", "wake"}]
    BY <1>7 DEF TakeSucceeds, TakeFails, WaitSucceeds, WaitFails, Leave, NotifyTypeOK
  <2>2. value' \in Values /\ taken' \in Nat
    <3>1. CASE TakeSucceeds \/ TakeFails
      BY <3>1 DEF TakeSucceeds, TakeFails, NotifyTypeOK, Values
    <3>2. CASE WaitSucceeds \/ WaitFails
      <4>1. call.exit \in Values
        BY <3>2, CallArguments DEF WaitSucceeds, WaitFails, CallOK, InCall, NotifyTypeOK
      <4>. QED  BY <3>2, <4>1, WordOperations DEF WaitSucceeds, WaitFails, NotifyTypeOK
    <3>. QED  BY <1>7, <3>1, <3>2
  <2>3. owed' \in Values
    BY <1>7 DEF TakeSucceeds, TakeFails, WaitSucceeds, WaitFails, NotifyTypeOK
  <2>4. /\ state' = "notWaiting" /\ call' = NoCall /\ UNCHANGED sent
        /\ start' = 0 /\ elapsed' = 0 /\ left' = 0 /\ fresh' = fresh \ {Target}
    BY <1>7 DEF TakeSucceeds, TakeFails, WaitSucceeds, WaitFails, Leave, SyncForget
  <2>. QED  BY <1>a, <2>1, <2>2, <2>3, <2>4 DEF NotifyTypeOK
<1>8. ASSUME TakeParks \/ WaitParks PROVE NotifyTypeOK'
  <2>1. call \in style.calls
    BY <1>8 DEF TakeParks, WaitParks, CallOK, InCall
  <2>2. value' \in Values
    <3>1. CASE TakeParks
      BY <3>1 DEF TakeParks, NotifyTypeOK
    <3>2. CASE WaitParks
      <4>1. call.entry \in Values
        BY <2>1, <3>2, CallArguments DEF WaitParks, NotifyTypeOK
      <4>. QED  BY <3>2, <4>1, WordOperations DEF WaitParks, NotifyTypeOK
    <3>. QED  BY <1>8, <3>1, <3>2
  <2>3. s31_notify_wait_remaining \in Ticks
    BY <2>1, Remaining
  <2>4. ParkOrEnd
    BY <1>8 DEF TakeParks, WaitParks
  <2>. QED  BY <1>a, <2>2, <2>3, <2>4 DEF ParkOrEnd, NotifyTypeOK
<1>9. ASSUME Woken \/ TimedOut \/ Interrupted PROVE NotifyTypeOK'
  BY <1>9 DEF Woken, TimedOut, Interrupted, WaitEnds, SyncSequence, timing, NotifyTypeOK
<1>. QED  BY <1>1, <1>2, <1>3, <1>4, <1>5, <1>6, <1>7, <1>8, <1>9, NotifySteps DEF TargetSteps

\* Every step keeps the arguments of the call, and the grant of a wait for ever.
LEMMA NextCallOK == NotifyInv /\ [Next]_vars => CallOK'
<1>. SUFFICES ASSUME NotifyInv, [Next]_vars PROVE CallOK'
  OBVIOUS
<1>. USE Constants DEF NotifyInv, NotifyTypeOK, CallOK, InCall
<1>a. UNCHANGED style
  BY NotifySteps
<1>1. CASE UNCHANGED notifyVars
  BY <1>1 DEF notifyVars
<1>2. CASE StoppedInWait
  BY <1>2 DEF StoppedInWait, Leave
<1>3. ASSUME NEW c \in Notifiers, xTaskGenericNotify(c) \/ Wake(c) PROVE CallOK'
  BY <1>3 DEF xTaskGenericNotify, Wake, timing
<1>4. CASE Tick
  \* The clock runs for a call with a finite timeout only.
  BY <1>4 DEF Tick, Clocked
<1>5. CASE Enter
  BY <1>a, <1>5 DEF Enter
<1>6. ASSUME TakeSucceeds \/ TakeFails \/ WaitSucceeds \/ WaitFails PROVE CallOK'
  BY <1>6 DEF TakeSucceeds, TakeFails, WaitSucceeds, WaitFails, Leave
<1>7. ASSUME TakeParks \/ WaitParks PROVE CallOK'
  <2>1. call \in style.calls /\ ParkOrEnd
    BY <1>7 DEF TakeParks, WaitParks
  <2>. QED  BY <1>a, <2>1 DEF ParkOrEnd
<1>8. ASSUME Woken \/ TimedOut \/ Interrupted PROVE CallOK'
  BY <1>8 DEF Woken, TimedOut, Interrupted, WaitEnds, timing
<1>. QED  BY <1>1, <1>2, <1>3, <1>4, <1>5, <1>6, <1>7, <1>8, NotifySteps DEF TargetSteps

\* Setting a bit adds it to what is owed and to what is there.
LEMMA BitAdded ==
  ASSUME NEW v \in Values, NEW o \in Values, NEW w \in Values, BitOr(v, o) = v
  PROVE  BitOr(BitOr(v, w), BitOr(o, w)) = BitOr(v, w)
<1>. USE NotifyAssumption
<1>1. BitOr(v, w) \in Values /\ BitOr(o, w) \in Values
  OBVIOUS
<1>2. BitOr(BitOr(v, w), BitOr(o, w)) = BitOr(v, BitOr(w, BitOr(o, w)))
  BY <1>1
<1>3. BitOr(w, BitOr(o, w)) = BitOr(o, w)
  <2>1. BitOr(w, BitOr(o, w)) = BitOr(BitOr(o, w), w)
    BY <1>1
  <2>2. BitOr(BitOr(o, w), w) = BitOr(o, BitOr(w, w))
    OBVIOUS
  <2>3. BitOr(w, w) = w
    OBVIOUS
  <2>. QED  BY <2>1, <2>2, <2>3
<1>4. BitOr(v, BitOr(o, w)) = BitOr(BitOr(v, o), w)
  OBVIOUS
<1>. QED  BY <1>2, <1>3, <1>4

\* No step takes a bit that no successful wait has returned.
LEMMA NextBitsKept == NotifyInv /\ [Next]_vars => BitsKept'
<1>. SUFFICES ASSUME NotifyInv, [Next]_vars, BitsOnly PROVE BitOr(value', owed') = value'
  BY NotifySteps DEF BitsKept, BitsOnly
<1>a. value \in Values /\ owed \in Values /\ BitOr(value, owed) = value /\ style \in Styles
  BY DEF NotifyInv, NotifyTypeOK, BitsKept
<1>1. CASE UNCHANGED <<value, owed>>
  BY <1>a, <1>1
<1>2. CASE \/ UNCHANGED notifyVars \/ StoppedInWait \/ Tick \/ Enter \/ Woken \/ TimedOut
           \/ Interrupted \/ WaitFails
  BY <1>1, <1>2 DEF notifyVars, StoppedInWait, Tick, Enter, Woken, TimedOut, Interrupted, WaitEnds,
       WaitFails
<1>3. ASSUME NEW c \in Notifiers, xTaskGenericNotify(c) PROVE BitOr(value', owed') = value'
  <2>1. PICK s \in style.sends :
          /\ value' = Notified(s[1], s[2])
          /\ owed' = IF BitsOnly /\ s[1] = "bits" THEN BitOr(owed, s[2]) ELSE owed
    BY <1>3 DEF xTaskGenericNotify
  <2>2. s[1] \in {"none", "bits"} /\ s[2] \in Values
    BY <1>a, <2>1, NotifyAssumption DEF BitsOnly
  <2>3. CASE s[1] = "none"
    BY <1>a, <2>1, <2>3 DEF Notified
  <2>4. CASE s[1] = "bits"
    <3>1. value' = BitOr(value, s[2]) /\ owed' = BitOr(owed, s[2])
      BY <2>1, <2>4 DEF Notified
    <3>. QED  BY <1>a, <2>2, <3>1, BitAdded
  <2>. QED  BY <2>2, <2>3, <2>4
<1>4. ASSUME NEW c \in Notifiers, Wake(c) PROVE BitOr(value', owed') = value'
  BY <1>1, <1>4 DEF Wake
<1>5. CASE TakeSucceeds \/ TakeFails \/ TakeParks
  \* A task that waits for bits makes no such call.
  <2>1. call \in style.calls /\ call.kind = "take"
    BY <1>5 DEF TakeSucceeds, TakeFails, TakeParks, CallOK, InCall, NotifyInv
  <2>. QED  BY <2>1 DEF BitsOnly
<1>6. CASE WaitSucceeds
  <2>1. call.exit \in Values
    BY <1>a, <1>6, CallArguments DEF WaitSucceeds, CallOK, InCall, NotifyInv
  <2>2. value' \in Values /\ owed' = 0
    BY <1>a, <1>6, <2>1, WordOperations DEF WaitSucceeds
  <2>. QED  BY <2>2, NotifyAssumption
<1>7. CASE WaitParks
  <2>1. call.entry = 0
    BY <1>7 DEF WaitParks, CallOK, InCall, NotifyInv, BitsOnly
  <2>2. value' = value - BitAnd(value, 0) /\ owed' = owed
    BY <1>7, <2>1 DEF WaitParks, ParkOrEnd, Cleared
  <2>3. value - BitAnd(value, 0) = value
    <3>1. BitAnd(value, 0) = 0
      BY <1>a, NotifyAssumption
    <3>2. value \in Int
      BY <1>a, Constants DEF Values
    <3>. QED  BY <3>1, <3>2
  <2>. QED  BY <1>1, <2>2, <2>3
<1>. QED  BY <1>2, <1>3, <1>4, <1>5, <1>6, <1>7, NotifySteps DEF TargetSteps

\* Every step keeps what is granted to a wait in step with the clock.
LEMMA NextDeadlineKept == NotifyInv /\ [Next]_vars => DeadlineKept'
<1>. SUFFICES ASSUME NotifyInv, [Next]_vars PROVE DeadlineKept'
  OBVIOUS
<1>. USE Constants DEF NotifyInv, NotifyTypeOK, DeadlineKept
<1>1. CASE UNCHANGED notifyVars
  BY <1>1 DEF notifyVars
<1>2. CASE StoppedInWait
  BY <1>2 DEF StoppedInWait, Leave
<1>3. ASSUME NEW c \in Notifiers, xTaskGenericNotify(c) \/ Wake(c) PROVE DeadlineKept'
  BY <1>3 DEF xTaskGenericNotify, Wake, timing
<1>4. CASE Tick
  <2>1. pc[Target] \in {"wait", "ended"} => call.timeout \in Ticks
    BY CallArguments DEF CallOK, InCall
  <2>. QED  BY <1>4, <2>1 DEF Tick, Clocked, Ticks
<1>5. CASE Enter
  BY <1>5 DEF Enter
<1>6. CASE TakeSucceeds \/ TakeFails \/ WaitSucceeds \/ WaitFails
  BY <1>6 DEF TakeSucceeds, TakeFails, WaitSucceeds, WaitFails, Leave
<1>7. CASE TakeParks \/ WaitParks
  <2>1. call \in style.calls /\ ParkOrEnd
    BY <1>7 DEF TakeParks, WaitParks, CallOK, InCall
  <2>2. call.timeout \in Ticks
    BY <2>1, CallArguments
  <2>. QED  BY <2>1, <2>2, Remaining DEF ParkOrEnd, Ticks, portMAX_DELAY
<1>8. CASE Woken \/ Interrupted
  BY <1>8 DEF Woken, Interrupted, WaitEnds, timing
<1>9. CASE TimedOut
  <2>1. call.timeout # portMAX_DELAY
    BY <1>9 DEF TimedOut, WaitEnds, CallOK
  <2>. QED  BY <1>9, <2>1 DEF TimedOut, WaitEnds, timing
<1>. QED  BY <1>1, <1>2, <1>3, <1>4, <1>5, <1>6, <1>7, <1>8, <1>9, NotifySteps DEF TargetSteps

\* A whole number of turns leaves no remainder.
LEMMA ModMultiple ==
  ASSUME NEW W \in Nat \ {0}, NEW k \in Nat
  PROVE  (k * W) % W = 0
OBVIOUS

\* One turn more leaves no remainder either.
LEMMA ModTurn ==
  ASSUME NEW W \in Nat \ {0}, NEW x \in Nat, x % W = 0
  PROVE  (x + W) % W = 0
<1>1. PICK k \in Nat : x = k * W
  BY SMT
<1>2. x + W = (k + 1) * W
  BY <1>1
<1>3. k + 1 \in Nat
  BY <1>1
<1>4. ((k + 1) * W) % W = 0
  BY <1>3, ModMultiple
<1>. QED  BY <1>2, <1>4

\* Every step keeps what was given equal to what was taken and what is left,
\* up to whole turns of the count.
LEMMA NextGivesConserved == NotifyInv /\ [Next]_vars => GivesConserved'
<1>. SUFFICES ASSUME NotifyInv, [Next]_vars, CountsOnly
              PROVE  taken' + value' <= sent' /\ (sent' - taken' - value') % Modulus = 0
  BY NotifySteps DEF GivesConserved, CountsOnly
<1>. USE Constants DEF NotifyInv
<1>a. /\ value \in 0 .. Modulus - 1 /\ taken \in Nat /\ sent \in Nat
      /\ taken + value <= sent /\ (sent - taken - value) % Modulus = 0
  BY DEF GivesConserved, NotifyTypeOK, Values
<1>1. CASE UNCHANGED <<value, taken, sent>>
  BY <1>a, <1>1
<1>2. CASE \/ UNCHANGED notifyVars \/ StoppedInWait \/ Tick \/ Enter \/ Woken \/ TimedOut
           \/ Interrupted \/ TakeFails \/ TakeParks
  BY <1>1, <1>2 DEF notifyVars, StoppedInWait, Tick, Enter, Woken, TimedOut, Interrupted, WaitEnds,
       TakeFails, TakeParks, ParkOrEnd
<1>3. ASSUME NEW c \in Notifiers, xTaskGenericNotify(c)
      PROVE  taken' + value' <= sent' /\ (sent' - taken' - value') % Modulus = 0
  <2>1. value' = (value + 1) % Modulus /\ sent' = sent + 1 /\ taken' = taken
    BY <1>3 DEF xTaskGenericNotify, CountsOnly, Notified
  <2>2. CASE value + 1 < Modulus
    <3>1. value' = value + 1
      BY <1>a, <2>1, <2>2, ModOnce
    <3>2. sent' - taken' - value' = sent - taken - value
      BY <1>a, <2>1, <3>1
    <3>. QED  BY <1>a, <2>1, <3>1, <3>2
  <2>3. CASE value + 1 = Modulus
    \* The count wraps: one whole turn of it is lost.
    <3>1. value' = 0
      BY <2>1, <2>3, ModTurn, ModOnce
    <3>2. sent' - taken' - value' = (sent - taken - value) + Modulus
      BY <1>a, <2>1, <2>3, <3>1
    <3>3. (sent' - taken' - value') % Modulus = 0
      <4>1. sent - taken - value \in Nat
        BY <1>a
      <4>. QED  BY <1>a, <3>2, <4>1, ModTurn
    <3>. QED  BY <1>a, <2>1, <3>1, <3>3
  <2>. QED  BY <1>a, <2>2, <2>3
<1>4. ASSUME NEW c \in Notifiers, Wake(c)
      PROVE  taken' + value' <= sent' /\ (sent' - taken' - value') % Modulus = 0
  BY <1>1, <1>4 DEF Wake
<1>5. CASE TakeSucceeds
  <2>1. /\ value' = IF call.clear THEN 0 ELSE value - 1
        /\ taken' = taken + IF call.clear THEN value ELSE 1
        /\ sent' = sent /\ value # 0
    BY <1>5 DEF TakeSucceeds
  <2>2. value' + taken' = value + taken /\ value' \in Int /\ taken' \in Int
    BY <1>a, <2>1
  <2>3. sent' - taken' - value' = sent - taken - value
    BY <1>a, <2>1, <2>2
  <2>. QED  BY <1>a, <2>1, <2>2, <2>3
<1>6. CASE WaitSucceeds \/ WaitFails \/ WaitParks
  \* A task that only counts makes no such call.
  <2>1. call \in style.calls /\ call.kind = "wait"
    BY <1>6 DEF WaitSucceeds, WaitFails, WaitParks, CallOK, InCall
  <2>. QED  BY <2>1 DEF CountsOnly
<1>. QED  BY <1>2, <1>3, <1>4, <1>5, <1>6, NotifySteps DEF TargetSteps

\* The notification part of the invariant holds of every reachable state.
LEMMA SpecNotifyInv == Spec => []NotifyInv
<1>1. NotifyInv /\ [Next]_vars => NotifyInv'
  BY NextNotifyTypeOK, NextCallOK, NextBitsKept, NextDeadlineKept, NextGivesConserved
    DEF NotifyInv
<1>. QED  BY <1>1, InitNotifyInv, PTL DEF Spec

(***************************************************************************)
(* A counting notification is never lost, whatever waits time out or are   *)
(* interrupted in between and however the task's life ends.                *)
(***************************************************************************)
THEOREM TaskGivesConserved == Spec => []GivesConserved
BY SpecNotifyInv, PTL DEF NotifyInv

(***************************************************************************)
(* A wait keeps the deadline of its call however often it is resumed and   *)
(* however the tick counter wraps.                                         *)
(***************************************************************************)
THEOREM TaskDeadlineKept == Spec => []DeadlineKept
BY SpecNotifyInv, PTL DEF NotifyInv

(***************************************************************************)
(* Without an entry mask no bit that eSetBits set leaves notify_value      *)
(* before a successful wait has returned it, however notifications race    *)
(* with the ends of waits.                                                 *)
(***************************************************************************)
THEOREM TaskBitsKept == Spec => []BitsKept
BY SpecNotifyInv, PTL DEF NotifyInv

-----------------------------------------------------------------------------
(* The life of the task *)

\* There is a lowest slot to clean.
LEMMA LowestIn ==
  ASSUME NEW s \in SUBSET Nat, s # {}
  PROVE  Lowest(s) \in s
<1>1. PICK i \in s : \A j \in s : ~(<<j, i>> \in OpToRel(<, Nat))
  BY NatLessThanWellFounded, WFMin
<1>2. ASSUME NEW j \in s PROVE i <= j
  <2>1. i \in Nat /\ j \in Nat
    OBVIOUS
  <2>2. ~(j < i)
    BY <1>1, <2>1, Zenon DEF OpToRel
  <2>. QED  BY <2>1, <2>2
<1>. QED  BY <1>2 DEF Lowest

\* The steps that leave the life of the task alone: its notification calls, those
\* with its handle and the clock.
CallStep ==
  /\ UNCHANGED taskVars
  /\ pc' \in [Contexts -> {"idle", "check", "wait", "ended", "interrupted", "wake"}]
  /\ pc'[Target] = pc[Target] \/ (life = "running" /\ job[Target] = "none" /\ pc'[Target] # "wake")
  /\ \A c \in Notifiers : pc'[c] = pc[c] \/ pc'[c] = "idle" \/ life \in {"created", "running"}

\* A step of S31Task is one of those, or one of the life of the task.
LEMMA LifeSteps ==
  ASSUME NotifyInv, [Next]_vars
  PROVE  CallStep \/ CreateNext \/ LifeNext
<1>. USE Constants DEF NotifyInv, NotifyTypeOK, Contexts, CallStep
<1>1. CASE UNCHANGED vars
  BY <1>1 DEF vars, taskVars
<1>2. CASE TargetCalls
  <2>1. TargetSteps /\ life = "running" /\ job[Target] = "none" /\ UNCHANGED taskVars
    BY <1>2 DEF TargetCalls, TargetNext, TargetSteps, Locked
  <2>2. \E w \in {"idle", "check", "wait", "ended", "interrupted"} : pc' = [pc EXCEPT ![Target] = w]
    BY <2>1 DEF TargetSteps, Enter, TakeSucceeds, TakeParks, TakeFails, WaitSucceeds, WaitParks,
         WaitFails, Woken, TimedOut, Interrupted, WaitEnds, ParkOrEnd, Leave
  <2>. QED  BY <2>1, <2>2
<1>3. CASE TickStep
  BY <1>3 DEF TickStep, Tick
<1>4. ASSUME NEW c \in Notifiers, Notify(c) \/ NotifyWake(c) PROVE CallStep
  BY <1>4 DEF Notify, NotifyWake, xTaskGenericNotify, Wake, HandleValid
<1>. QED  BY <1>1, <1>2, <1>3, <1>4 DEF Next

\* One round of the destructor loop: the visit of slot i.
Visit(c, i) ==
  /\ i \in todo[c] /\ i \in Slots
  /\ todo' = [todo EXCEPT ![c] = todo[c] \ {i}]
  /\ \/ i \in tls /\ ran' = [ran EXCEPT ![i] = ran[i] + 1]
     \/ i \notin tls /\ UNCHANGED ran

LEMMA DestroyStep ==
  ASSUME TypeOK, NEW c \in Contexts, Destroy(c)
  PROVE  \E i \in Slots : Visit(c, i)
<1>1. Lowest(todo[c]) \in todo[c] /\ todo[c] \subseteq Slots
  BY TaskAssumption, LowestIn DEF Destroy, TypeOK
<1>2. Visit(c, Lowest(todo[c]))
  BY <1>1 DEF Destroy, Visit
<1>. QED  BY <1>1, <1>2

LifeInv == TypeOK /\ JobsOK /\ HeldOK /\ TlsOK /\ OwnEndOK

\* Before the task is created there is nothing to account for.
LEMMA InitLifeInv == Init => LifeInv
<1>. SUFFICES ASSUME Init PROVE LifeInv
  OBVIOUS
<1>. USE Constants, TaskAssumption DEF Init, Contexts
<1>1. TypeOK
  <2>1. NotifyTypeOK
    BY InitNotifyInv DEF NotifyInv
  <2>2. held \in [Resources -> Int] /\ ran \in [Slots -> Nat]
    OBVIOUS
  <2>3. job \in [Contexts -> Jobs] /\ todo \in [Contexts -> SUBSET Slots]
    BY DEF Jobs
  <2>4. linux_task \in BOOLEAN /\ tls_cleaned \in BOOLEAN /\ stopped \in BOOLEAN
    OBVIOUS
  <2>. QED  BY <2>1, <2>2, <2>3, <2>4 DEF TypeOK, Lives
<1>2. JobsOK
  BY DEF JobsOK, Building, NotifyInit
<1>3. HeldOK
  BY DEF HeldOK, Owned
<1>4. TlsOK /\ OwnEndOK
  BY DEF TlsOK, OwnEndOK, EndsByItself, Deleting
<1>. QED  BY <1>1, <1>2, <1>3, <1>4 DEF LifeInv

\* Every step keeps the life of the task in its type.
LEMMA NextTypeOK == NotifyInv /\ LifeInv /\ [Next]_vars => TypeOK'
<1>. SUFFICES ASSUME NotifyInv, LifeInv, [Next]_vars PROVE TypeOK'
  OBVIOUS
<1>. USE Constants, TaskAssumption DEF LifeInv, TypeOK, Contexts, Goto
<1>a. NotifyTypeOK' /\ style' \in Styles
  BY NextNotifyTypeOK DEF NotifyTypeOK
<1>1. CASE CallStep
  BY <1>1, <1>a DEF CallStep, taskVars
<1>2. CASE CreateNext
  <2>1. \A rs : Allocated(rs) \in [Resources -> Int] /\ Freed(rs) \in [Resources -> Int]
    BY DEF Allocated, Freed
  <2>2. held' \in [Resources -> Int]
    BY <1>2, <2>1 DEF CreateNext, Create, CreateContexts, CheckContexts, CreateStack, CreateThread, Publish
  <2>3. life' \in Lives /\ job' \in [Contexts -> Jobs] /\ linux_task' \in BOOLEAN
    BY <1>2 DEF CreateNext, Create, CreateContexts, CheckContexts, CreateStack, CreateThread, Publish,
         CreateFails, Lives, Jobs
  <2>4. UNCHANGED <<tls, tls_cleaned, todo, stopped, ran>>
    BY <1>2 DEF CreateNext, Create, CreateContexts, CheckContexts, CreateStack, CreateThread, Publish
  <2>. QED  BY <1>a, <2>2, <2>3, <2>4
<1>3. CASE TaskEntry \/ vTaskSuspend \/ SuspendInterrupted \/ TaskLeaves
  BY <1>3, <1>a DEF TaskEntry, vTaskSuspend, SuspendInterrupted, TaskLeaves, Lives, Jobs
<1>4. ASSUME NEW i \in Slots, vTaskSetThreadLocalStoragePointerAndDelCallback(i) PROVE TypeOK'
  BY <1>4, <1>a DEF vTaskSetThreadLocalStoragePointerAndDelCallback
<1>5. ASSUME NEW c \in Contexts, Destroy(c) PROVE TypeOK'
  <2>1. PICK i \in Slots : Visit(c, i)
    BY <1>5, DestroyStep
  <2>2. ran' \in [Slots -> Nat]
    <3>1. i \in Slots /\ ran[i] \in Nat
      BY <2>1
    <3>2. ran[i] + 1 \in Nat
      BY <3>1
    <3>. QED  BY <2>1, <3>2 DEF Visit
  <2>3. todo' \in [Contexts -> SUBSET Slots]
    BY <2>1 DEF Visit
  <2>4. job' \in [Contexts -> Jobs]
    BY <1>5 DEF Destroy, Jobs
  <2>. QED  BY <1>5, <1>a, <2>2, <2>3, <2>4 DEF Destroy
<1>6. ASSUME NEW c \in Contexts, DestructorWoken(c) \/ CleanedForStop(c) \/ Stop(c) \/ ReadsFreed(c)
      PROVE  TypeOK'
  BY <1>6, <1>a DEF DestructorWoken, CleanedForStop, Stop, ReadsFreed, Jobs
<1>7. ASSUME NEW c \in Contexts, vTaskDelete(c) \/ (c = Target /\ TaskEnds) PROVE TypeOK'
  BY <1>7, <1>a DEF vTaskDelete, TaskEnds, CleanTls, Jobs
<1>8. CASE StoppedInWait
  BY <1>8, <1>a DEF StoppedInWait, Lives, Jobs
<1>9. CASE s31_rtos_task_release
  BY <1>9, <1>a DEF s31_rtos_task_release, Freed, Lives
<1>. QED  BY <1>1, <1>2, <1>3, <1>4, <1>5, <1>6, <1>7, <1>8, <1>9, LifeSteps DEF LifeNext

\* What the steps of the life of the task leave alone.
LEMMA LifeKeepsCalls ==
  ASSUME CreateNext \/ LifeNext, ~StoppedInWait
  PROVE  UNCHANGED pc
<1>1. CASE CreateNext
  BY <1>1 DEF CreateNext, Create, CreateContexts, CheckContexts, CreateStack, CreateThread, Publish, notifyVars
<1>2. CASE LifeNext
  BY <1>2 DEF LifeNext, TaskEntry, vTaskSuspend, SuspendInterrupted, TaskEnds, TaskLeaves,
       vTaskSetThreadLocalStoragePointerAndDelCallback, Destroy, DestructorWoken, vTaskDelete,
       CleanedForStop, Stop, ReadsFreed, s31_rtos_task_release, notifyVars
<1>. QED  BY <1>1, <1>2

\* Every step keeps each context in a function it can be in.
LEMMA NextJobsOK == NotifyInv /\ LifeInv /\ [Next]_vars => JobsOK'
<1>. SUFFICES ASSUME NotifyInv, LifeInv, [Next]_vars PROVE JobsOK'
  OBVIOUS
<1>. USE Constants, TaskAssumption
     DEF LifeInv, TypeOK, NotifyTypeOK, Contexts, Goto, JobsOK, Building, Deleting
<1>1. CASE CallStep
  BY <1>1 DEF CallStep, taskVars
<1>2. CASE StoppedInWait
  BY <1>2 DEF StoppedInWait, Leave
<1>. SUFFICES ASSUME ~StoppedInWait, CreateNext \/ LifeNext PROVE JobsOK'
  BY <1>1, <1>2, LifeSteps
<1>a. UNCHANGED pc
  BY LifeKeepsCalls
<1>3. CASE Create \/ CreateContexts \/ CheckContexts \/ CreateStack
  BY <1>3, <1>a DEF Create, CreateContexts, CheckContexts, CreateStack, CreateFails
<1>4. CASE CreateThread \/ Publish
  BY <1>4, <1>a DEF CreateThread, Publish, CreateFails
<1>5. CASE TaskEntry
  BY <1>5, <1>a DEF TaskEntry
<1>6. CASE vTaskSuspend \/ SuspendInterrupted \/ TaskLeaves \/ TaskEnds
  BY <1>6, <1>a DEF vTaskSuspend, SuspendInterrupted, TaskLeaves, TaskEnds, Payload, CleanTls
<1>7. ASSUME NEW i \in Slots, vTaskSetThreadLocalStoragePointerAndDelCallback(i) PROVE JobsOK'
  BY <1>7, <1>a DEF vTaskSetThreadLocalStoragePointerAndDelCallback
<1>8. ASSUME NEW c \in Contexts, Destroy(c) \/ DestructorWoken(c) PROVE JobsOK'
  BY <1>8, <1>a DEF Destroy, DestructorWoken
<1>9. ASSUME NEW c \in Notifiers, vTaskDelete(c) PROVE JobsOK'
  BY <1>9, <1>a DEF vTaskDelete, CleanTls, HandleValid
<1>10. ASSUME NEW c \in Notifiers, CleanedForStop(c) \/ Stop(c) \/ ReadsFreed(c) PROVE JobsOK'
  BY <1>10, <1>a DEF CleanedForStop, Stop, ReadsFreed
<1>11. CASE s31_rtos_task_release
  BY <1>11, <1>a DEF s31_rtos_task_release
<1>. QED  BY <1>3, <1>4, <1>5, <1>6, <1>7, <1>8, <1>9, <1>10, <1>11 DEF CreateNext, LifeNext

\* Every step keeps what is allocated in agreement with the life of the task.
LEMMA NextHeldOK == NotifyInv /\ LifeInv /\ [Next]_vars => HeldOK'
<1>. SUFFICES ASSUME NotifyInv, LifeInv, [Next]_vars PROVE HeldOK'
  OBVIOUS
<1>. USE Constants, TaskAssumption DEF LifeInv, TypeOK, Contexts, Goto, HeldOK, Resources
<1>1. CASE CallStep
  <2>1. Owned' = Owned /\ held' = held
    BY <1>1 DEF CallStep, taskVars, Owned, Got
  <2>. QED  BY <2>1
<1>. SUFFICES ASSUME CreateNext \/ LifeNext PROVE HeldOK'
  BY <1>1, LifeSteps
<1>2. CASE Create
  BY <1>2 DEF Create, CreateFails, Allocated, Owned
<1>3. CASE CreateContexts
  BY <1>3 DEF CreateContexts, Allocated, Owned, Got, WaitObjects, JobsOK, Building
<1>3a. CASE CheckContexts
  BY <1>3a DEF CheckContexts, CreateFails, Freed, Owned, Got, WaitObjects, JobsOK, Building
<1>4. CASE CreateStack
  BY <1>4 DEF CreateStack, CreateFails, Allocated, Freed, Owned, JobsOK, Building
<1>5. CASE CreateThread
  BY <1>5 DEF CreateThread, CreateFails, Freed, Owned, JobsOK, Building
<1>6. CASE s31_rtos_task_release
  <2>1. Owned = {"tcb", "notify", "suspend"} /\ Owned' = {}
    BY <1>6 DEF s31_rtos_task_release, Owned
  <2>2. ASSUME NEW r \in Resources PROVE held'[r] = 0
    <3>1. held[r] = IF r = "stack" THEN 0 ELSE 1
      BY <2>1
    <3>2. held'[r] = held[r] - IF r = "stack" THEN 0 ELSE 1
      BY <1>6 DEF s31_rtos_task_release, Freed
    <3>. QED  BY <3>1, <3>2
  <2>. QED  BY <2>1, <2>2
\* The rest stays within one stretch of the life.
<1>7. ASSUME held' = held, life \notin {"none", "creating", "failed", "released"},
             life' \notin {"none", "creating", "failed", "released"}
      PROVE  HeldOK'
  BY <1>7 DEF Owned
<1>8. ASSUME held' = held, life' = life, life # "creating" PROVE HeldOK'
  BY <1>8 DEF Owned
<1>9. CASE Publish
  BY <1>9, <1>8 DEF Publish, JobsOK, Building
<1>10. CASE TaskEntry \/ StoppedInWait
  BY <1>10, <1>7 DEF TaskEntry, StoppedInWait
<1>11. CASE TaskLeaves
  BY <1>11, <1>7 DEF TaskLeaves, JobsOK
<1>12. CASE vTaskSuspend \/ SuspendInterrupted \/ TaskEnds
  BY <1>12, <1>8 DEF vTaskSuspend, SuspendInterrupted, TaskEnds, Payload, JobsOK
<1>13. ASSUME NEW i \in Slots, vTaskSetThreadLocalStoragePointerAndDelCallback(i) PROVE HeldOK'
  BY <1>13, <1>8 DEF vTaskSetThreadLocalStoragePointerAndDelCallback, Payload
\* The creator is not inside a destructor while it creates.
<1>14. ASSUME NEW c \in Contexts, Deleting(c) PROVE life # "creating"
  BY <1>14 DEF TlsOK
<1>15. ASSUME NEW c \in Contexts, Destroy(c) \/ DestructorWoken(c) PROVE HeldOK'
  BY <1>15, <1>8, <1>14 DEF Destroy, DestructorWoken, Deleting
<1>16. ASSUME NEW c \in Notifiers, vTaskDelete(c) PROVE HeldOK'
  BY <1>16, <1>8 DEF vTaskDelete, HandleValid
<1>17. ASSUME NEW c \in Notifiers, CleanedForStop(c) \/ Stop(c) \/ ReadsFreed(c) PROVE HeldOK'
  BY <1>17, <1>8, <1>14 DEF CleanedForStop, Stop, ReadsFreed, Deleting
<1>. QED  BY <1>2, <1>3, <1>3a, <1>4, <1>5, <1>6, <1>9, <1>10, <1>11, <1>12, <1>13, <1>15, <1>16,
            <1>17
            DEF CreateNext, LifeNext

\* No step gives a destructor to two contexts or calls it again.
LEMMA NextTlsOK == NotifyInv /\ LifeInv /\ [Next]_vars => TlsOK'
<1>. SUFFICES ASSUME NotifyInv, LifeInv, [Next]_vars PROVE TlsOK'
  OBVIOUS
<1>. USE Constants, TaskAssumption DEF LifeInv, TypeOK, Contexts, Goto, TlsOK, Deleting
<1>1. CASE CallStep
  BY <1>1 DEF CallStep, taskVars
<1>. SUFFICES ASSUME CreateNext \/ LifeNext PROVE TlsOK'
  BY <1>1, LifeSteps
<1>2. CASE Create
  BY <1>2 DEF Create, CreateFails
<1>3. CASE CreateContexts \/ CheckContexts \/ CreateStack
  BY <1>3 DEF CreateContexts, CheckContexts, CreateStack, CreateFails, JobsOK, Building
<1>4. CASE CreateThread \/ Publish
  <2>1. /\ UNCHANGED <<todo, ran, tls_cleaned>> /\ ~Deleting(Creator) /\ ~Deleting(Creator)'
        /\ \A c \in Contexts : c # Creator => job'[c] = job[c]
    BY <1>4 DEF CreateThread, Publish, CreateFails
  <2>2. life' \in {"none", "creating", "failed"} => ~tls_cleaned
    BY <1>4 DEF CreateThread, Publish, CreateFails, JobsOK, Building
  <2>. QED  BY <2>1, <2>2
<1>5. CASE TaskEntry \/ vTaskSuspend \/ SuspendInterrupted \/ s31_rtos_task_release
  <2>1. /\ UNCHANGED <<todo, ran, tls_cleaned>>
        /\ life' \in {"none", "creating", "failed"} => ~tls_cleaned
    BY <1>5 DEF TaskEntry, vTaskSuspend, SuspendInterrupted, s31_rtos_task_release, Payload
  <2>2. /\ UNCHANGED job \/ (~Deleting(Target) /\ ~Deleting(Target)')
        /\ \A c \in Contexts : c # Target => job'[c] = job[c]
    BY <1>5 DEF TaskEntry, vTaskSuspend, SuspendInterrupted, s31_rtos_task_release, Payload
  <2>. QED  BY <2>1, <2>2
<1>6. ASSUME NEW i \in Slots, vTaskSetThreadLocalStoragePointerAndDelCallback(i) PROVE TlsOK'
  BY <1>6 DEF vTaskSetThreadLocalStoragePointerAndDelCallback
<1>7. CASE TaskLeaves \/ StoppedInWait
  BY <1>7 DEF TaskLeaves, StoppedInWait
\* The flag is set with the loop: only the first cleaner finds slots to clean.
<1>8. ASSUME NEW c \in Contexts, CleanTls(c), UNCHANGED <<life, ran, tls>>,
             life \in {"created", "running"}
      PROVE  TlsOK'
  <2>1. tls_cleaned' = TRUE /\ UNCHANGED <<life, ran>>
    BY <1>8 DEF CleanTls
  <2>2. CASE tls_cleaned
    <3>1. todo' = [todo EXCEPT ![c] = {}] /\ job' = [job EXCEPT ![c] = "dtors"]
      BY <1>8, <2>2 DEF CleanTls
    <3>. QED  BY <1>8, <2>1, <2>2, <3>1
  <2>3. CASE ~tls_cleaned
    <3>1. todo' = [todo EXCEPT ![c] = Slots] /\ job' = [job EXCEPT ![c] = "dtors"]
      BY <1>8, <2>3 DEF CleanTls
    <3>2. (\A i \in Slots : ran[i] = 0) /\ (\A d \in Contexts : todo[d] = {})
      BY <2>3
    <3>. QED  BY <1>8, <2>1, <3>1, <3>2
  <2>. QED  BY <2>2, <2>3
<1>9. CASE TaskEnds
  BY <1>8, <1>9 DEF TaskEnds, Payload
<1>10. ASSUME NEW c \in Notifiers, vTaskDelete(c) PROVE TlsOK'
  BY <1>8, <1>10 DEF vTaskDelete, HandleValid
<1>11. ASSUME NEW c \in Contexts, Destroy(c) PROVE TlsOK'
  <2>1. PICK i \in Slots : Visit(c, i)
    BY <1>11, DestroyStep
  <2>2. ran[i] = 0 /\ \A d \in Contexts : d # c => i \notin todo[d]
    BY <2>1 DEF Visit
  <2>3. /\ UNCHANGED <<life, tls_cleaned>> /\ tls_cleaned /\ job[c] = "dtors"
        /\ job' = [job EXCEPT ![c] = "dtors"] \/ job' = [job EXCEPT ![c] = "dtorWaits"]
    BY <1>11 DEF Destroy
  <2>4. ran' = [ran EXCEPT ![i] = 1] \/ ran' = ran
    BY <2>1, <2>2 DEF Visit
  <2>5. todo' = [todo EXCEPT ![c] = todo[c] \ {i}]
    BY <2>1 DEF Visit
  <2>. QED  BY <2>2, <2>3, <2>4, <2>5
<1>12. ASSUME NEW c \in Contexts, DestructorWoken(c) PROVE TlsOK'
  BY <1>12 DEF DestructorWoken
<1>13. ASSUME NEW c \in Notifiers, CleanedForStop(c) \/ Stop(c) \/ ReadsFreed(c) PROVE TlsOK'
  BY <1>13 DEF CleanedForStop, Stop, ReadsFreed
<1>. QED  BY <1>2, <1>3, <1>4, <1>5, <1>6, <1>7, <1>9, <1>10, <1>11, <1>12, <1>13
            DEF CreateNext, LifeNext

\* No step loses a destructor of a task that ends by itself.
LEMMA NextOwnEndOK == NotifyInv /\ LifeInv /\ [Next]_vars => OwnEndOK'
<1>. SUFFICES ASSUME NotifyInv, LifeInv, [Next]_vars PROVE OwnEndOK'
  OBVIOUS
<1>. USE Constants, TaskAssumption
     DEF LifeInv, TypeOK, Contexts, Goto, OwnEndOK, EndsByItself, Deleting
<1>1. CASE CallStep
  BY <1>1 DEF CallStep, taskVars
<1>. SUFFICES ASSUME CreateNext \/ LifeNext PROVE OwnEndOK'
  BY <1>1, LifeSteps
<1>2. CASE Create \/ CreateContexts \/ CheckContexts \/ CreateStack \/ CreateThread
  \* Nothing has been cleaned yet.
  <2>1. ~tls_cleaned /\ UNCHANGED tls_cleaned /\ life' \notin {"exiting", "released"}
    BY <1>2 DEF Create, CreateContexts, CheckContexts, CreateStack, CreateThread, CreateFails, JobsOK, Building,
         TlsOK
  <2>. QED  BY <2>1
<1>3. CASE Publish
  BY <1>3 DEF Publish
<1>4. CASE TaskEntry
  BY <1>4 DEF TaskEntry
<1>5. CASE vTaskSuspend \/ SuspendInterrupted
  BY <1>5 DEF vTaskSuspend, SuspendInterrupted, Payload, JobsOK
<1>6. ASSUME NEW i \in Slots, vTaskSetThreadLocalStoragePointerAndDelCallback(i) PROVE OwnEndOK'
  \* A task in its payload is not at its own end.
  BY <1>6 DEF vTaskSetThreadLocalStoragePointerAndDelCallback, Payload
<1>7. CASE TaskEnds
  <2>1. /\ UNCHANGED <<life, tls, ran, stopped>> /\ life = "running" /\ job[Target] = "none"
        /\ job' = [job EXCEPT ![Target] = "dtors"]
        /\ todo' = [todo EXCEPT ![Target] = IF tls_cleaned THEN {} ELSE Slots]
    BY <1>7 DEF TaskEnds, CleanTls, Payload
  <2>2. CASE tls_cleaned
    BY <2>1, <2>2
  <2>3. CASE ~tls_cleaned
    BY <2>1, <2>3
  <2>. QED  BY <2>2, <2>3
<1>8. CASE TaskLeaves
  <2>1. tls_cleaned /\ life = "running"
    BY <1>8 DEF TaskLeaves, TlsOK, JobsOK
  <2>. QED  BY <1>8, <2>1 DEF TaskLeaves
<1>9. CASE StoppedInWait
  BY <1>9 DEF StoppedInWait
<1>10. ASSUME NEW c \in Notifiers, vTaskDelete(c) PROVE OwnEndOK'
  <2>1. Deleting(c)' /\ life' \notin {"exiting", "released"}
    BY <1>10 DEF vTaskDelete, CleanTls, HandleValid
  <2>. QED  BY <2>1
<1>11. ASSUME NEW c \in Contexts, Destroy(c) PROVE OwnEndOK'
  <2>1. PICK i \in Slots : Visit(c, i)
    BY <1>11, DestroyStep
  <2>2. /\ UNCHANGED <<life, tls, tls_cleaned, stopped>> /\ job[c] = "dtors"
        /\ job' = [job EXCEPT ![c] = "dtors"] \/ job' = [job EXCEPT ![c] = "dtorWaits"]
    BY <1>11 DEF Destroy
  <2>3. (i \in tls /\ ran' = [ran EXCEPT ![i] = 1]) \/ (i \notin tls /\ ran' = ran)
    <3>1. ran[i] = 0
      BY <2>1 DEF TlsOK, Visit
    <3>. QED  BY <2>1, <3>1 DEF Visit
  <2>4. CASE c = Target
    <3>1. todo' = [todo EXCEPT ![Target] = todo[Target] \ {i}]
      BY <2>1, <2>4 DEF Visit
    <3>. QED  BY <2>2, <2>3, <2>4, <3>1
  <2>5. CASE c # Target
    <3>1. c \in Notifiers /\ Deleting(c)'
      BY <2>2, <2>5
    <3>. QED  BY <2>2, <3>1
  <2>. QED  BY <2>4, <2>5
<1>12. ASSUME NEW c \in Contexts, DestructorWoken(c) PROVE OwnEndOK'
  BY <1>12 DEF DestructorWoken
<1>13. ASSUME NEW c \in Notifiers, CleanedForStop(c) \/ Stop(c) \/ ReadsFreed(c) PROVE OwnEndOK'
  BY <1>13 DEF CleanedForStop, Stop, ReadsFreed
<1>14. CASE s31_rtos_task_release
  BY <1>14 DEF s31_rtos_task_release
<1>. QED  BY <1>2, <1>3, <1>4, <1>5, <1>6, <1>7, <1>8, <1>9, <1>10, <1>11, <1>12, <1>13, <1>14
            DEF CreateNext, LifeNext

\* The whole invariant holds of every reachable state.
LEMMA SpecIndInv == Spec => []IndInv
<1>1. NotifyInv /\ LifeInv /\ [Next]_vars => NotifyInv' /\ LifeInv'
  BY NextNotifyTypeOK, NextCallOK, NextBitsKept, NextDeadlineKept, NextGivesConserved,
     NextTypeOK, NextJobsOK, NextHeldOK, NextTlsOK, NextOwnEndOK
    DEF NotifyInv, LifeInv
<1>2. NotifyInv /\ LifeInv => IndInv
  BY DEF NotifyInv, LifeInv, IndInv
<1>. QED  BY <1>1, <1>2, InitNotifyInv, InitLifeInv, PTL DEF Spec

(***************************************************************************)
(* Type correctness: notify_value, the ticks and the control block keep    *)
(* their types through every interleaving of the task's life.              *)
(***************************************************************************)
THEOREM TaskTypeCorrect == Spec => []TypeOK
BY SpecIndInv, PTL DEF IndInv

(***************************************************************************)
(* A TLS destructor runs at most once, and has run when a task that ended  *)
(* by itself is released.                                                  *)
(***************************************************************************)
THEOREM TaskDestroyedOnce == Spec => []DestroyedOnce
<1>1. IndInv => DestroyedOnce
  <2>. SUFFICES ASSUME IndInv PROVE DestroyedOnce
    OBVIOUS
  <2>1. \A i \in Slots : ran[i] <= 1
    BY DEF IndInv, TlsOK
  <2>2. ASSUME life = "released", ~stopped, \A c \in Notifiers : ~Deleting(c)
        PROVE  \A i \in tls : ran[i] = 1
    <3>1. job[Target] = "none"
      BY <2>2 DEF IndInv, JobsOK
    <3>2. EndsByItself
      BY <2>2 DEF IndInv, OwnEndOK, EndsByItself
    <3>3. todo[Target] = {}
      BY <3>1 DEF IndInv, TlsOK, Contexts
    <3>. QED  BY <3>2, <3>3 DEF IndInv, OwnEndOK
  <2>. QED  BY <2>1, <2>2 DEF DestroyedOnce
<1>. QED  BY <1>1, SpecIndInv, PTL

\* What the RTOS layer allocated for the task is freed at most once, and is all
\* freed when the creation has failed or the control block is released.
FreedOnce ==
  /\ \A r \in Resources : held[r] \in {0, 1}
  /\ life \in {"failed", "released"} => \A r \in Resources : held[r] = 0

(***************************************************************************)
(* The safety half of Reclaimed: whatever step of xTaskCreatePinnedToCore  *)
(* fails and whoever ends the task, no resource is freed twice, and none   *)
(* is left when s31_rtos_task_release or the failed creation is over.      *)
(***************************************************************************)
THEOREM TaskFreedOnce == Spec => []FreedOnce
<1>1. IndInv => FreedOnce
  BY DEF IndInv, HeldOK, Owned, FreedOnce
<1>. QED  BY <1>1, SpecIndInv, PTL
=============================================================================
