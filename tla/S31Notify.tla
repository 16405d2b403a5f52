------------------------------ MODULE S31Notify ------------------------------
(***************************************************************************)
(* Direct-to-task notifications of radio_firmware/s31_rtos/s31_rtos_core.c:*)
(* one target task with its notify_value and notify_state, waiting in      *)
(* ulTaskGenericNotifyTake or xTaskGenericNotifyWait, and any number of    *)
(* notifiers (tasks and ISRs) in xTaskGenericNotify.  The target is the    *)
(* only waiter on its notify_context.  Its timeouts run on a tick counter  *)
(* that wraps.  S31Task composes this module with the life of the target.  *)
(***************************************************************************)
EXTENDS Integers, S31Sync, S31Deadline

CONSTANTS
  Target,      \* the notified task
  Notifiers,   \* the contexts that notify it
  NoCall,      \* the target outside a notification call
  Modulus,     \* how many values notify_value has (2^32 in the code)
  BitOr(_, _), \* `|' and `&' of two of them
  BitAnd(_, _),
  Styles,      \* the ways a task uses its notification: the calls it makes
               \* and the (action, value) pairs its notifiers pass (and, for
               \* S31Task, the TLS slots it uses)
  Starts,      \* bound: the values of the tick counter at which a call begins
  MaxElapsed,  \* bound: the ticks counted during one call
  MaxSends     \* bound: how many notifications are sent

Values == 0 .. Modulus - 1

Call == [kind : {"take"}, clear : BOOLEAN, timeout : Ticks]
          \cup [kind : {"wait"}, entry : Values, exit : Values, timeout : Ticks]

\* The eNotifyAction argument of xTaskGenericNotify, 0 to 4.
Actions == {"none", "bits", "increment", "overwrite", "noOverwrite"}

ASSUME NotifyAssumption ==
  /\ Modulus \in Nat \ {0}
  /\ \A v, w \in Values : BitOr(v, w) \in Values /\ BitAnd(v, w) \in 0 .. v
  /\ \A v, w, x \in Values : BitOr(BitOr(v, w), x) = BitOr(v, BitOr(w, x))
  /\ \A v, w \in Values : BitOr(v, w) = BitOr(w, v)
  /\ \A v \in Values : BitOr(v, v) = v /\ BitOr(v, 0) = v /\ BitAnd(v, 0) = 0
  /\ NoCall \notin Call
  /\ \A s \in Styles : s.calls \subseteq Call /\ s.sends \subseteq Actions \X Values
  /\ Target \notin Notifiers
  /\ MaxSends \in Nat
  /\ Starts \subseteq Ticks /\ MaxElapsed \in 1 .. Word - 1

VARIABLES
  style,    \* the protocol of this target
  value,    \* t->notify_value
  state,    \* t->notify_state
  pc,       \* where the target and each notifier are
  call,     \* the target's call
  start,    \* the tick at which the call began
  elapsed,  \* the ticks since then
  left,     \* the ticks left of its s31_linux_sync_wait; portMAX_DELAY: no limit
  sent,     \* how many notifications were accepted
  owed,     \* history: the bits set by eSetBits and in no value a pdPASS gave
  taken     \* history: the counts handed out by ulTaskGenericNotifyTake

timing == <<start, elapsed, left>>
notifyVars == <<style, value, state, pc, call, start, elapsed, left,
                sent, owed, taken, fresh>>

NotifyTypeOK == /\ style \in Styles
                /\ value \in Values
                /\ state \in {"notWaiting", "waiting", "received"}
                /\ pc \in [{Target} \cup Notifiers -> {"idle", "check", "wait", "ended", "interrupted", "wake"}]
                /\ call \in style.calls \cup {NoCall}
                /\ start \in Ticks /\ elapsed \in 0 .. MaxElapsed /\ left \in Ticks
                /\ sent \in 0 .. MaxSends
                /\ owed \in Values
                /\ taken \in Nat
                /\ fresh \in SUBSET {Target}

\* xTaskCreatePinnedToCore zeroes the TCB.
NotifyInit == /\ style \in Styles
              /\ value = 0
              /\ state = "notWaiting"
              /\ pc = [p \in {Target} \cup Notifiers |-> "idle"]
              /\ call = NoCall
              /\ start = 0 /\ elapsed = 0 /\ left = 0
              /\ sent = 0
              /\ owed = 0
              /\ taken = 0
              /\ SyncInit

\* The styles the histories are kept for.
BitsOnly == /\ \A c \in style.calls : c.kind = "wait" /\ c.entry = 0
            /\ \A s \in style.sends : s[1] \in {"none", "bits"}

CountsOnly == /\ \A c \in style.calls : c.kind = "take"
              /\ \A s \in style.sends : s[1] = "increment"

-----------------------------------------------------------------------------
(* Notifying *)

Notified(action, v) == CASE action = "none"      -> value
                         [] action = "bits"      -> BitOr(value, v)
                         [] action = "increment" -> (value + 1) % Modulus
                         [] OTHER                -> v

Accepts(action) == ~(action = "noOverwrite" /\ state = "received")

\* The locked block of xTaskGenericNotify; a refused one changes nothing.
xTaskGenericNotify(p) ==
  /\ pc[p] = "idle" /\ sent < MaxSends
  /\ \E s \in style.sends :
       /\ Accepts(s[1])
       /\ value' = Notified(s[1], s[2])
       /\ owed' = IF BitsOnly /\ s[1] = "bits" THEN BitOr(owed, s[2]) ELSE owed
  /\ state' = "received"
  /\ pc' = [pc EXCEPT ![p] = "wake"]
  /\ sent' = sent + 1
  /\ UNCHANGED <<style, call, timing, taken, fresh>>

\* Faulty: no wake follows the update.
WakeSkipped(p) == /\ pc[p] = "wake"
                  /\ pc' = [pc EXCEPT ![p] = "idle"]
                  /\ UNCHANGED <<style, value, state, call, timing, sent, owed, taken, fresh>>

\* s31_linux_sync_wake after the unlock.
Wake(p) == /\ pc[p] = "wake"
           /\ pc' = [pc EXCEPT ![p] = "idle"]
           /\ SyncWake
           /\ UNCHANGED <<style, value, state, call, timing, sent, owed, taken>>

-----------------------------------------------------------------------------
(* The target *)

Cleared(v, mask) == v - BitAnd(v, mask)

\* The tick of the start matters to a call with a finite timeout only.
Enter == /\ pc[Target] = "idle"
         /\ call' \in style.calls
         /\ start' \in IF call'.timeout \in {0, portMAX_DELAY} THEN {0} ELSE Starts
         /\ UNCHANGED <<elapsed, left>>
         /\ pc' = [pc EXCEPT ![Target] = "check"]
         /\ SyncSequence(Target)
         /\ UNCHANGED <<style, value, state, sent, owed, taken>>

Leave == /\ pc' = [pc EXCEPT ![Target] = "idle"]
         /\ call' = NoCall
         /\ start' = 0 /\ elapsed' = 0 /\ left' = 0
         /\ SyncForget(Target)

s31_notify_wait_remaining ==
  s31_wait_remaining(call.timeout, start, TickAfter(start, elapsed))

\* Inside the loop: park with state WAITING, or with no time left end the wait.
ParkOrEnd ==
  /\ state' = "waiting"
  /\ LET remaining == s31_notify_wait_remaining
     IN \/ /\ call.timeout # 0 /\ remaining # 0
           /\ left' = remaining
           /\ pc' = [pc EXCEPT ![Target] = "wait"]
        \/ /\ call.timeout = 0 \/ remaining = 0
           /\ pc' = [pc EXCEPT ![Target] = "ended"]
           /\ UNCHANGED left
  /\ UNCHANGED <<call, start, elapsed, sent, owed, taken, fresh>>

\* ulTaskGenericNotifyTake with a count to take.
TakeSucceeds ==
  /\ pc[Target] = "check" /\ call.kind = "take" /\ value # 0
  /\ value' = IF call.clear THEN 0 ELSE value - 1
  /\ taken' = taken + IF ~CountsOnly THEN 0 ELSE IF call.clear THEN value ELSE 1
  /\ state' = "notWaiting"
  /\ Leave
  /\ UNCHANGED <<sent, owed>>

TakeParks ==
  /\ pc[Target] = "check" /\ call.kind = "take" /\ value = 0
  /\ ParkOrEnd
  /\ UNCHANGED value

\* xTaskGenericNotifyWait with a notification received.
WaitSucceeds ==
  /\ pc[Target] = "check" /\ call.kind = "wait" /\ state = "received"
  /\ value' = Cleared(value, call.exit)
  /\ state' = "notWaiting"
  /\ owed' = 0
  /\ Leave
  /\ UNCHANGED <<sent, taken>>

\* Each round of the loop clears the entry bits before it parks.
WaitParks ==
  /\ pc[Target] = "check" /\ call.kind = "wait" /\ state # "received"
  /\ value' = Cleared(value, call.entry)
  /\ ParkOrEnd

Woken == /\ pc[Target] = "wait" /\ SyncMoved(Target)
         /\ pc' = [pc EXCEPT ![Target] = "check"]
         /\ SyncSequence(Target)
         /\ UNCHANGED <<style, value, state, call, timing, sent, owed, taken>>

\* The bridge ends the wait, but the target does not run yet.
WaitEnds(how) ==
  /\ pc[Target] = "wait"
  /\ pc' = [pc EXCEPT ![Target] = how]
  /\ UNCHANGED <<style, value, state, call, timing, sent, owed, taken, fresh>>

TimedOut == left = 0 /\ WaitEnds("ended")

Interrupted == WaitEnds("interrupted")

Clocked == /\ call # NoCall /\ call.timeout \notin {0, portMAX_DELAY}
           /\ elapsed < MaxElapsed

\* One tick of s31_linux_tick_count, which also runs down the bridge's wait.
Tick == /\ Clocked
        /\ elapsed' = elapsed + 1
        /\ left' = IF left = 0 THEN 0 ELSE left - 1
        /\ UNCHANGED <<style, value, state, pc, call, start, sent, owed, taken, fresh>>

\* Faulty: a wait that ended also drops the count.
TakeFailsClearing ==
  /\ pc[Target] \in {"ended", "interrupted"} /\ call.kind = "take"
  /\ state' = "notWaiting"
  /\ value' = 0
  /\ Leave
  /\ UNCHANGED <<sent, owed, taken>>

\* ulTaskGenericNotifyTake returns 0 and keeps the value.
TakeFails ==
  /\ pc[Target] \in {"ended", "interrupted"} /\ call.kind = "take"
  /\ state' = "notWaiting"
  /\ Leave
  /\ UNCHANGED <<value, sent, owed, taken>>

\* Faulty: the exit bits are cleared although pdFAIL is returned.
WaitFailsClearing ==
  /\ pc[Target] \in {"ended", "interrupted"} /\ call.kind = "wait"
  /\ state' = "notWaiting"
  /\ value' = Cleared(value, call.exit)
  /\ Leave
  /\ UNCHANGED <<sent, owed, taken>>

\* xTaskGenericNotifyWait returns pdFAIL.  It does not test the state again: a
\* notification that came since the wait ended loses its announcement, and
\* keeps its value (which `out' also shows, where the caller passes one).
WaitFails ==
  /\ pc[Target] \in {"ended", "interrupted"} /\ call.kind = "wait"
  /\ state' = "notWaiting"
  /\ Leave
  /\ UNCHANGED <<value, sent, owed, taken>>

Locked == /\ \/ TakeSucceeds \/ TakeParks \/ TakeFails
             \/ WaitSucceeds \/ WaitParks \/ WaitFails
          /\ UNCHANGED style

TargetNext == Enter \/ Locked \/ Woken \/ TimedOut \/ Interrupted

-----------------------------------------------------------------------------
(* Properties *)

Satisfied == IF call.kind = "take" THEN value # 0 ELSE state = "received"

(***************************************************************************)
(* A task that passes no entry mask to xTaskGenericNotifyWait never loses  *)
(* a bit: each bit that eSetBits set stays in notify_value until a wait    *)
(* has returned pdPASS with it, although a notification may race with the  *)
(* end of a wait, whose pdFAIL takes its announcement away.                *)
(***************************************************************************)
BitsKept == BitsOnly => BitOr(value, owed) = value

(***************************************************************************)
(* A counting notification is never lost: what ulTaskGenericNotifyTake has *)
(* handed out and what is left in notify_value add up to what the          *)
(* notifiers gave, whatever waits ended in between.  Only a count that     *)
(* wraps at the width of notify_value loses a whole multiple of it.        *)
(***************************************************************************)
GivesConserved ==
  CountsOnly => /\ taken + value <= sent
                /\ (sent - taken - value) % Modulus = 0

(***************************************************************************)
(* A wait keeps its deadline although it is woken and resumed any number   *)
(* of times and the tick counter wraps while it lasts: what is granted to  *)
(* each s31_linux_sync_wait ends exactly with the timeout of the call, the *)
(* call gives up only when that many ticks have passed, and one that is to *)
(* wait for ever never does.                                               *)
(***************************************************************************)
DeadlineKept ==
  /\ pc[Target] = "wait" /\ call.timeout # portMAX_DELAY =>
        IF left = 0 THEN elapsed >= call.timeout ELSE elapsed + left = call.timeout
  /\ pc[Target] = "ended" => call.timeout # portMAX_DELAY /\ elapsed >= call.timeout

InCall == pc[Target] \in {"check", "wait", "ended", "interrupted"}

MayExpire == call # NoCall /\ call.timeout # portMAX_DELAY

(***************************************************************************)
(* A target inside a call returns, or is ended: when its notification has  *)
(* arrived, unless the count it is to take is gone again (wrapped or       *)
(* overwritten by zero), and in any case when the call has a timeout.      *)
(***************************************************************************)
TargetServed == /\ InCall /\ Satisfied ~> ~InCall \/ ~Satisfied
                /\ InCall /\ MayExpire ~> ~InCall
=============================================================================
