------------------------------ MODULE S31Timer ------------------------------
(***************************************************************************)
(* radio_firmware/s31_linux_timer.c: esp_timer on top of the Linux radio   *)
(* worker's tick.  The timers form a list; s31_linux_timers_tick scans it  *)
(* for a timer that is due, re-arms or disarms that timer, calls its       *)
(* callback and scans again from the front, 64 callbacks at the most.      *)
(*                                                                         *)
(* The blob gate keeps the API and the scan apart, but a callback may call *)
(* any part of the API, and may wait, which lets other tasks do so: every  *)
(* API call can happen while the worker is outside the scan, a callback    *)
(* included.  Callers pass handles that are live.                          *)
(***************************************************************************)
EXTENDS Integers, Sequences

CONSTANTS
  Timers,         \* the timers that can be allocated
  NoTimer,
  Delays,         \* the timeouts and periods callers pass, in microseconds
  MaxCallbacks,   \* 64 in the code
  MaxNow          \* bound: how long the clock runs

ASSUME TimerAssumption ==
  /\ NoTimer \notin Timers
  /\ Delays \subseteq Nat
  /\ MaxCallbacks \in Nat \ {0} /\ MaxNow \in Nat \ {0}

VARIABLES
  list,        \* s31_timers, front first
  alarm,       \* timer->alarm_us
  period,      \* timer->period_us, 0 for one shot
  active,      \* timer->active
  now,         \* s31_timer_now_us
  pc,          \* the worker: "idle", "scan", or "callback"
  callbacks,   \* callbacks of this tick
  running,     \* the timer whose callback runs
  origin,      \* history: the alarm a timer was last started or restarted with
  fired        \* history: callbacks since then

timers == <<list, alarm, period, active>>
worker == <<pc, callbacks, running>>
timerVars == <<list, alarm, period, active, now, pc, callbacks, running, origin, fired>>

TimerTypeOK ==
  /\ list \in Seq(Timers)
  /\ \A i, j \in 1 .. Len(list) : list[i] = list[j] => i = j
  /\ alarm \in [Timers -> Nat]
  /\ period \in [Timers -> Delays \cup {0}]
  /\ active \in [Timers -> BOOLEAN]
  /\ now \in 1 .. MaxNow
  /\ pc \in {"idle", "scan", "callback"}
  /\ callbacks \in 0 .. MaxCallbacks
  /\ running \in Timers \cup {NoTimer}
  /\ origin \in [Timers -> Nat]
  /\ fired \in [Timers -> Nat]

TimerInit ==
  /\ list = << >>
  /\ alarm = [t \in Timers |-> 0]
  /\ period = [t \in Timers |-> 0]
  /\ active = [t \in Timers |-> FALSE]
  /\ now = 1
  /\ pc = "idle" /\ callbacks = 0 /\ running = NoTimer
  /\ origin = [t \in Timers |-> 0]
  /\ fired = [t \in Timers |-> 0]

-----------------------------------------------------------------------------
(* The API *)

Live == {list[i] : i \in 1 .. Len(list)}

OutsideScan == pc # "scan"

esp_timer_create(t) ==
  /\ OutsideScan /\ t \notin Live
  /\ list' = <<t>> \o list
  /\ alarm' = [alarm EXCEPT ![t] = 0]
  /\ period' = [period EXCEPT ![t] = 0]
  /\ active' = [active EXCEPT ![t] = FALSE]
  /\ origin' = [origin EXCEPT ![t] = 0]
  /\ fired' = [fired EXCEPT ![t] = 0]
  /\ UNCHANGED <<now, worker>>

\* An active timer may be deleted; its memory keeps what it held.
esp_timer_delete(t) ==
  /\ OutsideScan
  /\ \E i \in 1 .. Len(list) :
        /\ list[i] = t
        /\ list' = [j \in 1 .. Len(list) - 1 |-> IF j < i THEN list[j] ELSE list[j + 1]]
  /\ UNCHANGED <<alarm, period, active, now, worker, origin, fired>>

\* s31_timer_start; `at' is never 0, the clock has left 0 at boot.
s31_timer_start(t, at, every) ==
  /\ OutsideScan /\ t \in Live /\ ~active[t]
  /\ alarm' = [alarm EXCEPT ![t] = at]
  /\ period' = [period EXCEPT ![t] = every]
  /\ active' = [active EXCEPT ![t] = TRUE]
  /\ origin' = [origin EXCEPT ![t] = at]
  /\ fired' = [fired EXCEPT ![t] = 0]
  /\ UNCHANGED <<list, now, worker>>

esp_timer_start_once(t) == \E d \in Delays : s31_timer_start(t, now + d, 0)

\* A period of 0 makes a one-shot timer.
esp_timer_start_periodic(t) == \E d \in Delays : s31_timer_start(t, now + d, d)

\* The first alarm must lie in the future.
esp_timer_start_once_at(t) ==
  \E d \in Delays \ {0} : s31_timer_start(t, now + d, 0)

esp_timer_start_periodic_at(t) ==
  \E d \in Delays, first \in Delays \ {0} : s31_timer_start(t, now + first, d)

esp_timer_stop(t) ==
  /\ OutsideScan /\ t \in Live /\ active[t]
  /\ active' = [active EXCEPT ![t] = FALSE]
  /\ UNCHANGED <<list, alarm, period, now, worker, origin, fired>>

esp_timer_restart(t) ==
  /\ OutsideScan /\ t \in Live /\ active[t]
  /\ \E d \in Delays \ {0} :
        /\ alarm' = [alarm EXCEPT ![t] = now + d]
        /\ period' = [period EXCEPT ![t] = IF @ = 0 THEN 0 ELSE d]
        /\ origin' = [origin EXCEPT ![t] = now + d]
  /\ fired' = [fired EXCEPT ![t] = 0]
  /\ UNCHANGED <<list, active, now, worker>>

-----------------------------------------------------------------------------
(* The worker *)

\* The worker's tick enters s31_linux_timers_tick.
Tick == /\ pc = "idle"
        /\ pc' = "scan" /\ callbacks' = 0
        /\ UNCHANGED <<timers, now, running, origin, fired>>

IsDue(t) == active[t] /\ alarm[t] <= now

\* Faulty: what a deleted timer's memory says still counts.
FirstDueDeleted(t) == IsDue(t)

\* The scan stops at t, the first timer of the list that is due.
FirstDue(t) ==
  \E i \in 1 .. Len(list) :
     /\ list[i] = t /\ IsDue(t)
     /\ \A j \in 1 .. i - 1 : ~IsDue(list[j])

\* Faulty: the alarm moves up to the present, not past it.
NextAlarmNow(t) == alarm[t] + ((now - alarm[t]) \div period[t]) * period[t]

\* Faulty: the next period is counted from the late callback.
NextAlarmDrifts(t) == now + period[t]

\* The first alarm after the present that keeps the timer's phase.
NextAlarm(t) == alarm[t] + ((now - alarm[t]) \div period[t] + 1) * period[t]

\* Below the limit on the callbacks of one tick.
MayDispatch == callbacks < MaxCallbacks

\* Re-arm a periodic timer, disarm a one-shot one, before the callback.
Rearm(t) ==
  IF period[t] # 0
  THEN alarm' = [alarm EXCEPT ![t] = NextAlarm(t)] /\ UNCHANGED active
  ELSE active' = [active EXCEPT ![t] = FALSE] /\ UNCHANGED alarm

Dispatch ==
  /\ pc = "scan" /\ MayDispatch
  /\ \E t \in Timers :
        /\ FirstDue(t)
        /\ Rearm(t)
        /\ running' = t
        /\ fired' = [fired EXCEPT ![t] = @ + 1]
  /\ callbacks' = callbacks + 1
  /\ pc' = "callback"
  /\ UNCHANGED <<list, period, now, origin>>

CallbackReturns ==
  /\ pc = "callback"
  /\ pc' = "scan" /\ running' = NoTimer
  /\ UNCHANGED <<timers, now, callbacks, origin, fired>>

\* Nothing is due, or this tick has made its share of callbacks.
TickEnds ==
  /\ pc = "scan" /\ ((\A t \in Timers : ~FirstDue(t)) \/ ~MayDispatch)
  /\ pc' = "idle"
  /\ UNCHANGED <<timers, now, callbacks, running, origin, fired>>

\* The monotonic clock moves at any time (external).
Clock == /\ now < MaxNow /\ now' = now + 1
         /\ UNCHANGED <<timers, worker, origin, fired>>

-----------------------------------------------------------------------------

API(t) == \/ esp_timer_create(t) \/ esp_timer_delete(t)
          \/ esp_timer_start_once(t) \/ esp_timer_start_periodic(t)
          \/ esp_timer_start_once_at(t) \/ esp_timer_start_periodic_at(t)
          \/ esp_timer_stop(t) \/ esp_timer_restart(t)

TimerNext ==
  \/ \E t \in Timers : API(t)
  \/ Tick \/ Dispatch \/ CallbackReturns \/ TickEnds
  \/ Clock

TimerSpec == TimerInit /\ [][TimerNext]_timerVars

-----------------------------------------------------------------------------
(* Properties *)

\* A callback starts in this step, for this timer.
Fires(t) == pc = "scan" /\ pc' = "callback" /\ running' = t

(***************************************************************************)
(* "A callback is allowed to delete any timer, including the next element  *)
(* in the list": no callback is made for a timer that has been deleted or  *)
(* stopped, by whomever and however late, nor before its time.             *)
(***************************************************************************)
OnlyLiveTimersFire ==
  [][\A t \in Timers : Fires(t) => t \in Live /\ active[t] /\ origin[t] <= now]_timerVars

(***************************************************************************)
(* However late the ticks come and however often the callbacks restart     *)
(* timers, a timer has fired at most once for each of its alarms that has  *)
(* passed: a one-shot timer once, a periodic one not more often than its   *)
(* period has elapsed, so that a late tick causes no burst.                *)
(***************************************************************************)
NoBurst ==
  \A t \in Timers :
     fired[t] <= IF now < origin[t] THEN 0
                 ELSE IF period[t] = 0 THEN 1
                 ELSE (now - origin[t]) \div period[t] + 1

(***************************************************************************)
(* A periodic timer keeps its phase: after missed periods the next alarm   *)
(* is again a whole number of periods after the first one.                 *)
(***************************************************************************)
PhaseKept ==
  \A t \in Live : active[t] /\ period[t] # 0 =>
     alarm[t] >= origin[t] /\ (alarm[t] - origin[t]) % period[t] = 0
=============================================================================
