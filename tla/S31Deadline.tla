----------------------------- MODULE S31Deadline -----------------------------
(***************************************************************************)
(* The deadline arithmetic of the RTOS layer's waits.  A call remembers    *)
(* the tick at which it began; each round of its loop asks how much of the *)
(* timeout is left.  Ticks are unsigned words (2^32 values in the code),   *)
(* the counter wraps, and portMAX_DELAY, the largest word, means for ever. *)
(* s31_rtos_queue.c, s31_rtos_event.c and s31_rtos_core.c each have a copy *)
(* of the function.                                                        *)
(***************************************************************************)
EXTENDS Integers

CONSTANT Word   \* how many values a tick has

ASSUME DeadlineAssumption == Word \in Nat /\ Word > 1

Ticks == 0 .. Word - 1

portMAX_DELAY == Word - 1

\* The counter d ticks after it was start.
TickAfter(start, d) == (start + d) % Word

\* Faulty: compares the counter with the tick at which the timeout ends.
RemainingByDeadline(timeout, start, now) ==
  IF timeout = portMAX_DELAY THEN portMAX_DELAY
  ELSE IF now >= TickAfter(start, timeout) THEN 0
       ELSE TickAfter(start, timeout) - now

s31_wait_remaining(timeout, start, now) ==
  LET elapsed == (now - start) % Word
  IN IF timeout = portMAX_DELAY THEN portMAX_DELAY
     ELSE IF elapsed >= timeout THEN 0 ELSE timeout - elapsed
=============================================================================
