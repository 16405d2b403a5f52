------------------------------- MODULE S31Sync -------------------------------
(***************************************************************************)
(* The Linux wait object (s31_linux_sync_create) that the RTOS layer       *)
(* blocks on.  It is implemented by the kernel driver, outside the         *)
(* repository, and is modelled from how the RTOS layer uses it: a waiter   *)
(* samples the object's sequence number before it tests its predicate and  *)
(* passes the sample to sync_wait, which does not sleep, or stops          *)
(* sleeping, once the sequence has moved on; sync_wake moves it and        *)
(* releases every waiter.                                                  *)
(*                                                                         *)
(* The number itself is never inspected, only compared with the sample, so *)
(* the state kept is who still holds an up-to-date sample.  (A wrap of the *)
(* 32-bit counter between sample and wait, 2^32 wakes, is left out.)       *)
(***************************************************************************)
VARIABLE fresh   \* the contexts whose sample equals the current sequence

SyncInit == fresh = {}

\* s31_linux_sync_sequence by context p.
SyncSequence(p) == fresh' = fresh \cup {p}

\* s31_linux_sync_wake: every outstanding sample becomes out of date.
SyncWake == fresh' = {}

\* p's sample is a local variable: it is gone when the call returns.
SyncForget(p) == fresh' = fresh \ {p}

\* s31_linux_sync_wait(seq) may return a positive value to p.
SyncMoved(p) == p \notin fresh
=============================================================================
