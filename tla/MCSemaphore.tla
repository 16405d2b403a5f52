---------------------------- MODULE MCSemaphore ----------------------------
(* Three tasks on one mutex or one counting semaphore; no symmetry, because  *)
(* the run checks a liveness property.                                       *)
EXTENDS S31Semaphore
=============================================================================
