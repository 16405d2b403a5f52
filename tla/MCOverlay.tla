----------------------------- MODULE MCOverlay -----------------------------
(***************************************************************************)
(* Three overlays competing for two free pads, with room for two lines in  *)
(* the record, so that conflicts, reassignments and E2BIG all happen.      *)
(***************************************************************************)
EXTENDS S31Overlay

CONSTANTS uart1, pwm, sdm
=============================================================================
