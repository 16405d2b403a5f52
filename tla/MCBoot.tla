------------------------------- MODULE MCBoot -------------------------------
(***************************************************************************)
(* Words of 16 values stand for uint32_t, so that the subtraction in the   *)
(* FDT check can wrap; partitions with no room for the slot, of whole      *)
(* words and not, at the place the loader takes them to be and elsewhere.  *)
(***************************************************************************)
EXTENDS S31Boot
=============================================================================
