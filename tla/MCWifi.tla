------------------------------- MODULE MCWifi -------------------------------
(* Requests for two networks over one driver start. *)
EXTENDS S31Radio

CONSTANTS home, guest
=============================================================================
