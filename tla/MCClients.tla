----------------------------- MODULE MCClients -----------------------------
(* Two clients at a time; ble_scan has room for two of three devices. *)
EXTENDS S31Clients, TLC

CONSTANTS p1, p2, d1, d2, d3

Both(a, b, air, room) == [tools |-> (p1 :> a @@ p2 :> b), air |-> air, room |-> room]

MCSettings == {Both("ble_scan", "ble_scan", {d1}, 1),
               Both("ble_scan", "power_off", {d1, d2, d3}, 1),
               Both("ble_scan", "power_on", {d1}, 2),
               Both("power_on", "power_off", {}, 2),
               Both("wifi_scan", "wifi_connect", {}, 2)}
=============================================================================
