----------------------------- MODULE S31Clients -----------------------------
(***************************************************************************)
(* The command-line clients of rootfs/: ble_power.c and ble_scan.c, which  *)
(* send commands to the Bluetooth management channel and look for their    *)
(* answers among everything else that is broadcast there, and wifi_scan.c  *)
(* and wifi_connect.c, which exchange nl80211 messages with the kernel     *)
(* over a netlink socket.  Any two may run at the same time.               *)
(*                                                                         *)
(* A client is a script of requests, each awaited before the next is sent. *)
(* The kernel is outside the repository and modelled by what the clients   *)
(* rely on.  Message layout, the derivation of the PMK and the printing    *)
(* are left out.                                                           *)
(***************************************************************************)
EXTENDS Integers, Sequences, FiniteSets

CONSTANTS
  Procs,        \* client processes
  Settings,     \* what runs at once: the tool of each process, the devices in the
                \* air, and how much a socket buffers (the kernel drops the rest)
  Devices,      \* (address, type) pairs
  MAX_DEVICES,  \* length of ble_scan's table, 128 in the code
  MaxTries,     \* rounds of set_powered, 10 in the code
  MaxBss        \* bound: the networks in one scan dump

\* The requests of each tool, in the order it makes them.
Script == [power_on     |-> <<"POWER_ON">>,
           power_off    |-> <<"POWER_OFF">>,
           ble_scan     |-> <<"POWER_ON", "START_DISCOVERY", "STOP_DISCOVERY">>,
           wifi_scan    |-> <<"GETFAMILY", "TRIGGER_SCAN", "GET_SCAN">>,
           wifi_connect |-> <<"GETFAMILY", "CONNECT">>]

Tools == DOMAIN Script
PowerTools == {"power_on", "power_off"}
NetlinkTools == {"wifi_scan", "wifi_connect"}

Requests == UNION {{Script[t][i] : i \in DOMAIN Script[t]} : t \in Tools}

ASSUME ClientsAssumption ==
  /\ Settings \subseteq [tools : [Procs -> Tools], air : SUBSET Devices, room : Nat \ {0}]
  /\ MAX_DEVICES \in Nat \ {0} /\ MaxTries \in Nat \ {0}
  /\ MaxBss \in Nat \ {0}

VARIABLES
  setting,    \* what runs here
  pc,         \* where it is
  step,       \* the request of its script it has come to
  tries,      \* set_powered's round
  expired,    \* the deadline of ble_scan's current loop has passed
  inbox,      \* messages queued on its socket
  result,     \* its exit status
  table,      \* ble_scan's devices[0 .. device_count)
  listed,     \* history: the devices ble_scan has printed
  again,      \* history: it printed one of them a second time
  bss,        \* dump_scan's count
  pending,    \* kernel: the request of each process it has not answered yet
  granted,    \* history: the requests of each process answered with success
  abandoned,  \* history: discovery commands a ble_scan could not bring to their end
  powered,    \* kernel: hci0 is powered
  discovering \* kernel: hci0 is discovering

progress == <<pc, step, tries, expired, result>>
devices == <<table, listed, again>>
kernel == <<pending, granted, powered, discovering>>
vars == <<setting, pc, step, tries, expired, inbox, result, table, listed, again,
          bss, pending, granted, abandoned, powered, discovering>>

tool == setting.tools

Mgmt(p) == tool[p] \notin NetlinkTools
Request(p) == Script[tool[p]][step[p]]
Open(p) == pc[p] \in {"send", "await", "collect", "sleep"}

Messages == [kind : {"answer", "family", "error", "bss", "done"}, request : Requests, ok : BOOLEAN]
              \cup [kind : {"device"}, device : Devices] \cup [kind : {"unrelated"}]

TypeOK == /\ setting \in Settings
          /\ pc \in [Procs -> {"start", "send", "await", "collect", "sleep", "exited"}]
          /\ step \in [Procs -> Nat]
          /\ \A p \in Procs : step[p] \in DOMAIN Script[tool[p]]
          /\ tries \in [Procs -> 0 .. MaxTries]
          /\ expired \in [Procs -> BOOLEAN]
          /\ inbox \in [Procs -> Seq(Messages)]
          /\ \A p \in Procs : Len(inbox[p]) <= setting.room
          /\ result \in [Procs -> {"none", "ok", "empty", "failed"}]
          /\ table \in [Procs -> Seq(Devices)]
          /\ listed \in [Procs -> SUBSET Devices]
          /\ again \in [Procs -> BOOLEAN]
          /\ bss \in [Procs -> 0 .. MaxBss]
          /\ pending \in [Procs -> SUBSET Requests]
          /\ granted \in [Procs -> SUBSET Requests]
          /\ abandoned \subseteq Procs
          /\ powered \in BOOLEAN /\ discovering \in BOOLEAN

Init == /\ setting \in Settings
        /\ pc = [p \in Procs |-> "start"]
        /\ step = [p \in Procs |-> 1]
        /\ tries = [p \in Procs |-> 0]
        /\ expired = [p \in Procs |-> FALSE]
        /\ inbox = [p \in Procs |-> << >>]
        /\ result = [p \in Procs |-> "none"]
        /\ table = [p \in Procs |-> << >>]
        /\ listed = [p \in Procs |-> {}]
        /\ again = [p \in Procs |-> FALSE]
        /\ bss = [p \in Procs |-> 0]
        /\ pending = [p \in Procs |-> {}]
        /\ granted = [p \in Procs |-> {}]
        /\ abandoned = {}
        /\ powered \in BOOLEAN
        /\ discovering = FALSE

-----------------------------------------------------------------------------
(* The course of every client *)

Goto(p, where) == pc' = [pc EXCEPT ![p] = where]

\* close, or the end of the process: the socket is gone with what it held.
Exit(p, status) == /\ Goto(p, "exited")
                   /\ result' = [result EXCEPT ![p] = status]
                   /\ inbox' = [inbox EXCEPT ![p] = << >>]

\* Arguments, interface, socket and bind are in order, or the tool ends.  That
\* wifi_connect first brings the interface up (interface_up) shows in nothing
\* modelled here but in its failure.
Begin(p) ==
  /\ pc[p] = "start"
  /\ \/ Goto(p, "send") /\ UNCHANGED <<inbox, result>>
     \/ Exit(p, "failed")
  /\ UNCHANGED <<setting, step, tries, expired, devices, bss, kernel, abandoned>>

\* The current request failed; only ble_scan's last one is not fatal.
Fails(p) == /\ Exit(p, IF Request(p) = "STOP_DISCOVERY" THEN "ok" ELSE "failed")
            /\ UNCHANGED <<step, tries, expired>>

\* The current request is left behind, if it is one of these.
Abandon(p, requests) ==
  abandoned' = IF Request(p) \in requests THEN abandoned \cup {p} ELSE abandoned

\* The request is written, and its loop begins.
Written(p) == /\ Goto(p, "await")
              /\ pending' = [pending EXCEPT ![p] = @ \cup {Request(p)}]
              /\ tries' = [tries EXCEPT ![p] = 0]
              /\ expired' = [expired EXCEPT ![p] = FALSE]
              /\ UNCHANGED <<step, inbox, result, abandoned>>

\* A management command is written or cannot be; no START_DISCOVERY is left
\* behind by one that was not.
Send(p) ==
  /\ Mgmt(p) /\ pc[p] = "send"
  /\ Written(p) \/ (Fails(p) /\ Abandon(p, {"STOP_DISCOVERY"}) /\ UNCHANGED pending)
  /\ UNCHANGED <<setting, devices, bss, granted, powered, discovering>>

\* So is a netlink message.
NetlinkSend(p) ==
  /\ ~Mgmt(p) /\ pc[p] = "send"
  /\ Written(p) \/ (Fails(p) /\ UNCHANGED <<pending, abandoned>>)
  /\ UNCHANGED <<setting, devices, bss, granted, powered, discovering>>

\* The current request succeeded: on to what follows it in the tool's main.
Succeeds(p) ==
  \/ /\ step[p] = Len(Script[tool[p]])
     /\ Exit(p, "ok")
     /\ UNCHANGED <<step, tries, expired>>
  \/ /\ step[p] < Len(Script[tool[p]])
     /\ Goto(p, CASE Request(p) = "START_DISCOVERY" -> "collect"
                  [] Request(p) = "TRIGGER_SCAN"    -> "sleep"
                  [] OTHER                          -> "send")
     /\ step' = [step EXCEPT ![p] = @ + 1]
     /\ expired' = [expired EXCEPT ![p] = FALSE]
     /\ inbox' = [inbox EXCEPT ![p] = Tail(@)]
     /\ UNCHANGED <<tries, result>>

\* The message at the head of the inbox is looked at and thrown away.
Skip(p) == /\ inbox' = [inbox EXCEPT ![p] = Tail(@)]
           /\ UNCHANGED <<pc, step, expired, result>>

-----------------------------------------------------------------------------
(* set_powered of ble_power and mgmt_command of ble_scan *)

\* Faulty: the event code is not looked at.
TakesAny(p, e) == TRUE

IsAnswer(p, e) == e.kind = "answer" /\ e.request = Request(p)

\* Faulty: the deadline counts only while nothing is to be read.
OverWhenIdle(p) == IF tool[p] \in PowerTools THEN tries[p] = MaxTries
                                             ELSE expired[p] /\ inbox[p] = << >>

\* The rounds of set_powered or the ten seconds of mgmt_command are over.
Over(p) == IF tool[p] \in PowerTools THEN tries[p] = MaxTries ELSE expired[p]

Refused(e) == e.kind = "answer" /\ ~e.ok

MgmtRead(p) ==
  /\ Mgmt(p) /\ pc[p] = "await" /\ ~Over(p) /\ inbox[p] # << >>
  /\ LET e == Head(inbox[p])
     IN \/ IsAnswer(p, e) /\ ~Refused(e) /\ Succeeds(p) /\ UNCHANGED abandoned
        \/ IsAnswer(p, e) /\ Refused(e) /\ Fails(p) /\ Abandon(p, {"STOP_DISCOVERY"})
        \/ /\ ~IsAnswer(p, e) /\ Skip(p)
           /\ tries' = [tries EXCEPT ![p] = IF tool[p] \in PowerTools THEN @ + 1 ELSE 0]
           /\ UNCHANGED abandoned
  /\ UNCHANGED <<setting, devices, bss, kernel>>

\* One second without an event, or a poll that fails: set_powered tries on.
PollTimeout(p) ==
  /\ tool[p] \in PowerTools /\ pc[p] = "await" /\ ~Over(p) /\ inbox[p] = << >>
  /\ tries' = [tries EXCEPT ![p] = @ + 1]
  /\ UNCHANGED <<setting, pc, step, expired, inbox, result, devices, bss, kernel, abandoned>>

\* The fate of the command stays unknown.
GiveUp(p) ==
  /\ Mgmt(p) /\ pc[p] = "await" /\ Over(p)
  /\ Fails(p) /\ Abandon(p, {"START_DISCOVERY", "STOP_DISCOVERY"})
  /\ UNCHANGED <<setting, devices, bss, kernel>>

\* The clock passes the deadline of ble_scan's loop, or its poll fails.
Expire(p) ==
  /\ tool[p] = "ble_scan" /\ pc[p] \in {"await", "collect"} /\ ~expired[p]
  /\ expired' = [expired EXCEPT ![p] = TRUE]
  /\ UNCHANGED <<setting, pc, step, tries, inbox, result, devices, bss, kernel, abandoned>>

-----------------------------------------------------------------------------
(* ble_scan collects devices *)

\* Faulty: the last entry of the table is not looked at.
SeenButLast(p, d) == \E i \in 1 .. Len(table[p]) - 1 : table[p][i] = d

already_seen(p, d) == \E i \in 1 .. Len(table[p]) : table[p][i] = d

\* A full table no longer grows, and what is not in it is printed each time.
handle_device(p, d) ==
  IF already_seen(p, d) THEN UNCHANGED devices
  ELSE /\ table' = [table EXCEPT ![p] = IF Len(@) < MAX_DEVICES THEN Append(@, d) ELSE @]
       /\ listed' = [listed EXCEPT ![p] = @ \cup {d}]
       /\ again' = [again EXCEPT ![p] = @ \/ d \in listed[p]]

Collect(p) ==
  /\ pc[p] = "collect" /\ ~expired[p] /\ inbox[p] # << >>
  /\ LET e == Head(inbox[p])
     IN IF e.kind = "device" THEN handle_device(p, e.device) ELSE UNCHANGED devices
  /\ Skip(p)
  /\ UNCHANGED <<setting, tries, bss, kernel, abandoned>>

\* Faulty: the scan ends without stopping the discovery.
CollectEndsOpen(p) ==
  /\ pc[p] = "collect" /\ expired[p]
  /\ Exit(p, "ok")
  /\ UNCHANGED <<setting, step, tries, expired, devices, bss, kernel, abandoned>>

CollectEnds(p) ==
  /\ pc[p] = "collect" /\ expired[p]
  /\ Goto(p, "send")
  /\ UNCHANGED <<setting, step, tries, expired, inbox, result, devices, bss, kernel, abandoned>>

-----------------------------------------------------------------------------
(* The netlink loops: resolve_family, recv_ack or receive_ack, dump_scan *)

\* wifi_connect skips an error that wifi_scan takes as the answer.
SkipsError(p) == tool[p] = "wifi_connect" /\ Request(p) = "GETFAMILY"

Ends(p, status) == Exit(p, status) /\ UNCHANGED <<step, tries, expired, bss>>

\* The sequence numbers the loops compare are left out: a tool reads the answer
\* to one request before it sends the next, so that no other number is queued.
NetlinkRead(p) ==
  /\ ~Mgmt(p) /\ pc[p] = "await" /\ inbox[p] # << >>
  /\ LET e == Head(inbox[p])
     IN \/ (e.kind = "family" \/ (e.kind = "error" /\ e.ok)) /\ Succeeds(p) /\ UNCHANGED bss
        \/ e.kind = "error" /\ ~e.ok /\ ~SkipsError(p) /\ Ends(p, "failed")
        \/ e.kind = "error" /\ ~e.ok /\ SkipsError(p) /\ Skip(p) /\ UNCHANGED <<tries, bss>>
        \/ /\ e.kind = "bss"
           /\ bss' = [bss EXCEPT ![p] = @ + 1]
           /\ Skip(p) /\ UNCHANGED tries
        \/ e.kind = "done" /\ Ends(p, IF bss[p] = 0 THEN "empty" ELSE "ok")
  /\ UNCHANGED <<setting, devices, kernel, abandoned>>

\* recv fails, in any of the loops.
RecvFails(p) ==
  /\ ~Mgmt(p) /\ pc[p] = "await"
  /\ Ends(p, "failed")
  /\ UNCHANGED <<setting, devices, kernel, abandoned>>

\* sleep(6) of wifi_scan, whether the scan is over or not.
SleepEnds(p) ==
  /\ pc[p] = "sleep"
  /\ Goto(p, "send")
  /\ UNCHANGED <<setting, step, tries, expired, inbox, result, devices, bss, kernel, abandoned>>

-----------------------------------------------------------------------------
(* The kernel (external) *)

Deliver(p, e) == inbox' = IF Open(p) /\ Len(inbox[p]) < setting.room
                          THEN [inbox EXCEPT ![p] = Append(@, e)] ELSE inbox

\* What a management command that succeeds does, and when it can.
Effect(r) ==
  CASE r = "POWER_ON"        -> powered' = TRUE /\ UNCHANGED discovering
    [] r = "POWER_OFF"       -> powered' = FALSE /\ discovering' = FALSE
    [] r = "START_DISCOVERY" -> powered /\ ~discovering /\ discovering' = TRUE /\ UNCHANGED powered
    [] r = "STOP_DISCOVERY"  -> discovering /\ discovering' = FALSE /\ UNCHANGED powered
    [] OTHER                 -> UNCHANGED <<powered, discovering>>

Done(p, r, ok) ==
  /\ r \in pending[p]
  /\ pending' = [pending EXCEPT ![p] = @ \ {r}]
  /\ granted' = IF ok THEN [granted EXCEPT ![p] = @ \cup {r}] ELSE granted
  /\ IF ok THEN Effect(r) ELSE UNCHANGED <<powered, discovering>>

\* One answer to each command, on its own socket, or lost when that is full.
MgmtAnswer(p) ==
  /\ Mgmt(p)
  /\ \E r \in pending[p], ok \in BOOLEAN :
        /\ Done(p, r, ok)
        /\ Deliver(p, [kind |-> "answer", request |-> r, ok |-> ok])
  /\ UNCHANGED <<setting, progress, devices, bss, abandoned>>

\* Events of other commands, indices and kinds.
Unrelated(p) ==
  /\ Mgmt(p) /\ Open(p) /\ Len(inbox[p]) < setting.room
  /\ Deliver(p, [kind |-> "unrelated"])
  /\ UNCHANGED <<setting, progress, devices, bss, kernel, abandoned>>

\* A discovered device is told to every open management socket.
DeviceFound(d) ==
  /\ discovering /\ d \in setting.air
  /\ inbox' = [p \in Procs |-> IF Mgmt(p) /\ Open(p) /\ Len(inbox[p]) < setting.room
                               THEN Append(inbox[p], [kind |-> "device", device |-> d])
                               ELSE inbox[p]]
  /\ UNCHANGED <<setting, progress, devices, bss, kernel, abandoned>>

\* The kernel ends a discovery by itself.
DiscoveryEnds ==
  /\ discovering /\ discovering' = FALSE
  /\ UNCHANGED <<setting, progress, inbox, devices, bss, pending, granted, abandoned, powered>>

\* A netlink request is answered; a dump sends its networks first.
NetlinkAnswer(p) ==
  /\ ~Mgmt(p) /\ Open(p) /\ Len(inbox[p]) < setting.room
  /\ \E r \in pending[p], ok \in BOOLEAN :
        /\ Done(p, r, ok)
        /\ Deliver(p, [kind |-> CASE r = "GETFAMILY" /\ ok -> "family"
                                  [] r = "GET_SCAN" /\ ok  -> "done"
                                  [] OTHER                 -> "error",
                       request |-> r, ok |-> ok])
  /\ UNCHANGED <<setting, progress, devices, bss, abandoned>>

DumpEntry(p) ==
  /\ "GET_SCAN" \in pending[p] /\ Open(p)
  /\ bss[p] + Len(inbox[p]) < MaxBss /\ Len(inbox[p]) < setting.room
  /\ Deliver(p, [kind |-> "bss", request |-> "GET_SCAN", ok |-> TRUE])
  /\ UNCHANGED <<setting, progress, devices, bss, kernel, abandoned>>

-----------------------------------------------------------------------------

ClientStep(p) == \/ Begin(p) \/ Send(p) \/ NetlinkSend(p) \/ MgmtRead(p) \/ PollTimeout(p)
                 \/ GiveUp(p) \/ Collect(p) \/ CollectEnds(p) \/ NetlinkRead(p) \/ SleepEnds(p)

Kernel == \/ \E p \in Procs : \/ MgmtAnswer(p) \/ Unrelated(p)
                              \/ NetlinkAnswer(p) \/ DumpEntry(p)
          \/ \E d \in Devices : DeviceFound(d)
          \/ DiscoveryEnds

Next == Kernel \/ \E p \in Procs : ClientStep(p) \/ Expire(p) \/ RecvFails(p)

Spec == Init /\ [][Next]_vars

(***************************************************************************)
(* A process runs on, its clock runs, and netlink requests are answered    *)
(* (the kernel does so inside sendmsg and recv).  Nothing is assumed of    *)
(* the Bluetooth adapter: it may never answer, and may flood a client with *)
(* events.                                                                 *)
(***************************************************************************)
Fairness == \A p \in Procs : /\ WF_vars(ClientStep(p)) /\ WF_vars(Expire(p))
                             /\ WF_vars(NetlinkAnswer(p))

FairSpec == Spec /\ Fairness

-----------------------------------------------------------------------------
(* Properties *)

\* What the kernel must have granted for a tool to report success.
Promised == [power_on     |-> {"POWER_ON"},
             power_off    |-> {"POWER_OFF"},
             ble_scan     |-> {"POWER_ON", "START_DISCOVERY"},
             wifi_scan    |-> {"GETFAMILY", "TRIGGER_SCAN", "GET_SCAN"},
             wifi_connect |-> {"GETFAMILY", "CONNECT"}]

(***************************************************************************)
(* A tool that exits with success has had every request it stands for      *)
(* granted by the kernel, whatever other events, devices and answers to    *)
(* the other client arrived while it waited, and wifi_scan at least one    *)
(* network.                                                                *)
(***************************************************************************)
OutcomeIsAnswer ==
  \A p \in Procs : result[p] = "ok" => /\ Promised[tool[p]] \subseteq granted[p]
                                       /\ tool[p] = "wifi_scan" => bss[p] > 0

(***************************************************************************)
(* What ble_scan counts as unique devices are different ones: its table    *)
(* holds none twice and stays within its length, it holds all that were    *)
(* printed while there was room, and only a full table lets a device be    *)
(* printed again.                                                          *)
(***************************************************************************)
UniqueCount ==
  \A p \in Procs :
     /\ Len(table[p]) <= MAX_DEVICES
     /\ Cardinality({table[p][i] : i \in 1 .. Len(table[p])}) = Len(table[p])
     /\ Len(table[p]) < MAX_DEVICES => ~again[p] /\ Cardinality(listed[p]) = Len(table[p])

(***************************************************************************)
(* When the clients are gone the radio is not left discovering, except by  *)
(* a ble_scan that wrote its START_DISCOVERY and never learnt its fate, or *)
(* could not complete its STOP_DISCOVERY: a power-off, a second scan or the end  *)
(* of the discovery in between leave nothing behind.                       *)
(***************************************************************************)
DiscoveryEnded ==
  discovering /\ (\A p \in Procs : pc[p] = "exited") => abandoned # {}

\* wifi_connect reads on although no other answer will come.
Stranded(p) == pc[p] = "await" /\ SkipsError(p) /\ pending[p] = {} /\ inbox[p] = << >>

(***************************************************************************)
(* Every client ends: the Bluetooth ones although the adapter may never    *)
(* answer or may flood them with other events, the Wi-Fi ones once the     *)
(* kernel has answered.  The one exception is wifi_connect on a kernel     *)
(* without nl80211, whose refusal its resolve_family skips.                *)
(***************************************************************************)
ClientsEnd == \A p \in Procs : pc[p] = "send" ~> pc[p] = "exited" \/ Stranded(p)
=============================================================================
