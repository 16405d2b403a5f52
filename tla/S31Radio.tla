------------------------------ MODULE S31Radio ------------------------------
(***************************************************************************)
(* The radio stack of radio_firmware/radio_stack.c: its bring-up in        *)
(* s31_radio_stack_task, the Bluetooth enable and disable tasks, and the   *)
(* Wi-Fi requests of S31Wifi, which begin once Linux has been told that    *)
(* Wi-Fi is there.  Linux and the closed libraries are outside the         *)
(* repository: any of their calls may fail.                                *)
(***************************************************************************)
EXTENDS S31Wifi

VARIABLES
  front,          \* the front end of Linux that makes requests here: past the
                  \* bring-up the two share no state, so one at a time is enough
  stage,          \* where s31_radio_stack_task is
  handler,        \* s31_wifi_event is registered
  wifi_report,    \* what s31_radio_report_wifi_init told Linux
  bt_task,        \* where the Bluetooth enable or disable task is
  controller,     \* the closed Bluetooth controller
  vhci_callbacks, \* s31_vhci_callbacks are registered
  bt_report       \* what Linux was told last of Bluetooth

radioVars == <<front, stage, handler, wifi_report, bt_task, controller, vhci_callbacks, bt_report>>
bluetooth == <<bt_task, controller, vhci_callbacks, bt_report>>
vars == <<wifiVars, radioVars>>

\* The calls of s31_radio_stack_task up to its Wi-Fi report, in their order.
Chain == <<"psa_crypto_init", "esp_coex_adapter_register", "coex_pre_init",
           "esp_event_loop_create_default", "esp_wifi_init", "esp_event_handler_register",
           "report">>

Calls == {Chain[i] : i \in 1 .. Len(Chain) - 1}

Following(c) == Chain[1 + CHOOSE i \in DOMAIN Chain : Chain[i] = c]

TypeOK == /\ WifiTypeOK
          /\ front \in {"wlan0", "hci0"}
          /\ stage \in Calls \cup {"report", "failed", "bt_init", "ended"}
          /\ handler \in BOOLEAN /\ vhci_callbacks \in BOOLEAN
          /\ wifi_report \in {"none", "ok", "failed"}
          /\ bt_task \in {"idle", "enable", "register", "disable"}
          /\ controller \in {"idle", "inited", "enabled"}
          /\ bt_report \in {"none", "failed", "off", "on", "still_on"}

Init == /\ WifiInit
        /\ front \in {"wlan0", "hci0"}
        /\ stage = Chain[1] /\ handler = FALSE /\ wifi_report = "none"
        /\ bt_task = "idle" /\ controller = "idle" /\ vhci_callbacks = FALSE /\ bt_report = "none"

-----------------------------------------------------------------------------
(* s31_radio_stack_task *)

\* The next call of the chain returns; a failure skips the rest.
ChainCall ==
  /\ stage \in Calls
  /\ \/ /\ stage' = Following(stage)
        /\ handler' = (stage = "esp_event_handler_register")
     \/ stage' = "failed" /\ UNCHANGED handler
  /\ UNCHANGED <<wifiVars, front, wifi_report, bluetooth>>

\* Every path reports once; a failed one ends the task.
ReportWifi ==
  /\ \/ stage = "report" /\ wifi_report' = "ok" /\ stage' = "bt_init"
     \/ stage = "failed" /\ wifi_report' = "failed" /\ stage' = "ended"
  /\ UNCHANGED <<wifiVars, front, handler, bluetooth>>

\* esp_bt_controller_init and s31_radio_report_bt_init.
BtInit ==
  /\ stage = "bt_init"
  /\ \/ controller' = "inited" /\ bt_report' = "off"
     \/ bt_report' = "failed" /\ UNCHANGED controller
  /\ stage' = "ended"
  /\ UNCHANGED <<wifiVars, front, handler, wifi_report, bt_task, vhci_callbacks>>

-----------------------------------------------------------------------------
(* The Bluetooth tasks, one at a time *)

\* Linux switches Bluetooth, in the stage it was told is there (external).
RequestBt ==
  /\ front = "hci0" /\ bt_task = "idle"
  /\ \/ bt_report \in {"off", "failed"} /\ controller # "idle" /\ bt_task' = "enable"
     \/ bt_report \in {"on", "still_on"} /\ bt_task' = "disable"
  /\ UNCHANGED <<wifiVars, front, stage, handler, wifi_report, controller, vhci_callbacks, bt_report>>

\* Faulty: Linux is told when the controller is enabled.
BtEnableReportsFirst ==
  /\ bt_task = "enable"
  /\ \/ /\ controller = "inited" /\ controller' = "enabled"
        /\ bt_task' = "register" /\ bt_report' = "on"
     \/ bt_task' = "idle" /\ bt_report' = "failed" /\ UNCHANGED controller
  /\ UNCHANGED <<wifiVars, front, stage, handler, wifi_report, vhci_callbacks>>

\* esp_bt_controller_enable; an enabled controller is not enabled again.
BtEnable ==
  /\ bt_task = "enable"
  /\ \/ /\ controller = "inited" /\ controller' = "enabled"
        /\ bt_task' = "register" /\ UNCHANGED bt_report
     \/ bt_task' = "idle" /\ bt_report' = "failed" /\ UNCHANGED controller
  /\ UNCHANGED <<wifiVars, front, stage, handler, wifi_report, vhci_callbacks>>

\* esp_vhci_host_register_callback; if it fails the controller stays enabled.
BtRegister ==
  /\ bt_task = "register"
  /\ \/ vhci_callbacks' = TRUE /\ bt_report' = "on"
     \/ bt_report' = "failed" /\ UNCHANGED vhci_callbacks
  /\ bt_task' = "idle"
  /\ UNCHANGED <<wifiVars, front, stage, handler, wifi_report, controller>>

\* esp_bt_controller_disable and s31_radio_report_bt_disable: when it fails,
\* Linux is told that the controller is still on.
BtDisable ==
  /\ bt_task = "disable"
  /\ \/ controller' = "inited" /\ bt_report' = "off"
     \/ bt_report' = "still_on" /\ UNCHANGED controller
  /\ bt_task' = "idle"
  /\ UNCHANGED <<wifiVars, front, stage, handler, wifi_report, vhci_callbacks>>

-----------------------------------------------------------------------------

StackTask == ChainCall \/ ReportWifi \/ BtInit

BtTask == BtEnable \/ BtRegister \/ BtDisable

\* The cfg80211 front end exists once Wi-Fi was reported (external).
WifiNext == /\ front = "wlan0" /\ wifi_report = "ok"
            /\ Requests \/ WifiTasks \/ Driver \/ EventTask
            /\ UNCHANGED radioVars

Next == StackTask \/ RequestBt \/ BtTask \/ WifiNext

Spec == Init /\ [][Next]_vars

(***************************************************************************)
(* A created task and the event task run on; the driver finishes a start,  *)
(* a scan and a connection attempt, one way or the other, also when it has *)
(* to wait for room in the event queue: its one task works them off in     *)
(* turn, so none is overtaken for ever.  Nothing forces Linux to make a    *)
(* request.                                                                *)
(***************************************************************************)
Fairness == /\ \A o \in Operations : WF_vars(TaskStep(o) /\ UNCHANGED radioVars)
            /\ WF_vars(SetConfig /\ UNCHANGED radioVars)
            /\ WF_vars(s31_radio_wifi_disconnect_task /\ UNCHANGED radioVars)
            /\ WF_vars(EventTask /\ UNCHANGED radioVars)
            /\ SF_vars(Started /\ UNCHANGED radioVars)
            /\ SF_vars(ScanDone /\ UNCHANGED radioVars)
            /\ SF_vars((Connected \/ Disconnected) /\ UNCHANGED radioVars)

FairSpec == Spec /\ Fairness

-----------------------------------------------------------------------------
(* Properties *)

(***************************************************************************)
(* What Linux is told is so, whichever call of the bring-up or of a later  *)
(* switch failed: a Wi-Fi that was reported can deliver its events, the    *)
(* Bluetooth that was reported on can deliver its frames, the one reported *)
(* off is not running, and Bluetooth is never touched on a stack whose     *)
(* Wi-Fi failed.                                                           *)
(***************************************************************************)
ReportsTrue ==
  /\ wifi_report = "ok" => handler
  /\ bt_report \in {"on", "still_on"} => controller = "enabled" /\ vhci_callbacks
  /\ bt_report = "off" /\ bt_task = "idle" => controller = "inited"
  /\ controller # "idle" => wifi_report = "ok"
=============================================================================
