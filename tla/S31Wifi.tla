------------------------------- MODULE S31Wifi -------------------------------
(***************************************************************************)
(* The station half of radio_firmware/radio_stack.c: the tasks that run    *)
(* Linux's scan, connect and disconnect requests, the deferred start of    *)
(* the closed Wi-Fi driver they share, and the event handler that finishes *)
(* them.                                                                   *)
(*                                                                         *)
(* The blob gate serialises this code but is released whenever a call into *)
(* the driver waits, so a step ends at every such call.  In particular the *)
(* driver may deliver STA_START before esp_wifi_start has returned.  The   *)
(* driver and the Linux side are outside the repository; they are modelled *)
(* by the calls and events this code exchanges with them.  S31Radio adds   *)
(* the bring-up of the stack and its Bluetooth half.                       *)
(***************************************************************************)
EXTENDS Integers, Sequences, FiniteSets

CONSTANTS
  Networks,     \* what a connect request names
  NoNetwork,
  MaxEvents     \* bound: the driver's event queue, a full one makes it wait

ASSUME WifiAssumption ==
  Networks # {} /\ NoNetwork \notin Networks /\ MaxEvents \in Nat \ {0}

VARIABLES
  prepared,         \* s31_wifi_prepared
  start_requested,  \* s31_wifi_start_requested
  start_complete,   \* s31_wifi_start_complete
  pending,          \* s31_wifi_pending
  handling,         \* the operation s31_wifi_event took from it at STA_START
  task,             \* where the task of each kind of request is
  params,           \* the network the connect task was given
  config,           \* the driver's station configuration
  driver,           \* the driver: "off", "starting", "on"
  scanning,         \* the driver is scanning
  link,             \* the driver's link
  events,           \* events it has posted and the handler has not seen
  awaited,          \* the requests Linux waits for an answer to
  deferred          \* history: the network of the connect left to STA_START

flags == <<prepared, start_requested, start_complete, handling>>
blob == <<driver, scanning, link, events>>
wifiVars == <<prepared, start_requested, start_complete, handling, pending, task, params, config,
              driver, scanning, link, events, awaited, deferred>>

Operations == {"scan", "connect"}

Events == {"STA_START", "SCAN_DONE", "STA_CONNECTED", "STA_DISCONNECTED"}

PCs == {"idle",
        "prepare",    \* about to call s31_wifi_prepare
        "preparing",  \* inside its driver calls
        "config",     \* inside esp_wifi_set_config
        "start",      \* about to call s31_wifi_start_operation
        "starting",   \* inside esp_wifi_start
        "run"}        \* inside esp_wifi_scan_start, _connect or _disconnect

WifiTypeOK == /\ prepared \in BOOLEAN
              /\ start_requested \in BOOLEAN /\ start_complete \in BOOLEAN
              /\ pending \in Operations \cup {"none"}
              /\ handling \in Operations \cup {"none"}
              /\ task \in [Operations \cup {"disconnect"} -> PCs]
              /\ params \in Networks \cup {NoNetwork}
              /\ config \in Networks \cup {NoNetwork}
              /\ driver \in {"off", "starting", "on"}
              /\ scanning \in BOOLEAN
              /\ link \in {"down", "connecting", "up"}
              /\ events \in Seq(Events) /\ Len(events) <= MaxEvents
              /\ awaited \in SUBSET Operations
              /\ deferred \in Networks \cup {NoNetwork}

WifiInit == /\ prepared = FALSE
            /\ start_requested = FALSE /\ start_complete = FALSE
            /\ pending = "none" /\ handling = "none"
            /\ task = [o \in Operations \cup {"disconnect"} |-> "idle"]
            /\ params = NoNetwork
            /\ config = NoNetwork
            /\ driver = "off"
            /\ scanning = FALSE
            /\ link = "down"
            /\ events = << >>
            /\ awaited = {}
            /\ deferred = NoNetwork

-----------------------------------------------------------------------------
(* Linux: one outstanding request of a kind (external) *)

RequestScan == /\ "scan" \notin awaited /\ task["scan"] = "idle"
               /\ awaited' = awaited \cup {"scan"}
               /\ task' = [task EXCEPT !["scan"] = "prepare"]
               /\ UNCHANGED <<flags, pending, params, config, blob, deferred>>

RequestConnect == /\ "connect" \notin awaited /\ task["connect"] = "idle"
                  /\ awaited' = awaited \cup {"connect"}
                  /\ params' \in Networks
                  /\ task' = [task EXCEPT !["connect"] = "prepare"]
                  /\ UNCHANGED <<flags, pending, config, blob, deferred>>

RequestDisconnect == /\ task["disconnect"] = "idle"
                     /\ task' = [task EXCEPT !["disconnect"] = "run"]
                     /\ UNCHANGED <<flags, pending, params, config, blob, awaited, deferred>>

\* s31_radio_wifi_scan_complete, s31_radio_wifi_connected or _disconnected.
Answer(o) == awaited' = awaited \ {o}

-----------------------------------------------------------------------------
(* The request tasks *)

Goto(o, where) == task' = [task EXCEPT ![o] = where]

\* rc # 0: the task reports the failure and ends.
Fail(o) == Goto(o, "idle") /\ Answer(o)

\* Where a task goes on once the driver is prepared.
Onward(o) == IF o = "connect" THEN "config" ELSE "start"

s31_wifi_prepare(o) ==
  /\ task[o] = "prepare"
  /\ Goto(o, IF prepared THEN Onward(o) ELSE "preparing")
  /\ UNCHANGED <<flags, pending, params, config, blob, awaited, deferred>>

\* Its six driver calls, which touch nothing modelled, have returned: all with
\* success, or one failed, also when the other task has succeeded meanwhile.
Prepared(o) ==
  /\ task[o] = "preparing"
  /\ \/ prepared' = TRUE /\ Goto(o, Onward(o)) /\ UNCHANGED awaited
     \/ Fail(o) /\ UNCHANGED prepared
  /\ UNCHANGED <<start_requested, start_complete, handling, pending, params, config, blob,
                 deferred>>

SetConfig ==
  /\ task["connect"] = "config"
  /\ \/ config' = params /\ Goto("connect", "start") /\ UNCHANGED awaited
     \/ Fail("connect") /\ UNCHANGED config
  /\ UNCHANGED <<flags, pending, params, blob, deferred>>

\* o is left for STA_START to run.
Defer(o) == /\ pending' = o
            /\ deferred' = IF o = "connect" THEN config ELSE NoNetwork

\* s31_wifi_start_operation up to its call of esp_wifi_start.  Its second
\* `return 0', for a start that somebody else requested, is never reached: until
\* STA_START is handled that one's operation is pending, and Busy applies.
RunNow(o) ==
  /\ task[o] = "start" /\ start_complete
  /\ Goto(o, "run")
  /\ UNCHANGED <<flags, pending, params, config, blob, awaited, deferred>>

Busy(o) ==
  /\ task[o] = "start" /\ ~start_complete /\ pending # "none"
  /\ Fail(o)
  /\ UNCHANGED <<flags, pending, params, config, blob, deferred>>

\* Faulty: the operation is noted only after esp_wifi_start has returned.
StartBeforeNoting(o) ==
  /\ task[o] = "start" /\ ~start_complete /\ pending = "none" /\ ~start_requested
  /\ driver' = "starting"
  /\ Goto(o, "starting")
  /\ UNCHANGED <<flags, pending, params, config, scanning, link, events, awaited, deferred>>

Start(o) ==
  /\ task[o] = "start" /\ ~start_complete /\ pending = "none" /\ ~start_requested
  /\ Defer(o)
  /\ driver' = "starting"
  /\ Goto(o, "starting")
  /\ UNCHANGED <<flags, params, config, scanning, link, events, awaited>>

\* esp_wifi_start returns 0, possibly after STA_START was handled.
StartReturns(o) ==
  /\ task[o] = "starting" /\ driver # "off"
  /\ start_requested' = TRUE
  /\ Goto(o, "idle")
  /\ UNCHANGED <<prepared, start_complete, handling, pending, params, config, blob, awaited,
                 deferred>>

\* Faulty: a failed start leaves the operation pending.
StartFailsPending(o) ==
  /\ task[o] = "starting" /\ driver = "starting"
  /\ driver' = "off"
  /\ Fail(o)
  /\ UNCHANGED <<flags, pending, params, config, scanning, link, events, deferred>>

StartFails(o) ==
  /\ task[o] = "starting" /\ driver = "starting"
  /\ driver' = "off"
  /\ pending' = "none"
  /\ Fail(o)
  /\ UNCHANGED <<flags, params, config, scanning, link, events, deferred>>

\* What esp_wifi_scan_start and esp_wifi_connect set off in the driver.
DriverRuns(o) == IF o = "scan" THEN scanning' = TRUE /\ UNCHANGED link
                               ELSE link' = "connecting" /\ UNCHANGED scanning

Run(o) ==
  /\ task[o] = "run"
  /\ \/ DriverRuns(o) /\ Goto(o, "idle") /\ UNCHANGED awaited
     \/ Fail(o) /\ UNCHANGED <<scanning, link>>
  /\ UNCHANGED <<flags, pending, params, config, driver, events, deferred>>

\* Refused by a driver that is not on: the task itself reports the disconnect.
s31_radio_wifi_disconnect_task ==
  /\ task["disconnect"] = "run"
  /\ Goto("disconnect", "idle")
  /\ \/ Answer("connect") /\ UNCHANGED <<link, events>>
     \/ /\ driver = "on" /\ link # "down" /\ Len(events) < MaxEvents
        /\ link' = "down"
        /\ events' = Append(events, "STA_DISCONNECTED")
        /\ UNCHANGED awaited
     \/ driver = "on" /\ link = "down" /\ UNCHANGED <<link, events, awaited>>
  /\ UNCHANGED <<flags, pending, params, config, driver, scanning, deferred>>

-----------------------------------------------------------------------------
(* The driver (external) *)

Post(e) == /\ Len(events) < MaxEvents
           /\ events' = Append(events, e)
           /\ UNCHANGED <<flags, pending, task, params, config, awaited, deferred>>

Started == /\ driver = "starting" /\ driver' = "on" /\ Post("STA_START")
           /\ UNCHANGED <<scanning, link>>

ScanDone == /\ scanning /\ scanning' = FALSE /\ Post("SCAN_DONE")
            /\ UNCHANGED <<driver, link>>

Connected == /\ link = "connecting" /\ link' = "up" /\ Post("STA_CONNECTED")
             /\ UNCHANGED <<driver, scanning>>

Disconnected == /\ link # "down" /\ link' = "down" /\ Post("STA_DISCONNECTED")
                /\ UNCHANGED <<driver, scanning>>

-----------------------------------------------------------------------------
(* s31_wifi_event, in the event task *)

Handle(e) == /\ handling = "none" /\ events # << >> /\ Head(events) = e
             /\ events' = Tail(events)

\* Up to the driver calls of the handler, during which the tasks may run.
StaStart ==
  /\ Handle("STA_START")
  /\ handling' = pending
  /\ pending' = "none"
  /\ start_complete' = TRUE
  /\ UNCHANGED <<prepared, start_requested, task, params, config, driver, scanning, link, awaited,
                 deferred>>

\* The operation that was pending runs now; if it cannot, its failure is reported.
StaStartRuns ==
  /\ handling # "none"
  /\ handling' = "none"
  /\ \/ DriverRuns(handling) /\ UNCHANGED awaited
     \/ Answer(handling) /\ UNCHANGED <<scanning, link>>
  /\ UNCHANGED <<prepared, start_requested, start_complete, pending, task, params, config, driver,
                 events, deferred>>

\* The answer carries the records or the error; either ends the scan.
ScanDoneEvent ==
  /\ Handle("SCAN_DONE")
  /\ Answer("scan")
  /\ UNCHANGED <<flags, pending, task, params, config, driver, scanning, link, deferred>>

LinkEvent ==
  /\ Handle("STA_CONNECTED") \/ Handle("STA_DISCONNECTED")
  /\ Answer("connect")
  /\ UNCHANGED <<flags, pending, task, params, config, driver, scanning, link, deferred>>

-----------------------------------------------------------------------------

TaskStep(o) == \/ s31_wifi_prepare(o) \/ Prepared(o) \/ RunNow(o) \/ Busy(o)
               \/ Start(o) \/ StartReturns(o) \/ StartFails(o) \/ Run(o)

EventTask == StaStart \/ StaStartRuns \/ ScanDoneEvent \/ LinkEvent

Requests == RequestScan \/ RequestConnect \/ RequestDisconnect

WifiTasks == \/ \E o \in Operations : TaskStep(o)
             \/ SetConfig \/ s31_radio_wifi_disconnect_task

Driver == Started \/ ScanDone \/ Connected \/ Disconnected

-----------------------------------------------------------------------------
(* Properties *)

\* Where an event stands in the queue.
Posted(e) == {i \in 1 .. Len(events) : events[i] = e}

StartToCome == driver = "starting" \/ Posted("STA_START") # {}

(***************************************************************************)
(* An operation left to STA_START still has a STA_START coming, whether    *)
(* the event overtakes the return of esp_wifi_start or not, and after      *)
(* failed starts.  Otherwise it is never run, and s31_wifi_start_operation *)
(* turns every later request away.                                         *)
(***************************************************************************)
PendingHasStart == pending # "none" => StartToCome

(***************************************************************************)
(* Whatever way a scan goes (run at once, deferred, turned away, failed    *)
(* before or after the driver took it), Linux is still owed its answer     *)
(* exactly as long as some part of the stack is going to give one: no scan *)
(* is forgotten and none is answered twice.                                *)
(***************************************************************************)
ScanAccounted ==
  LET count(b) == IF b THEN 1 ELSE 0
  IN count(task["scan"] \notin {"idle", "starting"}) + count(pending = "scan")
       + count(handling = "scan") + count(scanning) + Cardinality(Posted("SCAN_DONE"))
     = count("scan" \in awaited)

(***************************************************************************)
(* Every scan and every connect request is answered, by a result, an error *)
(* or a disconnect, although the driver it needs may still have to start   *)
(* and other requests compete for that start.                              *)
(***************************************************************************)
RequestsAnswered == \A o \in Operations : o \in awaited ~> o \notin awaited

(***************************************************************************)
(* s31_wifi_start_operation "Returns one when the caller may run now, zero *)
(* when STA_START will run it": the connect that STA_START runs is the one *)
(* that was told zero.  But a later connect request writes its network     *)
(* into the driver's configuration before it is turned away, and STA_START *)
(* then connects to that one.                                              *)
(***************************************************************************)
DeferredConnectKept == pending = "connect" => config = deferred
=============================================================================
