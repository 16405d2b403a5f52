--------------------------- MODULE S31RadioProofs ---------------------------
(***************************************************************************)
(* Proofs about S31Radio, and with it about S31Wifi, for every set of      *)
(* networks and every length of the driver's event queue: what Linux is    *)
(* told of the stack is true, an operation left to STA_START is run, and   *)
(* every scan is answered once.  And about S31Timer, the timers the radio  *)
(* firmware runs on: no burst, no drift, no callback of a dead timer.      *)
(***************************************************************************)
EXTENDS S31Radio, S31Timer, FiniteSetTheorems, SequenceTheorems, TLAPS

(***************************************************************************)
(* The inductive invariant.  Of the start of the driver: an operation is   *)
(* pending exactly while a STA_START is to come, there is one such event   *)
(* at most and it is posted by a driver that is on, and a task waiting for *)
(* esp_wifi_start to return has its own operation pending until STA_START  *)
(* was handled.  Without the last part a start that fails could take away  *)
(* the operation of the other task.                                        *)
(***************************************************************************)
StartOK ==
  /\ pending # "none" <=> StartToCome
  /\ \A i, j \in Posted("STA_START") : i = j
  /\ Posted("STA_START") # {} \/ start_complete => driver = "on"
  /\ start_complete => pending = "none"
  /\ \A o \in Operations : task[o] = "starting" => start_complete \/ pending = o

\* Of the bring-up: what has been done when the task reaches a stage.
BringUpOK ==
  /\ stage = "report" => handler
  /\ stage \in Calls \cup {"report", "failed"} => /\ wifi_report = "none" /\ controller = "idle"
                                                  /\ bt_report = "none"
  /\ stage = "bt_init" => /\ wifi_report = "ok" /\ controller = "idle" /\ bt_report = "none"

\* Of Bluetooth: what a task that is under way has found.
BluetoothOK ==
  /\ bt_report = "none" => bt_task = "idle"
  /\ bt_task \in {"enable", "register"} => bt_report \in {"off", "failed"}
  /\ bt_task # "idle" => controller # "idle"
  /\ bt_task = "register" => controller = "enabled"
  /\ bt_task = "disable" => bt_report \in {"on", "still_on"}

IndInv == TypeOK /\ StartOK /\ ScanAccounted /\ BringUpOK /\ BluetoothOK /\ ReportsTrue

-----------------------------------------------------------------------------
(* The driver's event queue *)

\* The places of an event are finitely many.
LEMMA PostedFinite ==
  ASSUME WifiTypeOK, NEW e
  PROVE  IsFiniteSet(Posted(e)) /\ Cardinality(Posted(e)) \in Nat
<1>1. Len(events) \in Nat
  BY LenProperties DEF WifiTypeOK
<1>2. IsFiniteSet(1 .. Len(events)) /\ Posted(e) \in SUBSET (1 .. Len(events))
  BY <1>1, FS_Interval DEF Posted
<1>. QED  BY <1>2, FS_Subset, FS_CardinalityType

\* A posted event goes to the end.
LEMMA PostedAppend ==
  ASSUME WifiTypeOK, NEW x \in Events, events' = Append(events, x), NEW e
  PROVE  /\ Posted(e)' = IF x = e THEN Posted(e) \cup {Len(events) + 1} ELSE Posted(e)
         /\ Cardinality(Posted(e))' = Cardinality(Posted(e)) + IF x = e THEN 1 ELSE 0
<1>1. /\ Len(events) \in Nat /\ Len(events') = Len(events) + 1
      /\ \A i \in 1 .. Len(events) : events'[i] = events[i]
      /\ events'[Len(events) + 1] = x
  BY AppendProperties, LenProperties DEF WifiTypeOK
<1>2. Posted(e)' = IF x = e THEN Posted(e) \cup {Len(events) + 1} ELSE Posted(e)
  BY <1>1 DEF Posted
<1>3. Len(events) + 1 \notin Posted(e)
  BY <1>1 DEF Posted
<1>4. Cardinality(Posted(e) \cup {Len(events) + 1}) = Cardinality(Posted(e)) + 1
  BY <1>3, PostedFinite, FS_AddElement
<1>. QED  BY <1>2, <1>4, PostedFinite

\* A handled event is the first one, and the others move up by one place.
LEMMA PostedTail ==
  ASSUME WifiTypeOK, events # << >>, events' = Tail(events), NEW e
  PROVE  /\ 1 \in Posted(e) <=> Head(events) = e
         /\ \A i \in Int : i \in Posted(e)' <=> i > 0 /\ i + 1 \in Posted(e)
         /\ Posted(e) \subseteq Nat \ {0} /\ Posted(e)' \subseteq Nat \ {0}
         /\ Cardinality(Posted(e))' = Cardinality(Posted(e)) - IF Head(events) = e THEN 1 ELSE 0
<1>1. /\ Len(events) \in Nat \ {0} /\ Len(events') = Len(events) - 1
      /\ \A i \in 1 .. Len(events') : events'[i] = events[i + 1]
      /\ Head(events) = events[1]
  BY HeadTailProperties, EmptySeq DEF WifiTypeOK
<1>2. 1 \in Posted(e) <=> Head(events) = e
  BY <1>1 DEF Posted
<1>3. \A i \in Int : i \in Posted(e)' <=> i > 0 /\ i + 1 \in Posted(e)
  BY <1>1 DEF Posted
<1>4. Posted(e) \subseteq Nat \ {0} /\ Posted(e)' \subseteq Nat \ {0}
  BY <1>1 DEF Posted
<1>5. /\ IsFiniteSet(Posted(e) \ {1})
      /\ Cardinality(Posted(e) \ {1}) = Cardinality(Posted(e)) - IF Head(events) = e THEN 1 ELSE 0
  BY <1>2, PostedFinite, FS_RemoveElement
<1>6. ExistsBijection(Posted(e) \ {1}, Posted(e)')
  <2>. DEFINE move == [i \in Posted(e) \ {1} |-> i - 1]
  <2>1. move \in [Posted(e) \ {1} -> Posted(e)']
    BY <1>3, <1>4
  <2>2. \A i, j \in Posted(e) \ {1} : move[i] = move[j] => i = j
    BY <1>4
  <2>3. \A k \in Posted(e)' : \E i \in Posted(e) \ {1} : move[i] = k
    <3>. SUFFICES ASSUME NEW k \in Posted(e)' PROVE \E i \in Posted(e) \ {1} : move[i] = k
      OBVIOUS
    <3>1. k + 1 \in Posted(e) \ {1} /\ (k + 1) - 1 = k
      BY <1>3, <1>4
    <3>. QED  BY <3>1
  <2>4. move \in Bijection(Posted(e) \ {1}, Posted(e)')
    BY <2>1, <2>2, <2>3 DEF Bijection, Injection, Surjection, IsInjective
  <2>. QED  BY <2>4 DEF ExistsBijection
<1>7. Cardinality(Posted(e)') = Cardinality(Posted(e) \ {1})
  BY <1>5, <1>6, FS_Bijection
<1>. QED  BY <1>2, <1>3, <1>4, <1>5, <1>7

-----------------------------------------------------------------------------
(* The bring-up *)

\* The chain of s31_radio_stack_task is followed call by call, and only the
\* registration of the event handler is followed by the report.
LEMMA ChainOrder ==
  ASSUME NEW c \in Calls
  PROVE  /\ Following(c) \in Calls \cup {"report"}
         /\ Following(c) = "report" => c = "esp_event_handler_register"
<1>1. /\ Len(Chain) = 7 /\ DOMAIN Chain = 1 .. 7
      /\ \A i, j \in 1 .. 7 : Chain[i] = Chain[j] => i = j
  BY DEF Chain
<1>2. PICK i \in 1 .. 6 : Chain[i] = c
  BY <1>1 DEF Calls
<1>3. (CHOOSE j \in DOMAIN Chain : Chain[j] = c) = i
  BY <1>1, <1>2
<1>4. Following(c) = Chain[1 + i]
  BY <1>3 DEF Following
<1>5. CASE i = 6
  BY <1>2, <1>4, <1>5 DEF Chain
<1>6. CASE i # 6
  <2>1. 1 + i \in 1 .. 6 /\ 1 + i # 7
    BY <1>2, <1>6
  <2>2. Following(c) \in Calls
    BY <1>1, <1>4, <2>1 DEF Calls
  <2>3. Chain[1 + i] # Chain[7] /\ Chain[7] = "report"
    BY <1>1, <2>1 DEF Chain
  <2>. QED  BY <1>4, <2>2, <2>3
<1>. QED  BY <1>5, <1>6

\* The stages behind the chain are none of its calls.
LEMMA CallNames ==
  Calls = {"psa_crypto_init", "esp_coex_adapter_register", "coex_pre_init",
           "esp_event_loop_create_default", "esp_wifi_init", "esp_event_handler_register"}
<1>1. Len(Chain) - 1 = 6
  BY DEF Chain
<1>2. 1 .. 6 = {1, 2, 3, 4, 5, 6}
  OBVIOUS
<1>. QED  BY <1>1, <1>2 DEF Calls, Chain

StackInv == BringUpOK /\ BluetoothOK /\ ReportsTrue

\* Every step of the bring-up and of Bluetooth keeps what Linux is told true.
LEMMA NextStackInv == TypeOK /\ StackInv /\ [Next]_vars => StackInv'
<1>. SUFFICES ASSUME TypeOK, StackInv, [Next]_vars PROVE StackInv'
  OBVIOUS
<1>. USE CallNames DEF TypeOK, StackInv, BringUpOK, BluetoothOK, ReportsTrue
<1>1. CASE UNCHANGED radioVars
  BY <1>1 DEF radioVars
<1>2. CASE ChainCall
  <2>1. /\ stage \in Calls
        /\ stage' \in Calls \cup {"report", "failed"}
        /\ stage' = "report" => handler'
        /\ UNCHANGED <<wifi_report, bt_task, controller, vhci_callbacks, bt_report>>
    BY <1>2, ChainOrder DEF ChainCall, bluetooth
  <2>2. wifi_report = "none" /\ controller = "idle" /\ bt_report = "none" /\ bt_task = "idle"
    BY <2>1
  <2>3. stage' # "bt_init"
    <3>1. "bt_init" \notin Calls \cup {"report", "failed"}
      BY CallNames
    <3>. QED  BY <2>1, <3>1
  <2>4. BringUpOK'
    BY <2>1, <2>2, <2>3
  <2>5. BluetoothOK' /\ ReportsTrue'
    BY <2>1, <2>2
  <2>. QED  BY <2>4, <2>5
<1>3. CASE ReportWifi
  BY <1>3 DEF ReportWifi, bluetooth
<1>4. CASE BtInit
  BY <1>4 DEF BtInit
<1>5. CASE RequestBt
  BY <1>5 DEF RequestBt
<1>6. CASE BtEnable
  BY <1>6 DEF BtEnable
<1>7. CASE BtRegister
  BY <1>7 DEF BtRegister
<1>8. CASE BtDisable
  BY <1>8 DEF BtDisable
<1>. QED  BY <1>1, <1>2, <1>3, <1>4, <1>5, <1>6, <1>7, <1>8
            DEF Next, StackTask, BtTask, WifiNext, vars, radioVars

-----------------------------------------------------------------------------
(* The Wi-Fi requests *)

WifiInv == WifiTypeOK /\ StartOK /\ ScanAccounted

\* A step of S31Radio leaves Wi-Fi alone or is a step of S31Wifi.
LEMMA WifiSteps ==
  ASSUME [Next]_vars
  PROVE  UNCHANGED wifiVars \/ Requests \/ WifiTasks \/ Driver \/ EventTask
BY DEF Next, StackTask, ChainCall, ReportWifi, BtInit, RequestBt, BtTask, BtEnable, BtRegister,
     BtDisable, WifiNext, vars

\* Every step keeps the Wi-Fi state in its type and the event queue in its bound.
LEMMA NextWifiTypeOK == WifiTypeOK /\ [Next]_vars => WifiTypeOK'
<1>. SUFFICES ASSUME WifiTypeOK, [Next]_vars PROVE WifiTypeOK'
  OBVIOUS
<1>. USE WifiAssumption DEF WifiTypeOK, PCs, Operations, Goto, Answer, Fail, flags, blob
<1>a. \A e \in Events : Append(events, e) \in Seq(Events) /\ Len(Append(events, e)) = Len(events) + 1
  BY AppendProperties
<1>b. events # << >> => Tail(events) \in Seq(Events) /\ Len(Tail(events)) <= Len(events)
  BY HeadTailProperties, EmptySeq
<1>c. Len(events) \in Nat
  BY LenProperties
<1>1. CASE UNCHANGED wifiVars
  BY <1>1 DEF wifiVars
<1>2. CASE RequestScan
  BY <1>2 DEF RequestScan
<1>3. CASE RequestConnect
  BY <1>3 DEF RequestConnect
<1>4. CASE RequestDisconnect
  BY <1>4 DEF RequestDisconnect
<1>5. ASSUME NEW o \in Operations, s31_wifi_prepare(o) \/ Prepared(o) \/ RunNow(o) \/ Busy(o)
      PROVE  WifiTypeOK'
  <2>1. /\ prepared' \in BOOLEAN
        /\ \E w \in PCs : task' = [task EXCEPT ![o] = w]
        /\ awaited' = awaited \/ awaited' = awaited \ {o}
    BY <1>5 DEF s31_wifi_prepare, Prepared, Onward, RunNow, Busy
  <2>2. task' \in [Operations \cup {"disconnect"} -> PCs]
    BY <2>1
  <2>3. awaited' \in SUBSET Operations
    BY <2>1, Zenon
  <2>. QED  BY <1>5, <2>1, <2>2, <2>3 DEF s31_wifi_prepare, Prepared, RunNow, Busy
<1>6. ASSUME NEW o \in Operations, Start(o) \/ StartReturns(o) \/ StartFails(o) PROVE WifiTypeOK'
  BY <1>6 DEF Start, StartReturns, StartFails, Defer
<1>7. ASSUME NEW o \in Operations, Run(o) PROVE WifiTypeOK'
  <2>1. scanning' \in BOOLEAN /\ link' \in {"down", "connecting", "up"}
    BY <1>7 DEF Run, DriverRuns
  <2>2. task' \in [Operations \cup {"disconnect"} -> PCs] /\ awaited' \in SUBSET Operations
    BY <1>7 DEF Run
  <2>. QED  BY <1>7, <2>1, <2>2 DEF Run
<1>8. CASE SetConfig
  <2>1. task' \in [Operations \cup {"disconnect"} -> PCs]
    BY <1>8 DEF SetConfig
  <2>2. awaited' \in SUBSET Operations
    <3>1. awaited' = awaited \/ awaited' = awaited \ {"connect"}
      BY <1>8 DEF SetConfig
    <3>. QED  BY <3>1
  <2>3. config' \in Networks \cup {NoNetwork}
    BY <1>8 DEF SetConfig
  <2>. QED  BY <1>8, <2>1, <2>2, <2>3 DEF SetConfig
<1>9. CASE s31_radio_wifi_disconnect_task
  <2>1. events' \in Seq(Events) /\ Len(events') <= MaxEvents
    BY <1>9, <1>a, <1>c DEF s31_radio_wifi_disconnect_task, Events
  <2>2. link' \in {"down", "connecting", "up"} /\ awaited' \in SUBSET Operations
    BY <1>9 DEF s31_radio_wifi_disconnect_task
  <2>3. task' \in [Operations \cup {"disconnect"} -> PCs]
    BY <1>9 DEF s31_radio_wifi_disconnect_task
  <2>. QED  BY <1>9, <2>1, <2>2, <2>3 DEF s31_radio_wifi_disconnect_task
<1>10. CASE Driver
  <2>1. /\ events' \in Seq(Events) /\ Len(events') <= MaxEvents
        /\ UNCHANGED <<flags, pending, task, params, config, awaited, deferred>>
    BY <1>10, <1>a, <1>c DEF Driver, Started, ScanDone, Connected, Disconnected, Post, Events
  <2>2. /\ scanning' \in BOOLEAN /\ driver' \in {"off", "starting", "on"}
        /\ link' \in {"down", "connecting", "up"}
    BY <1>10 DEF Driver, Started, ScanDone, Connected, Disconnected
  <2>. QED  BY <2>1, <2>2
<1>11. CASE EventTask
  <2>1. events' \in Seq(Events) /\ Len(events') <= MaxEvents
    BY <1>11, <1>b, <1>c DEF EventTask, StaStart, StaStartRuns, ScanDoneEvent, LinkEvent, Handle
  <2>2. /\ scanning' \in BOOLEAN /\ start_complete' \in BOOLEAN
        /\ link' \in {"down", "connecting", "up"}
    BY <1>11 DEF EventTask, StaStart, StaStartRuns, ScanDoneEvent, LinkEvent, DriverRuns
  <2>3. /\ pending' \in Operations \cup {"none"} /\ handling' \in Operations \cup {"none"}
        /\ awaited' \in SUBSET Operations
    BY <1>11 DEF EventTask, StaStart, StaStartRuns, ScanDoneEvent, LinkEvent
  <2>4. UNCHANGED <<prepared, start_requested, task, params, config, driver, deferred>>
    BY <1>11 DEF EventTask, StaStart, StaStartRuns, ScanDoneEvent, LinkEvent
  <2>. QED  BY <2>1, <2>2, <2>3, <2>4
<1>. QED  BY <1>1, <1>2, <1>3, <1>4, <1>5, <1>6, <1>7, <1>8, <1>9, <1>10, <1>11, WifiSteps
            DEF Requests, WifiTasks, TaskStep

\* A driver step that posts anything but STA_START leaves the start alone.
LEMMA PostKeepsStart ==
  ASSUME WifiTypeOK, StartOK, NEW x \in Events \ {"STA_START"}, events' = Append(events, x),
         UNCHANGED <<driver, pending, start_complete>>,
         \A o \in Operations : task'[o] = task[o]
  PROVE  StartOK'
<1>1. Posted("STA_START")' = Posted("STA_START")
  BY PostedAppend
<1>. QED  BY <1>1 DEF StartOK, StartToCome

\* Handling anything but STA_START leaves it in the queue, one place further up.
LEMMA HandleKeepsStart ==
  ASSUME WifiTypeOK, StartOK, NEW x \in Events \ {"STA_START"}, Handle(x),
         UNCHANGED <<driver, pending, start_complete, task>>
  PROVE  StartOK'
<1>1. events # << >> /\ events' = Tail(events) /\ Head(events) # "STA_START"
  BY DEF Handle
<1>. DEFINE P == Posted("STA_START")
<1>2. /\ 1 \notin P /\ P \subseteq Nat \ {0} /\ P' \subseteq Nat \ {0}
      /\ \A i \in Int : i \in P' <=> i > 0 /\ i + 1 \in P
  BY <1>1, PostedTail
<1>. HIDE DEF P
<1>3. P' # {} <=> P # {}
  <2>1. ASSUME NEW i \in P PROVE P' # {}
    <3>1. i - 1 \in Int /\ i - 1 > 0 /\ (i - 1) + 1 = i
      BY <1>2, <2>1
    <3>. QED  BY <1>2, <2>1, <3>1
  <2>2. ASSUME NEW i \in P' PROVE P # {}
    BY <1>2, <2>2
  <2>. QED  BY <2>1, <2>2
<1>4. (\A i, j \in P : i = j) => (\A i, j \in P' : i = j)
  <2>. SUFFICES ASSUME \A i, j \in P : i = j, NEW i \in P', NEW j \in P' PROVE i = j
    OBVIOUS
  <2>1. i \in Nat /\ j \in Nat /\ i + 1 \in P /\ j + 1 \in P
    BY <1>2
  <2>2. i + 1 = j + 1
    BY <2>1
  <2>. QED  BY <2>1, <2>2
<1>. QED  BY <1>3, <1>4 DEF StartOK, StartToCome, P

\* Every step keeps one STA_START to come for one pending operation.
LEMMA NextStartOK == WifiInv /\ [Next]_vars => StartOK'
<1>. SUFFICES ASSUME WifiInv, [Next]_vars PROVE StartOK'
  OBVIOUS
<1>. USE DEF WifiInv, Operations
<1>1. ASSUME UNCHANGED <<driver, events, pending, start_complete>>,
             \A o \in Operations : task'[o] = "starting" => task[o] = "starting"
      PROVE  StartOK'
  BY <1>1 DEF StartOK, StartToCome, Posted
<1>2. CASE UNCHANGED wifiVars
  BY <1>1, <1>2 DEF wifiVars
<1>3. CASE Requests
  BY <1>1, <1>3 DEF Requests, RequestScan, RequestConnect, RequestDisconnect, flags, blob,
       WifiTypeOK
<1>4. ASSUME NEW o \in Operations,
             \/ s31_wifi_prepare(o) \/ Prepared(o) \/ RunNow(o) \/ Busy(o)
             \/ StartReturns(o) \/ Run(o)
      PROVE  StartOK'
  <2>1. UNCHANGED <<driver, events, pending, start_complete>>
    BY <1>4 DEF s31_wifi_prepare, Prepared, RunNow, Busy, StartReturns, Run, flags, blob
  <2>2. \E w \in {"idle", "preparing", "config", "start", "run"} : task' = [task EXCEPT ![o] = w]
    BY <1>4 DEF s31_wifi_prepare, Prepared, Onward, RunNow, Busy, StartReturns, Run, Goto, Fail
  <2>. QED  BY <1>1, <2>1, <2>2 DEF WifiTypeOK
<1>5. CASE SetConfig
  <2>1. UNCHANGED <<driver, events, pending, start_complete>>
    BY <1>5 DEF SetConfig, flags, blob
  <2>2. \E w \in {"idle", "start"} : task' = [task EXCEPT !["connect"] = w]
    BY <1>5 DEF SetConfig, Goto, Fail
  <2>. QED  BY <1>1, <2>1, <2>2 DEF WifiTypeOK
<1>6. ASSUME NEW o \in Operations, Start(o) PROVE StartOK'
  \* Nothing is pending, so no STA_START is to come and nobody is starting.
  <2>1. /\ pending = "none" /\ ~start_complete /\ pending' = o /\ driver' = "starting"
        /\ task' = [task EXCEPT ![o] = "starting"] /\ UNCHANGED <<events, start_complete>>
    BY <1>6 DEF Start, Defer, Goto, flags
  <2>2. Posted("STA_START") = {} /\ Posted("STA_START")' = {}
    BY <2>1 DEF StartOK, StartToCome, Posted
  <2>3. \A p \in Operations : task'[p] = "starting" => p = o
    BY <2>1 DEF StartOK, WifiTypeOK
  <2>. QED  BY <2>1, <2>2, <2>3 DEF StartOK, StartToCome
<1>7. ASSUME NEW o \in Operations, StartFails(o) PROVE StartOK'
  \* The operation taken back is o's own.
  <2>1. /\ driver = "starting" /\ task[o] = "starting" /\ driver' = "off" /\ pending' = "none"
        /\ task' = [task EXCEPT ![o] = "idle"] /\ UNCHANGED <<events, start_complete>>
    BY <1>7 DEF StartFails, Fail, Goto, flags
  <2>2. Posted("STA_START") = {} /\ ~start_complete /\ pending = o
    BY <2>1 DEF StartOK
  <2>3. Posted("STA_START")' = {}
    BY <2>1, <2>2 DEF Posted
  <2>4. \A p \in Operations : task'[p] # "starting"
    BY <2>1, <2>2 DEF StartOK, WifiTypeOK
  <2>. QED  BY <2>1, <2>2, <2>3, <2>4 DEF StartOK, StartToCome
<1>8. CASE s31_radio_wifi_disconnect_task
  <2>1. /\ UNCHANGED <<driver, pending, start_complete>>
        /\ events' = events \/ events' = Append(events, "STA_DISCONNECTED")
        /\ \A o \in Operations : task'[o] = task[o]
    BY <1>8 DEF s31_radio_wifi_disconnect_task, Goto, flags, WifiTypeOK
  <2>. QED  BY <1>1, <2>1, PostKeepsStart DEF Events
<1>9. CASE Started
  <2>1. /\ driver = "starting" /\ driver' = "on" /\ events' = Append(events, "STA_START")
        /\ UNCHANGED <<pending, start_complete, task>>
    BY <1>9 DEF Started, Post, flags
  <2>2. Posted("STA_START") = {} /\ ~start_complete /\ pending # "none"
    BY <2>1 DEF StartOK, StartToCome
  <2>3. Posted("STA_START")' = {Len(events) + 1}
    BY <2>1, <2>2, PostedAppend DEF Events
  <2>. QED  BY <2>1, <2>2, <2>3 DEF StartOK, StartToCome
<1>10. CASE ScanDone \/ Connected \/ Disconnected
  <2>1. /\ UNCHANGED <<driver, pending, start_complete, task>>
        /\ \E x \in Events \ {"STA_START"} : events' = Append(events, x)
    BY <1>10 DEF ScanDone, Connected, Disconnected, Post, Events, flags
  <2>. QED  BY <2>1, PostKeepsStart
<1>11. CASE StaStart
  \* It was the only one, and the driver that posted it is on.
  <2>1. /\ events # << >> /\ events' = Tail(events) /\ Head(events) = "STA_START"
        /\ pending' = "none" /\ start_complete' = TRUE /\ UNCHANGED <<driver, task>>
    BY <1>11 DEF StaStart, Handle
  <2>2. /\ 1 \in Posted("STA_START") /\ Posted("STA_START")' \subseteq Nat \ {0}
        /\ \A i \in Int : i \in Posted("STA_START")' => i + 1 \in Posted("STA_START")
    BY <2>1, PostedTail
  <2>3. Posted("STA_START")' = {}
    <3>. SUFFICES ASSUME NEW i \in Posted("STA_START")' PROVE FALSE
      OBVIOUS
    <3>1. i \in Nat \ {0} /\ i + 1 \in Posted("STA_START")
      BY <2>2
    <3>2. i + 1 = 1
      BY <2>2, <3>1 DEF StartOK
    <3>. QED  BY <3>1, <3>2
  <2>4. driver = "on"
    BY <2>2 DEF StartOK
  <2>. QED  BY <2>1, <2>3, <2>4 DEF StartOK, StartToCome
<1>12. CASE ScanDoneEvent \/ LinkEvent
  <2>1. /\ UNCHANGED <<driver, pending, start_complete, task>>
        /\ \E x \in Events \ {"STA_START"} : Handle(x)
    BY <1>12 DEF ScanDoneEvent, LinkEvent, Events, flags
  <2>. QED  BY <2>1, HandleKeepsStart
<1>13. CASE StaStartRuns
  BY <1>1, <1>13 DEF StaStartRuns
<1>. QED  BY <1>2, <1>3, <1>4, <1>5, <1>6, <1>7, <1>8, <1>9, <1>10, <1>11, <1>12, <1>13, WifiSteps
            DEF WifiTasks, TaskStep, Driver, EventTask

\* The parts of ScanAccounted: the scan is with its task, pending, with the
\* handler of STA_START, with the driver, or its event is in the queue.
One(b) == IF b THEN 1 ELSE 0

WithTask == task["scan"] \notin {"idle", "starting"}

Done == Cardinality(Posted("SCAN_DONE"))

\* ScanAccounted in these words.
LEMMA ScanParts ==
  ScanAccounted <=> One(WithTask) + One(pending = "scan") + One(handling = "scan") + One(scanning)
                      + Done = One("scan" \in awaited)
BY DEF ScanAccounted, One, WithTask, Done

\* No step answers a scan twice or forgets one.
LEMMA NextScanAccounted == WifiInv /\ [Next]_vars => ScanAccounted'
<1>. SUFFICES ASSUME WifiInv, [Next]_vars PROVE ScanAccounted'
  OBVIOUS
<1>. USE DEF WifiInv, Operations
<1>a. Done \in Nat
  BY PostedFinite DEF Done
<1>b. One(WithTask) + One(pending = "scan") + One(handling = "scan") + One(scanning) + Done
        = One("scan" \in awaited)
  BY ScanParts
<1>c. ASSUME (One(WithTask) + One(pending = "scan") + One(handling = "scan") + One(scanning) + Done)'
               = One("scan" \in awaited)'
      PROVE  ScanAccounted'
  BY <1>c DEF ScanAccounted, One, WithTask, Done
<1>1. ASSUME UNCHANGED <<events, scanning, handling>>, WithTask' = WithTask,
             (pending = "scan")' = (pending = "scan"), ("scan" \in awaited)' = ("scan" \in awaited)
      PROVE  ScanAccounted'
  BY <1>1, <1>b, <1>c DEF Done, Posted
<1>2. CASE UNCHANGED wifiVars
  BY <1>1, <1>2 DEF wifiVars, WithTask
<1>3. CASE RequestScan
  BY <1>3, <1>a, <1>b, <1>c DEF RequestScan, WithTask, Done, Posted, One, flags, blob, WifiTypeOK
<1>4. CASE RequestConnect \/ RequestDisconnect
  BY <1>4, <1>1 DEF RequestConnect, RequestDisconnect, WithTask, flags, blob, WifiTypeOK
\* A request fails while it is with its task.
<1>5. ASSUME NEW o \in Operations, Fail(o), task[o] \notin {"idle", "starting"},
             UNCHANGED <<pending, handling, scanning, events>>
      PROVE  ScanAccounted'
  <2>1. task' = [task EXCEPT ![o] = "idle"] /\ awaited' = awaited \ {o}
    BY <1>5 DEF Fail, Goto, Answer
  <2>2. CASE o = "scan"
    BY <1>5, <1>a, <1>b, <1>c, <2>1, <2>2 DEF WithTask, Done, Posted, One, WifiTypeOK
  <2>3. CASE o = "connect"
    BY <1>1, <1>5, <2>1, <2>3 DEF WithTask, WifiTypeOK
  <2>. QED  BY <2>2, <2>3
\* A request goes on with its task.
<1>6. ASSUME NEW o \in Operations, NEW w \in {"preparing", "config", "start", "run"},
             task' = [task EXCEPT ![o] = w], task[o] \notin {"idle", "starting"},
             UNCHANGED <<pending, handling, scanning, events, awaited>>
      PROVE  ScanAccounted'
  BY <1>1, <1>6 DEF WithTask, WifiTypeOK
<1>7. ASSUME NEW o \in Operations, s31_wifi_prepare(o) \/ Prepared(o) \/ RunNow(o) \/ Busy(o)
      PROVE  ScanAccounted'
  BY <1>5, <1>6, <1>7 DEF s31_wifi_prepare, Prepared, Onward, RunNow, Busy, Goto, flags, blob
<1>8. CASE SetConfig
  BY <1>5, <1>6, <1>8 DEF SetConfig, Goto, flags, blob
<1>9. ASSUME NEW o \in Operations, Start(o) PROVE ScanAccounted'
  <2>1. /\ task[o] = "start" /\ pending = "none" /\ pending' = o
        /\ task' = [task EXCEPT ![o] = "starting"] 
        /\ UNCHANGED <<handling, scanning, events, awaited>>
    BY <1>9 DEF Start, Defer, Goto, flags
  <2>2. CASE o = "scan"
    BY <1>a, <1>b, <1>c, <2>1, <2>2 DEF WithTask, Done, Posted, One, WifiTypeOK
  <2>3. CASE o = "connect"
    BY <1>1, <2>1, <2>3 DEF WithTask, WifiTypeOK
  <2>. QED  BY <2>2, <2>3
<1>10. ASSUME NEW o \in Operations, StartReturns(o) PROVE ScanAccounted'
  BY <1>1, <1>10 DEF StartReturns, Goto, WithTask, WifiTypeOK, flags, blob
<1>11. ASSUME NEW o \in Operations, StartFails(o) PROVE ScanAccounted'
  \* The operation taken back is o's own, by StartOK.
  <2>1. /\ task[o] = "starting" /\ driver = "starting" /\ pending' = "none"
        /\ task' = [task EXCEPT ![o] = "idle"] /\ awaited' = awaited \ {o}
        /\ UNCHANGED <<handling, scanning, events>>
    BY <1>11 DEF StartFails, Fail, Goto, Answer, flags
  <2>2. pending = o
    BY <2>1 DEF StartOK
  <2>3. CASE o = "scan"
    BY <1>a, <1>b, <1>c, <2>1, <2>2, <2>3 DEF WithTask, Done, Posted, One, WifiTypeOK
  <2>4. CASE o = "connect"
    BY <1>1, <2>1, <2>2, <2>4 DEF WithTask, WifiTypeOK
  <2>. QED  BY <2>3, <2>4
<1>12. ASSUME NEW o \in Operations, Run(o) PROVE ScanAccounted'
  <2>1. CASE Fail(o) /\ UNCHANGED <<scanning, link>>
    BY <1>5, <1>12, <2>1 DEF Run, flags
  <2>2. CASE DriverRuns(o) /\ Goto(o, "idle") /\ UNCHANGED awaited
    <3>1. /\ task[o] = "run" /\ task' = [task EXCEPT ![o] = "idle"] 
          /\ UNCHANGED <<handling, pending, events>>
      BY <1>12, <2>2 DEF Run, Goto, flags
    <3>2. CASE o = "scan"
      BY <1>a, <1>b, <1>c, <2>2, <3>1, <3>2 DEF DriverRuns, WithTask, Done, Posted, One, WifiTypeOK
    <3>3. CASE o = "connect"
      BY <1>1, <2>2, <3>1, <3>3 DEF DriverRuns, WithTask, WifiTypeOK
    <3>. QED  BY <3>2, <3>3
  <2>. QED  BY <1>12, <2>1, <2>2 DEF Run
\* An event other than SCAN_DONE is posted or handled.
<1>13. ASSUME Done' = Done, UNCHANGED <<pending, handling, scanning>>, task'["scan"] = task["scan"],
              ("scan" \in awaited)' = ("scan" \in awaited)
       PROVE  ScanAccounted'
  BY <1>13, <1>b, <1>c DEF WithTask
<1>14. CASE s31_radio_wifi_disconnect_task
  <2>1. /\ UNCHANGED <<pending, handling, scanning>> /\ task'["scan"] = task["scan"]
        /\ ("scan" \in awaited)' = ("scan" \in awaited)
        /\ events' = events \/ events' = Append(events, "STA_DISCONNECTED")
    BY <1>14 DEF s31_radio_wifi_disconnect_task, Goto, Answer, WifiTypeOK, flags
  <2>2. CASE events' = events
    BY <1>13, <2>1, <2>2 DEF Done, Posted
  <2>3. CASE events' = Append(events, "STA_DISCONNECTED")
    BY <1>a, <1>13, <2>1, <2>3, PostedAppend DEF Done, Events
  <2>. QED  BY <2>1, <2>2, <2>3
<1>15. CASE Started \/ Connected \/ Disconnected
  <2>1. /\ UNCHANGED <<pending, handling, scanning, task, awaited>>
        /\ \E x \in Events \ {"SCAN_DONE"} : events' = Append(events, x)
    BY <1>15 DEF Started, Connected, Disconnected, Post, Events, flags
  <2>2. Done' = Done
    BY <1>a, <2>1, PostedAppend DEF Done
  <2>. QED  BY <1>13, <2>1, <2>2
<1>16. CASE ScanDone
  <2>1. /\ UNCHANGED <<pending, handling, task, awaited>> /\ events' = Append(events, "SCAN_DONE")
        /\ scanning /\ scanning' = FALSE
    BY <1>16 DEF ScanDone, Post, flags
  <2>2. Done' = Done + 1
    BY <2>1, PostedAppend DEF Done, Events
  <2>. QED  BY <1>a, <1>b, <1>c, <2>1, <2>2 DEF WithTask, One
<1>17. CASE StaStart
  \* The handler takes over what was pending.
  <2>1. /\ events # << >> /\ events' = Tail(events) /\ Head(events) = "STA_START"
        /\ pending' = "none" /\ handling = "none" /\ handling' = pending
        /\ UNCHANGED <<task, scanning, awaited>>
    BY <1>17 DEF StaStart, Handle
  <2>2. Done' = Done
    BY <1>a, <2>1, PostedTail DEF Done
  <2>. QED  BY <1>a, <1>b, <1>c, <2>1, <2>2 DEF WithTask, One
<1>20. CASE StaStartRuns
  <2>1. /\ handling # "none" /\ handling' = "none" /\ UNCHANGED <<task, pending, events>>
        /\ Done' = Done
    BY <1>20 DEF StaStartRuns, Done, Posted
  <2>2. CASE handling = "scan"
    <3>1. \/ scanning' = TRUE /\ UNCHANGED awaited
          \/ awaited' = awaited \ {"scan"} /\ UNCHANGED scanning
      BY <1>20, <2>2 DEF StaStartRuns, DriverRuns, Answer
    <3>. QED  BY <1>a, <1>b, <1>c, <2>1, <2>2, <3>1 DEF WithTask, One
  <2>3. CASE handling # "scan"
    <3>1. UNCHANGED scanning /\ ("scan" \in awaited)' = ("scan" \in awaited)
      BY <1>20, <2>1, <2>3 DEF StaStartRuns, DriverRuns, Answer, WifiTypeOK
    <3>. QED  BY <1>a, <1>b, <1>c, <2>1, <2>3, <3>1 DEF WithTask, One
  <2>. QED  BY <2>2, <2>3
<1>18. CASE ScanDoneEvent
  <2>1. /\ events # << >> /\ events' = Tail(events) /\ Head(events) = "SCAN_DONE"
        /\ awaited' = awaited \ {"scan"} /\ UNCHANGED <<pending, handling, scanning, task>>
    BY <1>18 DEF ScanDoneEvent, Handle, Answer, flags
  <2>2. Done' = Done - 1
    BY <1>a, <2>1, PostedTail DEF Done
  <2>3. Done # 0
    BY <2>1, PostedTail, PostedFinite, FS_EmptySet DEF Done
  <2>. QED  BY <1>a, <1>b, <1>c, <2>1, <2>2, <2>3 DEF WithTask, One
<1>19. CASE LinkEvent
  <2>1. /\ events # << >> /\ events' = Tail(events) /\ Head(events) # "SCAN_DONE"
        /\ awaited' = awaited \ {"connect"} /\ UNCHANGED <<pending, handling, scanning, task>>
    BY <1>19 DEF LinkEvent, Handle, Answer, flags
  <2>2. Done' = Done
    BY <1>a, <2>1, PostedTail DEF Done
  <2>. QED  BY <1>13, <2>1, <2>2
<1>. QED  BY <1>2, <1>3, <1>4, <1>7, <1>8, <1>9, <1>10, <1>11, <1>12, <1>14, <1>15, <1>16, <1>17,
             <1>18, <1>19, <1>20, WifiSteps
            DEF Requests, WifiTasks, TaskStep, Driver, EventTask

-----------------------------------------------------------------------------
(* The theorems *)

\* The stack before its bring-up satisfies the invariant.
LEMMA InitIndInv == Init => IndInv
<1>. SUFFICES ASSUME Init PROVE IndInv
  OBVIOUS
<1>. USE WifiAssumption DEF Init, WifiInit
<1>1. stage = "psa_crypto_init"
  BY DEF Chain
<1>2. WifiTypeOK
  <2>1. events \in Seq(Events) /\ Len(events) = 0
    BY EmptySeq
  <2>2. task \in [Operations \cup {"disconnect"} -> PCs]
    BY DEF PCs
  <2>3. /\ prepared \in BOOLEAN /\ start_requested \in BOOLEAN /\ start_complete \in BOOLEAN
        /\ scanning \in BOOLEAN
    OBVIOUS
  <2>4. Len(events) <= MaxEvents
    BY <2>1
  <2>. QED  BY <2>1, <2>2, <2>3, <2>4 DEF WifiTypeOK
<1>3. TypeOK
  BY <1>1, <1>2, CallNames DEF TypeOK
<1>4. \A e : Posted(e) = {}
  BY EmptySeq DEF Posted
<1>5. StartOK
  BY <1>4 DEF StartOK, StartToCome, Operations
<1>6. ScanAccounted
  <2>1. /\ ~WithTask /\ ~scanning /\ Done = 0 /\ awaited = {} /\ pending = "none"
        /\ handling = "none"
    BY <1>4, FS_EmptySet DEF WithTask, Done, Operations
  <2>. QED  BY <2>1, ScanParts DEF One
<1>7. StackInv
  BY <1>1, CallNames DEF StackInv, BringUpOK, BluetoothOK, ReportsTrue
<1>. QED  BY <1>3, <1>5, <1>6, <1>7 DEF IndInv, StackInv

\* Every step keeps the state of the whole stack in its type.
LEMMA NextTypeOK == TypeOK /\ [Next]_vars => TypeOK'
<1>. SUFFICES ASSUME TypeOK, [Next]_vars PROVE TypeOK'
  OBVIOUS
<1>. USE DEF TypeOK
<1>a. WifiTypeOK'
  BY NextWifiTypeOK
<1>1. CASE UNCHANGED radioVars
  BY <1>1, <1>a DEF radioVars
<1>2. CASE ChainCall
  <2>1. stage' \in Calls \cup {"report", "failed"} /\ handler' \in BOOLEAN
    BY <1>2, ChainOrder DEF ChainCall
  <2>. QED  BY <1>2, <1>a, <2>1 DEF ChainCall, bluetooth
<1>3. CASE ReportWifi
  BY <1>3, <1>a DEF ReportWifi, bluetooth
<1>4. CASE BtInit
  BY <1>4, <1>a DEF BtInit
<1>5. CASE RequestBt
  BY <1>5, <1>a DEF RequestBt
<1>6. CASE BtTask
  BY <1>6, <1>a DEF BtTask, BtEnable, BtRegister, BtDisable
<1>. QED  BY <1>1, <1>2, <1>3, <1>4, <1>5, <1>6 DEF Next, StackTask, WifiNext, vars, radioVars

\* The invariant holds of every reachable state.
LEMMA SpecIndInv == Spec => []IndInv
<1>1. IndInv /\ [Next]_vars => IndInv'
  BY NextTypeOK, NextStackInv, NextStartOK, NextScanAccounted
    DEF IndInv, StackInv, WifiInv, TypeOK
<1>. QED  BY <1>1, InitIndInv, PTL DEF Spec

(***************************************************************************)
(* Type correctness, with the driver's event queue within its bound.       *)
(***************************************************************************)
THEOREM RadioTypeCorrect == Spec => []TypeOK
BY SpecIndInv, PTL DEF IndInv

(***************************************************************************)
(* What s31_radio_report_wifi_init and its Bluetooth counterparts told     *)
(* Linux is so, whichever call failed.                                     *)
(***************************************************************************)
THEOREM RadioReportsTrue == Spec => []ReportsTrue
BY SpecIndInv, PTL DEF IndInv

(***************************************************************************)
(* An operation left to STA_START by s31_wifi_start_operation still has    *)
(* that event coming.                                                      *)
(***************************************************************************)
THEOREM RadioPendingHasStart == Spec => []PendingHasStart
<1>1. IndInv => PendingHasStart
  BY DEF IndInv, StartOK, PendingHasStart
<1>. QED  BY <1>1, SpecIndInv, PTL

(***************************************************************************)
(* Linux is owed the answer to a scan exactly as long as one part of the   *)
(* stack is going to give it.                                              *)
(***************************************************************************)
THEOREM RadioScanAccounted == Spec => []ScanAccounted
BY SpecIndInv, PTL DEF IndInv

-----------------------------------------------------------------------------
(***************************************************************************)
(* The timers of the same firmware: S31Timer, for every set of timers and  *)
(* delays, every limit on the callbacks of a tick and ticks that come at   *)
(* any time.                                                               *)
(***************************************************************************)
(***************************************************************************)
(* What the callbacks of a timer have to do with its alarm.  A one-shot    *)
(* timer is disarmed once it has fired.  The alarm of a periodic one is a  *)
(* whole number of periods after the first, not fewer than the callbacks   *)
(* made; this ties the bound on the callbacks to the alarm, which alone    *)
(* decides about the next one.  Deleted timers are no exception: their     *)
(* memory keeps what it held.                                              *)
(***************************************************************************)
OneShotOK(t) ==
  period[t] = 0 => /\ fired[t] <= 1
                   /\ active[t] => fired[t] = 0 /\ alarm[t] = origin[t]
                   /\ fired[t] = 1 => origin[t] <= now

PeriodicOK(t) ==
  period[t] # 0 => /\ \E k \in Nat : k >= fired[t] /\ alarm[t] = origin[t] + k * period[t]
                   /\ fired[t] # 0 => origin[t] + (fired[t] - 1) * period[t] <= now

TimerInv == TimerTypeOK /\ \A t \in Timers : OneShotOK(t) /\ PeriodicOK(t)

\* Whole periods that fit are counted by the division.
LEMMA PeriodsFit ==
  ASSUME NEW p \in Nat \ {0}, NEW k \in Nat, NEW n \in Nat, k * p <= n
  PROVE  n \div p \in Nat /\ k <= n \div p
<1>1. n \div p \in Nat /\ n < (n \div p + 1) * p
  OBVIOUS
<1>2. ASSUME k >= n \div p + 1 PROVE FALSE
  <2>1. k * p >= (n \div p + 1) * p
    BY <1>1, <1>2
  <2>. QED  BY <1>1, <2>1
<1>. QED  BY <1>1, <1>2

\* A whole number of periods leaves no remainder.
LEMMA WholePeriods ==
  ASSUME NEW p \in Nat \ {0}, NEW k \in Nat
  PROVE  (k * p) % p = 0
OBVIOUS

\* A period is a number.
LEMMA PeriodIsNat ==
  ASSUME NEW p \in Delays \cup {0}
  PROVE  p \in Nat
<1>1. CASE p = 0
  BY <1>1
<1>2. CASE p \in Delays
  BY <1>2, Zenon, TimerAssumption
<1>. QED  BY <1>1, <1>2, Zenon

\* The types of what one timer holds.
LEMMA TimerTypes ==
  ASSUME TimerTypeOK, NEW t \in Timers
  PROVE  /\ alarm[t] \in Nat /\ period[t] \in Nat /\ origin[t] \in Nat /\ fired[t] \in Nat
         /\ active[t] \in BOOLEAN /\ now \in Nat
<1>1. /\ alarm[t] \in Nat /\ origin[t] \in Nat /\ fired[t] \in Nat /\ active[t] \in BOOLEAN
  BY Zenon DEF TimerTypeOK
<1>2. now \in 1 .. MaxNow /\ MaxNow \in Nat
  BY Zenon, TimerAssumption DEF TimerTypeOK
<1>3. period[t] \in Delays \cup {0}
  BY Zenon DEF TimerTypeOK
<1>4. now \in Nat
  BY <1>2
<1>5. period[t] \in Nat
  BY <1>3, PeriodIsNat, Zenon
<1>. QED  BY <1>1, <1>4, <1>5, Zenon

\* A step that leaves a timer alone, or stops it, keeps its part of the invariant.
LEMMA TimerKept ==
  ASSUME TimerInv, NEW t \in Timers,
         now' \in Nat, now <= now',
         alarm'[t] = alarm[t], period'[t] = period[t], origin'[t] = origin[t],
         fired'[t] = fired[t], active'[t] => active[t]
  PROVE  (OneShotOK(t) /\ PeriodicOK(t))'
<1>. USE TimerTypes DEF TimerInv
<1>0. OneShotOK(t) /\ PeriodicOK(t)
  OBVIOUS
<1>1. OneShotOK(t)'
  <2>1. origin[t] <= now => origin[t] <= now'
    OBVIOUS
  <2>. QED  BY <1>0, <2>1, Zenon DEF OneShotOK
<1>2. PeriodicOK(t)'
  <2>1. SUFFICES ASSUME period[t] # 0
                 PROVE  /\ \E k \in Nat : k >= fired[t] /\ alarm[t] = origin[t] + k * period[t]
                        /\ fired[t] # 0 => origin[t] + (fired[t] - 1) * period[t] <= now'
    BY DEF PeriodicOK
  <2>2. (fired[t] - 1) * period[t] \in Int
    OBVIOUS
  <2>. QED  BY <1>0, <2>1, <2>2 DEF PeriodicOK
<1>. QED  BY <1>1, <1>2

\* A timer that was created or started anew has fired no callback yet.
LEMMA TimerFresh ==
  ASSUME NEW t \in Timers, origin'[t] \in Nat, fired'[t] = 0,
         active'[t] \/ period'[t] # 0 => alarm'[t] = origin'[t], period'[t] \in Nat
  PROVE  (OneShotOK(t) /\ PeriodicOK(t))'
<1>1. OneShotOK(t)'
  BY DEF OneShotOK
<1>2. ASSUME period'[t] # 0 PROVE alarm'[t] = origin'[t] + 0 * period'[t]
  BY <1>2
<1>3. PeriodicOK(t)'
  BY <1>2 DEF PeriodicOK
<1>. QED  BY <1>1, <1>3

\* The alarm that NextAlarm sets is at least a period later, by whole periods.
LEMMA TimerRearmed ==
  ASSUME TimerTypeOK, NEW t \in Timers, period[t] # 0, alarm[t] <= now
  PROVE  \E m \in Nat : m >= 1 /\ NextAlarm(t) = alarm[t] + m * period[t]
<1>. USE TimerTypes
<1>1. (now - alarm[t]) \div period[t] \in Nat
  <2>1. now - alarm[t] \in Nat /\ period[t] \in Nat \ {0}
    OBVIOUS
  <2>. QED  BY <2>1
<1>. DEFINE m == (now - alarm[t]) \div period[t] + 1
<1>2. m \in Nat /\ m >= 1
  BY <1>1
<1>3. NextAlarm(t) = alarm[t] + m * period[t]
  BY DEF NextAlarm
<1>. QED  BY <1>2, <1>3

\* Adding periods to an alarm on the grid stays on it.
LEMMA GridSum ==
  ASSUME NEW p \in Nat, NEW k \in Nat, NEW m \in Nat
  PROVE  k * p + m * p = (k + m) * p
OBVIOUS

\* Fewer periods are not longer.
LEMMA GridMonotone ==
  ASSUME NEW p \in Nat, NEW k \in Nat, NEW m \in Nat, m <= k
  PROVE  m * p \in Nat /\ k * p \in Nat /\ m * p <= k * p
OBVIOUS

\* The timer whose callback is dispatched.
LEMMA TimerDispatched ==
  ASSUME TimerInv, NEW t \in Timers, FirstDue(t), Rearm(t),
         fired' = [fired EXCEPT ![t] = @ + 1], UNCHANGED <<list, period, now, origin>>
  PROVE  (OneShotOK(t) /\ PeriodicOK(t))'
<1>. USE TimerTypes DEF TimerInv
<1>1. /\ active[t] /\ alarm[t] <= now /\ OneShotOK(t) /\ PeriodicOK(t)
      /\ fired'[t] = fired[t] + 1 /\ period' = period /\ now' = now /\ origin' = origin
  BY DEF FirstDue, IsDue, TimerTypeOK
<1>2. CASE period[t] = 0
  <2>1. active'[t] = FALSE
    BY <1>2 DEF Rearm, TimerTypeOK
  <2>. QED  BY <1>1, <1>2, <2>1 DEF OneShotOK, PeriodicOK
<1>3. CASE period[t] # 0
  <2>1. PICK m \in Nat : m >= 1 /\ NextAlarm(t) = alarm[t] + m * period[t]
    BY <1>1, <1>3, TimerRearmed
  <2>2. alarm'[t] = alarm[t] + m * period[t]
    BY <1>3, <2>1 DEF Rearm, TimerTypeOK
  <2>3. PICK k \in Nat : k >= fired[t] /\ alarm[t] = origin[t] + k * period[t]
    BY <1>1, <1>3 DEF PeriodicOK
  <2>4. k * period[t] + m * period[t] = (k + m) * period[t]
    BY GridSum
  <2>5. fired[t] * period[t] \in Nat /\ k * period[t] \in Nat /\ fired[t] * period[t] <= k * period[t]
    BY <2>3, GridMonotone
  <2>6. m * period[t] \in Nat
    BY GridMonotone
  <2>7. origin[t] + fired[t] * period[t] <= now
    BY <1>1, <2>3, <2>5
  <2>8. k + m \in Nat /\ k + m >= fired[t] + 1 /\ alarm'[t] = origin[t] + (k + m) * period[t]
    BY <2>1, <2>2, <2>3, <2>4, <2>5, <2>6
  <2>9. \E n \in Nat : n >= fired'[t] /\ alarm'[t] = origin'[t] + n * period'[t]
    BY <1>1, <2>8
  <2>10. fired'[t] - 1 = fired[t]
    BY <1>1
  <2>11. PeriodicOK(t)'
    BY <1>1, <2>7, <2>9, <2>10 DEF PeriodicOK
  <2>12. OneShotOK(t)'
    BY <1>1, <1>3 DEF OneShotOK
  <2>. QED  BY <2>11, <2>12
<1>. QED  BY <1>2, <1>3

-----------------------------------------------------------------------------
(* The list *)

\* A timer that is not in the list goes to its front.
LEMMA ListCreated ==
  ASSUME TimerTypeOK, NEW t \in Timers, t \notin Live, list' = <<t>> \o list
  PROVE  /\ list' \in Seq(Timers)
         /\ \A i, j \in 1 .. Len(list') : list'[i] = list'[j] => i = j
<1>1. list \in Seq(Timers) /\ <<t>> \in Seq(Timers) /\ Len(<<t>>) = 1 /\ <<t>>[1] = t
  BY DEF TimerTypeOK
<1>2. /\ list' \in Seq(Timers) /\ Len(list') = 1 + Len(list) /\ Len(list) \in Nat
      /\ \A i \in 1 .. 1 + Len(list) : list'[i] = IF i <= 1 THEN <<t>>[i] ELSE list[i - 1]
  <2>1. Len(list) \in Nat
    BY <1>1, LenProperties
  <2>. QED  BY <1>1, <2>1, ConcatProperties
<1>3. /\ \A i \in 1 .. Len(list) : list[i] # t
      /\ \A i, j \in 1 .. Len(list) : list[i] = list[j] => i = j
  BY DEF Live, TimerTypeOK
<1>4. ASSUME NEW i \in 1 .. Len(list'), NEW j \in 1 .. Len(list'), list'[i] = list'[j]
      PROVE  i = j
  <2>1. /\ i = 1 => list'[i] = t
        /\ j = 1 => list'[j] = t
        /\ i # 1 => i - 1 \in 1 .. Len(list) /\ list'[i] = list[i - 1]
        /\ j # 1 => j - 1 \in 1 .. Len(list) /\ list'[j] = list[j - 1]
    BY <1>1, <1>2
  <2>2. i # 1 /\ j # 1 => i - 1 = j - 1
    BY <1>3, <1>4, <2>1
  <2>3. i = 1 <=> j = 1
    BY <1>3, <1>4, <2>1
  <2>. QED  BY <1>2, <2>2, <2>3
<1>. QED  BY <1>2, <1>4

\* A deleted timer leaves the others in their order.
LEMMA ListDeleted ==
  ASSUME TimerTypeOK, NEW i \in 1 .. Len(list),
         list' = [j \in 1 .. Len(list) - 1 |-> IF j < i THEN list[j] ELSE list[j + 1]]
  PROVE  /\ list' \in Seq(Timers)
         /\ \A k, j \in 1 .. Len(list') : list'[k] = list'[j] => k = j
<1>1. list \in Seq(Timers) /\ Len(list) \in Nat /\ Len(list) - 1 \in Nat
  <2>1. list \in Seq(Timers) /\ Len(list) \in Nat
    BY LenProperties DEF TimerTypeOK
  <2>. QED  BY <2>1
<1>2. \A k \in 1 .. Len(list) : list[k] \in Timers
  BY <1>1, ElementOfSeq
<1>3. list' \in [1 .. Len(list) - 1 -> Timers]
  <2>1. \A j \in 1 .. Len(list) - 1 : (IF j < i THEN list[j] ELSE list[j + 1]) \in Timers
    BY <1>1, <1>2
  <2>. QED  BY <2>1
<1>4. list' \in Seq(Timers) /\ Len(list') = Len(list) - 1
  BY <1>1, <1>3
<1>5. ASSUME NEW k \in 1 .. Len(list'), NEW j \in 1 .. Len(list'), list'[k] = list'[j]
      PROVE  k = j
  <2>. DEFINE Old(n) == IF n < i THEN n ELSE n + 1
  <2>1. /\ Old(k) \in 1 .. Len(list) /\ Old(j) \in 1 .. Len(list)
        /\ Old(k) = Old(j) => k = j
    BY <1>1, <1>4
  <2>2. list'[k] = list[Old(k)] /\ list'[j] = list[Old(j)]
    BY <1>4
  <2>3. Old(k) = Old(j)
    BY <1>5, <2>1, <2>2 DEF TimerTypeOK
  <2>. QED  BY <2>1, <2>3
<1>. QED  BY <1>4, <1>5

-----------------------------------------------------------------------------
(* The steps *)

\* What a step of the API leaves alone of the worker and of the other timers.
LEMMA OthersKept ==
  ASSUME TimerInv, NEW t \in Timers, now' = now,
         \A u \in Timers \ {t} : /\ alarm'[u] = alarm[u] /\ period'[u] = period[u]
                                 /\ origin'[u] = origin[u] /\ fired'[u] = fired[u]
                                 /\ active'[u] = active[u],
         (OneShotOK(t) /\ PeriodicOK(t))'
  PROVE  \A u \in Timers : (OneShotOK(u) /\ PeriodicOK(u))'
<1>1. now \in Nat /\ now' \in Nat /\ now <= now'
  BY TimerTypes DEF TimerInv
<1>2. ASSUME NEW u \in Timers, u # t PROVE (OneShotOK(u) /\ PeriodicOK(u))'
  BY <1>1, <1>2, TimerKept
<1>. QED  BY <1>2

\* A timer is started with its first alarm.
LEMMA StartKeeps ==
  ASSUME TimerInv, NEW t \in Timers, NEW at \in Nat,
         NEW every \in Delays \cup {0}, s31_timer_start(t, at, every)
  PROVE  TimerInv'
<1>. USE DEF TimerInv
<1>1. /\ alarm' = [alarm EXCEPT ![t] = at] /\ period' = [period EXCEPT ![t] = every]
      /\ active' = [active EXCEPT ![t] = TRUE] /\ origin' = [origin EXCEPT ![t] = at]
      /\ fired' = [fired EXCEPT ![t] = 0]
      /\ UNCHANGED <<list, now, pc, callbacks, running>>
  BY DEF s31_timer_start, worker
<1>2. TimerTypeOK'
  BY <1>1 DEF TimerTypeOK
<1>3. /\ alarm'[t] = at /\ origin'[t] = at /\ fired'[t] = 0
      /\ \A u \in Timers \ {t} : /\ alarm'[u] = alarm[u] /\ period'[u] = period[u]
                                 /\ origin'[u] = origin[u] /\ fired'[u] = fired[u]
                                 /\ active'[u] = active[u]
  BY <1>1 DEF TimerTypeOK
<1>4. period'[t] \in Nat
  <2>1. period'[t] \in Delays \cup {0}
    BY <1>2, Zenon DEF TimerTypeOK
  <2>. QED  BY <2>1, PeriodIsNat, Zenon
<1>5. (OneShotOK(t) /\ PeriodicOK(t))'
  BY <1>3, <1>4, TimerFresh
<1>. QED  BY <1>1, <1>2, <1>3, <1>5, OthersKept

\* The API keeps the invariant, in a callback as well as outside a tick.
LEMMA ApiKeeps ==
  ASSUME TimerInv, NEW t \in Timers, API(t)
  PROVE  TimerInv'
<1>. USE DEF TimerInv
<1>0. now \in Nat /\ Delays \subseteq Nat
  BY TimerTypes, TimerAssumption
<1>1. CASE esp_timer_create(t)
  <2>1. /\ alarm' = [alarm EXCEPT ![t] = 0] /\ period' = [period EXCEPT ![t] = 0]
        /\ active' = [active EXCEPT ![t] = FALSE] /\ origin' = [origin EXCEPT ![t] = 0]
        /\ fired' = [fired EXCEPT ![t] = 0]
        /\ UNCHANGED <<now, pc, callbacks, running>>
    BY <1>1 DEF esp_timer_create, worker
  <2>2. /\ list' \in Seq(Timers)
        /\ \A i, j \in 1 .. Len(list') : list'[i] = list'[j] => i = j
    BY <1>1, ListCreated DEF esp_timer_create
  <2>3. TimerTypeOK'
    BY <2>1, <2>2 DEF TimerTypeOK
  <2>4. /\ alarm'[t] = 0 /\ origin'[t] = 0 /\ fired'[t] = 0 /\ period'[t] = 0
        /\ \A u \in Timers \ {t} : /\ alarm'[u] = alarm[u] /\ period'[u] = period[u]
                                   /\ origin'[u] = origin[u] /\ fired'[u] = fired[u]
                                   /\ active'[u] = active[u]
    BY <2>1 DEF TimerTypeOK
  <2>5. (OneShotOK(t) /\ PeriodicOK(t))'
    BY <2>4, TimerFresh
  <2>. QED  BY <2>1, <2>3, <2>4, <2>5, OthersKept
<1>2. CASE esp_timer_delete(t)
  <2>1. UNCHANGED <<alarm, period, active, now, pc, callbacks, running, origin, fired>>
    BY <1>2 DEF esp_timer_delete, worker
  <2>2. /\ list' \in Seq(Timers)
        /\ \A i, j \in 1 .. Len(list') : list'[i] = list'[j] => i = j
    BY <1>2, ListDeleted DEF esp_timer_delete
  <2>3. TimerTypeOK'
    BY <2>1, <2>2 DEF TimerTypeOK
  <2>4. \A u \in Timers : (OneShotOK(u) /\ PeriodicOK(u))'
    BY <2>1 DEF OneShotOK, PeriodicOK
  <2>. QED  BY <2>3, <2>4
<1>3. CASE esp_timer_start_once(t)
  <2>1. PICK d \in Delays : s31_timer_start(t, now + d, 0)
    BY <1>3 DEF esp_timer_start_once
  <2>2. now + d \in Nat /\ 0 \in Delays \cup {0}
    BY <1>0
  <2>. QED  BY <2>1, <2>2, StartKeeps
<1>4. CASE esp_timer_start_periodic(t)
  <2>1. PICK d \in Delays : s31_timer_start(t, now + d, d)
    BY <1>4 DEF esp_timer_start_periodic
  <2>2. now + d \in Nat /\ d \in Delays \cup {0}
    BY <1>0
  <2>. QED  BY <2>1, <2>2, StartKeeps
<1>5. CASE esp_timer_start_once_at(t)
  <2>1. PICK d \in Delays \ {0} : s31_timer_start(t, now + d, 0)
    BY <1>5 DEF esp_timer_start_once_at
  <2>2. now + d \in Nat /\ 0 \in Delays \cup {0}
    BY <1>0
  <2>. QED  BY <2>1, <2>2, StartKeeps
<1>6. CASE esp_timer_start_periodic_at(t)
  <2>1. PICK d \in Delays, first \in Delays \ {0} : s31_timer_start(t, now + first, d)
    BY <1>6 DEF esp_timer_start_periodic_at
  <2>2. now + first \in Nat /\ d \in Delays \cup {0}
    BY <1>0
  <2>. QED  BY <2>1, <2>2, StartKeeps
<1>7. CASE esp_timer_stop(t)
  <2>1. /\ active' = [active EXCEPT ![t] = FALSE]
        /\ UNCHANGED <<list, alarm, period, now, pc, callbacks, running, origin, fired>>
    BY <1>7 DEF esp_timer_stop, worker
  <2>2. TimerTypeOK'
    BY <2>1 DEF TimerTypeOK
  <2>3. ASSUME NEW u \in Timers PROVE (OneShotOK(u) /\ PeriodicOK(u))'
    <3>1. active'[u] => active[u]
      BY <2>1, Zenon DEF TimerTypeOK
    <3>2. now' \in Nat /\ now <= now'
      BY <1>0, <2>1
    <3>. QED  BY <2>1, <3>1, <3>2, TimerKept
  <2>. QED  BY <2>2, <2>3
<1>8. CASE esp_timer_restart(t)
  <2>1. PICK d \in Delays \ {0} :
            /\ alarm' = [alarm EXCEPT ![t] = now + d]
            /\ period' = [period EXCEPT ![t] = IF @ = 0 THEN 0 ELSE d]
            /\ origin' = [origin EXCEPT ![t] = now + d]
    BY <1>8 DEF esp_timer_restart
  <2>2. /\ fired' = [fired EXCEPT ![t] = 0]
        /\ UNCHANGED <<list, active, now, pc, callbacks, running>>
    BY <1>8 DEF esp_timer_restart, worker
  <2>3. now + d \in Nat
    BY <1>0
  <2>4. TimerTypeOK'
    BY <2>1, <2>2, <2>3 DEF TimerTypeOK
  <2>5. /\ alarm'[t] = now + d /\ origin'[t] = now + d /\ fired'[t] = 0
        /\ \A u \in Timers \ {t} : /\ alarm'[u] = alarm[u] /\ period'[u] = period[u]
                                   /\ origin'[u] = origin[u] /\ fired'[u] = fired[u]
                                   /\ active'[u] = active[u]
    BY <2>1, <2>2 DEF TimerTypeOK
  <2>6. period'[t] \in Nat
    <3>1. period'[t] \in Delays \cup {0}
      BY <2>4, Zenon DEF TimerTypeOK
    <3>. QED  BY <3>1, PeriodIsNat, Zenon
  <2>7. (OneShotOK(t) /\ PeriodicOK(t))'
    BY <2>3, <2>5, <2>6, TimerFresh
  <2>. QED  BY <2>2, <2>4, <2>5, <2>7, OthersKept
<1>. QED  BY <1>1, <1>2, <1>3, <1>4, <1>5, <1>6, <1>7, <1>8 DEF API

\* The worker's dispatch keeps the invariant.
LEMMA DispatchKeeps ==
  ASSUME TimerInv, Dispatch
  PROVE  TimerInv'
<1>. USE DEF TimerInv
<1>1. PICK t \in Timers : /\ FirstDue(t) /\ Rearm(t) /\ running' = t
                         /\ fired' = [fired EXCEPT ![t] = @ + 1]
  BY DEF Dispatch
<1>2. /\ UNCHANGED <<list, period, now, origin>> /\ pc' = "callback"
      /\ callbacks' = callbacks + 1 /\ callbacks < MaxCallbacks
  BY DEF Dispatch, MayDispatch
<1>3. /\ alarm' \in [Timers -> Nat] /\ active' \in [Timers -> BOOLEAN]
      /\ \A u \in Timers \ {t} : alarm'[u] = alarm[u] /\ active'[u] = active[u]
  <2>1. CASE period[t] # 0
    <3>1. alarm' = [alarm EXCEPT ![t] = NextAlarm(t)] /\ active' = active
      BY <1>1, <2>1 DEF Rearm
    <3>2. alarm[t] <= now
      BY <1>1 DEF FirstDue, IsDue
    <3>3. PICK m \in Nat : NextAlarm(t) = alarm[t] + m * period[t]
      BY <2>1, <3>2, TimerRearmed
    <3>4. m * period[t] \in Nat /\ alarm[t] \in Nat
      BY TimerTypes, GridMonotone
    <3>5. NextAlarm(t) \in Nat
      BY <3>3, <3>4
    <3>. QED  BY <3>1, <3>5 DEF TimerTypeOK
  <2>2. CASE period[t] = 0
    BY <1>1, <2>2 DEF Rearm, TimerTypeOK
  <2>. QED  BY <2>1, <2>2
<1>4. TimerTypeOK'
  <2>1. fired' \in [Timers -> Nat]
    BY <1>1 DEF TimerTypeOK
  <2>2. callbacks' \in 0 .. MaxCallbacks
    BY <1>2, TimerAssumption DEF TimerTypeOK
  <2>. QED  BY <1>1, <1>2, <1>3, <2>1, <2>2 DEF TimerTypeOK
<1>5. (OneShotOK(t) /\ PeriodicOK(t))'
  BY <1>1, <1>2, TimerDispatched
<1>6. \A u \in Timers \ {t} : fired'[u] = fired[u]
  BY <1>1 DEF TimerTypeOK
<1>. QED  BY <1>2, <1>3, <1>4, <1>5, <1>6, OthersKept

\* So do the other steps of the worker, and the clock.
LEMMA WorkerKeeps ==
  ASSUME TimerInv,
         \/ Tick \/ CallbackReturns \/ TickEnds \/ Clock
         \/ UNCHANGED timerVars
  PROVE  TimerInv'
<1>. USE DEF TimerInv
<1>1. UNCHANGED <<list, alarm, period, active, origin, fired>>
  BY DEF Tick, CallbackReturns, TickEnds, Clock, timerVars, timers
<1>2. now \in 1 .. MaxNow /\ MaxNow \in Nat
  BY TimerAssumption DEF TimerTypeOK
<1>3. now' \in 1 .. MaxNow /\ now <= now'
  BY <1>2 DEF Tick, CallbackReturns, TickEnds, Clock, timerVars
<1>4. /\ pc' \in {"idle", "scan", "callback"} /\ running' \in Timers \cup {NoTimer}
      /\ callbacks' \in 0 .. MaxCallbacks
  <2>1. callbacks' \in {0, callbacks}
    BY DEF Tick, CallbackReturns, TickEnds, Clock, timerVars, worker
  <2>2. callbacks' \in 0 .. MaxCallbacks
    BY <2>1, TimerAssumption DEF TimerTypeOK
  <2>. QED  BY <2>2 DEF Tick, CallbackReturns, TickEnds, Clock, timerVars,
                        worker, TimerTypeOK
<1>5. TimerTypeOK'
  BY <1>1, <1>3, <1>4 DEF TimerTypeOK
<1>6. ASSUME NEW u \in Timers PROVE (OneShotOK(u) /\ PeriodicOK(u))'
  <2>1. now' \in Nat
    BY <1>2, <1>3
  <2>. QED  BY <1>1, <1>3, <2>1, TimerKept
<1>. QED  BY <1>5, <1>6

LEMMA TimerInvariance == TimerSpec => []TimerInv
<1>1. TimerInit => TimerInv
  <2>. SUFFICES ASSUME TimerInit PROVE TimerInv
    OBVIOUS
  <2>1. TimerTypeOK
    <3>1. list \in Seq(Timers) /\ \A i, j \in 1 .. Len(list) : list[i] = list[j] => i = j
      BY DEF TimerInit
    <3>2. now \in 1 .. MaxNow /\ callbacks \in 0 .. MaxCallbacks
      BY TimerAssumption DEF TimerInit
    <3>. QED  BY <3>1, <3>2 DEF TimerInit, TimerTypeOK
  <2>2. \A t \in Timers : /\ active[t] = FALSE /\ period[t] = 0 /\ fired[t] = 0
    BY DEF TimerInit
  <2>3. \A t \in Timers : OneShotOK(t) /\ PeriodicOK(t)
    BY <2>2 DEF OneShotOK, PeriodicOK
  <2>. QED  BY <2>1, <2>3 DEF TimerInv
<1>2. TimerInv /\ [TimerNext]_timerVars => TimerInv'
  BY ApiKeeps, DispatchKeeps, WorkerKeeps DEF TimerNext
<1>. QED  BY <1>1, <1>2, PTL DEF TimerSpec

-----------------------------------------------------------------------------
(* Results *)

(***************************************************************************)
(* Type correctness of the esp_timer shim; no timer is in its list twice,  *)
(* whatever callbacks create and delete.                                   *)
(***************************************************************************)
THEOREM TimerTypeCorrect == TimerSpec => []TimerTypeOK
<1>1. TimerInv => TimerTypeOK
  BY DEF TimerInv
<1>. QED  BY <1>1, TimerInvariance, PTL

(***************************************************************************)
(* s31_linux_timers_tick makes no burst: however late the ticks come, a    *)
(* timer has fired at most once for each of its alarms that has passed.    *)
(***************************************************************************)
THEOREM TimerNoBurst == TimerSpec => []NoBurst
<1>1. TimerInv => NoBurst
  <2>. SUFFICES ASSUME TimerInv, NEW t \in Timers
                PROVE  fired[t] <= IF now < origin[t] THEN 0
                                   ELSE IF period[t] = 0 THEN 1
                                   ELSE (now - origin[t]) \div period[t] + 1
    BY DEF NoBurst
  <2>. USE TimerTypes DEF TimerInv
  <2>1. CASE period[t] = 0
    <3>1. fired[t] <= 1 /\ (fired[t] = 1 => origin[t] <= now)
      BY <2>1 DEF OneShotOK
    <3>. QED  BY <2>1, <3>1
  <2>2. CASE period[t] # 0 /\ fired[t] # 0
    <3>1. origin[t] + (fired[t] - 1) * period[t] <= now
      BY <2>2 DEF PeriodicOK
    <3>2. fired[t] - 1 \in Nat /\ period[t] \in Nat \ {0}
      BY <2>2
    <3>3. (fired[t] - 1) * period[t] \in Nat
      BY <3>2, GridMonotone
    <3>4. /\ now - origin[t] \in Nat /\ ~(now < origin[t])
          /\ (fired[t] - 1) * period[t] <= now - origin[t]
      BY <3>1, <3>3
    <3>5. /\ (now - origin[t]) \div period[t] \in Nat
          /\ fired[t] - 1 <= (now - origin[t]) \div period[t]
      BY <3>2, <3>4, PeriodsFit
    <3>6. fired[t] <= (now - origin[t]) \div period[t] + 1
      BY <3>2, <3>5
    <3>. QED  BY <2>2, <3>4, <3>6
  <2>3. CASE period[t] # 0 /\ fired[t] = 0
    <3>1. CASE now < origin[t]
      BY <2>3, <3>1
    <3>2. CASE ~(now < origin[t])
      <4>1. now - origin[t] \in Nat /\ period[t] \in Nat \ {0} /\ 0 * period[t] <= now - origin[t]
        BY <2>3, <3>2
      <4>2. (now - origin[t]) \div period[t] \in Nat
        BY <4>1, PeriodsFit
      <4>. QED  BY <2>3, <3>2, <4>2
    <3>. QED  BY <3>1, <3>2
  <2>. QED  BY <2>1, <2>2, <2>3
<1>. QED  BY <1>1, TimerInvariance, PTL

(***************************************************************************)
(* The re-arming of s31_linux_timers_tick keeps a periodic timer's phase,  *)
(* after any number of missed periods.                                     *)
(***************************************************************************)
THEOREM TimerPhaseKept == TimerSpec => []PhaseKept
<1>1. TimerInv => PhaseKept
  <2>. SUFFICES ASSUME TimerInv, NEW t \in Live, active[t], period[t] # 0
                PROVE  alarm[t] >= origin[t] /\ (alarm[t] - origin[t]) % period[t] = 0
    BY DEF PhaseKept
  <2>1. t \in Timers
    BY ElementOfSeq DEF TimerInv, TimerTypeOK, Live
  <2>2. /\ alarm[t] \in Nat /\ origin[t] \in Nat /\ period[t] \in Nat \ {0}
    BY <2>1, TimerTypes DEF TimerInv
  <2>3. PICK k \in Nat : alarm[t] = origin[t] + k * period[t]
    BY <2>1 DEF TimerInv, PeriodicOK
  <2>4. k * period[t] \in Nat
    BY <2>2, GridMonotone
  <2>5. alarm[t] - origin[t] = k * period[t]
    BY <2>2, <2>3, <2>4
  <2>6. (k * period[t]) % period[t] = 0
    BY <2>2, WholePeriods
  <2>. QED  BY <2>2, <2>4, <2>5, <2>6
<1>. QED  BY <1>1, TimerInvariance, PTL

(***************************************************************************)
(* s31_linux_timers_tick calls back only timers that are in the list and   *)
(* active, and never before the alarm they were started with.              *)
(***************************************************************************)
THEOREM TimerOnlyLiveFire == TimerSpec => OnlyLiveTimersFire
<1>1. ASSUME TimerInv, [TimerNext]_timerVars
      PROVE  [\A t \in Timers : Fires(t) =>
                 t \in Live /\ active[t] /\ origin[t] <= now]_timerVars
  <2>. SUFFICES ASSUME NEW t \in Timers, Fires(t)
                PROVE  t \in Live /\ active[t] /\ origin[t] <= now
    OBVIOUS
  <2>1. Dispatch
    BY <1>1 DEF Fires, TimerNext, API, OutsideScan, timerVars,
         esp_timer_create, esp_timer_delete, s31_timer_start,
         esp_timer_start_once, esp_timer_start_periodic,
         esp_timer_start_once_at, esp_timer_start_periodic_at,
         esp_timer_stop, esp_timer_restart,
         Tick, CallbackReturns, TickEnds, Clock, worker
  <2>2. FirstDue(t)
    BY <2>1 DEF Dispatch, Fires
  <2>3. t \in Live /\ active[t] /\ alarm[t] <= now
    BY <2>2 DEF FirstDue, IsDue, Live
  <2>4. /\ alarm[t] \in Nat /\ origin[t] \in Nat /\ period[t] \in Nat /\ now \in Nat
        /\ OneShotOK(t) /\ PeriodicOK(t)
    BY <1>1, TimerTypes DEF TimerInv
  <2>5. origin[t] <= alarm[t]
    <3>1. CASE period[t] = 0
      BY <2>3, <2>4, <3>1 DEF OneShotOK
    <3>2. CASE period[t] # 0
      <4>1. PICK k \in Nat : alarm[t] = origin[t] + k * period[t]
        BY <2>4, <3>2 DEF PeriodicOK
      <4>2. k * period[t] \in Nat
        <5>1. period[t] \in Nat /\ k <= k
          BY <2>4
        <5>. QED  BY <5>1, GridMonotone
      <4>. QED  BY <2>4, <4>1, <4>2
    <3>. QED  BY <3>1, <3>2
  <2>6. origin[t] <= now
    BY <2>3, <2>4, <2>5
  <2>. QED  BY <2>3, <2>6
<1>2. TimerInv /\ [TimerNext]_timerVars
        => [\A t \in Timers : Fires(t) =>
               t \in Live /\ active[t] /\ origin[t] <= now]_timerVars
  BY <1>1
<1>. QED  BY <1>2, TimerInvariance, PTL DEF TimerSpec, OnlyLiveTimersFire
=============================================================================
