-------------------------- MODULE S31ClientsProofs --------------------------
(***************************************************************************)
(* Proofs about S31Clients, for any number of clients, any tools, devices  *)
(* and socket sizes: a tool that reports success was granted all it stands *)
(* for, ble_scan's table counts every device once, and a discovery is      *)
(* never left running by clients that ended in order.                      *)
(*                                                                         *)
(* The first and the last rest on what an answer in a socket means.  Each  *)
(* request is sent once and answered once, so an answer that is still      *)
(* unread says of its request exactly whether the kernel granted it; and   *)
(* a netlink client, which looks at no request code, reads the answer to   *)
(* the request it has come to because no older one can be left over.       *)
(***************************************************************************)
EXTENDS S31Clients, FiniteSetTheorems, SequenceTheorems, TLAPS

\* The requests p has written: those before the one it has come to, and that one
\* once it waits for the answer or has ended.
Sent(p) == {Script[tool[p]][i] : i \in {j \in DOMAIN Script[tool[p]] :
              j < step[p] \/ (j = step[p] /\ pc[p] \in {"await", "exited"})}}

Final(e) == e.kind \in {"answer", "family", "error", "done"}

\* What p has sent is pending, granted or refused, and an unread answer says which.
AnswersOK(p) ==
  /\ pending[p] \subseteq Sent(p)
  /\ granted[p] \subseteq Sent(p) \ pending[p]
  /\ \A i \in 1 .. Len(inbox[p]) :
        Final(inbox[p][i]) =>
          /\ inbox[p][i].request \in Sent(p) \ pending[p]
          /\ inbox[p][i].ok <=> inbox[p][i].request \in granted[p]

\* A client goes on to its next request only with the last one granted.
EarlierGranted(p) ==
  \A i \in DOMAIN Script[tool[p]] : i < step[p] => Script[tool[p]][i] \in granted[p]

\* The management channel carries no netlink message.
ChannelOK(p) == Mgmt(p) =>
  \A i \in 1 .. Len(inbox[p]) : inbox[p][i].kind \in {"answer", "device", "unrelated"}

\* What a netlink client can read belongs to the request it has come to.
NetlinkOK(p) == ~Mgmt(p) =>
  /\ pending[p] \subseteq {Request(p)}
  /\ pc[p] \in {"start", "send", "collect", "sleep"} => inbox[p] = << >> /\ pending[p] = {}
  /\ \A i \in 1 .. Len(inbox[p]) :
        /\ inbox[p][i].kind \in {"family", "error", "bss", "done"}
        /\ inbox[p][i].request = Request(p)
        /\ inbox[p][i].kind # "bss" => i = Len(inbox[p]) /\ pending[p] = {}
        /\ inbox[p][i].kind = "bss" => bss[p] + i <= MaxBss
        /\ inbox[p][i].kind = "family" => inbox[p][i].ok
        /\ inbox[p][i].kind = "done" => inbox[p][i].ok /\ Request(p) = "GET_SCAN"
        /\ inbox[p][i].kind = "error" /\ inbox[p][i].ok => Request(p) # "GET_SCAN"
        /\ inbox[p][i].kind = "family" => Request(p) # "GET_SCAN"

\* A START_DISCOVERY still to be answered is awaited, or was given up.
StartAwaited(p) ==
  "START_DISCOVERY" \in pending[p] =>
    (pc[p] = "await" /\ Request(p) = "START_DISCOVERY") \/ p \in abandoned

Exchange(p) == AnswersOK(p) /\ EarlierGranted(p) /\ ChannelOK(p) /\ NetlinkOK(p) /\ StartAwaited(p)

\* A discovery is the business of a client that has yet to stop it, or of one
\* that could not.
Answerable(p) ==
  \/ p \in abandoned
  \/ Open(p) /\ "START_DISCOVERY" \in granted[p] /\ "STOP_DISCOVERY" \notin granted[p]

DiscoveryOwned == discovering => \E p \in Procs : Answerable(p)

\* ble_scan's table holds no device twice and, until it is full, all it printed.
TableOK(p) ==
  /\ Len(table[p]) <= MAX_DEVICES
  /\ \A i, j \in 1 .. Len(table[p]) : table[p][i] = table[p][j] => i = j
  /\ Len(table[p]) < MAX_DEVICES =>
       ~again[p] /\ listed[p] = {table[p][i] : i \in 1 .. Len(table[p])}

IndInv == /\ TypeOK
          /\ \A p \in Procs : Exchange(p)
          /\ OutcomeIsAnswer
          /\ DiscoveryOwned
          /\ \A p \in Procs : TableOK(p)

-----------------------------------------------------------------------------
(* The scripts *)

\* The scripts, spelt out: each request of a tool occurs once in its script, and
\* the requests the properties speak of belong to one tool.
LEMMA ScriptFacts ==
  /\ Script["power_on"] = <<"POWER_ON">>
  /\ Script["power_off"] = <<"POWER_OFF">>
  /\ Script["ble_scan"] = <<"POWER_ON", "START_DISCOVERY", "STOP_DISCOVERY">>
  /\ Script["wifi_scan"] = <<"GETFAMILY", "TRIGGER_SCAN", "GET_SCAN">>
  /\ Script["wifi_connect"] = <<"GETFAMILY", "CONNECT">>
  /\ Tools = {"power_on", "power_off", "ble_scan", "wifi_scan", "wifi_connect"}
<1>1. Tools = {"power_on", "power_off", "ble_scan", "wifi_scan", "wifi_connect"}
  BY DEF Tools, Script
<1> QED  BY <1>1 DEF Script

LEMMA ScriptShape ==
  ASSUME NEW t \in Tools
  PROVE  /\ Len(Script[t]) \in 1 .. 3
         /\ DOMAIN Script[t] = 1 .. Len(Script[t])
         /\ \A i \in DOMAIN Script[t] : Script[t][i] \in Requests
         /\ \A i, j \in DOMAIN Script[t] : Script[t][i] = Script[t][j] => i = j
<1>1. \A i \in DOMAIN Script[t] : Script[t][i] \in Requests
  BY DEF Requests
<1>2. CASE t = "power_on"  BY <1>1, <1>2, ScriptFacts
<1>3. CASE t = "power_off"  BY <1>1, <1>3, ScriptFacts
<1>4. CASE t = "ble_scan"  BY <1>1, <1>4, ScriptFacts
<1>5. CASE t = "wifi_scan"  BY <1>1, <1>5, ScriptFacts
<1>6. CASE t = "wifi_connect"  BY <1>1, <1>6, ScriptFacts
<1> QED  BY <1>2, <1>3, <1>4, <1>5, <1>6, ScriptFacts

LEMMA ScriptPlaces ==
  ASSUME NEW t \in Tools, NEW i \in DOMAIN Script[t]
  PROVE  /\ Script[t][i] = "START_DISCOVERY" <=> t = "ble_scan" /\ i = 2
         /\ Script[t][i] = "STOP_DISCOVERY" <=> t = "ble_scan" /\ i = 3
         /\ Script[t][i] = "GET_SCAN" <=> t = "wifi_scan" /\ i = 3
<1>2. CASE t = "power_on"  BY <1>2, ScriptFacts
<1>3. CASE t = "power_off"  BY <1>3, ScriptFacts
<1>4. CASE t = "ble_scan"  BY <1>4, ScriptFacts
<1>5. CASE t = "wifi_scan"  BY <1>5, ScriptFacts
<1>6. CASE t = "wifi_connect"  BY <1>6, ScriptFacts
<1> QED  BY <1>2, <1>3, <1>4, <1>5, <1>6, ScriptFacts

\* What a tool promises is its script, but for the STOP_DISCOVERY of ble_scan.
LEMMA PromisedFacts ==
  ASSUME NEW t \in Tools
  PROVE  Promised[t] = {Script[t][i] : i \in DOMAIN Script[t]} \ {"STOP_DISCOVERY"}
<1>2. CASE t = "power_on"  BY <1>2, ScriptFacts DEF Promised
<1>3. CASE t = "power_off"  BY <1>3, ScriptFacts DEF Promised
<1>4. CASE t = "ble_scan"  BY <1>4, ScriptFacts DEF Promised
<1>5. CASE t = "wifi_scan"  BY <1>5, ScriptFacts DEF Promised
<1>6. CASE t = "wifi_connect"  BY <1>6, ScriptFacts DEF Promised
<1> QED  BY <1>2, <1>3, <1>4, <1>5, <1>6, ScriptFacts

-----------------------------------------------------------------------------
(* Types *)

\* What the type invariant says of the setting and of one client.
LEMMA ClientTypes ==
  ASSUME TypeOK, NEW p \in Procs
  PROVE  /\ tool[p] \in Tools
         /\ setting.air \subseteq Devices /\ setting.room \in Nat \ {0}
         /\ step[p] \in 1 .. Len(Script[tool[p]]) /\ Len(Script[tool[p]]) \in 1 .. 3
         /\ DOMAIN Script[tool[p]] = 1 .. Len(Script[tool[p]])
         /\ Request(p) \in Requests
         /\ inbox[p] \in Seq(Messages) /\ Len(inbox[p]) \in Nat
         /\ pending[p] \subseteq Requests /\ granted[p] \subseteq Requests
<1>1. /\ tool[p] \in Tools
      /\ setting.air \subseteq Devices /\ setting.room \in Nat \ {0}
  BY ClientsAssumption DEF TypeOK, tool
<1>2. step[p] \in DOMAIN Script[tool[p]]
  BY DEF TypeOK
<1>3. /\ Len(Script[tool[p]]) \in 1 .. 3
      /\ DOMAIN Script[tool[p]] = 1 .. Len(Script[tool[p]])
      /\ Request(p) \in Requests
  BY <1>1, <1>2, ScriptShape DEF Request
<1>4. inbox[p] \in Seq(Messages) /\ pending[p] \subseteq Requests /\ granted[p] \subseteq Requests
  BY DEF TypeOK
<1>5. Len(inbox[p]) \in Nat
  BY <1>4, LenProperties
<1> QED  BY <1>1, <1>2, <1>3, <1>4, <1>5

\* The rest of a socket's queue, and the queue with one message more.
LEMMA TailFacts ==
  ASSUME NEW S, NEW s \in Seq(S), s # << >>
  PROVE  /\ Head(s) \in S /\ Head(s) = s[1]
         /\ Len(s) \in Nat \ {0}
         /\ Tail(s) \in Seq(S) /\ Len(Tail(s)) = Len(s) - 1
         /\ \A i \in 1 .. Len(Tail(s)) : i + 1 \in 1 .. Len(s) /\ Tail(s)[i] = s[i + 1]
BY HeadTailProperties, LenProperties, EmptySeq

LEMMA AppendFacts ==
  ASSUME NEW S, NEW s \in Seq(S), NEW e \in S
  PROVE  /\ Append(s, e) \in Seq(S) /\ Len(Append(s, e)) = Len(s) + 1
         /\ Len(s) \in Nat
         /\ \A i \in 1 .. Len(s) : Append(s, e)[i] = s[i]
         /\ Append(s, e)[Len(s) + 1] = e
BY AppendProperties, LenProperties

\* What the type invariant says of the course of the clients, of the sockets,
\* of the devices and of the kernel.
CourseType == /\ pc \in [Procs -> {"start", "send", "await", "collect", "sleep", "exited"}]
              /\ step \in [Procs -> Nat]
              /\ \A p \in Procs : step[p] \in DOMAIN Script[tool[p]]
              /\ tries \in [Procs -> 0 .. MaxTries]
              /\ expired \in [Procs -> BOOLEAN]
              /\ result \in [Procs -> {"none", "ok", "empty", "failed"}]

InboxType == /\ inbox \in [Procs -> Seq(Messages)]
             /\ \A p \in Procs : Len(inbox[p]) <= setting.room

DeviceType == /\ table \in [Procs -> Seq(Devices)]
              /\ listed \in [Procs -> SUBSET Devices]
              /\ again \in [Procs -> BOOLEAN]

KernelType == /\ pending \in [Procs -> SUBSET Requests]
              /\ granted \in [Procs -> SUBSET Requests]
              /\ powered \in BOOLEAN /\ discovering \in BOOLEAN

LEMMA TypeParts ==
  TypeOK <=> /\ setting \in Settings
             /\ CourseType /\ InboxType /\ DeviceType /\ KernelType
             /\ bss \in [Procs -> 0 .. MaxBss]
             /\ abandoned \subseteq Procs
BY DEF TypeOK, CourseType, InboxType, DeviceType, KernelType

LEMMA TypePartsNext ==
  TypeOK' <=> /\ setting' \in Settings
              /\ CourseType' /\ InboxType' /\ DeviceType' /\ KernelType'
              /\ bss' \in [Procs -> 0 .. MaxBss]
              /\ abandoned' \subseteq Procs
BY DEF TypeOK, CourseType, InboxType, DeviceType, KernelType, tool

LEMMA ExitTyped ==
  ASSUME TypeOK, NEW p \in Procs, UNCHANGED <<setting, step, tries, expired>>,
         NEW s \in {"ok", "empty", "failed"}, Exit(p, s)
  PROVE  CourseType' /\ InboxType'
<1>1. CourseType'
  BY DEF CourseType, TypeOK, Exit, Goto, tool
<1>2. << >> \in Seq(Messages) /\ Len(<< >>) = 0 /\ setting.room \in Nat
  BY ClientTypes, EmptySeq
<1>3. inbox' \in [Procs -> Seq(Messages)] /\ \A q \in Procs : inbox'[q] = inbox[q] \/ inbox'[q] = << >>
  BY <1>2 DEF TypeOK, Exit
<1> QED  BY <1>1, <1>2, <1>3 DEF InboxType, TypeOK

LEMMA SkipTyped ==
  ASSUME TypeOK, UNCHANGED setting, NEW p \in Procs, inbox[p] # << >>,
         inbox' = [inbox EXCEPT ![p] = Tail(@)]
  PROVE  InboxType'
<1>1. Tail(inbox[p]) \in Seq(Messages) /\ Len(Tail(inbox[p])) = Len(inbox[p]) - 1 /\ Len(inbox[p]) \in Nat
  BY TailFacts, ClientTypes
<1>2. setting.room \in Nat  BY ClientTypes
<1>3. inbox' \in [Procs -> Seq(Messages)]
  BY <1>1 DEF TypeOK
<1>4. ASSUME NEW q \in Procs PROVE Len(inbox'[q]) <= setting.room
  <2>1. CASE q = p  BY <2>1, <1>1, <1>2 DEF TypeOK
  <2>2. CASE q # p  BY <2>2 DEF TypeOK
  <2> QED  BY <2>1, <2>2
<1> QED  BY <1>3, <1>4 DEF InboxType

LEMMA DeliverTyped ==
  ASSUME TypeOK, UNCHANGED setting, NEW p \in Procs, NEW e \in Messages, Deliver(p, e)
  PROVE  InboxType'
<1>1. setting.room \in Nat  BY ClientTypes
<1>2. /\ Append(inbox[p], e) \in Seq(Messages) /\ Len(Append(inbox[p], e)) = Len(inbox[p]) + 1
      /\ Len(inbox[p]) \in Nat
  BY AppendFacts, ClientTypes
<1>3. inbox' \in [Procs -> Seq(Messages)]
  BY <1>2 DEF TypeOK, Deliver
<1>4. ASSUME NEW q \in Procs PROVE Len(inbox'[q]) <= setting.room
  <2>1. CASE q = p  BY <2>1, <1>1, <1>2 DEF TypeOK, Deliver
  <2>2. CASE q # p  BY <2>2 DEF TypeOK, Deliver
  <2> QED  BY <2>1, <2>2
<1> QED  BY <1>3, <1>4 DEF InboxType

LEMMA SucceedsTyped ==
  ASSUME TypeOK, UNCHANGED setting, NEW p \in Procs, inbox[p] # << >>, Succeeds(p)
  PROVE  CourseType' /\ InboxType'
<1>1. CASE step[p] = Len(Script[tool[p]]) /\ Exit(p, "ok") /\ UNCHANGED <<step, tries, expired>>
  BY <1>1, ExitTyped
<1>2. CASE /\ step[p] < Len(Script[tool[p]])
           /\ step' = [step EXCEPT ![p] = @ + 1]
           /\ expired' = [expired EXCEPT ![p] = FALSE]
           /\ inbox' = [inbox EXCEPT ![p] = Tail(@)]
           /\ \E w \in {"collect", "sleep", "send"} : Goto(p, w)
           /\ UNCHANGED <<tries, result>>
  <2>1. InboxType'  BY <1>2, SkipTyped
  <2>2. step' \in [Procs -> Nat] /\ \A q \in Procs : step'[q] \in DOMAIN Script[tool[q]]
    <3>1. step' \in [Procs -> Nat]  BY <1>2 DEF TypeOK
    <3>2. step'[p] \in DOMAIN Script[tool[p]]
      BY <1>2, ClientTypes DEF TypeOK
    <3> QED  BY <3>1, <3>2, <1>2 DEF TypeOK
  <2>3. CourseType'
    BY <1>2, <2>2 DEF CourseType, TypeOK, Goto, tool
  <2> QED  BY <2>1, <2>3
<1> QED  BY <1>1, <1>2 DEF Succeeds

LEMMA FailsTyped ==
  ASSUME TypeOK, UNCHANGED setting, NEW p \in Procs, Fails(p)
  PROVE  CourseType' /\ InboxType'
BY ExitTyped DEF Fails

\* A command that the kernel has done leaves its state typed.
LEMMA DoneTyped ==
  ASSUME TypeOK, NEW p \in Procs, NEW r \in Requests, NEW ok \in BOOLEAN, Done(p, r, ok)
  PROVE  KernelType'
<1>1. pending' \in [Procs -> SUBSET Requests] /\ granted' \in [Procs -> SUBSET Requests]
  BY DEF TypeOK, Done
<1>2. CASE UNCHANGED <<powered, discovering>>
  BY <1>1, <1>2 DEF KernelType, TypeOK
<1>3. CASE Effect(r)
  <2>1. CASE r = "POWER_ON"  BY <1>1, <1>3, <2>1 DEF KernelType, TypeOK, Effect
  <2>2. CASE r = "POWER_OFF"  BY <1>1, <1>3, <2>2 DEF KernelType, TypeOK, Effect
  <2>3. CASE r = "START_DISCOVERY"  BY <1>1, <1>3, <2>3 DEF KernelType, TypeOK, Effect
  <2>4. CASE r = "STOP_DISCOVERY"  BY <1>1, <1>3, <2>4 DEF KernelType, TypeOK, Effect
  <2>5. CASE r \notin {"POWER_ON", "POWER_OFF", "START_DISCOVERY", "STOP_DISCOVERY"}
    BY <1>1, <1>3, <2>5 DEF KernelType, TypeOK, Effect
  <2> QED  BY <2>1, <2>2, <2>3, <2>4, <2>5
<1> QED  BY <1>2, <1>3 DEF Done

\* Every step keeps the types.  bss stays within its bound because an unread
\* network of a dump was counted against it when it was sent.
LEMMA TypeStep ==
  ASSUME TypeOK, \A p \in Procs : NetlinkOK(p), [Next]_vars
  PROVE  TypeOK'
<1> USE TypeParts
<1>1. CASE UNCHANGED vars
  BY <1>1 DEF vars, TypeOK, tool
<1>2. ASSUME NEW p \in Procs, Begin(p) PROVE TypeOK'
  <2>1. CourseType' /\ InboxType'
    <3>1. CASE Goto(p, "send") /\ UNCHANGED <<inbox, result>>
      BY <1>2, <3>1 DEF Begin, Goto, CourseType, InboxType, tool
    <3>2. CASE Exit(p, "failed")
      BY <1>2, <3>2, ExitTyped DEF Begin
    <3> QED  BY <1>2, <3>1, <3>2 DEF Begin
  <2> QED  BY <1>2, <2>1, TypePartsNext DEF Begin, devices, kernel, DeviceType, KernelType
<1>3. ASSUME NEW p \in Procs, Send(p) \/ NetlinkSend(p) PROVE TypeOK'
  <2>a. UNCHANGED <<setting, devices, bss, granted, powered, discovering>>
    BY <1>3 DEF Send, NetlinkSend
  <2>1. CASE Fails(p) /\ UNCHANGED pending /\ abandoned' \in {abandoned, abandoned \cup {p}}
    <3>1. CourseType' /\ InboxType'  BY <2>a, <2>1, FailsTyped
    <3> QED  BY <2>a, <2>1, <3>1, TypePartsNext DEF devices, DeviceType, KernelType
  <2>2. CASE Written(p)
    <3>1. CourseType' /\ InboxType'
      BY <2>a, <2>2, ClientsAssumption DEF Written, Goto, CourseType, InboxType, tool
    <3>2. pending' \in [Procs -> SUBSET Requests]
      BY <2>2, ClientTypes DEF Written, KernelType
    <3>3. KernelType'  BY <2>a, <3>2 DEF KernelType
    <3> QED  BY <2>a, <2>2, <3>1, <3>3, TypePartsNext DEF Written, devices, DeviceType
  <2> QED  BY <1>3, <2>1, <2>2 DEF Send, NetlinkSend, Abandon
<1>4. ASSUME NEW p \in Procs, MgmtRead(p) PROVE TypeOK'
  <2>1. CourseType' /\ InboxType'
    <3>1. CASE Succeeds(p)  BY <1>4, <3>1, SucceedsTyped DEF MgmtRead
    <3>2. CASE Fails(p)  BY <1>4, <3>2, FailsTyped DEF MgmtRead
    <3>3. CASE /\ Skip(p)
               /\ tries' = [tries EXCEPT ![p] = IF tool[p] \in PowerTools THEN @ + 1 ELSE 0]
      <4>1. InboxType'  BY <1>4, <3>3, SkipTyped DEF MgmtRead, Skip
      <4>2. tries' \in [Procs -> 0 .. MaxTries]
        <5>1. tries[p] \in 0 .. MaxTries /\ (tool[p] \in PowerTools => tries[p] # MaxTries)
          BY <1>4 DEF MgmtRead, Over, CourseType
        <5>2. MaxTries \in Nat /\ tries \in [Procs -> 0 .. MaxTries]
          BY ClientsAssumption DEF CourseType
        <5>3. (IF tool[p] \in PowerTools THEN tries[p] + 1 ELSE 0) \in 0 .. MaxTries
          BY <5>1, <5>2
        <5> QED  BY <3>3, <5>2, <5>3
      <4>3. CourseType'  BY <1>4, <3>3, <4>2 DEF MgmtRead, Skip, CourseType, tool
      <4> QED  BY <4>1, <4>3
    <3> QED  BY <1>4, <3>1, <3>2, <3>3 DEF MgmtRead
  <2>2. abandoned' \subseteq Procs
    BY <1>4 DEF MgmtRead, Abandon
  <2> QED  BY <1>4, <2>1, <2>2, TypePartsNext DEF MgmtRead, devices, kernel, DeviceType, KernelType
<1>5. ASSUME NEW p \in Procs, PollTimeout(p) PROVE TypeOK'
  <2>1. tries' \in [Procs -> 0 .. MaxTries]
    <3>1. tries[p] \in 0 .. MaxTries /\ tries[p] # MaxTries
      BY <1>5 DEF PollTimeout, Over, CourseType
    <3> QED  BY <1>5, <3>1, ClientsAssumption DEF PollTimeout, CourseType
  <2>2. CourseType' /\ InboxType'
    BY <1>5, <2>1 DEF PollTimeout, CourseType, InboxType, tool
  <2> QED  BY <1>5, <2>2, TypePartsNext DEF PollTimeout, devices, kernel, DeviceType, KernelType
<1>6. ASSUME NEW p \in Procs, GiveUp(p) PROVE TypeOK'
  <2>1. CourseType' /\ InboxType'  BY <1>6, FailsTyped DEF GiveUp
  <2> QED  BY <1>6, <2>1, TypePartsNext DEF GiveUp, Abandon, devices, kernel, DeviceType, KernelType
<1>7. ASSUME NEW p \in Procs, Collect(p) PROVE TypeOK'
  <2>1. InboxType'  BY <1>7, SkipTyped DEF Collect, Skip
  <2>2. CourseType'  BY <1>7 DEF Collect, Skip, CourseType, tool
  <2>3. DeviceType'
    <3>1. CASE UNCHANGED devices  BY <3>1 DEF devices, DeviceType
    <3>2. CASE Head(inbox[p]).kind = "device" /\ ~already_seen(p, Head(inbox[p]).device)
      <4> DEFINE d == Head(inbox[p]).device
      <4>1. Head(inbox[p]) \in Messages
        BY <1>7, ClientTypes, TailFacts DEF Collect
      <4>2. d \in Devices  BY <3>2, <4>1 DEF Messages
      <4>3. table[p] \in Seq(Devices) /\ Append(table[p], d) \in Seq(Devices)
        BY <4>2, AppendFacts DEF DeviceType
      <4>4. /\ table' = [table EXCEPT ![p] = IF Len(@) < MAX_DEVICES THEN Append(@, d) ELSE @]
            /\ listed' = [listed EXCEPT ![p] = @ \cup {d}]
            /\ again' = [again EXCEPT ![p] = @ \/ d \in listed[p]]
        BY <1>7, <3>2 DEF Collect, handle_device
      <4> HIDE DEF d
      <4>5. table' \in [Procs -> Seq(Devices)]  BY <4>3, <4>4 DEF DeviceType
      <4>6. listed' \in [Procs -> SUBSET Devices]  BY <4>2, <4>4 DEF DeviceType
      <4>7. again' \in [Procs -> BOOLEAN]  BY <4>4 DEF DeviceType
      <4> QED  BY <4>5, <4>6, <4>7 DEF DeviceType
    <3> QED  BY <1>7, <3>1, <3>2 DEF Collect, handle_device
  <2> QED  BY <1>7, <2>1, <2>2, <2>3, TypePartsNext DEF Collect, kernel, KernelType
<1>8. ASSUME NEW p \in Procs, CollectEnds(p) \/ SleepEnds(p) PROVE TypeOK'
  <2>1. CourseType' /\ InboxType'
    BY <1>8 DEF CollectEnds, SleepEnds, Goto, CourseType, InboxType, tool
  <2> QED  BY <1>8, <2>1, TypePartsNext DEF CollectEnds, SleepEnds, devices, kernel, DeviceType, KernelType
<1>9. ASSUME NEW p \in Procs, NetlinkRead(p) PROVE TypeOK'
  <2> DEFINE e == Head(inbox[p])
  <2>1. CourseType' /\ InboxType' /\ bss' \in [Procs -> 0 .. MaxBss]
    <3>1. CASE Succeeds(p) /\ UNCHANGED bss  BY <1>9, <3>1, SucceedsTyped DEF NetlinkRead
    <3>2. CASE \E s \in {"ok", "empty", "failed"} : Ends(p, s)
      BY <1>9, <3>2, ExitTyped DEF NetlinkRead, Ends
    <3>3. CASE Skip(p) /\ UNCHANGED <<tries, bss>>
      <4>1. InboxType'  BY <1>9, <3>3, SkipTyped DEF NetlinkRead, Skip
      <4> QED  BY <1>9, <3>3, <4>1 DEF NetlinkRead, Skip, CourseType, tool
    <3>4. CASE e.kind = "bss" /\ bss' = [bss EXCEPT ![p] = @ + 1] /\ Skip(p) /\ UNCHANGED tries
      <4>1. InboxType'  BY <1>9, <3>4, SkipTyped DEF NetlinkRead, Skip
      <4>2. CourseType'  BY <1>9, <3>4 DEF NetlinkRead, Skip, CourseType, tool
      <4>3. e = inbox[p][1] /\ 1 \in 1 .. Len(inbox[p])
        BY <1>9, ClientTypes, TailFacts DEF NetlinkRead
      <4>4. bss[p] + 1 <= MaxBss
        BY <1>9, <3>4, <4>3 DEF NetlinkRead, NetlinkOK
      <4>5. bss' \in [Procs -> 0 .. MaxBss]
        BY <3>4, <4>4, ClientsAssumption
      <4> QED  BY <4>1, <4>2, <4>5
    <3> QED  BY <1>9, <3>1, <3>2, <3>3, <3>4 DEF NetlinkRead
  <2> QED  BY <1>9, <2>1, TypePartsNext DEF NetlinkRead, devices, kernel, DeviceType, KernelType
<1>10. ASSUME NEW p \in Procs, RecvFails(p) PROVE TypeOK'
  <2>1. CourseType' /\ InboxType'  BY <1>10, ExitTyped DEF RecvFails, Ends
  <2> QED  BY <1>10, <2>1, TypePartsNext DEF RecvFails, Ends, devices, kernel, DeviceType, KernelType
<1>11. ASSUME NEW p \in Procs, Expire(p) PROVE TypeOK'
  <2>1. CourseType' /\ InboxType'
    BY <1>11 DEF Expire, CourseType, InboxType, tool
  <2> QED  BY <1>11, <2>1, TypePartsNext DEF Expire, devices, kernel, DeviceType, KernelType
<1>12. ASSUME NEW p \in Procs, MgmtAnswer(p) \/ NetlinkAnswer(p) PROVE TypeOK'
  <2>1. PICK r \in pending[p], ok \in BOOLEAN, k \in {"answer", "family", "done", "error"} :
               Done(p, r, ok) /\ Deliver(p, [kind |-> k, request |-> r, ok |-> ok])
    BY <1>12 DEF MgmtAnswer, NetlinkAnswer
  <2>2. r \in Requests  BY ClientTypes
  <2>3. [kind |-> k, request |-> r, ok |-> ok] \in Messages  BY <2>2 DEF Messages
  <2>4. UNCHANGED <<setting, progress, devices, bss, abandoned>>
    BY <1>12 DEF MgmtAnswer, NetlinkAnswer
  <2>5. InboxType'  BY <2>1, <2>3, <2>4, DeliverTyped
  <2>6. KernelType'  BY <2>1, <2>2, DoneTyped
  <2> QED  BY <2>4, <2>5, <2>6, TypePartsNext DEF progress, devices, CourseType, DeviceType, tool
<1>13. ASSUME NEW p \in Procs, Unrelated(p) \/ DumpEntry(p) PROVE TypeOK'
  <2>1. "GET_SCAN" \in pending[p] => "GET_SCAN" \in Requests  BY ClientTypes
  <2>2. PICK e \in Messages : Deliver(p, e)
    BY <1>13, <2>1 DEF Unrelated, DumpEntry, Messages
  <2>3. UNCHANGED <<setting, progress, devices, bss, kernel, abandoned>>
    BY <1>13 DEF Unrelated, DumpEntry
  <2>4. InboxType'  BY <2>2, <2>3, DeliverTyped
  <2> QED  BY <2>3, <2>4, TypePartsNext DEF progress, devices, kernel, CourseType, DeviceType, KernelType, tool
<1>14. ASSUME NEW d \in Devices, DeviceFound(d) PROVE TypeOK'
  <2> DEFINE e == [kind |-> "device", device |-> d]
  <2>1. e \in Messages  BY DEF Messages
  <2> HIDE DEF e
  <2>2. UNCHANGED <<setting, progress, devices, bss, kernel, abandoned>>
    BY <1>14 DEF DeviceFound
  <2>3. /\ inbox' = [q \in Procs |-> IF Mgmt(q) /\ Open(q) /\ Len(inbox[q]) < setting.room
                                     THEN Append(inbox[q], e) ELSE inbox[q]]
    BY <1>14 DEF DeviceFound, e
  <2>4. ASSUME NEW q \in Procs PROVE inbox'[q] \in Seq(Messages) /\ Len(inbox'[q]) <= setting.room
    <3>1. Append(inbox[q], e) \in Seq(Messages) /\ Len(Append(inbox[q], e)) = Len(inbox[q]) + 1
      BY <2>1, ClientTypes, AppendFacts
    <3>2. inbox[q] \in Seq(Messages) /\ Len(inbox[q]) \in Nat /\ setting.room \in Nat
          /\ Len(inbox[q]) <= setting.room
      BY ClientTypes DEF InboxType
    <3>3. inbox'[q] = inbox[q] \/ (Len(inbox[q]) < setting.room /\ inbox'[q] = Append(inbox[q], e))
      BY <2>3
    <3>4. CASE inbox'[q] = inbox[q]  BY <3>2, <3>4
    <3>5. CASE Len(inbox[q]) < setting.room /\ inbox'[q] = Append(inbox[q], e)
      <4>1. inbox'[q] \in Seq(Messages)  BY <3>1, <3>5
      <4>2. Len(inbox'[q]) = Len(inbox[q]) + 1  BY <3>1, <3>5
      <4> QED  BY <4>1, <4>2, <3>2, <3>5
    <3> QED  BY <3>3, <3>4, <3>5
  <2>5. InboxType'  BY <2>2, <2>3, <2>4 DEF InboxType
  <2> QED  BY <2>2, <2>5, TypePartsNext DEF progress, devices, kernel, CourseType, DeviceType, KernelType, tool
<1>15. CASE DiscoveryEnds
  BY <1>15, TypePartsNext DEF DiscoveryEnds, progress, devices, CourseType, InboxType, DeviceType, KernelType, tool
<1> QED
  BY <1>1, <1>2, <1>3, <1>4, <1>5, <1>6, <1>7, <1>8, <1>9, <1>10, <1>11, <1>12, <1>13, <1>14, <1>15
     DEF Next, Kernel, ClientStep

-----------------------------------------------------------------------------
(* The exchange of a client with the kernel *)

\* A step that leaves a client and its exchange alone.
LEMMA ExchangeKept ==
  ASSUME NEW p \in Procs, Exchange(p), UNCHANGED setting,
         pc'[p] = pc[p], step'[p] = step[p], inbox'[p] = inbox[p], bss'[p] = bss[p],
         pending'[p] = pending[p], granted'[p] = granted[p],
         p \in abandoned => p \in abandoned'
  PROVE  Exchange(p)'
<1>1. tool'[p] = tool[p] /\ Request(p)' = Request(p) /\ (Mgmt(p)' <=> Mgmt(p)) /\ Sent(p)' = Sent(p)
  BY DEF tool, Request, Mgmt, Sent
<1>2. AnswersOK(p)'  BY <1>1 DEF Exchange, AnswersOK
<1>3. EarlierGranted(p)'  BY <1>1 DEF Exchange, EarlierGranted
<1>4. ChannelOK(p)'  BY <1>1 DEF Exchange, ChannelOK
<1>5. NetlinkOK(p)'  BY <1>1 DEF Exchange, NetlinkOK
<1>6. StartAwaited(p)'  BY <1>1 DEF Exchange, StartAwaited
<1> QED  BY <1>2, <1>3, <1>4, <1>5, <1>6 DEF Exchange

\* The client ends, and gives up a START_DISCOVERY that is not answered.
LEMMA ExchangeExit ==
  ASSUME NEW p \in Procs, Exchange(p), UNCHANGED setting,
         pc'[p] = "exited", step'[p] = step[p], inbox'[p] = << >>, bss'[p] = bss[p],
         pending'[p] = pending[p], granted'[p] = granted[p],
         "START_DISCOVERY" \in pending[p] => p \in abandoned'
  PROVE  Exchange(p)'
<1>1. tool'[p] = tool[p] /\ Request(p)' = Request(p) /\ (Mgmt(p)' <=> Mgmt(p))
  BY DEF tool, Request, Mgmt
<1>2. Sent(p) \subseteq Sent(p)'  BY <1>1 DEF Sent
<1>3. Len(inbox'[p]) = 0  OBVIOUS
<1>4. AnswersOK(p)'  BY <1>1, <1>2, <1>3 DEF Exchange, AnswersOK
<1>5. EarlierGranted(p)'  BY <1>1 DEF Exchange, EarlierGranted
<1>6. ChannelOK(p)'  BY <1>1, <1>3 DEF Exchange, ChannelOK
<1>7. NetlinkOK(p)'  BY <1>1, <1>3 DEF Exchange, NetlinkOK
<1>8. StartAwaited(p)'  BY <1>1 DEF Exchange, StartAwaited
<1> QED  BY <1>4, <1>5, <1>6, <1>7, <1>8 DEF Exchange

\* The client goes on to send, from where nothing of it is unanswered.
LEMMA ExchangeMove ==
  ASSUME NEW p \in Procs, Exchange(p), UNCHANGED setting,
         pc[p] \in {"start", "collect", "sleep"}, pc'[p] = "send",
         step'[p] = step[p], inbox'[p] = inbox[p], bss'[p] = bss[p],
         pending'[p] = pending[p], granted'[p] = granted[p], UNCHANGED abandoned
  PROVE  Exchange(p)'
<1>1. tool'[p] = tool[p] /\ Request(p)' = Request(p) /\ (Mgmt(p)' <=> Mgmt(p)) /\ Sent(p)' = Sent(p)
  BY DEF tool, Request, Mgmt, Sent
<1>2. AnswersOK(p)'  BY <1>1 DEF Exchange, AnswersOK
<1>3. EarlierGranted(p)'  BY <1>1 DEF Exchange, EarlierGranted
<1>4. ChannelOK(p)'  BY <1>1 DEF Exchange, ChannelOK
<1>5. NetlinkOK(p)'  BY <1>1 DEF Exchange, NetlinkOK
<1>6. StartAwaited(p)'  BY <1>1 DEF Exchange, StartAwaited
<1> QED  BY <1>2, <1>3, <1>4, <1>5, <1>6 DEF Exchange

\* A request that is sent was never sent before.
LEMMA RequestIsNew ==
  ASSUME TypeOK, NEW p \in Procs, pc[p] = "send"
  PROVE  Request(p) \notin Sent(p)
<1>1. /\ tool[p] \in Tools /\ step[p] \in DOMAIN Script[tool[p]] /\ step[p] \in Nat
  BY ClientTypes
<1>2. \A i, j \in DOMAIN Script[tool[p]] : Script[tool[p]][i] = Script[tool[p]][j] => i = j
  BY <1>1, ScriptShape
<1> QED  BY <1>1, <1>2 DEF Sent, Request

LEMMA ExchangeSend ==
  ASSUME TypeOK, NEW p \in Procs, Exchange(p), UNCHANGED setting,
         pc[p] = "send", pc'[p] = "await", step'[p] = step[p], inbox'[p] = inbox[p],
         bss'[p] = bss[p], pending'[p] = pending[p] \cup {Request(p)},
         granted'[p] = granted[p], UNCHANGED abandoned
  PROVE  Exchange(p)'
<1>1. tool'[p] = tool[p] /\ Request(p)' = Request(p) /\ (Mgmt(p)' <=> Mgmt(p))
  BY DEF tool, Request, Mgmt
<1>2. step[p] \in DOMAIN Script[tool[p]]  BY ClientTypes
<1>3. Sent(p)' = Sent(p) \cup {Request(p)}
  BY <1>1, <1>2 DEF Sent, Request
<1>4. Request(p) \notin Sent(p)  BY RequestIsNew
<1>5. AnswersOK(p)'  BY <1>1, <1>3, <1>4 DEF Exchange, AnswersOK
<1>6. EarlierGranted(p)'  BY <1>1 DEF Exchange, EarlierGranted
<1>7. ChannelOK(p)'  BY <1>1 DEF Exchange, ChannelOK
<1>8. ~Mgmt(p) => inbox[p] = << >> /\ pending[p] = {}
  BY DEF Exchange, NetlinkOK
<1>9. NetlinkOK(p)'  BY <1>1, <1>8 DEF NetlinkOK
<1>10. StartAwaited(p)'  BY <1>1 DEF Exchange, StartAwaited
<1> QED  BY <1>5, <1>6, <1>7, <1>9, <1>10 DEF Exchange

\* The message at the head answers the request the client has come to, as granted.
HeadGrants(p) == /\ inbox[p] # << >> /\ Final(Head(inbox[p]))
                 /\ Request(p) \in granted[p]

LEMMA ExchangeAdvance ==
  ASSUME TypeOK, NEW p \in Procs, Exchange(p), UNCHANGED setting, HeadGrants(p),
         pc[p] = "await", pc'[p] \in {"collect", "sleep", "send"}, step'[p] = step[p] + 1,
         inbox'[p] = Tail(inbox[p]), bss'[p] = bss[p],
         pending'[p] = pending[p], granted'[p] = granted[p], UNCHANGED abandoned
  PROVE  Exchange(p)'
<1>1. tool'[p] = tool[p] /\ (Mgmt(p)' <=> Mgmt(p))
  BY DEF tool, Mgmt
<1>2. /\ step[p] \in 1 .. Len(Script[tool[p]]) /\ Len(Script[tool[p]]) \in Nat
      /\ DOMAIN Script[tool[p]] = 1 .. Len(Script[tool[p]])
  BY ClientTypes
<1>3. \A j \in DOMAIN Script[tool[p]] : j < step[p] + 1 <=> j < step[p] \/ j = step[p]
  BY <1>2
<1>4. Sent(p)' = Sent(p)
  BY <1>1, <1>3 DEF Sent
<1>5. /\ Head(inbox[p]) = inbox[p][1] /\ Len(inbox[p]) \in Nat \ {0}
      /\ Len(inbox'[p]) = Len(inbox[p]) - 1
      /\ \A i \in 1 .. Len(inbox'[p]) : i + 1 \in 1 .. Len(inbox[p]) /\ inbox'[p][i] = inbox[p][i + 1]
  BY ClientTypes, TailFacts DEF HeadGrants
<1>6. AnswersOK(p)'  BY <1>1, <1>4, <1>5 DEF Exchange, AnswersOK
<1>7. EarlierGranted(p)'
  BY <1>1, <1>3 DEF Exchange, EarlierGranted, HeadGrants, Request
<1>8. ChannelOK(p)'  BY <1>1, <1>5 DEF Exchange, ChannelOK
<1>9. NetlinkOK(p)'
  <2> SUFFICES ASSUME ~Mgmt(p) PROVE NetlinkOK(p)'
    BY <1>1 DEF NetlinkOK
  <2>1. Len(inbox[p]) = 1 /\ pending[p] = {}
    <3>1. inbox[p][1].kind # "bss"  BY <1>5 DEF HeadGrants, Final
    <3>2. 1 \in 1 .. Len(inbox[p])  BY <1>5
    <3> QED  BY <3>1, <3>2 DEF Exchange, NetlinkOK
  <2>2. Len(inbox'[p]) = 0 /\ inbox'[p] \in Seq(Messages)
    BY <2>1, <1>5, ClientTypes, TailFacts DEF HeadGrants
  <2>3. inbox'[p] = << >>  BY <2>2, EmptySeq
  <2>4. pending'[p] = {}  BY <2>1
  <2>5. \A i \in 1 .. Len(inbox'[p]) : FALSE
    <3>1. \A i \in 1 .. 0 : FALSE  OBVIOUS
    <3> QED  BY <2>2, <3>1, Zenon
  <2> QED  BY <2>3, <2>4, <2>5 DEF NetlinkOK
<1>10. StartAwaited(p)'
  <2>1. Request(p) \notin pending[p]  BY DEF Exchange, AnswersOK, HeadGrants
  <2> QED  BY <2>1 DEF Exchange, StartAwaited
<1> QED  BY <1>6, <1>7, <1>8, <1>9, <1>10 DEF Exchange

\* A message is thrown away, a network of a dump perhaps counted.
LEMMA ExchangeSkip ==
  ASSUME TypeOK, NEW p \in Procs, Exchange(p), UNCHANGED setting, inbox[p] # << >>,
         pc'[p] = pc[p], step'[p] = step[p], inbox'[p] = Tail(inbox[p]),
         bss'[p] \in {bss[p], bss[p] + 1},
         pending'[p] = pending[p], granted'[p] = granted[p], UNCHANGED abandoned
  PROVE  Exchange(p)'
<1>1. tool'[p] = tool[p] /\ Request(p)' = Request(p) /\ (Mgmt(p)' <=> Mgmt(p)) /\ Sent(p)' = Sent(p)
  BY DEF tool, Request, Mgmt, Sent
<1>2. /\ Len(inbox[p]) \in Nat \ {0}
      /\ Len(inbox'[p]) = Len(inbox[p]) - 1
      /\ \A i \in 1 .. Len(inbox'[p]) : i + 1 \in 1 .. Len(inbox[p]) /\ inbox'[p][i] = inbox[p][i + 1]
  BY ClientTypes, TailFacts
<1>3. AnswersOK(p)'  BY <1>1, <1>2 DEF Exchange, AnswersOK
<1>4. EarlierGranted(p)'  BY <1>1 DEF Exchange, EarlierGranted
<1>5. ChannelOK(p)'  BY <1>1, <1>2 DEF Exchange, ChannelOK
<1>6. NetlinkOK(p)'
  <2> SUFFICES ASSUME ~Mgmt(p) PROVE NetlinkOK(p)'
    BY <1>1 DEF NetlinkOK
  <2>1. pc[p] \notin {"start", "send", "collect", "sleep"}
    BY DEF Exchange, NetlinkOK
  <2>2. bss[p] \in Nat /\ MaxBss \in Nat  BY ClientsAssumption DEF TypeOK
  <2>3. ASSUME NEW i \in 1 .. Len(inbox'[p])
        PROVE  /\ inbox'[p][i].kind # "bss" => i = Len(inbox'[p]) /\ pending[p] = {}
               /\ inbox'[p][i].kind = "bss" => bss'[p] + i <= MaxBss
    BY <1>2, <2>2, <2>3 DEF Exchange, NetlinkOK
  <2> QED  BY <1>1, <1>2, <2>1, <2>3 DEF Exchange, NetlinkOK
<1>7. StartAwaited(p)'  BY <1>1 DEF Exchange, StartAwaited
<1> QED  BY <1>3, <1>4, <1>5, <1>6, <1>7 DEF Exchange

\* A message that is no answer is queued: an event of the management channel, or
\* a network of a dump that is under way.
LEMMA ExchangeEvent ==
  ASSUME TypeOK, NEW p \in Procs, Exchange(p), UNCHANGED setting,
         NEW e \in Messages, inbox'[p] = Append(inbox[p], e), ~Final(e),
         Mgmt(p) => e.kind # "bss",
         ~Mgmt(p) => /\ e.kind = "bss" /\ e.request = "GET_SCAN"
                     /\ "GET_SCAN" \in pending[p] /\ bss[p] + Len(inbox[p]) < MaxBss,
         pc'[p] = pc[p], step'[p] = step[p], bss'[p] = bss[p],
         pending'[p] = pending[p], granted'[p] = granted[p], UNCHANGED abandoned
  PROVE  Exchange(p)'
<1>1. tool'[p] = tool[p] /\ Request(p)' = Request(p) /\ (Mgmt(p)' <=> Mgmt(p)) /\ Sent(p)' = Sent(p)
  BY DEF tool, Request, Mgmt, Sent
<1>2. /\ Len(inbox[p]) \in Nat /\ Len(inbox'[p]) = Len(inbox[p]) + 1
      /\ \A i \in 1 .. Len(inbox[p]) : inbox'[p][i] = inbox[p][i]
      /\ inbox'[p][Len(inbox[p]) + 1] = e
  BY ClientTypes, AppendFacts
<1>3. \A i \in 1 .. Len(inbox'[p]) : /\ i \in 1 .. Len(inbox[p]) \/ i = Len(inbox[p]) + 1
                                     /\ i \in Nat
  BY <1>2
<1>4. e.kind \in {"device", "unrelated", "bss"}
  BY DEF Messages, Final
<1>5. AnswersOK(p)'  BY <1>1, <1>2, <1>3 DEF Exchange, AnswersOK
<1>6. EarlierGranted(p)'  BY <1>1 DEF Exchange, EarlierGranted
<1>7. ChannelOK(p)'  BY <1>1, <1>2, <1>3, <1>4 DEF Exchange, ChannelOK
<1>8. NetlinkOK(p)'
  <2> SUFFICES ASSUME ~Mgmt(p) PROVE NetlinkOK(p)'
    BY <1>1 DEF NetlinkOK
  <2>1. /\ pending[p] = {Request(p)} /\ Request(p) = "GET_SCAN"
        /\ pc[p] \notin {"start", "send", "collect", "sleep"}
    BY DEF Exchange, NetlinkOK
  <2>2. bss[p] \in Nat /\ MaxBss \in Nat  BY ClientsAssumption DEF TypeOK
  <2>3. bss[p] + (Len(inbox[p]) + 1) <= MaxBss  BY <1>2, <2>2
  <2>4. \A i \in 1 .. Len(inbox[p]) : inbox[p][i].kind = "bss" /\ bss[p] + i <= MaxBss
                                      /\ inbox[p][i].request = Request(p)
    BY <2>1 DEF Exchange, NetlinkOK
  <2>5. \A i \in 1 .. Len(inbox'[p]) : inbox'[p][i].kind = "bss" /\ bss[p] + i <= MaxBss
                                      /\ inbox'[p][i].request = Request(p)
    BY <1>2, <1>3, <2>1, <2>3, <2>4
  <2> QED  BY <1>1, <2>1, <2>5 DEF NetlinkOK
<1>9. StartAwaited(p)'  BY <1>1 DEF Exchange, StartAwaited
<1> QED  BY <1>5, <1>6, <1>7, <1>8, <1>9 DEF Exchange

\* A request is answered, and the answer queued or lost.
LEMMA ExchangeAnswer ==
  ASSUME TypeOK, NEW p \in Procs, Exchange(p), UNCHANGED setting,
         NEW r \in pending[p], NEW ok \in BOOLEAN, NEW k \in {"answer", "family", "done", "error"},
         \/ inbox'[p] = Append(inbox[p], [kind |-> k, request |-> r, ok |-> ok])
         \/ Mgmt(p) /\ inbox'[p] = inbox[p],
         Mgmt(p) => k = "answer",
         ~Mgmt(p) => /\ k # "answer"
                     /\ k = "family" => ok /\ r = "GETFAMILY"
                     /\ k = "done" => ok /\ r = "GET_SCAN"
                     /\ k = "error" /\ ok => r # "GET_SCAN",
         pc'[p] = pc[p], step'[p] = step[p], bss'[p] = bss[p],
         pending'[p] = pending[p] \ {r},
         granted'[p] = IF ok THEN granted[p] \cup {r} ELSE granted[p], UNCHANGED abandoned
  PROVE  Exchange(p)'
<1>1. tool'[p] = tool[p] /\ Request(p)' = Request(p) /\ (Mgmt(p)' <=> Mgmt(p)) /\ Sent(p)' = Sent(p)
  BY DEF tool, Request, Mgmt, Sent
<1> DEFINE e == [kind |-> k, request |-> r, ok |-> ok]
<1>2. e \in Messages /\ e.kind = k /\ e.request = r /\ e.ok = ok
  <2>1. r \in Requests  BY ClientTypes
  <2> QED  BY <2>1 DEF Messages
<1>3. inbox'[p] = Append(inbox[p], e) \/ (Mgmt(p) /\ inbox'[p] = inbox[p])  OBVIOUS
<1> HIDE DEF e
<1>4. Len(inbox[p]) \in Nat  BY ClientTypes
<1>5. /\ Len(Append(inbox[p], e)) = Len(inbox[p]) + 1
      /\ \A i \in 1 .. Len(inbox[p]) : Append(inbox[p], e)[i] = inbox[p][i]
      /\ Append(inbox[p], e)[Len(inbox[p]) + 1] = e
  BY <1>2, ClientTypes, AppendFacts
<1>6. /\ ~Mgmt(p) => Len(inbox'[p]) = Len(inbox[p]) + 1
      /\ Len(inbox'[p]) \in {Len(inbox[p]), Len(inbox[p]) + 1}
      /\ \A i \in 1 .. Len(inbox'[p]) :
            \/ i \in 1 .. Len(inbox[p]) /\ inbox'[p][i] = inbox[p][i]
            \/ i = Len(inbox[p]) + 1 /\ inbox'[p][i] = e
  <2>1. CASE inbox'[p] = Append(inbox[p], e)  BY <1>4, <1>5, <2>1
  <2>2. CASE Mgmt(p) /\ inbox'[p] = inbox[p]  BY <1>4, <2>2
  <2> QED  BY <1>3, <2>1, <2>2
<1>7. AnswersOK(p)'
  <2>1. r \in Sent(p) /\ r \notin granted[p]  BY DEF Exchange, AnswersOK
  <2>2. pending'[p] \subseteq Sent(p)' /\ granted'[p] \subseteq Sent(p)' \ pending'[p]
    BY <1>1, <2>1 DEF Exchange, AnswersOK
  <2>3. ASSUME NEW i \in 1 .. Len(inbox'[p]), Final(inbox'[p][i])
        PROVE  /\ inbox'[p][i].request \in Sent(p)' \ pending'[p]
               /\ inbox'[p][i].ok <=> inbox'[p][i].request \in granted'[p]
    <3>1. CASE i \in 1 .. Len(inbox[p]) /\ inbox'[p][i] = inbox[p][i]
      <4>1. /\ inbox[p][i].request \in Sent(p) \ pending[p]
            /\ inbox[p][i].ok <=> inbox[p][i].request \in granted[p]
        BY <2>3, <3>1 DEF Exchange, AnswersOK
      <4> QED  BY <1>1, <3>1, <4>1
    <3>2. CASE inbox'[p][i] = e  BY <1>1, <1>2, <2>1, <3>2
    <3> QED  BY <1>6, <2>3, <3>1, <3>2
  <2> QED  BY <2>2, <2>3 DEF AnswersOK, Final
<1>8. EarlierGranted(p)'  BY <1>1 DEF Exchange, EarlierGranted
<1>9. ChannelOK(p)'  BY <1>1, <1>2, <1>6 DEF Exchange, ChannelOK
<1>10. NetlinkOK(p)'
  <2> SUFFICES ASSUME ~Mgmt(p) PROVE NetlinkOK(p)'
    BY <1>1 DEF NetlinkOK
  <2>1. /\ pending[p] = {Request(p)} /\ Request(p) = r /\ pending'[p] = {}
        /\ pc[p] \notin {"start", "send", "collect", "sleep"}
    BY DEF Exchange, NetlinkOK
  <2>2. \A i \in 1 .. Len(inbox[p]) : inbox[p][i].kind = "bss" /\ bss[p] + i <= MaxBss
                                      /\ inbox[p][i].request = Request(p)
    BY <2>1 DEF Exchange, NetlinkOK
  <2>3. \A i \in 1 .. Len(inbox'[p]) :
           \/ inbox'[p][i].kind = "bss" /\ bss[p] + i <= MaxBss /\ inbox'[p][i].request = Request(p)
           \/ i = Len(inbox'[p]) /\ inbox'[p][i] = e
    BY <1>6, <2>2
  <2>4. k \in {"family", "done", "error"}  OBVIOUS
  <2> QED  BY <1>1, <1>2, <2>1, <2>3, <2>4 DEF NetlinkOK
<1>11. StartAwaited(p)'  BY <1>1 DEF Exchange, StartAwaited
<1> QED  BY <1>7, <1>8, <1>9, <1>10, <1>11 DEF Exchange

\* What a management client takes as its answer tells it what the kernel did.
LEMMA MgmtHead ==
  ASSUME TypeOK, NEW p \in Procs, Exchange(p), inbox[p] # << >>, IsAnswer(p, Head(inbox[p]))
  PROVE  /\ ~Refused(Head(inbox[p])) => HeadGrants(p)
         /\ Refused(Head(inbox[p])) => Request(p) \notin granted[p]
         /\ Request(p) \notin pending[p]
<1>1. Head(inbox[p]) = inbox[p][1] /\ 1 \in 1 .. Len(inbox[p])
  BY ClientTypes, TailFacts
<1>2. Final(inbox[p][1])  BY <1>1 DEF IsAnswer, Final
<1>3. /\ inbox[p][1].request \in Sent(p) \ pending[p]
      /\ inbox[p][1].ok <=> inbox[p][1].request \in granted[p]
  BY <1>1, <1>2 DEF Exchange, AnswersOK
<1> QED  BY <1>1, <1>2, <1>3 DEF IsAnswer, Refused, HeadGrants

\* A netlink client looks at no request code, and what it takes as a success is
\* that of its request, although an older answer would look the same.
LEMMA NetlinkHead ==
  ASSUME TypeOK, NEW p \in Procs, Exchange(p), ~Mgmt(p), inbox[p] # << >>,
         Head(inbox[p]).kind # "bss"
  PROVE  /\ Head(inbox[p]).ok => HeadGrants(p)
         /\ Head(inbox[p]).kind = "family" => Head(inbox[p]).ok
         /\ Head(inbox[p]).kind \in {"family", "error"} /\ Head(inbox[p]).ok => Request(p) # "GET_SCAN"
         /\ Head(inbox[p]).kind = "done" => Head(inbox[p]).ok /\ Request(p) = "GET_SCAN"
<1>1. Head(inbox[p]) = inbox[p][1] /\ 1 \in 1 .. Len(inbox[p])
  BY ClientTypes, TailFacts
<1>2. Final(inbox[p][1])  BY <1>1 DEF Exchange, NetlinkOK, Final
<1>3. inbox[p][1].ok <=> inbox[p][1].request \in granted[p]
  BY <1>1, <1>2 DEF Exchange, AnswersOK
<1>4. inbox[p][1].request = Request(p)  BY <1>1 DEF Exchange, NetlinkOK
<1>5. Head(inbox[p]).ok => HeadGrants(p)  BY <1>1, <1>2, <1>3, <1>4 DEF HeadGrants
<1> QED  BY <1>1, <1>5 DEF Exchange, NetlinkOK

LEMMA ExchangeSucceeds ==
  ASSUME TypeOK, NEW p \in Procs, Exchange(p), HeadGrants(p), pc[p] = "await", Succeeds(p),
         UNCHANGED <<setting, bss, kernel, abandoned>>
  PROVE  Exchange(p)'
<1>1. CASE step[p] = Len(Script[tool[p]]) /\ Exit(p, "ok") /\ UNCHANGED <<step, tries, expired>>
  <2>1. pc'[p] = "exited" /\ inbox'[p] = << >>  BY <1>1 DEF Exit, Goto, TypeOK
  <2>2. "START_DISCOVERY" \in pending[p] => p \in abandoned'
    BY DEF Exchange, StartAwaited, AnswersOK, HeadGrants
  <2> QED  BY <1>1, <2>1, <2>2, ExchangeExit DEF kernel
<1>2. CASE /\ step' = [step EXCEPT ![p] = @ + 1]
           /\ inbox' = [inbox EXCEPT ![p] = Tail(@)]
           /\ \E w \in {"collect", "sleep", "send"} : Goto(p, w)
  <2>1. /\ pc'[p] \in {"collect", "sleep", "send"} /\ step'[p] = step[p] + 1
        /\ inbox'[p] = Tail(inbox[p])
    BY <1>2 DEF Goto, TypeOK
  <2> QED  BY <2>1, ExchangeAdvance DEF kernel
<1> QED  BY <1>1, <1>2 DEF Succeeds

\* The current request failed, and a START_DISCOVERY that has no answer is given up.
LEMMA ExchangeFails ==
  ASSUME TypeOK, NEW p \in Procs, Exchange(p), Fails(p),
         UNCHANGED <<setting, bss, kernel>>,
         \/ Abandon(p, {"START_DISCOVERY", "STOP_DISCOVERY"})
         \/ abandoned \subseteq abandoned' /\ (Request(p) \notin pending[p] \/ pc[p] = "send")
  PROVE  Exchange(p)'
<1>1. /\ pc'[p] = "exited" /\ inbox'[p] = << >> /\ step'[p] = step[p]
  BY DEF Fails, Exit, Goto, TypeOK
<1>2. "START_DISCOVERY" \in pending[p] => p \in abandoned'
  BY DEF Exchange, StartAwaited, Abandon
<1> QED  BY <1>1, <1>2, ExchangeExit DEF kernel

\* A step of p's program leaves the other clients' course and sockets alone.
OthersKept(p) == \A q \in Procs \ {p} :
  /\ pc'[q] = pc[q] /\ step'[q] = step[q] /\ inbox'[q] = inbox[q] /\ bss'[q] = bss[q]
  /\ pending'[q] = pending[q] /\ granted'[q] = granted[q]
  /\ q \in abandoned => q \in abandoned'

LEMMA StepOfOne ==
  ASSUME TypeOK, NEW p \in Procs,
         ClientStep(p) \/ Expire(p) \/ RecvFails(p) \/ MgmtAnswer(p) \/ Unrelated(p)
           \/ NetlinkAnswer(p) \/ DumpEntry(p)
  PROVE  OthersKept(p) /\ UNCHANGED setting
<1> USE DEF OthersKept, TypeOK
<1>1. CASE Begin(p)  BY <1>1 DEF Begin, Exit, Goto, kernel
<1>2. CASE Send(p) \/ NetlinkSend(p)
  BY <1>2 DEF Send, NetlinkSend, Written, Fails, Abandon, Exit, Goto
<1>3. CASE MgmtRead(p)  BY <1>3 DEF MgmtRead, Succeeds, Fails, Abandon, Skip, Exit, Goto, kernel
<1>4. CASE PollTimeout(p)  BY <1>4 DEF PollTimeout, kernel
<1>5. CASE GiveUp(p)  BY <1>5 DEF GiveUp, Fails, Abandon, Exit, Goto, kernel
<1>6. CASE Collect(p)  BY <1>6 DEF Collect, Skip, kernel
<1>7. CASE CollectEnds(p)  BY <1>7 DEF CollectEnds, Goto, kernel
<1>8. CASE NetlinkRead(p)  BY <1>8 DEF NetlinkRead, Succeeds, Ends, Skip, Exit, Goto, kernel
<1>9. CASE SleepEnds(p)  BY <1>9 DEF SleepEnds, Goto, kernel
<1>10. CASE Expire(p)  BY <1>10 DEF Expire, kernel
<1>11. CASE RecvFails(p)  BY <1>11 DEF RecvFails, Ends, Exit, Goto, kernel
<1>12. CASE MgmtAnswer(p)  BY <1>12 DEF MgmtAnswer, Done, Deliver, progress
<1>13. CASE Unrelated(p)  BY <1>13 DEF Unrelated, Deliver, progress, kernel
<1>14. CASE NetlinkAnswer(p)  BY <1>14 DEF NetlinkAnswer, Done, Deliver, progress
<1>15. CASE DumpEntry(p)  BY <1>15 DEF DumpEntry, Deliver, progress, kernel
<1> QED
  BY <1>1, <1>2, <1>3, <1>4, <1>5, <1>6, <1>7, <1>8, <1>9, <1>10, <1>11, <1>12, <1>13, <1>14, <1>15
     DEF ClientStep

LEMMA ExchangeStep ==
  ASSUME TypeOK, \A p \in Procs : Exchange(p), [Next]_vars
  PROVE  \A p \in Procs : Exchange(p)'
<1>1. CASE UNCHANGED vars  BY <1>1, ExchangeKept DEF vars
<1>2. ASSUME NEW p \in Procs,
             ClientStep(p) \/ Expire(p) \/ RecvFails(p) \/ MgmtAnswer(p) \/ Unrelated(p)
               \/ NetlinkAnswer(p) \/ DumpEntry(p)
      PROVE  \A q \in Procs : Exchange(q)'
  <2>1. \A q \in Procs \ {p} : Exchange(q)'
    BY <1>2, StepOfOne, ExchangeKept DEF OthersKept
  <2> SUFFICES Exchange(p)'
    BY <2>1
  <2>2. UNCHANGED setting /\ Exchange(p)  BY <1>2, StepOfOne
  <2>3. CASE Begin(p)
    <3>1. CASE Goto(p, "send") /\ UNCHANGED <<inbox, result>>
      <4>1. pc[p] = "start" /\ pc'[p] = "send"  BY <2>3, <3>1 DEF Begin, Goto, TypeOK
      <4> QED  BY <2>2, <2>3, <3>1, <4>1, ExchangeMove DEF Begin, kernel
    <3>2. CASE Exit(p, "failed")
      <4>1. pc[p] = "start" /\ pc'[p] = "exited" /\ inbox'[p] = << >>
        BY <2>3, <3>2 DEF Begin, Exit, Goto, TypeOK
      <4>2. "START_DISCOVERY" \in pending[p] => p \in abandoned'
        BY <2>2, <2>3, <4>1 DEF Begin, Exchange, StartAwaited
      <4> QED  BY <2>2, <2>3, <4>1, <4>2, ExchangeExit DEF Begin, kernel
    <3> QED  BY <2>3, <3>1, <3>2 DEF Begin
  <2>4. CASE Send(p) \/ NetlinkSend(p)
    <3>1. CASE Written(p)
      <4>1. pc[p] = "send" /\ pc'[p] = "await" /\ pending'[p] = pending[p] \cup {Request(p)}
        BY <2>4, <3>1 DEF Send, NetlinkSend, Written, Goto, TypeOK
      <4> QED  BY <2>2, <2>4, <3>1, <4>1, ExchangeSend DEF Send, NetlinkSend, Written
    <3>2. CASE Fails(p) /\ abandoned \subseteq abandoned' /\ UNCHANGED pending
      BY <2>2, <2>4, <3>2, ExchangeFails DEF Send, NetlinkSend, kernel
    <3> QED  BY <2>4, <3>1, <3>2 DEF Send, NetlinkSend, Abandon
  <2>5. CASE MgmtRead(p)
    <3>1. CASE IsAnswer(p, Head(inbox[p])) /\ ~Refused(Head(inbox[p])) /\ Succeeds(p) /\ UNCHANGED abandoned
      BY <2>2, <2>5, <3>1, MgmtHead, ExchangeSucceeds DEF MgmtRead
    <3>2. CASE IsAnswer(p, Head(inbox[p])) /\ Fails(p) /\ abandoned \subseteq abandoned'
      BY <2>2, <2>5, <3>2, MgmtHead, ExchangeFails DEF MgmtRead
    <3>3. CASE Skip(p) /\ UNCHANGED abandoned
      <4>1. inbox'[p] = Tail(inbox[p])  BY <3>3 DEF Skip, TypeOK
      <4> QED  BY <2>2, <2>5, <3>3, <4>1, ExchangeSkip DEF MgmtRead, Skip, kernel
    <3> QED  BY <2>5, <3>1, <3>2, <3>3 DEF MgmtRead, Abandon
  <2>6. CASE PollTimeout(p) \/ Expire(p)
    BY <2>2, <2>6, ExchangeKept DEF PollTimeout, Expire, kernel
  <2>7. CASE GiveUp(p)
    BY <2>2, <2>7, ExchangeFails DEF GiveUp
  <2>8. CASE Collect(p)
    <3>1. inbox'[p] = Tail(inbox[p])  BY <2>8 DEF Collect, Skip, TypeOK
    <3> QED  BY <2>2, <2>8, <3>1, ExchangeSkip DEF Collect, Skip, kernel
  <2>9. CASE CollectEnds(p) \/ SleepEnds(p)
    <3>1. pc[p] \in {"collect", "sleep"} /\ pc'[p] = "send"
      BY <2>9 DEF CollectEnds, SleepEnds, Goto, TypeOK
    <3> QED  BY <2>2, <2>9, <3>1, ExchangeMove DEF CollectEnds, SleepEnds, kernel
  <2>10. CASE NetlinkRead(p)
    <3> DEFINE e == Head(inbox[p])
    <3>1. CASE (e.kind = "family" \/ (e.kind = "error" /\ e.ok)) /\ Succeeds(p) /\ UNCHANGED bss
      <4>1. HeadGrants(p)  BY <2>2, <2>10, <3>1, NetlinkHead DEF NetlinkRead
      <4> QED  BY <2>2, <2>10, <3>1, <4>1, ExchangeSucceeds DEF NetlinkRead
    <3>2. CASE \E s \in {"ok", "empty", "failed"} : Ends(p, s)
      <4>1. pc'[p] = "exited" /\ inbox'[p] = << >>
        BY <3>2 DEF Ends, Exit, Goto, TypeOK
      <4>2. "START_DISCOVERY" \in pending[p] => p \in abandoned'
        <5>1. ~Mgmt(p) /\ UNCHANGED abandoned  BY <2>10 DEF NetlinkRead
        <5>2. Request(p) # "START_DISCOVERY"
          BY <5>1, ClientTypes, ScriptPlaces DEF Mgmt, NetlinkTools, Request
        <5> QED  BY <2>2, <5>1, <5>2 DEF Exchange, StartAwaited
      <4> QED  BY <2>2, <2>10, <3>2, <4>1, <4>2, ExchangeExit DEF NetlinkRead, Ends, kernel
    <3>3. CASE Skip(p) /\ (UNCHANGED bss \/ bss' = [bss EXCEPT ![p] = @ + 1])
      <4>1. inbox'[p] = Tail(inbox[p]) /\ bss'[p] \in {bss[p], bss[p] + 1}
        BY <3>3 DEF Skip, TypeOK
      <4> QED  BY <2>2, <2>10, <3>3, <4>1, ExchangeSkip DEF NetlinkRead, Skip, kernel
    <3> QED  BY <2>10, <3>1, <3>2, <3>3 DEF NetlinkRead
  <2>11. CASE RecvFails(p)
    <3>1. pc'[p] = "exited" /\ inbox'[p] = << >>
      BY <2>11 DEF RecvFails, Ends, Exit, Goto, TypeOK
    <3>2. "START_DISCOVERY" \in pending[p] => p \in abandoned'
      <4>1. ~Mgmt(p) /\ UNCHANGED abandoned  BY <2>11 DEF RecvFails
      <4>2. Request(p) # "START_DISCOVERY"
        BY <4>1, ClientTypes, ScriptPlaces DEF Mgmt, NetlinkTools, Request
      <4> QED  BY <2>2, <4>1, <4>2 DEF Exchange, StartAwaited
    <3> QED  BY <2>2, <2>11, <3>1, <3>2, ExchangeExit DEF RecvFails, Ends, kernel
  <2>12. CASE MgmtAnswer(p)
    <3>1. PICK r \in pending[p], ok \in BOOLEAN :
                 Done(p, r, ok) /\ Deliver(p, [kind |-> "answer", request |-> r, ok |-> ok])
      BY <2>12 DEF MgmtAnswer
    <3>2. /\ pending'[p] = pending[p] \ {r}
          /\ granted'[p] = IF ok THEN granted[p] \cup {r} ELSE granted[p]
      BY <3>1 DEF Done, TypeOK
    <3>3. \/ inbox'[p] = Append(inbox[p], [kind |-> "answer", request |-> r, ok |-> ok])
          \/ inbox'[p] = inbox[p]
      BY <3>1 DEF Deliver, TypeOK
    <3> QED  BY <2>2, <2>12, <3>2, <3>3, ExchangeAnswer DEF MgmtAnswer, progress
  <2>13. CASE NetlinkAnswer(p)
    <3>1. PICK r \in pending[p], ok \in BOOLEAN, k \in {"family", "done", "error"} :
                 /\ Done(p, r, ok) /\ Deliver(p, [kind |-> k, request |-> r, ok |-> ok])
                 /\ k = "family" => ok /\ r = "GETFAMILY"
                 /\ k = "done" => ok /\ r = "GET_SCAN"
                 /\ k = "error" /\ ok => r # "GET_SCAN"
      BY <2>13 DEF NetlinkAnswer
    <3>2. /\ pending'[p] = pending[p] \ {r}
          /\ granted'[p] = IF ok THEN granted[p] \cup {r} ELSE granted[p]
      BY <3>1 DEF Done, TypeOK
    <3>3. inbox'[p] = Append(inbox[p], [kind |-> k, request |-> r, ok |-> ok])
      BY <2>13, <3>1 DEF NetlinkAnswer, Deliver, TypeOK
    <3>4. /\ UNCHANGED abandoned /\ ~Mgmt(p) /\ k # "answer"
          /\ pc'[p] = pc[p] /\ step'[p] = step[p] /\ bss'[p] = bss[p]
      BY <2>13 DEF NetlinkAnswer, progress
    <3> QED  BY <2>2, <3>1, <3>2, <3>3, <3>4, ExchangeAnswer
  <2>14. CASE Unrelated(p)
    <3> DEFINE e == [kind |-> "unrelated"]
    <3>1. e \in Messages /\ ~Final(e) /\ e.kind # "bss"  BY DEF Messages, Final
    <3>2. inbox'[p] = Append(inbox[p], e) /\ Mgmt(p)
      BY <2>14 DEF Unrelated, Deliver, TypeOK
    <3> HIDE DEF e
    <3> QED  BY <2>2, <2>14, <3>1, <3>2, ExchangeEvent DEF Unrelated, progress, kernel
  <2>15. CASE DumpEntry(p)
    <3> DEFINE e == [kind |-> "bss", request |-> "GET_SCAN", ok |-> TRUE]
    <3>1. "GET_SCAN" \in pending[p] /\ bss[p] + Len(inbox[p]) < MaxBss
      BY <2>15 DEF DumpEntry
    <3>2. e \in Messages /\ ~Final(e) /\ e.kind = "bss" /\ e.request = "GET_SCAN"
      <4>1. "GET_SCAN" \in Requests  BY <3>1, ClientTypes
      <4> QED  BY <4>1 DEF Messages, Final
    <3>3. inbox'[p] = Append(inbox[p], e)
      BY <2>15 DEF DumpEntry, Deliver, TypeOK
    <3>4. ~Mgmt(p)
      <4>1. "GET_SCAN" \in Sent(p)  BY <2>2, <3>1 DEF Exchange, AnswersOK
      <4>2. PICK i \in DOMAIN Script[tool[p]] : Script[tool[p]][i] = "GET_SCAN"
        BY <4>1 DEF Sent
      <4> QED  BY <4>2, ClientTypes, ScriptPlaces DEF Mgmt, NetlinkTools
    <3> HIDE DEF e
    <3> QED  BY <2>2, <2>15, <3>1, <3>2, <3>3, <3>4, ExchangeEvent DEF DumpEntry, progress, kernel
  <2> QED
    BY <1>2, <2>3, <2>4, <2>5, <2>6, <2>7, <2>8, <2>9, <2>10, <2>11, <2>12, <2>13, <2>14, <2>15
       DEF ClientStep
<1>3. ASSUME NEW d \in Devices, DeviceFound(d), NEW p \in Procs PROVE Exchange(p)'
  <2> DEFINE e == [kind |-> "device", device |-> d]
  <2>1. e \in Messages /\ ~Final(e) /\ e.kind # "bss"  BY DEF Messages, Final
  <2>2. inbox'[p] = inbox[p] \/ (Mgmt(p) /\ inbox'[p] = Append(inbox[p], e))
    BY <1>3 DEF DeviceFound
  <2>3. /\ UNCHANGED <<setting, abandoned>> /\ pc'[p] = pc[p] /\ step'[p] = step[p] /\ bss'[p] = bss[p]
        /\ pending'[p] = pending[p] /\ granted'[p] = granted[p]
    BY <1>3 DEF DeviceFound, progress, kernel
  <2> HIDE DEF e
  <2>4. CASE inbox'[p] = inbox[p]  BY <2>3, <2>4, ExchangeKept
  <2>5. CASE Mgmt(p) /\ inbox'[p] = Append(inbox[p], e)  BY <2>1, <2>3, <2>5, ExchangeEvent
  <2> QED  BY <2>2, <2>4, <2>5
<1>4. CASE DiscoveryEnds
  BY <1>4, ExchangeKept DEF DiscoveryEnds, progress
<1> QED  BY <1>1, <1>2, <1>3, <1>4 DEF Next, Kernel

-----------------------------------------------------------------------------
(* What a tool reports *)

Outcome(p) == result[p] = "ok" => /\ Promised[tool[p]] \subseteq granted[p]
                                  /\ tool[p] = "wifi_scan" => bss[p] > 0

\* A tool has what it promises once its last request is granted; ble_scan has it
\* when it has come to STOP_DISCOVERY.
LEMMA PromiseKept ==
  ASSUME TypeOK, NEW p \in Procs, EarlierGranted(p),
         Request(p) = "STOP_DISCOVERY" \/ (step[p] = Len(Script[tool[p]]) /\ Request(p) \in granted[p])
  PROVE  Promised[tool[p]] \subseteq granted[p]
<1> SUFFICES ASSUME NEW i \in DOMAIN Script[tool[p]], Script[tool[p]][i] # "STOP_DISCOVERY"
             PROVE  Script[tool[p]][i] \in granted[p]
  BY ClientTypes, PromisedFacts
<1>1. /\ step[p] \in 1 .. Len(Script[tool[p]]) /\ Len(Script[tool[p]]) \in 1 .. 3
      /\ DOMAIN Script[tool[p]] = 1 .. Len(Script[tool[p]]) /\ tool[p] \in Tools
  BY ClientTypes
<1>2. Request(p) = "STOP_DISCOVERY" => step[p] = 3
  BY <1>1, ScriptPlaces DEF Request
<1>3. step[p] = Len(Script[tool[p]])
  <2>1. CASE Request(p) = "STOP_DISCOVERY"
    <3> DEFINE n == Len(Script[tool[p]])
    <3>1. step[p] = 3 /\ step[p] \in 1 .. n /\ n \in 1 .. 3  BY <1>1, <1>2, <2>1
    <3> HIDE DEF n
    <3>2. step[p] = n  BY <3>1
    <3> QED  BY <3>2 DEF n
  <2> QED  BY <2>1
<1>4. i < step[p] \/ i = step[p]  BY <1>1, <1>3
<1>5. CASE i < step[p]  BY <1>5 DEF EarlierGranted
<1>6. CASE i = step[p]  BY <1>6 DEF Request
<1> QED  BY <1>4, <1>5, <1>6

LEMMA OutcomeKept ==
  ASSUME TypeOK, NEW p \in Procs, Outcome(p), UNCHANGED setting, result'[p] = result[p],
         granted[p] \subseteq granted'[p], bss'[p] \in {bss[p], bss[p] + 1}
  PROVE  Outcome(p)'
<1>1. tool'[p] = tool[p]  BY DEF tool
<1>2. bss[p] \in Nat  BY ClientsAssumption DEF TypeOK
<1>3. bss[p] > 0 => bss'[p] > 0  BY <1>2
<1> QED  BY <1>1, <1>3 DEF Outcome

LEMMA OutcomeSucceeds ==
  ASSUME TypeOK, NEW p \in Procs, Exchange(p), Outcome(p), HeadGrants(p), Succeeds(p),
         Mgmt(p) \/ Request(p) # "GET_SCAN", UNCHANGED <<setting, bss, kernel>>
  PROVE  Outcome(p)'
<1>1. tool'[p] = tool[p] /\ granted'[p] = granted[p]  BY DEF tool, kernel
<1>2. CASE step[p] = Len(Script[tool[p]])
  <2>1. Promised[tool[p]] \subseteq granted[p]
    BY <1>2, PromiseKept DEF Exchange, HeadGrants
  <2>2. tool[p] # "wifi_scan"
    <3>1. SUFFICES ASSUME tool[p] = "wifi_scan" PROVE FALSE  OBVIOUS
    <3>2. step[p] = 3 /\ step[p] \in DOMAIN Script[tool[p]]
      BY <1>2, <3>1, ScriptFacts, ClientTypes
    <3>3. Request(p) = "GET_SCAN"  BY <3>1, <3>2, ScriptFacts DEF Request
    <3> QED  BY <3>1, <3>3 DEF Mgmt, NetlinkTools
  <2> QED  BY <1>1, <2>1, <2>2 DEF Outcome
<1>3. CASE UNCHANGED result
  BY <1>3, OutcomeKept DEF kernel
<1> QED  BY <1>2, <1>3 DEF Succeeds

LEMMA OutcomeFails ==
  ASSUME TypeOK, NEW p \in Procs, Exchange(p), Outcome(p), Fails(p), UNCHANGED <<setting, bss>>,
         granted'[p] = granted[p]
  PROVE  Outcome(p)'
<1>1. tool'[p] = tool[p]  BY DEF tool
<1>2. CASE Request(p) = "STOP_DISCOVERY"
  <2>1. Promised[tool[p]] \subseteq granted[p]  BY <1>2, PromiseKept DEF Exchange
  <2>2. tool[p] # "wifi_scan"
    BY <1>2, ClientTypes, ScriptPlaces DEF Request
  <2> QED  BY <1>1, <2>1, <2>2 DEF Outcome
<1>3. CASE Request(p) # "STOP_DISCOVERY"
  <2>1. result'[p] = "failed"  BY <1>3 DEF Fails, Exit, TypeOK
  <2> QED  BY <2>1 DEF Outcome
<1> QED  BY <1>2, <1>3

LEMMA OutcomeStep ==
  ASSUME TypeOK, \A p \in Procs : Exchange(p), \A p \in Procs : Outcome(p), [Next]_vars
  PROVE  \A p \in Procs : Outcome(p)'
<1>1. CASE UNCHANGED vars
  BY <1>1, OutcomeKept DEF vars
<1>2. CASE DiscoveryEnds \/ \E d \in Devices : DeviceFound(d)
  BY <1>2, OutcomeKept DEF DiscoveryEnds, DeviceFound, progress, kernel
<1>3. ASSUME NEW p \in Procs, MgmtAnswer(p) \/ NetlinkAnswer(p) \/ Unrelated(p) \/ DumpEntry(p)
      PROVE  \A q \in Procs : Outcome(q)'
  <2>1. UNCHANGED <<setting, progress, bss>>
    BY <1>3 DEF MgmtAnswer, NetlinkAnswer, Unrelated, DumpEntry
  <2>2. \A q \in Procs : granted[q] \subseteq granted'[q]
    <3>1. \/ UNCHANGED granted
          \/ \E r \in pending[p] : granted' = [granted EXCEPT ![p] = @ \cup {r}]
      BY <1>3 DEF MgmtAnswer, NetlinkAnswer, Unrelated, DumpEntry, Done, kernel
    <3> QED  BY <3>1 DEF TypeOK
  <2> QED  BY <2>1, <2>2, OutcomeKept DEF progress
<1>4. ASSUME NEW p \in Procs, ClientStep(p) \/ Expire(p) \/ RecvFails(p)
      PROVE  \A q \in Procs : Outcome(q)'
  <2>1. UNCHANGED <<setting, granted>>
    BY <1>4 DEF ClientStep, Expire, RecvFails, Begin, Send, NetlinkSend, Written,
          MgmtRead, PollTimeout, GiveUp, Collect,
                CollectEnds, NetlinkRead, SleepEnds, kernel
  <2>2. \A q \in Procs \ {p} : result'[q] = result[q] /\ bss'[q] = bss[q]
    <3>1. \A q \in Procs \ {p} : bss'[q] = bss[q]  BY <1>4, StepOfOne DEF OthersKept
    <3>2. result' = result \/ \E s \in {"ok", "empty", "failed"} : Exit(p, s)
      BY <1>4 DEF ClientStep, Expire, RecvFails, Begin, Send, NetlinkSend, Written,
            MgmtRead, PollTimeout, GiveUp, Collect,
                CollectEnds, NetlinkRead, SleepEnds, Succeeds, Fails, Skip, Ends
    <3> QED  BY <3>1, <3>2 DEF Exit, TypeOK
  <2> SUFFICES Outcome(p)'
    BY <2>1, <2>2, OutcomeKept
  <2>3. CASE Begin(p)
    <3>1. CASE UNCHANGED result  BY <2>1, <2>3, <3>1, OutcomeKept DEF Begin
    <3>2. CASE Exit(p, "failed")
      <4>1. result'[p] = "failed"  BY <3>2 DEF Exit, TypeOK
      <4> QED  BY <4>1 DEF Outcome
    <3> QED  BY <2>3, <3>1, <3>2 DEF Begin
  <2>4. CASE Send(p) \/ NetlinkSend(p)
    <3>1. CASE UNCHANGED result  BY <2>1, <2>4, <3>1, OutcomeKept DEF Send, NetlinkSend
    <3>2. CASE Fails(p)  BY <2>1, <2>4, <3>2, OutcomeFails DEF Send, NetlinkSend
    <3> QED  BY <2>4, <3>1, <3>2 DEF Send, NetlinkSend, Written
  <2>5. CASE MgmtRead(p)
    <3>1. CASE IsAnswer(p, Head(inbox[p])) /\ ~Refused(Head(inbox[p])) /\ Succeeds(p)
      BY <2>1, <2>5, <3>1, MgmtHead, OutcomeSucceeds DEF MgmtRead
    <3>2. CASE Fails(p)  BY <2>1, <2>5, <3>2, OutcomeFails DEF MgmtRead
    <3>3. CASE Skip(p)  BY <2>1, <2>5, <3>3, OutcomeKept DEF MgmtRead, Skip
    <3> QED  BY <2>5, <3>1, <3>2, <3>3 DEF MgmtRead
  <2>6. CASE GiveUp(p)
    BY <2>1, <2>6, OutcomeFails DEF GiveUp
  <2>7. CASE PollTimeout(p) \/ Collect(p) \/ CollectEnds(p) \/ SleepEnds(p) \/ Expire(p)
    <3>1. UNCHANGED <<result, bss>>
      BY <2>7 DEF PollTimeout, Collect, CollectEnds, SleepEnds, Expire, Skip
    <3> QED  BY <2>1, <3>1, OutcomeKept
  <2>8. CASE NetlinkRead(p)
    <3> DEFINE e == Head(inbox[p])
    <3>1. CASE (e.kind = "family" \/ (e.kind = "error" /\ e.ok)) /\ Succeeds(p) /\ UNCHANGED bss
      <4>1. HeadGrants(p) /\ Request(p) # "GET_SCAN"  BY <2>8, <3>1, NetlinkHead DEF NetlinkRead
      <4> QED  BY <2>1, <2>8, <3>1, <4>1, OutcomeSucceeds DEF NetlinkRead
    <3>2. CASE Ends(p, "failed") \/ Ends(p, "empty")
      <4>1. result'[p] # "ok"  BY <3>2 DEF Ends, Exit, TypeOK
      <4> QED  BY <4>1 DEF Outcome
    <3>3. CASE UNCHANGED result /\ (UNCHANGED bss \/ bss' = [bss EXCEPT ![p] = @ + 1])
      <4>1. bss'[p] \in {bss[p], bss[p] + 1}  BY <3>3 DEF TypeOK
      <4> QED  BY <2>1, <3>3, <4>1, OutcomeKept
    <3>4. CASE e.kind = "done" /\ bss[p] # 0 /\ Ends(p, "ok")
      <4>1. Request(p) = "GET_SCAN" /\ HeadGrants(p)  BY <2>8, <3>4, NetlinkHead DEF NetlinkRead
      <4>2. step[p] = 3 /\ tool[p] = "wifi_scan"  BY <4>1, ClientTypes, ScriptPlaces DEF Request
      <4>3. step[p] = Len(Script[tool[p]])  BY <4>2, ScriptFacts
      <4>4. Promised[tool[p]] \subseteq granted[p]
        BY <4>1, <4>3, PromiseKept DEF Exchange, HeadGrants
      <4>5. bss'[p] = bss[p] /\ bss[p] \in Nat  BY <3>4, ClientsAssumption DEF Ends, TypeOK
      <4>6. bss'[p] > 0  BY <3>4, <4>5
      <4>7. tool'[p] = tool[p] /\ granted'[p] = granted[p]  BY <2>1 DEF tool
      <4> QED  BY <4>4, <4>6, <4>7 DEF Outcome
    <3> QED  BY <2>8, <3>1, <3>2, <3>3, <3>4 DEF NetlinkRead, Skip
  <2>9. CASE RecvFails(p)
    <3>1. result'[p] # "ok"  BY <2>9 DEF RecvFails, Ends, Exit, TypeOK
    <3> QED  BY <3>1 DEF Outcome
  <2> QED  BY <1>4, <2>3, <2>4, <2>5, <2>6, <2>7, <2>8, <2>9 DEF ClientStep
<1> QED  BY <1>1, <1>2, <1>3, <1>4 DEF Next, Kernel

-----------------------------------------------------------------------------
(* Who answers for the discovery *)

\* A client whose START_DISCOVERY was granted has come to that request, awaiting
\* its answer, or to STOP_DISCOVERY.
LEMMA StartedMeans ==
  ASSUME TypeOK, NEW p \in Procs, Exchange(p), "START_DISCOVERY" \in granted[p]
  PROVE  /\ tool[p] = "ble_scan" /\ Mgmt(p)
         /\ pc[p] # "exited" =>
              \/ pc[p] = "await" /\ Request(p) = "START_DISCOVERY"
              \/ Request(p) = "STOP_DISCOVERY" /\ step[p] = Len(Script[tool[p]])
<1>1. "START_DISCOVERY" \in Sent(p)  BY DEF Exchange, AnswersOK
<1>2. PICK i \in DOMAIN Script[tool[p]] :
             /\ Script[tool[p]][i] = "START_DISCOVERY"
             /\ i < step[p] \/ (i = step[p] /\ pc[p] \in {"await", "exited"})
  BY <1>1 DEF Sent
<1>3. tool[p] = "ble_scan" /\ i = 2  BY <1>2, ClientTypes, ScriptPlaces
<1>4. Len(Script[tool[p]]) = 3  BY <1>3, ScriptFacts
<1>5. step[p] \in 1 .. 3 /\ step[p] \in DOMAIN Script[tool[p]] /\ tool[p] \in Tools
  BY <1>4, ClientTypes
<1>6. step[p] = 2 \/ step[p] = 3  BY <1>2, <1>3, <1>5
<1>7. step[p] = 2 => Request(p) = "START_DISCOVERY" /\ pc[p] \in {"await", "exited"}
  BY <1>2, <1>3, <1>5, ScriptPlaces DEF Request
<1>8. step[p] = 3 => Request(p) = "STOP_DISCOVERY" /\ step[p] = Len(Script[tool[p]])
  BY <1>3, <1>4, <1>5, ScriptPlaces DEF Request
<1>9. Mgmt(p)  BY <1>3 DEF Mgmt, NetlinkTools
<1> QED  BY <1>3, <1>6, <1>7, <1>8, <1>9

\* A client that ends its exchange while it answers for the discovery is among
\* the abandoned.
LEMMA AnswerableStep ==
  ASSUME TypeOK, NEW p \in Procs, Exchange(p), Answerable(p),
         ClientStep(p) \/ Expire(p) \/ RecvFails(p)
  PROVE  Answerable(p)'
<1>1. CASE p \in abandoned
  <2>1. abandoned \subseteq abandoned'
    BY DEF ClientStep, Expire, RecvFails, Begin, Send, NetlinkSend, Written,
          MgmtRead, PollTimeout, GiveUp, Collect,
           CollectEnds, NetlinkRead, SleepEnds, Abandon
  <2> QED  BY <1>1, <2>1 DEF Answerable
<1>2. CASE p \notin abandoned
  <2>1. Open(p) /\ "START_DISCOVERY" \in granted[p] /\ "STOP_DISCOVERY" \notin granted[p]
    BY <1>2 DEF Answerable
  <2>2. granted' = granted
    BY DEF ClientStep, Expire, RecvFails, Begin, Send, NetlinkSend, Written,
          MgmtRead, PollTimeout, GiveUp, Collect,
           CollectEnds, NetlinkRead, SleepEnds, kernel
  <2>3. pc[p] # "exited" /\ pc[p] # "start"  BY <2>1 DEF Open
  <2>4. /\ tool[p] = "ble_scan" /\ Mgmt(p)
        /\ \/ pc[p] = "await" /\ Request(p) = "START_DISCOVERY"
           \/ Request(p) = "STOP_DISCOVERY" /\ step[p] = Len(Script[tool[p]])
    BY <2>1, <2>3, StartedMeans
  <2> SUFFICES Open(p)' \/ p \in abandoned'
    BY <2>1, <2>2 DEF Answerable
  <2>5. /\ Abandon(p, {"START_DISCOVERY", "STOP_DISCOVERY"}) => p \in abandoned'
        /\ Request(p) # "START_DISCOVERY" /\ Abandon(p, {"STOP_DISCOVERY"}) => p \in abandoned'
    BY <2>4 DEF Abandon
  <2>6. CASE Begin(p)  BY <2>3, <2>6 DEF Begin
  <2>7. CASE Send(p)
    <3>1. Request(p) # "START_DISCOVERY"  BY <2>4, <2>7, ScriptPlaces, ClientTypes DEF Send, Request
    <3> QED  BY <2>5, <2>7, <3>1 DEF Send, Written, Goto, Open, TypeOK
  <2>8. CASE MgmtRead(p)
    <3>1. CASE IsAnswer(p, Head(inbox[p])) /\ ~Refused(Head(inbox[p])) /\ Succeeds(p)
      <4>1. Request(p) # "STOP_DISCOVERY"
        BY <2>1, <2>8, <3>1, MgmtHead DEF MgmtRead, HeadGrants
      <4>2. step[p] # Len(Script[tool[p]])
        <5>1. Request(p) = "START_DISCOVERY"  BY <2>4, <4>1
        <5>2. step[p] = 2  BY <5>1, ClientTypes, ScriptPlaces DEF Request
        <5> QED  BY <5>2, <2>4, ScriptFacts
      <4> QED  BY <3>1, <4>2 DEF Succeeds, Goto, Open, TypeOK
    <3>2. CASE /\ IsAnswer(p, Head(inbox[p])) /\ Refused(Head(inbox[p]))
               /\ Abandon(p, {"STOP_DISCOVERY"})
      <4>1. Request(p) # "START_DISCOVERY"
        BY <2>1, <2>8, <3>2, MgmtHead DEF MgmtRead
      <4> QED  BY <2>4, <2>5, <3>2, <4>1
    <3>3. CASE Skip(p)  BY <2>1, <3>3 DEF Skip, Open
    <3> QED  BY <2>8, <3>1, <3>2, <3>3 DEF MgmtRead
  <2>9. CASE GiveUp(p)  BY <2>5, <2>9 DEF GiveUp
  <2>10. CASE PollTimeout(p) \/ Collect(p) \/ Expire(p)
    BY <2>1, <2>10 DEF PollTimeout, Collect, Expire, Skip, Open
  <2>11. CASE CollectEnds(p) \/ SleepEnds(p)
    BY <2>11 DEF CollectEnds, SleepEnds, Goto, Open, TypeOK
  <2>12. CASE NetlinkRead(p) \/ RecvFails(p) \/ NetlinkSend(p)
    BY <2>4, <2>12 DEF NetlinkRead, RecvFails, NetlinkSend
  <2> QED  BY <2>6, <2>7, <2>8, <2>9, <2>10, <2>11, <2>12 DEF ClientStep
<1> QED  BY <1>1, <1>2

LEMMA DiscoveryStep ==
  ASSUME TypeOK, \A p \in Procs : Exchange(p), DiscoveryOwned, [Next]_vars
  PROVE  DiscoveryOwned'
<1> SUFFICES ASSUME discovering' PROVE \E q \in Procs : Answerable(q)'
  BY DEF DiscoveryOwned
<1>1. CASE UNCHANGED vars
  BY <1>1 DEF vars, DiscoveryOwned, Answerable, Open
<1>2. ASSUME NEW p \in Procs, ClientStep(p) \/ Expire(p) \/ RecvFails(p)
      PROVE  \E q \in Procs : Answerable(q)'
  <2>1. discovering' = discovering
    BY <1>2 DEF ClientStep, Expire, RecvFails, Begin, Send, NetlinkSend, Written,
          MgmtRead, PollTimeout, GiveUp, Collect,
           CollectEnds, NetlinkRead, SleepEnds, kernel
  <2>2. PICK o \in Procs : Answerable(o)  BY <2>1 DEF DiscoveryOwned
  <2>3. CASE o = p  BY <1>2, <2>2, <2>3, AnswerableStep
  <2>4. CASE o # p
    <3>1. OthersKept(p)  BY <1>2, StepOfOne
    <3> QED  BY <2>2, <2>4, <3>1 DEF OthersKept, Answerable, Open
  <2> QED  BY <2>3, <2>4
<1>3. ASSUME NEW p \in Procs, MgmtAnswer(p) \/ NetlinkAnswer(p)
      PROVE  \E q \in Procs : Answerable(q)'
  <2>1. PICK r \in pending[p], ok \in BOOLEAN : Done(p, r, ok)
    BY <1>3 DEF MgmtAnswer, NetlinkAnswer
  <2>2. UNCHANGED <<pc, abandoned>>  BY <1>3 DEF MgmtAnswer, NetlinkAnswer, progress
  <2>3. granted' = IF ok THEN [granted EXCEPT ![p] = @ \cup {r}] ELSE granted
    BY <2>1 DEF Done
  <2>4. CASE ok /\ r = "START_DISCOVERY"
    <3>1. "START_DISCOVERY" \in granted'[p]  BY <2>3, <2>4 DEF TypeOK
    <3>2. CASE p \in abandoned  BY <2>2, <3>2 DEF Answerable
    <3>3. CASE p \notin abandoned
      <4>1. pc[p] = "await" /\ Request(p) = "START_DISCOVERY"
        BY <2>4, <3>3 DEF Exchange, StartAwaited
      <4>2. tool[p] \in Tools /\ step[p] \in DOMAIN Script[tool[p]]  BY ClientTypes
      <4>3. step[p] = 2  BY <4>1, <4>2, ScriptPlaces DEF Request
      <4>4. "STOP_DISCOVERY" \notin Sent(p)
        <5> SUFFICES ASSUME "STOP_DISCOVERY" \in Sent(p) PROVE FALSE  OBVIOUS
        <5>1. PICK i \in DOMAIN Script[tool[p]] :
                     Script[tool[p]][i] = "STOP_DISCOVERY" /\ (i < step[p] \/ i = step[p])
          BY DEF Sent
        <5>2. i = 3  BY <4>2, <5>1, ScriptPlaces
        <5> QED  BY <4>3, <5>1, <5>2
      <4>5. "STOP_DISCOVERY" \notin granted'[p]
        BY <2>3, <2>4, <4>4 DEF Exchange, AnswersOK, TypeOK
      <4> QED  BY <2>2, <3>1, <4>1, <4>5 DEF Answerable, Open
    <3> QED  BY <3>2, <3>3
  <2>5. CASE ~(ok /\ r = "START_DISCOVERY")
    <3>1. discovering /\ ~(ok /\ r = "STOP_DISCOVERY")
      BY <2>1, <2>5 DEF Done, Effect
    <3>2. PICK o \in Procs : Answerable(o)  BY <3>1 DEF DiscoveryOwned
    <3>3. /\ granted[o] \subseteq granted'[o]
          /\ "STOP_DISCOVERY" \notin granted[o] => "STOP_DISCOVERY" \notin granted'[o]
      BY <2>3, <3>1 DEF TypeOK
    <3> QED  BY <2>2, <3>2, <3>3 DEF Answerable, Open
  <2> QED  BY <2>4, <2>5
<1>4. CASE \/ \E p \in Procs : Unrelated(p) \/ DumpEntry(p)
           \/ \E d \in Devices : DeviceFound(d)
  <2>1. UNCHANGED <<pc, granted, abandoned, discovering>>
    BY <1>4 DEF Unrelated, DumpEntry, DeviceFound, progress, kernel
  <2> QED  BY <2>1 DEF DiscoveryOwned, Answerable, Open
<1>5. CASE DiscoveryEnds
  BY <1>5 DEF DiscoveryEnds
<1> QED  BY <1>1, <1>2, <1>3, <1>4, <1>5 DEF Next, Kernel

-----------------------------------------------------------------------------
(* ble_scan's table *)

LEMMA TableKept ==
  ASSUME NEW p \in Procs, TableOK(p), table'[p] = table[p], listed'[p] = listed[p],
         again'[p] = again[p]
  PROVE  TableOK(p)'
BY DEF TableOK

LEMMA TableStep ==
  ASSUME TypeOK, \A p \in Procs : TableOK(p), [Next]_vars
  PROVE  \A p \in Procs : TableOK(p)'
<1>1. CASE UNCHANGED devices
  BY <1>1, TableKept DEF devices
<1>2. ASSUME NEW p \in Procs, Collect(p), Head(inbox[p]).kind = "device",
             ~already_seen(p, Head(inbox[p]).device)
      PROVE  \A q \in Procs : TableOK(q)'
  <2> DEFINE d == Head(inbox[p]).device
  <2>1. d \in Devices
    <3>1. Head(inbox[p]) \in Messages  BY <1>2, ClientTypes, TailFacts DEF Collect
    <3> QED  BY <1>2, <3>1 DEF Messages
  <2>2. /\ table' = [table EXCEPT ![p] = IF Len(@) < MAX_DEVICES THEN Append(@, d) ELSE @]
        /\ listed' = [listed EXCEPT ![p] = @ \cup {d}]
        /\ again' = [again EXCEPT ![p] = @ \/ d \in listed[p]]
    BY <1>2 DEF Collect, handle_device
  <2>3. \A i \in 1 .. Len(table[p]) : table[p][i] # d
    BY <1>2 DEF already_seen
  <2> HIDE DEF d
  <2>4. \A q \in Procs \ {p} : TableOK(q)'
    BY <2>2, TableKept DEF TypeOK
  <2> SUFFICES TableOK(p)'
    BY <2>4
  <2>5. listed'[p] = listed[p] \cup {d} /\ again'[p] = (again[p] \/ d \in listed[p])
    BY <2>2 DEF TypeOK
  <2>6. table[p] \in Seq(Devices) /\ Len(table[p]) \in Nat /\ MAX_DEVICES \in Nat
    BY LenProperties, ClientsAssumption DEF TypeOK
  <2>7. CASE Len(table[p]) < MAX_DEVICES
    <3>1. table'[p] = Append(table[p], d)  BY <2>2, <2>7 DEF TypeOK
    <3>2. /\ Len(table'[p]) = Len(table[p]) + 1
          /\ \A i \in 1 .. Len(table[p]) : table'[p][i] = table[p][i]
          /\ table'[p][Len(table[p]) + 1] = d
      BY <2>1, <2>6, <3>1, AppendFacts
    <3>3. \A i : i \in 1 .. Len(table'[p]) <=> i \in 1 .. Len(table[p]) \/ i = Len(table[p]) + 1
      BY <2>6, <3>2
    <3>4. Len(table'[p]) <= MAX_DEVICES  BY <2>6, <2>7, <3>2
    <3>5. \A i, j \in 1 .. Len(table'[p]) : table'[p][i] = table'[p][j] => i = j
      BY <2>3, <3>2, <3>3 DEF TableOK
    <3>6. ~again[p] /\ listed[p] = {table[p][i] : i \in 1 .. Len(table[p])}
      BY <2>7 DEF TableOK
    <3>7. d \notin listed[p]  BY <2>3, <3>6
    <3>8. ~again'[p]  BY <2>5, <3>6, <3>7
    <3>9. listed'[p] = {table'[p][i] : i \in 1 .. Len(table'[p])}
      BY <2>5, <3>2, <3>3, <3>6
    <3> QED  BY <3>4, <3>5, <3>8, <3>9 DEF TableOK
  <2>8. CASE ~(Len(table[p]) < MAX_DEVICES)
    <3>1. table'[p] = table[p]  BY <2>2, <2>8 DEF TypeOK
    <3> QED  BY <2>8, <3>1 DEF TableOK
  <2> QED  BY <2>7, <2>8
<1>3. \/ UNCHANGED devices
      \/ \E p \in Procs : /\ Collect(p) /\ Head(inbox[p]).kind = "device"
                          /\ ~already_seen(p, Head(inbox[p]).device)
  <2>1. CASE UNCHANGED vars  BY <2>1 DEF vars, devices
  <2>2. CASE Kernel
    BY <2>2 DEF Kernel, MgmtAnswer, Unrelated, NetlinkAnswer, DumpEntry, DeviceFound, DiscoveryEnds
  <2>3. ASSUME NEW p \in Procs, ClientStep(p) \/ Expire(p) \/ RecvFails(p), ~Collect(p)
        PROVE  UNCHANGED devices
    BY <2>3 DEF ClientStep, Expire, RecvFails, Begin, Send, NetlinkSend, Written,
          MgmtRead, PollTimeout, GiveUp,
                CollectEnds, NetlinkRead, SleepEnds
  <2>4. ASSUME NEW p \in Procs, Collect(p)
        PROVE  UNCHANGED devices \/ /\ Head(inbox[p]).kind = "device"
                                    /\ ~already_seen(p, Head(inbox[p]).device)
    BY <2>4 DEF Collect, handle_device
  <2> QED  BY <2>1, <2>2, <2>3, <2>4 DEF Next
<1> QED  BY <1>1, <1>2, <1>3

\* A sequence without repetitions has as many elements as it is long.
LEMMA DistinctCount ==
  ASSUME NEW S, NEW s \in Seq(S), \A i, j \in 1 .. Len(s) : s[i] = s[j] => i = j
  PROVE  Cardinality({s[i] : i \in 1 .. Len(s)}) = Len(s)
<1> DEFINE T == {s[i] : i \in 1 .. Len(s)}
           f == [i \in 1 .. Len(s) |-> s[i]]
<1>1. Len(s) \in Nat  BY LenProperties
<1>2. f \in Bijection(1 .. Len(s), T)
  <2>1. f \in [1 .. Len(s) -> T] /\ DOMAIN f = 1 .. Len(s)  OBVIOUS
  <2>2. \A i, j \in 1 .. Len(s) : f[i] = f[j] => i = j  OBVIOUS
  <2>3. \A t \in T : \E i \in 1 .. Len(s) : f[i] = t  OBVIOUS
  <2> HIDE DEF f, T
  <2> QED  BY <2>1, <2>2, <2>3 DEF Bijection, Injection, Surjection, IsInjective
<1>3. ExistsBijection(1 .. Len(s), T)  BY <1>2 DEF ExistsBijection
<1> QED  BY <1>1, <1>3, FS_CountingElements

-----------------------------------------------------------------------------
(* The theorems *)

LEMMA InitIndInv == Init => IndInv
<1> SUFFICES ASSUME Init PROVE IndInv  OBVIOUS
<1>1. setting \in Settings /\ tool \in [Procs -> Tools] /\ setting.room \in Nat \ {0}
  BY ClientsAssumption DEF Init, tool
<1>2. \A p \in Procs : 1 \in DOMAIN Script[tool[p]]
  BY <1>1, ScriptShape
<1>3. << >> \in Seq(Messages) /\ << >> \in Seq(Devices) /\ Len(<< >>) = 0
  BY EmptySeq
<1>4. TypeOK
  <2>1. CourseType  BY <1>2, ClientsAssumption DEF Init, CourseType
  <2>2. InboxType  BY <1>1, <1>3 DEF Init, InboxType
  <2>3. DeviceType  BY <1>3 DEF Init, DeviceType
  <2>4. KernelType  BY DEF Init, KernelType
  <2> QED  BY <1>1, <2>1, <2>2, <2>3, <2>4, TypeParts, ClientsAssumption DEF Init
<1>5. ASSUME NEW p \in Procs PROVE Exchange(p)
  <2>1. /\ pc[p] = "start" /\ step[p] = 1 /\ inbox[p] = << >> /\ Len(inbox[p]) = 0
        /\ pending[p] = {} /\ granted[p] = {}
    BY DEF Init
  <2>2. DOMAIN Script[tool[p]] = 1 .. Len(Script[tool[p]]) /\ Len(Script[tool[p]]) \in Nat
    BY <1>1, ScriptShape
  <2>3. EarlierGranted(p)  BY <2>1, <2>2 DEF EarlierGranted
  <2> QED  BY <2>1, <2>3 DEF Exchange, AnswersOK, ChannelOK, NetlinkOK, StartAwaited
<1>6. OutcomeIsAnswer  BY DEF Init, OutcomeIsAnswer
<1>7. DiscoveryOwned  BY DEF Init, DiscoveryOwned
<1>8. ASSUME NEW p \in Procs PROVE TableOK(p)
  BY ClientsAssumption DEF Init, TableOK
<1> QED  BY <1>4, <1>5, <1>6, <1>7, <1>8 DEF IndInv

LEMMA NextIndInv == IndInv /\ [Next]_vars => IndInv'
<1> SUFFICES ASSUME IndInv, [Next]_vars PROVE IndInv'  OBVIOUS
<1>1. TypeOK'  BY TypeStep DEF IndInv, Exchange
<1>2. \A p \in Procs : Exchange(p)'  BY ExchangeStep DEF IndInv
<1>3. \A p \in Procs : Outcome(p)'  BY OutcomeStep DEF IndInv, OutcomeIsAnswer, Outcome
<1>4. OutcomeIsAnswer'  BY <1>3 DEF OutcomeIsAnswer, Outcome
<1>5. DiscoveryOwned'  BY DiscoveryStep DEF IndInv
<1>6. \A p \in Procs : TableOK(p)'  BY TableStep DEF IndInv
<1> QED  BY <1>1, <1>2, <1>4, <1>5, <1>6 DEF IndInv

LEMMA IndInvHolds == Spec => []IndInv
BY InitIndInv, NextIndInv, PTL DEF Spec

\* No message of another client, no lost answer and no dump takes a client out
\* of its types: the sockets hold at most what they have room for, the rounds of
\* set_powered and the count of dump_scan stay within their bounds.
THEOREM ClientsTypeCorrect == Spec => []TypeOK
<1>1. IndInv => TypeOK  BY DEF IndInv
<1> QED  BY <1>1, IndInvHolds, PTL

\* A tool that exits with success was granted every request it stands for,
\* although set_powered and mgmt_command pick their answer out of everything that
\* is broadcast and the netlink loops look at no request code at all.
THEOREM ClientsOutcomeIsAnswer == Spec => []OutcomeIsAnswer
<1>1. IndInv => OutcomeIsAnswer  BY DEF IndInv
<1> QED  BY <1>1, IndInvHolds, PTL

\* ble_scan's count of unique devices is one, for every length of its table and
\* every sequence of reports.
THEOREM ClientsUniqueCount == Spec => []UniqueCount
<1>1. ASSUME IndInv PROVE UniqueCount
  <2> SUFFICES ASSUME NEW p \in Procs
               PROVE  /\ Len(table[p]) <= MAX_DEVICES
                      /\ Cardinality({table[p][i] : i \in 1 .. Len(table[p])}) = Len(table[p])
                      /\ Len(table[p]) < MAX_DEVICES =>
                           ~again[p] /\ Cardinality(listed[p]) = Len(table[p])
    BY DEF UniqueCount
  <2>1. table[p] \in Seq(Devices) /\ TableOK(p)  BY <1>1 DEF IndInv, TypeOK
  <2>2. Cardinality({table[p][i] : i \in 1 .. Len(table[p])}) = Len(table[p])
    BY <2>1, DistinctCount DEF TableOK
  <2> QED  BY <2>1, <2>2 DEF TableOK
<1> QED  BY <1>1, IndInvHolds, PTL

\* However many clients start, stop, power off and time out over one another,
\* once all have ended a discovery is left running only by a ble_scan that could
\* not learn the fate of its command.
THEOREM ClientsDiscoveryEnded == Spec => []DiscoveryEnded
<1>1. ASSUME IndInv PROVE DiscoveryEnded
  <2> SUFFICES ASSUME discovering, \A p \in Procs : pc[p] = "exited" PROVE abandoned # {}
    BY DEF DiscoveryEnded
  <2>1. PICK p \in Procs : Answerable(p)  BY <1>1 DEF IndInv, DiscoveryOwned
  <2> QED  BY <2>1 DEF Answerable, Open
<1> QED  BY <1>1, IndInvHolds, PTL
=============================================================================
