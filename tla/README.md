# TLA+ verification of the ESP32-S31 Linux radio core and tools

The repository runs Linux on the ESP32-S31 and makes the vendor's closed Wi-Fi
and Bluetooth library (the *blob*) run inside the kernel: `radio_firmware/`
gives the blob the FreeRTOS and ESP-IDF functions it expects, implemented on
Linux threads and wait objects. User-space tools under `rootfs/` drive the
result, and `bootloader/` hands both harts over to OpenSBI and Linux.

The code that can go wrong in ways a test would not find is the compatibility
layer: hand-written blocking primitives, a lock table, a timer list and a
deferred driver start. It is the core of this project, together with the
overlay tool, which has to survive failed writes and power loss, the boot
hand-off and the command-line clients.

## 1. Inventory

| Component | State it keeps | Operations | What is hard | What makes it correct |
|---|---|---|---|---|
| RTOS queues (`s31_rtos_queue.c`) | ring, head, count, wait object | send to back/front/overwrite, receive, ISR forms, reset | sample / lock / wait order, wake after unlock, ring wrap | linearizable bounded FIFO, no lost wake, nobody sleeps over an item |
| Semaphores, mutexes (same file) | owner, depth, count | take, give, recursive give, ISR give | nesting, gives by non-owners, inverted count of a mutex | mutual exclusion, public count, no lost wake |
| Event groups (`s31_rtos_event.c`) | bits | set, clear, wait | set racing a deadline, clear-on-exit competition | no set missed, a bit handed out once |
| Task notifications (`s31_rtos_core.c`) | value, state | notify (5 actions), take, wait | notification racing a timeout, entry/exit masks, wrap | no give lost or handed out twice; a bit stays until it is handed out, for a task that masks nothing on entry |
| Tasks, critical sections, TLS (`s31_rtos_core.c`) | control blocks, TLS slots, wait objects, stacks | create, entry, suspend, delete, release | failing creation steps, several deletions racing the task's own end, release of the control block | everything given back once, a destructor called at most once |
| Wi-Fi requests (`radio_stack.c`) | prepared / start flags, pending operation | scan, connect, disconnect tasks, event handler | STA_START overtaking `esp_wifi_start`, failed starts, competing requests | every request answered, exactly once; the deferred connect is the one run |
| Radio init, Bluetooth (`radio_stack.c`) | event handler, controller, VHCI callbacks | bring-up chain, enable, disable | a call failing with earlier ones done | what Linux is told is so |
| esp_timer shim (`s31_linux_timer.c`) | timer list, alarms | create, start, stop, restart, delete, tick | callbacks that change the list, late ticks | only live timers fire, no burst, phase kept |
| C-library locks (`s31_linux_locks.c`) | 32-slot table of mutexes | acquire, try, release, init, close | full table, interrupted waits, slot reuse | exclusion among guarded callers |
| Overlay tool (`s31_overlay.c`) | kernel overlays, `/run` record, persisted file | apply, remove, remove --all, restore | partial failure, power loss, volatile vs. durable | record equals kernel, persisted set restorable |
| Boot hand-off (`bootloader/main`) | partitions, FDT, hart mailbox | validate, start hart 1, enter OpenSBI, restart | late, absent, trapping or reset hart 1; wrapping offset arithmetic, sizes and addresses nobody checks | nobody enters unprepared, one valid FDT for both, one hand-off a boot, every boot decided |
| Command-line clients (`rootfs/wifi_*.c`, `ble_*.c`) | a socket, tries and deadlines, table of devices | scripts of management and nl80211 requests | answers among other events, timeouts racing answers, two clients at once, a full table | success only when granted, unique devices, no discovery left running, every client ends |
| SIMD routines, tests, benchmarks, build tools | - | - | - | left out |

How they interact. One global *blob gate* serialises all payload code
(`docs/S31_radio_core.md`), but it is released inside every Linux wait and every
driver call that waits. So a step of these models ends at each lock, sample,
wait, wake or driver call. The models of the primitives do not even assume the
gate: every interleaving of their locked blocks is covered. Queues, semaphores,
event groups and notifications share one pattern over the Linux wait object,
`S31Sync`: sample the sequence, lock, test, unlock, wait on the sample; change,
unlock, wake. The C-library locks are built on the mutexes, the timers run in
the radio worker, and the Wi-Fi request tasks call the blob, which answers by
events once `s31_radio_stack_task` has reported Wi-Fi to Linux. A task's
notifications live in its control block, so notifications and the end of a task
are modelled together. The clients reach the radio through the kernel. The
overlay tool is independent of the radio.

## 2. Modules

| Module | Models | Notes |
|---|---|---|
| `S31Sync` | the Linux wait object (external) | the sequence number is kept as `fresh`, the set of contexts whose sample is up to date |
| `QueueCalls` | the queue API's vocabulary and the constants of one queue | shared by the next two |
| `AtomicQueue` | what a queue promises | abstract specification: each call takes effect at one instant |
| `S31Queue` | the queue type of `s31_rtos_queue.c` | refines `AtomicQueue` |
| `S31Semaphore` | mutex and semaphore types of the same file | `obj`, fixed at creation, selects the type |
| `S31EventGroup` | `s31_rtos_event.c` | |
| `S31Deadline` | the deadline arithmetic that queues, event groups and notifications each have a copy of | ticks are words of `Word` values; pure operators |
| `S31Notify` | notifications of `s31_rtos_core.c` | `Styles`: how the target and its notifiers use the value; deadlines run on a wrapping tick counter |
| `S31Task` | the life of a task in the same file | extends `S31Notify`: one target, from its creation to the release of its control block, which takes no gate; any number of deleters |
| `S31Locks` | `s31_linux_locks.c` | a take or give of the backing mutex is one step, as proved of `S31Semaphore` |
| `S31Timer` | `s31_linux_timer.c` | |
| `S31Wifi` | station half of `radio_stack.c` | the driver and Linux are external; `handling` is the operation of a STA_START whose driver calls are still to come |
| `S31Radio` | bring-up and Bluetooth half of `radio_stack.c` | extends `S31Wifi`: requests begin once Wi-Fi was reported; its `Next` is the radio stack's |
| `S31Clients` | `wifi_scan.c`, `wifi_connect.c`, `ble_scan.c`, `ble_power.c` | a tool is a script of requests; the kernel is external |
| `S31Overlay` | `s31_overlay.c` | the kernel's overlay manager is external |
| `S31Boot` | `bootloader/main/main.c`, `core1_trampoline.S` | a stage of hart 0 or of hart 1 is a step; `done` is what has been prepared; OpenSBI is external |
| `S31QueueProofs`, `S31SemaphoreProofs`, `S31LocksProofs`, `S31EventGroupProofs`, `S31ClientsProofs` | theorems | each extends the module it is named after |
| `S31TaskProofs` | theorems about `S31Deadline`, `S31Notify` and `S31Task` | |
| `S31RadioProofs` | theorems about `S31Wifi` and `S31Radio`, and about `S31Timer` | extends both: the timers serve the radio firmware |
| `S31BootProofs` | theorems about `S31Boot`, and about `S31Overlay` | extends both: a boot restores the overlay set |
| `MC*` | TLC instances | |

Variables keep the names of the C fields; an action is one locked block, one
sample, one wake or one call into the driver, named after its C function where
there is one. `pc` says between which two of these steps a context is. Variables
marked *history* are read by properties only. Operators marked *Faulty* are
plausible mistakes in the definition they precede; no specification uses them,
they show that the properties notice the mistake.
Each state machine has a type invariant `TypeOK` (`TimerTypeOK`, `OverlayTypeOK`: the
names of `S31Timer` and `S31Overlay` are their own, so that one module can hold
proofs about them and another component). The proofs establish it for
every one of them, so the runs list only the properties that say more.

What the models abstract: items, names, networks and pads are model values; a
timeout is one of zero, finite, forever (a finite one may end at any moment of a
wait), except in `S31Notify`, where it is a number of ticks; an interrupted wait can happen at any time; allocation and driver calls
may fail where the code looks at the result. Log output, byte copies and
statistics are left out.

## 3. Runs

| Run | Instance | What it shows |
|---|---|---|
| `queue` | 3 contexts, 3 slots, 2 items (195,708 states) | `NoLostWake`; `AtomicSpec`: the ring implements the atomic queue; `CallersServed`: nobody sleeps over an item or a free slot |
| `semaphore` | 3 tasks; a mutex nested twice, semaphores of 1 and 2 tokens (61,516) | `MutualExclusion` by what calls reported, `TokenVisible`, `NoLostWake`, `TakerServed` |
| `event_group` | 2 waiters, 1 setter, 2 bits (56,192) | `NoLostSet`, `ConsumedOnce`, `RaceWonBySet`, `WaiterServed` |
| `notify` | 2 notifiers, 2-bit values, 5 styles, 8-tick clock, 2 TLS slots (339,823) | of notifications `GivesConserved`, `BitsKept`, `DeadlineKept`, `TargetServed`; of the task around them `DestroyedOnce`, `Reclaimed` |
| `overlay` | 3 overlays, 3 pads, 2 lines (232,301) | `RecordedIsActive`, `Restorable`, `RestoreReproduces` over failures and power losses |
| `wifi` | 2 networks, 3 events, one front end at a time (225,718) | `PendingHasStart`, `ScanAccounted`, `RequestsAnswered`: every scan and connect is answered; `ReportsTrue` over every failing call of bring-up and Bluetooth |
| `timer` | 2 timers, delays 0..2, clock to 5, 2 callbacks a tick (374,640) | `NoBurst`, `PhaseKept`, `OnlyLiveTimersFire` |
| `locks` | 2 tasks, 3 locks, 2 slots, nesting 2 (17,633) | `Exclusive`, `HeldIsBacked` with the table full, waits interrupted and slots reused |
| `boot` | words of 16 values, an OpenSBI partition of 0, 2, 4, 9 or 12 bytes at one of 2 addresses, 2 polls, 2 core-only resets (147,640) | `EntryPrepared`, `ValidFdt`, `FirstHandoffKept`, `HandshakeHeld`, `ReportKept`, `BootDecides` |
| `clients` | 2 processes in 5 pairings, 3 devices, table of 2, socket room 1 or 2 (221,460) | `OutcomeIsAnswer`, `UniqueCount`, `DiscoveryEnded`, `ClientsEnd` |
| `overlay_volatile`, `wifi_deferred` | as above | violations, see section 6 |

Why the bounds are enough. A ring of three slots is the smallest in which head,
tail and wrap differ for front, back and overwriting sends; three contexts give
a sender and a receiver asleep on one object while a third changes it. Two
notifiers and two-bit values let a notification arrive in every gap of a wait
and let the count wrap. Three locks over two slots fill the table and reuse a
slot. The task's clock has eight values and starts a call at zero or at the last
one, so that a wait of two ticks spans the wrap; two TLS slots let a deletion
fall between two destructors, and two notifiers let one delete the task while
the other deletes it too or has still to wake it. The five styles are a task that
waits with masks, one that keeps events as bits and masks nothing on entry, a counter, a task
with TLS destructors, and one that mixes both calls. Three overlays compete for two usable pads with room for two lines, so
EBUSY, reassignment and E2BIG all occur. Two timers are enough for a callback to
delete the next one; five microseconds give several periods of delay. The Wi-Fi
queue of three events holds every event one start, scan and connect can post,
and a full queue blocks the driver. In `S31Radio` the two front ends of Linux
(`front`) are explored one at a time: past the bring-up Wi-Fi requests and
Bluetooth tasks have no variable in common. Three devices overfill a table of
two; a socket with room for one message loses events, one with room for two
lets an answer wait behind an unrelated event; two tries of `set_powered` let
one be used up by such an event. The five pairings of `clients` put every tool
next to one that disturbs it. Symmetry is used only in runs without
liveness (`timer`, `locks`). A partition of three words is the smallest in which
an offset can be too large, misaligned, without a magic or right; one of nine
bytes lets the magic of an accepted FDT run into the slot, the second address is
one the loader does not expect, and words of 16 values let the size check's
subtraction wrap; two resets put hart 1 back both
before and after it raised the flag. Deadlock checking is off where the system
may stop: `boot` ends with both harts in OpenSBI or hart 1 parked, `notify` with
the task released, `clients` with both processes gone or `wifi_connect`
stranded, `wifi` when the bring-up has failed.

Bounds in guards: `MaxSets` (event group), `MaxSends` (notifications),
`MaxElapsed` (ticks of one call) and `Starts` (tick at its begin), `MaxBss`
(networks of a dump), the `room` of a socket and the `air` of a setting,
`MaxNow` (clock), `MaxDepth` (nesting), `MaxTokens` (semaphores), `MaxEvents`
(driver's queue), `MaxResets` (core-only resets); `Word` stands for 2^32 and
`MaxPolls` for 1000.
`MaxCallbacks`, `Slots`, `Capacity`, `MaxLines`, `MAX_DEVICES`, `MaxTries` and
`Modulus` (of a notification value) are limits of the code, at small values.
`S31Notify` takes its bit operations as the constants `BitOr` and `BitAnd`, of
which it assumes that both stay within the word, that an OR is associative,
commutative and idempotent with 0 neutral, and that a masked value is not larger
than the value and 0 under the mask 0; the run gives them the bitwise meaning.

Fairness. A Linux thread inside a call runs on: the locked blocks are
straight-line code, and the scheduler does not starve a thread, so they are
weakly fair, as is the return from a wait whose sequence has moved and a wake
that is due. Nobody is obliged to call, to time out, to be interrupted or to
give back what it holds; the progress properties therefore say "served, or a
competitor was faster". In `S31Wifi` the driver's event posts are strongly fair:
its single task works off its jobs in turn, also when it has to wait for room in
the event queue. That is an assumption on the blob; the code in the repository
cannot answer a request without it. In `S31Task` the clock runs, and the bridge's
end of a stopped thread is strongly fair: a stopped task is ended in its next
wait, and one that computes for ever without waiting would keep the gate and
stop the radio altogether. In `S31Clients` a process runs on, its clock runs and
netlink requests are answered, which the kernel does inside the system calls;
nothing is assumed of the Bluetooth adapter, which may stay silent or flood its
clients. In `S31Boot` only hart 0 is fair: whether
hart 1 runs at all is what the bounded poll is for.

## 4. Theorems

Proved by TLAPS for every value of the constants.

* `S31QueueProofs`. `IndInv == TypeOK /\ CallsOK /\ NoLostWake`. `NoLostWake`
  alone is not inductive: a step needs to know that a sleeper's call may block
  and is one of those offered (`CallsOK`). `TypeCorrect`, `LostWakeFree`.
  `Refinement` (`Spec => AtomicSpec`) maps the ring to the sequence
  `st[(h + i - 1) % Capacity]`; the lemmas `RingSendBack`, `RingSendFront`,
  `RingOverwrite`, `RingTake` show what each locked update does to that
  sequence, resting on `RemainderIsWrap` for the modulo arithmetic. An effect
  becomes visible in the locked block; a wake is the abstract return.
* `S31SemaphoreProofs`. `IndInv == TypeOK /\ Ownership /\ CallsOK /\ NoLostWake`;
  `Ownership` ties owner, depth and the inverted count to what callers were
  told. `MutexSafe`, `TokenVisibleAlways`, `LostWakeFree`.
* `S31LocksProofs`. `IndInv == TypeOK /\ Held /\ Waits /\ HeldIsBacked`. `Held`: a
  slot whose mutex is owned has a key, and its owner is inside that lock at
  least as deep. `Waits`: the slot a task waits for still belongs to the lock it
  asked for; it rests on `_lock_close` being called only for locks nobody is in
  or waits for, which is the C library's contract and a guard of the model.
  `LocksBacked`, `LocksExclusive`.
* `S31BootProofs`. `IndInv == TypeOK /\ Stages /\ Hart1Inv /\ FlagInv`. `Stages`
  says for each stage of hart 0 what it has prepared and checked; `Hart1Inv`
  restates those facts for a released hart 1, because hart 0 may by then be on
  its way to a restart; `FlagInv` makes the flag the record of hart 1's first
  pass, and says that a hart that can still reach `core1_early_trap` has not
  trapped, also after its jump. `EntriesPrepared` (of the preparations whose
  failure the loader does not ignore), `FdtAlwaysValid`, `HandoffOnce`,
  `HandshakeAlways`, and the action property `ReportNeverLost`. The only
  assumption on partition sizes and addresses is that they are words: where the
  FDT lies in relation to the slot depends on an address and an alignment that
  `app_main` does not check, so these are conditions inside `ValidFdt`
  (`RoomBeforeSlot` is its alignment argument, `SizesFit` the wrapping one).
* `S31EventGroupProofs`. `IndInv == TypeOK /\ CallsOK /\ NoLostSet /\ ConsumedOnce`;
  `CallsOK` says that whoever is in a wait carries its arguments. `MatchMonotone`
  is why bits that go, by a clear or with a competing waiter, cannot make a
  sleeper's wait match without a wake. `EventGroupNoLostSet`,
  `EventGroupConsumedOnce`, and the action property `EventGroupRaceWonBySet`.
* `S31TaskProofs`. `DeadlineExact`: for every word size, what
  `s31_wait_remaining` grants `d` ticks after a call began ends exactly with the
  timeout, wherever the counter stood and whether it wrapped. It rests on
  `ElapsedExact` (the subtraction modulo the word is the elapsed time) and
  `ModOnce`, and needs `d` to be less than a whole turn of the counter, about
  50 days. `TaskDeadlineKept` is the same fact about the loops that use it.
  The invariant has two halves. Of the notifications: `CallOK` (a target in a
  call has one that its style offers, and a wait for ever cannot time out),
  `BitsKept`, with `BitAdded` for what an OR does to the bits still owed, and
  conservation up to whole turns (`ModTurn`). Of the task's life: `JobsOK` (who
  can be inside which function at which time), `HeldOK` (what is held is exactly
  what the stage of the creation or of the release owns), `TlsOK` and `OwnEndOK`
  (which destructors have run or are still to run). `TaskGivesConserved`,
  `TaskBitsKept`, `TaskDestroyedOnce`, and `TaskFreedOnce`, the safety half of
  `Reclaimed`.
* `S31RadioProofs`. `IndInv == TypeOK /\ StartOK /\ ScanAccounted /\ BringUpOK /\
  BluetoothOK /\ ReportsTrue`. `PendingHasStart` alone is not inductive: that a
  start that fails withdraws its own operation and not another task's needs
  `StartOK`, that a task waiting for `esp_wifi_start` has its operation pending
  unless STA_START was handled, and that one STA_START at most is on its way.
  `ScanAccounted` counts the scan that a STA_START has taken over and not yet
  started (`handling`).
  The lemmas about `Posted` say what posting and handling an event does to the
  number of events of a kind in the queue. `RadioReportsTrue`,
  `RadioPendingHasStart`, `RadioScanAccounted`.

  About `S31Timer`: `TimerInv` says of each timer,
  deleted ones included, that a one-shot timer is disarmed once it has fired
  (`OneShotOK`), and that the alarm of a periodic one is `k` periods after its
  first alarm with `k` not below the number of callbacks, the last of which was
  due (`PeriodicOK`). `NoBurst` speaks of the clock and the callbacks only; the
  alarm, which decides about the next callback, has to be tied to both.
  `TimerNoBurst`, `TimerPhaseKept`, and the action property `TimerOnlyLiveFire`.
* `S31ClientsProofs`. Each request is sent once and answered once, so an answer
  still to be read says whether the request was granted; the netlink clients do
  not compare request codes, and no older answer can be left over when they read.
  `Exchange(p)` states this of one process (`AnswersOK`, `EarlierGranted`,
  `ChannelOK`, `NetlinkOK`, `StartAwaited`); `DiscoveryOwned` says who is going to
  stop a discovery that runs; `TableOK` relates the table of devices to what was
  printed. `ClientsOutcomeIsAnswer`, `ClientsUniqueCount`, `ClientsDiscoveryEnded`.
* `S31BootProofs`, second part, about `S31Overlay`.
  `OverlayInv` adds to the properties that the kernel holds a pad once, that the
  files and the record being edited name an overlay once (`FileOK`, `NamedOnce`),
  and what the record and the kernel have in common while a command or a restore
  is half done (`RecordOK`, `RestoreOK`). The steps need to know what
  `update_config`'s loop leaves of a record: `CopiedFacts` proves it for every
  record, by taking the least length at which it would be wrong (`WFMin`).
  `OverlayRecordedIsActive`, `OverlayRestorable`, and the action property
  `OverlayRestoreReproduces`.

Assumptions: the named ASSUMEs of the modules (positive capacities, distinct
"none" values, calls that pass an item exactly when they send). TLC evaluates
them in every run.

Every invariant and every action property that a passing run checks is thereby
proved for all values of the constants, and `AtomicSpec` is. Only model-checked
are the liveness properties (`CallersServed`, `TakerServed`, `WaiterServed`,
`TargetServed`, `Reclaimed`, `RequestsAnswered`, `ClientsEnd`, `BootDecides`):
fairness and ENABLED are out of the prover's reach.

## 5. Not modelled

Creation and deletion of queues and groups: creation is their initial state, and
deleting one that is in use is forbidden by the contract. A wrap of the 32-bit
sequence between sample and wait. Critical sections, whose nesting count per task
guards a Linux primitive that is outside the repository (what it excludes is not
visible here); `vTaskDelay` and priorities, which only call the Linux bridge; the
identity `s31_foreign_tcb` that kernel threads share. The Wi-Fi data path, the
captures for diagnosis in `radio_stack.c`, and the VHCI callbacks, which pass
frames on. Cache contents and the SRAM layout in the boot hand-off, the
write-back of the zeroed SRAM (its failure is logged and changes nothing), and a reset of
hart 0 alone, which starts the ROM. In the clients the message layout, SHA-1 and
the PMK, printing, sequence numbers (the modelled kernel leaves no older message
unread), and what `interface_up` changes. The C library's lazy `_lock_init` of a
lock that is still zero, whose result is the lock's initial state. The driver calls of
`s31_wifi_prepare` are one step between its entry and its flag. Scripts, SIMD
routines, tests, build tools.
The kernel side (wait objects, overlay manager, blob gate, management and nl80211
handlers) is in submodules that are not part of the repository and is taken as the
code uses it. Of the bridge under `S31Task` this takes in that a created thread owns
its stack, that it may run before `xTaskCreate` publishes it, and that it ends a
stopped task only inside a wait. Concurrent invocations of `s31-overlay` are not modelled: nothing
locks its files, and nothing in the repository starts two.

## 6. Findings

* `overlay_volatile`: a temporary overlay (`apply --volatile`) is persisted by
  the next durable command, which writes the whole current record;
  `docs/S31_PERIPHERAL_TEST.md` says that a reboot restores the previously
  persisted set.
* `wifi_deferred`: a connect request writes the driver's configuration before it
  asks whether it may run. If it is turned away while an earlier connect waits
  for STA_START, the earlier one connects to the refused network. The second
  connect gets in because a disconnect, refused by the driver that is not on yet,
  has answered the first.

Seen while modelling, and not the subject of a run:

* `docs/S31_PERIPHERAL_TEST.md:67-69` says that the tool rejects GPIO58/59
  (console); `valid_gpio` accepts them.
* `s31_rtos.h:83` calls `head` the "next free slot index"; it is the index of the
  oldest item.
* A restore that fails half way tries to remove every overlay and leaves the record, so
  one later durable apply replaces the persisted set (the reason for `drifted`
  and `tainted` in `S31Overlay`).
* A task that is deleted by another loses what it sets in its TLS afterwards:
  `tls_cleaned` is already set. A task stopped in a wait of its own destructor
  never runs the remaining ones (`DestroyedOnce` speaks of tasks that end by
  themselves).
* A deleter whose destructor waits has given up the gate, and
  `s31_rtos_task_release` takes none, so the control block may be freed meanwhile;
  `vTaskDelete` then reads `tls_dtor` and `linux_task` of it
  (`s31_rtos_core.c:502-510`, the action `ReadsFreed`). Nothing in the repository
  states that this cannot happen, so no property claims it.
* A notification that arrives as a wait times out loses its announcement: the
  wait resets *received* and returns `pdFAIL` (`s31_rtos_core.c:405-412`). Its
  bits stay in the value, and a next wait with an entry mask wipes them unseen
  (`BitsKept` is about tasks without entry masks).
* `app_main` compares the addresses of the linux and rootfs partitions with the
  ones it assumes, but not the OpenSBI partition's, nor does it ask that its size
  is a multiple of four (`main.c:402-434`): with a size of `4k + 1` to `4k + 3` an
  accepted FDT may begin in the last word before the slot and run into it.
* The write-backs of the zeroed SRAM may fail and are only logged
  (`main.c:334-342`); OpenSBI is entered all the same.
* `mtvec` is the loader's until OpenSBI replaces it, so a fault in OpenSBI's first
  instructions is recorded by `core1_early_trap` and parks hart 1 after its jump.
* `read_persist` cuts lines at 511 characters, and `restore` ignores the result
  of removing the overlays of a failed restore (`s31_overlay.c:80`, `:470`).
* Nothing wakes a `suspend_context`: `vTaskSuspend` ends only with an interrupted
  or stopped wait.
* A failed VHCI registration is reported as a failed enable, but leaves the
  controller enabled, so that every later enable fails.
* `resolve_family` of `wifi_connect.c` skips `NLMSG_ERROR` and hangs where the one
  of `wifi_scan.c` returns (`Stranded` in `ClientsEnd`). `wifi_scan` prints
  "waiting for completion", but sleeps six seconds.
* `set_powered`'s ten one-second tries are used up by unrelated events. A
  `START_DISCOVERY` that times out may still start a discovery nobody stops
  (`abandoned` in `DiscoveryEnded`).

## 7. Plan

Done: queues with abstract specification and refinement, semaphores, event
groups, notifications and task lifecycle, deadline arithmetic, locks, timers, the
radio stack with its Wi-Fi and Bluetooth requests, overlay tool, boot hand-off,
clients; proofs of every safety property of the runs.

Next: safety facts the liveness properties rest on, as theorems (that a sleeper
whose predicate holds has a runnable waker is proved; that a request which is
awaited has a step of the stack or of the driver enabled, that a client inside
a call has a deadline or an answer to come); a refinement for semaphores like
the one of the queues.

## 8. Running

    tlc -workers 2 -config MCQueue.cfg MCQueue
    tlapm S31QueueProofs.tla

`PROJECT.json` lists every run with its module and configuration, the source
lines of every definition, and the hazards the properties are aimed at.
