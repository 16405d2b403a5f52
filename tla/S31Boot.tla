------------------------------ MODULE S31Boot ------------------------------
(***************************************************************************)
(* The factory loader: app_main of bootloader/main/main.c on hart 0 and    *)
(* the trampoline of bootloader/main/core1_trampoline.S on hart 1.         *)
(*                                                                         *)
(* Hart 0 validates what the flash holds, prepares the memory both harts   *)
(* share, publishes the FDT address, resets hart 1 into the trampoline,    *)
(* polls a flag that hart 1 raises, and enters OpenSBI itself.  Hart 1 may *)
(* be slow, never come up, trap, or be reset alone at any moment, with the *)
(* SRAM left as it is; any failed check of hart 0 restarts the chip.       *)
(*                                                                         *)
(* A step is one stage of hart 0 or one stage of hart 1; before hart 1 is  *)
(* released nothing else runs, so the order of the stages is what counts.  *)
(***************************************************************************)
EXTENDS Integers

CONSTANTS
  Word,       \* the modulus of uint32_t arithmetic
  Base,       \* the flash offset that OPENSBI_XIP_ADDR shows
  Addresses,  \* the flash offsets and
  Sizes,      \* the sizes a partition table may give the OpenSBI partition
  NoFdt,      \* g_core1_fdt = 0, or a register not yet loaded
  MaxPolls,   \* rounds of the bounded wait (1000 in the code)
  MaxResets   \* bound: core-only resets of hart 1 in one boot

SlotSize == 4    \* OPENSBI_FDT_OFFSET_SLOT_SIZE

ASSUME SizeAssumption ==
  /\ Word \in Nat /\ Word > SlotSize
  /\ Base \in Nat /\ Addresses \subseteq Nat
  /\ Sizes \subseteq 0 .. Word - 1

ASSUME BoundAssumption ==
  NoFdt \notin 0 .. Word - 1 /\ MaxPolls \in Nat /\ MaxResets \in Nat

VARIABLES
  flash,     \* the image: partition rows and the contents the loader reads
  h0,        \* the stage hart 0 executes next
  fdt,       \* hart 0's fdt, as an offset from OPENSBI_XIP_ADDR
  polls,     \* rounds waited for hart 1
  h1,        \* the stage hart 1 executes next
  entered,   \* g_core1_trampoline_entered
  core1fdt,  \* g_core1_fdt
  done,      \* what has been prepared for the harts
  a1,        \* the FDT each hart passed when it jumped to OpenSBI
  mailbox,   \* the hart-1 early mailbox in shared SRAM
  jumps,     \* history: times hart 1 jumped to OpenSBI in this boot
  traps,     \* history: times core1_early_trap recorded a trap in this boot
  resets     \* core-only resets of hart 1 in this boot

loader == <<flash, h0, fdt, polls>>
shared == <<entered, core1fdt, mailbox>>
history == <<jumps, traps, resets>>
vars == <<loader, h1, shared, done, a1, history>>

Offsets == 0 .. Word - 1

\* slot is the word at the end of the OpenSBI partition, magic where an FDT
\* begins, counted from Base; linux and rootfs: found where they belong.
Images == [opensbi : BOOLEAN, address : Addresses, size : Sizes,
           slot : Offsets, magic : Offsets, linux : BOOLEAN, rootfs : BOOLEAN]

Stages0 == {"start", "apm", "map", "opensbi_part", "slot", "offset", "magic",
            "linux_part", "rootfs_part", "sram", "publish", "psram", "release",
            "poll", "verdict", "enter", "opensbi", "restart"}
Stages1 == {"off", "reset", "local", "jump",
            "opensbi",      \* in OpenSBI, with mtvec still at core1_early_trap
            "taken_over",   \* in OpenSBI, with OpenSBI's own mtvec
            "park", "trap"}
Preparations == {"apm", "watchdogs", "flash", "zeroed", "psram", "stack1", "stack0",
                 "local0", "local1"}

TypeOK == /\ flash \in Images
          /\ h0 \in Stages0
          /\ fdt \in Offsets \cup {NoFdt}
          /\ polls \in 0 .. MaxPolls
          /\ h1 \in Stages1
          /\ entered \in {0, 1}
          /\ core1fdt \in Offsets \cup {NoFdt}
          /\ done \in SUBSET Preparations
          /\ a1 \in [{0, 1} -> Offsets \cup {NoFdt}]
          /\ mailbox \in {"stale", "clear", "report"}
          /\ jumps \in Nat /\ traps \in Nat
          /\ resets \in 0 .. MaxResets

\* What a start of the chip leaves: the loader's globals are zero, the shared
\* SRAM holds whatever was there, hart 1 waits in the ROM.
Init == /\ flash \in Images
        /\ h0 = "start" /\ fdt = NoFdt /\ polls = 0
        /\ h1 = "off"
        /\ entered = 0 /\ core1fdt = NoFdt /\ mailbox = "stale"
        /\ done = {}
        /\ a1 = [h \in {0, 1} |-> NoFdt]
        /\ jumps = 0 /\ traps = 0 /\ resets = 0

-----------------------------------------------------------------------------
(* Hart 0: app_main *)

At(stage) == h0 = stage /\ UNCHANGED <<flash, h1, a1, history>>

\* A check of app_main: go on, or loader_restart.
Check(ok, next) == h0' = IF ok THEN next ELSE "restart"

\* prepare_linux_uart0, whose failure aborts, and the PSRAM probe.
CheckHardware ==
  /\ At("start")
  /\ \E uart, psram \in BOOLEAN : Check(uart /\ psram, "apm")
  /\ UNCHANGED <<fdt, polls, shared, done>>

\* disable_apm, then disable_watchdogs.
OpenPermissions ==
  /\ At("apm")
  /\ done' = done \cup {"apm", "watchdogs"}
  /\ h0' = "map"
  /\ UNCHANGED <<fdt, polls, shared>>

\* The whole flash, on the buses of both harts; its constants are aligned.
MapFlash ==
  /\ At("map")
  /\ done' = done \cup {"flash"}
  /\ h0' = "opensbi_part"
  /\ UNCHANGED <<fdt, polls, shared>>

\* Faulty: the size of the partition is not looked at.
FindOpensbiAnySize ==
  /\ At("opensbi_part")
  /\ Check(flash.opensbi, "slot")
  /\ UNCHANGED <<fdt, polls, shared, done>>

\* The address is not looked at, unlike that of linux and rootfs.
FindOpensbi ==
  /\ At("opensbi_part")
  /\ Check(flash.opensbi /\ flash.size >= SlotSize, "slot")
  /\ UNCHANGED <<fdt, polls, shared, done>>

\* esp_flash_read of the last word of the partition may fail.
ReadSlot ==
  /\ At("slot")
  /\ \E ok \in BOOLEAN : /\ Check(ok, "offset")
                         /\ fdt' = IF ok THEN flash.slot ELSE fdt
  /\ UNCHANGED <<polls, shared, done>>

\* part->size - OPENSBI_FDT_OFFSET_SLOT_SIZE, unsigned: it wraps below zero.
SlotStart == IF flash.size >= SlotSize THEN flash.size - SlotSize
                                       ELSE flash.size - SlotSize + Word

CheckOffset ==
  /\ At("offset")
  /\ Check(fdt < SlotStart /\ fdt % SlotSize = 0, "magic")
  /\ UNCHANGED <<fdt, polls, shared, done>>

CheckMagic ==
  /\ At("magic")
  /\ Check(fdt = flash.magic, "linux_part")
  /\ UNCHANGED <<fdt, polls, shared, done>>

FindLinux ==
  /\ At("linux_part")
  /\ Check(flash.linux, "rootfs_part")
  /\ UNCHANGED <<fdt, polls, shared, done>>

FindRootfs ==
  /\ At("rootfs_part")
  /\ Check(flash.rootfs, "sram")
  /\ UNCHANGED <<fdt, polls, shared, done>>

\* clear_sram_for_linux, the mailbox included.  Its two write-backs may fail;
\* that is logged and nothing depends on it, so "zeroed" promises the stores
\* only, which both harts see through the D-cache they share.
ClearSram ==
  /\ At("sram")
  /\ mailbox' = "clear"
  /\ done' = done \cup {"zeroed"}
  /\ h0' = "publish"
  /\ UNCHANGED <<fdt, polls, entered, core1fdt>>

\* The stores and the fence at the head of start_linux_on_core1.
Publish ==
  /\ At("publish")
  /\ core1fdt' = fdt /\ entered' = 0 /\ mailbox' = "clear"
  /\ h0' = "psram"
  /\ UNCHANGED <<fdt, polls, done>>

\* Faulty: hart 1 is released although its PSRAM could not be prepared.
PreparePsramRegardless ==
  /\ At("psram")
  /\ \E ok \in BOOLEAN : done' = IF ok THEN done \cup {"psram", "stack1"}
                                       ELSE done \cup {"stack1"}
  /\ h0' = "release"
  /\ UNCHANGED <<fdt, polls, shared>>

\* prepare_core1_cached_psram, then disable_core1_stack_protector.
PreparePsram ==
  /\ At("psram")
  /\ \E ok \in BOOLEAN : /\ Check(ok, "release")
                         /\ done' = IF ok THEN done \cup {"psram", "stack1"} ELSE done
  /\ UNCHANGED <<fdt, polls, shared>>

\* Stall, clock and boot address, reset and unstall of hart 1.
Release ==
  /\ h0 = "release"
  /\ h0' = "poll"
  /\ h1' = "reset"
  /\ UNCHANGED <<flash, fdt, polls, shared, done, a1, history>>

\* Faulty: the wait has no bound.
PollForever ==
  /\ At("poll")
  /\ h0' = IF entered # 0 THEN "verdict" ELSE "poll"
  /\ UNCHANGED <<fdt, polls, shared, done>>

Poll ==
  /\ At("poll")
  /\ IF polls < MaxPolls /\ entered = 0
       THEN polls' = polls + 1 /\ UNCHANGED h0
       ELSE h0' = "verdict" /\ UNCHANGED polls
  /\ UNCHANGED <<fdt, shared, done>>

\* Faulty: the loader goes on after a wait that ran out.
VerdictTrusting ==
  /\ At("verdict")
  /\ h0' = "enter"
  /\ done' = done \cup {"stack0"}
  /\ UNCHANGED <<fdt, polls, shared>>

\* Faulty: the mailbox is cleared when hart 1 has come up.
VerdictClearing ==
  /\ At("verdict")
  /\ Check(entered # 0, "enter")
  /\ mailbox' = "clear"
  /\ done' = IF entered # 0 THEN done \cup {"stack0"} ELSE done
  /\ UNCHANGED <<fdt, polls, entered, core1fdt>>

\* The flag is read once more, then disable_core0_stack_protector.
Verdict ==
  /\ At("verdict")
  /\ Check(entered # 0, "enter")
  /\ done' = IF entered # 0 THEN done \cup {"stack0"} ELSE done
  /\ UNCHANGED <<fdt, polls, shared>>

core0_enter_opensbi ==
  /\ h0 = "enter"
  /\ h0' = "opensbi"
  /\ done' = done \cup {"local0"}
  /\ a1' = [a1 EXCEPT ![0] = fdt]
  /\ UNCHANGED <<flash, fdt, polls, h1, shared, history>>

\* esp_restart resets both harts; the flash stays as it is.
loader_restart ==
  /\ h0 = "restart"
  /\ h0' = "start" /\ fdt' = NoFdt /\ polls' = 0
  /\ h1' = "off"
  /\ entered' = 0 /\ core1fdt' = NoFdt /\ mailbox' = "stale"
  /\ done' = {}
  /\ a1' = [h \in {0, 1} |-> NoFdt]
  /\ jumps' = 0 /\ traps' = 0 /\ resets' = 0
  /\ UNCHANGED flash

-----------------------------------------------------------------------------
(* Hart 1: core1_linux_trampoline *)

\* Faulty: the trampoline does not look at the flag.
TrampolineAlways ==
  /\ h1 = "reset"
  /\ entered' = 1 /\ h1' = "local"
  /\ UNCHANGED <<loader, core1fdt, mailbox, done, a1, history>>

\* The flag tells a first entry from one after a core-only reset.
Trampoline ==
  /\ h1 = "reset"
  /\ entered' = 1
  /\ h1' = IF entered # 0 THEN "park" ELSE "local"
  /\ UNCHANGED <<loader, core1fdt, mailbox, done, a1, history>>

\* CLIC, PMA and PMP of this hart.
PrepareHart1 ==
  /\ h1 = "local"
  /\ done' = done \cup {"local1"}
  /\ h1' = "jump"
  /\ UNCHANGED <<loader, shared, a1, history>>

JumpHart1 ==
  /\ h1 = "jump"
  /\ a1' = [a1 EXCEPT ![1] = core1fdt]
  /\ jumps' = jumps + 1
  /\ h1' = "opensbi"
  /\ UNCHANGED <<loader, shared, done, traps, resets>>

\* External: OpenSBI sets its own mtvec.
TakeOver ==
  /\ h1 = "opensbi"
  /\ h1' = "taken_over"
  /\ UNCHANGED <<loader, shared, done, a1, history>>

\* core1_early_trap: records the trap and parks.  mtvec stays there after the
\* jump.  Before the flag is up the trampoline touches only the SRAM that the
\* record itself needs, so that a trap there could not be recorded.
EarlyTrap ==
  /\ h1 \in {"local", "jump", "opensbi"}
  /\ traps' = traps + 1
  /\ h1' = "trap"
  /\ UNCHANGED <<loader, shared, done, a1, jumps, resets>>

\* External: OpenSBI on hart 1 leaves its diagnostics in the mailbox.
Report ==
  /\ h1 \in {"opensbi", "taken_over"}
  /\ mailbox' = "report"
  /\ UNCHANGED <<loader, h1, entered, core1fdt, done, a1, history>>

\* A reset of hart 1 alone: its registers are lost, the SRAM is not.
CoreReset ==
  /\ h1 # "off" /\ resets < MaxResets
  /\ resets' = resets + 1
  /\ h1' = "reset"
  /\ done' = done \ {"local1"}
  /\ a1' = [a1 EXCEPT ![1] = NoFdt]
  /\ UNCHANGED <<loader, shared, jumps, traps>>

-----------------------------------------------------------------------------
Hart0 == \/ CheckHardware \/ OpenPermissions \/ MapFlash
         \/ FindOpensbi \/ ReadSlot \/ CheckOffset \/ CheckMagic
         \/ FindLinux \/ FindRootfs \/ ClearSram \/ Publish
         \/ PreparePsram \/ Release \/ Poll \/ Verdict
         \/ core0_enter_opensbi \/ loader_restart

Hart1 == \/ Trampoline \/ PrepareHart1 \/ JumpHart1 \/ TakeOver \/ EarlyTrap
         \/ Report \/ CoreReset

Next == Hart0 \/ Hart1

Spec == Init /\ [][Next]_vars

\* Hart 0 runs; whether hart 1 ever does is what the poll is for.
FairSpec == Spec /\ WF_vars(Hart0)

-----------------------------------------------------------------------------
(* Properties *)

Inside(h) == IF h = 0 THEN h0 = "opensbi" ELSE h1 \in {"opensbi", "taken_over"}

SharedNeeds == {"apm", "watchdogs", "flash", "zeroed", "psram"}
Needs(h) == SharedNeeds \cup IF h = 0 THEN {"stack0", "local0"}
                                      ELSE {"stack1", "local1"}

(***************************************************************************)
(* A hart is in OpenSBI only after every preparation whose failure the     *)
(* loader does not ignore: the permissions, the flash mapping, the zeroed  *)
(* SRAM, the PSRAM mapping with its D-cache hand-off, and the hart's own   *)
(* protections, which a core-only reset undoes.  The write-back of the     *)
(* zeroed SRAM is not among them: clear_sram_for_linux goes on without it. *)
(***************************************************************************)
EntryPrepared == \A h \in {0, 1} : Inside(h) => Needs(h) \subseteq done

SlotOffset == flash.address + flash.size - SlotSize

(***************************************************************************)
(* Both harts enter OpenSBI with the address of one FDT, aligned and with  *)
(* its magic seen there, although hart 0 may time out, restart and race    *)
(* with hart 1.  When the OpenSBI partition is where the loader takes it   *)
(* to be, which app_main does not check, the FDT begins in it and before   *)
(* the offset slot, also for a size below the slot's; and when the size is *)
(* a multiple of four, which it does not check either, the whole magic     *)
(* lies before the slot.                                                   *)
(***************************************************************************)
ValidFdt ==
  \A h \in {0, 1} : Inside(h) =>
    /\ a1[h] = fdt /\ fdt = flash.magic /\ fdt % SlotSize = 0
    /\ flash.address = Base =>
         /\ Base + fdt \in flash.address .. SlotOffset - 1
         /\ flash.size % SlotSize = 0 => Base + fdt + SlotSize <= SlotOffset

(***************************************************************************)
(* Hart 1 hands over to OpenSBI at most once in a boot and records at most *)
(* one early trap, before or after the jump, however often it is reset     *)
(* alone: the trampoline is to "preserve the first failed handoff".        *)
(***************************************************************************)
FirstHandoffKept == jumps <= 1 /\ traps <= 1

(***************************************************************************)
(* Hart 0 becomes the boot hart only after hart 1 went through the head of *)
(* the trampoline in this very boot: it is not still in the ROM, and not   *)
(* at its first entry, unless a core-only reset has put it back there.     *)
(***************************************************************************)
HandshakeHeld ==
  h0 = "opensbi" => h1 # "off" /\ (h1 = "reset" => resets > 0)

(***************************************************************************)
(* What hart 1 reported in the mailbox is only lost with the whole chip:   *)
(* hart 0 clears it before it releases hart 1 and never after.             *)
(***************************************************************************)
ReportKept == [][mailbox = "report" => mailbox' = "report" \/ h0 = "restart"]_vars

(***************************************************************************)
(* Every boot is decided: hart 0 gets to OpenSBI or restarts the chip,     *)
(* also when hart 1 never answers.                                         *)
(***************************************************************************)
BootDecides == h0 = "start" ~> h0 \in {"opensbi", "restart"}
=============================================================================
