--------------------------- MODULE S31BootProofs ---------------------------
(***************************************************************************)
(* Proofs about S31Boot for every word size, every image, every length of  *)
(* the wait and every number of core-only resets of hart 1; and about      *)
(* S31Overlay, whose set of overlays each boot restores, for every set of  *)
(* overlays and pads.                                                      *)
(***************************************************************************)
EXTENDS S31Boot, S31Overlay, SequenceTheorems, WellFoundedInduction, TLAPS

\* Hart 0's stages from the one after each preparation; "restart" is in none.
FromMap == {"map", "opensbi_part", "slot", "offset", "magic", "linux_part",
            "rootfs_part", "sram", "publish", "psram", "release"}
FromOpensbi == FromMap \ {"map"}
Validated == {"linux_part", "rootfs_part", "sram", "publish", "psram", "release"}
Released == {"poll", "verdict", "enter", "opensbi"}

InFront == fdt < flash.size - SlotSize /\ fdt % SlotSize = 0

GoodFdt == /\ fdt \in Offsets
           /\ fdt = flash.magic
           /\ InFront

(***************************************************************************)
(* Where hart 0 is says what it has prepared and checked.  Once hart 1 is  *)
(* out of the ROM the same facts hang on hart 1 instead, because hart 0    *)
(* may by then be on its way to a restart.                                 *)
(***************************************************************************)
Stages ==
  /\ h0 \in FromMap => {"apm", "watchdogs"} \subseteq done
  /\ h0 \in FromOpensbi => "flash" \in done
  /\ h0 \in {"slot", "offset", "magic"} => flash.size >= SlotSize
  /\ h0 \in {"offset", "magic"} => fdt \in Offsets
  /\ h0 = "magic" => InFront
  /\ h0 \in Validated => GoodFdt
  /\ h0 \in {"publish", "psram", "release"} => "zeroed" \in done
  /\ h0 \in {"psram", "release"} => core1fdt = fdt
  /\ h0 = "release" => {"psram", "stack1"} \subseteq done /\ entered = 0
  /\ h0 = "psram" => entered = 0
  /\ h0 \in Released => h1 # "off"
  /\ h1 # "off" => h0 \in Released \cup {"restart"}
  /\ h0 \in {"enter", "opensbi"} => entered # 0 /\ "stack0" \in done
  /\ h0 = "opensbi" => "local0" \in done /\ a1[0] = fdt

Hart1Inv ==
  /\ h1 # "off" => /\ SharedNeeds \cup {"stack1"} \subseteq done
                   /\ GoodFdt
                   /\ core1fdt = fdt
  /\ h1 \in {"jump", "opensbi", "taken_over"} => "local1" \in done
  /\ h1 \in {"opensbi", "taken_over"} => a1[1] = core1fdt
  /\ mailbox = "report" => h1 # "off"

(***************************************************************************)
(* The flag as the record of the first pass through the trampoline: down,  *)
(* hart 1 has done nothing; up, hart 1 is at the head of the trampoline    *)
(* only after a core-only reset.  A hart that can still jump has done      *)
(* neither, and one that can still trap into core1_early_trap has not.     *)
(***************************************************************************)
FlagInv ==
  /\ entered = 0 => h1 \in {"off", "reset"} /\ jumps = 0 /\ traps = 0
  /\ entered # 0 => h1 # "off"
  /\ entered # 0 /\ h1 = "reset" => resets > 0
  /\ h1 \in {"off", "local", "jump"} => jumps = 0 /\ traps = 0
  /\ h1 = "opensbi" => traps = 0
  /\ jumps <= 1 /\ traps <= 1

IndInv == TypeOK /\ Stages /\ Hart1Inv /\ FlagInv

\* The loader starts in the invariant.
LEMMA InitIndInv == Init => IndInv
<1>. SUFFICES ASSUME Init PROVE IndInv
  OBVIOUS
<1>. USE BoundAssumption DEF Init
<1>1. TypeOK
  <2>1. entered \in {0, 1}
    OBVIOUS
  <2>2. fdt \in Offsets \cup {NoFdt} /\ core1fdt \in Offsets \cup {NoFdt}
    OBVIOUS
  <2>3. a1 \in [{0, 1} -> Offsets \cup {NoFdt}]
    OBVIOUS
  <2>4. done \in SUBSET Preparations
    OBVIOUS
  <2>5. polls \in 0 .. MaxPolls /\ resets \in 0 .. MaxResets /\ jumps \in Nat /\ traps \in Nat
    OBVIOUS
  <2>. QED  BY <2>1, <2>2, <2>3, <2>4, <2>5 DEF TypeOK, Stages0, Stages1
<1>2. Stages
  BY DEF Stages, FromMap, FromOpensbi, Validated, Released
<1>3. Hart1Inv /\ FlagInv
  BY DEF Hart1Inv, FlagInv
<1>. QED  BY <1>1, <1>2, <1>3 DEF IndInv

\* An aligned offset below the slot leaves room for a whole word before it.
LEMMA RoomBeforeSlot ==
  ASSUME NEW x \in Nat, NEW s \in Nat, x % 4 = 0, s % 4 = 0, x < s - 4
  PROVE  x + 4 <= s - 4
OBVIOUS

\* What the proofs use of the words and of the partition table.
LEMMA SizesFit ==
  ASSUME flash \in Images
  PROVE  flash.size \in Nat /\ Base \in Nat /\ Word \in Nat
<1>1. flash.size \in Sizes
  BY DEF Images
<1>2. Word \in Nat /\ Base \in Nat /\ Sizes \subseteq 0 .. Word - 1
  BY SizeAssumption
<1>3. flash.size \in 0 .. Word - 1
  BY <1>1, <1>2
<1>. QED  BY <1>2, <1>3

\* Every step keeps the loader's variables in range.
LEMMA NextTypeOK == IndInv /\ [Next]_vars => TypeOK'
<1>. SUFFICES ASSUME IndInv, [Next]_vars PROVE TypeOK'
  OBVIOUS
<1>. USE BoundAssumption DEF IndInv, TypeOK
<1>1. CASE UNCHANGED vars
  BY <1>1 DEF vars, loader, shared, history
<1>2. ASSUME CheckHardware \/ OpenPermissions \/ MapFlash \/ FindOpensbi \/ CheckOffset
               \/ CheckMagic \/ FindLinux \/ FindRootfs
      PROVE  TypeOK'
  BY <1>2 DEF CheckHardware, OpenPermissions, MapFlash, FindOpensbi, CheckOffset, CheckMagic,
       FindLinux, FindRootfs, At, Check, history, shared, Stages0, Preparations
<1>3. ASSUME ReadSlot \/ ClearSram \/ Publish \/ PreparePsram \/ Release PROVE TypeOK'
  BY <1>3 DEF ReadSlot, ClearSram, Publish, PreparePsram, Release, At, Check, history,
       shared, Stages0, Stages1, Preparations, Images
<1>4. ASSUME Poll PROVE TypeOK'
  <2>1. polls' \in 0 .. MaxPolls /\ h0' \in Stages0
    BY <1>4 DEF Poll, At, Stages0
  <2>. QED  BY <1>4, <2>1 DEF Poll, At, history, shared
<1>5. ASSUME Verdict PROVE TypeOK'
  BY <1>5 DEF Verdict, At, Check, history, shared, Stages0, Preparations
<1>6. ASSUME core0_enter_opensbi PROVE TypeOK'
  BY <1>6 DEF core0_enter_opensbi, history, shared, Stages0, Preparations
<1>7. ASSUME loader_restart PROVE TypeOK'
  BY <1>7 DEF loader_restart, Stages0, Stages1
<1>8. ASSUME Trampoline \/ PrepareHart1 \/ Report PROVE TypeOK'
  BY <1>8 DEF Trampoline, PrepareHart1, Report, loader, shared, history,
       Stages1, Preparations
<1>9. ASSUME EarlyTrap \/ TakeOver PROVE TypeOK'
  BY <1>9 DEF EarlyTrap, TakeOver, loader, shared, history, Stages1
<1>10. ASSUME JumpHart1 \/ CoreReset PROVE TypeOK'
  BY <1>10 DEF JumpHart1, CoreReset, loader, shared, history, Stages1
<1>. QED  BY <1>1, <1>2, <1>3, <1>4, <1>5, <1>6, <1>7, <1>8, <1>9, <1>10
         DEF Next, Hart0, Hart1

\* Every step of hart 0 keeps what its stage says; hart 1's steps take nothing away.
LEMMA NextStages == IndInv /\ [Next]_vars => Stages'
<1>. SUFFICES ASSUME IndInv, [Next]_vars PROVE Stages'
  OBVIOUS
<1>. USE DEF IndInv, Stages, FromMap, FromOpensbi, Validated, Released, GoodFdt, InFront, shared
<1>1. CASE UNCHANGED vars
  BY <1>1 DEF vars, loader
<1>2. ASSUME CheckHardware \/ OpenPermissions \/ MapFlash \/ FindOpensbi
      PROVE  Stages'
  BY <1>2 DEF CheckHardware, OpenPermissions, MapFlash, FindOpensbi, At, Check
<1>3. ASSUME ReadSlot PROVE Stages'
  BY <1>3 DEF ReadSlot, At, Check, TypeOK, Images
<1>4. ASSUME CheckOffset PROVE Stages'
  <2>1. fdt \in Nat /\ flash.size \in Nat /\ flash.size >= SlotSize
    BY <1>4, SizesFit DEF CheckOffset, At, TypeOK, Offsets
  <2>2. h0' = "magic" => InFront'
    BY <1>4, <2>1 DEF CheckOffset, At, Check, SlotStart, InFront
  <2>. QED  BY <1>4, <2>2 DEF CheckOffset, At, Check
<1>5. ASSUME CheckMagic \/ FindLinux \/ FindRootfs PROVE Stages'
  BY <1>5 DEF CheckMagic, FindLinux, FindRootfs, At, Check
<1>6. ASSUME ClearSram \/ Publish \/ PreparePsram \/ Release PROVE Stages'
  BY <1>6 DEF ClearSram, Publish, PreparePsram, Release, At, Check
<1>7. ASSUME Poll \/ Verdict PROVE Stages'
  BY <1>7 DEF Poll, Verdict, At, Check
<1>8. ASSUME core0_enter_opensbi \/ loader_restart PROVE Stages'
  BY <1>8 DEF core0_enter_opensbi, loader_restart, TypeOK
<1>9. ASSUME Trampoline \/ PrepareHart1 \/ JumpHart1 \/ TakeOver \/ EarlyTrap \/ Report
             \/ CoreReset
      PROVE  Stages'
  BY <1>9 DEF Trampoline, PrepareHart1, JumpHart1, TakeOver, EarlyTrap, Report, CoreReset, loader, TypeOK
<1>. QED  BY <1>1, <1>2, <1>3, <1>4, <1>5, <1>6, <1>7, <1>8, <1>9 DEF Next, Hart0, Hart1

\* Hart 1 finds everything prepared at its release, and hart 0 takes nothing back.
LEMMA NextHart1Inv == IndInv /\ [Next]_vars => Hart1Inv'
<1>. SUFFICES ASSUME IndInv, [Next]_vars PROVE Hart1Inv'
  OBVIOUS
<1>. USE DEF IndInv, Hart1Inv, GoodFdt, InFront, shared, SharedNeeds
<1>1. CASE UNCHANGED vars
  BY <1>1 DEF vars, loader
<1>2. ASSUME CheckHardware \/ OpenPermissions \/ MapFlash \/ FindOpensbi \/ ReadSlot
               \/ CheckOffset \/ CheckMagic \/ FindLinux \/ FindRootfs \/ ClearSram
               \/ Publish \/ PreparePsram
      PROVE  Hart1Inv'
  \* Hart 1 is still in the ROM.
  <2>1. h0 \notin Released \cup {"restart"} /\ h1' = h1 /\ mailbox' \in {mailbox, "clear"}
    BY <1>2 DEF CheckHardware, OpenPermissions, MapFlash, FindOpensbi, ReadSlot, CheckOffset,
         CheckMagic, FindLinux, FindRootfs, ClearSram, Publish, PreparePsram, At, Released
  <2>. QED  BY <2>1 DEF Stages
<1>3. ASSUME Release PROVE Hart1Inv'
  BY <1>3 DEF Release, Stages, FromMap, FromOpensbi, Validated
<1>4. ASSUME Poll \/ Verdict \/ core0_enter_opensbi \/ loader_restart PROVE Hart1Inv'
  BY <1>4 DEF Poll, Verdict, core0_enter_opensbi, loader_restart, At, TypeOK
<1>5. ASSUME Trampoline \/ PrepareHart1 \/ JumpHart1 \/ TakeOver \/ EarlyTrap \/ Report
             \/ CoreReset
      PROVE  Hart1Inv'
  BY <1>5 DEF Trampoline, PrepareHart1, JumpHart1, TakeOver, EarlyTrap, Report, CoreReset, loader, TypeOK
<1>. QED  BY <1>1, <1>2, <1>3, <1>4, <1>5 DEF Next, Hart0, Hart1

\* The flag goes up with the first pass and only a restart takes it down.
LEMMA NextFlagInv == IndInv /\ [Next]_vars => FlagInv'
<1>. SUFFICES ASSUME IndInv, [Next]_vars PROVE FlagInv'
  OBVIOUS
<1>. USE DEF IndInv, FlagInv, shared, history
<1>1. CASE UNCHANGED vars
  BY <1>1 DEF vars
<1>2. ASSUME CheckHardware \/ OpenPermissions \/ MapFlash \/ FindOpensbi \/ ReadSlot
               \/ CheckOffset \/ CheckMagic \/ FindLinux \/ FindRootfs \/ ClearSram
               \/ PreparePsram \/ Poll \/ Verdict \/ core0_enter_opensbi
      PROVE  FlagInv'
  BY <1>2 DEF CheckHardware, OpenPermissions, MapFlash, FindOpensbi, ReadSlot, CheckOffset,
       CheckMagic, FindLinux, FindRootfs, ClearSram, PreparePsram, Poll, Verdict,
       core0_enter_opensbi, At
<1>3. ASSUME Publish \/ Release PROVE FlagInv'
  BY <1>3 DEF Publish, Release, At, Stages, Released
<1>4. ASSUME loader_restart PROVE FlagInv'
  BY <1>4 DEF loader_restart
<1>5. ASSUME Trampoline \/ PrepareHart1 \/ JumpHart1 \/ TakeOver \/ EarlyTrap \/ Report
             \/ CoreReset
      PROVE  FlagInv'
  BY <1>5 DEF Trampoline, PrepareHart1, JumpHart1, TakeOver, EarlyTrap, Report, CoreReset, TypeOK
<1>. QED  BY <1>1, <1>2, <1>3, <1>4, <1>5 DEF Next, Hart0, Hart1

\* IndInv is inductive.
THEOREM Invariance == Spec => []IndInv
<1>1. IndInv /\ [Next]_vars => IndInv'
  BY NextTypeOK, NextStages, NextHart1Inv, NextFlagInv DEF IndInv
<1>. QED  BY <1>1, InitIndInv, PTL DEF Spec

(***************************************************************************)
(* Neither hart is in OpenSBI without what the loader insists on, for any  *)
(* image and any sequence of failures and core-only resets; of the failed  *)
(* write-backs of the SRAM, which it only logs, nothing is said.           *)
(***************************************************************************)
THEOREM EntriesPrepared == Spec => []EntryPrepared
<1>1. IndInv => EntryPrepared
  BY DEF IndInv, Stages, Hart1Inv, Released, EntryPrepared, Inside, Needs, SharedNeeds
<1>. QED  BY <1>1, Invariance, PTL

(***************************************************************************)
(* The FDT both harts pass to OpenSBI is the one whose magic was seen, for *)
(* every word size, every partition table and every content of the slot;   *)
(* it begins before the slot of a partition that lies where the loader     *)
(* takes it to be, and its magic ends there too when the size is aligned.  *)
(***************************************************************************)
THEOREM FdtAlwaysValid == Spec => []ValidFdt
<1>1. IndInv => ValidFdt
  <2>. SUFFICES ASSUME IndInv, NEW h \in {0, 1}, Inside(h)
                PROVE  /\ a1[h] = fdt /\ fdt = flash.magic /\ fdt % SlotSize = 0
                       /\ flash.address = Base =>
                            /\ Base + fdt \in flash.address .. SlotOffset - 1
                            /\ flash.size % SlotSize = 0 => Base + fdt + SlotSize <= SlotOffset
    BY DEF ValidFdt
  <2>1. a1[h] = fdt /\ GoodFdt
    BY DEF IndInv, Stages, Hart1Inv, Released, Inside
  <2>2. fdt \in Nat /\ flash.size \in Nat /\ Base \in Nat
    BY <2>1, SizesFit DEF IndInv, TypeOK, Offsets, GoodFdt
  <2>3. fdt < flash.size - 4 /\ fdt % 4 = 0
    BY <2>1 DEF GoodFdt, InFront, SlotSize
  <2>4. flash.size % 4 = 0 => fdt + 4 <= flash.size - 4
    BY <2>2, <2>3, RoomBeforeSlot
  <2>. QED  BY <2>1, <2>2, <2>3, <2>4 DEF GoodFdt, SlotOffset, SlotSize
<1>. QED  BY <1>1, Invariance, PTL

(***************************************************************************)
(* Hart 1 hands over at most once and records at most one early trap in a  *)
(* boot, however often it is reset alone.                                  *)
(***************************************************************************)
THEOREM HandoffOnce == Spec => []FirstHandoffKept
<1>1. IndInv => FirstHandoffKept
  BY DEF IndInv, FlagInv, FirstHandoffKept
<1>. QED  BY <1>1, Invariance, PTL

(***************************************************************************)
(* Hart 0 becomes the boot hart only after hart 1's first pass through the *)
(* trampoline, for every length of the wait.                               *)
(***************************************************************************)
THEOREM HandshakeAlways == Spec => []HandshakeHeld
<1>1. IndInv => HandshakeHeld
  BY DEF IndInv, Stages, FlagInv, HandshakeHeld
<1>. QED  BY <1>1, Invariance, PTL

(***************************************************************************)
(* The mailbox hart 1 reported in is cleared by a restart only: hart 0     *)
(* writes it in two stages, both with hart 1 still in the ROM.             *)
(***************************************************************************)
THEOREM ReportNeverLost == Spec => ReportKept
<1>1. IndInv /\ [Next]_vars =>
        [mailbox = "report" => mailbox' = "report" \/ h0 = "restart"]_vars
  <2>. SUFFICES ASSUME IndInv, Next, mailbox = "report", h0 # "restart"
                PROVE  mailbox' = mailbox
    OBVIOUS
  <2>1. h0 \in Released
    BY DEF IndInv, Hart1Inv, Stages
  <2>2. CASE Hart0
    BY <2>1, <2>2 DEF Hart0, CheckHardware, OpenPermissions, MapFlash, FindOpensbi, ReadSlot,
         CheckOffset, CheckMagic, FindLinux, FindRootfs, ClearSram, Publish, PreparePsram,
         Release, Poll, Verdict, core0_enter_opensbi, loader_restart, At, Released, shared
  <2>3. CASE Hart1
    BY <2>3 DEF Hart1, Trampoline, PrepareHart1, JumpHart1, TakeOver, EarlyTrap, Report, CoreReset, shared
  <2>. QED  BY <2>2, <2>3 DEF Next
<1>. QED  BY <1>1, Invariance, PTL DEF Spec, ReportKept

-----------------------------------------------------------------------------
(***************************************************************************)
(* The second half of a start: the overlay set that S03s31-overlay         *)
(* restores, for every set of overlays and pads and every sequence of      *)
(* commands, failed writes and power losses.                               *)
(***************************************************************************)
\* No overlay has two lines.
NamedOnce(lines) == \A i, j \in 1 .. Len(lines) : lines[i].name = lines[j].name => i = j

\* No two active overlays hold the same pad.
PadsHeldOnce == \A m, n \in Names : active[m] = active[n] /\ active[m] # NoPad => m = n

\* A file, when there is one, fits into the config buffer and names no overlay twice.
FileOK(file) == file # NoFile => Len(file) <= MaxLines /\ NamedOnce(file)

\* What an invocation that is under way is about to record is what is active.
RecordOK ==
  /\ pc = "boot" => active = Nothing /\ current = NoFile /\ ~drifted
  /\ pc = "writeCurrent" /\ ~drifted => LinesOf(edit) = ActiveLines
  /\ pc = "writePersist" => current = edit
  /\ pc = "writePersist" /\ ~drifted => LinesOf(edit) = ActiveLines

\* A restore has applied the lines it is past, and none of those to come.
RestoreOK == pc = "restore" =>
  /\ persisted # NoFile
  /\ ActiveLines \cup LinesOf(edit) = LinesOf(persisted)
  /\ \A i \in 1 .. Len(edit) : active[edit[i].name] = NoPad

(***************************************************************************)
(* The record is right between invocations only because what each of them  *)
(* is about to write is, and a set that is written can be applied again    *)
(* only because the kernel lends a pad once: two lines with one pad would  *)
(* have to be of one overlay, and update_config leaves it one line.        *)
(***************************************************************************)
OverlayInv ==
  /\ OverlayTypeOK /\ PadsHeldOnce
  /\ FileOK(current) /\ FileOK(persisted) /\ NamedOnce(edit)
  /\ RecordOK /\ RestoreOK /\ RecordedIsActive /\ Restorable

-----------------------------------------------------------------------------
(* update_config *)

\* A set of numbers that is not empty has a least one.
LEMMA LeastOf ==
  ASSUME NEW S \in SUBSET Nat, S # {}
  PROVE  \E k \in S : \A j \in S : k <= j
<1>1. PICK k \in S : \A j \in S : ~(<<j, k>> \in OpToRel(<, Nat))
  BY NatLessThanWellFounded, WFMin
<1>2. ASSUME NEW j \in S PROVE k <= j
  <2>1. k \in Nat /\ j \in Nat  OBVIOUS
  <2>2. ~(j < k)  BY <1>1, <2>1, Zenon DEF OpToRel
  <2> QED  BY <2>1, <2>2
<1> QED  BY <1>2

\* The loop over the lines: what it has copied after each of them.
LEMMA CopiedEquation ==
  ASSUME NEW S, NEW s \in Seq(S), NEW n
  PROVE  LET f == Copied(s, n)
         IN  /\ f[0] = << >>
             /\ \A i \in 1 .. Len(s) :
                   f[i] = IF s[i].name = n THEN f[i - 1] ELSE Append(f[i - 1], s[i])
<1> DEFINE Loop(g, k) == g = [i \in 0 .. k |-> IF i = 0 THEN << >>
                                               ELSE IF s[i].name = n THEN g[i - 1]
                                               ELSE Append(g[i - 1], s[i])]
           f == Copied(s, n)
<1>1. f = CHOOSE g : Loop(g, Len(s))
  BY Zenon DEF Copied
<1>2. Len(s) \in Nat  BY LenProperties
<1>3. \E g : Loop(g, Len(s))
  <2> DEFINE Bad == {k \in 0 .. Len(s) : ~ \E g : Loop(g, k)}
  <2>1. SUFFICES ASSUME Bad # {} PROVE FALSE
    <3>1. Len(s) \notin Bad  BY <2>1
    <3>2. Len(s) \in 0 .. Len(s)  BY <1>2
    <3> QED  BY <3>1, <3>2
  <2>2. Bad \in SUBSET Nat  BY <1>2
  <2>3. PICK k \in Bad : \A j \in Bad : k <= j
    <3> HIDE DEF Bad
    <3> QED  BY <2>1, <2>2, LeastOf
  <2>4. k \in 0 .. Len(s) /\ k \in Nat /\ ~ \E g : Loop(g, k)  BY <2>2, <2>3
  <2>5. CASE k = 0
    <3>1. Loop([i \in 0 .. 0 |-> << >>], 0)  OBVIOUS
    <3> QED  BY <2>4, <2>5, <3>1
  <2>6. CASE k # 0
    <3>1. k - 1 \in 0 .. Len(s) /\ ~(k <= k - 1)  BY <1>2, <2>4, <2>6
    <3>2. PICK g : Loop(g, k - 1)  BY <2>3, <3>1
    <3> DEFINE h == [i \in 0 .. k |-> IF i < k THEN g[i]
                                      ELSE IF s[k].name = n THEN g[k - 1] ELSE Append(g[k - 1], s[k])]
    <3>3. \A i \in 0 .. k - 1 : h[i] = g[i]  BY <2>4
    <3>4. h = [i \in 0 .. k |-> IF i = 0 THEN << >>
                                ELSE IF s[i].name = n THEN h[i - 1] ELSE Append(h[i - 1], s[i])]
      <4>1. ASSUME NEW i \in 0 .. k
            PROVE  h[i] = IF i = 0 THEN << >>
                          ELSE IF s[i].name = n THEN h[i - 1] ELSE Append(h[i - 1], s[i])
        <5>1. CASE i = k
          <6>1. h[k] = IF s[k].name = n THEN g[k - 1] ELSE Append(g[k - 1], s[k])
            BY <2>4
          <6>2. h[k - 1] = g[k - 1]  BY <2>4, <2>6
          <6> HIDE DEF h
          <6> QED  BY <2>6, <5>1, <6>1, <6>2
        <5>2. CASE i # k
          <6>1. i \in 0 .. k - 1  BY <2>4, <5>2
          <6>2. h[i] = g[i]  BY <3>3, <6>1
          <6>3. g[i] = IF i = 0 THEN << >>
                       ELSE IF s[i].name = n THEN g[i - 1] ELSE Append(g[i - 1], s[i])
            <7> HIDE DEF h
            <7> QED  BY <3>2, <6>1
          <6>4. i # 0 => h[i - 1] = g[i - 1]
            <7>1. i # 0 => i - 1 \in 0 .. k - 1  BY <2>4, <6>1
            <7> QED  BY <3>3, <7>1
          <6> HIDE DEF h
          <6> QED  BY <6>2, <6>3, <6>4
        <5> QED  BY <5>1, <5>2
      <4>2. h = [i \in 0 .. k |-> h[i]]  OBVIOUS
      <4> HIDE DEF h
      <4> QED  BY <4>1, <4>2
    <3>5. Loop(h, k)
      <4> HIDE DEF h
      <4> QED  BY <3>4
    <3> QED  BY <2>4, <3>5
  <2> QED  BY <2>5, <2>6
<1>4. Loop(f, Len(s))
  <2> HIDE DEF f, Loop
  <2> QED  BY <1>1, <1>3
<1> HIDE DEF f
<1>5. f[0] = << >>  BY <1>2, <1>4
<1>6. ASSUME NEW i \in 1 .. Len(s)
      PROVE  f[i] = IF s[i].name = n THEN f[i - 1] ELSE Append(f[i - 1], s[i])
  <2>1. i \in 0 .. Len(s) /\ i # 0  BY <1>2
  <2> QED  BY <1>4, <2>1
<1> QED  BY <1>5, <1>6 DEF f

Elements(lines) == {lines[i] : i \in 1 .. Len(lines)}

LEMMA AppendElements ==
  ASSUME NEW S, NEW s \in Seq(S), NEW e \in S
  PROVE  /\ Append(s, e) \in Seq(S) /\ Len(Append(s, e)) = Len(s) + 1 /\ Len(s) \in Nat
         /\ \A i \in 1 .. Len(s) : Append(s, e)[i] = s[i]
         /\ Append(s, e)[Len(s) + 1] = e
         /\ \A i : i \in 1 .. Len(s) + 1 <=> i \in 1 .. Len(s) \/ i = Len(s) + 1
         /\ Elements(Append(s, e)) = Elements(s) \cup {e}
<1>1. /\ Append(s, e) \in Seq(S) /\ Len(Append(s, e)) = Len(s) + 1 /\ Len(s) \in Nat
      /\ \A i \in 1 .. Len(s) : Append(s, e)[i] = s[i]
      /\ Append(s, e)[Len(s) + 1] = e
  BY AppendProperties, LenProperties
<1>2. \A i : i \in 1 .. Len(s) + 1 <=> i \in 1 .. Len(s) \/ i = Len(s) + 1
  BY <1>1
<1> DEFINE t == Append(s, e)
<1>3. /\ Len(t) = Len(s) + 1 /\ \A i \in 1 .. Len(s) : t[i] = s[i]
      /\ t[Len(s) + 1] = e
  BY <1>1
<1> HIDE DEF t
<1>4. Elements(t) = Elements(s) \cup {e}
  BY <1>2, <1>3 DEF Elements
<1> QED  BY <1>1, <1>2, <1>4 DEF t

\* An overlay that has no line yet is added to a set without a second line for any.
LEMMA AppendNamed ==
  ASSUME NEW S, NEW s \in Seq(S), NEW e \in S, NamedOnce(s),
         \A l \in Elements(s) : l.name # e.name
  PROVE  NamedOnce(Append(s, e))
<1> DEFINE t == Append(s, e)
<1>1. /\ Len(t) = Len(s) + 1 /\ \A i \in 1 .. Len(s) : t[i] = s[i]
      /\ t[Len(s) + 1] = e
      /\ \A i : i \in 1 .. Len(s) + 1 <=> i \in 1 .. Len(s) \/ i = Len(s) + 1
  BY AppendElements
<1> HIDE DEF t
<1>2. NamedOnce(t)  BY <1>1 DEF NamedOnce, Elements
<1> QED  BY <1>2 DEF t

\* update_config's loop drops exactly the lines of n, whatever the record holds,
\* and makes no second line of one.
LEMMA CopiedFacts ==
  ASSUME NEW S, NEW s \in Seq(S), NEW n
  PROVE  LET t == Copied(s, n)[Len(s)]
         IN  /\ t \in Seq(S) /\ Len(t) <= Len(s)
             /\ Elements(t) = {l \in Elements(s) : l.name # n}
             /\ NamedOnce(s) => NamedOnce(t)
<1> DEFINE f == Copied(s, n)
           Good(k) == /\ f[k] \in Seq(S) /\ Len(f[k]) <= k
                      /\ Elements(f[k]) = {l \in {s[i] : i \in 1 .. k} : l.name # n}
                      /\ NamedOnce(s) => NamedOnce(f[k])
           Bad == {k \in 0 .. Len(s) : ~Good(k)}
<1>1. /\ f[0] = << >>
      /\ \A i \in 1 .. Len(s) : f[i] = IF s[i].name = n THEN f[i - 1] ELSE Append(f[i - 1], s[i])
  BY CopiedEquation
<1> HIDE DEF f
<1>2. Len(s) \in Nat /\ \A i \in 1 .. Len(s) : s[i] \in S
  BY LenProperties, ElementOfSeq
<1>3. Good(0)
  <2>1. f[0] \in Seq(S) /\ Len(f[0]) = 0  BY <1>1, EmptySeq
  <2>2. \A i \in 1 .. 0 : FALSE  OBVIOUS
  <2>3. \A i \in 1 .. Len(f[0]) : FALSE  BY <2>1, <2>2, Zenon
  <2>4. Elements(f[0]) = {l \in {s[i] : i \in 1 .. 0} : l.name # n}
    BY <2>2, <2>3, Zenon DEF Elements
  <2>5. NamedOnce(f[0])  BY <2>3, Zenon DEF NamedOnce
  <2> QED  BY <2>1, <2>4, <2>5
<1>4. ASSUME NEW k \in 1 .. Len(s), Good(k - 1) PROVE Good(k)
  <2>1. k \in Nat /\ k - 1 \in Nat /\ s[k] \in S  BY <1>2
  <2>2. \A i : i \in 1 .. k <=> i \in 1 .. (k - 1) \/ i = k  BY <2>1
  <2>3. {s[i] : i \in 1 .. k} = {s[i] : i \in 1 .. (k - 1)} \cup {s[k]}
    BY <2>2, Zenon
  <2> DEFINE t == f[k - 1]
  <2>4. /\ t \in Seq(S) /\ Len(t) <= k - 1 /\ Len(t) \in Nat
        /\ Elements(t) = {l \in {s[i] : i \in 1 .. (k - 1)} : l.name # n}
        /\ NamedOnce(s) => NamedOnce(t)
    BY <1>4, LenProperties
  <2>5. f[k] = IF s[k].name = n THEN t ELSE Append(t, s[k])  BY <1>1
  <2> HIDE DEF t
  <2>6. CASE s[k].name = n
    <3>1. f[k] = t /\ Len(t) <= k  BY <2>1, <2>4, <2>5, <2>6
    <3>2. Elements(t) = {l \in {s[i] : i \in 1 .. k} : l.name # n}
      BY <2>3, <2>4, <2>6
    <3> QED  BY <2>4, <3>1, <3>2
  <2>7. CASE s[k].name # n
    <3>1. f[k] = Append(t, s[k])  BY <2>5, <2>7
    <3>2. f[k] \in Seq(S) /\ Len(f[k]) = Len(t) + 1 /\ Elements(f[k]) = Elements(t) \cup {s[k]}
      BY <2>1, <2>4, <3>1, AppendElements
    <3>3. Len(f[k]) <= k  BY <2>1, <2>4, <3>2
    <3>4. Elements(f[k]) = {l \in {s[i] : i \in 1 .. k} : l.name # n}
      BY <2>3, <2>4, <2>7, <3>2
    <3>5. ASSUME NamedOnce(s) PROVE NamedOnce(f[k])
      <4>1. ASSUME NEW l \in Elements(t) PROVE l.name # s[k].name
        <5>1. PICK i \in 1 .. (k - 1) : l = s[i]  BY <2>4
        <5>2. i \in 1 .. Len(s) /\ k \in 1 .. Len(s) /\ i # k  BY <1>2, <2>1
        <5> QED  BY <3>5, <5>1, <5>2 DEF NamedOnce
      <4> QED  BY <2>1, <2>4, <3>1, <3>5, <4>1, AppendNamed
    <3> QED  BY <3>2, <3>3, <3>4, <3>5
  <2> QED  BY <2>6, <2>7
<1>5. Bad = {}
  <2>1. SUFFICES ASSUME Bad # {} PROVE FALSE  OBVIOUS
  <2>2. Bad \in SUBSET Nat  BY <1>2
  <2>3. PICK k \in Bad : \A j \in Bad : k <= j
    <3> HIDE DEF Bad
    <3> QED  BY <2>1, <2>2, LeastOf
  <2>4. k \in 0 .. Len(s) /\ ~Good(k)  BY <2>3
  <2> HIDE DEF Good
  <2>5. k # 0  BY <1>3, <2>4
  <2>6. k \in 1 .. Len(s) /\ k - 1 \in 0 .. Len(s) /\ ~(k <= k - 1)  BY <1>2, <2>4, <2>5
  <2>7. Good(k - 1)  BY <2>3, <2>6
  <2> QED  BY <1>4, <2>4, <2>6, <2>7
<1>6. Good(Len(s))
  <2>1. Len(s) \in 0 .. Len(s)  BY <1>2
  <2> HIDE DEF Good
  <2> QED  BY <1>5, <2>1
<1>7. Elements(s) = {s[i] : i \in 1 .. Len(s)}  BY DEF Elements
<1> QED  BY <1>6, <1>7 DEF f

LEMMA FileLines ==
  ASSUME NEW s \in Seq(Line)
  PROVE  LinesOf(s) = Elements(s) /\ s # NoFile
BY OverlayAssumption DEF LinesOf, Elements

LEMMA EmptyLines ==
  /\ << >> \in Seq(Line) /\ Len(<< >>) = 0 /\ << >> # NoFile
  /\ LinesOf(<< >>) = {} /\ NamedOnce(<< >>)
  /\ LinesOf(NoFile) = {}
<1>1. << >> \in Seq(Line) /\ Len(<< >>) = 0  BY EmptySeq
<1>2. Elements(<< >>) = {} /\ NamedOnce(<< >>)  BY DEF Elements, NamedOnce
<1>3. LinesOf(NoFile) = {}  BY DEF LinesOf
<1> QED  BY <1>1, <1>2, <1>3, FileLines

\* The record as read_current returns it.
LEMMA RecordedFacts ==
  ASSUME OverlayTypeOK, FileOK(current)
  PROVE  /\ Recorded \in Seq(Line)
         /\ Len(Recorded) \in Nat /\ Len(Recorded) <= MaxLines
         /\ NamedOnce(Recorded)
         /\ Elements(Recorded) = LinesOf(current)
<1>1. CASE current = NoFile
  <2>1. Recorded = << >>  BY <1>1 DEF Recorded
  <2>2. Elements(<< >>) = LinesOf(current)
    BY <1>1, EmptyLines, FileLines
  <2> QED  BY <2>1, <2>2, EmptyLines, OverlayAssumption
<1>2. CASE current # NoFile
  <2>1. Recorded = current /\ current \in Seq(Line)
    BY <1>2 DEF Recorded, OverlayTypeOK
  <2>2. Len(current) \in Nat  BY <2>1, LenProperties
  <2> QED  BY <1>2, <2>1, <2>2, FileLines DEF FileOK
<1> QED  BY <1>1, <1>2

\* update_config after an apply: the overlay's old line, if any, gives way to l.
LEMMA UpdateReplaces ==
  ASSUME OverlayTypeOK, FileOK(current), NEW l \in Line
  PROVE  LET u == update_config(l.name, <<l>>)
         IN  /\ u \in Seq(Line) /\ NamedOnce(u)
             /\ LinesOf(u) = {m \in LinesOf(current) : m.name # l.name} \cup {l}
<1> DEFINE t == Copied(Recorded, l.name)[Len(Recorded)]
           u == update_config(l.name, <<l>>)
<1>1. /\ t \in Seq(Line) /\ NamedOnce(t)
      /\ Elements(t) = {m \in LinesOf(current) : m.name # l.name}
  BY RecordedFacts, CopiedFacts
<1>2. u = t \o <<l>>  BY DEF update_config
<1> HIDE DEF t, u
<1>3. u = Append(t, l)  BY <1>1, <1>2, AppendIsConcat
<1>4. u \in Seq(Line) /\ Elements(u) = Elements(t) \cup {l}
  BY <1>1, <1>3, AppendElements
<1>5. NamedOnce(u)  BY <1>1, <1>3, AppendNamed
<1> QED  BY <1>1, <1>4, <1>5, FileLines DEF u

\* update_config after a remove.
LEMMA UpdateDrops ==
  ASSUME OverlayTypeOK, FileOK(current), NEW n \in Names
  PROVE  LET u == update_config(n, << >>)
         IN  /\ u \in Seq(Line) /\ Len(u) <= MaxLines /\ NamedOnce(u)
             /\ LinesOf(u) = {m \in LinesOf(current) : m.name # n}
<1> DEFINE t == Copied(Recorded, n)[Len(Recorded)]
           u == update_config(n, << >>)
<1>1. /\ t \in Seq(Line) /\ NamedOnce(t) /\ Len(t) <= Len(Recorded)
      /\ Elements(t) = {m \in LinesOf(current) : m.name # n}
  BY RecordedFacts, CopiedFacts
<1>2. u = t \o << >>  BY DEF update_config
<1> HIDE DEF t, u
<1>3. u = t  BY <1>1, <1>2, ConcatEmptySeq
<1>4. Len(t) <= MaxLines
  <2>1. Len(t) \in Nat /\ Len(Recorded) \in Nat /\ Len(Recorded) <= MaxLines
        /\ MaxLines \in Nat
    BY <1>1, RecordedFacts, LenProperties, OverlayAssumption
  <2> QED  BY <1>1, <2>1
<1> QED  BY <1>1, <1>3, <1>4, FileLines DEF u

-----------------------------------------------------------------------------
(* The kernel's overlays *)

\* An overlay that is applied takes its new pad and gives up its old one.
LEMMA ActiveApplied ==
  ASSUME OverlayTypeOK, NEW l \in Line,
         active' = [active EXCEPT ![l.name] = l.gpio]
  PROVE  ActiveLines' = {m \in ActiveLines : m.name # l.name} \cup {l}
<1>1. l.name \in Names /\ l.gpio \in Gpios  BY DEF Line
<1>2. \A n \in Names : active'[n] = IF n = l.name THEN l.gpio ELSE active[n]
  BY <1>1 DEF OverlayTypeOK
<1>3. ASSUME NEW m \in Line
      PROVE  active'[m.name] = m.gpio <=> (active[m.name] = m.gpio /\ m.name # l.name) \/ m = l
  <2>1. m.name \in Names  BY DEF Line
  <2>2. m = l <=> m.name = l.name /\ m.gpio = l.gpio  BY DEF Line
  <2> QED  BY <1>2, <2>1, <2>2
<1>4. ActiveLines' = {m \in Line : active'[m.name] = m.gpio}
  BY DEF ActiveLines
<1> QED  BY <1>3, <1>4 DEF ActiveLines

LEMMA ActiveRemoved ==
  ASSUME OverlayTypeOK, NEW n \in Names,
         active' = [active EXCEPT ![n] = NoPad]
  PROVE  ActiveLines' = {m \in ActiveLines : m.name # n}
<1>1. \A k \in Names : active'[k] = IF k = n THEN NoPad ELSE active[k]
  BY DEF OverlayTypeOK
<1>2. \A m \in Line : m.name \in Names /\ m.gpio \in Gpios  BY DEF Line
<1>3. \A m \in Line : active'[m.name] = m.gpio <=> active[m.name] = m.gpio /\ m.name # n
  BY <1>1, <1>2, OverlayAssumption
<1>4. ActiveLines' = {m \in Line : active'[m.name] = m.gpio}
  BY DEF ActiveLines
<1> QED  BY <1>3, <1>4 DEF ActiveLines

LEMMA NothingActive == {m \in Line : Nothing[m.name] = m.gpio} = {}
BY OverlayAssumption DEF Nothing, Line

\* The kernel lends a pad once: what it refuses is what would lend it twice.
LEMMA PadsKept ==
  ASSUME OverlayTypeOK, PadsHeldOnce, NEW l \in Line, ~Conflicts(l),
         active' = [active EXCEPT ![l.name] = l.gpio]
  PROVE  PadsHeldOnce'
<1>1. l.name \in Names  BY DEF Line
<1>2. \A n \in Names : active'[n] = IF n = l.name THEN l.gpio ELSE active[n]
  BY <1>1 DEF OverlayTypeOK
<1> QED  BY <1>1, <1>2 DEF PadsHeldOnce, Conflicts

-----------------------------------------------------------------------------
(* The inductive invariant of the overlay tool *)

LEMMA InitOverlayInv ==
  ASSUME OverlayInit
  PROVE  OverlayInv
<1> USE DEF OverlayInit
<1>1. OverlayTypeOK
  <2>1. edit \in Seq(Line)  BY EmptyLines
  <2>2. Len(edit) <= MaxLines  BY EmptyLines, OverlayAssumption
  <2>3. active \in [Names -> Gpios \cup {NoPad}]  BY DEF Nothing
  <2> QED  BY <2>1, <2>2, <2>3 DEF OverlayTypeOK, PCs
<1>2. PadsHeldOnce  BY DEF PadsHeldOnce, Nothing
<1>3. FileOK(current) /\ FileOK(persisted) /\ NamedOnce(edit)  BY EmptyLines DEF FileOK
<1>4. RecordOK /\ RestoreOK  BY DEF RecordOK, RestoreOK
<1>5. RecordedIsActive /\ Restorable
  BY DEF RecordedIsActive, Restorable
<1> QED  BY <1>1, <1>2, <1>3, <1>4, <1>5 DEF OverlayInv

\* An invocation that ends leaves a record that is right, or knows that it is not.
LEMMA ExitKeeps ==
  ASSUME Exit, PadsHeldOnce', FileOK(current)', FileOK(persisted)',
         active' \in [Names -> Gpios \cup {NoPad}],
         current' \in Seq(Line) \cup {NoFile}, persisted' \in Seq(Line) \cup {NoFile},
         drifted' \in BOOLEAN, tainted' \in BOOLEAN, temporary' \subseteq Line,
         ~drifted' => LinesOf(current') = ActiveLines',
         Restorable'
  PROVE  OverlayInv'
<1> USE DEF Exit
<1>1. OverlayTypeOK'
  <2>1. edit' \in Seq(Line)  BY EmptyLines
  <2>2. Len(edit') <= MaxLines  BY EmptyLines, OverlayAssumption
  <2> QED  BY <2>1, <2>2 DEF OverlayTypeOK, PCs
<1>2. NamedOnce(edit)'  BY EmptyLines DEF NamedOnce
<1>3. RecordOK' /\ RestoreOK'  BY DEF RecordOK, RestoreOK
<1>4. RecordedIsActive'
  BY DEF RecordedIsActive, LinesOf, ActiveLines
<1> QED  BY <1>1, <1>2, <1>3, <1>4 DEF OverlayInv

\* An invocation goes on to record a set, that of what is active if the record
\* was right before.
LEMMA RecordsKeeps ==
  ASSUME pc' = "writeCurrent", PadsHeldOnce',
         OverlayInv, UNCHANGED <<current, persisted, tainted>>,
         edit' \in Seq(Line), Len(edit') <= MaxLines, NamedOnce(edit'),
         active' \in [Names -> Gpios \cup {NoPad}],
         durable' \in BOOLEAN, drifted' \in BOOLEAN, temporary' \subseteq Line,
         ~drifted' => LinesOf(edit') = ActiveLines'
  PROVE  OverlayInv'
<1>1. OverlayTypeOK'
  BY DEF OverlayInv, OverlayTypeOK, PCs
<1>2. FileOK(current)' /\ FileOK(persisted)' /\ Restorable'
  BY DEF OverlayInv, FileOK, NamedOnce, Restorable
<1>3. NamedOnce(edit)'  BY DEF NamedOnce
<1>4. RecordOK'  BY DEF RecordOK, LinesOf, ActiveLines
<1>5. RestoreOK' /\ RecordedIsActive'  BY DEF RestoreOK, RecordedIsActive
<1> QED  BY <1>1, <1>2, <1>3, <1>4, <1>5 DEF OverlayInv

\* A set that was active can be applied again.
LEMMA ActiveIsRestorable ==
  ASSUME PadsHeldOnce, NEW s \in Seq(Line), NamedOnce(s),
         LinesOf(s) = ActiveLines,
         NEW i \in 1 .. Len(s), NEW j \in 1 .. Len(s),
         s[i].name = s[j].name \/ s[i].gpio = s[j].gpio
  PROVE  i = j
<1>1. s[i] \in ActiveLines /\ s[j] \in ActiveLines
  BY FileLines DEF Elements
<1>2. CASE s[i].gpio = s[j].gpio
  <2>1. /\ s[i].name \in Names /\ s[j].name \in Names /\ s[i].gpio \in Gpios
        /\ active[s[i].name] = s[i].gpio /\ active[s[j].name] = s[j].gpio
    BY <1>1 DEF ActiveLines, Line
  <2>2. s[i].name = s[j].name
    BY <1>2, <2>1, OverlayAssumption DEF PadsHeldOnce
  <2> QED  BY <2>2 DEF NamedOnce
<1>3. CASE s[i].name = s[j].name  BY <1>3 DEF NamedOnce
<1> QED  BY <1>2, <1>3

LEMMA NextOverlayInv ==
  ASSUME OverlayInv, [OverlayNext]_overlayVars
  PROVE  OverlayInv'
<1>0. /\ OverlayTypeOK /\ PadsHeldOnce /\ FileOK(current) /\ FileOK(persisted) /\ NamedOnce(edit)
      /\ RecordOK /\ RestoreOK /\ RecordedIsActive /\ Restorable
  BY DEF OverlayInv
<1>1. CASE UNCHANGED overlayVars
  <2>1. UNCHANGED <<active, current, persisted, pc, edit, durable, drifted, tainted, temporary>>
    BY <1>1 DEF overlayVars
  <2>2. OverlayTypeOK' /\ PadsHeldOnce'  BY <1>0, <2>1 DEF OverlayTypeOK, PadsHeldOnce
  <2>3. FileOK(current)' /\ FileOK(persisted)' /\ NamedOnce(edit)'
    BY <1>0, <2>1 DEF FileOK, NamedOnce
  <2>4. RecordOK' /\ RestoreOK'
    <3>1. ActiveLines' = ActiveLines  BY <2>1 DEF ActiveLines
    <3>2. RecordOK'  BY <1>0, <2>1, <3>1 DEF RecordOK, LinesOf
    <3>3. LinesOf(edit)' = LinesOf(edit) /\ LinesOf(persisted)' = LinesOf(persisted)
      BY <2>1 DEF LinesOf
    <3>4. RestoreOK /\ UNCHANGED <<active, persisted, pc, edit>>  BY <1>0, <2>1
    <3>5. RestoreOK'  BY <3>1, <3>3, <3>4, Zenon DEF RestoreOK
    <3> QED  BY <3>2, <3>5
  <2>5. RecordedIsActive' /\ Restorable'
    BY <1>0, <2>1 DEF RecordedIsActive, Restorable, LinesOf, ActiveLines
  <2> QED  BY <2>2, <2>3, <2>4, <2>5 DEF OverlayInv
<1>2. ASSUME NEW l \in Line, NEW b \in BOOLEAN, Apply(l, b) PROVE OverlayInv'
  <2> DEFINE u == update_config(l.name, <<l>>)
  <2>1. /\ pc = "idle" /\ ~Conflicts(l) /\ active' = [active EXCEPT ![l.name] = l.gpio]
        /\ UNCHANGED <<current, persisted, tainted>>
        /\ \/ drifted' = TRUE /\ Exit
           \/ Fits(u) /\ pc' = "writeCurrent" /\ edit' = u /\ durable' = b /\ UNCHANGED drifted
    BY <1>2 DEF Apply
  <2>2. /\ u \in Seq(Line) /\ NamedOnce(u)
        /\ LinesOf(u) = {m \in LinesOf(current) : m.name # l.name} \cup {l}
    BY <1>0, UpdateReplaces
  <2> HIDE DEF u
  <2>3. PadsHeldOnce'  BY <1>0, <2>1, PadsKept
  <2>4. active' \in [Names -> Gpios \cup {NoPad}]
    BY <1>0, <2>1 DEF OverlayTypeOK, Line
  <2>5. temporary' \subseteq Line
    BY <1>0, <1>2 DEF Apply, TemporaryWithout, OverlayTypeOK
  <2>6. CASE drifted' = TRUE /\ Exit
    <3>1. FileOK(current)' /\ FileOK(persisted)' /\ Restorable'
      BY <1>0, <2>1 DEF FileOK, NamedOnce, Restorable
    <3>2. /\ current' \in Seq(Line) \cup {NoFile} /\ persisted' \in Seq(Line) \cup {NoFile}
          /\ tainted' \in BOOLEAN
      BY <1>0, <2>1 DEF OverlayTypeOK
    <3> QED  BY <2>3, <2>4, <2>5, <2>6, <3>1, <3>2, ExitKeeps
  <2>7. CASE Fits(u) /\ pc' = "writeCurrent" /\ edit' = u /\ durable' = b /\ UNCHANGED drifted
    <3>1. ~drifted => LinesOf(current) = ActiveLines
      BY <1>0, <2>1 DEF RecordedIsActive
    <3>2. ~drifted' => LinesOf(edit') = ActiveLines'
      BY <1>0, <2>1, <2>2, <2>7, <3>1, ActiveApplied
    <3>3. drifted' \in BOOLEAN  BY <1>0, <2>7 DEF OverlayTypeOK
    <3>4. Len(edit') <= MaxLines  BY <2>7 DEF Fits
    <3> QED  BY <2>1, <2>2, <2>3, <2>4, <2>5, <2>7, <3>2, <3>3, <3>4, RecordsKeeps
  <2> QED  BY <2>1, <2>6, <2>7
<1>3. ASSUME NEW n \in Names, NEW b \in BOOLEAN, Remove(n, b) PROVE OverlayInv'
  <2> DEFINE u == update_config(n, << >>)
  <2>1. /\ pc = "idle" /\ pc' = "writeCurrent" /\ active' = [active EXCEPT ![n] = NoPad]
        /\ durable' = b /\ edit' = u /\ UNCHANGED <<current, persisted, drifted, tainted>>
    BY <1>3 DEF Remove
  <2>2. /\ u \in Seq(Line) /\ Len(u) <= MaxLines /\ NamedOnce(u)
        /\ LinesOf(u) = {m \in LinesOf(current) : m.name # n}
    BY <1>0, UpdateDrops
  <2> HIDE DEF u
  <2>3. PadsHeldOnce'
    <3>1. \A k \in Names : active'[k] = IF k = n THEN NoPad ELSE active[k]
      BY <1>0, <2>1 DEF OverlayTypeOK
    <3> QED  BY <1>0, <3>1 DEF PadsHeldOnce
  <2>4. active' \in [Names -> Gpios \cup {NoPad}] /\ drifted' \in BOOLEAN
    BY <1>0, <2>1 DEF OverlayTypeOK
  <2>5. temporary' \subseteq Line
    BY <1>0, <1>3 DEF Remove, TemporaryWithout, OverlayTypeOK
  <2>6. ~drifted' => LinesOf(edit') = ActiveLines'
    <3>1. ~drifted => LinesOf(current) = ActiveLines
      BY <1>0, <2>1 DEF RecordedIsActive
    <3> QED  BY <1>0, <2>1, <2>2, <3>1, ActiveRemoved
  <2> QED  BY <2>1, <2>2, <2>3, <2>4, <2>5, <2>6, RecordsKeeps
<1>4. ASSUME active' = Nothing
      PROVE  /\ ActiveLines' = {} /\ PadsHeldOnce' /\ active' \in [Names -> Gpios \cup {NoPad}]
  <2>1. ActiveLines' = {}  BY <1>4, NothingActive DEF ActiveLines
  <2>2. PadsHeldOnce' /\ active' \in [Names -> Gpios \cup {NoPad}]
    BY <1>4 DEF PadsHeldOnce, Nothing
  <2> QED  BY <2>1, <2>2
<1>5. ASSUME NEW b \in BOOLEAN, RemoveAll(b) PROVE OverlayInv'
  <2>1. /\ pc' = "writeCurrent" /\ active' = Nothing /\ durable' = b /\ edit' = << >>
        /\ drifted' = FALSE /\ temporary' = {} /\ UNCHANGED <<current, persisted, tainted>>
    BY <1>5 DEF RemoveAll
  <2>2. LinesOf(edit') = ActiveLines'  BY <1>4, <2>1, EmptyLines
  <2>3. edit' \in Seq(Line) /\ Len(edit') <= MaxLines /\ NamedOnce(edit')
    BY <2>1, EmptyLines, OverlayAssumption
  <2> QED  BY <1>4, <2>1, <2>2, <2>3, RecordsKeeps
<1>6. CASE WriteCurrent
  <2>1. /\ pc = "writeCurrent" /\ current' = edit
        /\ UNCHANGED <<active, persisted, drifted, tainted, temporary>>
        /\ \/ pc' = "writePersist" /\ UNCHANGED <<edit, durable>>
           \/ Exit
    BY <1>6 DEF WriteCurrent, overlayHistory
  <2>2. edit \in Seq(Line) /\ Len(edit) <= MaxLines  BY <1>0 DEF OverlayTypeOK
  <2>3. ~drifted => LinesOf(edit) = ActiveLines  BY <1>0, <2>1 DEF RecordOK
  <2>4. FileOK(current)' /\ FileOK(persisted)' /\ PadsHeldOnce' /\ Restorable'
    BY <1>0, <2>1, <2>2 DEF FileOK, NamedOnce, PadsHeldOnce, Restorable
  <2>5. ActiveLines' = ActiveLines  BY <2>1 DEF ActiveLines
  <2>6. CASE Exit
    <3>1. /\ active' \in [Names -> Gpios \cup {NoPad}]
          /\ current' \in Seq(Line) \cup {NoFile} /\ persisted' \in Seq(Line) \cup {NoFile}
          /\ drifted' \in BOOLEAN /\ tainted' \in BOOLEAN /\ temporary' \subseteq Line
      BY <1>0, <2>1, <2>2 DEF OverlayTypeOK
    <3>2. ~drifted' => LinesOf(current') = ActiveLines'
      BY <2>1, <2>3, <2>5
    <3> QED  BY <2>4, <2>6, <3>1, <3>2, ExitKeeps
  <2>7. CASE pc' = "writePersist" /\ UNCHANGED <<edit, durable>>
    <3>1. OverlayTypeOK'  BY <1>0, <2>1, <2>2, <2>7 DEF OverlayTypeOK, PCs
    <3>2. NamedOnce(edit)'  BY <1>0, <2>7 DEF NamedOnce
    <3>3. RecordOK'  BY <2>1, <2>3, <2>5, <2>7 DEF RecordOK, LinesOf
    <3>4. RestoreOK' /\ RecordedIsActive'  BY <2>7 DEF RestoreOK, RecordedIsActive
    <3> QED  BY <2>4, <3>1, <3>2, <3>3, <3>4 DEF OverlayInv
  <2> QED  BY <2>1, <2>6, <2>7
<1>7. ASSUME Exit, UNCHANGED <<active, current, persisted, tainted, temporary>>,
             drifted' \in BOOLEAN,
             ~drifted' => LinesOf(current) = ActiveLines
      PROVE  OverlayInv'
  <2>1. FileOK(current)' /\ FileOK(persisted)' /\ PadsHeldOnce' /\ Restorable'
    BY <1>0, <1>7 DEF FileOK, NamedOnce, PadsHeldOnce, Restorable
  <2>2. /\ active' \in [Names -> Gpios \cup {NoPad}]
        /\ current' \in Seq(Line) \cup {NoFile} /\ persisted' \in Seq(Line) \cup {NoFile}
        /\ tainted' \in BOOLEAN /\ temporary' \subseteq Line
    BY <1>0, <1>7 DEF OverlayTypeOK
  <2>3. ~drifted' => LinesOf(current') = ActiveLines'
    BY <1>7 DEF ActiveLines
  <2> QED  BY <1>7, <2>1, <2>2, <2>3, ExitKeeps
<1>8. CASE WriteCurrentFails
  BY <1>7, <1>8 DEF WriteCurrentFails
<1>9. CASE WritePersistFails
  <2>1. ~drifted => LinesOf(current) = ActiveLines
    BY <1>0, <1>9 DEF WritePersistFails, RecordOK
  <2> QED  BY <1>0, <1>7, <1>9, <2>1 DEF WritePersistFails, overlayHistory, OverlayTypeOK
<1>10. CASE RestoreNothing
  <2>1. ~drifted => LinesOf(current) = ActiveLines
    <3>1. CASE pc = "boot"
      <4>1. active = Nothing /\ current = NoFile  BY <1>0, <3>1 DEF RecordOK
      <4>2. ActiveLines = {}  BY <4>1, NothingActive DEF ActiveLines
      <4> QED  BY <4>1, <4>2, EmptyLines
    <3>2. CASE pc = "idle"  BY <1>0, <3>2 DEF RecordedIsActive
    <3> QED  BY <1>10, <3>1, <3>2 DEF RestoreNothing
  <2> QED  BY <1>0, <1>7, <1>10, <2>1 DEF RestoreNothing, overlayHistory, OverlayTypeOK
<1>11. CASE WritePersist
  <2>1. /\ pc = "writePersist" /\ persisted' = edit /\ tainted' = drifted /\ Exit
        /\ UNCHANGED <<active, current, drifted, temporary>>
    BY <1>11 DEF WritePersist
  <2>2. edit \in Seq(Line) /\ Len(edit) <= MaxLines  BY <1>0 DEF OverlayTypeOK
  <2>3. current = edit /\ (~drifted => LinesOf(edit) = ActiveLines)
    BY <1>0, <2>1 DEF RecordOK
  <2>4. FileOK(current)' /\ FileOK(persisted)' /\ PadsHeldOnce'
    BY <1>0, <2>1, <2>2 DEF FileOK, NamedOnce, PadsHeldOnce
  <2>5. Restorable'
    <3>1. ~drifted => \A i, j \in 1 .. Len(edit) :
                         edit[i].name = edit[j].name \/ edit[i].gpio = edit[j].gpio => i = j
      BY <1>0, <2>2, <2>3, ActiveIsRestorable
    <3> QED  BY <2>1, <3>1 DEF Restorable
  <2>6. /\ active' \in [Names -> Gpios \cup {NoPad}]
        /\ current' \in Seq(Line) \cup {NoFile} /\ persisted' \in Seq(Line) \cup {NoFile}
        /\ drifted' \in BOOLEAN /\ tainted' \in BOOLEAN /\ temporary' \subseteq Line
    BY <1>0, <2>1, <2>2 DEF OverlayTypeOK
  <2>7. ~drifted' => LinesOf(current') = ActiveLines'
    BY <2>1, <2>3 DEF ActiveLines
  <2> QED  BY <2>1, <2>4, <2>5, <2>6, <2>7, ExitKeeps
<1>12. CASE RestoreBegin
  <2>1. /\ persisted # NoFile /\ active' = Nothing /\ edit' = persisted /\ durable' = FALSE
        /\ pc' = "restore" /\ temporary' = {} /\ UNCHANGED <<current, persisted, drifted, tainted>>
    BY <1>12 DEF RestoreBegin
  <2>2. persisted \in Seq(Line) /\ Len(persisted) <= MaxLines /\ NamedOnce(persisted)
    BY <1>0, <2>1 DEF OverlayTypeOK, FileOK
  <2>3. OverlayTypeOK'
    BY <1>0, <1>4, <2>1, <2>2 DEF OverlayTypeOK, PCs
  <2>4. FileOK(current)' /\ FileOK(persisted)' /\ NamedOnce(edit)' /\ Restorable'
    BY <1>0, <2>1, <2>2 DEF FileOK, NamedOnce, Restorable
  <2>5. RecordOK' /\ RecordedIsActive'  BY <2>1 DEF RecordOK, RecordedIsActive
  <2>6. RestoreOK'
    <3>1. \A i \in 1 .. Len(edit') : active'[edit'[i].name] = NoPad
      <4>1. \A i \in 1 .. Len(persisted) : persisted[i].name \in Names
        <5>1. \A i \in 1 .. Len(persisted) : persisted[i] \in Line
          BY <2>2, ElementOfSeq
        <5> QED  BY <5>1 DEF Line
      <4> QED  BY <2>1, <4>1 DEF Nothing
    <3>2. ActiveLines' \cup LinesOf(edit') = LinesOf(persisted')
      BY <1>4, <2>1
    <3> QED  BY <2>1, <3>1, <3>2 DEF RestoreOK, LinesOf
  <2> QED  BY <1>4, <2>1, <2>3, <2>4, <2>5, <2>6 DEF OverlayInv
<1>13. CASE RestoreLine
  <2> DEFINE l == Head(edit)
  <2>1. /\ pc = "restore" /\ edit # << >> /\ ~Conflicts(l)
        /\ active' = [active EXCEPT ![l.name] = l.gpio] /\ edit' = Tail(edit)
        /\ UNCHANGED <<current, persisted, pc, durable, drifted, tainted, temporary>>
    BY <1>13 DEF RestoreLine, overlayHistory
  <2>2. /\ edit \in Seq(Line) /\ Len(edit) <= MaxLines /\ Len(edit) \in Nat \ {0}
        /\ MaxLines \in Nat
    BY <1>0, <2>1, LenProperties, EmptySeq, OverlayAssumption DEF OverlayTypeOK
  <2>3. /\ l = edit[1] /\ l \in Line /\ Tail(edit) \in Seq(Line)
        /\ Len(Tail(edit)) = Len(edit) - 1
        /\ \A i \in 1 .. Len(Tail(edit)) : Tail(edit)[i] = edit[i + 1]
    BY <2>1, <2>2, HeadTailProperties
  <2> HIDE DEF l
  <2>4. /\ edit' \in Seq(Line) /\ Len(edit') = Len(edit) - 1
        /\ \A i \in 1 .. Len(edit') : edit'[i] = edit[i + 1]
    BY <2>1, <2>3
  <2>5. \A i \in 1 .. Len(edit') : i + 1 \in 1 .. Len(edit) /\ i + 1 # 1  BY <2>2, <2>4
  <2>6. NamedOnce(edit)'
    <3> SUFFICES ASSUME NEW i \in 1 .. Len(edit'), NEW j \in 1 .. Len(edit'),
                        edit'[i].name = edit'[j].name
                 PROVE  i = j
      BY DEF NamedOnce
    <3>1. i + 1 = j + 1  BY <1>0, <2>4, <2>5 DEF NamedOnce
    <3>2. i \in Nat /\ j \in Nat  BY <2>2, <2>4
    <3> QED  BY <3>1, <3>2
  <2>7. Elements(edit) = Elements(edit') \cup {l}
    <3>1. \A i \in 1 .. Len(edit) : i = 1 \/ (i - 1 \in 1 .. Len(edit') /\ (i - 1) + 1 = i)
      BY <2>2, <2>4
    <3>2. \A i \in 1 .. Len(edit) : i = 1 \/ (i - 1 \in 1 .. Len(edit') /\ edit[i] = edit'[i - 1])
      BY <2>4, <3>1
    <3>3. 1 \in 1 .. Len(edit)  BY <2>2
    <3> QED  BY <2>3, <2>4, <2>5, <3>2, <3>3 DEF Elements
  <2>8. PadsHeldOnce'  BY <1>0, <2>1, <2>3, PadsKept
  <2>9. OverlayTypeOK'
    <3>1. active' \in [Names -> Gpios \cup {NoPad}]
      BY <1>0, <2>1, <2>3 DEF OverlayTypeOK, Line
    <3>2. Len(edit') <= MaxLines  BY <2>2, <2>4
    <3> QED  BY <1>0, <2>1, <2>4, <3>1, <3>2 DEF OverlayTypeOK
  <2>10. FileOK(current)' /\ FileOK(persisted)' /\ Restorable'
    BY <1>0, <2>1 DEF FileOK, NamedOnce, Restorable
  <2>11. RecordOK' /\ RecordedIsActive'  BY <2>1 DEF RecordOK, RecordedIsActive
  <2>12. RestoreOK'
    <3>1. /\ persisted # NoFile
          /\ ActiveLines \cup LinesOf(edit) = LinesOf(persisted)
          /\ \A i \in 1 .. Len(edit) : active[edit[i].name] = NoPad
      BY <1>0, <2>1 DEF RestoreOK
    <3>2. 1 \in 1 .. Len(edit) /\ l.name \in Names  BY <2>2, <2>3 DEF Line
    <3>3. \A m \in ActiveLines : m.name # l.name
      <4>1. active[l.name] = NoPad  BY <2>3, <3>1, <3>2
      <4> QED  BY <4>1, OverlayAssumption DEF ActiveLines, Line
    <3>4. ActiveLines' = ActiveLines \cup {l}
      BY <1>0, <2>1, <2>3, <3>3, ActiveApplied
    <3>5. LinesOf(edit) = Elements(edit) /\ LinesOf(edit') = Elements(edit')
      BY <2>2, <2>4, FileLines
    <3>6. ActiveLines' \cup LinesOf(edit') = LinesOf(persisted)
      BY <2>7, <3>1, <3>4, <3>5
    <3>7. ASSUME NEW i \in 1 .. Len(edit') PROVE active'[edit'[i].name] = NoPad
      <4>1. edit'[i] = edit[i + 1] /\ i + 1 \in 1 .. Len(edit) /\ i + 1 # 1  BY <2>4, <2>5
      <4>2. edit[i + 1].name # l.name  BY <1>0, <2>3, <3>2, <4>1 DEF NamedOnce
      <4>3. edit[i + 1].name \in Names
        <5>1. edit[i + 1] \in Line  BY <2>2, <4>1, ElementOfSeq
        <5> QED  BY <5>1 DEF Line
      <4>4. active'[edit[i + 1].name] = active[edit[i + 1].name]
        BY <1>0, <2>1, <4>2, <4>3 DEF OverlayTypeOK
      <4> QED  BY <3>1, <4>1, <4>4
    <3> QED  BY <2>1, <3>1, <3>6, <3>7 DEF RestoreOK, LinesOf
  <2> QED  BY <2>6, <2>8, <2>9, <2>10, <2>11, <2>12 DEF OverlayInv
<1>14. CASE RestoreFails
  <2>1. /\ \/ active' = Nothing /\ drifted' = (Recorded # << >>)
           \/ active' = active /\ drifted' = TRUE
        /\ Exit /\ UNCHANGED <<current, persisted, tainted, temporary>>
    BY <1>14 DEF RestoreFails
  <2>2. FileOK(current)' /\ FileOK(persisted)' /\ Restorable'
    BY <1>0, <2>1 DEF FileOK, NamedOnce, Restorable
  <2>3. /\ current' \in Seq(Line) \cup {NoFile} /\ persisted' \in Seq(Line) \cup {NoFile}
        /\ drifted' \in BOOLEAN /\ tainted' \in BOOLEAN /\ temporary' \subseteq Line
    BY <1>0, <2>1 DEF OverlayTypeOK
  <2>4. ~drifted' => LinesOf(current') = ActiveLines'
    <3> SUFFICES ASSUME ~drifted' PROVE LinesOf(current) = {}
      BY <1>4, <2>1
    <3>1. Recorded = << >>  BY <2>1
    <3> QED  BY <1>0, <3>1, RecordedFacts, EmptyLines, FileLines
  <2>5. PadsHeldOnce' /\ active' \in [Names -> Gpios \cup {NoPad}]
    <3>1. CASE active' = Nothing
      BY <1>4, <3>1
    <3>2. CASE active' = active
      BY <1>0, <3>2 DEF PadsHeldOnce, OverlayTypeOK
    <3> QED  BY <2>1, <3>1, <3>2
  <2> QED  BY <2>1, <2>2, <2>3, <2>4, <2>5, ExitKeeps
<1>15. CASE RestoreDone
  <2>1. /\ pc = "restore" /\ edit = << >> /\ edit' = persisted /\ drifted' = FALSE
        /\ pc' = "writeCurrent" /\ UNCHANGED <<active, current, persisted, durable, tainted, temporary>>
    BY <1>15 DEF RestoreDone
  <2>2. persisted # NoFile /\ ActiveLines = LinesOf(persisted)
    BY <1>0, <2>1, EmptyLines DEF RestoreOK
  <2>3. persisted \in Seq(Line) /\ Len(persisted) <= MaxLines /\ NamedOnce(persisted)
    BY <1>0, <2>2 DEF OverlayTypeOK, FileOK
  <2>4. LinesOf(edit') = ActiveLines'
    BY <2>1, <2>2 DEF ActiveLines
  <2>5. /\ PadsHeldOnce' /\ active' \in [Names -> Gpios \cup {NoPad}] /\ durable' \in BOOLEAN
        /\ drifted' \in BOOLEAN /\ temporary' \subseteq Line
    BY <1>0, <2>1 DEF PadsHeldOnce, OverlayTypeOK
  <2> QED  BY <2>1, <2>3, <2>4, <2>5, RecordsKeeps
<1>16. CASE PowerLoss
  <2>1. /\ active' = Nothing /\ current' = NoFile /\ pc' = "boot" /\ edit' = << >>
        /\ durable' = FALSE /\ drifted' = FALSE /\ temporary' = {} /\ UNCHANGED <<persisted, tainted>>
    BY <1>16 DEF PowerLoss
  <2>2. OverlayTypeOK'
    <3>1. edit' \in Seq(Line)  BY <2>1, EmptyLines
    <3>2. Len(edit') <= MaxLines  BY <2>1, EmptyLines, OverlayAssumption
    <3> QED  BY <1>0, <1>4, <2>1, <3>1, <3>2 DEF OverlayTypeOK, PCs
  <2>3. FileOK(current)' /\ FileOK(persisted)' /\ NamedOnce(edit)' /\ Restorable'
    BY <1>0, <2>1, EmptyLines DEF FileOK, NamedOnce, Restorable
  <2>4. RecordOK' /\ RestoreOK' /\ RecordedIsActive'
    BY <2>1 DEF RecordOK, RestoreOK, RecordedIsActive, Nothing
  <2> QED  BY <1>4, <2>1, <2>2, <2>3, <2>4 DEF OverlayInv
<1> QED
  BY <1>1, <1>2, <1>3, <1>5, <1>6, <1>8, <1>9, <1>10, <1>11, <1>12, <1>13, <1>14, <1>15, <1>16
     DEF OverlayNext

LEMMA OverlayInvariance == OverlaySpec => []OverlayInv
<1>1. OverlayInit => OverlayInv  BY InitOverlayInv
<1>2. OverlayInv /\ [OverlayNext]_overlayVars => OverlayInv'  BY NextOverlayInv
<1> QED  BY <1>1, <1>2, PTL DEF OverlaySpec

(***************************************************************************)
(* The config buffer never holds more than fits it, a restore of whatever  *)
(* was persisted included.                                                 *)
(***************************************************************************)
THEOREM OverlayTypeCorrect == OverlaySpec => []OverlayTypeOK
<1>1. OverlayInv => OverlayTypeOK  BY DEF OverlayInv
<1> QED  BY <1>1, OverlayInvariance, PTL

(***************************************************************************)
(* Between invocations of the overlay tool CURRENT_FILE names exactly what *)
(* the kernel holds, unless a change went unrecorded.                      *)
(***************************************************************************)
THEOREM OverlayRecordedIsActive == OverlaySpec => []RecordedIsActive
<1>1. OverlayInv => RecordedIsActive  BY DEF OverlayInv
<1> QED  BY <1>1, OverlayInvariance, PTL

(***************************************************************************)
(* What write_persist leaves behind for the next boot names every overlay  *)
(* and every pad once, over any sequence of commands, failures and power   *)
(* losses without an unrecorded change before the write.                   *)
(***************************************************************************)
THEOREM OverlayRestorable == OverlaySpec => []Restorable
<1>1. OverlayInv => Restorable  BY DEF OverlayInv
<1> QED  BY <1>1, OverlayInvariance, PTL

(***************************************************************************)
(* A restore that gets to its end, at boot or by hand, leaves exactly the  *)
(* persisted set active, whatever was active before.                       *)
(***************************************************************************)
THEOREM OverlayRestoreReproduces == OverlaySpec => RestoreReproduces
<1>1. ASSUME OverlayInv, [OverlayNext]_overlayVars
      PROVE  [pc = "restore" /\ pc' = "writeCurrent"
                => LinesOf(persisted) = ActiveLines']_overlayVars
  <2> SUFFICES ASSUME OverlayNext, pc = "restore", pc' = "writeCurrent"
               PROVE  LinesOf(persisted) = ActiveLines'
    BY <1>1
  <2>1. RestoreDone
    BY DEF OverlayNext, Apply, Remove, RemoveAll, WriteCurrent,
           WriteCurrentFails, WritePersist, WritePersistFails,
           RestoreNothing, RestoreBegin, RestoreLine, RestoreFails,
           PowerLoss, Exit
  <2>2. edit = << >> /\ UNCHANGED active  BY <2>1 DEF RestoreDone
  <2>3. ActiveLines = LinesOf(persisted)
    BY <1>1, <2>2, EmptyLines DEF OverlayInv, RestoreOK
  <2> QED  BY <2>2, <2>3 DEF ActiveLines
<1> QED  BY <1>1, OverlayInvariance, PTL DEF OverlaySpec, RestoreReproduces
=============================================================================
