----------------------------- MODULE S31Overlay -----------------------------
(***************************************************************************)
(* rootfs/s31_overlay.c: the tool that applies device-tree overlays, keeps *)
(* the applied set in /run (CURRENT_FILE, gone after a reboot) and persists*)
(* it (PERSIST_FILE, written to a temporary file, synced and renamed), and *)
(* that S03s31-overlay runs as `restore' at boot.                          *)
(*                                                                         *)
(* One invocation runs at a time.  It changes the kernel first and records *)
(* the change in up to two files afterwards; each write can fail and power *)
(* can be lost between any two steps.  A specification line is an overlay  *)
(* name with the pad its route is assigned to.  Commands that only print   *)
(* (list, routes, status) and refusals that change nothing are left out.   *)
(***************************************************************************)
EXTENDS Integers, Sequences, FiniteSets

CONSTANTS
  Names,      \* the overlays
  Gpios,      \* the GPIO numbers users pass for a route
  NoPad,      \* an overlay that is not active
  NoFile,     \* a file that does not exist
  MaxLines    \* lines that fit into CONFIG_LEN

Line == [name : Names, gpio : Gpios]

ASSUME OverlayAssumption ==
  /\ Gpios \subseteq 0 .. 63 /\ NoPad \notin Gpios
  /\ NoFile \notin Seq(Line) /\ MaxLines \in Nat

VARIABLES
  active,     \* the kernel's overlays: the pad each one holds
  current,    \* CURRENT_FILE
  persisted,  \* PERSIST_FILE
  pc,         \* the step of the running invocation
  edit,       \* its config buffer; in a restore, the lines still to apply
  durable,    \* its `persist' flag
  drifted,    \* history: a kernel change went unrecorded since the record was
              \* last rebuilt by a restore, a remove --all or a reboot
  tainted,    \* history: PERSIST_FILE was written from a drifted record
  temporary   \* history: the active lines that were applied --volatile

overlayVars == <<active, current, persisted, pc, edit, durable, drifted, tainted, temporary>>
overlayHistory == <<drifted, tainted, temporary>>

Nothing == [n \in Names |-> NoPad]

PCs == {"boot", "idle",
        "restore",       \* applying the lines of `edit' one by one
        "writeCurrent", "writePersist"}

OverlayTypeOK ==
  /\ active \in [Names -> Gpios \cup {NoPad}]
  /\ current \in Seq(Line) \cup {NoFile}
  /\ persisted \in Seq(Line) \cup {NoFile}
  /\ pc \in PCs
  /\ edit \in Seq(Line)
  /\ Len(edit) <= MaxLines
  /\ durable \in BOOLEAN /\ drifted \in BOOLEAN /\ tainted \in BOOLEAN
  /\ temporary \subseteq Line

OverlayInit ==
  /\ active = Nothing
  /\ current = NoFile
  /\ persisted = NoFile
  /\ pc = "boot"
  /\ edit = << >>
  /\ durable = FALSE
  /\ drifted = FALSE
  /\ tainted = FALSE
  /\ temporary = {}

-----------------------------------------------------------------------------
(* Helpers *)

\* GPIO26..32 are the flash bus; 33, 34 and 41 are no pads.
valid_gpio(g) == g < 62 /\ (g < 26 \/ g > 32) /\ g # 33 /\ g # 34 /\ g # 41

\* The kernel refuses a pad another active overlay holds (EBUSY); external.
Conflicts(l) == \E m \in Names : m # l.name /\ active[m] = l.gpio

LinesOf(file) == IF file = NoFile THEN {} ELSE {file[i] : i \in 1 .. Len(file)}

\* read_current: a missing file is an empty record.
Recorded == IF current = NoFile THEN << >> ELSE current

\* Faulty: the old line of a reassigned overlay stays in the record.
UpdateAppends(n, new) == Recorded \o new

\* update_config's loop: what is left of the first i lines without those of n.
Copied(lines, n) ==
  LET copied[i \in 0 .. Len(lines)] ==
        IF i = 0 THEN << >>
        ELSE IF lines[i].name = n THEN copied[i - 1]
        ELSE Append(copied[i - 1], lines[i])
  IN copied

\* update_config: drop the lines of overlay n, append the replacement, if any.
update_config(n, new) == Copied(Recorded, n)[Len(Recorded)] \o new

\* update_config's bound: the lines fit into the config buffer.
Fits(lines) == Len(lines) <= MaxLines

\* The temporary lines of the other overlays.
TemporaryWithout(n) == {l \in temporary : l.name # n}

\* The invocation ends, and its locals with it.
Exit == pc' = "idle" /\ edit' = << >> /\ durable' = FALSE

-----------------------------------------------------------------------------
(* The commands *)

\* apply_spec writes the blob to the kernel; a failure there ends the command.
Apply(l, persist) ==
  /\ pc = "idle" /\ valid_gpio(l.gpio) /\ ~Conflicts(l)
  /\ active' = [active EXCEPT ![l.name] = l.gpio]
  /\ temporary' = TemporaryWithout(l.name)
                    \cup {m \in {l} : ~persist /\ l \notin LinesOf(persisted)}
  /\ LET lines == update_config(l.name, <<l>>)
     IN \/ /\ ~Fits(lines)                 \* E2BIG, after the kernel changed
           /\ drifted' = TRUE
           /\ Exit
        \/ /\ Fits(lines)
           /\ pc' = "writeCurrent"
           /\ edit' = lines
           /\ durable' = persist
           /\ UNCHANGED drifted
  /\ UNCHANGED <<current, persisted, tainted>>

\* manager_remove fails with ENOENT for an overlay that is not active.
Remove(n, persist) ==
  /\ pc = "idle" /\ active[n] # NoPad
  /\ active' = [active EXCEPT ![n] = NoPad]
  /\ durable' = persist
  /\ edit' = update_config(n, << >>)
  /\ pc' = "writeCurrent"
  /\ temporary' = TemporaryWithout(n)
  /\ UNCHANGED <<current, persisted, drifted, tainted>>

RemoveAll(persist) ==
  /\ pc = "idle"
  /\ active' = Nothing
  /\ durable' = persist
  /\ edit' = << >>
  /\ pc' = "writeCurrent"
  /\ drifted' = FALSE
  /\ temporary' = {}
  /\ UNCHANGED <<current, persisted, tainted>>

WriteCurrent ==
  /\ pc = "writeCurrent"
  /\ current' = edit
  /\ \/ durable /\ pc' = "writePersist" /\ UNCHANGED <<edit, durable>>
     \/ ~durable /\ Exit
  /\ UNCHANGED <<active, persisted, overlayHistory>>

\* read_current or write_current fails: the kernel keeps the change.
WriteCurrentFails ==
  /\ pc = "writeCurrent"
  /\ drifted' = TRUE
  /\ Exit
  /\ UNCHANGED <<active, current, persisted, tainted, temporary>>

\* rename is the one step that changes PERSIST_FILE.
WritePersist ==
  /\ pc = "writePersist"
  /\ persisted' = edit
  /\ tainted' = drifted
  /\ Exit
  /\ UNCHANGED <<active, current, drifted, temporary>>

WritePersistFails ==
  /\ pc = "writePersist"
  /\ Exit
  /\ UNCHANGED <<active, current, persisted, overlayHistory>>

\* `restore', at boot or by hand, ends early: there is no PERSIST_FILE, it is
\* unreadable, or the kernel refuses to remove the active overlays.
RestoreNothing ==
  /\ pc \in {"boot", "idle"}
  /\ Exit
  /\ UNCHANGED <<active, current, persisted, overlayHistory>>

\* Faulty: the overlays already active are left in place.
RestoreOnTop ==
  /\ pc \in {"boot", "idle"} /\ persisted # NoFile
  /\ edit' = persisted
  /\ durable' = FALSE
  /\ pc' = "restore"
  /\ temporary' = {}
  /\ UNCHANGED <<active, current, persisted, drifted, tainted>>

\* read_persist reads a line back as it was written, which holds below the 512
\* characters of its buffer only: a longer line (a specification of more than
\* some 470 characters) is left out of the model.
RestoreBegin ==
  /\ pc \in {"boot", "idle"} /\ persisted # NoFile
  /\ active' = Nothing
  /\ edit' = persisted
  /\ durable' = FALSE
  /\ pc' = "restore"
  /\ temporary' = {}
  /\ UNCHANGED <<current, persisted, drifted, tainted>>

RestoreLine ==
  /\ pc = "restore" /\ edit # << >> /\ ~Conflicts(Head(edit))
  /\ active' = [active EXCEPT ![Head(edit).name] = Head(edit).gpio]
  /\ edit' = Tail(edit)
  /\ UNCHANGED <<current, persisted, pc, durable, overlayHistory>>

\* A line fails, for a conflict or for want of memory or of its blob:
\* everything is removed, unless that fails too, which nobody looks at, and
\* CURRENT_FILE is left as it was.
RestoreFails ==
  /\ pc = "restore" /\ edit # << >>
  /\ \/ active' = Nothing /\ drifted' = (Recorded # << >>)
     \/ active' = active /\ drifted' = TRUE
  /\ Exit
  /\ UNCHANGED <<current, persisted, tainted, temporary>>

RestoreDone ==
  /\ pc = "restore" /\ edit = << >>
  /\ edit' = persisted
  /\ drifted' = FALSE
  /\ pc' = "writeCurrent"
  /\ UNCHANGED <<active, current, persisted, durable, tainted, temporary>>

\* Power is lost: only PERSIST_FILE survives.
PowerLoss ==
  /\ active' = Nothing
  /\ current' = NoFile
  /\ pc' = "boot"
  /\ edit' = << >>
  /\ durable' = FALSE
  /\ drifted' = FALSE
  /\ temporary' = {}
  /\ UNCHANGED <<persisted, tainted>>

OverlayNext ==
  \/ \E l \in Line, b \in BOOLEAN : Apply(l, b)
  \/ \E n \in Names, b \in BOOLEAN : Remove(n, b)
  \/ \E b \in BOOLEAN : RemoveAll(b)
  \/ WriteCurrent \/ WriteCurrentFails
  \/ WritePersist \/ WritePersistFails
  \/ RestoreNothing \/ RestoreBegin \/ RestoreLine \/ RestoreFails \/ RestoreDone
  \/ PowerLoss

OverlaySpec == OverlayInit /\ [][OverlayNext]_overlayVars

-----------------------------------------------------------------------------
(* Properties *)

ActiveLines == {l \in Line : active[l.name] = l.gpio}

(***************************************************************************)
(* Between invocations CURRENT_FILE names exactly the overlays the kernel  *)
(* holds, unless recording a change failed (and main said so) since the    *)
(* record was last rebuilt: applying, reassigning, removing, restoring and *)
(* rebooting in any order keep the two in step.                            *)
(***************************************************************************)
RecordedIsActive ==
  pc = "idle" /\ ~drifted => LinesOf(current) = ActiveLines

(***************************************************************************)
(* Whatever was persisted can be applied again: after any sequence of      *)
(* commands, failures and power losses PERSIST_FILE names an overlay once  *)
(* and a pad once, so the restore at boot cannot run into EBUSY and give   *)
(* up on the whole set.  The exception is a set written by a later command *)
(* after an unrecorded change: then a line may name a pad long since given *)
(* to another overlay.                                                     *)
(***************************************************************************)
Restorable ==
  persisted # NoFile /\ ~tainted =>
    \A i, j \in 1 .. Len(persisted) :
       persisted[i].name = persisted[j].name \/ persisted[i].gpio = persisted[j].gpio
         => i = j

\* A restore that gets to its end leaves exactly the persisted set active,
\* whatever was active before, at boot or by hand.
RestoreReproduces ==
  [][pc = "restore" /\ pc' = "writeCurrent" => LinesOf(persisted) = ActiveLines']_overlayVars

(***************************************************************************)
(* docs/S31_PERIPHERAL_TEST.md on --volatile: "Apply a temporary           *)
(* configuration. After reboot, the previously persisted set is restored". *)
(* A line whose only apply was temporary is then never persisted.  The     *)
(* next durable command writes the whole of CURRENT_FILE's set, temporary  *)
(* lines included.                                                         *)
(***************************************************************************)
VolatileForgotten == LinesOf(persisted) \cap temporary = {}
=============================================================================
