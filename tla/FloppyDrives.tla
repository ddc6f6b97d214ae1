---------------------------- MODULE FloppyDrives ----------------------------
(***************************************************************************)
(* Two floppy drives between a guest, which works them through a WD2793 or *)
(* a TC8566, and a user, who mounts, ejects and re-mounts disks in the     *)
(* settings overlay (src/overlay.c).  The guest stands still while the     *)
(* overlay is visible, but it may stand still in the middle of a sector.   *)
(* Left out: a name mounted in both drives, a host that refuses to close   *)
(* a file it has flushed, and saving the settings to the host.             *)
(***************************************************************************)
EXTENDS Floppy

CONSTANTS SectorBytes, AddressBytes, Cylinder, Head, SectorNumber, FormatCount,
          UnitSelect,
          MaxRequests           \* bounds what the user does with the drives

ASSUME FloppyDrivesAssumption ==
    /\ MaxRequests \in Nat
    /\ SectorBytes \in Nat \ {0} /\ AddressBytes \in Nat \ {0}
    /\ Cylinder \subseteq 0..255 /\ Head \subseteq {0, 1}
    /\ SectorNumber \subseteq 0..255 /\ FormatCount \subseteq 0..255 /\ UnitSelect \subseteq 0..3

VARIABLES
    controller,     \* the one that this machine has
    wd, tc,
    visible,        \* the overlay is open and the guest stopped
    config, saved,  \* the settings and those to go back to
    requests,       \* of the user so far, for the bound
    seen,           \* the file in a drive when the guest last asked
    asked,          \* a command to the WD2793 has not been answered yet
    lost            \* the sector it was given that is not on the disk, if any

WD == INSTANCE Wd2793
TC == INSTANCE Tc8566

uservars == <<visible, config, saved, requests>>
history == <<seen, asked, lost>>
vars == <<floppyvars, controller, wd, tc, uservars, history>>

Config == [mode : Mode, path : [Drive -> Path \cup {NoFile}], second : BOOLEAN]

\* A file in both drives at a time is outside this model.
Apart(s) ==
    s.image[0].file = NoFile \/ s.image[0].file # s.image[1].file

\* The emulator starts: the disks of the configuration are mounted, and one
\* that the host refuses is left out, its name kept.
Started(refused) ==
    LET a == IF config.path[0] = NoFile THEN NoDisks
             ELSE floppy_image_mount(NoDisks, 0, config.path[0], config.mode,
                                     refused[0])
    IN  IF ~config.second \/ config.path[1] = NoFile THEN a
        ELSE floppy_image_mount(a, 1, config.path[1], config.mode, refused[1])

Init ==
    /\ config \in Config /\ saved = config
    /\ \E refused \in [Drive -> {{}, {"open"}}] :
          /\ Apart(Started(refused)) /\ image = Started(refused).image
    /\ unsynced = {} /\ written = [f \in Path |-> {}]
    /\ wd = WD!WdReset /\ tc = TC!TcReset
    /\ controller \in {"WD2793", "TC8566"}
    /\ visible = FALSE /\ requests = 0
    /\ seen = [d \in Drive |-> NoFile] /\ asked = FALSE /\ lost = {}

(* ------------------------------- the guest ----------------------------- *)

\* A sector that went missing: in which drive and on what kind of disk, and
\* whether the disk was there to write to and the write failed all the same.
DiskIn(d) == IF d \in Drive THEN <<image[d].file, image[d].mode>>
             ELSE <<NoFile, "read-only">>
Loss(failed) == [drive |-> wd.selected_drive, failed |-> failed,
                 disk |-> DiskIn(wd.selected_drive)]
Undisturbed(l) == wd.selected_drive = l.drive /\ DiskIn(l.drive) = l.disk

Running(c) == controller = c /\ ~visible
Idle(unchanged) == UNCHANGED <<controller, uservars, unchanged>>

Command ==
    /\ Running("WD2793") /\ WD!WdCommand
    /\ asked' = TRUE /\ lost' = {} /\ Idle(<<tc, seen>>)
Write(multiple) ==
    /\ Running("WD2793") /\ WD!WriteSector(multiple)
    /\ asked' = TRUE /\ lost' = IF wd'.transfer = "write" THEN {} ELSE {Loss(FALSE)}
    /\ Idle(<<tc, seen>>)
Interrupt ==    \* D0: stop at once, and say nothing
    /\ Running("WD2793") /\ WD!ForceInterrupt(FALSE)
    /\ asked' = FALSE /\ lost' = {} /\ Idle(<<tc, seen>>)
Register == Running("WD2793") /\ WD!WdRegister /\ Idle(<<tc, history>>)
Select(d) ==
    /\ Running("WD2793") /\ WD!SelectDrive(d) /\ Idle(<<tc, history>>)
WriteData(host) ==
    /\ Running("WD2793") /\ WD!write_data_register(host)
    /\ lost' = IF WD!LastByte /\ ~Stored(wd.selected_drive, wd.physical_track,
                                         wd.side, wd.sector, host)
               THEN {Loss(floppy_image_writable(wd.selected_drive))} ELSE {}
    /\ Idle(<<tc, seen, asked>>)
ReadStatus ==
    /\ Running("WD2793") /\ WD!ReadStatus
    /\ asked' = (asked /\ wd.busy) /\ lost' = {} /\ Idle(<<tc, seen>>)
ReadDrive ==
    /\ Running("WD2793") /\ WD!ReadDriveRegister
    /\ seen' = [d \in Drive |-> IF d = wd.selected_drive THEN image[d].file
                                ELSE seen[d]]
    /\ Idle(<<tc, asked, lost>>)

Tc == Running("TC8566") /\ TC!TcNext /\ Idle(<<wd, history>>)

\* msx_reset: F5, or hardware changed in the overlay.
Reset ==
    /\ WD!wd2793_reset /\ TC!tc8566_reset /\ asked' = FALSE /\ lost' = {}

MachineReset ==
    ~visible /\ Reset /\ UNCHANGED <<floppyvars, controller, uservars, seen>>

(* ------------------------------- the user ------------------------------ *)

Counted == requests < MaxRequests /\ requests' = requests + 1

\* A request that changes the drives, with no reset of the machine.
Handled(s) ==
    /\ Apart(s) /\ DrivesBecome(s) /\ Counted
    /\ UNCHANGED <<written, controller, tc, seen, lost>>
Request(s) == Handled(s) /\ UNCHANGED <<wd, asked>>
EjectRequest(s, d) ==
    /\ Handled(s) /\ WD!WdEject(d)
    /\ asked' = (asked /\ ~(wd.busy /\ wd.selected_drive = d)
                       /\ ~(wd.irq /\ wd.selected_drive = d))

OpenOverlay ==
    /\ ~visible /\ requests < MaxRequests
    /\ visible' = TRUE /\ saved' = config
    /\ UNCHANGED <<floppyvars, controller, wd, tc, config, requests, history>>

\* handle_dialog: a DSK file was chosen for a drive.
MountDialog(d, p, refused) ==
    /\ visible /\ (d = 1 => config.second)
    /\ Request(floppy_image_mount(Drives, d, p, config.mode, refused))
    /\ config' = IF Mounts(Drives, d, p, config.mode, refused)
                 THEN [config EXCEPT !.path[d] = p] ELSE config
    /\ UNCHANGED <<visible, saved>>

Eject(d, refused) ==
    /\ visible /\ (d = 1 => config.second)
    /\ LET s == floppy_image_eject(Drives, d, refused)
       IN  /\ EjectRequest(s, d)
           /\ config' = IF s.image[d].file = NoFile
                        THEN [config EXCEPT !.path[d] = NoFile] ELSE config
    /\ UNCHANGED <<visible, saved>>

Rollback(s, old, refused) ==
    IF s.image[0].file # NoFile
    THEN floppy_image_mount(s, 0, config.path[0], old, refused) ELSE s

set_floppy_image_mode(m, refusedA, refusedB, refusedBack) ==
    LET a == floppy_image_mount(Drives, 0, config.path[0], m, refusedA)
        aFails == /\ image[0].file # NoFile
                  /\ ~Mounts(Drives, 0, config.path[0], m, refusedA)
        s == IF image[0].file # NoFile THEN a ELSE Drives
        bFails == /\ image[1].file # NoFile
                  /\ ~Mounts(s, 1, config.path[1], m, refusedB)
        back == Rollback(s, config.mode, refusedBack)
    IN  /\ visible /\ m # config.mode
        /\ IF aFails THEN Request(Drives) /\ UNCHANGED config
           ELSE IF bFails
           THEN Request(back) /\ UNCHANGED config
           ELSE /\ Request(IF image[1].file = NoFile THEN s
                           ELSE floppy_image_mount(s, 1, config.path[1], m,
                                                   refusedB))
                /\ config' = [config EXCEPT !.mode = m]
        /\ UNCHANGED <<visible, saved>>

toggle_second_floppy(refused) ==
    LET s == IF config.second THEN floppy_image_eject(Drives, 1, refused)
             ELSE IF config.path[1] # NoFile
             THEN floppy_image_mount(Drives, 1, config.path[1], config.mode,
                                     refused)
             ELSE Drives
        done == config.second => s.image[1].file = NoFile
    IN  /\ visible /\ Apart(s) /\ DrivesBecome(s) /\ Counted
        /\ IF done
           THEN Reset /\ config' = [config EXCEPT !.second = ~@]
           ELSE /\ WD!WdEject(1) /\ UNCHANGED <<tc, config>>
                /\ asked' = (asked /\ ~(wd.selected_drive = 1
                                        /\ (wd.busy \/ wd.irq)))
                /\ UNCHANGED lost
        /\ UNCHANGED <<written, controller, visible, saved, seen>>

\* Leaving with the settings kept; the host may still refuse to save them.
CloseOverlay ==
    /\ visible /\ visible' = FALSE
    /\ UNCHANGED <<floppyvars, controller, wd, tc, config, saved, requests,
                   history>>

\* Leaving without: restore_saved_config, then restore_floppies.
Cancel(refused) ==
    LET noA == floppy_image_eject(Drives, 0, refused[0])
        none == floppy_image_eject(noA, 1, refused[1])
        aOut == noA.image[0].file = NoFile
        out == aOut /\ none.image[1].file = NoFile
        a == IF saved.path[0] = NoFile THEN none
             ELSE floppy_image_mount(none, 0, saved.path[0], saved.mode,
                                     refused[0])
        aIn == saved.path[0] = NoFile
               \/ Mounts(none, 0, saved.path[0], saved.mode, refused[0])
        wantB == saved.second /\ saved.path[1] # NoFile
        b == IF wantB THEN floppy_image_mount(a, 1, saved.path[1], saved.mode,
                                              refused[1]) ELSE a
        bIn == wantB => Mounts(a, 1, saved.path[1], saved.mode, refused[1])
        ends == {0} \cup (IF aOut THEN {1} ELSE {})
    IN  /\ visible
        /\ Handled(IF ~aOut THEN Drives ELSE IF ~out THEN noA
                   ELSE IF aIn THEN b ELSE none)
        /\ wd' = IF wd.selected_drive \in ends THEN WD!end_transfer(wd, FALSE)
                 ELSE wd
        /\ asked' = (asked /\ ~(wd.selected_drive \in ends
                                /\ (wd.busy \/ wd.irq)))
        /\ config' = saved /\ visible' = ~(out /\ aIn /\ bIn)
        /\ UNCHANGED saved

User ==
    \/ OpenOverlay \/ CloseOverlay
    \/ \E refused \in Refusals :
          \/ \E d \in Drive, p \in Path : MountDialog(d, p, refused)
          \/ \E d \in Drive : Eject(d, refused)
          \/ toggle_second_floppy(refused)
    \/ \E refused \in [Drive -> Refusals] : Cancel(refused)
    \/ \E m \in Mode, refusedA, refusedB, refusedBack \in Refusals :
          set_floppy_image_mode(m, refusedA, refusedB, refusedBack)

Guest ==
    \/ Command \/ Interrupt \/ Register \/ ReadStatus \/ ReadDrive \/ Tc
    \/ \E multiple \in BOOLEAN : Write(multiple)
    \/ \E d \in Drive \cup {WD!NoDrive} : Select(d)
    \/ \E host \in HostOutcome : WriteData(host)

Next == Guest \/ User \/ MachineReset
Spec == Init /\ [][Next]_vars

-----------------------------------------------------------------------------
\* A file that was changed and not synced is still in a drive that knows it.
NothingForgotten ==
    \A f \in unsynced : \E d \in Drive : image[d].file = f /\ image[d].dirty

\* The guest finds out: a disk that is not the one it last saw in the drive
\* is announced by the change line.
ChangeSeen ==
    \A d \in Drive : seen[d] # image[d].file => image[d].disk_changed

\* Neither controller leaves its guest waiting.  A command to the WD2793 ends
\* with an interrupt or wants data, unless the user takes the disk out, which
\* ends it without a word.  A sector that the disk or the host failed to take
\* is reported until the next command, whatever the user does
\* (write_data_register, command_error).  One that was refused for want of a
\* disk, or of a disk to write to, leaves no mark: status_register looks at
\* the disk of that moment, and reports it as long as the guest selects the
\* drive and the user leaves its disk and mode alone.  That much is stated;
\* after a switch to read/write the guest does read success, and the model
\* has that behaviour.  A guest that does what the main status register of the
\* TC8566 asks for is never left alone: see StatusTruthful there.
GuestIsAnswered ==
    /\ WD!WdLinesOK
    /\ asked => wd.irq \/ wd.drq
    /\ \A l \in lost : l.failed \/ Undisturbed(l) => WD!StatusError
    /\ TC!StatusTruthful

\* What was opened for reading is never written, however the drives were
\* changed in the middle of a command.
ReadOnlyKept ==
    [][\A f \in Path : written[f]' # written[f] =>
          \E d \in Drive : image[d].file = f /\ image[d].mode = "read/write"
      ]_vars
=============================================================================
