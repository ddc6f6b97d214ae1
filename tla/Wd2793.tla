------------------------------- MODULE Wd2793 -------------------------------
(***************************************************************************)
(* The WD2793 floppy controller (src/wd2793.c): its sector, side and drive *)
(* registers, the transfer in progress and the two lines DRQ and INTRQ.    *)
(* A register write, a data access or a status read by the guest is one    *)
(* action, whichever decode (memory, or the CDX-2 ports) it comes through. *)
(* The track and data registers are values the guest chooses; the index    *)
(* pulse, the motor and the bytes of a sector are left out.                *)
(***************************************************************************)
EXTENDS Floppy

CONSTANTS
    SectorBytes,        \* FLOPPY_SECTOR_SIZE
    AddressBytes,       \* the six bytes of Read Address
    Cylinder, Head, SectorNumber    \* what the guest asks for

VARIABLE wd

NoDrive == 2            \* selected_drive -1

WdReset ==
    [selected_drive |-> 0, physical_track |-> 0, side |-> 0, sector |-> 1,
     transfer |-> "none", size |-> 0, offset |-> 0, multiple |-> FALSE,
     busy |-> FALSE, drq |-> FALSE, irq |-> FALSE, record_missing |-> FALSE]

\* Functions of the controller's state; w is the state so far in a handler.
end_transfer(w, interrupt) ==
    [w EXCEPT !.transfer = "none", !.size = 0, !.offset = 0,
              !.busy = FALSE, !.drq = FALSE, !.irq = interrupt]
command_error(w, missing) ==
    [end_transfer(w, TRUE) EXCEPT !.record_missing = @ \/ missing]
Begun(w, kind, bytes) ==
    [w EXCEPT !.transfer = kind, !.size = bytes, !.offset = 0,
              !.busy = TRUE, !.drq = TRUE]

load_sector(w, host) ==
    LET d == w.selected_drive
    IN  IF ~floppy_image_mounted(d) THEN command_error(w, FALSE)
        ELSE IF Readable(d, w.physical_track, w.side, w.sector, host)
             THEN Begun(w, "read", SectorBytes)
             ELSE command_error(w, TRUE)

begin_write_sector(w) ==
    IF floppy_image_writable(w.selected_drive)
    THEN Begun(w, "write", SectorBytes) ELSE command_error(w, FALSE)

\* The last byte of a sector is through.
Continued(w, host) ==
    LET next == [w EXCEPT !.sector = @ + 1]
        d == w.selected_drive
    IN  IF next.sector > (IF floppy_image_mounted(d)
                          THEN sectors_per_track[image[d].file] ELSE 0)
        THEN command_error(next, TRUE)
        ELSE IF w.transfer = "read" THEN load_sector(next, host)
             ELSE begin_write_sector(next)
\* The seeded mistake of a mutant: a last sector ends without an interrupt.
ContinueSilently(w, host) ==
    IF w.multiple /\ w.selected_drive \in Drive THEN Continued(w, host)
    ELSE end_transfer(w, FALSE)

continue_multiple(w, host) ==
    IF w.multiple /\ w.selected_drive \in Drive THEN Continued(w, host)
    ELSE end_transfer(w, TRUE)

(* ------------------------------ the guest ------------------------------ *)

Cleared == [end_transfer(wd, FALSE) EXCEPT
               !.multiple = FALSE, !.record_missing = FALSE]

\* Restore, seek and the steps: some cylinder is reached.
execute_type_one(t) ==
    /\ wd' = end_transfer([Cleared EXCEPT !.physical_track = t], TRUE)
    /\ UNCHANGED floppyvars
ForceInterrupt(now) ==
    wd' = [Cleared EXCEPT !.irq = now] /\ UNCHANGED floppyvars
ReadSector(multiple, host) ==
    /\ wd' = load_sector([Cleared EXCEPT !.multiple = multiple], host)
    /\ UNCHANGED floppyvars
WriteSector(multiple) ==
    /\ wd' = begin_write_sector([Cleared EXCEPT !.multiple = multiple])
    /\ UNCHANGED floppyvars
ReadAddress ==
    /\ wd' = IF floppy_image_mounted(wd.selected_drive)
             THEN Begun(Cleared, "read", AddressBytes)
             ELSE command_error(Cleared, FALSE)
    /\ UNCHANGED floppyvars
\* Read track and write track are refused.
TrackCommand == wd' = command_error(Cleared, TRUE) /\ UNCHANGED floppyvars

SetSector(n) == wd' = [wd EXCEPT !.sector = n] /\ UNCHANGED floppyvars
SetSide(h) == wd' = [wd EXCEPT !.side = h] /\ UNCHANGED floppyvars
SelectDrive(d) == wd' = [wd EXCEPT !.selected_drive = d] /\ UNCHANGED floppyvars

ReadStatus == wd' = [wd EXCEPT !.irq = FALSE] /\ UNCHANGED floppyvars
ReadDriveRegister ==
    floppy_image_take_disk_changed(wd.selected_drive) /\ UNCHANGED wd

read_data_register(host) ==
    /\ wd.transfer = "read" /\ wd.drq
    /\ LET w == [wd EXCEPT !.offset = @ + 1]
       IN  wd' = IF w.offset < w.size THEN w ELSE continue_multiple(w, host)
    /\ UNCHANGED floppyvars

LastByte == wd.offset + 1 >= wd.size
write_data_register(host) ==
    /\ wd.transfer = "write" /\ wd.drq
    /\ LET w == [wd EXCEPT !.offset = @ + 1]
           d == wd.selected_drive
       IN  IF ~LastByte THEN wd' = w /\ UNCHANGED floppyvars
           ELSE /\ floppy_image_write_sector(
                       d, wd.physical_track, wd.side, wd.sector, host)
                /\ wd' = IF Stored(d, wd.physical_track, wd.side, wd.sector,
                                   host)
                         THEN continue_multiple(w, host)
                         ELSE command_error(w, floppy_image_writable(d))

wd2793_reset == wd' = WdReset

\* The user takes a disk out: only the selected drive's transfer ends.
WdEject(d) ==
    wd' = IF wd.selected_drive = d THEN end_transfer(wd, FALSE) ELSE wd

WdCommand ==
    \/ \E t \in Cylinder : execute_type_one(t)
    \/ \E multiple \in BOOLEAN, host \in {"done", "refused"} :
          ReadSector(multiple, host)
    \/ ReadAddress \/ TrackCommand \/ ForceInterrupt(TRUE)

WdRegister ==
    \/ \E n \in SectorNumber : SetSector(n)
    \/ \E h \in Head : SetSide(h)
    \/ \E host \in {"done", "refused"} : read_data_register(host)

-----------------------------------------------------------------------------
\* status_register: what the guest would read as the fate of its command.
\* Not ready and write protect are looked at when the status is read.
StatusError ==
    \/ wd.record_missing
    \/ ~floppy_image_writable(wd.selected_drive)

\* The lines and the transfer agree, and no access runs past the buffer.
WdLinesOK ==
    /\ wd.busy = (wd.transfer # "none") /\ wd.drq = wd.busy
    /\ wd.busy => ~wd.irq /\ wd.offset < wd.size
=============================================================================
