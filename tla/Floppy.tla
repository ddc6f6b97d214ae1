------------------------------- MODULE Floppy -------------------------------
(***************************************************************************)
(* Raw DSK images in the two drives of a machine (src/floppy.c).  A sector *)
(* is only "as delivered" or written by the guest; what the guest wrote is *)
(* left out, and so are the activity LED, the error text and the boot      *)
(* sector that the geometry is read from: geometry belongs to the file.    *)
(* The host may refuse to open a file, to flush one or to write a sector.  *)
(***************************************************************************)
EXTENDS Naturals

CONSTANTS
    Path, NoFile,       \* host files that are valid images
    Locked,             \* those that the host opens for reading only
    tracks, sides, sectors_per_track    \* functions on Path

Drive == {0, 1}         \* drive_a, drive_b
Mode == {"read-only", "read/write"}

ASSUME FloppyAssumption ==
    /\ NoFile \notin Path /\ Locked \subseteq Path
    /\ \A g \in {tracks, sides, sectors_per_track} : g \in [Path -> Nat \ {0}]

VARIABLES
    image,          \* FloppyImage of each drive
    written,        \* sectors of each file that the guest has changed
    unsynced        \* files with a change that is not on stable storage

floppyvars == <<image, written, unsynced>>

Image == [file : Path \cup {NoFile}, mode : Mode, dirty : BOOLEAN,
          disk_changed : BOOLEAN]

Attached(p, m) ==
    [file |-> p, mode |-> m, dirty |-> FALSE, disk_changed |-> TRUE]
Ejected == Attached(NoFile, "read-only")

floppy_image_mounted(d) == d \in Drive /\ image[d].file # NoFile
floppy_image_writable(d) ==
    floppy_image_mounted(d) /\ image[d].mode = "read/write"

NoDisks ==
    [image |-> [d \in Drive |-> [Ejected EXCEPT !.disk_changed = FALSE]],
     unsynced |-> {}]

(* ------------------------- mounting and ejecting ----------------------- *)
(* A user's request makes several of these calls, so each takes and gives  *)
(* the drives as a value; refused is what the host refuses one of them.    *)

Drives == [image |-> image, unsynced |-> unsynced]
DrivesBecome(s) == image' = s.image /\ unsynced' = s.unsynced

Refusals == {{}, {"open"}, {"flush"}}

floppy_image_flush(s, d, refused) ==
    IF s.image[d].dirty /\ "flush" \notin refused
    THEN [image |-> [s.image EXCEPT ![d].dirty = FALSE],
          unsynced |-> s.unsynced \ {s.image[d].file}]
    ELSE s

\* The seeded mistake of a mutant: the old image is let go of as it is.
EjectUnflushed(s, d, refused) == [s EXCEPT !.image[d] = Ejected]

floppy_image_eject(s, d, refused) ==
    LET flushed == floppy_image_flush(s, d, refused)
    IN  IF flushed.image[d].dirty THEN s
        ELSE [flushed EXCEPT !.image[d] = Ejected]

Opens(p, m, refused) ==
    /\ p # NoFile
    /\ m = "read/write" => p \notin Locked
    /\ "open" \notin refused

MountOver(s, d, p, m, refused) ==
    LET freed == floppy_image_eject(s, d, refused)
    IN  IF freed.image[d].file # NoFile THEN s
        ELSE [freed EXCEPT !.image[d] = Attached(p, m)]

floppy_image_mount(s, d, p, m, refused) ==
    IF Opens(p, m, refused) THEN MountOver(s, d, p, m, refused) ELSE s

\* What a call returns: 0 (TRUE) or -1.
Mounts(s, d, p, m, refused) ==
    /\ Opens(p, m, refused)
    /\ floppy_image_eject(s, d, refused).image[d].file = NoFile

(* ------------------------------- sectors ------------------------------- *)

sector_offset(p, t, h, n) == (t * sides[p] + h) * sectors_per_track[p] + n - 1
OnDisk(d, t, h, n) ==
    /\ floppy_image_mounted(d)
    /\ t < tracks[image[d].file] /\ h < sides[image[d].file]
    /\ n \in 1..sectors_per_track[image[d].file]

\* host: what the host makes of the call: "done", "refused", or "torn" (a
\* part of the sector was written).
HostOutcome == {"done", "refused", "torn"}

Readable(d, t, h, n, host) == OnDisk(d, t, h, n) /\ host = "done"

\* The seeded mistake of a mutant: the mode was looked at when the command
\* began, and that is taken to be enough.
AnyMode(d) == floppy_image_mounted(d)
MayWrite(d) == floppy_image_writable(d)

Writes(d, t, h, n) == MayWrite(d) /\ OnDisk(d, t, h, n)
Stored(d, t, h, n, host) == Writes(d, t, h, n) /\ host = "done"

floppy_image_write_sector(d, t, h, n, host) ==
    IF Writes(d, t, h, n) /\ host # "refused"
    THEN LET p == image[d].file
         IN  /\ written' = [written EXCEPT
                   ![p] = @ \cup {sector_offset(p, t, h, n)}]
             /\ image' = [image EXCEPT ![d].dirty = TRUE]
             /\ unsynced' = unsynced \cup {p}
    ELSE UNCHANGED floppyvars

\* The seeded mistake of a mutant: one look consumes the news of both drives.
TakeBoth(d) ==
    /\ image' = [e \in Drive |-> [image[e] EXCEPT !.disk_changed = FALSE]]
    /\ UNCHANGED <<written, unsynced>>

\* The guest reads the drive register: the change line answers once.
floppy_image_take_disk_changed(d) ==
    IF d \in Drive
    THEN /\ image' = [image EXCEPT ![d].disk_changed = FALSE]
         /\ UNCHANGED <<written, unsynced>>
    ELSE UNCHANGED floppyvars

=============================================================================
