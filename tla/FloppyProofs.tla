---------------------------- MODULE FloppyProofs ----------------------------
(***************************************************************************)
(* For any files and geometries and any number of requests: no change of   *)
(* a floppy image is forgotten, a swapped disk is announced, no image      *)
(* opened for reading changes, and neither controller leaves its guest     *)
(* without an answer.  The first two rest on an invariant of the drives    *)
(* that every call a request is made of preserves, the third on what a     *)
(* guest can do to the drives, the last on invariants of the controllers.  *)
(***************************************************************************)
EXTENDS FloppyDrives, TLAPS

DriveStates == [image : [Drive -> Image], unsynced : SUBSET Path]

\* A change that is not on stable storage belongs to a mounted, dirty image.
Known(s) == \A f \in s.unsynced : \E d \in Drive :
                s.image[d].file = f /\ s.image[d].dirty
\* A disk that the guest has not seen in its drive is announced.
News(s) == \A d \in Drive : seen[d] # s.image[d].file => s.image[d].disk_changed
Safe(s) == s \in DriveStates /\ Known(s) /\ News(s)

Inv == Safe(Drives) /\ config \in Config /\ saved \in Config

(* ------------------------------- the calls ----------------------------- *)

\* floppy_image_flush takes a file off the list only with its dirty flag.
LEMMA FlushSafe ==
    ASSUME NEW s, Safe(s), NEW d \in Drive, NEW refused
    PROVE  Safe(floppy_image_flush(s, d, refused))
<1>1. CASE s.image[d].dirty /\ "flush" \notin refused
  <2> DEFINE r == [image |-> [s.image EXCEPT ![d].dirty = FALSE],
                   unsynced |-> s.unsynced \ {s.image[d].file}]
  <2>1. r \in DriveStates
    BY DEF Safe, DriveStates, Image
  <2>2. Known(r)
    <3> SUFFICES ASSUME NEW f \in r.unsynced
                 PROVE  \E e \in Drive : r.image[e].file = f /\ r.image[e].dirty
      BY DEF Known
    <3>1. PICK e \in Drive : s.image[e].file = f /\ s.image[e].dirty
      BY DEF Safe, Known
    <3>2. e # d
      BY <3>1
    <3>3. r.image[e] = s.image[e]
      BY <3>2 DEF Safe, DriveStates
    <3> QED BY <3>1, <3>3
  <2>3. floppy_image_flush(s, d, refused) = r
    BY <1>1 DEF floppy_image_flush
  <2>4. \A e \in Drive : /\ r.image[e].file = s.image[e].file
                         /\ r.image[e].disk_changed = s.image[e].disk_changed
    BY DEF Safe, DriveStates, Image
  <2>5. News(r)
    BY <2>4 DEF Safe, News
  <2> QED BY <2>1, <2>2, <2>3, <2>5 DEF Safe
<1>2. CASE ~(s.image[d].dirty /\ "flush" \notin refused)
  BY <1>2 DEF floppy_image_flush
<1> QED BY <1>1, <1>2

\* A drive whose image is not the one that knows of a change may get another.
LEMMA ReplaceSafe ==
    ASSUME NEW s, Safe(s), NEW d \in Drive, NEW im \in Image, im.disk_changed,
           s.image[d].file = NoFile \/ ~s.image[d].dirty
    PROVE  Safe([s EXCEPT !.image[d] = im])
<1> DEFINE r == [s EXCEPT !.image[d] = im]
<1>1. r = [image |-> [s.image EXCEPT ![d] = im], unsynced |-> s.unsynced]
  BY DEF Safe, DriveStates
<1>2. r \in DriveStates
  BY <1>1 DEF Safe, DriveStates
<1>3. Known(r)
  <2> SUFFICES ASSUME NEW f \in r.unsynced
               PROVE  \E e \in Drive : r.image[e].file = f /\ r.image[e].dirty
    BY DEF Known
  <2>1. f \in s.unsynced /\ f \in Path
    BY <1>1 DEF Safe, DriveStates
  <2>2. PICK e \in Drive : s.image[e].file = f /\ s.image[e].dirty
    BY <2>1 DEF Safe, Known
  <2>3. e # d
    BY <2>1, <2>2, FloppyAssumption
  <2>4. r.image[e] = s.image[e]
    BY <1>1, <2>3 DEF Safe, DriveStates
  <2> QED BY <2>2, <2>4
<1>4. News(r)
  <2>1. r.image[d] = im
    BY <1>1 DEF Safe, DriveStates
  <2>2. \A e \in Drive : e # d => r.image[e] = s.image[e]
    BY <1>1 DEF Safe, DriveStates
  <2> QED BY <2>1, <2>2 DEF Safe, News
<1> QED BY <1>2, <1>3, <1>4 DEF Safe

LEMMA ImagesAttached ==
    ASSUME NEW f \in Path \cup {NoFile}, NEW m \in Mode
    PROVE  /\ Attached(f, m) \in Image /\ Attached(f, m).disk_changed
           /\ Ejected \in Image /\ Ejected.disk_changed
BY DEF Attached, Ejected, Image, Mode

\* floppy_image_eject lets go of an image only after a good flush.
LEMMA EjectSafe ==
    ASSUME NEW s, Safe(s), NEW d \in Drive, NEW refused
    PROVE  Safe(floppy_image_eject(s, d, refused))
<1> DEFINE r == floppy_image_flush(s, d, refused)
<1>1. Safe(r)
  BY FlushSafe
<1>2. CASE r.image[d].dirty
  BY <1>2 DEF floppy_image_eject
<1>3. CASE ~r.image[d].dirty
  <2>1. Ejected \in Image /\ Ejected.disk_changed
    BY DEF Attached, Ejected, Image, Mode
  <2>2. Safe([r EXCEPT !.image[d] = Ejected])
    BY <1>1, <1>3, <2>1, ReplaceSafe
  <2> QED BY <1>3, <2>2 DEF floppy_image_eject
<1> QED BY <1>2, <1>3

\* floppy_image_mount replaces only what floppy_image_eject let go of.
LEMMA MountSafe ==
    ASSUME NEW s, Safe(s), NEW d \in Drive, NEW f \in Path \cup {NoFile},
           NEW m \in Mode, NEW refused
    PROVE  Safe(floppy_image_mount(s, d, f, m, refused))
<1> DEFINE freed == floppy_image_eject(s, d, refused)
<1>1. Safe(freed)
  BY EjectSafe
<1>2. CASE ~Opens(f, m, refused)
  BY <1>2 DEF floppy_image_mount
<1>3. CASE Opens(f, m, refused) /\ freed.image[d].file # NoFile
  BY <1>3 DEF floppy_image_mount, MountOver
<1>4. CASE Opens(f, m, refused) /\ freed.image[d].file = NoFile
  <2>1. Attached(f, m) \in Image /\ Attached(f, m).disk_changed
    BY ImagesAttached
  <2>2. Safe([freed EXCEPT !.image[d] = Attached(f, m)])
    BY <1>1, <1>4, <2>1, ReplaceSafe
  <2> QED BY <1>4, <2>2 DEF floppy_image_mount, MountOver
<1> QED BY <1>2, <1>3, <1>4

(* ------------------------------- the guest ----------------------------- *)

\* All that a guest does to the drives: nothing, a sector, or a look, which
\* tells it what is there.
Wrote(d) ==
    /\ image[d].file # NoFile /\ image[d].mode = "read/write"
    /\ \E t, h, n : written' = [written EXCEPT ![image[d].file] =
                        @ \cup {sector_offset(image[d].file, t, h, n)}]
    /\ image' = [image EXCEPT ![d].dirty = TRUE]
    /\ unsynced' = unsynced \cup {image[d].file}
Looked(d) ==
    /\ image' = [image EXCEPT ![d].disk_changed = FALSE]
    /\ UNCHANGED <<written, unsynced>>
Effect == UNCHANGED floppyvars \/ \E d \in Drive : Wrote(d)

\* floppy_image_write_sector looks at the mode before it writes.
LEMMA WriteEffect ==
    ASSUME NEW d, NEW t, NEW h, NEW n, NEW host,
           floppy_image_write_sector(d, t, h, n, host)
    PROVE  Effect
BY DEF floppy_image_write_sector, Writes, MayWrite, floppy_image_writable,
       floppy_image_mounted, Effect, Wrote

\* The WD2793 writes to the drives with the last byte of a sector.
LEMMA WdEffect ==
    ASSUME WD!WdCommand \/ (\E multiple \in BOOLEAN : WD!WriteSector(multiple))
           \/ WD!ForceInterrupt(FALSE) \/ WD!WdRegister \/ WD!ReadStatus
           \/ (\E d \in Drive \cup {WD!NoDrive} : WD!SelectDrive(d))
           \/ (\E host \in HostOutcome : WD!write_data_register(host))
    PROVE  Effect
<1>1. CASE WD!WdCommand
  BY <1>1 DEF WD!WdCommand, WD!execute_type_one, WD!ReadSector,
     WD!ReadAddress, WD!TrackCommand, WD!ForceInterrupt, WD!floppyvars,
     floppyvars, Effect
<1>2. CASE (\E multiple \in BOOLEAN : WD!WriteSector(multiple))
           \/ WD!ForceInterrupt(FALSE)
  BY <1>2 DEF WD!WriteSector, WD!ForceInterrupt, WD!floppyvars, floppyvars,
     Effect
<1>3. CASE WD!WdRegister
  BY <1>3 DEF WD!WdRegister, WD!SetSector, WD!SetSide, WD!read_data_register,
     WD!floppyvars, floppyvars, Effect
<1>4. CASE WD!ReadStatus
           \/ (\E d \in Drive \cup {WD!NoDrive} : WD!SelectDrive(d))
  BY <1>4 DEF WD!ReadStatus, WD!SelectDrive, WD!floppyvars, floppyvars, Effect
<1>5. ASSUME NEW host \in HostOutcome, WD!write_data_register(host)
      PROVE  Effect
  <2>1. CASE ~WD!LastByte
    BY <1>5, <2>1 DEF WD!write_data_register, WD!floppyvars, floppyvars, Effect
  <2>2. CASE WD!LastByte
    <3>1. WD!floppy_image_write_sector(wd.selected_drive, wd.physical_track,
                                       wd.side, wd.sector, host)
      BY <1>5, <2>2 DEF WD!write_data_register
    <3> QED BY <3>1, WriteEffect DEF WD!floppy_image_write_sector, WD!Writes,
            WD!MayWrite, WD!floppy_image_writable, WD!floppy_image_mounted,
            WD!OnDisk, WD!sector_offset, WD!floppyvars, WD!Drive,
            floppy_image_write_sector, Writes, MayWrite, OnDisk, sector_offset,
            floppy_image_writable, floppy_image_mounted, floppyvars, Drive
  <2> QED BY <2>1, <2>2
<1> QED BY <1>1, <1>2, <1>3, <1>4, <1>5

\* The TC8566 reaches the drives with the last byte of a sector and with the
\* last byte of a format tuple.
LEMMA TcEffect == ASSUME TC!TcNext PROVE Effect
<1>1. ASSUME NEW host \in HostOutcome, TC!WriteByte(host) PROVE Effect
  <2>1. UNCHANGED floppyvars
        \/ TC!floppy_image_write_sector(tc.selected_drive, tc.cylinder,
                                        tc.head, tc.sector, host)
    BY <1>1 DEF TC!WriteByte, TC!floppyvars, floppyvars
  <2> QED BY <2>1, WriteEffect DEF Effect, TC!floppy_image_write_sector,
          TC!Writes, TC!MayWrite, TC!floppy_image_writable,
          TC!floppy_image_mounted, TC!OnDisk, TC!sector_offset, TC!floppyvars,
          TC!Drive, floppy_image_write_sector, Writes, MayWrite, OnDisk,
          sector_offset, floppy_image_writable, floppy_image_mounted,
          floppyvars, Drive
<1>2. ASSUME NEW t, NEW h, NEW n, NEW size2, NEW host,
             TC!format_data_write(t, h, n, size2, host)
      PROVE  Effect
  <2>1. UNCHANGED floppyvars
        \/ TC!floppy_image_write_sector(tc.selected_drive, t, h, n, host)
    BY <1>2 DEF TC!format_data_write, TC!floppyvars, floppyvars
  <2> QED BY <2>1, WriteEffect DEF Effect, TC!floppy_image_write_sector,
          TC!Writes, TC!MayWrite, TC!floppy_image_writable,
          TC!floppy_image_mounted, TC!OnDisk, TC!sector_offset, TC!floppyvars,
          TC!Drive, floppy_image_write_sector, Writes, MayWrite, OnDisk,
          sector_offset, floppy_image_writable, floppy_image_mounted,
          floppyvars, Drive
<1>3. TC!TcNext => \/ UNCHANGED floppyvars
                   \/ \E host \in HostOutcome : TC!WriteByte(host)
                   \/ \E t, h, n, size2, host :
                         TC!format_data_write(t, h, n, size2, host)
  BY DEF TC!TcNext, TC!begin_command, TC!WriteParameter, TC!LastParameter,
     TC!prepare_read_write, TC!prepare_read_id, TC!prepare_format, TC!Seek,
     TC!Specify, TC!SenseDrive, TC!tc8566_read_data, TC!tc8566_write_control,
     TC!TupleByte, TC!HostOutcome, HostOutcome, TC!floppyvars, floppyvars
<1> QED BY <1>1, <1>2, <1>3 DEF Effect

LEMMA GuestEffect ==
    ASSUME Guest
    PROVE  /\ UNCHANGED <<config, saved>>
           /\ \/ Effect /\ UNCHANGED seen
              \/ ReadDrive
<1>1. Guest => \/ TC!TcNext
               \/ WD!WdCommand
               \/ \E multiple \in BOOLEAN : WD!WriteSector(multiple)
               \/ WD!ForceInterrupt(FALSE) \/ WD!WdRegister \/ WD!ReadStatus
               \/ \E d \in Drive \cup {WD!NoDrive} : WD!SelectDrive(d)
               \/ \E host \in HostOutcome : WD!write_data_register(host)
               \/ ReadDrive
  BY DEF Guest, Command, Write, Interrupt, Register, Select, WriteData,
     ReadStatus, Tc
<1>2. Guest => UNCHANGED <<config, saved>> /\ (UNCHANGED seen \/ ReadDrive)
  BY DEF Guest, Command, Write, Interrupt, Register, Select, WriteData,
     ReadStatus, ReadDrive, Tc, Idle, uservars, history
<1> QED BY <1>1, <1>2, WdEffect, TcEffect

\* The drive register tells the guest which disk is in the drive.
LEMMA LookEffect ==
    ASSUME ReadDrive
    PROVE  \/ UNCHANGED floppyvars /\ \A d \in Drive : seen'[d] = seen[d]
           \/ \E d \in Drive : /\ Looked(d) /\ seen'[d] = image[d].file
                               /\ \A e \in Drive : e # d => seen'[e] = seen[e]
BY DEF ReadDrive, WD!ReadDriveRegister, WD!floppy_image_take_disk_changed,
   WD!Drive, Drive, WD!floppyvars, floppyvars, Looked

(* ----------------------------- the invariant --------------------------- *)

\* A request leaves the drives in a state that its calls kept safe.
LEMMA BecomeSafe ==
    ASSUME NEW s, Safe(s), DrivesBecome(s), UNCHANGED seen PROVE Safe(Drives)'
BY DEF Safe, DriveStates, Known, News, DrivesBecome, Drives

\* What the guest writes is known to be dirty.
LEMMA EffectSafe == ASSUME Inv, Effect, UNCHANGED seen PROVE Safe(Drives)'
<1> USE DEF Drives
<1>1. CASE UNCHANGED floppyvars
  BY <1>1 DEF Inv, Safe, DriveStates, Known, News, floppyvars
<1>2. ASSUME NEW d \in Drive, Wrote(d) PROVE Safe(Drives)'
  <2>1. image \in [Drive -> Image] /\ unsynced \subseteq Path
    BY DEF Inv, Safe, DriveStates
  <2>2. image[d].file \in Path
    BY <1>2, <2>1 DEF Wrote, Image
  <2>3. image' \in [Drive -> Image] /\ unsynced' \subseteq Path
    BY <1>2, <2>1, <2>2 DEF Wrote, Image
  <2>4. \A e \in Drive : /\ image'[e].file = image[e].file
                         /\ image[e].dirty => image'[e].dirty
    BY <1>2, <2>1 DEF Wrote, Image
  <2>5. image'[d].dirty
    BY <1>2, <2>1 DEF Wrote, Image
  <2>6. ASSUME NEW f \in unsynced'
        PROVE  \E e \in Drive : image'[e].file = f /\ image'[e].dirty
    <3>1. CASE f \in unsynced
      BY <2>4, <3>1 DEF Inv, Safe, Known
    <3>2. CASE f = image[d].file
      BY <2>4, <2>5, <3>2
    <3> QED BY <1>2, <2>6, <3>1, <3>2 DEF Wrote
  <2>7. \A e \in Drive : image'[e].disk_changed = image[e].disk_changed
    BY <1>2, <2>1 DEF Wrote, Image
  <2>8. News(Drives)'
    BY <2>4, <2>7 DEF Inv, Safe, News
  <2> QED BY <2>3, <2>6, <2>8 DEF Safe, DriveStates, Known
<1> QED BY <1>1, <1>2 DEF Effect

\* A look takes the news of the drive looked at, and no other.
LEMMA LookSafe == ASSUME Inv, ReadDrive PROVE Safe(Drives)'
<1> USE DEF Drives
<1>1. image \in [Drive -> Image] /\ unsynced \subseteq Path
  BY DEF Inv, Safe, DriveStates
<1>2. CASE UNCHANGED floppyvars /\ \A d \in Drive : seen'[d] = seen[d]
  BY <1>2 DEF Inv, Safe, DriveStates, Known, News, floppyvars
<1>3. ASSUME NEW d \in Drive, Looked(d), seen'[d] = image[d].file,
             \A e \in Drive : e # d => seen'[e] = seen[e]
      PROVE  Safe(Drives)'
  <2>1. image' \in [Drive -> Image] /\ unsynced' = unsynced
    BY <1>1, <1>3 DEF Looked, Image
  <2>2. \A e \in Drive : image'[e].file = image[e].file
                         /\ image'[e].dirty = image[e].dirty
    BY <1>1, <1>3 DEF Looked, Image
  <2>3. \A e \in Drive : e # d => image'[e] = image[e]
    BY <1>1, <1>3 DEF Looked
  <2>4. News(Drives)'
    BY <1>3, <2>2, <2>3 DEF Inv, Safe, News
  <2> QED BY <1>1, <2>1, <2>2, <2>4 DEF Inv, Safe, DriveStates, Known
<1> QED BY <1>2, <1>3, LookEffect

LEMMA ConfigTypes ==
    ASSUME Inv
    PROVE  /\ config.mode \in Mode /\ saved.mode \in Mode
           /\ \A d \in Drive : config.path[d] \in Path \cup {NoFile}
                               /\ saved.path[d] \in Path \cup {NoFile}
BY DEF Inv, Config

LEMMA DrivesSafe == ASSUME Inv PROVE Safe(Drives)
BY DEF Inv

\* Requests of one call.
LEMMA MountDialogKeeps ==
    ASSUME Inv, NEW d \in Drive, NEW f \in Path, NEW refused \in Refusals,
           MountDialog(d, f, refused)
    PROVE  Inv'
<1>1. Safe(floppy_image_mount(Drives, d, f, config.mode, refused))
  BY ConfigTypes, DrivesSafe, MountSafe
<1>2. Safe(Drives)'
  BY <1>1, BecomeSafe DEF MountDialog, Request, Handled
<1>3. config' \in Config /\ saved' \in Config
  BY DEF Inv, MountDialog, Config
<1> QED BY <1>2, <1>3 DEF Inv

LEMMA EjectKeeps ==
    ASSUME Inv, NEW d \in Drive, NEW refused \in Refusals, Eject(d, refused)
    PROVE  Inv'
<1>1. Safe(floppy_image_eject(Drives, d, refused))
  BY DrivesSafe, EjectSafe
<1>2. Safe(Drives)'
  BY <1>1, BecomeSafe DEF Eject, EjectRequest, Handled
<1>3. config' \in Config /\ saved' \in Config
  BY DEF Inv, Eject, Config
<1> QED BY <1>2, <1>3 DEF Inv

LEMMA ToggleKeeps ==
    ASSUME Inv, NEW refused \in Refusals, toggle_second_floppy(refused)
    PROVE  Inv'
<1>1. Safe(floppy_image_eject(Drives, 1, refused))
  BY DrivesSafe, EjectSafe DEF Drive
<1>2. Safe(floppy_image_mount(Drives, 1, config.path[1], config.mode, refused))
  BY ConfigTypes, DrivesSafe, MountSafe DEF Drive
<1>3. PICK s : Safe(s) /\ DrivesBecome(s) /\ UNCHANGED seen
  BY <1>1, <1>2, DrivesSafe DEF toggle_second_floppy
<1>4. config' \in Config /\ saved' \in Config
  BY DEF Inv, toggle_second_floppy, Config
<1> QED BY <1>3, <1>4, BecomeSafe DEF Inv

\* The access mode: up to three mounts, the last of them back.
LEMMA ModeKeeps ==
    ASSUME Inv, NEW m \in Mode, NEW ra, NEW rb, NEW back,
           set_floppy_image_mode(m, ra, rb, back)
    PROVE  Inv'
<1> DEFINE a == floppy_image_mount(Drives, 0, config.path[0], m, ra)
           s == IF image[0].file # NoFile THEN a ELSE Drives
           b == floppy_image_mount(s, 1, config.path[1], m, rb)
           r == Rollback(s, config.mode, back)
<1> USE DEF Drive
<1>1. Safe(a)
  BY ConfigTypes, DrivesSafe, MountSafe
<1>2. Safe(s)
  BY <1>1, DrivesSafe
<1>3. Safe(b)
  BY <1>2, ConfigTypes, MountSafe
<1>4. Safe(r)
  BY <1>2, ConfigTypes, MountSafe DEF Rollback
<1>5. /\ UNCHANGED seen
      /\ \/ DrivesBecome(Drives) \/ DrivesBecome(s) \/ DrivesBecome(b)
         \/ DrivesBecome(r)
  BY DEF set_floppy_image_mode, Request, Handled
<1>6. Safe(Drives)'
  BY <1>2, <1>3, <1>4, <1>5, DrivesSafe, BecomeSafe
<1>7. config' \in Config /\ saved' \in Config
  BY DEF Inv, set_floppy_image_mode, Config
<1> QED BY <1>6, <1>7 DEF Inv

\* Giving up the settings: two ejects, then two mounts, stopping at a failure.
LEMMA CancelKeeps ==
    ASSUME Inv, NEW refused, Cancel(refused)
    PROVE  Inv'
<1> DEFINE noA == floppy_image_eject(Drives, 0, refused[0])
           none == floppy_image_eject(noA, 1, refused[1])
           a == IF saved.path[0] = NoFile THEN none
                ELSE floppy_image_mount(none, 0, saved.path[0], saved.mode,
                                        refused[0])
           wantB == saved.second /\ saved.path[1] # NoFile
           b == IF wantB THEN floppy_image_mount(a, 1, saved.path[1],
                                                 saved.mode, refused[1])
                ELSE a
<1> USE DEF Drive
<1>1. Safe(noA)
  BY DrivesSafe, EjectSafe
<1>2. Safe(none)
  BY <1>1, EjectSafe
<1>3. Safe(a)
  BY <1>2, ConfigTypes, MountSafe
<1>4. Safe(b)
  BY <1>3, ConfigTypes, MountSafe
<1>5. /\ UNCHANGED seen
      /\ \/ DrivesBecome(Drives) \/ DrivesBecome(noA) \/ DrivesBecome(none)
         \/ DrivesBecome(b)
  BY DEF Cancel, Handled
<1>6. Safe(Drives)'
  BY <1>1, <1>2, <1>4, <1>5, DrivesSafe, BecomeSafe
<1>7. config' \in Config /\ saved' \in Config
  BY DEF Inv, Cancel
<1> QED BY <1>6, <1>7 DEF Inv

\* The disks of the configuration are mounted in empty drives.
LEMMA InitInv == ASSUME Init PROVE Inv
<1>1. PICK refused \in [Drive -> {{}, {"open"}}] : image = Started(refused).image
  BY DEF Init
<1>2. config \in Config /\ saved \in Config /\ unsynced = {}
  BY DEF Init
<1>3. Safe(NoDisks)
  BY DEF Init, Safe, Known, News, Drive, DriveStates, NoDisks, Ejected, Attached, Image, Mode
<1> DEFINE a == IF config.path[0] = NoFile THEN NoDisks
                ELSE floppy_image_mount(NoDisks, 0, config.path[0],
                                        config.mode, refused[0])
<1> USE DEF Drive
<1>4. /\ config.mode \in Mode
      /\ config.path[0] \in Path \cup {NoFile}
      /\ config.path[1] \in Path \cup {NoFile}
  BY <1>2 DEF Config
<1>5. Safe(a)
  BY <1>3, <1>4, MountSafe
<1>6. Safe(floppy_image_mount(a, 1, config.path[1], config.mode, refused[1]))
  BY <1>4, <1>5, MountSafe
<1>7. Safe(Started(refused))
  BY <1>5, <1>6 DEF Started
<1>8. Safe(Drives)
  BY <1>1, <1>2, <1>7 DEF Safe, DriveStates, Known, News, Drives
<1> QED BY <1>2, <1>8 DEF Inv

LEMMA UserKeeps == ASSUME Inv, User PROVE Inv'
<1>1. CASE OpenOverlay \/ CloseOverlay
  BY <1>1 DEF Inv, Safe, DriveStates, Known, News, OpenOverlay, CloseOverlay,
     floppyvars, history, Drives
<1>2. CASE \E refused \in Refusals, d \in Drive, f \in Path :
              MountDialog(d, f, refused)
  BY <1>2, MountDialogKeeps
<1>3. CASE \E refused \in Refusals, d \in Drive : Eject(d, refused)
  BY <1>3, EjectKeeps
<1>4. CASE \E refused \in Refusals : toggle_second_floppy(refused)
  BY <1>4, ToggleKeeps
<1>5. CASE \E refused \in [Drive -> Refusals] : Cancel(refused)
  BY <1>5, CancelKeeps
<1>6. CASE \E m \in Mode, ra, rb, back \in Refusals :
              set_floppy_image_mode(m, ra, rb, back)
  BY <1>6, ModeKeeps
<1> QED BY <1>1, <1>2, <1>3, <1>4, <1>5, <1>6 DEF User

LEMMA NextInv == ASSUME Inv, [Next]_vars PROVE Inv'
<1>1. CASE Guest
  BY <1>1, GuestEffect, EffectSafe, LookSafe DEF Inv
<1>2. CASE User
  BY <1>2, UserKeeps
<1>3. CASE MachineReset
  BY <1>3 DEF Inv, Safe, DriveStates, Known, News, MachineReset, floppyvars,
     uservars, Drives
<1>4. CASE UNCHANGED vars
  BY <1>4 DEF Inv, Safe, DriveStates, Known, News, vars, floppyvars, uservars,
     history, Drives
<1> QED BY <1>1, <1>2, <1>3, <1>4 DEF Next

\* However disks are written, swapped and re-mounted, and whatever the host
\* refuses, a change not yet on stable storage is one that a mounted image
\* knows of, so that the next flush or eject writes it (floppy_image_eject).
THEOREM NothingIsForgotten == Spec => []NothingForgotten
<1>1. Init => Inv
  BY InitInv
<1>2. Inv /\ [Next]_vars => Inv'
  BY NextInv
<1>3. Inv => NothingForgotten
  BY DEF Inv, Safe, Known, Drives, NothingForgotten
<1> QED BY <1>1, <1>2, <1>3, PTL DEF Spec

\* A disk that went in while the guest was stopped is announced when the
\* guest looks, in the drive it went into (floppy_image_take_disk_changed).
THEOREM ChangeIsSeen == Spec => []ChangeSeen
<1>1. Init => Inv
  BY InitInv
<1>2. Inv /\ [Next]_vars => Inv'
  BY NextInv
<1>3. Inv => ChangeSeen
  BY DEF Inv, Safe, News, Drives, ChangeSeen
<1> QED BY <1>1, <1>2, <1>3, PTL DEF Spec

\* No request writes a sector: only the guest does, through
\* floppy_image_write_sector.
LEMMA UserWritesNothing ==
    ASSUME User \/ MachineReset \/ UNCHANGED vars
    PROVE  UNCHANGED written
<1>1. CASE OpenOverlay \/ CloseOverlay \/ MachineReset \/ UNCHANGED vars
  BY <1>1 DEF OpenOverlay, CloseOverlay, MachineReset, vars, floppyvars
<1>2. \A d, f, refused : MountDialog(d, f, refused) => UNCHANGED written
  BY DEF MountDialog, Request, Handled
<1>3. \A d, refused : Eject(d, refused) => UNCHANGED written
  BY DEF Eject, EjectRequest, Handled
<1>4. \A refused : toggle_second_floppy(refused) => UNCHANGED written
  BY DEF toggle_second_floppy
<1>5. \A refused : Cancel(refused) => UNCHANGED written
  BY DEF Cancel, Handled
<1>6. \A m, ra, rb, back :
         set_floppy_image_mode(m, ra, rb, back) => UNCHANGED written
  BY DEF set_floppy_image_mode, Request, Handled
<1> QED BY <1>1, <1>2, <1>3, <1>4, <1>5, <1>6 DEF User

LEMMA StepEffect ==
    ASSUME [Next]_vars PROVE Effect \/ UNCHANGED written
BY GuestEffect, LookEffect, UserWritesNothing DEF Looked, floppyvars, Next

\* A file changes only in a drive that has it open for reading and writing at
\* that moment, whatever the mode was when the command began (write_data_register).
THEOREM ReadOnlyIsKept == Spec => ReadOnlyKept
<1> DEFINE Files == DOMAIN written = Path
<1>1. Init => Files
  BY DEF Init
<1>2. Files /\ [Next]_vars => Files'
  BY StepEffect DEF Effect, Wrote, floppyvars
<1>3. ASSUME Files, [Next]_vars, NEW f \in Path, written[f]' # written[f]
      PROVE  \E d \in Drive : image[d].file = f /\ image[d].mode = "read/write"
  <2>1. PICK d \in Drive : Wrote(d)
    BY <1>3, StepEffect DEF Effect, floppyvars
  <2>2. image[d].file = f
    BY <1>3, <2>1 DEF Wrote
  <2> QED BY <2>1, <2>2 DEF Wrote
<1>4. Files /\ [Next]_vars =>
        [\A f \in Path : written[f]' # written[f] =>
            \E d \in Drive : image[d].file = f /\ image[d].mode = "read/write"
        ]_vars
  BY <1>3
<1> QED BY <1>1, <1>2, <1>4, PTL DEF Spec, ReadOnlyKept

(* ----------------------------- the WD2793 ------------------------------ *)

WdStates ==
    [selected_drive : 0..2, physical_track : Nat, side : Nat, sector : Nat,
     transfer : {"none", "read", "write"}, size : Nat, offset : Nat,
     multiple : BOOLEAN, busy : BOOLEAN, drq : BOOLEAN, irq : BOOLEAN,
     record_missing : BOOLEAN]

\* The lines tell the transfer, and a place in the buffer is inside it.
Lines(w) == /\ w.busy <=> w.transfer # "none"
            /\ w.drq <=> w.busy
            /\ w.busy => ~w.irq /\ w.offset < w.size

\* What a handler makes of the controller.
Sound(e, w) == /\ e \in WdStates /\ Lines(e)
               /\ e.selected_drive = w.selected_drive
               /\ w.record_missing => e.record_missing
\* ... and it tells the guest.
Told(e, w) == Sound(e, w) /\ (e.irq \/ e.drq)

LEMMA EndTransfer ==
    ASSUME NEW w \in WdStates, NEW interrupt \in BOOLEAN,
           NEW e, e = WD!end_transfer(w, interrupt)
    PROVE  /\ Sound(e, w) /\ ~e.busy /\ e.transfer = "none"
           /\ e.irq <=> interrupt
           /\ e.record_missing <=> w.record_missing
<1>1. e = [w EXCEPT !.transfer = "none", !.size = 0, !.offset = 0,
                    !.busy = FALSE, !.drq = FALSE, !.irq = interrupt]
  BY DEF WD!end_transfer
<1> DEFINE t == [w EXCEPT !.transfer = "none", !.size = 0, !.offset = 0]
<1>2. e \in WdStates
  <2>1. t \in WdStates
    BY DEF WdStates
  <2>2. e = [t EXCEPT !.busy = FALSE, !.drq = FALSE, !.irq = interrupt]
    BY <1>1
  <2> HIDE DEF t
  <2> QED BY <2>1, <2>2 DEF WdStates
<1>3. e.selected_drive = w.selected_drive /\ e.transfer = "none"
  BY <1>1 DEF WdStates
<1>4. /\ ~e.busy /\ ~e.drq /\ (e.irq <=> interrupt)
      /\ e.record_missing <=> w.record_missing
  BY <1>1 DEF WdStates
<1> QED BY <1>2, <1>3, <1>4 DEF Sound, Lines

LEMMA CommandError ==
    ASSUME NEW w \in WdStates, NEW missing \in BOOLEAN,
           NEW e, e = WD!command_error(w, missing)
    PROVE  /\ Told(e, w) /\ e.transfer = "none"
           /\ e.record_missing <=> w.record_missing \/ missing
<1> DEFINE t == WD!end_transfer(w, TRUE)
           found == w.record_missing \/ missing
<1>1. /\ Sound(t, w) /\ ~t.busy /\ t.transfer = "none" /\ t.irq
      /\ t.record_missing <=> w.record_missing
  BY EndTransfer
<1>2. e = [t EXCEPT !.record_missing = t.record_missing \/ missing]
  BY <1>1 DEF WD!command_error, Sound, WdStates
<1> HIDE DEF t
<1>3. e \in WdStates
  BY <1>1, <1>2 DEF Sound, WdStates
<1>4. e.selected_drive = t.selected_drive /\ e.transfer = "none"
  BY <1>1, <1>2 DEF Sound, WdStates
<1>5. ~e.busy /\ e.irq /\ (e.drq <=> t.drq)
  BY <1>1, <1>2 DEF Sound, WdStates
<1>6. e.record_missing <=> w.record_missing \/ missing
  BY <1>1, <1>2 DEF Sound, WdStates
<1> QED BY <1>1, <1>3, <1>4, <1>5, <1>6 DEF Told, Sound, Lines

LEMMA BegunTransfer ==
    ASSUME NEW w \in WdStates, ~w.irq, NEW kind \in {"read", "write"},
           NEW bytes \in Nat \ {0}, NEW e, e = WD!Begun(w, kind, bytes)
    PROVE  Told(e, w) /\ e.transfer = kind
<1>1. e = [w EXCEPT !.transfer = kind, !.size = bytes, !.offset = 0,
                    !.busy = TRUE, !.drq = TRUE]
  BY DEF WD!Begun
<1> DEFINE t == [w EXCEPT !.transfer = kind, !.size = bytes, !.offset = 0]
<1>2. e \in WdStates
  <2>1. t \in WdStates
    BY DEF WdStates
  <2>2. e = [t EXCEPT !.busy = TRUE, !.drq = TRUE]
    BY <1>1
  <2> HIDE DEF t
  <2> QED BY <2>1, <2>2 DEF WdStates
<1>3. /\ e.selected_drive = w.selected_drive /\ e.transfer = kind
      /\ e.offset = 0 /\ e.size = bytes
  BY <1>1 DEF WdStates
<1>4. e.busy /\ e.drq /\ ~e.irq /\ (e.record_missing <=> w.record_missing)
  BY <1>1 DEF WdStates
<1> QED BY <1>2, <1>3, <1>4 DEF Told, Sound, Lines

LEMMA LoadSector ==
    ASSUME NEW w \in WdStates, ~w.irq, NEW host,
           NEW e, e = WD!load_sector(w, host)
    PROVE  Told(e, w)
<1>1. SectorBytes \in Nat \ {0}
  BY FloppyDrivesAssumption
<1> QED BY <1>1, CommandError, BegunTransfer DEF WD!load_sector

\* A write that does not begin is one to a disk that is write protected.
LEMMA BeginWrite ==
    ASSUME NEW w \in WdStates, ~w.irq, NEW e, e = WD!begin_write_sector(w)
    PROVE  /\ Told(e, w)
           /\ e.transfer = "write" \/ ~WD!floppy_image_writable(w.selected_drive)
<1>1. SectorBytes \in Nat \ {0}
  BY FloppyDrivesAssumption
<1> QED BY <1>1, CommandError, BegunTransfer DEF WD!begin_write_sector

LEMMA Continue ==
    ASSUME NEW w \in WdStates, ~w.irq, NEW host,
           NEW e, e = WD!continue_multiple(w, host)
    PROVE  Told(e, w)
<1>1. CASE w.multiple /\ w.selected_drive \in WD!Drive
  <2> DEFINE number == w.sector + 1
             t == [w EXCEPT !.sector = number]
  <2>1. number \in Nat
    BY DEF WdStates
  <2>2. e = WD!Continued(w, host)
    BY <1>1 DEF WD!continue_multiple
  <2> HIDE DEF number
  <2>3. t \in WdStates
    BY <2>1 DEF WdStates
  <2>4. t.selected_drive = w.selected_drive /\ ~t.irq
        /\ (t.record_missing <=> w.record_missing)
    BY DEF WdStates
  <2>5. \/ e = WD!command_error(t, TRUE)
        \/ e = WD!load_sector(t, host)
        \/ e = WD!begin_write_sector(t)
    BY <2>2 DEF WD!Continued, WdStates, number
  <2> HIDE DEF t
  <2>6. Told(e, t)
    BY <2>3, <2>4, <2>5, CommandError, LoadSector, BeginWrite
  <2> QED BY <2>4, <2>6 DEF Told, Sound
<1>2. CASE ~(w.multiple /\ w.selected_drive \in WD!Drive)
  BY <1>2, EndTransfer DEF WD!continue_multiple, Told
<1> QED BY <1>1, <1>2

\* A command begins with the controller at rest.
Rest(e) == /\ e \in WdStates /\ Lines(e) /\ ~e.irq /\ ~e.busy
           /\ e.selected_drive = wd.selected_drive

LEMMA ClearedRests ==
    ASSUME wd \in WdStates, NEW m \in BOOLEAN, NEW t \in Nat
    PROVE  /\ Rest(WD!Cleared) /\ Rest([WD!Cleared EXCEPT !.multiple = m])
           /\ Rest([WD!Cleared EXCEPT !.physical_track = t])
<1> DEFINE e == WD!end_transfer(wd, FALSE)
           c == [e EXCEPT !.multiple = FALSE, !.record_missing = FALSE]
<1>1. Sound(e, wd) /\ ~e.busy /\ ~e.irq
  BY EndTransfer
<1>2. WD!Cleared = c
  BY DEF WD!Cleared
<1> HIDE DEF e
<1>3. c \in WdStates
  BY <1>1 DEF Sound, WdStates
<1>4. /\ c.selected_drive = wd.selected_drive /\ c.transfer = e.transfer
      /\ c.size = e.size /\ c.offset = e.offset
  BY <1>1 DEF Sound, WdStates
<1>5. ~c.busy /\ ~c.irq /\ (c.drq <=> e.drq)
  BY <1>1 DEF Sound, WdStates
<1>6. Rest(c)
  BY <1>1, <1>3, <1>4, <1>5 DEF Rest, Sound, Lines
<1> HIDE DEF c
<1>7. Rest([c EXCEPT !.multiple = m])
  BY <1>6 DEF Rest, WdStates, Lines
<1>8. Rest([c EXCEPT !.physical_track = t])
  BY <1>6 DEF Rest, WdStates, Lines
<1> QED BY <1>2, <1>6, <1>7, <1>8

\* A command is under way, or it is over and says so.
Answers(w) == w \in WdStates /\ Lines(w) /\ (w.irq \/ w.drq)

LEMMA ReadAnswers ==
    ASSUME wd \in WdStates, NEW m \in BOOLEAN, NEW host, WD!ReadSector(m, host)
    PROVE  Answers(wd')
<1> DEFINE c == [WD!Cleared EXCEPT !.multiple = m]
<1>1. Rest(c)
  BY ClearedRests
<1>2. wd' = WD!load_sector(c, host)
  BY DEF WD!ReadSector
<1> HIDE DEF c
<1> QED BY <1>1, <1>2, LoadSector DEF Rest, Told, Sound, Answers

LEMMA WriteAnswers ==
    ASSUME wd \in WdStates, NEW m \in BOOLEAN, WD!WriteSector(m)
    PROVE  /\ Answers(wd') /\ wd'.selected_drive = wd.selected_drive
           /\ \/ wd'.transfer = "write"
              \/ ~WD!floppy_image_writable(wd.selected_drive)
<1> DEFINE c == [WD!Cleared EXCEPT !.multiple = m]
<1>1. Rest(c)
  BY ClearedRests
<1>2. wd' = WD!begin_write_sector(c)
  BY DEF WD!WriteSector
<1> HIDE DEF c
<1>3. Told(wd', c) /\ \/ wd'.transfer = "write"
                      \/ ~WD!floppy_image_writable(c.selected_drive)
  BY <1>1, <1>2, BeginWrite DEF Rest
<1> QED BY <1>1, <1>3 DEF Rest, Told, Sound, Answers

LEMMA CommandAnswers ==
    ASSUME wd \in WdStates, WD!WdCommand PROVE Answers(wd')
<1>1. ASSUME NEW t \in Cylinder, WD!execute_type_one(t) PROVE Answers(wd')
  <2> DEFINE c == [WD!Cleared EXCEPT !.physical_track = t]
  <2>1. Rest(c)
    <3>1. t \in Nat /\ TRUE \in BOOLEAN
      BY FloppyDrivesAssumption
    <3> QED BY <3>1, ClearedRests
  <2>2. wd' = WD!end_transfer(c, TRUE)
    BY <1>1 DEF WD!execute_type_one
  <2> HIDE DEF c
  <2> QED BY <2>1, <2>2, EndTransfer DEF Rest, Sound, Answers
<1>2. CASE \E m \in BOOLEAN, host \in {"done", "refused"} :
              WD!ReadSector(m, host)
  BY <1>2, ReadAnswers
<1>3. Rest(WD!Cleared)
  BY ClearedRests
<1>4. CASE WD!ReadAddress
  BY <1>3, <1>4, BegunTransfer, CommandError, FloppyDrivesAssumption
     DEF WD!ReadAddress, Rest, Told, Sound, Answers
<1>5. CASE WD!TrackCommand
  BY <1>3, <1>5, CommandError DEF WD!TrackCommand, Rest, Told, Sound, Answers
<1>6. CASE WD!ForceInterrupt(TRUE)
  <2> DEFINE c == WD!Cleared
  <2>1. wd' = [c EXCEPT !.irq = TRUE]
    BY <1>6 DEF WD!ForceInterrupt
  <2> HIDE DEF c
  <2>2. c \in WdStates /\ Lines(c) /\ ~c.busy
    BY <1>3 DEF Rest, c
  <2>3. wd' \in WdStates
    BY <2>1, <2>2 DEF WdStates
  <2>4. wd'.irq /\ ~wd'.busy /\ (wd'.drq <=> c.drq)
        /\ wd'.transfer = c.transfer
    BY <2>1, <2>2 DEF WdStates
  <2> QED BY <2>2, <2>3, <2>4 DEF Lines, Answers
<1> QED BY <1>1, <1>2, <1>4, <1>5, <1>6 DEF WD!WdCommand

\* The registers and the data port.
LEMMA RegisterAnswers ==
    ASSUME wd \in WdStates, Lines(wd), WD!WdRegister
    PROVE  Sound(wd', wd) /\ (wd.irq \/ wd.drq => wd'.irq \/ wd'.drq)
<1>1. ASSUME NEW n \in SectorNumber, WD!SetSector(n)
      PROVE  Sound(wd', wd) /\ (wd.irq \/ wd.drq => wd'.irq \/ wd'.drq)
  <2>1. n \in Nat
    BY FloppyDrivesAssumption
  <2>2. wd' = [wd EXCEPT !.sector = n]
    BY <1>1 DEF WD!SetSector
  <2> QED BY <2>1, <2>2 DEF WdStates, Lines, Sound
<1>2. ASSUME NEW h \in Head, WD!SetSide(h)
      PROVE  Sound(wd', wd) /\ (wd.irq \/ wd.drq => wd'.irq \/ wd'.drq)
  <2>1. h \in Nat
    BY FloppyDrivesAssumption
  <2>2. wd' = [wd EXCEPT !.side = h]
    BY <1>2 DEF WD!SetSide
  <2> QED BY <2>1, <2>2 DEF WdStates, Lines, Sound
<1>3. ASSUME NEW host, WD!read_data_register(host)
      PROVE  Sound(wd', wd) /\ (wd.irq \/ wd.drq => wd'.irq \/ wd'.drq)
  <2> DEFINE at == wd.offset + 1
             w == [wd EXCEPT !.offset = at]
  <2>1. at \in Nat
    BY DEF WdStates
  <2>2. wd' = IF w.offset < w.size THEN w ELSE WD!continue_multiple(w, host)
    BY <1>3 DEF WD!read_data_register
  <2> HIDE DEF at
  <2>3. w \in WdStates
    BY <2>1 DEF WdStates
  <2>4. /\ w.selected_drive = wd.selected_drive /\ w.transfer = wd.transfer
        /\ (w.busy <=> wd.busy) /\ (w.drq <=> wd.drq) /\ (w.irq <=> wd.irq)
        /\ (w.record_missing <=> wd.record_missing)
    BY DEF WdStates
  <2>5. ~w.irq /\ w.drq /\ w.busy
    BY <1>3, <2>4 DEF WD!read_data_register, Lines
  <2> HIDE DEF w
  <2>6. CASE w.offset < w.size
    BY <2>2, <2>3, <2>4, <2>5, <2>6 DEF Sound, Lines
  <2>7. CASE ~(w.offset < w.size)
    BY <2>2, <2>3, <2>4, <2>5, <2>7, Continue DEF Told, Sound
  <2> QED BY <2>6, <2>7
<1> QED BY <1>1, <1>2, <1>3 DEF WD!WdRegister

\* The last byte of a sector goes to the disk, or the guest is told.
LEMMA ByteAnswers ==
    ASSUME wd \in WdStates, Lines(wd), NEW host, WD!write_data_register(host)
    PROVE  /\ Sound(wd', wd) /\ (wd'.irq \/ wd'.drq)
           /\ WD!LastByte /\ ~WD!Stored(wd.selected_drive, wd.physical_track,
                                        wd.side, wd.sector, host)
              => \/ wd'.record_missing
                 \/ ~WD!floppy_image_writable(wd.selected_drive)
<1> DEFINE at == wd.offset + 1
           w == [wd EXCEPT !.offset = at]
           d == wd.selected_drive
           missing == WD!floppy_image_writable(d)
           stored == WD!Stored(d, wd.physical_track, wd.side, wd.sector, host)
<1>1. at \in Nat
  BY DEF WdStates
<1>2. wd' = IF ~WD!LastByte THEN w
            ELSE IF stored THEN WD!continue_multiple(w, host)
                 ELSE WD!command_error(w, missing)
  BY DEF WD!write_data_register
<1>3. WD!LastByte <=> ~(at < wd.size)
  BY DEF WD!LastByte, WdStates
<1> HIDE DEF at
<1>4. w \in WdStates
  BY <1>1 DEF WdStates
<1>5. /\ w.selected_drive = wd.selected_drive /\ w.transfer = wd.transfer
      /\ w.offset = at /\ w.size = wd.size
  BY DEF WdStates
<1>6. /\ (w.busy <=> wd.busy) /\ (w.drq <=> wd.drq) /\ (w.irq <=> wd.irq)
      /\ (w.record_missing <=> wd.record_missing)
  BY DEF WdStates
<1>7. ~w.irq /\ w.drq /\ w.busy
  BY <1>6 DEF WD!write_data_register, Lines
<1>8. missing \in BOOLEAN
  BY DEF WD!floppy_image_writable, WD!floppy_image_mounted
<1> HIDE DEF w, missing, stored
<1>9. CASE ~WD!LastByte
  BY <1>2, <1>3, <1>4, <1>5, <1>6, <1>7, <1>9 DEF Sound, Lines
<1>10. CASE WD!LastByte /\ stored
  BY <1>2, <1>4, <1>5, <1>6, <1>7, <1>10, Continue DEF Told, Sound, stored
<1>11. CASE WD!LastByte /\ ~stored
  <2>1. Told(wd', w) /\ (wd'.record_missing <=> w.record_missing \/ missing)
    BY <1>2, <1>4, <1>8, <1>11, CommandError
  <2> QED BY <1>5, <1>6, <2>1 DEF Told, Sound, missing
<1> QED BY <1>9, <1>10, <1>11

\* A sector that is not on the disk: the controller's register says so, or
\* there was no disk to write to.
Bare(disk) == disk[1] = NoFile \/ disk[2] # "read/write"
Marked(l) == (l.failed => wd.record_missing) /\ (l.failed \/ Bare(l.disk))

\* What the guest was told stays true: a failed write is marked until the next
\* command, a command answers until it is looked at.
WdInv == /\ wd \in WdStates /\ Lines(wd) /\ asked \in BOOLEAN
         /\ asked => wd.irq \/ wd.drq
         /\ \A l \in lost : Marked(l)

\* A mark stays while the register does.
LEMMA MarksStay ==
    ASSUME WdInv, lost' = lost, wd.record_missing => wd'.record_missing
    PROVE  (\A l \in lost : Marked(l))'
BY DEF WdInv, Marked

\* A sector that is not on the disk is marked at once.
LEMMA MarkComes ==
    ASSUME NEW failed \in BOOLEAN, lost' = {} \/ lost' = {Loss(failed)},
           lost' # {} /\ failed => wd'.record_missing,
           lost' # {} /\ ~failed => ~WD!floppy_image_writable(wd.selected_drive)
    PROVE  (\A l \in lost : Marked(l))'
<1> SUFFICES ASSUME NEW l \in lost'
             PROVE  (l.failed => wd'.record_missing) /\ (l.failed \/ Bare(l.disk))
  BY DEF Marked
<1>1. l = Loss(failed) /\ lost' # {}
  OBVIOUS
<1>2. (l.failed <=> failed) /\ l.disk = DiskIn(wd.selected_drive)
  BY <1>1 DEF Loss
<1>3. WD!floppy_image_writable(wd.selected_drive) \/ Bare(DiskIn(wd.selected_drive))
  BY DEF DiskIn, Bare, WD!floppy_image_writable, WD!floppy_image_mounted,
     WD!Drive, Drive
<1> QED BY <1>1, <1>2, <1>3

LEMMA GuestKeepsWd == ASSUME Inv, WdInv, Guest PROVE WdInv'
<1>0. wd \in WdStates /\ Lines(wd)
  BY DEF WdInv
<1>1. CASE Command
  <2>1. Answers(wd') /\ asked' = TRUE /\ lost' = {}
    BY <1>0, <1>1, CommandAnswers DEF Command
  <2> QED BY <2>1 DEF Answers, WdInv
<1>2. ASSUME NEW multiple \in BOOLEAN, Write(multiple) PROVE WdInv'
  <2>1. /\ Answers(wd') /\ wd'.selected_drive = wd.selected_drive
        /\ \/ wd'.transfer = "write"
           \/ ~WD!floppy_image_writable(wd.selected_drive)
    BY <1>0, <1>2, WriteAnswers DEF Write
  <2>2. asked' = TRUE
        /\ lost' = IF wd'.transfer = "write" THEN {} ELSE {Loss(FALSE)}
    BY <1>2 DEF Write
  <2>3. (\A l \in lost : Marked(l))'
    <3>1. lost' # {} => ~WD!floppy_image_writable(wd.selected_drive)
      BY <2>1, <2>2
    <3> QED BY <2>2, <3>1, MarkComes
  <2> QED BY <2>1, <2>2, <2>3 DEF Answers, WdInv
<1>3. CASE Interrupt
  <2> DEFINE c == WD!Cleared
  <2>1. Rest(c)
    BY <1>0, ClearedRests
  <2>2. wd' = [c EXCEPT !.irq = FALSE] /\ asked' = FALSE /\ lost' = {}
    BY <1>3 DEF Interrupt, WD!ForceInterrupt
  <2> HIDE DEF c
  <2>3. wd' = c
    BY <2>1, <2>2 DEF Rest, WdStates
  <2> QED BY <2>1, <2>2, <2>3 DEF Rest, WdInv
<1>4. CASE Register
  <2>1. Sound(wd', wd) /\ (wd.irq \/ wd.drq => wd'.irq \/ wd'.drq)
    BY <1>0, <1>4, RegisterAnswers DEF Register
  <2>2. asked' = asked /\ lost' = lost
    BY <1>4 DEF Register, Idle, history
  <2>3. (\A l \in lost : Marked(l))'
    BY <2>1, <2>2, MarksStay DEF Sound
  <2> QED BY <2>1, <2>2, <2>3 DEF Sound, WdInv
<1>5. ASSUME NEW d \in Drive \cup {WD!NoDrive}, Select(d) PROVE WdInv'
  <2>1. wd' = [wd EXCEPT !.selected_drive = d] /\ lost' = lost /\ asked' = asked
    BY <1>5 DEF Select, WD!SelectDrive, Idle, history
  <2>2. d \in 0..2
    BY DEF Drive, WD!NoDrive
  <2>3. wd' \in WdStates
    BY <1>0, <2>1, <2>2 DEF WdStates
  <2>4. /\ wd'.transfer = wd.transfer /\ wd'.offset = wd.offset
        /\ wd'.size = wd.size
    BY <1>0, <2>1 DEF WdStates
  <2>5. (wd'.busy <=> wd.busy) /\ (wd'.drq <=> wd.drq) /\ (wd'.irq <=> wd.irq)
        /\ (wd'.record_missing <=> wd.record_missing)
    BY <1>0, <2>1 DEF WdStates
  <2>6. (\A l \in lost : Marked(l))'
    BY <2>1, <2>5, MarksStay
  <2> QED BY <2>1, <2>3, <2>4, <2>5, <2>6 DEF WdInv, Lines
<1>6. ASSUME NEW host \in HostOutcome, WriteData(host) PROVE WdInv'
  <2>1. /\ Sound(wd', wd) /\ (wd'.irq \/ wd'.drq)
        /\ WD!LastByte /\ ~WD!Stored(wd.selected_drive, wd.physical_track,
                                     wd.side, wd.sector, host)
           => \/ wd'.record_missing
              \/ ~WD!floppy_image_writable(wd.selected_drive)
    BY <1>0, <1>6, ByteAnswers DEF WriteData
  <2>2. asked' = asked
        /\ lost' = IF WD!LastByte /\ ~Stored(wd.selected_drive,
                         wd.physical_track, wd.side, wd.sector, host)
                   THEN {Loss(floppy_image_writable(wd.selected_drive))} ELSE {}
    BY <1>6 DEF WriteData, Idle
  <2>3. WD!Stored(wd.selected_drive, wd.physical_track, wd.side, wd.sector, host)
        <=> Stored(wd.selected_drive, wd.physical_track, wd.side, wd.sector, host)
    BY DEF WD!Stored, WD!Writes, WD!MayWrite, WD!floppy_image_writable,
       WD!floppy_image_mounted, WD!OnDisk, WD!Drive, Stored, Writes, MayWrite,
       floppy_image_writable, floppy_image_mounted, OnDisk, Drive
  <2>4. (\A l \in lost : Marked(l))'
    <3> DEFINE failed == floppy_image_writable(wd.selected_drive)
    <3>1. failed \in BOOLEAN
          /\ (failed <=> WD!floppy_image_writable(wd.selected_drive))
      BY DEF floppy_image_writable, floppy_image_mounted, Drive,
         WD!floppy_image_writable, WD!floppy_image_mounted, WD!Drive
    <3>2. lost' # {} /\ failed => wd'.record_missing
      BY <2>1, <2>2, <2>3, <3>1
    <3>3. lost' = {} \/ lost' = {Loss(failed)}
      BY <2>2
    <3> HIDE DEF failed
    <3> QED BY <3>1, <3>2, <3>3, MarkComes
  <2> QED BY <2>1, <2>2, <2>4 DEF Sound, WdInv
<1>7. CASE ReadStatus
  <2>1. wd' = [wd EXCEPT !.irq = FALSE]
    BY <1>7 DEF ReadStatus, WD!ReadStatus
  <2>2. (asked' <=> (asked /\ wd.busy)) /\ asked' \in BOOLEAN /\ lost' = {}
    BY <1>7 DEF ReadStatus
  <2>3. wd' \in WdStates
    BY <1>0, <2>1 DEF WdStates
  <2>4. /\ wd'.transfer = wd.transfer /\ wd'.offset = wd.offset
        /\ wd'.size = wd.size
    BY <1>0, <2>1 DEF WdStates
  <2>5. (wd'.busy <=> wd.busy) /\ (wd'.drq <=> wd.drq) /\ ~wd'.irq
    BY <1>0, <2>1 DEF WdStates
  <2> QED BY <2>2, <2>3, <2>4, <2>5 DEF WdInv, Lines
<1>8. CASE ReadDrive \/ Tc
  <2>1. wd' = wd /\ asked' = asked /\ lost' = lost
    BY <1>8 DEF ReadDrive, WD!ReadDriveRegister, Tc, Idle, history
  <2>2. (\A l \in lost : Marked(l))'
    BY <2>1, MarksStay
  <2> QED BY <2>1, <2>2 DEF WdInv
<1> QED BY <1>1, <1>2, <1>3, <1>4, <1>5, <1>6, <1>7, <1>8 DEF Guest

\* A request of the user that takes a disk out ends the transfer of the
\* selected drive, and then no answer is owed; any other leaves it alone.
LEMMA EndedKeeps ==
    ASSUME WdInv, wd' = WD!end_transfer(wd, FALSE), lost' = lost,
           asked' = (asked /\ ~(wd.busy \/ wd.irq))
    PROVE  WdInv'
<1>1. Sound(wd', wd)
  BY EndTransfer DEF WdInv
<1>2. ~asked' /\ asked' \in BOOLEAN
  BY DEF WdInv, Lines
<1>3. (\A l \in lost : Marked(l))'
  BY <1>1, MarksStay DEF Sound
<1> QED BY <1>1, <1>2, <1>3 DEF Sound, WdInv

LEMMA AloneKeeps ==
    ASSUME WdInv, wd' = wd, lost' = lost, asked' = asked PROVE WdInv'
BY MarksStay DEF WdInv

LEMMA ResetRests == Lines(WD!WdReset) /\ WD!WdReset \in WdStates
BY DEF WD!WdReset, Lines, WdStates

LEMMA ResetKeeps ==
    ASSUME wd' = WD!WdReset, lost' = {}, asked' = FALSE PROVE WdInv'
BY ResetRests DEF WdInv

LEMMA UserKeepsWd == ASSUME WdInv, User PROVE WdInv'
<1>1. CASE OpenOverlay \/ CloseOverlay
  <2>1. wd' = wd /\ asked' = asked /\ lost' = lost
    BY <1>1 DEF OpenOverlay, CloseOverlay, history
  <2> QED BY <2>1, AloneKeeps
<1>2. ASSUME NEW d, NEW f, NEW refused, MountDialog(d, f, refused)
      PROVE  WdInv'
  <2>1. wd' = wd /\ lost' = lost /\ asked' = asked
    BY <1>2 DEF MountDialog, Request, Handled
  <2> QED BY <2>1, AloneKeeps
<1>3. ASSUME NEW d, NEW refused, Eject(d, refused) PROVE WdInv'
  <2>1. /\ lost' = lost /\ WD!WdEject(d)
        /\ asked' = (asked /\ ~(wd.busy /\ wd.selected_drive = d)
                           /\ ~(wd.irq /\ wd.selected_drive = d))
    BY <1>3 DEF Eject, EjectRequest, Handled
  <2>2. CASE wd.selected_drive = d
    <3>1. wd' = WD!end_transfer(wd, FALSE)
          /\ asked' = (asked /\ ~(wd.busy \/ wd.irq))
      BY <2>1, <2>2 DEF WD!WdEject
    <3> QED BY <2>1, <3>1, EndedKeeps
  <2>3. CASE wd.selected_drive # d
    <3>1. wd' = wd /\ asked' = asked
      BY <2>1, <2>3 DEF WD!WdEject, WdInv
    <3> QED BY <2>1, <3>1, AloneKeeps
  <2> QED BY <2>2, <2>3
<1>4. ASSUME NEW refused, toggle_second_floppy(refused) PROVE WdInv'
  <2>1. \/ wd' = WD!WdReset /\ asked' = FALSE /\ lost' = {}
        \/ /\ lost' = lost /\ WD!WdEject(1)
           /\ asked' = (asked /\ ~(wd.selected_drive = 1
                                   /\ (wd.busy \/ wd.irq)))
    BY <1>4 DEF toggle_second_floppy, Reset, WD!wd2793_reset
  <2>2. CASE wd' = WD!WdReset /\ asked' = FALSE /\ lost' = {}
    BY <2>2, ResetKeeps
  <2>3. CASE /\ lost' = lost /\ WD!WdEject(1)
             /\ asked' = (asked /\ ~(wd.selected_drive = 1
                                     /\ (wd.busy \/ wd.irq)))
    <3>1. CASE wd.selected_drive = 1
      <4>1. wd' = WD!end_transfer(wd, FALSE)
            /\ asked' = (asked /\ ~(wd.busy \/ wd.irq))
        BY <2>3, <3>1 DEF WD!WdEject
      <4> QED BY <2>3, <4>1, EndedKeeps
    <3>2. CASE wd.selected_drive # 1
      <4>1. wd' = wd /\ asked' = asked
        BY <2>3, <3>2 DEF WD!WdEject, WdInv
      <4> QED BY <2>3, <4>1, AloneKeeps
    <3> QED BY <3>1, <3>2
  <2> QED BY <2>1, <2>2, <2>3
<1>5. ASSUME NEW refused, Cancel(refused) PROVE WdInv'
  <2>1. PICK ends : /\ lost' = lost
                    /\ wd' = IF wd.selected_drive \in ends
                             THEN WD!end_transfer(wd, FALSE) ELSE wd
                    /\ asked' = (asked /\ ~(wd.selected_drive \in ends
                                            /\ (wd.busy \/ wd.irq)))
    BY <1>5 DEF Cancel, Handled
  <2>2. CASE wd.selected_drive \in ends
    <3>1. wd' = WD!end_transfer(wd, FALSE)
          /\ asked' = (asked /\ ~(wd.busy \/ wd.irq))
      BY <2>1, <2>2
    <3> QED BY <2>1, <3>1, EndedKeeps
  <2>3. CASE wd.selected_drive \notin ends
    <3>1. wd' = wd /\ asked' = asked
      BY <2>1, <2>3 DEF WdInv
    <3> QED BY <2>1, <3>1, AloneKeeps
  <2> QED BY <2>2, <2>3
<1>6. ASSUME NEW m, NEW ra, NEW rb, NEW back,
             set_floppy_image_mode(m, ra, rb, back)
      PROVE  WdInv'
  <2>1. wd' = wd /\ lost' = lost /\ asked' = asked
    BY <1>6 DEF set_floppy_image_mode, Request, Handled
  <2> QED BY <2>1, AloneKeeps
<1> QED BY <1>1, <1>2, <1>3, <1>4, <1>5, <1>6 DEF User

LEMMA NextWd == ASSUME Inv, WdInv, [Next]_vars PROVE WdInv'
<1>1. CASE MachineReset
  BY <1>1, ResetKeeps DEF MachineReset, Reset, WD!wd2793_reset
<1>2. CASE UNCHANGED vars
  <2>1. wd' = wd /\ asked' = asked /\ lost' = lost
    BY <1>2 DEF vars, history
  <2> QED BY <2>1, AloneKeeps
<1> QED BY <1>1, <1>2, GuestKeepsWd, UserKeepsWd DEF Next

(* ----------------------------- the TC8566AF ---------------------------- *)

TcStates ==
    [phase : {"idle", "command", "read", "write", "format", "result"},
     command : TC!Command, main_status : SUBSET {"RQM", "BUSY", "DIO", "NONDMA"},
     control : 0..3, selected_drive : 0..3, current_track : [Drive -> Nat],
     parameter_count : Nat, cylinder : Nat, head : Nat, sector : Nat,
     end_of_track : Nat, position : Nat, size : Nat, left : Nat, tuple : Nat]

\* In each phase the status asks for what the phase acts on, and there is
\* something left of it.
Phased(w) ==
    \/ w.phase = "idle" /\ w.main_status = {"RQM"}
    \/ /\ w.phase = "command" /\ w.main_status = {"RQM", "BUSY"}
       /\ w.parameter_count < TC!Needed(w.command)
    \/ /\ w.phase = "read" /\ w.main_status = {"RQM", "BUSY", "NONDMA", "DIO"}
       /\ w.position < w.size
    \/ /\ w.phase = "write" /\ w.main_status = {"RQM", "BUSY", "NONDMA"}
       /\ w.position < w.size
    \/ /\ w.phase = "format" /\ w.main_status = {"RQM", "BUSY", "NONDMA"}
       /\ w.left > 0
    \/ /\ w.phase = "result" /\ w.main_status = {"RQM", "BUSY", "DIO"}
       /\ w.position < w.size
TcGood(w) == w \in TcStates /\ Phased(w)

LEMMA NeedsOne ==
    ASSUME NEW c \in TC!Command PROVE TC!Needed(c) \in Nat \ {0}
<1>1. CASE c = "read data" \/ c = "write data"
  <2>1. TC!Needed(c) = 8
    BY <1>1 DEF TC!Needed
  <2> QED BY <2>1
<1>2. CASE c = "format"
  BY <1>2 DEF TC!Needed
<1>3. CASE c \in {"specify", "seek"}
  BY <1>3 DEF TC!Needed
<1>4. CASE c \notin {"read data", "write data", "format", "specify", "seek"}
  <2>1. c \notin {"read data", "write data"} /\ c # "format"
        /\ c \notin {"specify", "seek"}
    BY <1>4
  <2>2. TC!Needed(c) = 1
    BY <2>1 DEF TC!Needed
  <2> QED BY <2>2
<1> QED BY <1>1, <1>2, <1>3, <1>4

LEMMA EnterIdle ==
    ASSUME NEW w \in TcStates, NEW e, e = TC!enter_idle(w) PROVE TcGood(e)
<1> DEFINE t == [w EXCEPT !.phase = "idle", !.command = "none",
                          !.main_status = {"RQM"}]
<1>1. t \in TcStates
  BY DEF TcStates, TC!Command
<1>2. t.phase = "idle" /\ t.main_status = {"RQM"}
  BY DEF TcStates
<1>3. e = [t EXCEPT !.parameter_count = 0, !.position = 0, !.size = 0]
  BY DEF TC!enter_idle
<1> HIDE DEF t
<1>4. e \in TcStates
  <2> DEFINE u == [t EXCEPT !.parameter_count = 0, !.position = 0]
  <2>1. u \in TcStates
    BY <1>1 DEF TcStates
  <2>2. e = [u EXCEPT !.size = 0]
    BY <1>3
  <2> HIDE DEF u
  <2> QED BY <2>1, <2>2 DEF TcStates
<1>5. e.phase = t.phase /\ e.main_status = t.main_status
  BY <1>1, <1>3 DEF TcStates
<1> QED BY <1>2, <1>4, <1>5 DEF TcGood, Phased

LEMMA EnterResult ==
    ASSUME NEW w \in TcStates, NEW count \in Nat \ {0},
           NEW e, e = TC!enter_result(w, count)
    PROVE  TcGood(e)
<1> DEFINE t == [w EXCEPT !.phase = "result", !.position = 0, !.size = count]
           status == {"RQM", "BUSY", "DIO"}
<1>1. t \in TcStates
  BY DEF TcStates
<1>2. t.phase = "result" /\ t.position = 0 /\ t.size = count
  BY DEF TcStates
<1>3. e = [t EXCEPT !.main_status = status]
  BY DEF TC!enter_result
<1>4. status \in SUBSET {"RQM", "BUSY", "DIO", "NONDMA"}
  OBVIOUS
<1> HIDE DEF t, status
<1>5. e \in TcStates
  BY <1>1, <1>3, <1>4 DEF TcStates
<1>6. /\ e.phase = t.phase /\ e.position = t.position /\ e.size = t.size
      /\ e.main_status = status
  BY <1>1, <1>3 DEF TcStates
<1> QED BY <1>2, <1>5, <1>6 DEF TcGood, Phased, status

LEMMA EnterRwResult ==
    ASSUME NEW w \in TcStates, NEW e,
           e = TC!enter_rw_result(w) \/ e = TC!set_command_error(w)
    PROVE  TcGood(e)
BY EnterResult DEF TC!enter_rw_result, TC!set_command_error

LEMMA MovingGood ==
    ASSUME NEW w \in TcStates, NEW e,
           e = TC!Moving(w, "read", {"DIO"}) \/ e = TC!Moving(w, "write", {})
    PROVE  TcGood(e)
<1>0. SectorBytes \in Nat \ {0}
  BY FloppyDrivesAssumption
<1>1. ASSUME NEW phase \in {"read", "write"},
             NEW status \in SUBSET {"RQM", "BUSY", "DIO", "NONDMA"},
             e = [w EXCEPT !.phase = phase, !.position = 0,
                           !.size = SectorBytes, !.main_status = status]
      PROVE  /\ e \in TcStates /\ e.phase = phase /\ e.main_status = status
             /\ e.position < e.size
  <2> DEFINE t == [w EXCEPT !.phase = phase, !.position = 0,
                            !.size = SectorBytes]
  <2>1. t \in TcStates
    BY <1>0 DEF TcStates
  <2>2. t.phase = phase /\ t.position = 0 /\ t.size = SectorBytes
    BY DEF TcStates
  <2>3. e = [t EXCEPT !.main_status = status]
    BY <1>1
  <2> HIDE DEF t
  <2>4. e \in TcStates
    BY <1>1, <2>1, <2>3 DEF TcStates
  <2>5. /\ e.phase = t.phase /\ e.position = t.position /\ e.size = t.size
        /\ e.main_status = status
    BY <2>1, <2>3 DEF TcStates
  <2> QED BY <1>0, <2>2, <2>4, <2>5
<1> DEFINE reads == {"RQM", "BUSY", "NONDMA"} \cup {"DIO"}
           writes == {"RQM", "BUSY", "NONDMA"} \cup {}
<1>2. /\ reads \in SUBSET {"RQM", "BUSY", "DIO", "NONDMA"}
      /\ writes \in SUBSET {"RQM", "BUSY", "DIO", "NONDMA"}
      /\ reads = {"RQM", "BUSY", "NONDMA", "DIO"}
      /\ writes = {"RQM", "BUSY", "NONDMA"}
  OBVIOUS
<1>3. \/ e = [w EXCEPT !.phase = "read", !.position = 0,
                       !.size = SectorBytes, !.main_status = reads]
      \/ e = [w EXCEPT !.phase = "write", !.position = 0,
                       !.size = SectorBytes, !.main_status = writes]
  BY DEF TC!Moving
<1> HIDE DEF reads, writes
<1>4. \/ /\ e \in TcStates /\ e.phase = "read" /\ e.main_status = reads
         /\ e.position < e.size
      \/ /\ e \in TcStates /\ e.phase = "write" /\ e.main_status = writes
         /\ e.position < e.size
  BY <1>1, <1>2, <1>3
<1> QED BY <1>2, <1>4 DEF TcGood, Phased

LEMMA MovesGood ==
    ASSUME NEW w \in TcStates, NEW size2, NEW host, NEW e,
           e = TC!load_read_sector(w, size2, host)
           \/ e = TC!begin_write_sector(w, size2)
    PROVE  TcGood(e)
BY MovingGood, EnterRwResult DEF TC!load_read_sector, TC!begin_write_sector

\* After a sector: the next one, or the result.
LEMMA NextSectorGood ==
    ASSUME NEW w \in TcStates, NEW write, NEW host, NEW e,
           e = TC!next_sector(w, write, host)
    PROVE  TcGood(e)
<1> DEFINE number == w.sector + 1
           n == [w EXCEPT !.sector = number]
<1>1. number \in Nat
  BY DEF TcStates
<1>2. \/ e = TC!enter_rw_result(n)
      \/ e = TC!load_read_sector(n, TRUE, host)
      \/ e = TC!begin_write_sector(n, TRUE)
  BY DEF TC!next_sector, TC!CommandDone
<1> HIDE DEF number
<1>3. n \in TcStates
  BY <1>1 DEF TcStates
<1> HIDE DEF n
<1> QED BY <1>2, <1>3, MovesGood, EnterRwResult

\* What the guest chose is taken over with the last parameter.
LEMMA AddressedTypes ==
    ASSUME tc \in TcStates, NEW t \in Nat, NEW h \in Nat, NEW n \in Nat
    PROVE  TC!Addressed(t, h, n) \in TcStates
<1> DEFINE needed == TC!Needed(tc.command)
           a == [tc EXCEPT !.parameter_count = needed,
                           !.selected_drive = tc.control]
           b == [a EXCEPT !.cylinder = t, !.head = h]
<1>1. needed \in Nat
  BY NeedsOne DEF TcStates
<1>2. TC!Addressed(t, h, n) = [b EXCEPT !.sector = n]
  BY DEF TC!Addressed
<1> HIDE DEF needed
<1>3. a \in TcStates
  BY <1>1 DEF TcStates
<1> HIDE DEF a
<1>4. b \in TcStates
  BY <1>3 DEF TcStates
<1> HIDE DEF b
<1> QED BY <1>2, <1>4 DEF TcStates

LEMMA BeginGood ==
    ASSUME TcGood(tc), NEW c \in TC!Command, TC!begin_command(c)
    PROVE  TcGood(tc')
<1> DEFINE w == [tc EXCEPT !.command = c, !.parameter_count = 0]
           v == [w EXCEPT !.command = "none"]
           status == {"RQM", "BUSY"}
           next == [w EXCEPT !.phase = "command", !.main_status = status]
<1>1. w \in TcStates
  BY DEF TcGood, TcStates
<1>2. w.command = c /\ w.parameter_count = 0
  BY DEF TcGood, TcStates
<1>3. \/ tc' = TC!enter_result(w, 2)
      \/ tc' = TC!enter_result(v, 1)
      \/ tc' = next
  <2>1. CASE c = "sense interrupt"
    BY <2>1 DEF TC!begin_command
  <2>2. CASE c = "invalid"
    BY <2>2 DEF TC!begin_command
  <2>3. CASE c # "sense interrupt" /\ c # "invalid"
    BY <2>3 DEF TC!begin_command
  <2> QED BY <2>1, <2>2, <2>3
<1>4. status \in SUBSET {"RQM", "BUSY", "DIO", "NONDMA"}
  OBVIOUS
<1> HIDE DEF w, status
<1>5. v \in TcStates
  BY <1>1 DEF TcStates, TC!Command
<1>6. /\ next \in TcStates /\ next.phase = "command"
      /\ next.main_status = status /\ next.command = w.command
      /\ next.parameter_count = w.parameter_count
  BY <1>1, <1>4 DEF TcStates
<1> HIDE DEF next, v
<1>7. CASE tc' = next
  BY <1>2, <1>6, <1>7, NeedsOne DEF TcGood, Phased, status
<1>8. CASE tc' = TC!enter_result(w, 2) \/ tc' = TC!enter_result(v, 1)
  BY <1>1, <1>5, <1>8, EnterResult
<1> QED BY <1>3, <1>7, <1>8

LEMMA ParameterGood ==
    ASSUME TcGood(tc), TC!WriteParameter PROVE TcGood(tc')
<1> DEFINE count == tc.parameter_count + 1
<1>1. count \in Nat /\ count < TC!Needed(tc.command)
  BY DEF TcGood, TcStates, TC!WriteParameter
<1>2. tc' = [tc EXCEPT !.parameter_count = count] /\ tc.phase = "command"
  BY DEF TC!WriteParameter
<1> HIDE DEF count
<1>3. tc' \in TcStates
  BY <1>1, <1>2 DEF TcGood, TcStates
<1>4. /\ tc'.phase = "command" /\ tc'.main_status = tc.main_status
      /\ tc'.command = tc.command /\ tc'.parameter_count = count
  BY <1>2 DEF TcGood, TcStates
<1>5. tc.main_status = {"RQM", "BUSY"}
  BY <1>2 DEF TcGood, Phased
<1> QED BY <1>1, <1>3, <1>4, <1>5 DEF TcGood, Phased

LEMMA ReadWriteGood ==
    ASSUME TcGood(tc), NEW write, NEW t \in Nat, NEW h \in Nat, NEW n \in Nat,
           NEW eot \in Nat, NEW size2, NEW host,
           TC!prepare_read_write(write, t, h, n, eot, size2, host)
    PROVE  TcGood(tc')
<1> DEFINE a == TC!Addressed(t, h, n)
           w == [a EXCEPT !.end_of_track = eot]
<1>1. a \in TcStates
  BY AddressedTypes DEF TcGood
<1>2. \/ tc' = TC!begin_write_sector(w, size2)
      \/ tc' = TC!load_read_sector(w, size2, host)
  BY DEF TC!prepare_read_write, TC!LastParameter
<1> HIDE DEF a
<1>3. w \in TcStates
  BY <1>1 DEF TcStates
<1> HIDE DEF w
<1> QED BY <1>2, <1>3, MovesGood

LEMMA HereTypes == ASSUME tc \in TcStates PROVE TC!Here \in Nat
BY DEF TC!Here, TC!Drive, Drive, TcStates

LEMMA ReadIdGood ==
    ASSUME TcGood(tc), NEW h \in Nat, TC!prepare_read_id(h) PROVE TcGood(tc')
<1> DEFINE w == TC!Addressed(TC!Here, h, 1)
<1>1. w \in TcStates
  BY AddressedTypes, HereTypes DEF TcGood
<1>2. tc' = TC!enter_rw_result(w) \/ tc' = TC!set_command_error(w)
  BY DEF TC!prepare_read_id, TC!LastParameter
<1> HIDE DEF w
<1> QED BY <1>1, <1>2, EnterRwResult

LEMMA FormatGood ==
    ASSUME TcGood(tc), NEW h \in Nat, NEW count \in Nat, NEW size2,
           TC!prepare_format(h, count, size2)
    PROVE  TcGood(tc')
<1> DEFINE a == TC!Addressed(TC!Here, h, 1)
           w == [a EXCEPT !.left = count, !.tuple = 0]
           status == {"RQM", "BUSY", "NONDMA"}
           next == [w EXCEPT !.phase = "format", !.main_status = status]
<1>1. a \in TcStates
  BY AddressedTypes, HereTypes DEF TcGood
<1>2. \/ tc' = TC!set_command_error(w)
      \/ tc' = next /\ count > 0
  BY DEF TC!prepare_format, TC!LastParameter
<1>3. status \in SUBSET {"RQM", "BUSY", "DIO", "NONDMA"}
  OBVIOUS
<1> HIDE DEF a, status
<1>4. w \in TcStates /\ w.left = count
  BY <1>1 DEF TcStates
<1> HIDE DEF w
<1>5. /\ next \in TcStates /\ next.phase = "format"
      /\ next.main_status = status /\ next.left = w.left
  BY <1>3, <1>4 DEF TcStates
<1> HIDE DEF next
<1>6. CASE tc' = next /\ count > 0
  BY <1>4, <1>5, <1>6 DEF TcGood, Phased, status
<1> QED BY <1>2, <1>4, <1>6, EnterRwResult

LEMMA SeekGood ==
    ASSUME TcGood(tc), NEW d \in 0..3, NEW t \in Nat,
           TC!Seek(d, t) \/ TC!Specify \/ TC!SenseDrive(d)
    PROVE  TcGood(tc')
<1>0. tc \in TcStates
  BY DEF TcGood
<1>1. CASE TC!Seek(d, t)
  <2> DEFINE at == IF tc.command = "seek" THEN t ELSE 0
             old == tc.current_track
             track == IF d \in TC!Drive THEN [old EXCEPT ![d] = at] ELSE old
             w == [tc EXCEPT !.selected_drive = d, !.current_track = track]
  <2>1. tc' = TC!enter_idle(w)
    BY <1>1 DEF TC!Seek, TC!LastParameter
  <2>2. at \in Nat
    OBVIOUS
  <2> HIDE DEF at
  <2>3. track \in [Drive -> Nat]
    BY <1>0, <2>2 DEF TcStates
  <2> HIDE DEF track
  <2>4. w \in TcStates
    BY <1>0, <2>3 DEF TcStates
  <2> HIDE DEF w
  <2> QED BY <2>1, <2>4, EnterIdle
<1>2. CASE TC!Specify
  BY <1>0, <1>2, EnterIdle DEF TC!Specify, TC!LastParameter
<1>3. CASE TC!SenseDrive(d)
  <2> DEFINE w == [tc EXCEPT !.parameter_count = 1, !.selected_drive = d]
  <2>1. tc' = TC!enter_result(w, 1)
    BY <1>3 DEF TC!SenseDrive, TC!LastParameter
  <2>2. w \in TcStates
    BY <1>0 DEF TcStates
  <2> HIDE DEF w
  <2> QED BY <2>1, <2>2, EnterResult
<1> QED BY <1>1, <1>2, <1>3

\* One more byte of a sector or of the result, and what follows the last.
LEMMA AdvancedTypes ==
    ASSUME TcGood(tc), NEW w, w = [tc EXCEPT !.position = tc.position + 1]
    PROVE  /\ w \in TcStates /\ w.phase = tc.phase /\ w.size = tc.size
           /\ w.main_status = tc.main_status
           /\ w.position < w.size /\ tc.phase \in {"read", "write", "result"}
              => TcGood(w)
<1> DEFINE at == tc.position + 1
<1>1. at \in Nat
  BY DEF TcGood, TcStates
<1>2. w = [tc EXCEPT !.position = at]
  OBVIOUS
<1> HIDE DEF at
<1>3. w \in TcStates
  BY <1>1, <1>2 DEF TcGood, TcStates
<1>4. w.phase = tc.phase /\ w.size = tc.size /\ w.main_status = tc.main_status
  BY <1>2 DEF TcGood, TcStates
<1> QED BY <1>3, <1>4 DEF TcGood, Phased

LEMMA ReadDataGood ==
    ASSUME TcGood(tc), NEW host, TC!tc8566_read_data(host) PROVE TcGood(tc')
<1> DEFINE w == [tc EXCEPT !.position = tc.position + 1]
<1>1. /\ w \in TcStates /\ w.phase = tc.phase
      /\ w.position < w.size /\ tc.phase \in {"read", "write", "result"}
         => TcGood(w)
  BY AdvancedTypes
<1>2. /\ tc.phase \in {"read", "result"}
      /\ tc' = IF w.position < w.size THEN w
               ELSE IF tc.phase = "result" THEN TC!enter_idle(w)
                    ELSE TC!next_sector(w, FALSE, host)
  BY DEF TC!tc8566_read_data
<1> HIDE DEF w
<1> QED BY <1>1, <1>2, EnterIdle, NextSectorGood

LEMMA WriteByteGood ==
    ASSUME TcGood(tc), NEW host, TC!WriteByte(host) PROVE TcGood(tc')
<1> DEFINE w == [tc EXCEPT !.position = tc.position + 1]
<1>1. /\ w \in TcStates /\ w.phase = tc.phase
      /\ w.position < w.size /\ tc.phase \in {"read", "write", "result"}
         => TcGood(w)
  BY AdvancedTypes
<1>2. /\ tc.phase = "write"
      /\ \/ w.position < w.size /\ tc' = w
         \/ tc' = TC!next_sector(w, TRUE, host)
         \/ tc' = TC!set_command_error(w)
  BY DEF TC!WriteByte
<1> HIDE DEF w
<1> QED BY <1>1, <1>2, NextSectorGood, EnterRwResult

LEMMA ControlGood ==
    ASSUME TcGood(tc), NEW value \in 0..3, TC!tc8566_write_control(value)
    PROVE  TcGood(tc')
<1>1. tc' = [tc EXCEPT !.control = value, !.selected_drive = value]
  BY DEF TC!tc8566_write_control
<1>2. tc' \in TcStates
  BY <1>1 DEF TcGood, TcStates
<1>3. /\ tc'.phase = tc.phase /\ tc'.main_status = tc.main_status
      /\ tc'.command = tc.command /\ tc'.parameter_count = tc.parameter_count
      /\ tc'.position = tc.position /\ tc'.size = tc.size /\ tc'.left = tc.left
  BY <1>1 DEF TcGood, TcStates
<1> QED BY <1>2, <1>3 DEF TcGood, Phased

LEMMA TupleGood == ASSUME TcGood(tc), TC!TupleByte PROVE TcGood(tc')
<1> DEFINE at == tc.tuple + 1
<1>1. at \in Nat
  BY DEF TcGood, TcStates
<1>2. tc' = [tc EXCEPT !.tuple = at] /\ tc.phase = "format"
  BY DEF TC!TupleByte
<1> HIDE DEF at
<1>3. tc' \in TcStates
  BY <1>1, <1>2 DEF TcGood, TcStates
<1>4. /\ tc'.phase = tc.phase /\ tc'.main_status = tc.main_status
      /\ tc'.left = tc.left
  BY <1>2 DEF TcGood, TcStates
<1> QED BY <1>2, <1>3, <1>4 DEF TcGood, Phased

\* A tuple is a sector, or the end of the command.
LEMMA FormatDataGood ==
    ASSUME TcGood(tc), NEW t \in Nat, NEW h \in Nat, NEW n \in Nat, NEW size2,
           NEW host, TC!format_data_write(t, h, n, size2, host)
    PROVE  TcGood(tc')
<1> DEFINE w == [tc EXCEPT !.tuple = 0, !.cylinder = t, !.head = h,
                           !.sector = n]
           left == w.left - 1
           more == [w EXCEPT !.left = left]
           last == [w EXCEPT !.left = 0]
<1>1. /\ w \in TcStates /\ w.phase = tc.phase
      /\ w.main_status = tc.main_status /\ w.left = tc.left
  BY DEF TcGood, TcStates
<1>2. /\ tc.phase = "format"
      /\ \/ tc' = TC!set_command_error(w)
         \/ w.left > 1 /\ tc' = more
         \/ tc' = TC!enter_rw_result(last)
  BY DEF TC!format_data_write
<1> HIDE DEF w
<1>3. last \in TcStates
  BY <1>1 DEF TcStates
<1> HIDE DEF last
<1>4. CASE w.left > 1 /\ tc' = more
  <2>1. left \in Nat /\ left > 0
    BY <1>1, <1>4 DEF TcStates
  <2> HIDE DEF left
  <2>2. /\ more \in TcStates /\ more.phase = w.phase
        /\ more.main_status = w.main_status /\ more.left = left
    BY <1>1, <2>1 DEF TcStates
  <2> HIDE DEF more
  <2> QED BY <1>1, <1>2, <1>4, <2>1, <2>2 DEF TcGood, Phased
<1> QED BY <1>1, <1>2, <1>3, <1>4, EnterRwResult

LEMMA GuestConstants ==
    /\ Cylinder \subseteq Nat /\ Head \subseteq Nat /\ SectorNumber \subseteq Nat
    /\ FormatCount \subseteq Nat /\ UnitSelect \subseteq 0..3
BY FloppyDrivesAssumption

LEMMA TcStep == ASSUME TcGood(tc), TC!TcNext PROVE TcGood(tc')
<1> USE GuestConstants
<1>1. CASE \E c \in TC!Command \ {"none"} : TC!begin_command(c)
  BY <1>1, BeginGood
<1>2. CASE TC!WriteParameter
  BY <1>2, ParameterGood
<1>3. CASE \E write, size2 \in BOOLEAN, t \in Cylinder, h \in Head,
              n, eot \in SectorNumber, host \in {"done", "refused"} :
              TC!prepare_read_write(write, t, h, n, eot, size2, host)
  BY <1>3, ReadWriteGood
<1>4. CASE \E h \in Head : TC!prepare_read_id(h)
  BY <1>4, ReadIdGood
<1>5. CASE \E h \in Head, count \in FormatCount, size2 \in BOOLEAN :
              TC!prepare_format(h, count, size2)
  BY <1>5, FormatGood
<1>6. CASE \E d \in UnitSelect, t \in Cylinder : TC!Seek(d, t)
  BY <1>6, SeekGood
<1>7. CASE TC!Specify \/ \E d \in UnitSelect : TC!SenseDrive(d)
  <2>1. 0 \in 0..3 /\ 0 \in Nat
    OBVIOUS
  <2> QED BY <1>7, <2>1, SeekGood
<1>8. CASE \E host \in {"done", "refused"} : TC!tc8566_read_data(host)
  BY <1>8, ReadDataGood
<1>9. CASE \E value \in UnitSelect : TC!tc8566_write_control(value)
  BY <1>9, ControlGood
<1>10. CASE \E host \in TC!HostOutcome : TC!WriteByte(host)
  BY <1>10, WriteByteGood
<1>11. CASE TC!TupleByte
  BY <1>11, TupleGood
<1>12. CASE \E t \in Cylinder, h \in Head, n \in SectorNumber,
               size2 \in BOOLEAN, host \in TC!HostOutcome :
               TC!format_data_write(t, h, n, size2, host)
  BY <1>12, FormatDataGood
<1> QED BY <1>1, <1>2, <1>3, <1>4, <1>5, <1>6, <1>7, <1>8, <1>9, <1>10, <1>11,
       <1>12 DEF TC!TcNext

LEMMA TcRests == TcGood(TC!TcReset)
<1>1. TC!TcReset \in TcStates
  BY DEF TC!TcReset, TcStates, TC!Command, TC!Drive, Drive
<1> QED BY <1>1 DEF TC!TcReset, TcGood, Phased

LEMMA NextTc == ASSUME TcGood(tc), [Next]_vars PROVE TcGood(tc')
<1>1. CASE Tc
  BY <1>1, TcStep DEF Tc
<1>2. Guest => Tc \/ tc' = tc
  BY DEF Guest, Command, Write, Interrupt, Register, Select, WriteData,
     ReadStatus, ReadDrive, Idle
<1>3. User => tc' = tc \/ tc' = TC!TcReset
  <2>1. \A d, f, refused : MountDialog(d, f, refused) => tc' = tc
    BY DEF MountDialog, Request, Handled
  <2>2. \A d, refused : Eject(d, refused) => tc' = tc
    BY DEF Eject, EjectRequest, Handled
  <2>3. \A refused : toggle_second_floppy(refused)
                     => tc' = tc \/ tc' = TC!TcReset
    BY DEF toggle_second_floppy, Reset, TC!tc8566_reset
  <2>4. \A refused : Cancel(refused) => tc' = tc
    BY DEF Cancel, Handled
  <2>5. \A m, ra, rb, back : set_floppy_image_mode(m, ra, rb, back) => tc' = tc
    BY DEF set_floppy_image_mode, Request, Handled
  <2> QED BY <2>1, <2>2, <2>3, <2>4, <2>5 DEF User, OpenOverlay, CloseOverlay
<1>4. MachineReset \/ UNCHANGED vars => tc' = tc \/ tc' = TC!TcReset
  BY DEF MachineReset, Reset, TC!tc8566_reset, vars
<1> QED BY <1>1, <1>2, <1>3, <1>4, TcRests DEF Next

\* A controller in good order says the truth of itself.
LEMMA GoodIsTruthful == ASSUME TcGood(tc) PROVE TC!StatusTruthful
<1>1. CASE tc.phase = "idle" /\ tc.main_status = {"RQM"}
  BY <1>1 DEF TC!StatusTruthful
<1>2. CASE /\ tc.phase = "command" /\ tc.main_status = {"RQM", "BUSY"}
           /\ tc.parameter_count < TC!Needed(tc.command)
  BY <1>2 DEF TC!StatusTruthful
<1>3. CASE /\ tc.phase = "read" /\ tc.position < tc.size
           /\ tc.main_status = {"RQM", "BUSY", "NONDMA", "DIO"}
  BY <1>3 DEF TC!StatusTruthful
<1>4. CASE /\ tc.phase = "write" /\ tc.position < tc.size
           /\ tc.main_status = {"RQM", "BUSY", "NONDMA"}
  BY <1>4 DEF TC!StatusTruthful
<1>5. CASE /\ tc.phase = "format" /\ tc.left > 0
           /\ tc.main_status = {"RQM", "BUSY", "NONDMA"}
  BY <1>5 DEF TC!StatusTruthful
<1>6. CASE /\ tc.phase = "result" /\ tc.position < tc.size
           /\ tc.main_status = {"RQM", "BUSY", "DIO"}
  BY <1>6 DEF TC!StatusTruthful
<1> QED BY <1>1, <1>2, <1>3, <1>4, <1>5, <1>6 DEF TcGood, Phased

\* A guest that the mark of its command, or the disk it wrote to, can tell.
LEMMA LossReported ==
    ASSUME WdInv, NEW l \in lost, l.failed \/ Undisturbed(l)
    PROVE  WD!StatusError
<1>1. CASE l.failed
  BY <1>1 DEF WdInv, Marked, WD!StatusError
<1>2. CASE ~l.failed
  <2>1. Bare(DiskIn(wd.selected_drive))
    BY <1>2 DEF WdInv, Marked, Undisturbed
  <2> QED BY <2>1 DEF Bare, DiskIn, WD!StatusError, WD!floppy_image_writable,
          WD!floppy_image_mounted, WD!Drive, Drive
<1> QED BY <1>1, <1>2

\* Whatever the guest asks for, and whatever the user does to the drives while
\* it waits: a command to the WD2793 ends with an interrupt or wants data,
\* unless the user takes its disk out; a sector the disk or the host failed to
\* take is reported until the next command; one refused for want of a disk to
\* write to is reported while the disk and its mode stay; and the TC8566 acts
\* on what its status asks for (continue_multiple, write_data_register,
\* status_register, next_sector, enter_result).
THEOREM GuestAnswered == Spec => []GuestIsAnswered
<1> DEFINE Sure == Inv /\ WdInv /\ TcGood(tc)
<1>1. Init => Sure
  BY InitInv, ResetRests, TcRests DEF Init, WdInv
<1>2. Sure /\ [Next]_vars => Sure'
  BY NextInv, NextWd, NextTc
<1>3. Sure => GuestIsAnswered
  <2> SUFFICES ASSUME Sure PROVE GuestIsAnswered
    OBVIOUS
  <2>1. wd \in WdStates /\ Lines(wd)
    BY DEF WdInv
  <2>2. WD!WdLinesOK
    BY <2>1 DEF WD!WdLinesOK, Lines, WdStates
  <2> QED BY <2>2, GoodIsTruthful, LossReported DEF WdInv, GuestIsAnswered
<1> QED BY <1>1, <1>2, <1>3, PTL DEF Spec
=============================================================================
