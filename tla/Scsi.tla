-------------------------------- MODULE Scsi --------------------------------
(***************************************************************************)
(* src/scsi_disk.c, one SCSI target over a raw image, and src/msx_scsi.c,  *)
(* the Z5380 in front of it.  The bus has a phase, the controller its own  *)
(* copy of it; a byte crosses by the REQ/ACK handshake or by DMA.          *)
(*                                                                         *)
(* A command block is CdbBytes = 2 bytes here (6 to 16): the first names   *)
(* the operation, the last brings sector and count.  Sense data, status    *)
(* and message bytes, the interrupt, arbitration, test mode and the ROM    *)
(* banks are left out.  "disk_files" and "disk_unsynced" are the host      *)
(* files.                                                                  *)
(***************************************************************************)
EXTENDS Images, Naturals, Sequences

\* There is a sector on every image, and a word in every sector.
ScsiAssumption ==
    /\ NoImage \notin Image
    /\ Size \in [Image -> Nat \ {0}]
    /\ SectorWords \in Nat \ {0} /\ CountMod \in Nat

VARIABLES disk_power, disk_files, disk_unsynced,
          disk,     \* the ScsiDisk
          bus,      \* the registers and lines of the Z5380
          swapped   \* the disk was changed since the controller looked

Inputs == {"data_in", "status", "message_in"}
Outputs == {"data_out", "command", "message_out"}
Phases == Inputs \cup Outputs
Operations == {"simple", "report", "select", "read", "write", "synchronize"}

Given == Word \ {Zero}      \* bound: what the guest writes
NewDisk == [image |-> NoImage, image_mode |-> "ro", dirty |-> FALSE,
            phase |-> "bus_free", cdb |-> "none", buffer |-> <<>>,
            buffer_offset |-> 0, transfer_lba |-> 0, blocks_remaining |-> 0,
            transfer_read |-> FALSE, transfer_write |-> FALSE,
            discard_data_out |-> FALSE]

---------------------------------------------------------------------------
(* The target.                                                             *)

scsi_clear_transfer(d) ==
    [NewDisk EXCEPT !.image = d.image, !.image_mode = d.image_mode,
                    !.dirty = d.dirty, !.phase = d.phase]
\* scsi_good and scsi_check, which differ in what is reported.
scsi_status(d) == [scsi_clear_transfer(d) EXCEPT !.phase = "status"]
scsi_disk_bus_reset(d) == [scsi_clear_transfer(d) EXCEPT !.phase = "bus_free"]
scsi_disk_select(d, attention) ==
    [scsi_clear_transfer(d) EXCEPT
        !.phase = IF attention THEN "message_out" ELSE "command"]

scsi_data_in(d, bytes) == [d EXCEPT !.phase = "data_in", !.buffer = bytes,
                                    !.buffer_offset = 0]

\* A host read can fail; beyond the image it always does.
ScsiLoadOutcome(d, l) == IF d.image = NoImage THEN {"failed"}
                         ELSE IF l < Size[d.image] THEN {"ok", "failed"}
                         ELSE {"failed"}
scsi_load_sector(d, l, r) ==
    IF r = "ok" THEN [d EXCEPT !.buffer = disk_files[d.image][l],
                               !.buffer_offset = 0]
    ELSE scsi_status(d)

\* Mutated: the range is tested for the first block only.
range_valid_first(d, l, blocks) == d.image # NoImage /\ l < Size[d.image]
scsi_range_valid(d, l, blocks) ==
    d.image # NoImage /\ l < Size[d.image] /\ blocks <= Size[d.image] - l

scsi_begin_read(d, l, blocks, r) ==
    IF blocks = 0 \/ ~scsi_range_valid(d, l, blocks) THEN scsi_status(d)
    ELSE scsi_load_sector([d EXCEPT !.transfer_lba = l,
                                    !.blocks_remaining = blocks,
                                    !.transfer_read = TRUE,
                                    !.phase = "data_in"], l, r)
scsi_begin_write(d, l, blocks) ==
    IF blocks = 0 \/ ~scsi_range_valid(d, l, blocks) \/ d.image_mode # "rw"
    THEN scsi_status(d)
    ELSE [d EXCEPT !.transfer_lba = l, !.blocks_remaining = blocks,
                   !.transfer_write = TRUE, !.phase = "data_out"]

\* "n" is the count byte of the command: 0 asks the 6-byte transfers for
\* CountMod blocks (256), the 10-byte ones for none.
Blocks(n) == IF n = 0 THEN {0, CountMod} ELSE {n}

SyncOutcome(d) == IF d.image # NoImage /\ d.dirty THEN {"ok", "failed"}
                  ELSE {"ok"}
ScsiSynced(d) == {u \in disk_unsynced : ~(d.dirty /\ u[1] = d.image)}

\* INQUIRY, REQUEST SENSE, MODE SENSE and READ CAPACITY answer with a
\* report, cut to the length asked for; MODE SELECT swallows its bytes.
Executed(cleared, operation, l, n, r) ==
    CASE operation = "report" ->
            IF n = 0 THEN {[cleared EXCEPT !.phase = "status"]}
            ELSE {scsi_data_in(cleared, <<"report">>)}
      [] operation = "select" ->
            IF cleared.image = NoImage \/ n = 0 THEN {scsi_status(cleared)}
            ELSE {[cleared EXCEPT !.discard_data_out = TRUE,
                                  !.phase = "data_out"]}
      [] operation = "read" ->
            {scsi_begin_read(cleared, l, b, r) : b \in Blocks(n)}
      [] operation = "write" ->
            {scsi_begin_write(cleared, l, b) : b \in Blocks(n)}
      [] OTHER -> {scsi_status(cleared)}

scsi_execute(d) ==
    LET cleared == scsi_clear_transfer(d) IN
    /\ UNCHANGED disk_files
    /\ IF d.cdb = "synchronize" /\ d.image # NoImage
       THEN \E r \in SyncOutcome(d) :
               /\ disk' = [scsi_status(d) EXCEPT !.dirty = @ /\ r # "ok"]
               /\ disk_unsynced' = IF r = "ok" THEN ScsiSynced(d) ELSE disk_unsynced
       ELSE /\ UNCHANGED disk_unsynced
            /\ \E l \in 0..CountMod, n \in 0..(CountMod - 1) :
                  \E r \in ScsiLoadOutcome(d, l) :
                      disk' \in Executed(cleared, d.cdb, l, n, r)

---------------------------------------------------------------------------
(* A byte reaches the target: scsi_disk_accept_byte.                       *)

AcceptCommand(d) ==
    \/ /\ d.cdb = "none"
       /\ \E operation \in Operations : disk' = [d EXCEPT !.cdb = operation]
       /\ UNCHANGED <<disk_files, disk_unsynced>>
    \/ d.cdb # "none" /\ scsi_execute(d)

NextBlock(d) ==
    IF d.blocks_remaining = 1 THEN scsi_status([d EXCEPT !.dirty = TRUE])
    ELSE [d EXCEPT !.dirty = TRUE, !.transfer_lba = @ + 1,
                   !.blocks_remaining = @ - 1, !.buffer = <<>>]

\* Mutated: part of a block does not make the image dirty.
StoreBlockClean(d, block) ==
    \E k \in 0..SectorWords :
        /\ disk_files' = [disk_files EXCEPT ![d.image][d.transfer_lba] =
               [j \in 1..SectorWords |-> IF j <= k THEN block[j] ELSE @[j]]]
        /\ disk_unsynced' = IF k = 0 THEN disk_unsynced
                            ELSE disk_unsynced \cup {<<d.image, d.transfer_lba>>}
        /\ disk' = IF k = SectorWords THEN NextBlock(d) ELSE scsi_status(d)

\* scsi_store_sector: fwrite takes the first k bytes of the block.
StoreBlock(d, block) ==
    \E k \in 0..SectorWords :
        /\ disk_files' = [disk_files EXCEPT ![d.image][d.transfer_lba] =
               [j \in 1..SectorWords |-> IF j <= k THEN block[j] ELSE @[j]]]
        /\ disk_unsynced' = IF k = 0 THEN disk_unsynced
                            ELSE disk_unsynced \cup {<<d.image, d.transfer_lba>>}
        /\ disk' = IF k = SectorWords THEN NextBlock(d)
                   ELSE scsi_status([d EXCEPT !.dirty = @ \/ k > 0])

AcceptData(d, w) ==
    IF ~d.transfer_write
    THEN \* the parameter list of MODE SELECT, of any length
         /\ disk' = scsi_status(d) \/ disk' = d
         /\ UNCHANGED <<disk_files, disk_unsynced>>
    ELSE IF Len(d.buffer) + 1 < SectorWords
    THEN /\ disk' = [d EXCEPT !.buffer = Append(@, w)]
         /\ UNCHANGED <<disk_files, disk_unsynced>>
    ELSE StoreBlock(d, Append(d.buffer, w))

scsi_disk_accept_byte(d, w) ==
    CASE d.phase = "message_out" ->
            disk' = [d EXCEPT !.phase = "command"]
            /\ UNCHANGED <<disk_files, disk_unsynced>>
      [] d.phase = "command" -> AcceptCommand(d)
      [] d.phase = "data_out" -> AcceptData(d, w)
      [] OTHER -> disk' = d /\ UNCHANGED <<disk_files, disk_unsynced>>

---------------------------------------------------------------------------
(* The target's byte was taken: scsi_disk_advance_byte.                    *)

NextLoaded(d, r) ==
    IF d.transfer_read /\ d.blocks_remaining > 1
    THEN scsi_load_sector([d EXCEPT !.blocks_remaining = @ - 1,
                                    !.transfer_lba = @ + 1],
                          d.transfer_lba + 1, r)
    ELSE scsi_status(d)

scsi_disk_advance_byte(d, r) ==
    CASE d.phase = "data_in" /\ d.buffer_offset + 1 < Len(d.buffer) ->
            [d EXCEPT !.buffer_offset = @ + 1]
      [] d.phase = "data_in" /\ d.buffer_offset + 1 >= Len(d.buffer) ->
            NextLoaded(d, r)
      [] d.phase = "status" -> [d EXCEPT !.phase = "message_in"]
      [] d.phase = "message_in" -> [d EXCEPT !.phase = "bus_free"]
      [] OTHER -> d
AdvanceOutcome(d) == ScsiLoadOutcome(d, d.transfer_lba + 1)

CurrentByte(d) == CASE d.phase = "data_in" -> d.buffer[d.buffer_offset + 1]
                    [] OTHER -> d.phase

---------------------------------------------------------------------------
(* The controller.                                                         *)

ControllerCleared == [target_command |-> "data_out", bus_phase |-> "bus_free",
            dma |-> FALSE, dma_direction |-> "none", input_data |-> "none",
            sel |-> FALSE, target_selected |-> FALSE,
            selection_wait |-> FALSE, request |-> FALSE,
            acknowledge |-> FALSE, dma_request |-> FALSE,
            pending_input_advance |-> FALSE]

\* controller_clear
ControllerClear == bus' = ControllerCleared /\ disk' = scsi_disk_bus_reset(disk)
                   /\ swapped' = FALSE

phase_matches(b) == /\ b.target_selected /\ b.bus_phase # "bus_free"
                    /\ b.target_command = b.bus_phase

update_dma_request(b, d) ==
    LET offered == b.dma /\ b.request /\ phase_matches(b) IN
    CASE offered /\ b.dma_direction = "receive" /\ b.bus_phase \in Inputs ->
            [b EXCEPT !.dma_request = TRUE, !.input_data = CurrentByte(d)]
      [] offered /\ b.dma_direction = "send" /\ b.bus_phase \in Outputs ->
            [b EXCEPT !.dma_request = TRUE]
      [] OTHER -> [b EXCEPT !.dma_request = FALSE, !.input_data = "none"]

\* Mutated: the next byte is not asked for.
phase_changed_silent(b, d) ==
    IF d.phase = "bus_free"
    THEN [b EXCEPT !.bus_phase = d.phase, !.target_selected = FALSE]
    ELSE update_dma_request([b EXCEPT !.bus_phase = d.phase], d)
phase_changed(b, d) ==
    IF d.phase = "bus_free"
    THEN [b EXCEPT !.bus_phase = d.phase, !.target_selected = FALSE,
                   !.selection_wait = FALSE, !.request = FALSE,
                   !.dma_request = FALSE, !.input_data = "none",
                   !.dma_direction = "none"]
    ELSE update_dma_request([b EXCEPT !.bus_phase = d.phase,
                                      !.request = ~b.selection_wait], d)

\* The initiator command register: SEL rises with the target's bit on the
\* data bus, or the bit is added while SEL is up.
Select ==
    /\ \E attention \in BOOLEAN, addressed \in BOOLEAN :
       IF bus.target_selected \/ disk.image = NoImage \/ ~addressed
       THEN bus' = [bus EXCEPT !.sel = TRUE] /\ UNCHANGED <<disk, swapped>>
       ELSE /\ disk' = scsi_disk_select(disk, attention)
            /\ bus' = [bus EXCEPT !.sel = TRUE, !.target_selected = TRUE,
                                  !.selection_wait = TRUE, !.request = FALSE,
                                  !.bus_phase = disk'.phase]
            /\ swapped' = FALSE
    /\ UNCHANGED <<disk_files, disk_unsynced>>

selection_released ==
    /\ bus.sel
    /\ bus' = IF bus.target_selected /\ bus.selection_wait
              THEN update_dma_request([bus EXCEPT !.sel = FALSE,
                                                  !.selection_wait = FALSE,
                                                  !.request = TRUE], disk)
              ELSE [bus EXCEPT !.sel = FALSE]
    /\ UNCHANGED <<disk_files, disk_unsynced, disk, swapped>>

programmed_ack_assert ==
    /\ bus.target_selected /\ bus.request
    /\ UNCHANGED swapped
    /\ IF bus.bus_phase \in Outputs
       THEN /\ bus' = [bus EXCEPT !.acknowledge = TRUE, !.request = FALSE]
            /\ \E w \in Given : scsi_disk_accept_byte(disk, w)
       ELSE /\ bus' = [bus EXCEPT !.acknowledge = TRUE, !.request = FALSE,
                                  !.pending_input_advance = TRUE]
            /\ UNCHANGED <<disk_files, disk_unsynced, disk>>

programmed_ack_release ==
    /\ bus.acknowledge /\ swapped' = FALSE
    /\ \E r \in AdvanceOutcome(disk) :
          disk' = IF bus.pending_input_advance
                  THEN scsi_disk_advance_byte(disk, r) ELSE disk
    /\ bus' = phase_changed([bus EXCEPT !.acknowledge = FALSE,
                                        !.pending_input_advance = FALSE], disk')
    /\ UNCHANGED <<disk_files, disk_unsynced>>

mode_write ==
    /\ bus' = IF bus.dma
              THEN [bus EXCEPT !.dma = FALSE, !.dma_direction = "none",
                               !.dma_request = FALSE, !.input_data = "none"]
              ELSE [bus EXCEPT !.dma = TRUE]
    /\ UNCHANGED <<disk_files, disk_unsynced, disk, swapped>>

\* Bound: the guest writes the phase it sees, or the first one.
WriteTargetCommand ==
    /\ \E target_command \in {"data_out", bus.bus_phase} \ {"bus_free"} :
          bus' = update_dma_request(
                    [bus EXCEPT !.target_command = target_command], disk)
    /\ UNCHANGED <<disk_files, disk_unsynced, disk, swapped>>

start_dma ==
    /\ bus.dma
    /\ \E direction \in {"send", "receive"} :
          bus' = update_dma_request([bus EXCEPT !.dma_direction = direction],
                                    disk)
    /\ UNCHANGED <<disk_files, disk_unsynced, disk, swapped>>

dma_read ==
    /\ bus.dma_request /\ bus.dma_direction = "receive" /\ swapped' = FALSE
    /\ \E r \in AdvanceOutcome(disk) : disk' = scsi_disk_advance_byte(disk, r)
    /\ bus' = phase_changed(bus, disk')
    /\ UNCHANGED <<disk_files, disk_unsynced>>

dma_write ==
    /\ bus.dma_request /\ bus.dma_direction = "send" /\ swapped' = FALSE
    /\ \E w \in Given : scsi_disk_accept_byte(disk, w)
    /\ bus' = phase_changed(bus, disk')

ScsiGuest == Select \/ selection_released \/ programmed_ack_assert
             \/ programmed_ack_release \/ mode_write \/ WriteTargetCommand
             \/ start_dma \/ dma_read \/ dma_write

---------------------------------------------------------------------------
(* The user.  Changing the disk resets the target, not the controller.     *)

\* RST from the guest, a machine reset, a new target id or port, a new ROM.
ScsiReset == ControllerClear /\ UNCHANGED <<disk_files, disk_unsynced>>

DiskAttached(i, mode) ==
    /\ disk' = [NewDisk EXCEPT !.image = i, !.image_mode = mode]
    /\ disk_unsynced' = ScsiSynced(disk)
    /\ UNCHANGED disk_files

\* A refused flush keeps the disk; a failed close loses it, not its data.
EjectScsiDisk == DiskAttached(NoImage, "ro") /\ swapped' = TRUE /\ UNCHANGED bus
MountScsiDisk ==
    /\ \E i \in Image, mode \in {"ro", "rw"} :
          (mode = "rw" => i \in Writable) /\ DiskAttached(i, mode)
    /\ swapped' = TRUE /\ UNCHANGED bus
EjectScsiRom == DiskAttached(NoImage, "ro") /\ bus' = ControllerCleared /\ swapped' = FALSE
FlushScsiDisk == /\ disk' = [disk EXCEPT !.dirty = FALSE]
                 /\ disk_unsynced' = ScsiSynced(disk) /\ UNCHANGED <<disk_files, bus, swapped>>
\* scsi_disk_destroy closes the file whatever the flush answers.
ScsiDestroy == /\ disk_power' = FALSE /\ disk' = NewDisk /\ bus' = ControllerCleared
               /\ swapped' = FALSE /\ UNCHANGED <<disk_files, disk_unsynced>>

ScsiUser == ScsiReset \/ EjectScsiDisk \/ MountScsiDisk \/ EjectScsiRom \/ FlushScsiDisk

TargetInit == disk = NewDisk /\ bus = ControllerCleared /\ swapped = FALSE
ScsiNext == /\ disk_power
            /\ ((ScsiGuest \/ ScsiUser) /\ UNCHANGED disk_power) \/ ScsiDestroy

---------------------------------------------------------------------------
(* Properties.                                                             *)

\* The controller can always go on: a selected target waits for SEL to
\* fall, asks for a byte, or waits for ACK to fall.  Between two handshakes
\* the phase it shows is the target's, and a byte it offers by DMA is the
\* one the target is at, unless the user changed the disk under it; the
\* block the guest reads is the one on the image now
\* (phase_changed, update_dma_request, target_select, scsi_load_sector).
BusInStep ==
    /\ bus.target_selected => bus.selection_wait \/ bus.request
                              \/ bus.acknowledge
    /\ bus.selection_wait => bus.sel
    /\ ~bus.target_selected => ~bus.request /\ ~bus.dma_request
    /\ ~swapped =>
          /\ ~bus.acknowledge => bus.bus_phase = disk.phase
          /\ bus.dma_request /\ ~bus.acknowledge
                /\ bus.dma_direction = "receive" =>
                bus.input_data = CurrentByte(disk)
    /\ disk.transfer_read =>
          disk.buffer = disk_files[disk.image][disk.transfer_lba]

TargetJob ==
    IF disk.transfer_write
    THEN [kind |-> "write", lba |-> disk.transfer_lba,
          left |-> disk.blocks_remaining, given |-> Len(disk.buffer),
          words |-> disk.buffer]
    ELSE IF disk.transfer_read
    THEN [kind |-> "read", lba |-> disk.transfer_lba,
          left |-> disk.blocks_remaining, given |-> disk.buffer_offset,
          words |-> <<>>]
    ELSE [kind |-> "none", lba |-> 0, left |-> 0, given |-> 0, words |-> <<>>]

PlainDisk == INSTANCE Disk WITH inserted <- disk.image, job <- TargetJob,
                                medium <- disk_files, unsynced <- disk_unsynced

\* Through phases, handshakes, DMA, resets and failing host calls the
\* target is a plain disk: a sector changes only as a whole, to the bytes
\* given, and no image is let go of unsynced except by the shutdown.
ScsiImplementsDisk == PlainDisk!Spec

\* A change that has not reached stable storage is one of the mounted
\* image, which counts as dirty.
DiskChangesKept ==
    disk_power => \A u \in disk_unsynced : disk.image = u[1] /\ disk.dirty
=============================================================================
