------------------------------ MODULE Sunrise ------------------------------
(***************************************************************************)
(* src/sunrise.c: the cartridge in front of the ATA device.  The Z80 and   *)
(* the frontend run on one thread, so a register access and a menu action  *)
(* are one step each, in any order.  The two bytes of a data word arrive   *)
(* through a latch; a word is one step here.                               *)
(***************************************************************************)
EXTENDS Ata

VARIABLES
    powered,            \* between sunrise_init and sunrise_destroy
    rom_loaded, soft_reset,
    selected_device     \* 0 master, 1 the absent slave

svars == <<powered, rom_loaded, soft_reset, selected_device>>
vars == <<svars, avars>>

SunriseInit ==
    /\ powered = TRUE /\ rom_loaded = FALSE /\ soft_reset = FALSE
    /\ selected_device = 0 /\ Init

sunrise_reset ==
    /\ soft_reset' = FALSE /\ selected_device' = 0 /\ ata_reset
    /\ UNCHANGED <<powered, rom_loaded>>

InstallRom ==
    /\ rom_loaded' = TRUE
    /\ soft_reset' = FALSE /\ selected_device' = 0 /\ ata_reset
    /\ UNCHANGED powered

\* The disk must go first; when it cannot, nothing else happens.  A disk
\* whose file failed to close is gone, and the ROM stays.
EjectRom ==
    \/ /\ Attached(NoImage, "ro")
       /\ rom_loaded' = FALSE /\ soft_reset' = FALSE /\ selected_device' = 0
       /\ UNCHANGED powered
    \/ image # NoImage /\ ata_unmount /\ UNCHANGED svars

MountDisk ==
    /\ rom_loaded
    /\ \E i \in Image, mode \in {"ro", "rw"} : ata_mount_mode(i, mode)
    /\ UNCHANGED svars

FlushDisk == ata_flush /\ UNCHANGED svars
EjectDisk == ata_unmount /\ UNCHANGED svars

Destroy ==
    /\ powered' = FALSE /\ rom_loaded' = FALSE /\ soft_reset' = FALSE
    /\ selected_device' = 0 /\ ata_destroy

---------------------------------------------------------------------------
(* The guest: accesses that the code ignores are stuttering.               *)

\* Register 14, bit 2: the device stays in reset until it is cleared.
EnterSoftReset ==
    /\ rom_loaded /\ ~soft_reset /\ soft_reset' = TRUE /\ ata_reset
    /\ UNCHANGED <<powered, rom_loaded, selected_device>>

LeaveSoftReset ==
    /\ rom_loaded /\ soft_reset /\ soft_reset' = FALSE
    /\ UNCHANGED <<powered, rom_loaded, selected_device>> /\ UNCHANGED avars

\* Register 6 both selects the device and, for the master, is part of the
\* task file; the four LBA bits of it are in SetTaskFile.
SelectDevice ==
    /\ rom_loaded /\ ~soft_reset /\ selected_device' \in {0, 1}
    /\ UNCHANGED <<powered, rom_loaded, soft_reset>> /\ UNCHANGED avars

WriteRegister ==
    /\ rom_loaded /\ ~soft_reset /\ selected_device = 0
    /\ ata_write_register /\ UNCHANGED svars

\* The data window is not closed by the soft reset.
ReadData ==
    /\ rom_loaded /\ selected_device = 0 /\ ata_read_data /\ UNCHANGED svars

WriteData ==
    /\ rom_loaded /\ selected_device = 0
    /\ \E w \in Word : ata_write_data(w)
    /\ UNCHANGED svars

User == InstallRom \/ EjectRom \/ MountDisk \/ FlushDisk \/ EjectDisk
        \/ sunrise_reset \/ Destroy
Guest == EnterSoftReset \/ LeaveSoftReset \/ SelectDevice \/ WriteRegister
         \/ ReadData \/ WriteData

Next == powered /\ (User \/ Guest)

Spec == SunriseInit /\ [][Next]_vars

---------------------------------------------------------------------------
(* Properties.                                                             *)

\* Every variable of the cartridge, the device and the image has its type;
\* the guest can never put identify data or half a word on a disk.
TypeOK ==
    /\ powered \in BOOLEAN /\ rom_loaded \in BOOLEAN /\ soft_reset \in BOOLEAN
    /\ selected_device \in {0, 1}
    /\ AtaTypeOK

\* No change is forgotten: a sector that has not reached stable storage is
\* one of the image still in the drive, and that image counts as dirty
\* (ata_store_sector, ata_flush, ata_unmount, ata_mount_mode).
NothingForgotten ==
    powered => \A u \in unsynced : dirty /\ image = u[1]

TransferJob ==
    IF transfer_write
    THEN [kind |-> "write", lba |-> transfer_lba, left |-> sectors_left,
          given |-> transfer_offset,
          words |-> [k \in 1..transfer_offset |-> sector[k]]]
    ELSE IF transfer_read /\ command # "identify"
    THEN [kind |-> "read", lba |-> transfer_lba, left |-> sectors_left,
          given |-> transfer_offset, words |-> [k \in 1..0 |-> 0]]
    ELSE [kind |-> "none", lba |-> 0, left |-> 0, given |-> 0,
          words |-> [k \in 1..0 |-> 0]]

Abstract == INSTANCE Disk WITH inserted <- image, job <- TransferJob

\* The registers, buffers and resets of the cartridge implement the plain
\* disk: a sector changes only as a whole and to the words given since the
\* last DRQ, and no image is let go of unsynced except by the shutdown.
ImplementsDisk == Abstract!Spec
=============================================================================
