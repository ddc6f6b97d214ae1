--------------------------- MODULE SunriseProofs ---------------------------
(***************************************************************************)
(* Proofs about Sunrise for every set of images and sizes, sector length   *)
(* and width of the count: type correctness, transfers stay inside the     *)
(* image, reads are current, no change is forgotten, and the device        *)
(* implements Disk.                                                        *)
(***************************************************************************)
EXTENDS Sunrise, TLAPS

LEMMA Constants ==
    /\ NoImage \notin Image
    /\ \A i \in Image : Size[i] \in Nat /\ Size[i] > 0 /\ Size[i] <= MaxLba
    /\ Zero \in Word
    /\ SectorWords \in Nat /\ SectorWords > 0
    /\ CountMod \in Nat /\ CountMod > 1
    /\ MaxLba \in Nat /\ MaxLba > 0
BY ImageAssumption, WordAssumption, BoundAssumption

\* What a guest writes collects in a buffer of words.
WriteBuffer == transfer_write => sector \in Sector

\* The changes that did not reach stable storage, while there is power.
Remembered == \A u \in unsynced : dirty /\ image = u[1]

DeviceInv == AtaTypeOK /\ TransferBounded /\ BufferCurrent /\ WriteBuffer

IInv == TypeOK /\ DeviceInv /\ NothingForgotten

LEMMA BlankSector == Blank \in Sector /\ Blank \in Buffer
BY Constants DEF Blank, Sector, Buffer

LEMMA SectorIsBuffer == Sector \subseteq Buffer
BY DEF Sector, Buffer

\* A sector of an image is a sector.
LEMMA MediumSector ==
    ASSUME MediumOK, NEW i \in Image, NEW l \in Nat, l < Size[i]
    PROVE  medium[i][l] \in Sector
<1>1. l \in 0..(Size[i] - 1)
    BY Constants
<1>2. QED
    BY <1>1 DEF MediumOK

\* Changing one sector to a sector keeps the images well-formed, and reads
\* back as it was written.
LEMMA StoredSector ==
    ASSUME MediumOK, image \in Image, transfer_lba \in Nat,
           transfer_lba < Size[image], NEW content \in Sector, Stored(content)
    PROVE  MediumOK'
<1>1. transfer_lba \in 0..(Size[image] - 1)
    BY Constants
<1>2. \A i \in Image : medium'[i] \in [0..(Size[i] - 1) -> Sector]
    <2> SUFFICES ASSUME NEW i \in Image
                 PROVE  medium'[i] \in [0..(Size[i] - 1) -> Sector]
        OBVIOUS
    <2>1. medium[i] \in [0..(Size[i] - 1) -> Sector]
        BY DEF MediumOK
    <2>2. CASE i # image
        BY <2>1, <2>2 DEF Stored, MediumOK
    <2>3. CASE i = image
        <3>1. medium'[i] = [medium[i] EXCEPT ![transfer_lba] = content]
            BY <2>3 DEF Stored, MediumOK
        <3>2. QED
            BY <2>1, <3>1
    <2>4. QED
        BY <2>2, <2>3
<1>3. QED
    BY <1>2 DEF Stored, MediumOK

\* With no transfer open, only the types are left to show.
LEMMA NoTransfer ==
    ASSUME transfer_read' = FALSE, transfer_write' = FALSE, status' # "drq"
    PROVE  TransferBounded' /\ BufferCurrent' /\ WriteBuffer'
BY DEF TransferBounded, BufferCurrent, WriteBuffer

LEMMA InitIInv == SunriseInit => IInv
<1> SUFFICES ASSUME SunriseInit PROVE IInv
    OBVIOUS
<1>1. Flags /\ powered \in BOOLEAN /\ rom_loaded \in BOOLEAN /\ soft_reset \in BOOLEAN
    BY Zenon DEF SunriseInit, Init, Flags
<1>2. MediumOK
    BY BlankSector DEF SunriseInit, Init, MediumOK
<1>3. AtaTypeOK
    BY <1>1, <1>2, Constants, BlankSector
    DEF SunriseInit, Init, AtaTypeOK, Errors
<1>4. QED
    BY <1>1, <1>3 DEF SunriseInit, Init, IInv, TypeOK, DeviceInv,
       TransferBounded, BufferCurrent, WriteBuffer, NothingForgotten

---------------------------------------------------------------------------
(* The image.                                                              *)

LEMMA ResetInv ==
    ASSUME DeviceInv, ata_reset
    PROVE  DeviceInv' /\ (Remembered => Remembered')
<1>1. Flags'
    BY Zenon DEF DeviceInv, AtaTypeOK, ata_reset, Cleared, Idle, ImageVars, Flags
<1>2. transfer_read' = FALSE /\ transfer_write' = FALSE /\ status' # "drq"
    BY DEF ata_reset, Cleared, Idle
<1>3. AtaTypeOK'
    BY <1>1, Constants, BlankSector
    DEF DeviceInv, AtaTypeOK, MediumOK, ata_reset, Cleared, Idle,
        ata_signature, ImageVars, Errors
<1>4. QED
    BY <1>2, <1>3, NoTransfer DEF DeviceInv, Remembered, ata_reset, ImageVars

LEMMA AttachedInv ==
    ASSUME DeviceInv, Remembered, NEW i \in Image \cup {NoImage},
           NEW mode \in {"ro", "rw"}, Attached(i, mode)
    PROVE  DeviceInv' /\ unsynced' = {}
<1>1. Flags'
    BY Zenon DEF Attached, Cleared, Idle, Flags
<1>2. transfer_read' = FALSE /\ transfer_write' = FALSE /\ status' # "drq"
    BY DEF Attached, Cleared, Idle
<1>3. unsynced' = {}
    BY DEF Attached, FlushedSectors, Remembered
<1>4. AtaTypeOK'
    BY <1>1, <1>3, Constants, BlankSector
    DEF DeviceInv, AtaTypeOK, MediumOK, Attached, Cleared, Idle,
        ata_signature, Errors
<1>5. QED
    BY <1>2, <1>3, <1>4, NoTransfer DEF DeviceInv

LEMMA StutterInv ==
    ASSUME DeviceInv, UNCHANGED avars
    PROVE  DeviceInv' /\ (Remembered => Remembered')
BY DEF avars, DeviceInv, AtaTypeOK, Flags, MediumOK, TransferBounded,
   BufferCurrent, WriteBuffer, Remembered

LEMMA UnmountInv ==
    ASSUME DeviceInv, Remembered, ata_unmount
    PROVE  DeviceInv' /\ Remembered'
<1>1. CASE Attached(NoImage, "ro")
    BY <1>1, AttachedInv DEF Remembered
<1>2. CASE UNCHANGED avars
    BY <1>2, StutterInv
<1>3. QED
    BY <1>1, <1>2 DEF ata_unmount

LEMMA FlushInv ==
    ASSUME DeviceInv, Remembered, ata_flush
    PROVE  DeviceInv' /\ Remembered'
<1>1. PICK r \in FlushOutcome :
         dirty' = (dirty /\ r # "ok") /\ unsynced' = FlushedSectors(r)
    BY DEF ata_flush
<1>2. Flags'
    BY <1>1, Zenon DEF ata_flush, Flags, DeviceInv, AtaTypeOK
<1>3. AtaTypeOK'
    BY <1>1, <1>2 DEF DeviceInv, AtaTypeOK, MediumOK, ata_flush, FlushedSectors
<1>4. TransferBounded' /\ BufferCurrent' /\ WriteBuffer'
    BY DEF DeviceInv, TransferBounded, BufferCurrent, WriteBuffer, ata_flush
<1>5. Remembered'
    BY <1>1 DEF ata_flush, Remembered, FlushedSectors
<1>6. QED
    BY <1>3, <1>4, <1>5 DEF DeviceInv

LEMMA DestroyInv ==
    ASSUME DeviceInv, ata_destroy
    PROVE  DeviceInv'
<1>1. Flags'
    BY Zenon DEF ata_destroy, Idle, Flags
<1>2. transfer_read' = FALSE /\ transfer_write' = FALSE /\ status' # "drq"
    BY DEF ata_destroy, Idle
<1>3. unsynced' \subseteq unsynced
    BY DEF ata_destroy, FlushedSectors
<1>4. AtaTypeOK'
    BY <1>1, <1>3, Constants, BlankSector
    DEF DeviceInv, AtaTypeOK, MediumOK, ata_destroy, Idle, ata_signature, Errors
<1>5. QED
    BY <1>2, <1>4, NoTransfer DEF DeviceInv

---------------------------------------------------------------------------
(* The registers.                                                          *)

\* A command that opens no transfer and leaves the image alone.
LEMMA NoTransferInv ==
    ASSUME DeviceInv, Idle, status' \in {"ready", "err"}, error' \in Errors,
           command' \in {"read", "write", "flush", "other"},
           transfer_lba' \in 0..MaxLba, sector' = sector,
           sector_count' \in 0..(CountMod - 1), lba' \in 0..MaxLba,
           UNCHANGED <<image, image_mode, medium>>,
           dirty' \in BOOLEAN, unsynced' \subseteq unsynced
    PROVE  DeviceInv'
<1>1. Flags'
    BY Zenon DEF Idle, Flags
<1>2. transfer_read' = FALSE /\ transfer_write' = FALSE /\ status' # "drq"
    BY DEF Idle
<1>3. AtaTypeOK'
    BY <1>1, Constants DEF DeviceInv, AtaTypeOK, MediumOK, Idle
<1>4. QED
    BY <1>2, <1>3, NoTransfer DEF DeviceInv

LEMMA RequestedPositive ==
    ASSUME sector_count \in 0..(CountMod - 1)
    PROVE  Requested \in 1..CountMod
BY Constants DEF Requested

\* A transfer inside the image is a transfer the invariant allows.
LEMMA BeginInv ==
    ASSUME DeviceInv, image \in Image, ~BeyondEnd, NEW content \in Sector,
           NEW kind \in {"read", "write"}, Begin(kind, content),
           kind = "read" => content = medium[image][lba],
           kind = "write" => image_mode = "rw",
           UNCHANGED TaskFile, UNCHANGED ImageVars
    PROVE  DeviceInv'
<1>1. Flags'
    BY Zenon DEF Begin, Flags, DeviceInv, AtaTypeOK, ImageVars
<1>2. Requested \in 1..CountMod /\ lba + Requested <= Size[image]
    BY RequestedPositive, Constants DEF DeviceInv, AtaTypeOK, BeyondEnd
<1>3. AtaTypeOK'
    BY <1>1, <1>2, Constants, SectorIsBuffer
    DEF DeviceInv, AtaTypeOK, MediumOK, Begin, ImageVars, TaskFile, Errors
<1>4. TransferBounded'
    <2>1. \/ kind = "read" /\ transfer_read' /\ ~transfer_write'
          \/ kind = "write" /\ transfer_write' /\ ~transfer_read'
        BY DEF Begin
    <2>2. /\ status' = "drq" /\ command' = kind
          /\ transfer_offset' = 0 /\ sectors_left' = Requested
          /\ transfer_lba' = lba /\ image' = image /\ image_mode' = image_mode
        BY DEF Begin, ImageVars
    <2>3. QED
        BY <1>2, <2>1, <2>2, Constants DEF DeviceInv, AtaTypeOK, TransferBounded
<1>5. BufferCurrent' /\ WriteBuffer'
    BY DEF Begin, ImageVars, BufferCurrent, WriteBuffer
<1>6. QED
    BY <1>3, <1>4, <1>5 DEF DeviceInv

LEMMA DirtyNoTransfer ==
    ASSUME DeviceInv, UNCHANGED ImageVars
    PROVE  /\ dirty' \in BOOLEAN /\ unsynced' \subseteq unsynced
           /\ Remembered => Remembered'
<1>1. dirty' \in BOOLEAN
    BY Zenon DEF DeviceInv, AtaTypeOK, Flags, ImageVars
<1>2. QED
    BY <1>1 DEF ImageVars, Remembered

\* A read or write command that is refused.
LEMMA BeginFailsInv ==
    ASSUME DeviceInv, NEW kind \in {"read", "write"},
           NEW e \in {"ABRT", "IDNF", "UNC"}, BeginFails(kind, e),
           UNCHANGED TaskFile, UNCHANGED ImageVars
    PROVE  DeviceInv'
BY DirtyNoTransfer, NoTransferInv
DEF BeginFails, ata_set_error, Errors, TaskFile, ImageVars, DeviceInv, AtaTypeOK

LEMMA ReadInv ==
    ASSUME DeviceInv, Remembered, image \in Image, CommandRead
    PROVE  DeviceInv' /\ Remembered'
<1>1. UNCHANGED TaskFile /\ UNCHANGED ImageVars
    BY DEF CommandRead
<1>2. DeviceInv'
    <2>1. CASE BeyondEnd
        BY <1>1, <2>1, BeginFailsInv DEF CommandRead
    <2>2. CASE ~BeyondEnd
        <3>1. PICK r \in LoadOutcome(lba) :
                 IF r = "ok" THEN Begin("read", medium[image][lba])
                 ELSE BeginFails("read", r)
            BY <2>2 DEF CommandRead
        <3>2. CASE r = "ok"
            <4>1. lba \in Nat /\ lba < Size[image]
                BY <2>2, RequestedPositive, Constants
                DEF BeyondEnd, DeviceInv, AtaTypeOK
            <4>2. medium[image][lba] \in Sector
                BY <4>1, MediumSector DEF DeviceInv, AtaTypeOK
            <4>3. QED
                BY <1>1, <2>2, <3>1, <3>2, <4>2, BeginInv
        <3>3. CASE r # "ok"
            BY <1>1, <3>1, <3>3, BeginFailsInv DEF LoadOutcome
        <3>4. QED
            BY <3>2, <3>3
    <2>3. QED
        BY <2>1, <2>2
<1>3. QED
    BY <1>1, <1>2, DirtyNoTransfer

LEMMA WriteInv ==
    ASSUME DeviceInv, Remembered, image \in Image, CommandWrite
    PROVE  DeviceInv' /\ Remembered'
<1>1. UNCHANGED TaskFile /\ UNCHANGED ImageVars
    BY DEF CommandWrite
<1>2. DeviceInv'
    <2>1. CASE image_mode # "rw"
        BY <1>1, <2>1, BeginFailsInv DEF CommandWrite
    <2>2. CASE image_mode = "rw" /\ BeyondEnd
        BY <1>1, <2>2, BeginFailsInv DEF CommandWrite
    <2>3. CASE image_mode = "rw" /\ ~BeyondEnd
        BY <1>1, <2>3, BeginInv, BlankSector DEF CommandWrite
    <2>4. QED
        BY <2>1, <2>2, <2>3
<1>3. QED
    BY <1>1, <1>2, DirtyNoTransfer

LEMMA FlushCommandInv ==
    ASSUME DeviceInv, Remembered, CommandFlush
    PROVE  DeviceInv' /\ Remembered'
<1>1. PICK r \in FlushOutcome :
         /\ dirty' = (dirty /\ r # "ok") /\ unsynced' = FlushedSectors(r)
         /\ IF r = "ok" THEN Accept("flush") ELSE Reject("flush", "UNC")
    BY DEF CommandFlush
<1>2. dirty' \in BOOLEAN
    BY <1>1, Zenon
<1>3. unsynced' \subseteq unsynced
    BY <1>1 DEF FlushedSectors
<1>4. DeviceInv'
    BY <1>1, <1>2, <1>3, NoTransferInv
    DEF CommandFlush, Accept, Reject, ata_set_error, Errors, TaskFile,
        DeviceInv, AtaTypeOK
<1>5. Remembered'
    BY <1>1 DEF CommandFlush, Remembered, FlushedSectors
<1>6. QED
    BY <1>4, <1>5

LEMMA IdentifyInv ==
    ASSUME DeviceInv, Remembered, image \in Image, CommandIdentify
    PROVE  DeviceInv' /\ Remembered'
<1>1. Flags'
    BY Zenon DEF CommandIdentify, Flags, DeviceInv, AtaTypeOK, ImageVars
<1>2. sector' \in Buffer
    BY DEF CommandIdentify, Buffer
<1>3. AtaTypeOK'
    BY <1>1, <1>2, Constants
    DEF DeviceInv, AtaTypeOK, MediumOK, CommandIdentify, ImageVars, TaskFile, Errors
<1>4. TransferBounded' /\ BufferCurrent' /\ WriteBuffer'
    BY Constants DEF CommandIdentify, ImageVars, TransferBounded,
       BufferCurrent, WriteBuffer, DeviceInv, AtaTypeOK
<1>5. Remembered'
    BY DirtyNoTransfer DEF CommandIdentify
<1>6. QED
    BY <1>3, <1>4, <1>5 DEF DeviceInv

LEMMA RegisterInv ==
    ASSUME DeviceInv, Remembered, ata_write_register
    PROVE  DeviceInv' /\ Remembered'
<1>1. image \in Image
    BY DEF ata_write_register, DeviceInv, AtaTypeOK
<1>2. CASE SetTaskFile
    <2>1. Flags'
        BY <1>2, Zenon DEF SetTaskFile, Flags, DeviceInv, AtaTypeOK, ImageVars
    <2>2. AtaTypeOK'
        BY <1>2, <2>1, Constants
        DEF SetTaskFile, DeviceInv, AtaTypeOK, MediumOK, ImageVars
    <2>3. QED
        BY <1>2, <2>2 DEF SetTaskFile, DeviceInv, ImageVars, TransferBounded,
           BufferCurrent, WriteBuffer, Remembered
<1>3. CASE CommandRead
    BY <1>1, <1>3, ReadInv
<1>4. CASE CommandWrite
    BY <1>1, <1>4, WriteInv
<1>5. CASE CommandFlush
    BY <1>5, FlushCommandInv
<1>6. CASE CommandIdentify
    BY <1>1, <1>6, IdentifyInv
<1>7. CASE CommandDiagnose
    BY <1>7, DirtyNoTransfer, NoTransferInv, Constants
    DEF CommandDiagnose, ata_signature, Errors, ImageVars, DeviceInv, AtaTypeOK
<1>8. CASE CommandNativeMax
    BY <1>1, <1>8, DirtyNoTransfer, NoTransferInv, Constants
    DEF CommandNativeMax, Accept, Errors, ImageVars, DeviceInv, AtaTypeOK
<1>9. CASE CommandOther
    BY <1>9, DirtyNoTransfer, NoTransferInv
    DEF CommandOther, Accept, Reject, ata_set_error, Errors, TaskFile,
        ImageVars, DeviceInv, AtaTypeOK
<1>10. QED
    BY <1>2, <1>3, <1>4, <1>5, <1>6, <1>7, <1>8, <1>9
    DEF ata_write_register, ata_execute

---------------------------------------------------------------------------
(* The data register.                                                      *)

\* A data transfer goes on inside the image.
LEMMA OpenTransfer ==
    ASSUME DeviceInv, Transferring
    PROVE  /\ image \in Image /\ transfer_offset \in Nat
           /\ transfer_lba \in Nat
           /\ transfer_read \/ transfer_write
           /\ command # "identify" =>
                 /\ sectors_left \in 1..CountMod
                 /\ transfer_lba + sectors_left <= Size[image]
BY Constants DEF DeviceInv, AtaTypeOK, TransferBounded, Transferring

\* A transfer that goes on with the same flags.
LEMMA GoesOnInv ==
    ASSUME DeviceInv, Transferring, AtaTypeOK',
           UNCHANGED <<status, transfer_read, transfer_write, command, image,
                       image_mode>>,
           transfer_offset' \in 0..(SectorWords - 1),
           command # "identify" =>
              sectors_left' > 0 /\ transfer_lba' + sectors_left' <= Size[image],
           transfer_read /\ command = "read" => sector' = medium'[image][transfer_lba'],
           transfer_write => sector' \in Sector
    PROVE  DeviceInv'
<1>1. TransferBounded'
    BY Constants DEF DeviceInv, TransferBounded, Transferring
<1>2. BufferCurrent' /\ WriteBuffer'
    BY DEF BufferCurrent, WriteBuffer
<1>3. QED
    BY <1>1, <1>2 DEF DeviceInv

LEMMA SameFlags ==
    ASSUME DeviceInv, UNCHANGED <<transfer_read, transfer_write>>,
           dirty' = dirty \/ dirty' = TRUE
    PROVE  Flags'
BY Zenon DEF DeviceInv, AtaTypeOK, Flags

LEMMA ReadDataInv ==
    ASSUME DeviceInv, Remembered, ata_read_data
    PROVE  DeviceInv' /\ Remembered'
<1>1. /\ Transferring /\ transfer_read /\ UNCHANGED command
      /\ UNCHANGED TaskFile /\ UNCHANGED ImageVars
    BY DEF ata_read_data
<1>2. dirty' = dirty /\ Remembered'
    BY <1>1, DirtyNoTransfer DEF ImageVars
<1>3. CASE /\ transfer_offset + 1 < SectorWords
           /\ transfer_offset' = transfer_offset + 1
           /\ UNCHANGED <<status, error, transfer_read, transfer_write,
                          transfer_lba, sectors_left, sector>>
    <2>1. Flags'
        BY <1>2, <1>3, SameFlags
    <2>2. AtaTypeOK'
        BY <1>1, <1>3, <2>1, OpenTransfer, Constants
        DEF DeviceInv, AtaTypeOK, MediumOK, ImageVars, TaskFile
    <2>3. QED
        BY <1>1, <1>2, <1>3, <2>2, OpenTransfer, GoesOnInv, Constants
        DEF DeviceInv, BufferCurrent, WriteBuffer, ImageVars
<1>4. CASE /\ transfer_offset + 1 = SectorWords /\ ReadDone
           /\ transfer_offset' = SectorWords /\ sectors_left' = 0
           /\ transfer_read' = FALSE /\ status' = "ready"
           /\ UNCHANGED <<error, transfer_write, transfer_lba, sector>>
    <2>1. transfer_write' = FALSE
        BY <1>1, <1>4, Zenon DEF DeviceInv, TransferBounded, AtaTypeOK, Flags
    <2>2. Flags'
        BY <1>2, <1>4, <2>1, Zenon DEF DeviceInv, AtaTypeOK, Flags
    <2>3. AtaTypeOK'
        BY <1>1, <1>4, <2>2, Constants
        DEF DeviceInv, AtaTypeOK, MediumOK, ImageVars, TaskFile
    <2>4. QED
        BY <1>2, <1>4, <2>1, <2>3, NoTransfer DEF DeviceInv
<1>5. ASSUME transfer_offset + 1 = SectorWords, ~ReadDone,
             transfer_lba' = transfer_lba + 1,
             NEW r \in LoadOutcome(transfer_lba + 1), LoadNext(r)
      PROVE  DeviceInv'
    <2>1. /\ command # "identify" /\ sectors_left # 1
          /\ command = "read" /\ ~transfer_write
        BY <1>1, <1>5 DEF ReadDone, DeviceInv, TransferBounded
    <2>2. /\ sectors_left \in 2..CountMod /\ transfer_lba + 1 \in 0..MaxLba
          /\ transfer_lba + 1 < Size[image]
        BY <1>1, <2>1, OpenTransfer, Constants
    <2>3. CASE r = "ok"
        <3>1. /\ sector' = medium[image][transfer_lba + 1]
              /\ transfer_offset' = 0 /\ sectors_left' = sectors_left - 1
              /\ UNCHANGED <<status, error, transfer_read, transfer_write>>
            BY <1>5, <2>3 DEF LoadNext
        <3>2. Flags'
            BY <1>2, <3>1, SameFlags
        <3>3. medium[image][transfer_lba + 1] \in Sector
            BY <1>1, <2>2, OpenTransfer, MediumSector DEF DeviceInv, AtaTypeOK
        <3>4. AtaTypeOK'
            BY <1>1, <1>5, <2>2, <3>1, <3>2, <3>3, SectorIsBuffer, Constants
            DEF DeviceInv, AtaTypeOK, MediumOK, ImageVars, TaskFile
        <3>5. sectors_left' > 0 /\ transfer_lba' + sectors_left' <= Size[image]
            BY <1>1, <1>5, <2>1, <2>2, <3>1, OpenTransfer, Constants
        <3>6. QED
            BY <1>1, <1>5, <2>1, <3>1, <3>4, <3>5, GoesOnInv, Constants
            DEF ImageVars
    <2>4. CASE r # "ok"
        <3>1. Idle /\ status' = "err" /\ error' = r /\ sector' = sector
            BY <1>5, <2>4 DEF LoadNext, ata_set_error
        <3>2. r \in Errors
            BY <1>5, <2>4 DEF LoadOutcome, Errors
        <3>3. command' \in {"read", "write", "flush", "other"}
            BY <1>1, <2>1
        <3>4. dirty' \in BOOLEAN /\ unsynced' \subseteq unsynced
            BY <1>1, DirtyNoTransfer
        <3>5. QED
            BY <1>1, <1>5, <2>2, <3>1, <3>2, <3>3, <3>4, NoTransferInv
            DEF DeviceInv, AtaTypeOK, ImageVars, TaskFile
    <2>5. QED
        BY <2>3, <2>4
<1>6. QED
    BY <1>1, <1>2, <1>3, <1>4, <1>5 DEF ata_read_data

LEMMA FilledSector ==
    ASSUME DeviceInv, Transferring, transfer_write, NEW w \in Word
    PROVE  /\ Filled(w) \in Sector
           /\ \A k \in 1..SectorWords :
                 Filled(w)[k] = IF k = transfer_offset + 1 THEN w ELSE sector[k]
BY OpenTransfer, Constants DEF Filled, Sector, DeviceInv, WriteBuffer, Transferring

\* What a partial write leaves of the sector is a sector.
LEMMA TornSector ==
    ASSUME DeviceInv, Transferring, transfer_write,
           transfer_lba < Size[image], NEW w \in Word, NEW k \in Nat
    PROVE  Torn(w, k) \in Sector
<1>1. medium[image][transfer_lba] \in Sector
    BY OpenTransfer, MediumSector DEF DeviceInv, AtaTypeOK
<1>2. QED
    BY <1>1, FilledSector DEF Torn, Sector

LEMMA StoreSectorInv ==
    ASSUME DeviceInv, Remembered, Transferring, transfer_write,
           NEW w \in Word, StoreSector(w),
           UNCHANGED <<command, image, image_mode>>, UNCHANGED TaskFile
    PROVE  DeviceInv' /\ Remembered'
<1>1. /\ command # "identify" /\ ~transfer_read /\ image \in Image
      /\ sectors_left \in 1..CountMod /\ transfer_lba \in Nat
      /\ transfer_lba + sectors_left <= Size[image]
    BY OpenTransfer DEF DeviceInv, TransferBounded
<1>2. transfer_lba < Size[image] /\ transfer_lba \in 0..MaxLba
    BY <1>1, Constants
<1>3. /\ Stored(Filled(w)) /\ dirty' = TRUE
      /\ unsynced' = unsynced \cup {<<image, transfer_lba>>}
      /\ sectors_left' = sectors_left - 1 /\ UNCHANGED <<error, transfer_read>>
    BY DEF StoreSector
<1>4. MediumOK'
    BY <1>1, <1>2, <1>3, FilledSector, StoredSector DEF DeviceInv, AtaTypeOK
<1>5. Remembered' /\ unsynced' \subseteq Image \X (0..MaxLba)
    BY <1>1, <1>2, <1>3 DEF Remembered, DeviceInv, AtaTypeOK
<1>6. CASE sectors_left = 1
    <2>1. /\ transfer_write' = FALSE /\ status' = "ready"
          /\ transfer_offset' = SectorWords /\ sector' = Filled(w)
          /\ transfer_lba' = transfer_lba
        BY <1>6 DEF StoreSector
    <2>2. transfer_read' = FALSE
        BY <1>1, <1>3, Zenon DEF DeviceInv, AtaTypeOK, Flags
    <2>3. Flags'
        BY <1>3, <2>1, <2>2, Zenon DEF Flags
    <2>4. AtaTypeOK'
        BY <1>2, <1>3, <1>4, <1>5, <1>6, <2>1, <2>3, FilledSector,
           SectorIsBuffer, Constants
        DEF DeviceInv, AtaTypeOK, TaskFile
    <2>5. QED
        BY <1>5, <2>1, <2>2, <2>4, NoTransfer DEF DeviceInv
<1>7. CASE sectors_left # 1
    <2>1. /\ transfer_lba' = transfer_lba + 1 /\ transfer_offset' = 0
          /\ sector' = Blank /\ UNCHANGED <<transfer_write, status>>
        BY <1>7 DEF StoreSector
    <2>2. Flags'
        BY <1>3, <2>1, SameFlags
    <2>3. AtaTypeOK'
        BY <1>1, <1>2, <1>3, <1>4, <1>5, <1>7, <2>1, <2>2, BlankSector, Constants
        DEF DeviceInv, AtaTypeOK, TaskFile
    <2>4. sectors_left' > 0 /\ transfer_lba' + sectors_left' <= Size[image]
        BY <1>1, <1>3, <1>7, <2>1, Constants
    <2>5. DeviceInv'
        BY <1>1, <1>3, <2>1, <2>3, <2>4, GoesOnInv, BlankSector, Constants
    <2>6. QED
        BY <1>5, <2>5
<1>8. QED
    BY <1>6, <1>7

LEMMA StoreFailsInv ==
    ASSUME DeviceInv, Remembered, Transferring, transfer_write,
           NEW w \in Word, NEW r \in {"ABRT", "IDNF", "UNC"}, StoreFails(w, r),
           UNCHANGED <<command, image, image_mode>>, UNCHANGED TaskFile
    PROVE  DeviceInv' /\ Remembered'
<1>1. /\ command = "write" /\ image \in Image /\ transfer_lba \in Nat
      /\ transfer_lba < Size[image] /\ transfer_lba \in 0..MaxLba
    BY OpenTransfer, Constants DEF DeviceInv, TransferBounded
<1>2. PICK k \in 0..(SectorWords - 1) :
         /\ Stored(Torn(w, k)) /\ dirty' = (dirty \/ k > 0)
         /\ unsynced' = IF k = 0 THEN unsynced
                        ELSE unsynced \cup {<<image, transfer_lba>>}
    BY Constants DEF StoreFails
<1>3. MediumOK'
    BY <1>1, <1>2, TornSector, StoredSector, Constants DEF DeviceInv, AtaTypeOK
<1>4. Remembered' /\ unsynced' \subseteq Image \X (0..MaxLba)
    <2>1. dirty \/ k > 0 => dirty'
        BY <1>2, Zenon
    <2>2. unsynced' # unsynced => k > 0
        BY <1>2
    <2>3. /\ unsynced' \subseteq unsynced \cup {<<image, transfer_lba>>}
          /\ image' = image
        BY <1>2
    <2>4. Remembered'
        BY <2>1, <2>2, <2>3 DEF Remembered
    <2>5. QED
        BY <1>1, <2>3, <2>4 DEF DeviceInv, AtaTypeOK
<1>5. Idle /\ error' = r /\ status' = "err" /\ sector' = Filled(w)
      /\ transfer_lba' = transfer_lba
    BY DEF StoreFails, ata_set_error
<1>6. Flags'
    BY <1>2, <1>5, Zenon DEF Idle, Flags
<1>7. AtaTypeOK'
    BY <1>1, <1>3, <1>4, <1>5, <1>6, FilledSector, SectorIsBuffer, Constants
    DEF DeviceInv, AtaTypeOK, TaskFile, Idle, Errors
<1>8. QED
    BY <1>4, <1>5, <1>7, NoTransfer DEF DeviceInv, Idle

LEMMA WriteDataInv ==
    ASSUME DeviceInv, Remembered, NEW w \in Word, ata_write_data(w)
    PROVE  DeviceInv' /\ Remembered'
<1>1. /\ Transferring /\ transfer_write
      /\ UNCHANGED <<command, image, image_mode>> /\ UNCHANGED TaskFile
    BY DEF ata_write_data
<1>2. CASE /\ transfer_offset + 1 < SectorWords
           /\ sector' = Filled(w) /\ transfer_offset' = transfer_offset + 1
           /\ UNCHANGED <<status, error, transfer_read, transfer_write,
                  transfer_lba, sectors_left, medium, unsynced, dirty>>
    <2>1. Flags'
        BY <1>2, SameFlags
    <2>2. AtaTypeOK'
        BY <1>1, <1>2, <2>1, OpenTransfer, FilledSector, SectorIsBuffer, Constants
        DEF DeviceInv, AtaTypeOK, MediumOK, TaskFile
    <2>3. ~transfer_read /\ transfer_offset' \in 0..(SectorWords - 1)
        BY <1>1, <1>2, OpenTransfer, Constants DEF DeviceInv, TransferBounded
    <2>4. DeviceInv'
        BY <1>1, <1>2, <2>2, <2>3, OpenTransfer, GoesOnInv, FilledSector, Constants
    <2>5. QED
        BY <1>1, <1>2, <2>4 DEF Remembered
<1>3. ASSUME NEW r \in StoreOutcome(transfer_lba),
             IF r = "ok" THEN StoreSector(w) ELSE StoreFails(w, r)
      PROVE  DeviceInv' /\ Remembered'
    <2>1. CASE r = "ok"
        BY <1>1, <1>3, <2>1, StoreSectorInv
    <2>2. CASE r # "ok"
        BY <1>1, <1>3, <2>2, StoreFailsInv DEF StoreOutcome
    <2>3. QED
        BY <2>1, <2>2
<1>4. QED
    BY <1>2, <1>3 DEF ata_write_data

---------------------------------------------------------------------------
(* The cartridge.                                                          *)

CartridgeFlags == powered \in BOOLEAN /\ rom_loaded \in BOOLEAN /\ soft_reset \in BOOLEAN

\* One step per action of Next; powered, because Next runs only with power.
LEMMA StepInv ==
    ASSUME DeviceInv, Remembered, TypeOK, powered, Next
    PROVE  /\ CartridgeFlags' /\ selected_device' \in {0, 1}
           /\ DeviceInv' /\ (powered' => Remembered')
<1> DEFINE Goal == /\ CartridgeFlags' /\ selected_device' \in {0, 1}
                   /\ DeviceInv' /\ (powered' => Remembered')
<1>0. CartridgeFlags /\ selected_device \in {0, 1}
    BY Zenon DEF TypeOK, CartridgeFlags
<1>1. ASSUME UNCHANGED svars, DeviceInv', Remembered' PROVE Goal
    <2>1. CartridgeFlags'
        BY <1>0, <1>1, Zenon DEF svars, CartridgeFlags
    <2>2. QED
        BY <1>0, <1>1, <2>1 DEF svars
<1>2. CASE InstallRom
    <2>1. CartridgeFlags'
        BY <1>0, <1>2, Zenon DEF InstallRom, CartridgeFlags
    <2>2. QED
        BY <1>2, <2>1, ResetInv DEF InstallRom
<1>3. CASE EjectRom
    <2>1. CASE image # NoImage /\ ata_unmount /\ UNCHANGED svars
        BY <1>1, <2>1, UnmountInv
    <2>2. CASE /\ Attached(NoImage, "ro")
               /\ rom_loaded' = FALSE /\ soft_reset' = FALSE
               /\ selected_device' = 0 /\ UNCHANGED powered
        <3>1. CartridgeFlags'
            BY <1>0, <2>2, Zenon DEF CartridgeFlags
        <3>2. DeviceInv' /\ unsynced' = {}
            BY <2>2, AttachedInv
        <3>3. QED
            BY <2>2, <3>1, <3>2 DEF Remembered
    <2>3. QED
        BY <1>3, <2>1, <2>2 DEF EjectRom
<1>4. CASE MountDisk
    <2>1. PICK i \in Image, mode \in {"ro", "rw"} : ata_mount_mode(i, mode)
        BY <1>4 DEF MountDisk
    <2>2. UNCHANGED svars
        BY <1>4 DEF MountDisk
    <2>3. CASE Attached(i, mode)
        <3>1. DeviceInv' /\ unsynced' = {}
            BY <2>3, AttachedInv
        <3>2. QED
            BY <1>1, <2>2, <3>1 DEF Remembered
    <2>4. CASE ata_unmount
        BY <1>1, <2>2, <2>4, UnmountInv
    <2>5. QED
        BY <2>1, <2>3, <2>4 DEF ata_mount_mode
<1>5. CASE FlushDisk
    BY <1>1, <1>5, FlushInv DEF FlushDisk
<1>6. CASE EjectDisk
    BY <1>1, <1>6, UnmountInv DEF EjectDisk
<1>7. CASE sunrise_reset
    <2>1. CartridgeFlags'
        BY <1>0, <1>7, Zenon DEF sunrise_reset, CartridgeFlags
    <2>2. QED
        BY <1>7, <2>1, ResetInv DEF sunrise_reset
<1>8. CASE Destroy
    <2>1. CartridgeFlags' /\ ~powered'
        BY <1>8, Zenon DEF Destroy, CartridgeFlags
    <2>2. QED
        BY <1>8, <2>1, DestroyInv DEF Destroy
<1>9. CASE EnterSoftReset
    <2>1. CartridgeFlags'
        BY <1>0, <1>9, Zenon DEF EnterSoftReset, CartridgeFlags
    <2>2. QED
        BY <1>0, <1>9, <2>1, ResetInv DEF EnterSoftReset
<1>10. CASE LeaveSoftReset
    <2>1. CartridgeFlags'
        BY <1>0, <1>10, Zenon DEF LeaveSoftReset, CartridgeFlags
    <2>2. QED
        BY <1>0, <1>10, <2>1, StutterInv DEF LeaveSoftReset
<1>11. CASE SelectDevice
    <2>1. CartridgeFlags'
        BY <1>0, <1>11, Zenon DEF SelectDevice, CartridgeFlags
    <2>2. QED
        BY <1>11, <2>1, StutterInv DEF SelectDevice
<1>12. CASE WriteRegister
    BY <1>1, <1>12, RegisterInv DEF WriteRegister
<1>13. CASE ReadData
    BY <1>1, <1>13, ReadDataInv DEF ReadData
<1>14. CASE WriteData
    BY <1>1, <1>14, WriteDataInv DEF WriteData
<1>15. QED
    BY <1>2, <1>3, <1>4, <1>5, <1>6, <1>7, <1>8, <1>9, <1>10, <1>11, <1>12,
       <1>13, <1>14 DEF Next, User, Guest

LEMMA NextIInv == IInv /\ [Next]_vars => IInv'
<1> SUFFICES ASSUME IInv, [Next]_vars PROVE IInv'
    OBVIOUS
<1>1. CASE Next
    <2>1. powered
        BY <1>1 DEF Next
    <2>2. DeviceInv /\ Remembered /\ TypeOK
        BY <2>1 DEF IInv, NothingForgotten, Remembered
    <2>3. /\ CartridgeFlags' /\ selected_device' \in {0, 1}
          /\ DeviceInv' /\ (powered' => Remembered')
        BY <1>1, <2>1, <2>2, StepInv
    <2>4. TypeOK'
        BY <2>3, Zenon DEF TypeOK, CartridgeFlags, DeviceInv
    <2>5. QED
        BY <2>3, <2>4 DEF IInv, NothingForgotten, Remembered
<1>2. CASE UNCHANGED vars
    <2>1. DeviceInv'
        BY <1>2, StutterInv DEF vars, IInv
    <2>2. TypeOK'
        BY <1>2, <2>1, Zenon DEF vars, svars, IInv, TypeOK, DeviceInv
    <2>3. NothingForgotten'
        BY <1>2 DEF vars, svars, avars, IInv, NothingForgotten
    <2>4. QED
        BY <2>1, <2>2, <2>3 DEF IInv
<1>3. QED
    BY <1>1, <1>2

\* The inductive invariant holds in every reachable state.
THEOREM Invariant == Spec => []IInv
BY InitIInv, NextIInv, PTL DEF Spec

\* Every variable of the cartridge, the device and the image keeps its type.
THEOREM TypeCorrect == Spec => []TypeOK
<1>1. IInv => TypeOK
    BY DEF IInv
<1>2. QED
    BY <1>1, Invariant, PTL

\* No transfer ever reaches beyond the image or outlives its DRQ
\* (ata_execute, ata_read_data, ata_write_data).
THEOREM TransfersBounded == Spec => []TransferBounded
<1>1. IInv => TransferBounded
    BY DEF IInv, DeviceInv
<1>2. QED
    BY <1>1, Invariant, PTL

\* The sector a guest reads is the one on the image (ata_load_sector).
THEOREM ReadsAreCurrent == Spec => []BufferCurrent
<1>1. IInv => BufferCurrent
    BY DEF IInv, DeviceInv
<1>2. QED
    BY <1>1, Invariant, PTL

\* Until the shutdown, every change that is not on stable storage belongs to
\* the image in the drive, which counts as dirty (ata_store_sector,
\* ata_flush, ata_unmount, ata_mount_mode).
THEOREM NothingIsForgotten == Spec => []NothingForgotten
<1>1. IInv => NothingForgotten
    BY DEF IInv
<1>2. QED
    BY <1>1, Invariant, PTL

---------------------------------------------------------------------------
(* Sunrise implements Disk.                                                *)

\* What the registers say of the transfer in progress.
LEMMA JobValue ==
    /\ ~transfer_read /\ ~transfer_write => TransferJob = Abstract!NoJob
    /\ ~transfer_write /\ command = "identify" => TransferJob = Abstract!NoJob
    /\ ~transfer_write /\ transfer_read /\ command # "identify" =>
          TransferJob = Abstract!Job("read", transfer_lba, sectors_left,
                                     transfer_offset, [k \in 1..0 |-> 0])
    /\ transfer_write =>
          TransferJob = Abstract!Job("write", transfer_lba, sectors_left,
                            transfer_offset, [k \in 1..transfer_offset |-> sector[k]])
BY DEF TransferJob, Abstract!NoJob, Abstract!Job

LEMMA JobValueNext ==
    /\ ~transfer_read' /\ ~transfer_write' => TransferJob' = Abstract!NoJob
    /\ ~transfer_write' /\ command' = "identify" => TransferJob' = Abstract!NoJob
    /\ ~transfer_write' /\ transfer_read' /\ command' # "identify" =>
          TransferJob' = Abstract!Job("read", transfer_lba', sectors_left',
                                      transfer_offset', [k \in 1..0 |-> 0])
    /\ transfer_write' =>
          TransferJob' = Abstract!Job("write", transfer_lba', sectors_left',
                            transfer_offset', [k \in 1..transfer_offset' |-> sector'[k]])
BY DEF TransferJob, Abstract!NoJob, Abstract!Job

LEMMA JobUnchanged ==
    ASSUME UNCHANGED <<transfer_read, transfer_write, transfer_lba,
                       sectors_left, transfer_offset, sector, command>>
    PROVE  TransferJob' = TransferJob
BY DEF TransferJob

\* The fields of a job.
LEMMA JobFields ==
    ASSUME NEW kind, NEW l, NEW left, NEW given, NEW words
    PROVE  LET j == Abstract!Job(kind, l, left, given, words)
           IN  /\ j.kind = kind /\ j.lba = l /\ j.left = left
               /\ j.given = given /\ j.words = words
BY DEF Abstract!Job

AbstractStep == Abstract!Next \/ UNCHANGED Abstract!dvars

LEMMA DropStep ==
    ASSUME ~transfer_read', ~transfer_write', UNCHANGED <<image, medium, unsynced>>
    PROVE  AbstractStep
<1>1. Abstract!Drop
    BY JobValueNext DEF Abstract!Drop
<1>2. QED
    BY <1>1 DEF AbstractStep, Abstract!Next

LEMMA StutterStep ==
    ASSUME TransferJob' = TransferJob, UNCHANGED <<image, medium, unsynced>>
    PROVE  AbstractStep
BY DEF AbstractStep, Abstract!dvars

LEMMA ChangeStep ==
    ASSUME ~transfer_read', ~transfer_write', medium' = medium, unsynced' = {},
           image' \in Image \cup {NoImage}
    PROVE  AbstractStep
<1>1. Abstract!Change(image')
    BY JobValueNext DEF Abstract!Change
<1>2. QED
    BY <1>1 DEF AbstractStep, Abstract!Next

LEMMA UnmountStep ==
    ASSUME DeviceInv, Remembered, ata_unmount
    PROVE  AbstractStep
<1>1. CASE Attached(NoImage, "ro")
    BY <1>1, AttachedInv, ChangeStep DEF Attached, Cleared, Idle
<1>2. CASE UNCHANGED avars
    BY <1>2, JobUnchanged, StutterStep DEF avars
<1>3. QED
    BY <1>1, <1>2 DEF ata_unmount

LEMMA ResetStep ==
    ASSUME ata_reset
    PROVE  AbstractStep
BY DropStep DEF ata_reset, Cleared, Idle, ImageVars

LEMMA FlushStep ==
    ASSUME ata_flush
    PROVE  AbstractStep
<1>1. TransferJob' = TransferJob /\ UNCHANGED <<image, medium>>
    BY JobUnchanged DEF ata_flush
<1>2. unsynced' = unsynced \/ unsynced' = {}
    BY DEF ata_flush, FlushedSectors
<1>3. CASE unsynced' = {}
    <2>1. Abstract!Sync
        BY <1>1, <1>3 DEF Abstract!Sync
    <2>2. QED
        BY <2>1 DEF AbstractStep, Abstract!Next
<1>4. CASE unsynced' = unsynced
    BY <1>1, <1>4, StutterStep
<1>5. QED
    BY <1>2, <1>3, <1>4

LEMMA DestroyStep ==
    ASSUME ata_destroy
    PROVE  AbstractStep
<1>1. ~transfer_read' /\ ~transfer_write' /\ image' = NoImage /\ medium' = medium
    BY DEF ata_destroy, Idle
<1>2. unsynced' = unsynced \/ unsynced' = {}
    BY DEF ata_destroy, FlushedSectors
<1>3. CASE unsynced' = {}
    BY <1>1, <1>3, ChangeStep
<1>4. CASE unsynced' = unsynced
    <2>1. Abstract!PowerOff
        BY <1>1, <1>4, JobValueNext DEF Abstract!PowerOff
    <2>2. QED
        BY <2>1 DEF AbstractStep, Abstract!Next
<1>5. QED
    BY <1>2, <1>3, <1>4

LEMMA BeginStep ==
    ASSUME DeviceInv, image \in Image, ~BeyondEnd, NEW content,
           NEW kind \in {"read", "write"}, Begin(kind, content),
           UNCHANGED ImageVars
    PROVE  AbstractStep
<1>1. Requested \in 1..CountMod /\ lba \in Nat /\ lba + Requested <= Size[image]
    BY RequestedPositive, Constants DEF DeviceInv, AtaTypeOK, BeyondEnd
<1>2. /\ command' = kind /\ transfer_offset' = 0
      /\ sectors_left' = Requested /\ transfer_lba' = lba
      /\ UNCHANGED <<image, medium, unsynced>>
    BY DEF Begin, ImageVars
<1>3. \/ kind = "read" /\ transfer_read' /\ ~transfer_write'
      \/ kind = "write" /\ transfer_write' /\ ~transfer_read'
    BY DEF Begin
<1>4. TransferJob' = Abstract!SectorStart(kind, lba, Requested)
    <2>1. CASE kind = "read"
        BY <1>2, <1>3, <2>1, JobValueNext DEF Abstract!SectorStart
    <2>2. CASE kind = "write"
        <3>1. [k \in 1..transfer_offset' |-> sector'[k]] = [k \in 1..0 |-> 0]
            BY <1>2
        <3>2. QED
            BY <1>2, <1>3, <2>2, <3>1, JobValueNext DEF Abstract!SectorStart
    <2>3. QED
        BY <2>1, <2>2
<1>5. Abstract!Begin(kind, lba, Requested)
    BY <1>1, <1>2, <1>4 DEF Abstract!Begin
<1>6. /\ image # NoImage /\ lba \in 0..Size[image]
      /\ Requested \in 1..Size[image]
    BY <1>1, Constants
<1>7. QED
    BY <1>5, <1>6 DEF AbstractStep, Abstract!Next

LEMMA RegisterStep ==
    ASSUME DeviceInv, ata_write_register
    PROVE  AbstractStep
<1>0. image \in Image
    BY DEF ata_write_register, DeviceInv, AtaTypeOK
<1>1. CASE SetTaskFile
    BY <1>1, JobUnchanged, StutterStep DEF SetTaskFile, ImageVars
<1>2. ASSUME NEW kind, NEW e, BeginFails(kind, e), UNCHANGED ImageVars
      PROVE  AbstractStep
    BY <1>2, DropStep DEF BeginFails, ata_set_error, Idle, ImageVars
<1>3. CASE CommandRead
    <2>1. CASE BeyondEnd
        BY <1>2, <1>3, <2>1 DEF CommandRead
    <2>2. CASE ~BeyondEnd
        <3>1. UNCHANGED ImageVars
            BY <1>3 DEF CommandRead
        <3>2. PICK r \in LoadOutcome(lba) :
                 IF r = "ok" THEN Begin("read", medium[image][lba])
                 ELSE BeginFails("read", r)
            BY <1>3, <2>2 DEF CommandRead
        <3>3. QED
            BY <1>0, <1>2, <2>2, <3>1, <3>2, BeginStep
    <2>3. QED
        BY <2>1, <2>2
<1>4. CASE CommandWrite
    BY <1>0, <1>2, <1>4, BeginStep DEF CommandWrite
<1>5. CASE CommandFlush
    <2>1. /\ ~transfer_read' /\ ~transfer_write' /\ UNCHANGED <<image, medium>>
          /\ (unsynced' = unsynced \/ unsynced' = {})
        BY <1>5 DEF CommandFlush, Accept, Reject, ata_set_error, Idle, FlushedSectors
    <2>2. CASE unsynced' = unsynced
        BY <2>1, <2>2, DropStep
    <2>3. CASE unsynced' = {}
        <3>1. Abstract!DropAndSync
            BY <2>1, <2>3, JobValueNext DEF Abstract!DropAndSync
        <3>2. QED
            BY <3>1 DEF AbstractStep, Abstract!Next
    <2>4. QED
        BY <2>1, <2>2, <2>3
<1>6. CASE CommandIdentify
    <2>1. ~transfer_write' /\ command' = "identify"
          /\ UNCHANGED <<image, medium, unsynced>>
        BY <1>6 DEF CommandIdentify, ImageVars
    <2>2. Abstract!Drop
        BY <2>1, JobValueNext DEF Abstract!Drop
    <2>3. QED
        BY <2>2 DEF AbstractStep, Abstract!Next
<1>7. CASE CommandDiagnose \/ CommandNativeMax \/ CommandOther
    BY <1>7, DropStep DEF CommandDiagnose, CommandNativeMax, CommandOther,
       Accept, Reject, ata_set_error, Idle, ImageVars
<1>8. QED
    BY <1>1, <1>3, <1>4, <1>5, <1>6, <1>7 DEF ata_write_register, ata_execute

\* A word of an identify block is not part of a job.
LEMMA IdentifyStep ==
    ASSUME ~transfer_write, command = "identify", ~transfer_write',
           command' = "identify", UNCHANGED <<image, medium, unsynced>>
    PROVE  AbstractStep
BY JobValue, JobValueNext, StutterStep

LEMMA ReadDataStep ==
    ASSUME DeviceInv, ata_read_data
    PROVE  AbstractStep
<1>1. /\ Transferring /\ transfer_read /\ ~transfer_write /\ command' = command
      /\ UNCHANGED <<image, medium, unsynced>>
    BY DEF ata_read_data, ImageVars, DeviceInv, TransferBounded
<1> DEFINE none == [k \in 1..0 |-> 0]
<1>2. CASE command = "identify"
    <2>1. ~transfer_write'
        BY <1>1, <1>2 DEF ata_read_data, ReadDone
    <2>2. QED
        BY <1>1, <1>2, <2>1, IdentifyStep
<1>3. CASE command # "identify"
    <2>0. TransferJob = Abstract!Job("read", transfer_lba, sectors_left,
                                     transfer_offset, none)
        BY <1>1, <1>3, JobValue
    <2>1. /\ TransferJob.kind = "read" /\ TransferJob.lba = transfer_lba
          /\ TransferJob.left = sectors_left
          /\ TransferJob.given = transfer_offset /\ TransferJob.words = none
        BY <2>0, JobFields
    <2>2. ASSUME Abstract!Get PROVE AbstractStep
        BY <2>2 DEF AbstractStep, Abstract!Next
    <2>3. CASE /\ transfer_offset + 1 < SectorWords
               /\ transfer_offset' = transfer_offset + 1
               /\ UNCHANGED <<status, error, transfer_read, transfer_write,
                              transfer_lba, sectors_left, sector>>
        <3>1. TransferJob' = Abstract!Job("read", transfer_lba, sectors_left,
                                          transfer_offset + 1, none)
            BY <1>1, <1>3, <2>3, JobValueNext
        <3>2. Abstract!Get
            BY <1>1, <2>1, <2>3, <3>1 DEF Abstract!Get
        <3>3. QED
            BY <2>2, <3>2
    <2>4. CASE /\ transfer_offset + 1 = SectorWords /\ ReadDone
               /\ transfer_offset' = SectorWords /\ sectors_left' = 0
               /\ transfer_read' = FALSE /\ status' = "ready"
               /\ UNCHANGED <<error, transfer_write, transfer_lba, sector>>
        <3>1. sectors_left = 1
            BY <1>3, <2>4 DEF ReadDone
        <3>2. TransferJob' = Abstract!NoJob
            BY <1>1, <2>4, JobValueNext
        <3>3. TransferJob' = Abstract!NextSector
            BY <2>1, <3>1, <3>2 DEF Abstract!NextSector
        <3>4. ~(TransferJob.given + 1 < SectorWords)
            BY <2>1, <2>4, Constants
        <3>5. Abstract!Get
            BY <1>1, <2>1, <3>3, <3>4 DEF Abstract!Get
        <3>6. QED
            BY <2>2, <3>5
    <2>5. ASSUME transfer_offset + 1 = SectorWords, ~ReadDone,
                 transfer_lba' = transfer_lba + 1,
                 NEW r \in LoadOutcome(transfer_lba + 1), LoadNext(r)
          PROVE  AbstractStep
        <3>1. CASE r = "ok"
            <4>1. /\ transfer_offset' = 0 /\ sectors_left' = sectors_left - 1
                  /\ transfer_read' = transfer_read
                  /\ transfer_write' = transfer_write
                BY <2>5, <3>1 DEF LoadNext
            <4>2. TransferJob' = Abstract!SectorStart("read", transfer_lba + 1,
                                                      sectors_left - 1)
                BY <1>1, <1>3, <2>5, <4>1, JobValueNext DEF Abstract!SectorStart
            <4>3. TransferJob' = Abstract!NextSector
                BY <1>3, <2>1, <2>5, <4>2 DEF ReadDone, Abstract!NextSector
            <4>4. ~(TransferJob.given + 1 < SectorWords)
                BY <2>1, <2>5, Constants
            <4>5. Abstract!Get
                BY <1>1, <2>1, <4>3, <4>4 DEF Abstract!Get
            <4>6. QED
                BY <2>2, <4>5
        <3>2. CASE r # "ok"
            BY <1>1, <2>5, <3>2, DropStep DEF LoadNext, ata_set_error, Idle
        <3>3. QED
            BY <3>1, <3>2
    <2>6. QED
        BY <2>3, <2>4, <2>5 DEF ata_read_data
<1>4. QED
    BY <1>2, <1>3

\* The words given so far are the front of the sector buffer.
LEMMA GivenWords ==
    ASSUME DeviceInv, Transferring, transfer_write, NEW w \in Word
    PROVE  /\ TransferJob.kind = "write" /\ TransferJob.lba = transfer_lba
           /\ TransferJob.left = sectors_left
           /\ TransferJob.given = transfer_offset
           /\ Abstract!Given(w) =
                 [k \in 1..(transfer_offset + 1) |-> Filled(w)[k]]
<1>1. TransferJob = Abstract!Job("write", transfer_lba, sectors_left,
                        transfer_offset, [k \in 1..transfer_offset |-> sector[k]])
    BY JobValue
<1>2. /\ TransferJob.kind = "write" /\ TransferJob.lba = transfer_lba
      /\ TransferJob.left = sectors_left
      /\ TransferJob.given = transfer_offset
      /\ TransferJob.words = [k \in 1..transfer_offset |-> sector[k]]
    BY <1>1, JobFields
<1>3. transfer_offset \in Nat /\ transfer_offset < SectorWords
    BY OpenTransfer DEF Transferring
<1>4. \A k \in 1..(transfer_offset + 1) :
         (IF k <= transfer_offset THEN TransferJob.words[k] ELSE w) = Filled(w)[k]
    BY <1>2, <1>3, FilledSector, Constants
<1>5. QED
    BY <1>2, <1>4 DEF Abstract!Given

\* The last word fills the sector.
LEMMA GivenSector ==
    ASSUME DeviceInv, Transferring, transfer_write, NEW w \in Word,
           transfer_offset + 1 = SectorWords
    PROVE  Abstract!Given(w) = Filled(w)
<1>1. Filled(w) = [k \in 1..SectorWords |-> Filled(w)[k]]
    BY FilledSector DEF Sector
<1>2. QED
    BY <1>1, GivenWords

LEMMA PutStep ==
    ASSUME DeviceInv, Transferring, transfer_write, NEW w \in Word,
           transfer_offset + 1 < SectorWords,
           sector' = Filled(w), transfer_offset' = transfer_offset + 1,
           UNCHANGED <<transfer_read, transfer_write, command, transfer_lba,
                       sectors_left, image, medium, unsynced>>
    PROVE  AbstractStep
<1>1. TransferJob' = Abstract!Job("write", transfer_lba, sectors_left,
                         transfer_offset + 1, Abstract!Given(w))
    BY JobValueNext, GivenWords
<1>2. Abstract!Put(w)
    BY <1>1, GivenWords DEF Abstract!Put
<1>3. QED
    BY <1>2 DEF AbstractStep, Abstract!Next

LEMMA StoreSectorStep ==
    ASSUME DeviceInv, Transferring, transfer_write, NEW w \in Word,
           transfer_offset + 1 = SectorWords, StoreSector(w), image' = image
    PROVE  AbstractStep
<1>1. /\ medium' = [medium EXCEPT ![image][transfer_lba] = Filled(w)]
      /\ unsynced' = unsynced \cup {<<image, transfer_lba>>}
      /\ sectors_left' = sectors_left - 1 /\ transfer_read' = transfer_read
    BY DEF StoreSector, Stored
<1>2. ~transfer_read
    BY DEF DeviceInv, TransferBounded
<1>3. TransferJob' = Abstract!NextSector
    <2>1. CASE sectors_left = 1
        <3>1. transfer_write' = FALSE
            BY <2>1 DEF StoreSector
        <3>2. QED
            BY <1>1, <1>2, <2>1, <3>1, JobValueNext, GivenWords
            DEF Abstract!NextSector
    <2>2. CASE sectors_left # 1
        <3>1. /\ transfer_lba' = transfer_lba + 1 /\ transfer_offset' = 0
              /\ transfer_write' = transfer_write
            BY <2>2 DEF StoreSector
        <3>2. [k \in 1..transfer_offset' |-> sector'[k]] = [k \in 1..0 |-> 0]
            BY <3>1
        <3>3. TransferJob' = Abstract!SectorStart("write", transfer_lba + 1,
                                                  sectors_left - 1)
            BY <1>1, <3>1, <3>2, JobValueNext DEF Abstract!SectorStart
        <3>4. QED
            BY <2>2, <3>3, GivenWords DEF Abstract!NextSector
    <2>3. QED
        BY <2>1, <2>2
<1>4. Abstract!PutLast(w)
    BY <1>1, <1>3, GivenWords, GivenSector DEF Abstract!PutLast
<1>5. QED
    BY <1>4 DEF AbstractStep, Abstract!Next

LEMMA StoreFailsStep ==
    ASSUME DeviceInv, Transferring, transfer_write, NEW w \in Word, NEW r,
           transfer_offset + 1 = SectorWords, StoreFails(w, r), image' = image
    PROVE  AbstractStep
<1>1. PICK k \in 0..(SectorWords - 1) :
         /\ Stored(Torn(w, k))
         /\ unsynced' = IF k = 0 THEN unsynced
                        ELSE unsynced \cup {<<image, transfer_lba>>}
    BY Constants DEF StoreFails
<1>2. TransferJob' = Abstract!NoJob
    BY JobValueNext DEF StoreFails, ata_set_error, Idle
<1>3. medium' = [medium EXCEPT ![image][TransferJob.lba] =
                    [j \in 1..SectorWords |->
                        IF j <= k THEN Abstract!Given(w)[j] ELSE @[j]]]
    BY <1>1, GivenWords, GivenSector DEF Stored, Torn
<1>4. Abstract!PutFails(w, k)
    BY <1>1, <1>2, <1>3, GivenWords DEF Abstract!PutFails
<1>5. QED
    BY <1>4 DEF AbstractStep, Abstract!Next

LEMMA WriteDataStep ==
    ASSUME DeviceInv, NEW w \in Word, ata_write_data(w)
    PROVE  AbstractStep
<1>1. Transferring /\ transfer_write /\ UNCHANGED <<command, image, image_mode>>
    BY DEF ata_write_data
<1>2. CASE /\ transfer_offset + 1 < SectorWords
           /\ sector' = Filled(w) /\ transfer_offset' = transfer_offset + 1
           /\ UNCHANGED <<status, error, transfer_read, transfer_write,
                  transfer_lba, sectors_left, medium, unsynced, dirty>>
    BY <1>1, <1>2, PutStep
<1>3. ASSUME transfer_offset + 1 = SectorWords,
             NEW r \in StoreOutcome(transfer_lba),
             IF r = "ok" THEN StoreSector(w) ELSE StoreFails(w, r)
      PROVE  AbstractStep
    BY <1>1, <1>3, StoreSectorStep, StoreFailsStep
<1>4. QED
    BY <1>2, <1>3 DEF ata_write_data

LEMMA InitRefines == SunriseInit => Abstract!Init
<1> SUFFICES ASSUME SunriseInit PROVE Abstract!Init
    OBVIOUS
<1>1. TransferJob = Abstract!NoJob
    BY JobValue DEF SunriseInit, Init
<1>2. MediumOK
    BY BlankSector DEF SunriseInit, Init, MediumOK
<1>3. QED
    BY <1>1, <1>2 DEF SunriseInit, Init, Abstract!Init, MediumOK, Sector

\* Every step of the cartridge is a step of the disk or none.
LEMMA NextRefines == IInv /\ [Next]_vars => AbstractStep
<1> SUFFICES ASSUME IInv, [Next]_vars PROVE AbstractStep
    OBVIOUS
<1>1. CASE UNCHANGED vars
    BY <1>1, JobUnchanged, StutterStep DEF vars, avars
<1>2. CASE Next
    <2>0. DeviceInv /\ Remembered
        BY <1>2 DEF Next, IInv, NothingForgotten, Remembered
    <2>1. CASE InstallRom \/ sunrise_reset \/ EnterSoftReset
        BY <2>1, ResetStep DEF InstallRom, sunrise_reset, EnterSoftReset
    <2>2. CASE LeaveSoftReset \/ SelectDevice
        BY <2>2, JobUnchanged, StutterStep DEF LeaveSoftReset, SelectDevice, avars
    <2>3. ASSUME NEW i \in Image \cup {NoImage}, NEW mode \in {"ro", "rw"},
                 Attached(i, mode)
          PROVE  AbstractStep
        <3>1. unsynced' = {}
            BY <2>0, <2>3, AttachedInv
        <3>2. QED
            BY <2>3, <3>1, ChangeStep DEF Attached, Cleared, Idle
    <2>4. CASE EjectRom \/ EjectDisk
        BY <2>0, <2>3, <2>4, UnmountStep DEF EjectRom, EjectDisk
    <2>5. CASE MountDisk
        BY <2>0, <2>3, <2>5, UnmountStep DEF MountDisk, ata_mount_mode
    <2>6. CASE FlushDisk
        BY <2>6, FlushStep DEF FlushDisk
    <2>7. CASE Destroy
        BY <2>7, DestroyStep DEF Destroy
    <2>8. CASE WriteRegister
        BY <2>0, <2>8, RegisterStep DEF WriteRegister
    <2>9. CASE ReadData
        BY <2>0, <2>9, ReadDataStep DEF ReadData
    <2>10. CASE WriteData
        BY <2>0, <2>10, WriteDataStep DEF WriteData
    <2>11. QED
        BY <1>2, <2>1, <2>2, <2>4, <2>5, <2>6, <2>7, <2>8, <2>9, <2>10
        DEF Next, User, Guest
<1>3. QED
    BY <1>1, <1>2

\* The device with its registers, buffers and resets implements the disk.
THEOREM Refinement == Spec => ImplementsDisk
<1>1. SunriseInit => Abstract!Init
    BY InitRefines
<1>2. IInv /\ [Next]_vars => [Abstract!Next]_Abstract!dvars
    BY NextRefines DEF AbstractStep
<1>3. QED
    BY <1>1, <1>2, Invariant, PTL DEF Spec, ImplementsDisk, Abstract!Spec
=============================================================================
