-------------------------------- MODULE Ata --------------------------------
(***************************************************************************)
(* src/ata.c: one ATA device over a raw image.  The status register is     *)
(* named by the four values the code gives it; the sector buffer holds     *)
(* SectorWords words (256 in the code); an 8-bit sector count of 0 asks    *)
(* for CountMod sectors (256).  A host call that can fail is a choice.     *)
(* LEDs, error texts and the identify block's fields are left out.         *)
(*                                                                         *)
(* "medium" is what a reader of the image finds through stdio, "unsynced"  *)
(* the sectors of it no fflush and fsync covered yet: the two are the host *)
(* files, not variables of the program.                                    *)
(***************************************************************************)
EXTENDS Images, Naturals

CONSTANTS
    MaxLba,
    IdentifyWord        \* any word of the identify block

ASSUME ImageAssumption == NoImage \notin Image /\ Size \in [Image -> Nat \ {0}]
                          /\ Writable \subseteq Image
ASSUME WordAssumption == Zero \in Word
ASSUME BoundAssumption ==
    /\ SectorWords \in Nat \ {0} /\ CountMod \in Nat \ {0, 1}
    /\ MaxLba \in Nat \ {0} /\ \A i \in Image : Size[i] <= MaxLba

VARIABLES
    image, image_mode, dirty,
    status,             \* "none", "ready", "drq" or "err"
    error, command,
    sector_count, lba,  \* the task file
    transfer_read, transfer_write, transfer_offset, transfer_lba,
    sectors_left, sector,
    medium, unsynced

avars == <<image, image_mode, dirty, status, error, command, sector_count,
           lba, transfer_read, transfer_write, transfer_offset, transfer_lba,
           sectors_left, sector, medium, unsynced>>

Sector == [1..SectorWords -> Word]
Buffer == [1..SectorWords -> Word \cup {IdentifyWord}]
Blank == [k \in 1..SectorWords |-> Zero]
Errors == {"none", "signature", "ABRT", "IDNF", "UNC"}

ImageVars == <<image, image_mode, dirty, medium, unsynced>>
TaskFile == <<sector_count, lba>>

ata_signature == error' = "signature" /\ sector_count' = 1 /\ lba' = 1

Idle == /\ transfer_read' = FALSE /\ transfer_write' = FALSE
        /\ transfer_offset' = 0 /\ sectors_left' = 0

ata_set_error(e) == error' = e /\ status' = "err" /\ Idle

\* The memset of ata_reset, and what it saves: the image and its dirt.
Cleared == /\ Idle /\ ata_signature
           /\ transfer_lba' = 0 /\ command' = "none" /\ sector' = Blank

Init ==
    /\ image = NoImage /\ image_mode = "ro" /\ dirty = FALSE
    /\ status = "none" /\ error = "signature" /\ command = "none"
    /\ sector_count = 1 /\ lba = 1
    /\ transfer_read = FALSE /\ transfer_write = FALSE /\ transfer_offset = 0
    /\ transfer_lba = 0 /\ sectors_left = 0 /\ sector = Blank
    /\ medium = [i \in Image |-> [l \in 0..(Size[i] - 1) |-> Blank]]
    /\ unsynced = {}

ata_reset ==
    /\ Cleared
    /\ status' = IF image = NoImage THEN "none" ELSE "ready"
    /\ UNCHANGED ImageVars

---------------------------------------------------------------------------
(* The image.                                                              *)

CanFail == {"ok", "failed"}

\* What a flush may answer: it succeeds at once when nothing is dirty.
FlushOutcome == IF image = NoImage \/ ~dirty THEN {"ok"} ELSE CanFail
\* fflush and fsync run only for a dirty image.
FlushedSectors(r) == IF dirty /\ r = "ok" THEN {} ELSE unsynced

ata_flush ==
    \E r \in FlushOutcome :
        /\ dirty' = (dirty /\ r # "ok")
        /\ unsynced' = FlushedSectors(r)
        /\ UNCHANGED <<image, image_mode, status, error, command,
                       sector_count, lba, transfer_read, transfer_write,
                       transfer_offset, transfer_lba, sectors_left, sector,
                       medium>>

\* The device after an image was attached or let go of.
Attached(i, mode) ==
    /\ image' = i /\ image_mode' = mode /\ dirty' = FALSE /\ Cleared
    /\ status' = IF i = NoImage THEN "none" ELSE "ready"
    /\ unsynced' = FlushedSectors("ok")
    /\ UNCHANGED medium

\* The flush is refused: the image stays.  fclose fails: it is gone too.
ata_unmount == Attached(NoImage, "ro") \/ (dirty /\ UNCHANGED avars)

\* The image is opened and measured before the old one is touched, so a
\* mount that fails there changes nothing; the old image is refused its
\* flush (nothing changes), fails to close (it is gone and the new one is
\* not taken), or makes room.
ata_mount_mode(i, mode) ==
    \/ (mode = "rw" => i \in Writable) /\ Attached(i, mode)
    \/ image # NoImage /\ ata_unmount

\* Whatever the flush answers, the file is closed.
ata_destroy ==
    /\ image' = NoImage /\ image_mode' = "ro" /\ dirty' = FALSE
    /\ status' = "none" /\ Idle
    /\ transfer_lba' = 0 /\ command' = "none" /\ sector' = Blank
    /\ ata_signature
    /\ \E r \in FlushOutcome : unsynced' = FlushedSectors(r)
    /\ UNCHANGED medium

---------------------------------------------------------------------------
(* The commands: ata_execute.                                              *)

Requested == IF sector_count = 0 THEN CountMod ELSE sector_count

LoadOutcome(l) == IF l >= Size[image] THEN {"IDNF"} ELSE {"ok", "UNC"}
StoreOutcome(l) == IF image_mode # "rw" THEN {"ABRT"}
                   ELSE IF l >= Size[image] THEN {"IDNF"} ELSE {"ok", "UNC"}

Accept(kind) ==
    /\ command' = kind /\ error' = "none" /\ status' = "ready" /\ Idle
    /\ UNCHANGED <<transfer_lba, sector>>
Reject(kind, e) ==
    /\ command' = kind /\ ata_set_error(e) /\ UNCHANGED <<transfer_lba, sector>>

\* A transfer begins with the first sector in the buffer.
Begin(kind, content) ==
    /\ command' = kind /\ error' = "none" /\ status' = "drq"
    /\ transfer_read' = (kind = "read") /\ transfer_write' = (kind = "write")
    /\ transfer_offset' = 0 /\ sectors_left' = Requested
    /\ transfer_lba' = lba /\ sector' = content
\* transfer_lba is latched before the bounds are known.
BeginFails(kind, e) ==
    /\ command' = kind /\ ata_set_error(e)
    /\ transfer_lba' = lba /\ UNCHANGED sector

\* Mutated: off by one.
BeyondEndByOne == lba + Requested > Size[image] + 1
BeyondEnd == lba + Requested > Size[image]

CommandRead ==
    /\ UNCHANGED TaskFile /\ UNCHANGED ImageVars
    /\ IF BeyondEnd THEN BeginFails("read", "IDNF")
       ELSE \E r \in LoadOutcome(lba) :
                IF r = "ok" THEN Begin("read", medium[image][lba])
                ELSE BeginFails("read", r)

CommandWrite ==
    /\ UNCHANGED TaskFile /\ UNCHANGED ImageVars
    /\ IF image_mode # "rw" THEN BeginFails("write", "ABRT")
       ELSE IF BeyondEnd THEN BeginFails("write", "IDNF")
       ELSE Begin("write", Blank)

CommandFlush ==
    /\ UNCHANGED TaskFile /\ UNCHANGED <<image, image_mode, medium>>
    /\ \E r \in FlushOutcome :
          /\ dirty' = (dirty /\ r # "ok") /\ unsynced' = FlushedSectors(r)
          /\ IF r = "ok" THEN Accept("flush") ELSE Reject("flush", "UNC")

CommandIdentify ==
    /\ command' = "identify" /\ error' = "none" /\ status' = "drq"
    /\ transfer_read' = TRUE /\ transfer_write' = FALSE
    /\ transfer_offset' = 0 /\ sectors_left' = 0
    /\ sector' = [k \in 1..SectorWords |-> IdentifyWord]
    /\ UNCHANGED transfer_lba /\ UNCHANGED TaskFile /\ UNCHANGED ImageVars

CommandDiagnose ==
    /\ command' = "other" /\ ata_signature /\ status' = "ready" /\ Idle
    /\ UNCHANGED <<transfer_lba, sector>> /\ UNCHANGED ImageVars

\* 0xf8 puts the number of sectors into the LBA registers.
CommandNativeMax ==
    /\ Accept("other") /\ lba' = Size[image]
    /\ UNCHANGED sector_count /\ UNCHANGED ImageVars

\* Recalibrate and set-parameters are accepted, unknown commands are not;
\* set-features depends on the features register alone.
CommandOther ==
    /\ Accept("other") \/ Reject("other", "ABRT")
    /\ UNCHANGED TaskFile /\ UNCHANGED ImageVars

ata_execute ==
    \/ CommandRead \/ CommandWrite \/ CommandFlush \/ CommandIdentify
    \/ CommandDiagnose \/ CommandNativeMax \/ CommandOther

SetTaskFile ==
    /\ \/ sector_count' \in 0..(CountMod - 1) /\ UNCHANGED lba
       \/ lba' \in 0..MaxLba /\ UNCHANGED sector_count
    /\ UNCHANGED <<status, error, command, transfer_read, transfer_write,
                   transfer_offset, transfer_lba, sectors_left, sector>>
    /\ UNCHANGED ImageVars

ata_write_register == image # NoImage /\ (SetTaskFile \/ ata_execute)

---------------------------------------------------------------------------
(* The data register.                                                      *)

Transferring == image # NoImage /\ status = "drq" /\ transfer_offset < SectorWords

\* Mutated: the load comes before the increment of transfer_lba.
LoadSame(r) ==
    IF r = "ok"
    THEN /\ sector' = medium[image][transfer_lba] /\ transfer_offset' = 0
         /\ sectors_left' = sectors_left - 1
         /\ UNCHANGED <<status, error, transfer_read, transfer_write>>
    ELSE ata_set_error(r) /\ UNCHANGED sector

\* The next sector of a read: the status is left as it was.
LoadNext(r) ==
    IF r = "ok"
    THEN /\ sector' = medium[image][transfer_lba + 1] /\ transfer_offset' = 0
         /\ sectors_left' = sectors_left - 1
         /\ UNCHANGED <<status, error, transfer_read, transfer_write>>
    ELSE ata_set_error(r) /\ UNCHANGED sector

ReadDone == command = "identify" \/ sectors_left = 1

ata_read_data ==
    /\ Transferring /\ transfer_read
    /\ UNCHANGED command /\ UNCHANGED TaskFile /\ UNCHANGED ImageVars
    /\ \/ /\ transfer_offset + 1 < SectorWords
          /\ transfer_offset' = transfer_offset + 1
          /\ UNCHANGED <<status, error, transfer_read, transfer_write,
                         transfer_lba, sectors_left, sector>>
       \/ /\ transfer_offset + 1 = SectorWords /\ ReadDone
          /\ transfer_offset' = SectorWords
          /\ sectors_left' = 0
          /\ transfer_read' = FALSE /\ status' = "ready"
          /\ UNCHANGED <<error, transfer_write, transfer_lba, sector>>
       \/ /\ transfer_offset + 1 = SectorWords /\ ~ReadDone
          /\ transfer_lba' = transfer_lba + 1
          /\ \E r \in LoadOutcome(transfer_lba + 1) : LoadNext(r)

Filled(w) == [sector EXCEPT ![transfer_offset + 1] = w]
Stored(content) ==
    medium' = [medium EXCEPT ![image][transfer_lba] = content]
\* fwrite took only the first k words.
Torn(w, k) == [j \in 1..SectorWords |->
    IF j <= k THEN Filled(w)[j] ELSE medium[image][transfer_lba][j]]

\* Mutated: transfer_lba is not advanced.
StoreSectorInPlace(w) ==
    /\ Stored(Filled(w)) /\ dirty' = TRUE
    /\ unsynced' = unsynced \cup {<<image, transfer_lba>>}
    /\ sectors_left' = sectors_left - 1
    /\ IF sectors_left = 1
       THEN /\ transfer_write' = FALSE /\ status' = "ready"
            /\ transfer_offset' = SectorWords /\ sector' = Filled(w)
       ELSE /\ transfer_offset' = 0 /\ sector' = Blank
            /\ UNCHANGED <<transfer_write, status>>
    /\ UNCHANGED <<error, transfer_read, transfer_lba>>

\* ata_store_sector and the rest of ata_write_data.
StoreSector(w) ==
    /\ Stored(Filled(w)) /\ dirty' = TRUE
    /\ unsynced' = unsynced \cup {<<image, transfer_lba>>}
    /\ sectors_left' = sectors_left - 1
    /\ IF sectors_left = 1
       THEN /\ transfer_write' = FALSE /\ status' = "ready"
            /\ transfer_offset' = SectorWords /\ sector' = Filled(w)
            /\ UNCHANGED transfer_lba
       ELSE /\ transfer_lba' = transfer_lba + 1
            /\ transfer_offset' = 0 /\ sector' = Blank
            /\ UNCHANGED <<transfer_write, status>>
    /\ UNCHANGED <<error, transfer_read>>

\* Mutated: a partial write does not make the image dirty.
StoreFailsClean(w, r) ==
    /\ \E k \in (IF r = "UNC" THEN 0..(SectorWords - 1) ELSE {0}) :
          /\ Stored(Torn(w, k)) /\ UNCHANGED dirty
          /\ unsynced' = IF k = 0 THEN unsynced
                         ELSE unsynced \cup {<<image, transfer_lba>>}
    /\ ata_set_error(r) /\ sector' = Filled(w) /\ UNCHANGED transfer_lba

StoreFails(w, r) ==
    /\ \E k \in (IF r = "UNC" THEN 0..(SectorWords - 1) ELSE {0}) :
          /\ Stored(Torn(w, k))
          /\ dirty' = (dirty \/ k > 0)
          /\ unsynced' = IF k = 0 THEN unsynced
                         ELSE unsynced \cup {<<image, transfer_lba>>}
    /\ ata_set_error(r) /\ sector' = Filled(w) /\ UNCHANGED transfer_lba

ata_write_data(w) ==
    /\ Transferring /\ transfer_write
    /\ UNCHANGED <<command, image, image_mode>> /\ UNCHANGED TaskFile
    /\ \/ /\ transfer_offset + 1 < SectorWords
          /\ sector' = Filled(w) /\ transfer_offset' = transfer_offset + 1
          /\ UNCHANGED <<status, error, transfer_read, transfer_write,
                         transfer_lba, sectors_left, medium, unsynced, dirty>>
       \/ /\ transfer_offset + 1 = SectorWords
          /\ \E r \in StoreOutcome(transfer_lba) :
                IF r = "ok" THEN StoreSector(w) ELSE StoreFails(w, r)

---------------------------------------------------------------------------
(* Properties.                                                             *)

Flags == dirty \in BOOLEAN /\ transfer_read \in BOOLEAN /\ transfer_write \in BOOLEAN

MediumOK == /\ DOMAIN medium = Image
            /\ \A i \in Image : medium[i] \in [0..(Size[i] - 1) -> Sector]

\* The device's part of TypeOK.
AtaTypeOK ==
    /\ Flags /\ MediumOK
    /\ image \in Image \cup {NoImage} /\ image_mode \in {"ro", "rw"}
    /\ status \in {"none", "ready", "drq", "err"}
    /\ error \in Errors
    /\ command \in {"none", "read", "write", "flush", "identify", "other"}
    /\ sector_count \in 0..(CountMod - 1) /\ lba \in 0..MaxLba
    /\ transfer_offset \in 0..SectorWords /\ transfer_lba \in 0..MaxLba
    /\ sectors_left \in 0..CountMod
    /\ sector \in Buffer
    /\ unsynced \subseteq Image \X (0..MaxLba)

\* DRQ is up exactly while one transfer is open, a transfer never reaches
\* beyond the image, and a write is open only on a writable image
\* (ata_execute, ata_read_data, ata_write_data).
TransferBounded ==
    /\ status = "drq" <=> (transfer_read \/ transfer_write)
    /\ ~(transfer_read /\ transfer_write)
    /\ status = "drq" => image # NoImage /\ transfer_offset < SectorWords
    /\ status = "drq" /\ command # "identify" =>
          sectors_left > 0 /\ transfer_lba + sectors_left <= Size[image]
    /\ transfer_write => image_mode = "rw" /\ command = "write"
    /\ transfer_read => command \in {"read", "identify"}

\* What the guest reads is the sector as it is on the image now, whatever
\* was written, mounted or reset since the read began (ata_load_sector).
BufferCurrent ==
    transfer_read /\ command = "read" => sector = medium[image][transfer_lba]
=============================================================================
