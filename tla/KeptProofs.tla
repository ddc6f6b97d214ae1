----------------------------- MODULE KeptProofs -----------------------------
(***************************************************************************)
(* Proofs about what is kept in files of its own (MCKept).                 *)
(*                                                                         *)
(* MegaFlashStore, for any images and any number of programs, refusals and *)
(* deaths: a cartridge runs its image, no promotion replaces work, and the *)
(* staged reseed implements Reseed.  The theorems suppose that the         *)
(* configuration can be written and that a start can finish a promotion    *)
(* (NoLostSettings): only then does the code keep image and flash          *)
(* together, see the run of a configuration that cannot be written.  They  *)
(* make one exception, which is in their statements: a restore that stops  *)
(* half way, and a user who goes on from there.                            *)
(*                                                                         *)
(* MegaFlash, for every set of cells and of guest writes: the flash chip   *)
(* holds what the commands written to it make of it, and a locked chip and *)
(* a protected recovery area do not change (CommandsWork).  The inductive  *)
(* invariant says of every stage of the command machine which writes led   *)
(* to it; each stage is then one lemma.  CommandsWork decides from the     *)
(* whole trail what a command does, the machine from its stage and its     *)
(* buffer: the lemmas show that the two agree.                             *)
(*                                                                         *)
(* RtcStore, for any number of machines, moments, guest writes, moves of   *)
(* the host clock and power failures: the clock shows the moment it should *)
(* (ShowsTheTime), a CMOS file is whole (FileWhole) and no path is let go  *)
(* before its file holds the registers (NothingDropped).  The calendar is  *)
(* proved first: a day of the century has one date, and adding days, one   *)
(* month after the other, gives the date that many days later.             *)
(***************************************************************************)
EXTENDS MegaFlashStore, MegaFlash, RtcStore, SequenceTheorems,
        WellFoundedInduction, TLAPS

---------------------------------------------------------------------------
(* The flash image and the settings (MegaFlashStore).                      *)

Flash == [seed: Rom, work: Nat]
AnyFlash == Flash \cup {NoFlash}
AnyRom == Rom \cup {NoRom}
AnySettings == [rom: AnyRom, on: BOOLEAN]

\* A connected cartridge has an image.
Named(settings) ==
    settings \in AnySettings /\ (settings.on => settings.rom # NoRom)

\* State files "s" staged over "o": a pending file holds a flash of the image
\* it is named for, and one of the image whose flash is kept was staged over
\* that flash.
GoodFiles(s, o) ==
    /\ s \in [Files -> AnyFlash] /\ o \in [Rom -> AnyFlash]
    /\ \A r \in Rom : s[r] # NoFlash => s[r].seed = r
    /\ \A r \in Rom : s[r] # NoFlash /\ s[Final].seed = r => o[r] = s[Final]

\* The kept flash is of this image, and none of it is pending.
Fits(s, image) ==
    image # NoRom => /\ s[image] = NoFlash
                     /\ s[Final] # NoFlash => s[Final].seed = image

\* The image that the kept flash belongs to: the one of the settings on the
\* disk, but of the old ones while a save may still be taken back, and none
\* when the program ends with a reseed staged.
Base ==
    IF pc \in {"commit", "revert"} THEN saved.rom
    ELSE IF pc = "flush" /\ staged # NoRom THEN NoRom
    ELSE config_file.rom

\* What a start finds is of the configured image, and what it would finish
\* was staged over the kept flash.
DiskFits ==
    config_file.rom # NoRom =>
        IF states[config_file.rom] = NoFlash THEN Fits(states, config_file.rom)
        ELSE over[config_file.rom] = states[Final]

\* The cartridge, and the file that it is flushed to: of the live settings,
\* or of the saved ones after a restore that stopped half way.
CartridgeFits ==
    /\ megaflash \in [loaded: BOOLEAN, flash: AnyFlash, path: Files, dirty: BOOLEAN]
    /\ IF megaflash.loaded
       THEN /\ megaflash.flash \in Flash
            /\ restored = "whole" => /\ config.on
                                     /\ megaflash.flash.seed = config.rom
                                     /\ megaflash.path = StatePath
            /\ restored = "half" => /\ megaflash.flash.seed = Base
                                    /\ megaflash.path = Final
       ELSE ~megaflash.dirty

\* What is staged is of the live settings, and not of those on the disk.
StagedFits ==
    /\ config.rom \in {NoRom, Base, staged}
    /\ staged # NoRom => /\ staged = config.rom /\ staged # Base
                         /\ states[staged] # NoFlash
                         /\ over[staged] = states[Final]

\* The overlay knows that it has something to save.
DirtyTells ==
    /\ pc \in {"open", "defaults", "previous"}
           /\ (config.rom # Base \/ staged # NoRom) => dirty
    /\ pc \in {"config", "commit", "revert"} => dirty

Phases == {"off", "start", "running", "open", "defaults", "save", "previous",
           "config", "commit", "revert", "exit", "flush"}
Saving == pc \in {"config", "commit", "revert", "save", "exit"}

PhaseInv ==
    /\ pc \in Phases /\ staged \in AnyRom
    /\ restored = "half" => pc \in {"open", "defaults", "previous"}
    /\ pc \in {"off", "start"} => megaflash = Unplugged
    /\ pc \in {"off", "start", "save"} => staged = NoRom
    /\ pc # "off" => Fits(states, Base)
    /\ pc \notin {"off", "start"} /\ restored = "whole" => StagedFits
    /\ pc \in {"running", "flush"} => config.rom = config_file.rom
    /\ pc = "running" => staged = NoRom
    /\ pc \in {"open", "config", "previous"} => saved.rom = config_file.rom
    /\ pc \in {"defaults", "save"} => previous.rom = config_file.rom /\ saved = Defaults
    /\ pc = "save" => config = Defaults
    /\ pc \in {"commit", "revert"} => staged # NoRom /\ config_file.rom = staged
    /\ ~Saving => before = NotSaving
    /\ pc \in {"config", "commit", "revert"} \/ (pc = "exit" /\ staged # NoRom) =>
           before = <<Base, Stored(Base)>>

IInv ==
    /\ Named(config_file) /\ Named(config) /\ Named(saved) /\ Named(previous)
    /\ GoodFiles(states, over) /\ DiskFits /\ CartridgeFits
    /\ restored \in {"whole", "half"} /\ (restored = "whole" => DirtyTells)
    /\ PhaseInv

\* Nothing is promised to who went on from a half restore.
Agree == restored = "astray" \/ IInv

LEMMA Names ==
    ASSUME StoreAssumption
    PROVE  /\ NoRom \notin Rom /\ Final \notin Rom /\ Final # NoRom
           /\ Final \in Files
BY DEF StoreAssumption, Files

LEMMA NoFlashIsNone ==
    ASSUME StoreAssumption
    PROVE  /\ NoFlash \notin Flash /\ NoFlash.seed = NoRom
           /\ \A r \in Rom : Seeded(r) \in Flash /\ Seeded(r).seed = r
BY Names DEF NoFlash, Flash, Seeded

---------------------------------------------------------------------------
(* What the steps write.                                                   *)

\* Dropping pending files leaves good files.
LEMMA Dropped ==
    ASSUME StoreAssumption, NEW s, NEW o, GoodFiles(s, o), NEW D \in SUBSET AnyRom,
           NEW t, t = [f \in Files |-> IF f \in D THEN NoFlash ELSE s[f]]
    PROVE  /\ GoodFiles(t, o)
           /\ \A image \in AnyRom : Fits(s, image) => Fits(t, image)
BY Names, NoFlashIsNone DEF GoodFiles, Fits, AnyFlash, AnyRom, Files

\* The settings and images of a phase.
LEMMA Bases ==
    ASSUME IInv
    PROVE  /\ Base \in AnyRom /\ staged \in AnyRom /\ saved.rom \in AnyRom
           /\ config.rom \in AnyRom /\ config_file.rom \in AnyRom
BY DEF IInv, PhaseInv, Base, Named, AnySettings, AnyRom

\* A flush writes the kept flash of the settings on the disk or the staged one.
LEMMA Flushed ==
    ASSUME StoreAssumption, IInv, pc \notin {"off", "start"}
    PROVE  /\ GoodFiles(AfterFlush, AfterFlushOver)
           /\ Fits(AfterFlush, Base)
           /\ \A r \in Rom : AfterFlush[r] = NoFlash <=> states[r] = NoFlash
           /\ restored = "whole" /\ staged # NoRom =>
                  AfterFlushOver[staged] = AfterFlush[Final]
<1> USE DEF GoodFiles
<1>0. Fits(states, Base) /\ (restored = "whole" => StagedFits)
    BY DEF IInv, PhaseInv
<1>1. CASE ~megaflash.dirty
    BY <1>0, <1>1 DEF IInv, StagedFits, AfterFlush, AfterFlushOver
<1>2. CASE megaflash.dirty /\ ~(restored = "whole" /\ staged # NoRom)
    <2>1. /\ megaflash.path = Final /\ megaflash.flash \in Flash
          /\ megaflash.flash.seed = Base /\ Base \in Rom
        <3>1. megaflash.loaded /\ megaflash.flash \in Flash /\ restored \in {"whole", "half"}
            BY <1>2 DEF IInv, CartridgeFits
        <3>2. megaflash.path = Final /\ megaflash.flash.seed = Base
            BY <1>0, <1>2, <3>1, Names DEF IInv, CartridgeFits, StatePath, StagedFits, Flash
        <3>3. QED
            BY <3>1, <3>2 DEF Flash
    <2>2. /\ AfterFlush = [states EXCEPT ![Final] = megaflash.flash]
          /\ AfterFlushOver = over
        BY <1>2, <2>1 DEF AfterFlush, AfterFlushOver, Written, OverWritten
    <2>3. AfterFlush \in [Files -> AnyFlash] /\ AfterFlush[Final] = megaflash.flash
          /\ \A r \in Rom : AfterFlush[r] = states[r]
        BY <2>1, <2>2, Names DEF IInv, AnyFlash, Files
    <2>4. QED
        BY <1>0, <1>2, <2>1, <2>2, <2>3, Names, NoFlashIsNone DEF IInv, Fits
<1>3. CASE megaflash.dirty /\ restored = "whole" /\ staged # NoRom
    <2>1. /\ staged \in Rom /\ megaflash.path = staged
          /\ megaflash.flash \in Flash /\ megaflash.flash.seed = staged
        BY <1>0, <1>3, Bases DEF IInv, CartridgeFits, StatePath, AnyRom, StagedFits
    <2>2. /\ AfterFlush = [states EXCEPT ![staged] = megaflash.flash]
          /\ AfterFlushOver = [over EXCEPT ![staged] = states[Final]]
        BY <1>3, <2>1, Names DEF AfterFlush, AfterFlushOver, Written, OverWritten
    <2>3. staged # Base /\ states[staged] # NoFlash
        BY <1>0, <1>3 DEF StagedFits
    <2>4. /\ AfterFlush \in [Files -> AnyFlash] /\ AfterFlushOver \in [Rom -> AnyFlash]
          /\ AfterFlush[Final] = states[Final] /\ AfterFlush[staged] = megaflash.flash
          /\ AfterFlushOver[staged] = states[Final]
          /\ \A r \in Rom : r # staged => AfterFlush[r] = states[r] /\ AfterFlushOver[r] = over[r]
        BY <2>1, <2>2, Names DEF IInv, AnyFlash, Files
    <2>5. GoodFiles(AfterFlush, AfterFlushOver)
        BY <2>1, <2>4, Names DEF IInv
    <2>6. QED
        BY <1>0, <2>1, <2>3, <2>4, <2>5, Bases, Names, NoFlashIsNone DEF Fits, AnyRom
<1>4. QED
    BY <1>1, <1>2, <1>3 DEF IInv

\* Staging seeds the pending file of the new image and drops another one.
LEMMA StagingFits ==
    ASSUME StoreAssumption, IInv,
           NEW s, NEW o, GoodFiles(s, o), Fits(s, saved.rom),
           NEW image \in Rom, NEW seeds \in BOOLEAN, Staging(s, o, image, seeds),
           seeds => Reseeds(image),
           Reseeds(image) /\ ~seeds =>
               staged = image /\ s[image] # NoFlash /\ o[image] = s[Final]
    PROVE  /\ GoodFiles(states', over') /\ Fits(states', saved.rom)
           /\ staged' = IF Reseeds(image) THEN image ELSE NoRom
           /\ staged' # NoRom => states'[staged'] # NoFlash
                                 /\ over'[staged'] = states'[Final]
           /\ states'[Final] = s[Final]
<1> DEFINE gone == Forgotten(IF Reseeds(image) THEN image ELSE NoRom)
           seeded == IF seeds THEN [s EXCEPT ![image] = Seeded(image)] ELSE s
<1>1. /\ states' = [f \in Files |-> IF f \in {gone} THEN NoFlash ELSE seeded[f]]
      /\ over' = IF seeds THEN [o EXCEPT ![image] = s[Final]] ELSE o
      /\ staged' = IF Reseeds(image) THEN image ELSE NoRom
    BY DEF Staging
<1>2. gone \in AnyRom /\ (Reseeds(image) => gone # image)
    BY Bases, Names DEF Forgotten, AnyRom
<1>3. GoodFiles(seeded, over')
    <2>1. CASE ~seeds
        BY <1>1, <2>1
    <2>2. CASE seeds
        <3>1. /\ seeded \in [Files -> AnyFlash] /\ seeded[image] = Seeded(image)
              /\ seeded[Final] = s[Final] /\ over' \in [Rom -> AnyFlash]
              /\ over'[image] = s[Final]
              /\ \A r \in Rom : r # image => seeded[r] = s[r] /\ over'[r] = o[r]
            BY <1>1, <2>2, Names, NoFlashIsNone DEF GoodFiles, AnyFlash, Files
        <3>2. QED
            BY <3>1, NoFlashIsNone DEF GoodFiles
    <2>3. QED
        BY <2>1, <2>2
<1>4. Fits(seeded, saved.rom)
    <2>1. saved.rom \in AnyRom
        BY Bases
    <2>2. seeds => image # saved.rom
        BY DEF Reseeds
    <2>3. QED
        BY <2>1, <2>2, Names DEF Fits, GoodFiles, AnyRom, Files
<1>5. GoodFiles(states', over') /\ Fits(states', saved.rom)
    <2>1. saved.rom \in AnyRom
        BY Bases
    <2>2. {gone} \in SUBSET AnyRom
        BY <1>2
    <2> HIDE DEF gone, seeded
    <2>3. QED
        BY <1>1, <1>3, <1>4, <2>1, <2>2, Dropped
<1>6. /\ states'[Final] = seeded[Final]
      /\ Reseeds(image) => states'[image] = seeded[image]
    <2>1. gone # Final /\ image \in Files
        BY <1>2, Names DEF AnyRom, Files
    <2> HIDE DEF gone, seeded
    <2>2. QED
        BY <1>1, <1>2, <2>1, Names
<1>7. /\ seeded[Final] = s[Final] /\ (seeds => seeded[image] = Seeded(image))
    BY Names DEF GoodFiles, Files
<1>8. over'[image] = s[Final] \/ ~Reseeds(image)
    BY <1>1 DEF GoodFiles
<1>9. QED
    <2> HIDE DEF gone, seeded
    <2>1. seeded = s \/ seeds
        BY DEF seeded
    <2>2. QED
        BY <1>1, <1>5, <1>6, <1>7, <1>8, <2>1, NoFlashIsNone

---------------------------------------------------------------------------
(* Start and end.                                                          *)

LEMMA InitInv ==
    ASSUME StoreAssumption, Init
    PROVE  IInv
<1>1. GoodFiles(states, over)
    BY Names DEF Init, GoodFiles, AnyFlash, Files
<1>2. /\ Named(config_file) /\ Named(config) /\ Named(saved) /\ Named(previous)
      /\ config_file.rom = NoRom
    BY DEF Init, Named, AnySettings, AnyRom, Defaults, Settings
<1>3. CartridgeFits
    BY Names DEF Init, CartridgeFits, Unplugged, AnyFlash
<1>4. QED
    BY <1>1, <1>2, <1>3
    DEF Init, IInv, DiskFits, DirtyTells, PhaseInv, Phases, Saving, Base, Fits, AnyRom

\* Without power nothing is staged or connected, and what is left is good
\* files that fit the settings on the disk.
LEMMA PoweredOff ==
    ASSUME StoreAssumption, Off, Named(config_file'), restored' = "whole",
           GoodFiles(states', over'), DiskFits'
    PROVE  IInv'
<1>1. Named(config)' /\ Named(saved)' /\ Named(previous)'
    BY DEF Off, Named, AnySettings, AnyRom, Defaults, Settings
<1>2. CartridgeFits'
    BY Names DEF Off, CartridgeFits, Unplugged, AnyFlash
<1>3. PhaseInv'
    BY DEF Off, NoSave, NotSaving, PhaseInv, Phases, Saving, AnyRom
<1>4. QED
    BY <1>1, <1>2, <1>3 DEF Off, IInv, DirtyTells

LEMMA RecoverInv ==
    ASSUME StoreAssumption, NoLostSettings, IInv, Recover
    PROVE  IInv'
<1> DEFINE image == config_file.rom
<1>1. /\ pc = "off" /\ pc' = "start" /\ config_file' = config_file
      /\ UNCHANGED <<overlay, megaflash, before, restored>>
      /\ megaflash = Unplugged /\ staged = NoRom /\ restored = "whole" /\ before = NotSaving
    BY DEF Recover, IInv, PhaseInv, Saving
<1>2. GoodFiles(states', over') /\ Fits(states', config_file.rom)
    <2>1. CASE Expected /\ Promoted(image)
        <3>1. image \in Rom /\ states[image] # NoFlash /\ states[image].seed = image
            BY <2>1 DEF Expected, IInv, Named, AnySettings, AnyRom, GoodFiles
        <3>2. /\ states' \in [Files -> AnyFlash] /\ over' = over
              /\ states'[Final] = states[image] /\ states'[image] = NoFlash
              /\ \A r \in Rom : r # image => states'[r] = states[r]
            BY <2>1, <3>1, Names DEF Promoted, IInv, GoodFiles, Files, AnyFlash
        <3>3. QED
            BY <3>1, <3>2 DEF IInv, GoodFiles, Fits
    <2>2. CASE ~Expected /\ UNCHANGED files
        BY <2>2 DEF Expected, files, IInv, DiskFits, Fits
    <2>3. ~Refused("recover")
        BY DEF Refused, NoLostSettings
    <2>4. QED
        BY <2>1, <2>2, <2>3 DEF Recover
<1>3. DiskFits'
    BY <1>1, <1>2 DEF DiskFits, Fits
<1>4. CartridgeFits'
    BY <1>1, Names DEF CartridgeFits, Unplugged, AnyFlash
<1>5. PhaseInv'
    BY <1>1, <1>2 DEF overlay, PhaseInv, Phases, Saving, Base, AnyRom
<1>6. QED
    BY <1>1, <1>2, <1>3, <1>4, <1>5 DEF overlay, IInv, Named, DirtyTells

\* What is loaded is a flash of the image.
LEMMA Loaded ==
    ASSUME StoreAssumption, NEW s, NEW o, GoodFiles(s, o), NEW image \in Rom,
           Fits(s, image),
           NEW found, found = IF s[Final] = NoFlash THEN Seeded(image) ELSE s[Final]
    PROVE  found \in Flash /\ found.seed = image
BY Names, NoFlashIsNone DEF GoodFiles, Fits, AnyFlash

LEMMA LoadedPending ==
    ASSUME StoreAssumption, NEW s, NEW o, GoodFiles(s, o), NEW image \in Rom,
           NEW found, found = IF s[image] = NoFlash THEN Seeded(image) ELSE s[image]
    PROVE  found \in Flash /\ found.seed = image
BY Names, NoFlashIsNone DEF GoodFiles, Files, AnyFlash

LEMMA PluggedFits ==
    ASSUME StoreAssumption, NEW kept \in Flash, NEW state \in Files,
           megaflash' = Plugged(kept, state), config'.on, kept.seed = config'.rom,
           state = StatePath', restored' = "whole"
    PROVE  CartridgeFits'
BY DEF Plugged, CartridgeFits, AnyFlash

LEMMA UnpluggedFits ==
    ASSUME StoreAssumption, megaflash' = Unplugged
    PROVE  CartridgeFits'
BY Names DEF Unplugged, CartridgeFits, AnyFlash

LEMMA LaunchInv ==
    ASSUME StoreAssumption, IInv, Launch
    PROVE  IInv'
<1>1. /\ pc = "start" /\ pc' = "running"
      /\ UNCHANGED <<files, config_file, saved, previous, staged, before, restored>>
      /\ staged = NoRom /\ megaflash = Unplugged /\ Fits(states, config_file.rom)
      /\ restored = "whole" /\ before = NotSaving
    BY DEF Launch, IInv, PhaseInv, Saving, Base
<1>2. Named(config') /\ config'.rom = config_file.rom
    BY DEF Launch, IInv, Named, AnySettings
<1>3. CartridgeFits'
    <2>1. CASE megaflash' = megaflash
        BY <1>1, <2>1, UnpluggedFits
    <2>2. CASE /\ config_file.on /\ config' = config_file
               /\ megaflash' = Plugged(LoadedFrom(config_file.rom, Final), Final)
        <3>1. config_file.rom \in Rom /\ config'.on
            BY <2>2 DEF IInv, Named, AnySettings, AnyRom
        <3>2. /\ LoadedFrom(config_file.rom, Final) \in Flash
              /\ LoadedFrom(config_file.rom, Final).seed = config_file.rom
            BY <1>1, <3>1, Loaded DEF LoadedFrom, IInv
        <3>3. StatePath' = Final
            BY <1>1 DEF StatePath
        <3>4. QED
            BY <1>1, <1>2, <2>2, <3>1, <3>2, <3>3, Names, PluggedFits
    <2>3. QED
        BY <2>1, <2>2 DEF Launch
<1>4. PhaseInv'
    BY <1>1, <1>2 DEF files, PhaseInv, Phases, Saving, Base, StagedFits, AnyRom
<1>5. QED
    BY <1>1, <1>2, <1>3, <1>4 DEF files, IInv, Named, DiskFits, DirtyTells

\* The files after a flush, as the steps write them.
LEMMA FlushIs ==
    ASSUME Flush
    PROVE  states' = AfterFlush /\ over' = AfterFlushOver
BY DEF Flush, Write, AfterFlush, AfterFlushOver, files

\* A flush keeps what a start finds, when the program ends too.
LEMMA FlushedDisk ==
    ASSUME StoreAssumption, IInv, pc \notin {"off", "start", "commit", "revert"},
           pc = "flush" => restored = "whole",
           config_file' = config_file, states' = AfterFlush, over' = AfterFlushOver
    PROVE  GoodFiles(states', over') /\ DiskFits'
<1>1. CASE Base = config_file.rom
    BY <1>1, Flushed DEF DiskFits, Fits
<1>2. CASE Base # config_file.rom
    <2>1. pc = "flush" /\ staged # NoRom
        BY <1>2 DEF Base
    <2>2. staged = config_file.rom /\ states[staged] # NoFlash
        BY <2>1 DEF IInv, PhaseInv, StagedFits
    <2>3. QED
        BY <2>1, <2>2, Flushed, Bases DEF DiskFits, AnyRom
<1>3. QED
    BY <1>1, <1>2

LEMMA QuitInv ==
    ASSUME StoreAssumption, IInv, restored = "whole", Quit
    PROVE  IInv'
<1>1. /\ pc \in {"running", "open"} /\ pc' = "exit" /\ restored' = "whole"
      /\ before' = <<config_file.rom, Stored(config_file.rom)>>
      /\ UNCHANGED <<states, over, config_file, config, saved, previous, staged, megaflash>>
    BY DEF Quit, GoesOn, Durable, files, overlay
<1>2. CartridgeFits' /\ DiskFits'
    BY <1>1 DEF IInv, CartridgeFits, StatePath, DiskFits
<1>3. Stored(config_file.rom)' = Stored(config_file.rom)
    BY <1>1 DEF Stored, LoadedFrom
<1>4. Base = config_file.rom /\ Base' = config_file.rom
    BY <1>1 DEF Base
<1>5. StagedFits /\ Fits(states, Base) /\ staged \in AnyRom
    BY <1>1 DEF IInv, PhaseInv
<1>6. PhaseInv'
    BY <1>1, <1>3, <1>4, <1>5 DEF PhaseInv, Phases, Saving, StagedFits, Stored, LoadedFrom
<1>7. QED
    BY <1>1, <1>2, <1>6 DEF IInv, DirtyTells

LEMMA ExitSaveInv ==
    ASSUME StoreAssumption, NoLostSettings, IInv, ExitSave
    PROVE  IInv'
<1>1. /\ pc = "exit" /\ pc' = "flush" /\ before' = NotSaving /\ config_file' = config
      /\ UNCHANGED <<states, over, config, saved, previous, staged, dirty, megaflash, restored>>
    BY DEF ExitSave, NoSave, Refused, NoLostSettings, files, overlay
<1>2. /\ restored = "whole" /\ StagedFits /\ Base = config_file.rom
      /\ Fits(states, config_file.rom) /\ staged \in AnyRom
    BY <1>1 DEF IInv, PhaseInv, Base
<1>3. CartridgeFits'
    BY <1>1, <1>2 DEF IInv, CartridgeFits, StatePath
<1>4. CASE staged = NoRom
    <2>1. Base' = config.rom /\ config.rom \in {NoRom, config_file.rom}
        BY <1>1, <1>2, <1>4 DEF Base, StagedFits
    <2>2. Fits(states', config.rom)
        BY <1>1, <1>2, <2>1 DEF Fits
    <2>3. DiskFits' /\ StagedFits'
        BY <1>1, <1>4, <2>1, <2>2 DEF DiskFits, StagedFits, Fits
    <2>4. QED
        BY <1>1, <1>2, <1>3, <1>4, <2>1, <2>2, <2>3
        DEF IInv, PhaseInv, Phases, Saving, DirtyTells
<1>5. CASE staged # NoRom
    <2>1. /\ Base' = NoRom /\ config.rom = staged /\ states[staged] # NoFlash
          /\ over[staged] = states[Final]
        BY <1>1, <1>2, <1>5 DEF Base, StagedFits
    <2>2. DiskFits' /\ StagedFits' /\ Fits(states', Base')
        BY <1>1, <1>5, <2>1 DEF DiskFits, StagedFits, Fits
    <2>3. QED
        BY <1>1, <1>2, <1>3, <1>5, <2>1, <2>2
        DEF IInv, PhaseInv, Phases, Saving, DirtyTells
<1>6. QED
    BY <1>4, <1>5

LEMMA ShutdownInv ==
    ASSUME StoreAssumption, IInv, Shutdown
    PROVE  IInv'
<1>1. /\ Off /\ config_file' = config_file /\ pc = "flush"
      /\ restored = "whole" /\ restored' = "whole"
    BY DEF Shutdown, IInv, PhaseInv
<1>2. Named(config_file')
    BY <1>1 DEF IInv
<1>3. CASE Flush
    BY <1>1, <1>2, <1>3, FlushIs, FlushedDisk, PoweredOff
<1>4. CASE FlushRefused
    BY <1>1, <1>2, <1>4, PoweredOff DEF FlushRefused, files, IInv, DiskFits
<1>5. QED
    BY <1>3, <1>4 DEF Shutdown

LEMMA DiesInv ==
    ASSUME StoreAssumption, IInv, Dies
    PROVE  IInv'
<1>1. Off /\ UNCHANGED <<states, over, config_file>> /\ restored' = "whole"
    BY DEF Dies, files, IInv
<1>2. QED
    BY <1>1, PoweredOff DEF IInv, DiskFits

LEMMA ProgramInv ==
    ASSUME StoreAssumption, IInv, Program
    PROVE  IInv'
<1>1. /\ UNCHANGED <<states, over, config_file, config, saved, previous, staged, dirty>>
      /\ UNCHANGED <<pc, before, restored>>
      /\ megaflash.loaded
    BY DEF Program, files, overlay
<1>2. /\ megaflash'.loaded /\ megaflash'.path = megaflash.path
      /\ megaflash'.flash \in Flash /\ megaflash'.flash.seed = megaflash.flash.seed
      /\ megaflash' \in [loaded: BOOLEAN, flash: AnyFlash, path: Files, dirty: BOOLEAN]
    <2> DEFINE kept == [megaflash.flash EXCEPT !.work = @ + 1]
    <2>1. megaflash' = [megaflash EXCEPT !.flash = kept, !.dirty = TRUE]
        BY DEF Program, IInv, CartridgeFits
    <2>2. megaflash.flash \in Flash
        BY <1>1 DEF IInv, CartridgeFits
    <2>3. kept \in Flash /\ kept.seed = megaflash.flash.seed
        BY <2>2 DEF Flash
    <2> HIDE DEF kept
    <2>4. QED
        BY <1>1, <2>1, <2>3 DEF IInv, CartridgeFits, AnyFlash
<1>3. CartridgeFits'
    BY <1>1, <1>2 DEF IInv, CartridgeFits, StatePath, Base
<1>4. PhaseInv'
    BY <1>1 DEF Program, IInv, PhaseInv, Saving, StagedFits, Base, Stored, LoadedFrom
<1>5. QED
    BY <1>1, <1>3, <1>4 DEF IInv, DiskFits, DirtyTells, Base

---------------------------------------------------------------------------
(* The overlay.                                                            *)

Same == UNCHANGED <<states, over, config_file, config, saved, previous, staged, dirty,
                    megaflash, pc, before, restored>>

LEMMA SameInv ==
    ASSUME IInv, Same
    PROVE  IInv'
<1>1. CartridgeFits' /\ DiskFits'
    BY DEF Same, IInv, CartridgeFits, StatePath, DiskFits, Base
<1>2. PhaseInv'
    BY DEF Same, IInv, PhaseInv, Saving, StagedFits, Base, Stored, LoadedFrom
<1>3. QED
    BY <1>1, <1>2 DEF Same, IInv, DirtyTells, Base

\* What a step of the open overlay has to keep.
LEMMA MenuInv ==
    ASSUME IInv, restored = "whole", Menu, Named(config'), staged' \in AnyRom,
           GoodFiles(states', over'), Fits(states', saved.rom),
           CartridgeFits', StagedFits',
           dirty' = TRUE \/ UNCHANGED <<config, staged, dirty>>
    PROVE  IInv'
<1>1. /\ pc = "open" /\ pc' = "open" /\ UNCHANGED <<saved, previous, config_file, before>>
      /\ config_file.rom = saved.rom /\ restored' = "whole" /\ before = NotSaving
    BY DEF Menu, GoesOn, IInv, PhaseInv, Saving
<1>2. DiskFits'
    BY <1>1 DEF DiskFits, Fits
<1>3. PhaseInv'
    BY <1>1 DEF PhaseInv, Phases, Saving, Base
<1>4. DirtyTells'
    BY <1>1 DEF IInv, DirtyTells, Base
<1>5. QED
    BY <1>1, <1>2, <1>3, <1>4 DEF IInv, Named

LEMMA OpenInv ==
    ASSUME StoreAssumption, IInv, Open
    PROVE  IInv'
<1>1. /\ pc = "running" /\ pc' = "open" /\ saved' = config
      /\ UNCHANGED <<config, previous, staged, states, over, config_file, megaflash>>
      /\ UNCHANGED <<before, restored>> /\ before = NotSaving /\ restored = "whole"
      /\ config.rom = config_file.rom /\ staged = NoRom /\ Fits(states, config_file.rom)
    BY DEF Open, files, IInv, PhaseInv, Saving, Base
<1>2. CartridgeFits' /\ DiskFits'
    BY <1>1 DEF IInv, CartridgeFits, StatePath, DiskFits
<1>3. PhaseInv'
    BY <1>1 DEF PhaseInv, Phases, Saving, Base, StagedFits, AnyRom
<1>4. QED
    BY <1>1, <1>2, <1>3 DEF IInv, Named, DirtyTells, Base

\* The settings of the open overlay.
LEMMA OpenFacts ==
    ASSUME IInv, pc = "open"
    PROVE  /\ config_file.rom = saved.rom /\ Base = saved.rom /\ Fits(states, saved.rom)
           /\ restored = "whole" => StagedFits
           /\ staged \in AnyRom /\ saved.rom \in AnyRom /\ config.rom \in AnyRom
BY Bases DEF IInv, PhaseInv, Base

LEMMA NewSettings ==
    ASSUME NEW image \in Rom, NEW on \in BOOLEAN, StoreAssumption
    PROVE  /\ Named(Settings(image, on))
           /\ Settings(image, on).rom = image /\ Settings(image, on).on = on
BY Names DEF Named, AnySettings, AnyRom, Settings

\* A step that leaves the files and what is staged alone.
LEMMA KeepsStaged ==
    ASSUME IInv, restored = "whole", pc = "open", pc' \in {"open", "config"},
           UNCHANGED <<states, over, saved, staged, config_file>>,
           config'.rom = config.rom
    PROVE  /\ GoodFiles(states', over') /\ Fits(states', saved.rom)
           /\ StagedFits' /\ staged' \in AnyRom
BY OpenFacts DEF IInv, StagedFits, Base

\* The files after a flush, with what is staged as it was.
LEMMA FlushedStaged ==
    ASSUME StoreAssumption, IInv, restored = "whole", pc = "open",
           pc' \in {"open", "config"}, UNCHANGED <<saved, staged, config_file>>,
           states' = AfterFlush, over' = AfterFlushOver, config'.rom = config.rom
    PROVE  /\ GoodFiles(states', over') /\ Fits(states', saved.rom)
           /\ StagedFits' /\ staged' \in AnyRom
<1>1. staged # NoRom => staged \in Rom
    BY OpenFacts DEF AnyRom
<1>2. QED
    BY <1>1, OpenFacts, Flushed DEF StagedFits, Base

\* A cartridge whose flash was flushed.
Cleaned == megaflash' = [megaflash EXCEPT !.dirty = FALSE]

LEMMA CleanedFits ==
    ASSUME IInv, Cleaned, config'.rom = config.rom, config'.on = config.on, staged' = staged,
           restored' = restored, Base' = Base
    PROVE  CartridgeFits'
BY DEF Cleaned, IInv, CartridgeFits, StatePath

\* An eject that was refused leaves the cartridge, and the flash as it was or
\* on the disk.
LEMMA EjectRefusedIs ==
    ASSUME EjectRefused
    PROVE  \/ UNCHANGED <<states, over, megaflash>>
           \/ states' = AfterFlush /\ over' = AfterFlushOver /\ Cleaned
BY DEF EjectRefused, Cleaned, files

LEMMA EjectRefusedInv ==
    ASSUME StoreAssumption, IInv, restored = "whole", Menu, EjectRefused,
           UNCHANGED <<config, staged, dirty>>
    PROVE  IInv'
<1>1. /\ pc = "open" /\ pc' = pc /\ restored' = restored
      /\ UNCHANGED <<saved, previous, config_file, before>>
    BY DEF Menu, GoesOn
<1>2. CASE UNCHANGED <<states, over, megaflash>>
    BY <1>1, <1>2, SameInv DEF Same
<1>3. CASE states' = AfterFlush /\ over' = AfterFlushOver /\ Cleaned
    <2>1. Base' = Base
        BY <1>1 DEF Base
    <2>2. CartridgeFits'
        BY <1>1, <1>3, <2>1, CleanedFits
    <2>3. Named(config')
        BY DEF IInv
    <2>4. QED
        BY <1>1, <1>3, <2>2, <2>3, FlushedStaged, MenuInv
<1>4. QED
    BY <1>2, <1>3, EjectRefusedIs

LEMMA EditConnectedInv ==
    ASSUME StoreAssumption, IInv, restored = "whole", NEW image \in Rom, EditConnected(image)
    PROVE  IInv'
<1> DEFINE reseeds == Reseeds(image)
           seeds == reseeds /\ image # config.rom
           flashed == IF reseeds THEN image ELSE Final
           found == IF seeds \/ AfterFlush[flashed] = NoFlash THEN Seeded(image)
                    ELSE AfterFlush[flashed]
<1>1. /\ Menu /\ config.on /\ megaflash.loaded /\ pc = "open"
      /\ UNCHANGED <<saved, previous, config_file, before, pc, restored>>
    BY DEF EditConnected, Menu, GoesOn
<1>2. /\ GoodFiles(AfterFlush, AfterFlushOver) /\ Fits(AfterFlush, saved.rom)
      /\ \A r \in Rom : AfterFlush[r] = NoFlash <=> states[r] = NoFlash
      /\ staged # NoRom => AfterFlushOver[staged] = AfterFlush[Final]
    BY <1>1, OpenFacts, Flushed
<1>3. CASE /\ Staging(AfterFlush, AfterFlushOver, image, seeds)
           /\ megaflash' = Plugged(found, flashed) /\ config' = Settings(image, TRUE)
           /\ dirty' = TRUE
    <2>1. reseeds /\ ~seeds => staged = image /\ states[image] # NoFlash
        BY OpenFacts, <1>1, Names DEF StagedFits, Reseeds
    <2>2. reseeds /\ ~seeds => /\ staged = image /\ AfterFlush[image] # NoFlash
                               /\ AfterFlushOver[image] = AfterFlush[Final]
        BY <1>2, <2>1, Names
    <2>3. /\ GoodFiles(states', over') /\ Fits(states', saved.rom)
          /\ staged' = IF Reseeds(image) THEN image ELSE NoRom
          /\ staged' # NoRom => states'[staged'] # NoFlash
                                /\ over'[staged'] = states'[Final]
        BY <1>1, <1>2, <1>3, <2>2, StagingFits
    <2>4. Named(config') /\ config'.rom = image /\ config'.on
        BY <1>3, NewSettings
    <2>5. StagedFits' /\ staged' \in AnyRom
        BY <1>1, <2>3, <2>4, OpenFacts, Names DEF StagedFits, Base, Reseeds, AnyRom
    <2>6. found \in Flash /\ found.seed = image
        <3>1. CASE seeds
            BY <3>1, NoFlashIsNone
        <3>2. CASE ~seeds /\ reseeds
            BY <1>2, <3>2, LoadedPending
        <3>3. CASE ~reseeds
            BY <1>2, <3>3, Loaded, Names DEF Reseeds
        <3>4. QED
            BY <3>1, <3>2, <3>3
    <2>7. flashed \in Files /\ flashed = StatePath'
        BY <2>3, Names DEF StatePath, Files
    <2> HIDE DEF found, flashed
    <2>8. CartridgeFits'
        BY <1>1, <1>3, <2>4, <2>6, <2>7, PluggedFits
    <2>9. QED
        BY <1>1, <1>3, <2>3, <2>4, <2>5, <2>8, MenuInv
<1>4. CASE /\ UNCHANGED files /\ UNCHANGED <<megaflash, config, staged, dirty>>
    BY <1>1, <1>4, SameInv DEF Same, files
<1>5. CASE /\ states' = AfterFlush /\ over' = AfterFlushOver
           /\ megaflash' = [megaflash EXCEPT !.dirty = FALSE]
           /\ UNCHANGED <<config, staged, dirty>>
    <2>1. CartridgeFits'
        BY <1>1, <1>5, CleanedFits DEF Cleaned, Base
    <2>2. Named(config')
        BY <1>5 DEF IInv
    <2>3. QED
        BY <1>1, <1>5, <2>1, <2>2, FlushedStaged, MenuInv
<1>6. QED
    BY <1>3, <1>4, <1>5 DEF EditConnected, FlushRefused

LEMMA EditDisconnectedInv ==
    ASSUME StoreAssumption, IInv, restored = "whole", NEW image \in Rom, EditDisconnected(image)
    PROVE  IInv'
<1> DEFINE seeds == Reseeds(image) /\ image # config.rom
<1>1. /\ Menu /\ ~config.on /\ pc = "open" /\ config.rom # NoRom
      /\ UNCHANGED <<saved, previous, config_file, before, pc, restored, megaflash>>
    BY DEF EditDisconnected, Menu, GoesOn
<1>2. CASE /\ Staging(states, over, image, seeds) /\ config' = Settings(image, FALSE)
           /\ dirty' = TRUE
    <2>1. Reseeds(image) /\ ~seeds => /\ staged = image /\ states[image] # NoFlash
                                      /\ over[image] = states[Final]
        BY OpenFacts, <1>1, Names DEF StagedFits, Reseeds
    <2>2. /\ GoodFiles(states', over') /\ Fits(states', saved.rom)
          /\ staged' = IF Reseeds(image) THEN image ELSE NoRom
          /\ staged' # NoRom => states'[staged'] # NoFlash
                                /\ over'[staged'] = states'[Final]
        BY <1>1, <1>2, <2>1, OpenFacts, StagingFits DEF IInv
    <2>3. Named(config') /\ config'.rom = image
        BY <1>2, NewSettings
    <2>4. StagedFits' /\ staged' \in AnyRom
        BY <1>1, <2>2, <2>3, OpenFacts, Names DEF StagedFits, Base, Reseeds, AnyRom
    <2>5. CartridgeFits'
        BY <1>1 DEF IInv, CartridgeFits
    <2>6. QED
        BY <1>1, <1>2, <2>2, <2>3, <2>4, <2>5, MenuInv
<1>3. CASE UNCHANGED <<files, config, staged, dirty>>
    BY <1>1, <1>3, SameInv DEF Same, files
<1>4. QED
    BY <1>2, <1>3 DEF EditDisconnected

LEMMA SetupInv ==
    ASSUME StoreAssumption, IInv, restored = "whole", NEW image \in Rom, Setup(image)
    PROVE  IInv'
<1> DEFINE seeds == Reseeds(image)
           flashed == IF seeds THEN image ELSE Final
           found == IF seeds THEN Seeded(image) ELSE LoadedFrom(image, Final)
<1>1. /\ Menu /\ ~config.on /\ pc = "open" /\ config.rom = NoRom /\ staged = NoRom
      /\ UNCHANGED <<saved, previous, config_file, before, pc, restored>>
    BY OpenFacts DEF Setup, Menu, GoesOn, StagedFits
<1>2. CASE /\ Staging(states, over, image, seeds)
           /\ megaflash' = Plugged(found, flashed) /\ config' = Settings(image, TRUE)
           /\ dirty' = TRUE
    <2>1. seeds \in BOOLEAN
        BY DEF Reseeds
    <2>2. /\ GoodFiles(states', over') /\ Fits(states', saved.rom)
          /\ staged' = IF Reseeds(image) THEN image ELSE NoRom
          /\ staged' # NoRom => states'[staged'] # NoFlash
                                /\ over'[staged'] = states'[Final]
        BY <1>1, <1>2, <2>1, OpenFacts, StagingFits DEF IInv
    <2>3. Named(config') /\ config'.rom = image /\ config'.on
        BY <1>2, NewSettings
    <2>4. StagedFits' /\ staged' \in AnyRom
        BY <1>1, <2>2, <2>3, OpenFacts, Names DEF StagedFits, Base, Reseeds, AnyRom
    <2>5. found \in Flash /\ found.seed = image
        <3>1. CASE seeds
            BY <3>1, NoFlashIsNone
        <3>2. CASE ~seeds
            BY <1>1, <3>2, Loaded, OpenFacts, Names DEF Reseeds, LoadedFrom, IInv
        <3>3. QED
            BY <3>1, <3>2
    <2>6. flashed \in Files /\ flashed = StatePath'
        BY <2>2, Names DEF StatePath, Files
    <2> HIDE DEF found, flashed
    <2>7. CartridgeFits'
        BY <1>1, <1>2, <2>3, <2>5, <2>6, PluggedFits
    <2>8. QED
        BY <1>1, <1>2, <2>2, <2>3, <2>4, <2>7, MenuInv
<1>3. CASE UNCHANGED <<files, megaflash, config, staged, dirty>>
    BY <1>1, <1>3, SameInv DEF Same, files
<1>4. CASE /\ states' = [f \in Files |-> IF f \in {staged, IF seeds THEN image ELSE staged}
                                         THEN NoFlash ELSE states[f]]
           /\ staged' = NoRom /\ UNCHANGED <<over, megaflash, config, dirty>>
    <2> DEFINE D == {staged, IF seeds THEN image ELSE staged}
    <2>1. D \in SUBSET AnyRom
        BY <1>1 DEF AnyRom
    <2> HIDE DEF D
    <2>2. GoodFiles(states', over') /\ Fits(states', saved.rom)
        <3>1. states' = [f \in Files |-> IF f \in D THEN NoFlash ELSE states[f]]
            BY <1>4 DEF D
        <3>2. QED
            BY <1>1, <1>4, <2>1, <3>1, Dropped, OpenFacts DEF IInv
    <2>3. CartridgeFits' /\ StagedFits' /\ staged' \in AnyRom
        BY <1>1, <1>4 DEF IInv, CartridgeFits, StagedFits, StatePath, AnyRom
    <2>4. QED
        BY <1>1, <1>4, <2>2, <2>3, MenuInv DEF IInv
<1>5. QED
    BY <1>2, <1>3, <1>4 DEF Setup

LEMMA ConnectInv ==
    ASSUME StoreAssumption, IInv, restored = "whole", Connect
    PROVE  IInv'
<1>1. /\ Menu /\ ~config.on /\ pc = "open" /\ config.rom # NoRom
      /\ UNCHANGED <<states, over, saved, previous, staged, config_file, before, pc, restored>>
    BY DEF Connect, Menu, GoesOn, files
<1>2. CASE /\ megaflash' = Plugged(LoadedFrom(config.rom, StatePath), StatePath)
           /\ config' = [config EXCEPT !.on = TRUE] /\ dirty' = TRUE
    <2>1. Named(config') /\ config'.rom = config.rom /\ config'.on /\ config.rom \in Rom
        BY <1>1, <1>2 DEF IInv, Named, AnySettings, AnyRom
    <2>2. /\ LoadedFrom(config.rom, StatePath) \in Flash
          /\ LoadedFrom(config.rom, StatePath).seed = config.rom
        <3>1. CASE staged = NoRom
            <4>1. config.rom = saved.rom /\ Fits(states, saved.rom) /\ StatePath = Final
                BY <1>1, <3>1, OpenFacts DEF StagedFits, StatePath
            <4>2. QED
                BY <2>1, <4>1, Loaded DEF LoadedFrom, IInv
        <3>2. CASE staged # NoRom
            <4>1. StatePath = config.rom
                BY <1>1, <3>2, OpenFacts DEF StagedFits, StatePath
            <4>2. QED
                BY <2>1, <4>1, LoadedPending DEF LoadedFrom, IInv
        <3>3. QED
            BY <3>1, <3>2
    <2>3. StatePath \in Files /\ StatePath' = StatePath
        BY <1>1, OpenFacts, Names DEF StatePath, AnyRom, Files
    <2>4. CartridgeFits'
        BY <1>1, <1>2, <2>1, <2>2, <2>3, PluggedFits
    <2>5. QED
        BY <1>1, <1>2, <2>1, <2>4, KeepsStaged, MenuInv
<1>3. CASE UNCHANGED <<megaflash, config, dirty>>
    BY <1>1, <1>3, SameInv DEF Same
<1>4. QED
    BY <1>2, <1>3 DEF Connect

LEMMA DisconnectInv ==
    ASSUME StoreAssumption, IInv, restored = "whole", Disconnect
    PROVE  IInv'
<1>1. /\ Menu /\ pc = "open"
      /\ UNCHANGED <<saved, previous, staged, config_file, before, pc, restored>>
    BY DEF Disconnect, Menu, GoesOn
<1>2. CASE /\ Flush /\ megaflash' = Unplugged /\ config' = [config EXCEPT !.on = FALSE]
           /\ dirty' = TRUE
    <2>1. Named(config') /\ config'.rom = config.rom
        BY <1>2 DEF IInv, Named, AnySettings
    <2>2. QED
        BY <1>1, <1>2, <2>1, FlushIs, FlushedStaged, UnpluggedFits, MenuInv
<1>3. CASE EjectRefused /\ UNCHANGED <<config, dirty>>
    BY <1>1, <1>3, EjectRefusedInv
<1>4. QED
    BY <1>2, <1>3 DEF Disconnect

\* After a flush, what was staged is dropped.
LEMMA FlushedDropped ==
    ASSUME StoreAssumption, IInv,
           NEW s, NEW o, GoodFiles(s, o), Fits(s, Base),
           states' = [f \in Files |-> IF f = staged THEN NoFlash ELSE s[f]],
           over' = o
    PROVE  GoodFiles(states', over') /\ Fits(states', Base)
<1>1. states' = [f \in Files |-> IF f \in {staged} THEN NoFlash ELSE s[f]]
    OBVIOUS
<1>2. {staged} \in SUBSET AnyRom /\ Base \in AnyRom
    BY Bases
<1>3. QED
    BY <1>1, <1>2, Dropped

LEMMA ClearInv ==
    ASSUME StoreAssumption, IInv, restored = "whole", Clear
    PROVE  IInv'
<1> DEFINE ejected == IF config.on THEN AfterFlush ELSE states
           ejectedOver == IF config.on THEN AfterFlushOver ELSE over
<1>1. /\ Menu /\ pc = "open"
      /\ UNCHANGED <<saved, previous, config_file, before, pc, restored>>
    BY DEF Clear, Menu, GoesOn
<1>2. CASE /\ states' = [f \in Files |-> IF f = staged THEN NoFlash ELSE ejected[f]]
           /\ over' = ejectedOver
           /\ megaflash' = IF config.on THEN Unplugged ELSE megaflash
           /\ config' = Defaults /\ staged' = NoRom /\ dirty' = TRUE
    <2>1. GoodFiles(ejected, ejectedOver) /\ Fits(ejected, Base)
        BY <1>1, OpenFacts, Flushed DEF IInv
    <2> HIDE DEF ejected, ejectedOver
    <2>2. GoodFiles(states', over') /\ Fits(states', saved.rom)
        BY <1>1, <1>2, <2>1, OpenFacts, FlushedDropped
    <2>3. Named(config') /\ config'.rom = NoRom
        BY <1>2 DEF Named, AnySettings, AnyRom, Defaults, Settings
    <2>4. StagedFits' /\ staged' \in AnyRom
        BY <1>2, <2>3 DEF StagedFits, AnyRom
    <2>5. CartridgeFits'
        <3>1. CASE config.on
            BY <1>2, <3>1, UnpluggedFits
        <3>2. CASE ~config.on
            BY <1>2, <3>2 DEF IInv, CartridgeFits
        <3>3. QED
            BY <3>1, <3>2
    <2>6. QED
        BY <1>1, <1>2, <2>2, <2>3, <2>4, <2>5, MenuInv
<1>3. CASE EjectRefused /\ UNCHANGED <<config, staged, dirty>>
    BY <1>1, <1>3, EjectRefusedInv
<1>4. QED
    BY <1>2, <1>3 DEF Clear

---------------------------------------------------------------------------
(* restore_saved_config.                                                   *)

Restoring == pc \in {"open", "defaults", "previous"}

\* What is restored: the settings on the disk, or the defaults.
LEMMA RestoringFacts ==
    ASSUME IInv, Restoring
    PROVE  /\ Base = config_file.rom /\ Fits(states, Base) /\ before = NotSaving
           /\ restored = "whole" => StagedFits
           /\ pc # "defaults" => saved.rom = Base
           /\ pc = "defaults" => saved = Defaults /\ previous.rom = Base
           /\ ~Defaults.on
BY DEF Restoring, IInv, PhaseInv, Saving, Base, Defaults, Settings

\* Files after the eject of a restore.
LEMMA EjectedFits ==
    ASSUME StoreAssumption, IInv, Restoring
    PROVE  GoodFiles(Ejected, EjectedOver) /\ Fits(Ejected, Base)
BY Flushed, RestoringFacts DEF Restoring, Ejected, EjectedOver, IInv

\* The cartridge that a restore connects: it runs the image of the settings
\* on the disk on the kept state.
LEMMA RepluggedFits ==
    ASSUME StoreAssumption, IInv, Restoring
    PROVE  /\ Replugged \in [loaded: BOOLEAN, flash: AnyFlash, path: Files, dirty: BOOLEAN]
           /\ IF Replugged.loaded
              THEN /\ saved.on /\ saved.rom = Base /\ Replugged.flash \in Flash
                   /\ Replugged.flash.seed = Base /\ Replugged.path = Final
              ELSE ~Replugged.dirty
<1>1. CASE ~Changed
    <2>1. /\ Replugged = megaflash /\ config = saved /\ megaflash.loaded = saved.on
        BY <1>1 DEF Replugged, Changed, IInv, Named, AnySettings, CartridgeFits
    <2>2. saved.on => saved.rom = Base /\ saved.rom # NoRom
        BY RestoringFacts DEF Restoring, IInv, Named
    <2>3. restored = "whole" /\ saved.on => staged = NoRom
        BY <2>1, <2>2, RestoringFacts DEF StagedFits
    <2>4. QED
        BY <2>1, <2>2, <2>3 DEF IInv, CartridgeFits, StatePath
<1>2. CASE Changed /\ ~saved.on
    BY <1>2, Names DEF Replugged, Unplugged, AnyFlash
<1>3. CASE Changed /\ saved.on
    <2> DEFINE found == IF Ejected[Final] = NoFlash THEN Seeded(saved.rom) ELSE Ejected[Final]
    <2>1. saved.rom = Base /\ saved.rom \in Rom
        BY <1>3, RestoringFacts DEF Restoring, IInv, Named, AnySettings, AnyRom
    <2>2. found \in Flash /\ found.seed = Base
        BY <2>1, EjectedFits, Loaded
    <2>3. Replugged = Plugged(found, Final)
        BY <1>3 DEF Replugged
    <2> HIDE DEF found
    <2>4. QED
        BY <1>3, <2>1, <2>2, <2>3, Names DEF Plugged, AnyFlash
<1>4. QED
    BY <1>1, <1>2, <1>3

\* What every restore leaves, refused or not.
LEMMA RestoreKeeps ==
    ASSUME StoreAssumption, IInv, Restoring, Restored \/ NotRestored,
           config_file' = config_file, pc' \in {"open", "running", "previous", "save"}
    PROVE  /\ GoodFiles(states', over') /\ Fits(states', Base) /\ DiskFits'
           /\ Base' = Base /\ Named(config') /\ staged' \in AnyRom
           /\ restored' \in {"whole", "half"}
<1>1. Base = config_file.rom /\ Base' = Base /\ Fits(states, Base)
    BY RestoringFacts DEF Base
<1>2. CASE NotReplugged
    <2>1. \/ UNCHANGED <<states, over>>
          \/ states' = AfterFlush /\ over' = AfterFlushOver
        BY <1>2, EjectRefusedIs DEF NotReplugged
    <2>2. GoodFiles(states', over') /\ Fits(states', Base)
        BY <1>1, <2>1, Flushed DEF IInv, Restoring
    <2>3. UNCHANGED <<config, staged, restored>>
        BY <1>2 DEF NotReplugged
    <2>4. QED
        BY <1>1, <2>2, <2>3, Bases DEF DiskFits, Fits, IInv
<1>3. CASE Discarded /\ config' \in {config, saved} /\ Matches
    <2>1. GoodFiles(states', over') /\ Fits(states', Base)
        BY <1>3, EjectedFits, FlushedDropped DEF Discarded
    <2>2. Named(config') /\ staged' \in AnyRom /\ restored' \in {"whole", "half"}
        BY <1>3 DEF Discarded, Matches, IInv, AnyRom
    <2>3. QED
        BY <1>1, <2>1, <2>2 DEF DiskFits, Fits
<1>4. CASE /\ states' = AfterFlush /\ over' = AfterFlushOver /\ UNCHANGED <<config, staged>>
           /\ Matches
    <2>1. GoodFiles(states', over') /\ Fits(states', Base)
        BY <1>4, Flushed DEF Restoring
    <2>2. Named(config') /\ staged' \in AnyRom /\ restored' \in {"whole", "half"}
        BY <1>4, Bases DEF Matches, IInv
    <2>3. QED
        BY <1>1, <2>1, <2>2 DEF DiskFits, Fits
<1>5. QED
    BY <1>2, <1>3, <1>4 DEF Restored, NotRestored, HalfRestored

\* Settings, cartridge and what is staged match after a restore, or nothing of
\* them has changed, or the cartridge is that of the settings on the disk.
LEMMA RestoreMatches ==
    ASSUME StoreAssumption, IInv, Restoring, Restored \/ NotRestored,
           config_file' = config_file, pc' \in {"open", "running", "previous", "save"},
           saved' = saved \/ (pc = "defaults" /\ saved' = previous /\ NotRestored)
    PROVE  /\ CartridgeFits'
           /\ restored' = "whole" => /\ StagedFits'
                                     /\ \/ config' = saved' /\ staged' = NoRom
                                        \/ UNCHANGED <<config, staged, restored>>
<1>1. Base' = Base /\ staged' \in AnyRom
    BY RestoreKeeps
<1>2. CASE NotReplugged
    <2>1. UNCHANGED <<config, staged, restored>>
        BY <1>2 DEF NotReplugged
    <2>2. CartridgeFits'
        <3>1. CASE UNCHANGED megaflash
            BY <1>1, <2>1, <3>1 DEF IInv, CartridgeFits, StatePath
        <3>2. CASE Cleaned
            BY <1>1, <2>1, <3>2, CleanedFits
        <3>3. CASE megaflash' = Unplugged
            BY <3>3, UnpluggedFits
        <3>4. QED
            BY <1>2, <3>1, <3>2, <3>3, EjectRefusedIs DEF NotReplugged
    <2>3. restored = "whole" => StagedFits'
        <3>1. restored = "whole" => StagedFits
            BY RestoringFacts
        <3>2. CASE UNCHANGED <<states, over>>
            BY <1>1, <2>1, <3>1, <3>2 DEF StagedFits
        <3>3. CASE states' = AfterFlush /\ over' = AfterFlushOver
            BY <1>1, <2>1, <3>1, <3>3, Flushed, Bases DEF StagedFits, AnyRom, Restoring
        <3>4. QED
            BY <1>2, <3>2, <3>3, EjectRefusedIs DEF NotReplugged
    <2>4. QED
        BY <2>1, <2>2, <2>3
<1>3. CASE megaflash' = Replugged /\ Matches
    <2>1. restored \in {"whole", "half"}
        BY DEF IInv
    <2>2. restored' = "whole" => config' = saved' /\ staged' = NoRom
        BY <1>3, <2>1 DEF Matches
    <2>3. restored' = "whole" => StagedFits'
        <3>1. saved'.rom \in {NoRom, Base}
            BY RestoringFacts DEF Restoring, Defaults, Settings
        <3>2. QED
            BY <1>1, <2>2, <3>1 DEF StagedFits
    <2>4. saved' # saved => ~Replugged.loaded
        BY RepluggedFits, RestoringFacts
    <2>5. CartridgeFits'
        BY <1>1, <1>3, <2>2, <2>4, RepluggedFits DEF CartridgeFits, StatePath
    <2>6. QED
        BY <2>2, <2>3, <2>5
<1>4. QED
    BY <1>2, <1>3 DEF Restored, NotRestored, HalfRestored

\* A restore that goes back to the overlay.
LEMMA ReopenedInv ==
    ASSUME StoreAssumption, IInv, Restoring, Restored \/ NotRestored,
           UNCHANGED <<config_file, dirty, before>>, pc' \in {"open", "previous"},
           \/ UNCHANGED <<saved, previous>> /\ pc # "defaults"
           \/ pc = "defaults" /\ saved' = previous /\ previous' = Defaults /\ NotRestored
    PROVE  IInv'
<1>1. /\ GoodFiles(states', over') /\ Fits(states', Base) /\ DiskFits' /\ Base' = Base
      /\ Named(config') /\ staged' \in AnyRom /\ restored' \in {"whole", "half"}
    BY RestoreKeeps
<1>2. /\ CartridgeFits'
      /\ restored' = "whole" => /\ StagedFits'
                                /\ \/ config' = saved' /\ staged' = NoRom
                                   \/ UNCHANGED <<config, staged, restored>>
    BY RestoreMatches
<1>3. /\ saved'.rom = config_file'.rom /\ Base = config_file.rom /\ before' = NotSaving
      /\ Named(saved') /\ Named(previous') /\ Named(config_file')
    BY RestoringFacts DEF Restoring, IInv, Named, AnySettings, AnyRom, Defaults, Settings
<1>4. restored' = "whole" => DirtyTells'
    BY <1>1, <1>2, <1>3 DEF DirtyTells, IInv, Restoring
<1>5. PhaseInv'
    BY <1>1, <1>2, <1>3 DEF PhaseInv, Phases, Saving
<1>6. QED
    BY <1>1, <1>2, <1>3, <1>4, <1>5 DEF IInv

LEMMA CancelInv ==
    ASSUME StoreAssumption, IInv, Cancel
    PROVE  IInv'
<1>1. /\ pc = "open" /\ Restoring
      /\ UNCHANGED <<config_file, saved, previous, before>>
    BY DEF Cancel, Restoring
<1>2. CASE Restored /\ pc' = "running"
    <2>1. /\ GoodFiles(states', over') /\ Fits(states', Base) /\ DiskFits' /\ Base' = Base
          /\ Named(config')
        BY <1>1, <1>2, RestoreKeeps
    <2>2. restored' = "whole" /\ config' = saved /\ staged' = NoRom
        BY <1>1, <1>2 DEF Restored, Discarded, Matches, IInv
    <2>3. CartridgeFits' /\ StagedFits'
        BY <1>1, <1>2, <2>2, RestoreMatches
    <2>4. saved.rom = config_file.rom /\ before = NotSaving
        BY <1>1, RestoringFacts
    <2>5. PhaseInv'
        BY <1>1, <1>2, <2>1, <2>2, <2>3, <2>4 DEF PhaseInv, Phases, Saving, AnyRom
    <2>6. QED
        BY <1>1, <1>2, <2>1, <2>2, <2>3, <2>5 DEF IInv, Named, DirtyTells
<1>3. CASE NotRestored /\ UNCHANGED <<pc, dirty>>
    BY <1>1, <1>3, ReopenedInv
<1>4. QED
    BY <1>2, <1>3 DEF Cancel

LEMMA ResetToDefaultsInv ==
    ASSUME StoreAssumption, IInv, ResetToDefaults
    PROVE  IInv'
<1>1. /\ pc = "open" /\ pc' = "defaults" /\ saved' = Defaults /\ previous' = saved
      /\ UNCHANGED <<states, over, config_file, config, staged, dirty, megaflash>>
      /\ UNCHANGED <<before, restored>>
    BY DEF ResetToDefaults, files
<1>2. Base' = Base
    BY <1>1 DEF Base
<1>3. CartridgeFits' /\ DiskFits'
    BY <1>1, <1>2 DEF IInv, CartridgeFits, StatePath, DiskFits
<1>4. Named(Defaults)
    BY DEF Named, AnySettings, AnyRom, Defaults, Settings
<1>5. PhaseInv'
    BY <1>1, <1>2 DEF IInv, PhaseInv, Phases, Saving, StagedFits
<1>6. QED
    BY <1>1, <1>2, <1>3, <1>4, <1>5 DEF IInv, Named, DirtyTells

LEMMA RestoreDefaultsInv ==
    ASSUME StoreAssumption, IInv, RestoreDefaults
    PROVE  IInv'
<1>1. pc = "defaults" /\ Restoring /\ UNCHANGED <<config_file, dirty>>
    BY DEF RestoreDefaults, Restoring
<1>2. CASE UNCHANGED <<saved, previous>> /\ pc' = "save" /\ Restored
    <2>1. /\ GoodFiles(states', over') /\ Fits(states', Base) /\ DiskFits' /\ Base' = Base
          /\ Named(config')
        BY <1>1, <1>2, RestoreKeeps
    <2>2. restored' = "whole" /\ config' = saved /\ staged' = NoRom
        BY <1>1, <1>2 DEF Restored, Discarded, Matches, IInv
    <2>3. CartridgeFits' /\ StagedFits'
        BY <1>1, <1>2, <2>2, RestoreMatches
    <2>4. saved = Defaults /\ previous.rom = config_file.rom
        BY <1>1, RestoringFacts
    <2>5. PhaseInv'
        BY <1>1, <1>2, <2>1, <2>2, <2>3, <2>4 DEF PhaseInv, Phases, Saving, AnyRom
    <2>6. QED
        BY <1>1, <1>2, <2>1, <2>2, <2>3, <2>5 DEF IInv, Named, DirtyTells
<1>3. CASE /\ saved' = previous /\ previous' = Defaults /\ pc' = "previous"
           /\ NotRestored /\ UNCHANGED before
    BY <1>1, <1>3, ReopenedInv
<1>4. QED
    BY <1>2, <1>3 DEF RestoreDefaults

LEMMA SaveDefaultsInv ==
    ASSUME StoreAssumption, NoLostSettings, IInv, SaveDefaults
    PROVE  IInv'
<1>1. /\ pc = "save" /\ pc' = "running" /\ config_file' = config /\ config = Defaults
      /\ staged = NoRom /\ restored = "whole" /\ before' = NotSaving
      /\ previous' = Defaults
      /\ UNCHANGED <<states, over, config, saved, staged, megaflash, restored>>
    BY DEF SaveDefaults, NoSave, Refused, NoLostSettings, files, IInv, PhaseInv
<1>2. Base' = NoRom /\ config.rom = NoRom
    BY <1>1 DEF Base, Defaults, Settings
<1>3. CartridgeFits' /\ DiskFits'
    BY <1>1, <1>2 DEF IInv, CartridgeFits, StatePath, DiskFits
<1>4. PhaseInv'
    BY <1>1, <1>2 DEF PhaseInv, Phases, Saving, StagedFits, Fits, AnyRom
<1>5. QED
    BY <1>1, <1>3, <1>4 DEF IInv, DirtyTells

LEMMA RestorePreviousInv ==
    ASSUME StoreAssumption, IInv, RestorePrevious
    PROVE  IInv'
BY ReopenedInv DEF RestorePrevious, Restoring

---------------------------------------------------------------------------
(* close_overlay.                                                          *)

LEMMA SaveInv ==
    ASSUME StoreAssumption, IInv, restored = "whole", Save
    PROVE  IInv'
<1>1. /\ pc = "open" /\ UNCHANGED <<config_file, config, saved, previous, staged, dirty, restored>>
      /\ quitting' => staged # NoRom
    BY DEF Save, GoesOn, overlay
<1>2. CASE ~dirty /\ Closes(Durable) /\ UNCHANGED <<files, megaflash>>
    <2>1. states' = states /\ over' = over /\ megaflash' = megaflash
        BY <1>2 DEF files
    <2>2. staged = NoRom /\ config.rom = config_file.rom
        BY <1>1, <1>2 DEF IInv, DirtyTells, Base
    <2>3. pc' = "running" /\ before' = NotSaving
        BY <1>1, <1>2, <2>2 DEF Closes
    <2>4. CartridgeFits' /\ DiskFits'
        BY <1>1, <2>1 DEF IInv, CartridgeFits, StatePath, DiskFits
    <2>5. PhaseInv'
        BY <1>1, <2>1, <2>2, <2>3, OpenFacts
        DEF PhaseInv, Phases, Saving, StagedFits, Base, AnyRom
    <2>6. QED
        BY <1>1, <2>1, <2>3, <2>4, <2>5 DEF IInv, DirtyTells
<1>3. CASE /\ dirty /\ pc' = "config" /\ before' = Durable'
           /\ IF staged # NoRom /\ megaflash.loaded
              THEN Flush /\ megaflash' = [megaflash EXCEPT !.dirty = FALSE]
              ELSE UNCHANGED <<files, megaflash>>
    <2>1. /\ GoodFiles(states', over') /\ Fits(states', saved.rom) /\ StagedFits'
          /\ staged' \in AnyRom
        BY <1>1, <1>3, FlushIs, FlushedStaged, KeepsStaged DEF files
    <2>2. Base = config_file.rom /\ Base' = config_file.rom
        BY <1>1, <1>3 DEF Base
    <2>3. CartridgeFits'
        BY <1>1, <1>3, <2>2, CleanedFits DEF Cleaned, IInv, CartridgeFits, StatePath
    <2>4. config_file'.rom = saved'.rom /\ before' = <<Base, Stored(Base)>>'
        BY <1>1, <1>3, <2>2, OpenFacts DEF Durable, Stored, LoadedFrom
    <2>5. PhaseInv' /\ DiskFits'
        BY <1>1, <1>3, <2>1, <2>2, <2>4, OpenFacts DEF PhaseInv, Phases, Saving, DiskFits, Fits
    <2>6. QED
        BY <1>1, <1>3, <2>1, <2>3, <2>5 DEF IInv, DirtyTells
<1>4. CASE FlushRefused /\ UNCHANGED <<pc, megaflash, before>>
    BY <1>1, <1>4, SameInv DEF Same, FlushRefused, files
<1>5. QED
    BY <1>2, <1>3, <1>4 DEF Save

LEMMA ConfigSaveInv ==
    ASSUME StoreAssumption, NoLostSettings, IInv, ConfigSave
    PROVE  IInv'
<1>1. /\ pc = "config" /\ config_file' = config
      /\ IF staged = NoRom THEN Closed
         ELSE pc' = "commit" /\ UNCHANGED <<overlay, quitting, before>>
      /\ UNCHANGED <<staged, states, over, megaflash, restored>>
    BY DEF ConfigSave, files, Refused, NoLostSettings
<1>2. /\ Base = config_file.rom /\ saved.rom = config_file.rom /\ restored = "whole"
      /\ Fits(states, Base) /\ StagedFits /\ staged \in AnyRom
      /\ before = <<Base, Stored(Base)>> /\ GoodFiles(states, over)
    BY <1>1 DEF IInv, PhaseInv, Base
<1>3. CASE staged = NoRom
    <2>1. /\ pc' \in {"running", "exit"} /\ (pc' = "running" => before' = NotSaving)
          /\ UNCHANGED <<config, saved, previous>>
        BY <1>1, <1>3 DEF Closed, Closes
    <2>2. config.rom \in {NoRom, config_file.rom} /\ Base' = config.rom
        BY <1>1, <1>2, <1>3, <2>1 DEF StagedFits, Base
    <2>3. CartridgeFits' /\ Fits(states', config_file'.rom)
        BY <1>1, <1>2, <2>1, <2>2 DEF IInv, CartridgeFits, StatePath, Fits
    <2>4. PhaseInv' /\ DiskFits'
        BY <1>1, <1>2, <1>3, <2>1, <2>2, <2>3
        DEF PhaseInv, Phases, Saving, StagedFits, DiskFits, Fits
    <2>5. QED
        BY <1>1, <1>2, <2>1, <2>3, <2>4 DEF IInv, DirtyTells
<1>4. CASE staged # NoRom
    <2>1. pc' = "commit" /\ UNCHANGED <<config, saved, previous, dirty, before>>
        BY <1>1, <1>4 DEF overlay
    <2>2. CartridgeFits'
        BY <1>1, <1>2, <2>1 DEF IInv, CartridgeFits, StatePath
    <2>3. /\ staged = config.rom /\ states[staged] # NoFlash
          /\ over[staged] = states[Final]
        BY <1>2, <1>4 DEF StagedFits
    <2>4. DiskFits'
        BY <1>1, <2>3 DEF DiskFits
    <2>5. Base' = Base /\ Stored(Base)' = Stored(Base)
        BY <1>1, <1>2, <2>1 DEF Base, Stored, LoadedFrom
    <2>6. PhaseInv'
        BY <1>1, <1>2, <1>4, <2>1, <2>3, <2>5 DEF PhaseInv, Phases, Saving, StagedFits
    <2>7. QED
        BY <1>1, <1>2, <2>1, <2>2, <2>4, <2>6 DEF IInv, DirtyTells
<1>5. QED
    BY <1>3, <1>4

LEMMA CommitInv ==
    ASSUME StoreAssumption, IInv, Commit
    PROVE  IInv'
<1>1. /\ pc = "commit" /\ UNCHANGED <<config_file, restored>> /\ restored = "whole"
      /\ staged \in Rom /\ config_file.rom = staged /\ config.rom = staged
      /\ states[staged] # NoFlash /\ states[staged].seed = staged
      /\ Base = saved.rom /\ Fits(states, Base) /\ StagedFits
      /\ before = <<Base, Stored(Base)>>
    BY DEF Commit, IInv, PhaseInv, StagedFits, Base, AnyRom, GoodFiles
<1>2. CASE /\ Promoted(staged) /\ Closed /\ staged' = NoRom
           /\ megaflash' = IF megaflash.loaded /\ megaflash.path = staged
                           THEN Repathed ELSE megaflash
    <2>1. /\ states' \in [Files -> AnyFlash] /\ over' = over
          /\ states'[Final] = states[staged] /\ states'[staged] = NoFlash
          /\ \A r \in Rom : r # staged => states'[r] = states[r]
        BY <1>1, <1>2, Names DEF Promoted, IInv, GoodFiles, Files, AnyFlash
    <2>2. GoodFiles(states', over')
        BY <1>1, <2>1 DEF IInv, GoodFiles
    <2>3. Fits(states', config_file'.rom)
        BY <1>1, <2>1 DEF Fits
    <2>4. /\ pc' \in {"running", "exit"} /\ (pc' = "running" => before' = NotSaving)
          /\ UNCHANGED <<config, saved, previous>> /\ dirty' = FALSE
        BY <1>2 DEF Closed, Closes
    <2>5. CartridgeFits'
        <3>1. megaflash.loaded => megaflash.path = staged
            BY <1>1, Names DEF IInv, CartridgeFits, StatePath
        <3>2. QED
            BY <1>1, <1>2, <2>4, <3>1, Names DEF IInv, CartridgeFits, StatePath, Repathed
    <2>6. Base' = config_file.rom
        BY <1>1, <2>4 DEF Base
    <2>7. PhaseInv' /\ DiskFits'
        BY <1>1, <1>2, <2>3, <2>4, <2>6
        DEF PhaseInv, Phases, Saving, StagedFits, DiskFits, Fits, AnyRom
    <2>8. QED
        BY <1>1, <2>2, <2>4, <2>5, <2>7 DEF IInv, DirtyTells
<1>3. CASE pc' = "revert" /\ UNCHANGED <<files, overlay, megaflash, before>>
    <2>1. UNCHANGED <<states, over, config, saved, previous, staged, dirty, megaflash, before>>
        BY <1>3 DEF files, overlay
    <2>2. CartridgeFits' /\ DiskFits'
        BY <1>1, <2>1 DEF IInv, CartridgeFits, StatePath, DiskFits
    <2>3. Base' = Base /\ Stored(Base)' = Stored(Base)
        BY <1>1, <1>3, <2>1 DEF Base, Stored, LoadedFrom
    <2>4. PhaseInv'
        BY <1>1, <1>3, <2>1, <2>3 DEF IInv, PhaseInv, Phases, Saving, StagedFits
    <2>5. QED
        BY <1>1, <1>3, <2>1, <2>2, <2>4 DEF IInv, DirtyTells
<1>4. QED
    BY <1>2, <1>3 DEF Commit

LEMMA RollbackInv ==
    ASSUME StoreAssumption, NoLostSettings, IInv, Rollback
    PROVE  IInv'
<1>1. /\ pc = "revert" /\ pc' = "open" /\ before' = NotSaving /\ config_file' = saved
      /\ UNCHANGED <<states, over, config, saved, previous, staged, dirty, megaflash, restored>>
    BY DEF Rollback, StaysOpen, NoSave, files, overlay, Refused, NoLostSettings
<1>2. /\ restored = "whole" /\ Base = saved.rom /\ Base' = saved.rom
      /\ Fits(states, saved.rom) /\ StagedFits /\ staged \in AnyRom
    BY <1>1 DEF IInv, PhaseInv, Base
<1>3. CartridgeFits'
    BY <1>1, <1>2 DEF IInv, CartridgeFits, StatePath
<1>4. PhaseInv' /\ DiskFits'
    BY <1>1, <1>2 DEF PhaseInv, Phases, Saving, StagedFits, DiskFits, Fits
<1>5. QED
    BY <1>1, <1>3, <1>4 DEF IInv, DirtyTells

---------------------------------------------------------------------------
(* The invariant, and what follows from it.                                *)

\* Edits, saves and the end of the program: after a restore that stopped half
\* way nothing is promised any more.
LEMMA GoingOn ==
    ASSUME Agree, GoesOn,
           restored = "whole" /\ IInv => IInv'
    PROVE  Agree'
BY DEF Agree, GoesOn, IInv

LEMMA Astray ==
    ASSUME restored = "astray", [Next]_vars
    PROVE  restored' = "astray"
<1>1. NotReplugged => restored' = restored
    BY DEF NotReplugged
<1>2. Restored \/ HalfRestored => restored' = "astray"
    BY DEF Restored, HalfRestored, Matches
<1>3. Cancel \/ RestoreDefaults \/ RestorePrevious => restored' = "astray"
    BY <1>1, <1>2 DEF Cancel, RestoreDefaults, RestorePrevious, NotRestored
<1>4. Connect \/ Disconnect \/ Clear => restored' = "astray"
    BY DEF Connect, Disconnect, Clear, Menu, GoesOn
<1>5. ASSUME NEW image \in Rom, EditConnected(image) \/ EditDisconnected(image) \/ Setup(image)
      PROVE  restored' = "astray"
    BY <1>5 DEF EditConnected, EditDisconnected, Setup, Menu, GoesOn
<1>6. QED
    BY <1>3, <1>4, <1>5
    DEF Next, vars, GoesOn, Recover, Launch, Quit, ExitSave, Shutdown, Dies, Program, Open,
        ResetToDefaults, SaveDefaults, Save, ConfigSave, Commit, Rollback

LEMMA NextInv ==
    ASSUME StoreAssumption, NoLostSettings, Agree, [Next]_vars
    PROVE  Agree'
<1>1. CASE restored = "astray"
    BY <1>1, Astray DEF Agree
<1>2. CASE IInv
    <2>1. CASE UNCHANGED vars
        BY <1>2, <2>1, SameInv DEF vars, files, overlay, Same, Agree
    <2>2. CASE Connect \/ Disconnect \/ Clear
        <3>1. GoesOn
            BY <2>2 DEF Connect, Disconnect, Clear, Menu
        <3>2. QED
            BY <1>2, <2>2, <3>1, GoingOn, ConnectInv, DisconnectInv, ClearInv
    <2>3. ASSUME NEW image \in Rom,
                 EditConnected(image) \/ EditDisconnected(image) \/ Setup(image)
          PROVE  Agree'
        <3>1. GoesOn
            BY <2>3 DEF EditConnected, EditDisconnected, Setup, Menu
        <3>2. QED
            BY <1>2, <2>3, <3>1, GoingOn, EditConnectedInv, EditDisconnectedInv, SetupInv
    <2>4. CASE Save \/ Quit
        <3>1. GoesOn
            BY <2>4 DEF Save, Quit
        <3>2. QED
            BY <1>2, <2>4, <3>1, GoingOn, SaveInv, QuitInv
    <2>5. QED
        BY <1>2, <2>1, <2>2, <2>3, <2>4, RecoverInv, LaunchInv, ExitSaveInv, ShutdownInv,
           DiesInv, ProgramInv, OpenInv, CancelInv, ResetToDefaultsInv, RestoreDefaultsInv,
           SaveDefaultsInv, RestorePreviousInv, ConfigSaveInv, CommitInv, RollbackInv
        DEF Next, Agree
<1>3. QED
    BY <1>1, <1>2 DEF Agree

\* Image, cartridge and files agree in every phase: what is live, what is
\* staged, what is saved and what a start will find (msx_replace_megaflash,
\* close_overlay, restore_saved_config, main, recover_pending_megaflash_state),
\* until the user goes on from a restore that stopped half way.
THEOREM FilesAgree ==
    ASSUME StoreAssumption, NoLostSettings
    PROVE  Spec => []Agree
<1>1. Init => Agree
    BY InitInv DEF Agree
<1>2. Agree /\ [Next]_vars => Agree'
    BY NextInv
<1>3. QED
    BY <1>1, <1>2, PTL DEF Spec

\* A cartridge runs the image it is configured for, through every edit,
\* refusal, save, reset, exit and death (connect_megaflash,
\* msx_replace_megaflash, restore_megaflash), as long as no restore stopped
\* half way.
THEOREM CartridgeRunsItsImage ==
    ASSUME StoreAssumption, NoLostSettings
    PROVE  Spec => []RunsItsImage
<1>1. Agree => RunsItsImage
    BY DEF Agree, IInv, CartridgeFits, RunsItsImage
<1>2. QED
    BY <1>1, FilesAgree, PTL

---------------------------------------------------------------------------
(* Promotions.                                                             *)

\* What is flushed to the kept state is none of a pending file.
LEMMA FlushedFinal ==
    ASSUME StoreAssumption, IInv, pc \notin {"off", "start"},
           NEW image \in Rom, states[image] # NoFlash,
           AfterFlush[Final] = states[image]
    PROVE  over[image] = states[Final]
<1>1. states[image].seed = image
    BY DEF IInv, GoodFiles
<1>2. image # Base
    BY <1>1, Flushed, Names DEF Fits
<1>3. AfterFlush[Final] = states[Final]
    <2>1. CASE megaflash.dirty /\ megaflash.path = Final
        <3>1. AfterFlush[Final] = megaflash.flash
            BY <2>1, Names DEF AfterFlush, Written, IInv, GoodFiles
        <3>2. megaflash.flash.seed = Base
            <4>1. CASE restored = "half"
                BY <2>1, <4>1 DEF IInv, CartridgeFits
            <4>2. CASE restored = "whole"
                <5>1. StagedFits /\ staged \in AnyRom
                    BY <4>2 DEF IInv, PhaseInv
                <5>2. /\ megaflash.flash.seed = config.rom /\ megaflash.flash.seed \in Rom
                      /\ staged = NoRom
                    BY <2>1, <4>2, <5>1, Names
                    DEF IInv, CartridgeFits, StatePath, Flash, AnyRom
                <5>3. QED
                    BY <5>1, <5>2, Names DEF StagedFits
            <4>3. QED
                BY <4>1, <4>2 DEF IInv
        <3>3. QED
            BY <1>1, <1>2, <3>1, <3>2
    <2>2. CASE ~(megaflash.dirty /\ megaflash.path = Final)
        BY <2>2 DEF AfterFlush, Written, IInv, GoodFiles
    <2>3. QED
        BY <2>1, <2>2
<1>4. QED
    BY <1>1, <1>3 DEF IInv, GoodFiles

\* Only a recovery and a commit replace the kept state by a pending one.
LEMMA FinalState ==
    ASSUME StoreAssumption, NoLostSettings, IInv, Next
    PROVE  \/ states'[Final] = states[Final]
           \/ pc \notin {"off", "start"} /\ states'[Final] = AfterFlush[Final]
           \/ pc = "off" /\ Expected /\ Promoted(config_file.rom)
           \/ pc = "commit" /\ Promoted(staged)
<1>1. Recover => UNCHANGED states \/ (pc = "off" /\ Expected /\ Promoted(config_file.rom))
    BY DEF Recover, files
<1>2. \/ Launch \/ Quit \/ ExitSave \/ Dies \/ Program \/ Open \/ Connect
      \/ ResetToDefaults \/ SaveDefaults \/ ConfigSave \/ Rollback
      => UNCHANGED states
    BY DEF Launch, Quit, ExitSave, Dies, Program, Open, Connect, ResetToDefaults,
       SaveDefaults, ConfigSave, Rollback, files
<1>3. ASSUME Flush \/ FlushRefused \/ EjectRefused
      PROVE  states' \in {states, AfterFlush}
    BY <1>3, FlushIs DEF FlushRefused, EjectRefused, files
<1>4. Shutdown \/ Disconnect \/ Save
      => pc \in {"flush", "open"} /\ states' \in {states, AfterFlush}
    BY <1>3 DEF Shutdown, Disconnect, Menu, Save, files
<1>5. staged # Final
    BY Bases, Names DEF AnyRom
<1>6. Clear => pc = "open" /\ states'[Final] \in {states[Final], AfterFlush[Final]}
    BY <1>3, <1>5, Names DEF Clear, Menu
<1>7. ASSUME Cancel \/ RestoreDefaults \/ RestorePrevious
      PROVE  pc \notin {"off", "start"} /\ states'[Final] \in {states[Final], AfterFlush[Final]}
    <2>1. pc \notin {"off", "start"} /\ (Restored \/ NotRestored)
        BY <1>7 DEF Cancel, RestoreDefaults, RestorePrevious
    <2>2. NotReplugged => states' \in {states, AfterFlush}
        BY <1>3 DEF NotReplugged
    <2>3. Discarded => states'[Final] \in {states[Final], AfterFlush[Final]}
        BY <1>5, Names DEF Discarded, Ejected
    <2>4. HalfRestored => states'[Final] \in {states[Final], AfterFlush[Final]}
        BY <2>3 DEF HalfRestored
    <2>5. QED
        BY <2>1, <2>2, <2>3, <2>4 DEF NotRestored, Restored
<1>8. Commit => UNCHANGED states \/ (pc = "commit" /\ Promoted(staged))
    BY DEF Commit, files
<1>9. ASSUME NEW image \in Rom,
             EditConnected(image) \/ EditDisconnected(image) \/ Setup(image)
      PROVE  pc = "open" /\ states'[Final] \in {states[Final], AfterFlush[Final]}
    <2>1. pc = "open"
        BY <1>9 DEF EditConnected, EditDisconnected, Setup, Menu
    <2>2. ASSUME NEW s, NEW o, NEW seeds, Staging(s, o, image, seeds),
                 DOMAIN s = Files
          PROVE  states'[Final] = s[Final]
        <3>1. Forgotten(IF Reseeds(image) THEN image ELSE NoRom) # Final
            BY <1>5, Names DEF Forgotten
        <3>2. image # Final
            BY Names
        <3>3. QED
            BY <2>2, <3>1, <3>2, Names DEF Staging
    <2>3. DOMAIN states = Files /\ DOMAIN AfterFlush = Files
        BY DEF IInv, GoodFiles, AfterFlush, Written
    <2>4. EditConnected(image) => states'[Final] \in {states[Final], AfterFlush[Final]}
        BY <2>2, <2>3 DEF EditConnected, FlushRefused, files
    <2>5. EditDisconnected(image) => states'[Final] = states[Final]
        BY <2>2, <2>3 DEF EditDisconnected, files
    <2>6. Setup(image) => states'[Final] = states[Final]
        BY <1>5, <2>2, <2>3, Names DEF Setup, files
    <2>7. QED
        BY <1>9, <2>1, <2>4, <2>5, <2>6
<1>10. QED
    BY <1>1, <1>2, <1>4, <1>6, <1>7, <1>8, <1>9 DEF Next

\* A promotion replaces the state file that the pending one was staged over:
\* what the guest programmed since is not lost, whatever was refused and
\* whenever the emulator ended or died, unless the user went on from a restore
\* that stopped half way (megaflash_promote_persistent,
\* recover_pending_megaflash_state).
THEOREM WorkIsNotReplaced ==
    ASSUME StoreAssumption, NoLostSettings
    PROVE  Spec => NothingReplaced
<1>1. ASSUME Agree, [Next]_vars, NEW image \in Rom, Promotes(image), restored # "astray"
      PROVE  over[image] = states[Final]
    <2>1. states[image] # NoFlash /\ states'[image] = NoFlash /\ states'[Final] = states[image]
        BY <1>1 DEF Promotes
    <2>2. Next /\ IInv
        BY <1>1, <2>1 DEF vars, files, Agree
    <2>3. CASE states'[Final] = states[Final]
        BY <2>1, <2>2, <2>3 DEF IInv, GoodFiles
    <2>4. CASE pc \notin {"off", "start"} /\ states'[Final] = AfterFlush[Final]
        BY <2>1, <2>2, <2>4, FlushedFinal
    <2>5. ASSUME NEW r \in Rom, Promoted(r)
          PROVE  image = r
        BY <2>1, <2>2, <2>5, Names DEF Promoted, IInv, GoodFiles, Files
    <2>6. CASE pc = "off" /\ Expected /\ Promoted(config_file.rom)
        <3>1. config_file.rom \in Rom
            BY <2>2, <2>6, Bases DEF AnyRom, Expected
        <3>2. QED
            BY <2>2, <2>5, <2>6, <3>1 DEF Expected, IInv, DiskFits
    <2>7. CASE pc = "commit" /\ Promoted(staged)
        <3>1. staged \in Rom /\ over[staged] = states[Final]
            BY <2>2, <2>7, Bases DEF IInv, PhaseInv, StagedFits, AnyRom
        <3>2. QED
            BY <2>5, <2>7, <3>1
    <2>8. QED
        BY <2>2, <2>3, <2>4, <2>6, <2>7, FinalState
<1>2. Agree /\ [Next]_vars =>
          [\A image \in Rom :
              Promotes(image) /\ restored # "astray" => over[image] = states[Final]]_vars
    BY <1>1
<1>3. QED
    BY <1>2, FilesAgree, PTL DEF Spec, NothingReplaced

---------------------------------------------------------------------------
(* The refinement.                                                         *)

\* What a start finds is a flash of the configured image.
LEMMA StoredFits ==
    ASSUME StoreAssumption, IInv
    PROVE  IF config_file.rom = NoRom THEN Stored(config_file.rom) = NoFlash
           ELSE /\ config_file.rom \in Rom /\ Stored(config_file.rom) \in Flash
                /\ Stored(config_file.rom).seed = config_file.rom
<1>1. CASE config_file.rom = NoRom
    BY <1>1 DEF Stored
<1>2. CASE config_file.rom # NoRom
    <2>1. config_file.rom \in Rom
        BY <1>2 DEF IInv, Named, AnySettings, AnyRom
    <2>2. CASE states[config_file.rom] # NoFlash
        BY <1>2, <2>1, <2>2 DEF Stored, IInv, GoodFiles, AnyFlash, Files
    <2>3. CASE states[config_file.rom] = NoFlash
        BY <1>2, <2>1, <2>3, Loaded DEF Stored, LoadedFrom, IInv, DiskFits
    <2>4. QED
        BY <2>2, <2>3
<1>3. QED
    BY <1>1, <1>2

LEMMA StoredFitsAfter ==
    ASSUME StoreAssumption, IInv'
    PROVE  IF config_file'.rom = NoRom THEN Stored(config_file.rom)' = NoFlash
           ELSE /\ config_file'.rom \in Rom /\ Stored(config_file.rom)' \in Flash
                /\ (Stored(config_file.rom)').seed = config_file'.rom
<1>1. CASE config_file'.rom = NoRom
    BY <1>1 DEF Stored
<1>2. CASE config_file'.rom # NoRom
    <2>1. config_file'.rom \in Rom
        BY <1>2 DEF IInv, Named, AnySettings, AnyRom
    <2>2. CASE states'[config_file'.rom] # NoFlash
        BY <1>2, <2>1, <2>2 DEF Stored, IInv, GoodFiles, AnyFlash, Files
    <2>3. CASE states'[config_file'.rom] = NoFlash
        BY <1>2, <2>1, <2>3, Loaded DEF Stored, LoadedFrom, IInv, DiskFits
    <2>4. QED
        BY <2>2, <2>3
<1>3. QED
    BY <1>1, <1>2

\* The session is one of those that are promised something, before and after.
Promising == IInv /\ IInv' /\ restored # "astray" /\ restored' # "astray"

LEMMA PromisedStep ==
    ASSUME Promising, Abstract!Promised
    PROVE  Abstract!Next
BY DEF Promising, Abstract!Next

\* The guest's work reached the disk, or nothing did.
LEMMA WorkedOrKept ==
    ASSUME StoreAssumption, Promising, config_file'.rom = config_file.rom
    PROVE  Abstract!Worked \/ Abstract!Kept
<1>1. CASE config_file.rom = NoRom
    BY <1>1, StoredFits, StoredFitsAfter DEF Promising, Abstract!Kept
<1>2. CASE config_file.rom # NoRom
    BY <1>2, StoredFits, StoredFitsAfter DEF Promising, Abstract!Worked, Abstract!Flash, Flash
<1>3. QED
    BY <1>1, <1>2

\* Outside of a save the owner only sees the guest work.
LEMMA WorkOrStutter ==
    ASSUME StoreAssumption, Promising, config_file'.rom = config_file.rom,
           before' = before, Saving' = Saving
    PROVE  [Abstract!Next]_(Abstract!vars)
<1>1. CASE Abstract!Worked
    BY <1>1, PromisedStep DEF Abstract!Promised, Abstract!Work, Saving
<1>2. CASE Abstract!Kept
    BY <1>2 DEF Abstract!Kept, Abstract!vars, Saving, Promising
<1>3. QED
    BY <1>1, <1>2, WorkedOrKept

\* A save begins.
LEMMA BeginStep ==
    ASSUME StoreAssumption, Promising, config_file'.rom = config_file.rom,
           ~Saving, Saving', before' = Durable'
    PROVE  Abstract!Next
<1>1. Abstract!BeginSave
    BY WorkedOrKept DEF Abstract!BeginSave, Saving, Durable
<1>2. QED
    BY <1>1, PromisedStep DEF Abstract!Promised

\* Settings are written and say what they said, or nothing of the cartridge,
\* or name the image that is staged.
LEMMA WrittenStep ==
    ASSUME StoreAssumption, Promising, Saving, config_file' = config,
           states' = states, Base = config_file.rom, restored = "whole" => StagedFits,
           restored = "whole",
           \/ ~Saving' /\ before' = NotSaving
           \/ Saving' /\ before' = before,
           staged # NoRom => before = <<Base, Stored(Base)>>
    PROVE  [Abstract!Next]_(Abstract!vars)
<1>1. Abstract!MayEnd
    BY DEF Abstract!MayEnd, Abstract!Ended, Abstract!NoFlash, NoFlash, NotSaving, Saving
<1>2. CASE config.rom = NoRom
    <2>1. Abstract!Remove
        BY <1>1, <1>2, StoredFitsAfter DEF Promising, Abstract!Remove, Abstract!NoFlash, NoFlash
    <2>2. QED
        BY <2>1, PromisedStep DEF Abstract!Promised
<1>3. CASE config.rom = config_file.rom
    <2>1. Abstract!Kept
        BY <1>3 DEF Abstract!Kept, Stored, LoadedFrom
    <2>2. CASE ~Saving' /\ before' = NotSaving
        <3>1. Abstract!EndSave
            BY <2>1, <2>2 DEF Abstract!EndSave, Abstract!Ended, Abstract!NoFlash, NoFlash,
               NotSaving, Saving
        <3>2. QED
            BY <3>1, PromisedStep DEF Abstract!Promised
    <2>3. CASE Saving' /\ before' = before
        BY <2>1, <2>3 DEF Abstract!Kept, Abstract!vars, Saving, Promising
    <2>4. QED
        BY <2>2, <2>3
<1>4. CASE config.rom = staged /\ staged # NoRom
    <2>1. before = <<config_file.rom, Stored(config_file.rom)>>
        BY <1>4
    <2>2. Abstract!Commit
        BY <1>1, <1>4, <2>1, StoredFitsAfter
        DEF Promising, Abstract!Commit, Abstract!Flash, Flash
    <2>3. QED
        BY <2>2, PromisedStep DEF Abstract!Promised
<1>5. QED
    BY <1>2, <1>3, <1>4 DEF StagedFits

LEMMA SaveStep ==
    ASSUME StoreAssumption, Promising, Save
    PROVE  [Abstract!Next]_(Abstract!vars)
<1>1. /\ pc = "open" /\ config_file' = config_file /\ before = NotSaving
      /\ restored = "whole"
    BY DEF Save, GoesOn, Promising, IInv, PhaseInv, Saving
<1>2. CASE ~dirty /\ Closes(Durable)
    <2>1. staged = NoRom
        BY <1>1, <1>2 DEF Promising, IInv, DirtyTells
    <2>2. pc' = "running" /\ before' = NotSaving
        BY <1>2, <2>1 DEF Save, Closes
    <2>3. QED
        BY <1>1, <2>2, WorkOrStutter DEF Saving
<1>3. CASE pc' = "config" /\ before' = Durable'
    BY <1>1, <1>3, BeginStep DEF Saving
<1>4. CASE UNCHANGED <<pc, before>>
    BY <1>1, <1>4, WorkOrStutter DEF Saving
<1>5. QED
    BY <1>2, <1>3, <1>4 DEF Save

LEMMA ConfigSaveStep ==
    ASSUME StoreAssumption, NoLostSettings, Promising, ConfigSave
    PROVE  [Abstract!Next]_(Abstract!vars)
<1>1. /\ pc = "config" /\ config_file' = config /\ states' = states
      /\ IF staged = NoRom THEN Closed
         ELSE pc' = "commit" /\ UNCHANGED <<overlay, quitting, before>>
    BY DEF ConfigSave, files, Refused, NoLostSettings
<1>2. /\ Base = config_file.rom /\ restored = "whole" /\ StagedFits
      /\ before = <<Base, Stored(Base)>>
    BY <1>1 DEF Promising, IInv, PhaseInv, Base
<1>3. \/ pc' = "running" /\ before' = NotSaving
      \/ pc' \in {"exit", "commit"} /\ before' = before
    BY <1>1 DEF Closed, Closes
<1>4. QED
    BY <1>1, <1>2, <1>3, WrittenStep DEF Saving

LEMMA CommitStep ==
    ASSUME StoreAssumption, Promising, Commit
    PROVE  [Abstract!Next]_(Abstract!vars)
<1>1. /\ pc = "commit" /\ config_file' = config_file
      /\ staged \in Rom /\ config_file.rom = staged /\ states[staged] # NoFlash
    BY Bases DEF Commit, Promising, IInv, PhaseInv, StagedFits, AnyRom
<1>2. CASE Promoted(staged) /\ Closed
    <2>1. \/ pc' = "running" /\ before' = NotSaving
          \/ pc' = "exit" /\ before' = before
        BY <1>2 DEF Closed, Closes
    <2>2. states'[Final] = states[staged] /\ states'[staged] = NoFlash
        BY <1>1, <1>2, Names DEF Promoted, Promising, IInv, GoodFiles, Files
    <2>3. Stored(config_file.rom)' = Stored(config_file.rom)
        BY <1>1, <2>2, Names DEF Stored, LoadedFrom
    <2>4. CASE pc' = "exit" /\ before' = before
        BY <1>1, <2>4, WorkOrStutter DEF Saving
    <2>5. CASE pc' = "running" /\ before' = NotSaving
        <3>1. Abstract!EndSave
            BY <1>1, <2>3, <2>5 DEF Abstract!EndSave, Abstract!Ended, Abstract!Kept,
               Abstract!NoFlash, NoFlash, NotSaving
        <3>2. QED
            BY <3>1, PromisedStep DEF Abstract!Promised
    <2>6. QED
        BY <2>1, <2>4, <2>5
<1>3. CASE pc' = "revert" /\ before' = before
    BY <1>1, <1>3, WorkOrStutter DEF Saving
<1>4. QED
    BY <1>2, <1>3 DEF Commit

LEMMA RollbackStep ==
    ASSUME StoreAssumption, NoLostSettings, Promising, Rollback
    PROVE  [Abstract!Next]_(Abstract!vars)
<1>1. /\ pc = "revert" /\ pc' = "open" /\ before' = NotSaving
      /\ config_file' = saved /\ states' = states
    BY DEF Rollback, StaysOpen, NoSave, files, Refused, NoLostSettings
<1>2. before = <<saved.rom, Stored(saved.rom)>>
    BY <1>1 DEF Promising, IInv, PhaseInv, Base
<1>3. config_file'.rom = saved.rom /\ Stored(config_file.rom)' = Stored(saved.rom)
    BY <1>1 DEF Stored, LoadedFrom
<1>4. Abstract!MayEnd
    BY <1>1 DEF Abstract!MayEnd, Abstract!Ended, Abstract!NoFlash, NoFlash, NotSaving
<1>5. Abstract!Revert
    BY <1>2, <1>3, <1>4 DEF Abstract!Revert
<1>6. QED
    BY <1>5, PromisedStep DEF Abstract!Promised

\* The end of the program writes the live settings.
LEMMA EndStep ==
    ASSUME StoreAssumption, NoLostSettings, Promising, Quit \/ ExitSave \/ Shutdown
    PROVE  [Abstract!Next]_(Abstract!vars)
<1>1. CASE Quit
    <2>1. Durable' = Durable
        BY <1>1 DEF Quit, Durable, Stored, LoadedFrom, files
    <2>2. QED
        BY <1>1, <2>1, BeginStep DEF Quit, Saving
<1>2. CASE ExitSave
    <2>1. /\ pc = "exit" /\ config_file' = config /\ states' = states
          /\ pc' = "flush" /\ before' = NotSaving
        BY <1>2 DEF ExitSave, NoSave, files, Refused, NoLostSettings
    <2>2. /\ Base = config_file.rom /\ restored = "whole" /\ StagedFits
          /\ staged # NoRom => before = <<Base, Stored(Base)>>
        BY <2>1 DEF Promising, IInv, PhaseInv, Base
    <2>3. QED
        BY <2>1, <2>2, WrittenStep DEF Saving
<1>3. CASE Shutdown
    <2>1. before = NotSaving /\ before' = NotSaving
        BY <1>3 DEF Shutdown, Off, NoSave, Promising, IInv, PhaseInv, Saving
    <2>2. QED
        BY <1>3, <2>1, WorkOrStutter DEF Shutdown, Off, Saving
<1>4. QED
    BY <1>1, <1>2, <1>3

\* The defaults take the cartridge out.
LEMMA DefaultsStep ==
    ASSUME StoreAssumption, NoLostSettings, Promising,
           ResetToDefaults \/ RestoreDefaults \/ SaveDefaults \/ RestorePrevious
    PROVE  [Abstract!Next]_(Abstract!vars)
<1>1. CASE ResetToDefaults \/ RestorePrevious
    BY <1>1, WorkOrStutter DEF ResetToDefaults, RestorePrevious, Saving
<1>2. CASE RestoreDefaults
    <2>1. CASE pc' = "save" /\ before' = Durable'
        BY <1>2, <2>1, BeginStep DEF RestoreDefaults, Saving
    <2>2. CASE pc' = "previous" /\ before' = before
        BY <1>2, <2>2, WorkOrStutter DEF RestoreDefaults, Saving
    <2>3. QED
        BY <1>2, <2>1, <2>2 DEF RestoreDefaults
<1>3. CASE SaveDefaults
    <2>1. /\ pc = "save" /\ config_file' = config /\ states' = states
          /\ pc' = "running" /\ before' = NotSaving
        BY <1>3 DEF SaveDefaults, NoSave, files, Refused, NoLostSettings
    <2>2. /\ Base = config_file.rom /\ restored = "whole" /\ StagedFits /\ staged = NoRom
        BY <2>1 DEF Promising, IInv, PhaseInv, Base
    <2>3. QED
        BY <2>1, <2>2, WrittenStep DEF Saving
<1>4. QED
    BY <1>1, <1>2, <1>3

LEMMA DiesStep ==
    ASSUME StoreAssumption, Promising, Dies
    PROVE  [Abstract!Next]_(Abstract!vars)
<1>1. /\ pc' = "off" /\ before' = NotSaving /\ config_file' = config_file /\ states' = states
    BY DEF Dies, Off, NoSave, files
<1>2. CASE Saving
    <2>1. Stored(config_file.rom)' = Stored(config_file.rom)
        BY <1>1 DEF Stored, LoadedFrom
    <2>2. Abstract!EndSave
        BY <1>1, <1>2, <2>1 DEF Saving, Abstract!EndSave, Abstract!Ended, Abstract!Kept,
           Abstract!NoFlash, NoFlash, NotSaving
    <2>3. QED
        BY <2>2, PromisedStep DEF Abstract!Promised
<1>3. CASE ~Saving
    BY <1>1, <1>3, WorkOrStutter DEF Saving, Promising, IInv, PhaseInv
<1>4. QED
    BY <1>2, <1>3

\* What the owner of a cartridge may count on: the configured image and the
\* flash of the next start belong together, and only a save, a reset to the
\* defaults or the end of the program replaces them (finish_megaflash_setup,
\* close_overlay, reset_to_defaults, main, recover_pending_megaflash_state),
\* until the user goes on from a restore that stopped half way.
THEOREM StoreImplementsReseed ==
    ASSUME StoreAssumption, NoLostSettings
    PROVE  Spec => ImplementsReseed
<1>1. Init => Abstract!Init
    BY DEF Init, Abstract!Init, Defaults, Settings, Stored, NoFlash, NotSaving, Abstract!NoFlash
<1>2. ASSUME Agree, Agree', [Next]_vars
      PROVE  [Abstract!Next]_(Abstract!vars)
    <2>1. CASE restored' = "astray"
        BY <2>1 DEF Abstract!Next
    <2>2. CASE restored' # "astray"
        <3>1. Promising
            BY <1>2, <2>2, Astray DEF Promising, Agree
        <3>2. CASE UNCHANGED vars
            BY <3>1, <3>2, WorkOrStutter DEF vars, Saving
        <3>3. CASE Save \/ ConfigSave \/ Commit \/ Rollback
            BY <3>1, <3>3, SaveStep, ConfigSaveStep, CommitStep, RollbackStep
        <3>4. CASE Recover \/ Launch \/ Program \/ Open \/ Cancel
            BY <3>1, <3>4, WorkOrStutter
            DEF Recover, Launch, Program, Open, Cancel, Saving
        <3>5. CASE Connect \/ Disconnect \/ Clear
            <4>1. Menu
                BY <3>5 DEF Connect, Disconnect, Clear
            <4>2. QED
                BY <3>1, <4>1, WorkOrStutter DEF Menu, Saving
        <3>6. ASSUME NEW image \in Rom,
                     EditConnected(image) \/ EditDisconnected(image) \/ Setup(image)
              PROVE  [Abstract!Next]_(Abstract!vars)
            <4>1. Menu
                BY <3>6 DEF EditConnected, EditDisconnected, Setup
            <4>2. QED
                BY <3>1, <4>1, WorkOrStutter DEF Menu, Saving
        <3>7. QED
            BY <1>2, <3>1, <3>2, <3>3, <3>4, <3>5, <3>6, EndStep, DefaultsStep, DiesStep
            DEF Next
    <2>3. QED
        BY <2>1, <2>2
<1>3. QED
    BY <1>1, <1>2, FilesAgree, PTL DEF Spec, ImplementsReseed, Abstract!Spec

---------------------------------------------------------------------------
(* The kept chip (MegaFlash).                                             *)

\* What the guest writes, F0 apart, which always ends a command.
Value == Nat \ {\hf0}
Writes == Int \X Value
Trail(s) == s \in Seq(Writes)

\* The registers and banks of the cartridge are integers, and so is every
\* flash address made of them.
ChipType ==
    /\ flash_registers \in [secondary_slot : Int, mapper : Int, config : Int,
                            offset : Int, scc_mode : Int]
    /\ bank \in [Pages -> Int] /\ sd_bank \in [Pages -> Int]

\* The command machine of the chip.
CommandType ==
    /\ stage \in 0..11 /\ Trail(trail) /\ Trail(buffer)
    /\ remaining \in Int /\ expected \in Int /\ page \in Int /\ sector \in Int

\* The bytes so far are the end of the trail, all in one page.
Carried(k, size) ==
    /\ Len(trail) = Len(buffer) + k
    /\ \A i \in 1..Len(buffer) : /\ buffer[i] = trail[i + k]
                                 /\ Floor(buffer[i][1], size) = page

\* A short program of "n" bytes under way: its first write, and the bytes so
\* far, which are in one page.
ShortSoFar(n, value) ==
    /\ Carried(1, 8) /\ Len(buffer) + remaining = n /\ remaining >= 1
    /\ Is(trail[1], At555, value)

\* A buffered program under way: its sector, its count and the bytes so far.
BufferedSoFar ==
    /\ Carried(4, 32) /\ Unlocked(trail, 1)
    /\ trail[3][2] = \h25 /\ trail[4][2] = expected - 1
    /\ sector_base(trail[3][1]) = sector /\ sector_base(trail[4][1]) = sector

\* What each stage of the chip stands for: the writes that led to it.
StageInv ==
    /\ stage = 0 => trail = <<>>
    /\ stage = 1 => Len(trail) = 1 /\ Is(trail[1], At555, \haa)
    /\ stage = 2 => Len(trail) = 2 /\ Unlocked(trail, 1)
    /\ stage = 3 => Prefixed(trail, 3, \h80)
    /\ stage = 4 => /\ Len(trail) = 4 /\ Unlocked(trail, 1)
                    /\ Is(trail[3], At555, \h80) /\ Is(trail[4], At555, \haa)
    /\ stage = 5 => /\ Len(trail) = 5 /\ Unlocked(trail, 1)
                    /\ Is(trail[3], At555, \h80) /\ Unlocked(trail, 4)
    /\ stage = 6 => Prefixed(trail, 3, \ha0)
    /\ stage = 7 => ShortSoFar(2, \h50)
    /\ stage = 8 => ShortSoFar(4, \h56)
    /\ stage = 9 => /\ Len(trail) = 3 /\ Unlocked(trail, 1)
                    /\ trail[3][2] = \h25 /\ sector_base(trail[3][1]) = sector
    /\ stage = 10 => BufferedSoFar /\ Len(buffer) < expected
    /\ stage = 11 => BufferedSoFar /\ Len(buffer) = expected

\* The command machine between two writes.
CommandInv == CommandType /\ StageInv
\* The inductive invariant.
ChipInv == ChipType /\ CommandInv

---------------------------------------------------------------------------
(* Operators.                                                              *)

\* Word addresses 555 and 2AA, as the chip and as a programmer decodes them.
LEMMA UnlockAddresses ==
    ASSUME NEW a \in Int
    PROVE  /\ (a \div 2) % 2048 = 1365 <=> a % 4096 \in At555
           /\ (a \div 2) % 2048 = 682 <=> a % 4096 \in At2AA
BY DEF At555, At2AA

\* Sectors and pages of integer addresses start at integers.
LEMMA BaseType ==
    ASSUME NEW a \in Int
    PROVE  sector_base(a) \in Int /\ Floor(a, 8) \in Int /\ Floor(a, 32) \in Int
BY DEF sector_base, Floor

\* What one more write makes of the trail.
Longer(s, t, a, v) == s = Append(t, <<a, v>>)
\* The writes before, and the write at the end.
Grew(s, t, a, v) ==
    /\ Trail(s) /\ Len(s) = Len(t) + 1 /\ Len(t) \in Nat
    /\ \A i \in 1..Len(t) : s[i] = t[i]
    /\ s[Len(s)] = <<a, v>> /\ s[Len(s)][1] = a /\ s[Len(s)][2] = v

\* One more write: the trail before, and the write at the end.
LEMMA OneMore ==
    ASSUME NEW t, Trail(t), NEW a \in Int, NEW v \in Value, NEW s,
           Longer(s, t, a, v)
    PROVE  Grew(s, t, a, v)
<1> DEFINE w == <<a, v>>
<1>1. w \in Writes /\ w[1] = a /\ w[2] = v /\ t \in Seq(Writes) /\ s = Append(t, w)
  BY DEF Writes, Trail, Longer
<1> HIDE DEF w
<1>2. Len(t) \in Nat
  BY ONLY <1>1, LenProperties
<1>3. /\ s \in Seq(Writes) /\ Len(s) = Len(t) + 1
      /\ \A i \in 1..Len(t) : s[i] = t[i]
      /\ s[Len(t) + 1] = w
  BY ONLY <1>1, AppendProperties
<1>4. s[Len(s)] = w /\ s[Len(s)][1] = a /\ s[Len(s)][2] = v
  BY ONLY <1>1, <1>2, <1>3
<1> QED BY <1>1, <1>2, <1>3, <1>4 DEF Grew, Trail, w

\* No writes yet.
LEMMA NoTrail == Trail(<<>>)
BY EmptySeq DEF Trail

\* A trail is a sequence of addresses and bytes.
LEMMA TrailType ==
    ASSUME NEW s, Trail(s)
    PROVE  /\ Len(s) \in Nat
           /\ \A i \in 1..Len(s) : s[i][1] \in Int /\ s[i][2] \in Value
<1>1. s \in Seq(Writes)
  BY DEF Trail
<1>2. Len(s) \in Nat /\ \A i \in 1..Len(s) : s[i] \in Writes
  BY ONLY <1>1, LenProperties, ElementOfSeq
<1>3. \A x \in Writes : x[1] \in Int /\ x[2] \in Value
  BY DEF Writes
<1> QED BY <1>2, <1>3

\* A sequence that is none of the commands programs and erases nothing.
NoCommand(s) ==
    /\ ~SingleProgram(s) /\ ~ShortProgram(s, 2, \h50) /\ ~ShortProgram(s, 4, \h56)
    /\ ~BufferedProgram(s) /\ ~SectorErase(s) /\ ~ChipErase(s)

\* What is no command has no data and blanks nothing.
LEMMA NoEffect ==
    ASSUME NEW s, NoCommand(s)
    PROVE  Data(s) = <<>> /\ Blanked(s) = {}
BY DEF NoCommand, Data, Blanked

\* What is shorter than a command, or differs in the third write.
LEMMA TooShort ==
    ASSUME NEW s, Trail(s), Len(s) \in 1..5, Len(s) = 4 => s[3][2] # \ha0,
           Len(s) \notin {3, 5} \/ s[1][2] = \haa
    PROVE  NoCommand(s)
<1>1. ~SingleProgram(s) /\ ~SectorErase(s) /\ ~ChipErase(s)
  BY DEF SingleProgram, SectorErase, ChipErase, ErasePrefix, Prefixed, Is
<1>2. ~ShortProgram(s, 2, \h50) /\ ~ShortProgram(s, 4, \h56)
  BY DEF ShortProgram, Is
<1>3. ~BufferedProgram(s)
  BY DEF BufferedProgram
<1> QED BY <1>1, <1>2, <1>3 DEF NoCommand

\* What starts with another write can only be a short program.
LEMMA NotUnlocked ==
    ASSUME NEW s, s[1][2] # \haa, ~ShortProgram(s, 2, \h50), ~ShortProgram(s, 4, \h56)
    PROVE  NoCommand(s)
<1>1. ~Unlocked(s, 1)
  BY DEF Unlocked, Is
<1> QED BY <1>1 DEF NoCommand, SingleProgram, BufferedProgram, SectorErase,
                    ChipErase, ErasePrefix, Prefixed

\* What a command carries: all but its first write, or the middle of it.
LEMMA TailIs ==
    ASSUME NEW s, NEW d, Trail(s), Trail(d), Len(s) = Len(d) + 1,
           \A i \in 1..Len(d) : d[i] = s[i + 1]
    PROVE  Tail(s) = d
<1>1. s \in Seq(Writes) /\ d \in Seq(Writes) /\ Len(d) \in Nat
  BY TrailType DEF Trail
<1>2. s # <<>>
  BY <1>1, EmptySeq
<1> DEFINE u == Tail(s)
<1>3. u \in Seq(Writes) /\ Len(u) = Len(s) - 1 /\ \A i \in 1..Len(u) : u[i] = s[i + 1]
  BY ONLY <1>1, <1>2, HeadTailProperties
<1> HIDE DEF u
<1>4. Len(u) = Len(d) /\ \A i \in 1..Len(u) : u[i] = d[i]
  BY <1>1, <1>3
<1>5. u = d
  BY ONLY <1>1, <1>3, <1>4, SeqEqual
<1> QED BY <1>5 DEF u

\* The bytes of a buffered program: all but four writes before and one after.
LEMMA MiddleIs ==
    ASSUME NEW s, NEW d, Trail(s), Trail(d), Len(s) = Len(d) + 5,
           \A i \in 1..Len(d) : d[i] = s[i + 4]
    PROVE  SubSeq(s, 5, Len(s) - 1) = d
<1>1. /\ d \in Seq(Writes) /\ Len(d) \in Nat /\ Len(s) \in Nat
      /\ \A i \in 1..Len(s) : s[i] \in Writes
  BY TrailType, ElementOfSeq DEF Trail
<1> DEFINE n == Len(s) - 1
           u == SubSeq(s, 5, n)
<1>2. n \in Int /\ n = Len(d) + 4 /\ \A i \in 5..n : s[i] \in Writes
  BY <1>1
<1> HIDE DEF n
<1>3. /\ u \in Seq(Writes) /\ Len(u) = (IF 5 <= n THEN n - 5 + 1 ELSE 0)
      /\ \A i \in 1..(n - 5 + 1) : u[i] = s[5 + i - 1]
  BY ONLY <1>2, SubSeqProperties
<1> HIDE DEF u
<1>4. Len(u) = Len(d)
  BY ONLY <1>1, <1>2, <1>3
<1>5. \A i \in 1..Len(u) : u[i] = d[i]
  BY <1>1, <1>2, <1>3, <1>4
<1>6. u = d
  BY ONLY <1>1, <1>3, <1>4, <1>5, SeqEqual
<1> QED BY <1>6 DEF u, n

\* Writes whose pages are all the same lie together.
LEMMA AllTogether ==
    ASSUME NEW d, Trail(d), NEW size, NEW at,
           \A i \in 1..Len(d) : Floor(d[i][1], size) = at
    PROVE  Together(d, size)
<1>1. DOMAIN d = 1..Len(d)
  BY LenProperties DEF Trail
<1> QED BY ONLY <1>1, \A i \in 1..Len(d) : Floor(d[i][1], size) = at DEF Together

\* The page of the next byte.
ItsPage(at, a, size) == at = IF buffer = <<>> THEN Floor(a, size) ELSE page

\* They grow together.
Grows(s, filled, a, v, k, size, at) ==
    /\ Trail(s) /\ Trail(filled) /\ Len(buffer) \in Nat
    /\ Len(filled) = Len(buffer) + 1 /\ Len(s) = Len(filled) + k
    /\ \A i \in 1..Len(filled) : filled[i] = s[i + k]
    /\ \A i \in 1..Len(trail) : s[i] = trail[i]
    /\ s[Len(s)][1] = a /\ s[Len(s)][2] = v
    /\ Floor(a, size) = at => \A i \in 1..Len(filled) : Floor(filled[i][1], size) = at
    /\ Floor(a, size) # at =>
          Len(buffer) > 0 /\ Floor(s[k + 1][1], size) # Floor(s[Len(s)][1], size)

\* A byte that comes continues the bytes so far, or its page is another.
LEMMA Filled ==
    ASSUME CommandInv, NEW a \in Int, NEW v \in Value, NEW s, NEW filled,
           Longer(s, trail, a, v), Longer(filled, buffer, a, v),
           NEW k \in Nat, NEW size, Carried(k, size), NEW at, ItsPage(at, a, size)
    PROVE  Grows(s, filled, a, v, k, size, at)
<1>1. Trail(trail) /\ Trail(buffer)
  BY DEF CommandInv, CommandType
<1>8. /\ Len(trail) = Len(buffer) + k
      /\ \A i \in 1..Len(buffer) : /\ buffer[i] = trail[i + k]
                                   /\ Floor(buffer[i][1], size) = page
  BY DEF Carried
<1>9. at = IF buffer = <<>> THEN Floor(a, size) ELSE page
  BY DEF ItsPage
<1>2. /\ Trail(s) /\ Len(s) = Len(trail) + 1 /\ Len(trail) \in Nat
      /\ \A i \in 1..Len(trail) : s[i] = trail[i]
      /\ s[Len(s)] = <<a, v>> /\ s[Len(s)][1] = a /\ s[Len(s)][2] = v
  <2>1. Grew(s, trail, a, v)
    BY ONLY <1>1, a \in Int, v \in Value, Longer(s, trail, a, v), OneMore
  <2> QED BY ONLY <2>1 DEF Grew
<1>3. /\ Trail(filled) /\ Len(filled) = Len(buffer) + 1 /\ Len(buffer) \in Nat
      /\ \A i \in 1..Len(buffer) : filled[i] = buffer[i]
      /\ filled[Len(filled)] = <<a, v>> /\ filled[Len(filled)][1] = a
  <2>1. Grew(filled, buffer, a, v)
    BY ONLY <1>1, a \in Int, v \in Value, Longer(filled, buffer, a, v), OneMore
  <2> QED BY ONLY <2>1 DEF Grew
<1>4. Len(s) = Len(filled) + k
  BY <1>2, <1>3, <1>8
<1>5. \A i \in 1..Len(filled) : filled[i] = s[i + k]
  <2> SUFFICES ASSUME NEW i \in 1..Len(filled)
               PROVE  filled[i] = s[i + k]
    OBVIOUS
  <2>1. CASE i \in 1..Len(buffer)
    <3>1. filled[i] = buffer[i] /\ buffer[i] = trail[i + k]
      BY <1>3, <1>8, <2>1
    <3>2. i + k \in 1..Len(trail)
      BY <1>3, <1>8, <2>1
    <3> QED BY <3>1, <3>2, <1>2
  <2>2. CASE i = Len(filled)
    BY ONLY <1>2, <1>3, <1>4, <2>2, k \in Nat
  <2> QED BY <1>3, <2>1, <2>2
<1>6. ASSUME Floor(a, size) = at, NEW i \in 1..Len(filled)
      PROVE  Floor(filled[i][1], size) = at
  <2>1. CASE i \in 1..Len(buffer)
    <3>1. filled[i] = buffer[i] /\ Floor(buffer[i][1], size) = page
      BY <1>3, <1>8, <2>1
    <3>2. buffer # <<>>
      BY <1>3, <2>1, EmptySeq
    <3> QED BY <3>1, <3>2, <1>9, <1>6
  <2>2. CASE i = Len(filled)
    BY <1>3, <1>6, <2>2
  <2> QED BY <1>3, <2>1, <2>2
<1>7. ASSUME Floor(a, size) # at
      PROVE  Len(buffer) > 0 /\ Floor(s[k + 1][1], size) # Floor(s[Len(s)][1], size)
  <2>1. buffer # <<>> /\ at = page
    BY <1>7, <1>9
  <2>2. Len(buffer) > 0
    BY <2>1, <1>1, <1>3, EmptySeq DEF Trail
  <2>3. buffer[1] = trail[1 + k] /\ Floor(buffer[1][1], size) = page
    BY <2>2, <1>3, <1>8
  <2>4. 1 + k \in 1..Len(trail) /\ 1 + k = k + 1
    BY <2>2, <1>3, <1>8
  <2>5. s[k + 1] = buffer[1]
    BY <2>3, <2>4, <1>2
  <2> QED BY <2>1, <2>2, <2>3, <2>5, <1>2, <1>7
<1> QED BY <1>2, <1>3, <1>4, <1>5, <1>6, <1>7 DEF Grows

---------------------------------------------------------------------------
(* What a command does to a cell.                                          *)

\* Every cell is what the trail "s" makes of it.
Effect(conf, s) ==
    \A c \in Cell : flash'[c] = Outcome(conf, Data(s), Blanked(s), c)

\* No data changes no bit of a cell.
LEMMA NoData ==
    ASSUME NEW d, d = <<>>, NEW c, NEW cells
    PROVE  cells = {b \in cells : \A i \in DOMAIN d : d[i][1] = c => b \in Bits(d[i][2])}
<1>1. DOMAIN d = {}
  OBVIOUS
<1> QED BY ONLY <1>1, Zenon

\* Where there is no command, an unchanged flash is what the writes make of it.
LEMMA NothingChanges ==
    ASSUME NEW conf, NEW s, NoCommand(s), flash' = flash
    PROVE  Effect(conf, s)
<1> DEFINE data == Data(s)
<1>1. data = <<>> /\ Blanked(s) = {}
  BY NoEffect
<1> HIDE DEF data
<1>2. ASSUME NEW c \in Cell
      PROVE  flash[c] = Outcome(conf, data, {}, c)
  <2>1. flash[c] = {b \in flash[c] : \A i \in DOMAIN data :
                                         data[i][1] = c => b \in Bits(data[i][2])}
    BY <1>1, NoData
  <2> QED BY ONLY <2>1, Zenon DEF Outcome
<1> QED BY <1>1, <1>2 DEF Effect, data

\* The cells the chip may write are all but the protected recovery area.
LEMMA CellBound ==
    ASSUME CellAssumption, NEW conf, NEW c \in Cell
    PROVE  c \in Writable(conf) <=> ~Recovery(conf, c)
<1>1. c \in Int
  BY ONLY CellAssumption, c \in Cell, SMT DEF CellAssumption
<1>2. CASE recovery_protected(conf)
  <2>1. Writable(conf) = {d \in Cell : d >= 16384}
    BY ONLY <1>2, SMT DEF Writable
  <2> QED BY ONLY <1>1, <1>2, <2>1, c \in Cell, SMT DEF Recovery
<1>3. CASE ~recovery_protected(conf)
  BY ONLY <1>3, c \in Cell, SMT DEF Recovery, Writable
<1> QED BY <1>2, <1>3

\* Programming the data of a command is its outcome.
LEMMA BytesProgrammed ==
    ASSUME CellAssumption, NEW conf, NEW s, Blanked(s) = {},
           flash' = Programmed(conf, Data(s))
    PROVE  Effect(conf, s)
<1> SUFFICES ASSUME NEW c \in Cell
             PROVE  flash'[c] = Outcome(conf, Data(s), {}, c)
  BY DEF Effect
<1> DEFINE rest == {b \in flash[c] : \A i \in DOMAIN Data(s) :
                                         Data(s)[i][1] = c => b \in Bits(Data(s)[i][2])}
<1>1. flash'[c] = IF c \in Writable(conf) THEN rest ELSE flash[c]
  BY Zenon DEF Programmed
<1>2. Outcome(conf, Data(s), {}, c)
        = IF Recovery(conf, c) THEN flash[c] ELSE rest
  BY Zenon DEF Outcome
<1> HIDE DEF rest
<1> QED BY <1>1, <1>2, CellBound

\* Erasing what a command blanks is its outcome.
LEMMA CellsErased ==
    ASSUME CellAssumption, NEW conf, NEW s, Data(s) = <<>>,
           flash' = Erased(conf, Blanked(s))
    PROVE  Effect(conf, s)
<1> DEFINE data == Data(s)
           blank == Blanked(s)
<1> SUFFICES ASSUME NEW c \in Cell
             PROVE  flash'[c] = Outcome(conf, data, blank, c)
  BY DEF Effect
<1>1. data = <<>> /\ flash' = Erased(conf, blank)
  OBVIOUS
<1> HIDE DEF data, blank
<1>2. flash'[c] = IF c \in blank /\ c \in Writable(conf) THEN Bit ELSE flash[c]
  BY <1>1, Zenon DEF Erased
<1>3. flash[c] = {b \in flash[c] : \A i \in DOMAIN data :
                                       data[i][1] = c => b \in Bits(data[i][2])}
  BY <1>1, NoData
<1>4. Outcome(conf, data, blank, c)
        = IF Recovery(conf, c) THEN flash[c]
          ELSE IF c \in blank THEN Bit ELSE flash[c]
  BY ONLY <1>3, Zenon DEF Outcome
<1> QED BY <1>2, <1>4, CellBound

---------------------------------------------------------------------------
(* The stages: each write keeps the inductive invariant and has its effect. *)

\* What a write makes of the trail, whatever the stage.
LEMMA Grown ==
    ASSUME CommandInv, NEW a \in Int, NEW v \in Value, NEW s,
           Longer(s, trail, a, v), Heard(a, v)
    PROVE  /\ Grew(s, trail, a, v)
           /\ stage' = 0 => trail' = <<>>
           /\ stage' # 0 => trail' = s
<1>1. Trail(trail)
  BY DEF CommandInv, CommandType
<1>2. /\ stage' = 0 => trail' = <<>>
      /\ stage' # 0 => trail' = s
  BY Zenon DEF Heard, Longer
<1>3. Grew(s, trail, a, v)
  BY ONLY <1>1, a \in Int, v \in Value, Longer(s, trail, a, v), OneMore
<1> QED BY <1>2, <1>3

\* A command that goes on keeps its trail, one that ends has none.
LEMMA TrailAfter ==
    ASSUME NEW a, NEW v, NEW s, Longer(s, trail, a, v), Heard(a, v)
    PROVE  /\ stage' = 0 => trail' = <<>>
           /\ stage' # 0 => trail' = s
BY Zenon DEF Heard, Longer

\* The first write: an unlock cycle, or a short program (stage 0).
LEMMA FirstWorks ==
    ASSUME CommandInv, NEW conf, NEW a \in Int, NEW v \in Value, NEW s,
           Longer(s, trail, a, v), stage = 0, First(a, v), Heard(a, v)
    PROVE  CommandInv' /\ Effect(conf, s)
<1>1. Len(trail) = 0
  BY DEF CommandInv, StageInv
<1>2. /\ Trail(s) /\ Len(s) = 1 /\ s[1][1] = a /\ s[1][2] = v
      /\ stage' = 0 => trail' = <<>>
      /\ stage' # 0 => trail' = s
  <2>1. /\ Trail(s) /\ Len(s) = Len(trail) + 1
        /\ s[Len(s)][1] = a /\ s[Len(s)][2] = v
        /\ stage' = 0 => trail' = <<>>
        /\ stage' # 0 => trail' = s
    <3>1. /\ Grew(s, trail, a, v)
          /\ stage' = 0 => trail' = <<>>
          /\ stage' # 0 => trail' = s
      BY Grown
    <3> QED BY ONLY <3>1 DEF Grew
  <2> QED BY ONLY <2>1, <1>1
<1>3. /\ flash' = flash
      /\ \/ stage' = 0 /\ UNCHANGED <<remaining, expected, buffer, page, sector>>
         \/ /\ a % 4096 \in At555 /\ v = \haa /\ stage' = 1
            /\ UNCHANGED <<remaining, expected, buffer, page, sector>>
         \/ /\ a % 4096 \in At555 /\ UNCHANGED <<expected, page, sector>> /\ buffer' = <<>>
            /\ \/ v = \h50 /\ stage' = 7 /\ remaining' = 2
               \/ v = \h56 /\ stage' = 8 /\ remaining' = 4
  <2>1. (a \div 2) % 2048 = 1365 <=> a % 4096 \in At555
    BY UnlockAddresses
  <2>2. flash' = flash
    BY ONLY First(a, v), SMT DEF First, Keep, unlock_address
  <2>3. \/ UNCHANGED command
        \/ (a \div 2) % 2048 = 1365 /\ v = \haa /\ Stage(1)
        \/ (a \div 2) % 2048 = 1365 /\ v = \h50 /\ Multiple(7, 2)
        \/ (a \div 2) % 2048 = 1365 /\ v = \h56 /\ Multiple(8, 4)
    BY ONLY First(a, v), SMT DEF First, unlock_address
  <2> QED BY ONLY <2>1, <2>2, <2>3, stage = 0, SMT DEF Stage, Multiple, command
<1>4. Effect(conf, s)
  <2>1. NoCommand(s)
    <3>1. Trail(s) /\ Len(s) = 1
      BY <1>2
    <3> QED BY ONLY <3>1, TooShort
  <2>2. flash' = flash
    BY ONLY <1>3
  <2> QED BY ONLY <2>1, <2>2, NothingChanges
<1>5. CommandType'
  BY ONLY CommandInv, <1>2, <1>3, NoTrail, SMTT(20) DEF CommandInv, CommandType
<1>6. StageInv'
  <2>1. CASE stage' = 0
    BY ONLY <1>2, <2>1 DEF StageInv
  <2>2. CASE stage' = 1
    BY ONLY <1>2, <1>3, <2>2 DEF StageInv, Is
  <2>3. CASE stage' = 7
    BY ONLY <1>2, <1>3, <2>3 DEF StageInv, ShortSoFar, Carried, Is
  <2>4. CASE stage' = 8
    BY ONLY <1>2, <1>3, <2>4 DEF StageInv, ShortSoFar, Carried, Is
  <2> QED BY ONLY <1>3, <2>1, <2>2, <2>3, <2>4
<1> QED BY <1>4, <1>5, <1>6 DEF CommandInv

\* A command that ends, or is given up, leaves no trail.
LEMMA Ended ==
    ASSUME CommandInv, stage' = 0, trail' = <<>>, clear_flash_command \/ Stage(0)
    PROVE  CommandInv'
<1>1. CommandType'
  <2>1. CASE clear_flash_command
    BY ONLY <2>1, trail' = <<>>, NoTrail DEF clear_flash_command, CommandType
  <2>2. CASE Stage(0)
    BY ONLY <2>2, CommandInv, trail' = <<>>, NoTrail
       DEF Stage, CommandInv, CommandType
  <2> QED BY <2>1, <2>2
<1>2. StageInv'
  BY ONLY stage' = 0, trail' = <<>> DEF StageInv
<1> QED BY <1>1, <1>2 DEF CommandInv

\* The unlock cycles after the first.
LEMMA UnlockWorks ==
    ASSUME CommandInv, NEW conf, NEW a \in Int, NEW v \in Value, NEW s,
           Longer(s, trail, a, v), Keep, Heard(a, v),
           \/ stage \in {1, 3, 4} /\ Stage(0)
           \/ stage = 1 /\ a % 4096 \in At2AA /\ v = \h55 /\ Stage(2)
           \/ stage = 3 /\ a % 4096 \in At555 /\ v = \haa /\ Stage(4)
           \/ stage = 4 /\ a % 4096 \in At2AA /\ v = \h55 /\ Stage(5)
    PROVE  CommandInv' /\ Effect(conf, s)
<1>1. /\ Trail(s) /\ Len(s) = Len(trail) + 1 /\ Len(trail) \in Nat
      /\ \A i \in 1..Len(trail) : s[i] = trail[i]
      /\ s[Len(s)][1] = a /\ s[Len(s)][2] = v
      /\ stage' = 0 => trail' = <<>>
      /\ stage' # 0 => trail' = s
  <2>1. /\ Grew(s, trail, a, v)
        /\ stage' = 0 => trail' = <<>>
        /\ stage' # 0 => trail' = s
    BY Grown
  <2> QED BY ONLY <2>1 DEF Grew
<1>2. /\ stage \in {1, 3, 4}
      /\ stage = 1 => Len(s) = 2 /\ Is(s[1], At555, \haa)
      /\ stage = 3 => Len(s) = 4 /\ Unlocked(s, 1) /\ Is(s[3], At555, \h80)
      /\ stage = 4 => /\ Len(s) = 5 /\ Unlocked(s, 1) /\ Is(s[3], At555, \h80)
                      /\ Is(s[4], At555, \haa)
  <2>1. stage \in {1, 3, 4}
    BY DEF Stage
  <2> QED BY ONLY <1>1, <2>1, CommandInv, SMTT(30)
     DEF CommandInv, StageInv, Prefixed, Unlocked
<1>3. Effect(conf, s)
  <2>1. s[1][2] = \haa /\ Len(s) \in 1..5 /\ (Len(s) = 4 => s[3][2] # \ha0)
    BY ONLY <1>2 DEF Is, Unlocked
  <2>2. NoCommand(s)
    <3>1. Trail(s)
      BY <1>1
    <3> QED BY ONLY <2>1, <3>1, TooShort
  <2>3. flash' = flash
    BY DEF Keep
  <2> QED BY ONLY <2>2, <2>3, NothingChanges
<1>4. CASE Stage(0)
  <2>1. stage' = 0
    BY <1>4 DEF Stage
  <2>2. CommandInv'
    BY <2>1, <1>1, <1>4, Ended
  <2> QED BY <2>2, <1>3
<1>5. CASE ~Stage(0)
  <2>1. \/ stage = 1 /\ a % 4096 \in At2AA /\ v = \h55 /\ Stage(2)
        \/ stage = 3 /\ a % 4096 \in At555 /\ v = \haa /\ Stage(4)
        \/ stage = 4 /\ a % 4096 \in At2AA /\ v = \h55 /\ Stage(5)
    BY <1>5
  <2>2. CommandType'
    BY ONLY <2>1, <1>1, CommandInv DEF Stage, CommandInv, CommandType
  <2>3. StageInv'
    <3>1. CASE stage = 1
      BY ONLY <3>1, <2>1, <1>1, <1>2 DEF Stage, StageInv, Unlocked, Is
    <3>2. CASE stage = 3
      BY ONLY <3>2, <2>1, <1>1, <1>2 DEF Stage, StageInv, Unlocked, Is
    <3>3. CASE stage = 4
      BY ONLY <3>3, <2>1, <1>1, <1>2 DEF Stage, StageInv, Unlocked, Is
    <3> QED BY ONLY <2>1, <3>1, <3>2, <3>3
  <2> QED BY <2>2, <2>3, <1>3 DEF CommandInv
<1> QED BY <1>4, <1>5

\* The third write chooses the command (stage 2).
LEMMA ThirdWorks ==
    ASSUME CommandInv, NEW conf, NEW a \in Int, NEW v \in Value, NEW s,
           Longer(s, trail, a, v), stage = 2, Third(a, v), Heard(a, v)
    PROVE  CommandInv' /\ Effect(conf, s)
<1>1. /\ Trail(s) /\ Len(s) = Len(trail) + 1 /\ Len(trail) \in Nat
      /\ \A i \in 1..Len(trail) : s[i] = trail[i]
      /\ s[Len(s)][1] = a /\ s[Len(s)][2] = v
      /\ stage' = 0 => trail' = <<>>
      /\ stage' # 0 => trail' = s
  <2>1. /\ Grew(s, trail, a, v)
        /\ stage' = 0 => trail' = <<>>
        /\ stage' # 0 => trail' = s
    BY ONLY CommandInv, a \in Int, v \in Value, Longer(s, trail, a, v), Heard(a, v), Grown
  <2> QED BY ONLY <2>1 DEF Grew
<1>2. Len(s) = 3 /\ Unlocked(s, 1) /\ s[3][1] = a /\ s[3][2] = v
  <2>1. Len(trail) = 2 /\ Unlocked(trail, 1)
    BY ONLY CommandInv, stage = 2 DEF CommandInv, StageInv
  <2>2. Len(s) = 3 /\ s[1] = trail[1] /\ s[2] = trail[2]
    BY ONLY <1>1, <2>1
  <2>3. Unlocked(s, 1)
    BY ONLY <2>1, <2>2 DEF Unlocked
  <2> QED BY ONLY <1>1, <2>2, <2>3
<1>3. flash' = flash
  BY ONLY Third(a, v), SMT DEF Third, Keep, unlock_address
<1>4. \/ Stage(0)
      \/ /\ v = \h25 /\ stage' = 9 /\ sector' = sector_base(a)
         /\ UNCHANGED <<remaining, expected, buffer, page>>
      \/ (a \div 2) % 2048 = 1365 /\ v = \ha0 /\ Stage(6)
      \/ (a \div 2) % 2048 = 1365 /\ v = \h80 /\ Stage(3)
  BY ONLY Third(a, v), SMT DEF Third, unlock_address
<1>5. (a \div 2) % 2048 = 1365 => Is(s[3], At555, v)
  BY <1>2, UnlockAddresses DEF Is
<1>6. Effect(conf, s)
  <2>1. s[1][2] = \haa /\ Len(s) \in 1..5 /\ Len(s) # 4
    BY ONLY <1>2 DEF Is, Unlocked
  <2>2. NoCommand(s)
    <3>1. Trail(s)
      BY <1>1
    <3> QED BY ONLY <2>1, <3>1, TooShort
  <2> QED BY ONLY <2>2, <1>3, NothingChanges
<1>7. CASE Stage(0)
  <2>1. stage' = 0
    BY <1>7 DEF Stage
  <2>2. CommandInv'
    BY <2>1, <1>1, <1>7, Ended
  <2> QED BY <2>2, <1>6
<1>8. CASE v = \h25 /\ stage' = 9 /\ sector' = sector_base(a)
           /\ UNCHANGED <<remaining, expected, buffer, page>>
  <2>1. sector_base(a) \in Int
    BY BaseType
  <2>2. CommandType'
    BY ONLY <2>1, <1>1, <1>8, CommandInv DEF CommandInv, CommandType
  <2>3. StageInv'
    <3>1. stage' = 9 /\ trail' = s /\ sector' = sector_base(a)
      BY ONLY <1>1, <1>8
    <3>2. Len(s) = 3 /\ Unlocked(s, 1) /\ s[3][2] = \h25
      BY ONLY <1>2, <1>8
    <3>3. sector_base(s[3][1]) = sector_base(a)
      BY ONLY <1>2
    <3> QED BY ONLY <3>1, <3>2, <3>3 DEF StageInv
  <2> QED BY <2>2, <2>3, <1>6 DEF CommandInv
<1>9. CASE (a \div 2) % 2048 = 1365 /\ v = \ha0 /\ Stage(6)
  <2>2. CommandType'
    BY ONLY <1>1, <1>9, CommandInv DEF CommandInv, CommandType, Stage
  <2>3. StageInv'
    <3>1. stage' = 6 /\ trail' = s
      BY ONLY <1>1, <1>9 DEF Stage
    <3>2. Prefixed(s, 3, \ha0)
      BY ONLY <1>2, <1>5, <1>9 DEF Prefixed
    <3> QED BY ONLY <3>1, <3>2 DEF StageInv
  <2> QED BY <2>2, <2>3, <1>6 DEF CommandInv
<1>10. CASE (a \div 2) % 2048 = 1365 /\ v = \h80 /\ Stage(3)
  <2>2. CommandType'
    BY ONLY <1>1, <1>10, CommandInv DEF CommandInv, CommandType, Stage
  <2>3. StageInv'
    <3>1. stage' = 3 /\ trail' = s
      BY ONLY <1>1, <1>10 DEF Stage
    <3>2. Prefixed(s, 3, \h80)
      BY ONLY <1>2, <1>5, <1>10 DEF Prefixed
    <3> QED BY ONLY <3>1, <3>2 DEF StageInv
  <2> QED BY <2>2, <2>3, <1>6 DEF CommandInv
<1> QED BY <1>4, <1>7, <1>8, <1>9, <1>10

\* The sixth write erases a sector or the chip (stage 5).
LEMMA SixthWorks ==
    ASSUME CellAssumption, CommandInv, NEW conf, NEW a \in Int, NEW v \in Value,
           NEW s, Longer(s, trail, a, v), stage = 5, Sixth(conf, a, v), Heard(a, v)
    PROVE  CommandInv' /\ Effect(conf, s)
<1>1. /\ Trail(s) /\ Len(s) = Len(trail) + 1 /\ Len(trail) \in Nat
      /\ \A i \in 1..Len(trail) : s[i] = trail[i]
      /\ s[Len(s)][1] = a /\ s[Len(s)][2] = v
      /\ stage' = 0 => trail' = <<>>
  <2>1. /\ Grew(s, trail, a, v)
        /\ stage' = 0 => trail' = <<>>
        /\ stage' # 0 => trail' = s
    BY Grown
  <2> QED BY ONLY <2>1 DEF Grew
<1>2. /\ ErasePrefix(s) /\ Len(s) = 6 /\ s[6][1] = a /\ s[6][2] = v
      /\ s[1][2] = \haa /\ s[3][2] = \h80
  <2>1. /\ Len(trail) = 5 /\ Unlocked(trail, 1) /\ Is(trail[3], At555, \h80)
        /\ Unlocked(trail, 4)
    BY ONLY CommandInv, stage = 5 DEF CommandInv, StageInv
  <2>2. Len(s) = 6 /\ \A i \in 1..5 : s[i] = trail[i]
    BY ONLY <1>1, <2>1
  <2>3. Unlocked(s, 1) /\ Is(s[3], At555, \h80) /\ Unlocked(s, 4)
    BY ONLY <2>1, <2>2 DEF Unlocked
  <2>4. s[1][2] = \haa /\ s[3][2] = \h80
    BY ONLY <2>3 DEF Unlocked, Is
  <2> QED BY ONLY <1>1, <2>2, <2>3, <2>4 DEF ErasePrefix, Prefixed
<1>3. Stage(0) /\ stage' = 0
  BY ONLY Sixth(conf, a, v) DEF Sixth, Stage
<1>4. CommandInv'
  BY <1>1, <1>3, Ended
<1>5. Data(s) = <<>>
  <2>1. ~SingleProgram(s)
    BY ONLY <1>2 DEF SingleProgram, Prefixed
  <2>2. ~ShortProgram(s, 2, \h50) /\ ~ShortProgram(s, 4, \h56)
    BY ONLY <1>2 DEF ShortProgram, Is
  <2>3. ~BufferedProgram(s)
    BY ONLY <1>2 DEF BufferedProgram
  <2> QED BY ONLY <2>1, <2>2, <2>3 DEF Data
<1>6. (a \div 2) % 2048 = 1365 <=> a % 4096 \in At555
  BY UnlockAddresses
<1>7. CASE v = \h30
  <2>1. Blanked(s) = InSector(sector_base(a))
    <3>1. SectorErase(s) /\ ~ChipErase(s)
      BY ONLY <1>2, <1>7 DEF SectorErase, ChipErase, Is
    <3> QED BY ONLY <1>2, <3>1 DEF Blanked
  <2>2. flash' = Erased(conf, InSector(sector_base(a)))
    BY ONLY <1>7, Sixth(conf, a, v), SMT DEF Sixth, unlock_address
  <2>3. flash' = Erased(conf, Blanked(s))
    BY ONLY <2>1, <2>2
  <2>4. Effect(conf, s)
    BY ONLY CellAssumption, <1>5, <2>3, CellsErased
  <2> QED BY <1>4, <2>4
<1>8. CASE v = \h10 /\ a % 4096 \in At555
  <2>1. Blanked(s) = Cell
    BY ONLY <1>2, <1>8 DEF Blanked, SectorErase, ChipErase, Is
  <2>2. flash' = Erased(conf, Cell)
    BY ONLY <1>6, <1>8, Sixth(conf, a, v), SMT DEF Sixth, unlock_address
  <2>3. flash' = Erased(conf, Blanked(s))
    BY ONLY <2>1, <2>2
  <2>4. Effect(conf, s)
    BY ONLY CellAssumption, <1>5, <2>3, CellsErased
  <2> QED BY <1>4, <2>4
<1>9. CASE v # \h30 /\ ~(v = \h10 /\ a % 4096 \in At555)
  <2>1. ~SectorErase(s) /\ ~ChipErase(s)
    BY ONLY <1>2, <1>9 DEF SectorErase, ChipErase, Is
  <2>2. NoCommand(s)
    <3>1. ~SingleProgram(s)
      BY ONLY <1>2 DEF SingleProgram, Prefixed
    <3>2. ~ShortProgram(s, 2, \h50) /\ ~ShortProgram(s, 4, \h56)
      BY ONLY <1>2 DEF ShortProgram, Is
    <3>3. ~BufferedProgram(s)
      BY ONLY <1>2 DEF BufferedProgram
    <3> QED BY ONLY <2>1, <3>1, <3>2, <3>3 DEF NoCommand
  <2>3. flash' = flash
    BY ONLY <1>6, <1>9, Sixth(conf, a, v), SMT DEF Sixth, unlock_address
  <2>4. Effect(conf, s)
    BY ONLY <2>2, <2>3, NothingChanges
  <2> QED BY <1>4, <2>4
<1> QED BY <1>7, <1>8, <1>9

\* The byte of a single program (stage 6).
LEMMA SingleWorks ==
    ASSUME CellAssumption, CommandInv, NEW conf, NEW a \in Int, NEW v \in Value,
           NEW s, Longer(s, trail, a, v), stage = 6, Single(conf, a, v), Heard(a, v)
    PROVE  CommandInv' /\ Effect(conf, s)
<1>1. /\ Trail(s) /\ Len(s) = Len(trail) + 1 /\ Len(trail) \in Nat
      /\ \A i \in 1..Len(trail) : s[i] = trail[i]
      /\ s[Len(s)] = <<a, v>>
      /\ stage' = 0 => trail' = <<>>
  <2>1. /\ Grew(s, trail, a, v)
        /\ stage' = 0 => trail' = <<>>
        /\ stage' # 0 => trail' = s
    BY Grown
  <2> QED BY ONLY <2>1 DEF Grew
<1>2. SingleProgram(s) /\ Len(s) = 4 /\ s[4] = <<a, v>>
  <2>1. Len(trail) = 3 /\ Unlocked(trail, 1) /\ Is(trail[3], At555, \ha0)
    BY ONLY CommandInv, stage = 6 DEF CommandInv, StageInv, Prefixed
  <2>2. Len(s) = 4 /\ \A i \in 1..3 : s[i] = trail[i]
    BY ONLY <1>1, <2>1
  <2>3. Unlocked(s, 1) /\ Is(s[3], At555, \ha0)
    BY ONLY <2>1, <2>2 DEF Unlocked
  <2> QED BY ONLY <1>1, <2>2, <2>3 DEF SingleProgram, Prefixed
<1>3. Stage(0) /\ stage' = 0
  BY ONLY Single(conf, a, v) DEF Single, Stage
<1>4. CommandInv'
  BY <1>1, <1>3, Ended
<1>5. Data(s) = <<<<a, v>>>>
  <2>1. ~ShortProgram(s, 2, \h50) /\ ~ShortProgram(s, 4, \h56)
    BY ONLY <1>2 DEF ShortProgram
  <2>2. ~BufferedProgram(s)
    BY ONLY <1>2 DEF BufferedProgram
  <2> QED BY ONLY <1>2, <2>1, <2>2 DEF Data
<1>6. Blanked(s) = {}
  <2>1. ~ErasePrefix(s)
    BY ONLY <1>2 DEF ErasePrefix, Prefixed
  <2> QED BY ONLY <2>1 DEF Blanked, SectorErase, ChipErase
<1>7. flash' = Programmed(conf, Data(s))
  BY ONLY <1>5, Single(conf, a, v) DEF Single
<1>8. Effect(conf, s)
  BY ONLY CellAssumption, <1>6, <1>7, BytesProgrammed
<1> QED BY <1>4, <1>8

\* Double and quadruple programs: "n" bytes after "value".
LEMMA MultiWorks ==
    ASSUME CellAssumption, CommandInv, NEW conf, NEW a \in Int, NEW v \in Value,
           NEW s, Longer(s, trail, a, v), Multi(conf, a, v), Heard(a, v),
           NEW n, NEW value,
           \/ stage = 7 /\ n = 2 /\ value = \h50
           \/ stage = 8 /\ n = 4 /\ value = \h56
    PROVE  CommandInv' /\ Effect(conf, s)
<1> DEFINE at == IF buffer = <<>> THEN Floor(a, 8) ELSE page
           filled == Append(buffer, <<a, v>>)
<1>1. /\ Carried(1, 8) /\ Len(buffer) + remaining = n /\ remaining >= 1
      /\ Is(trail[1], At555, value)
  <2>1. CASE stage = 7 /\ n = 2 /\ value = \h50
    <3>1. ShortSoFar(2, \h50)
      BY ONLY <2>1, CommandInv DEF CommandInv, StageInv
    <3> QED BY ONLY <2>1, <3>1 DEF ShortSoFar
  <2>2. CASE stage = 8 /\ n = 4 /\ value = \h56
    <3>1. ShortSoFar(4, \h56)
      BY ONLY <2>2, CommandInv DEF CommandInv, StageInv
    <3> QED BY ONLY <2>2, <3>1 DEF ShortSoFar
  <2> QED BY <2>1, <2>2
<1>2. Longer(filled, buffer, a, v) /\ ItsPage(at, a, 8)
  BY DEF Longer, ItsPage
<1>3. /\ Floor(a, 8) # at => clear_flash_command /\ flash' = flash
      /\ Floor(a, 8) = at /\ remaining > 1 =>
            /\ page' = at /\ buffer' = filled /\ remaining' = remaining - 1
            /\ stage' = stage /\ expected' = expected /\ sector' = sector /\ flash' = flash
      /\ Floor(a, 8) = at /\ ~(remaining > 1) =>
            clear_flash_command /\ flash' = Programmed(conf, filled)
  BY ONLY Multi(conf, a, v), Zenon DEF Multi
<1> HIDE DEF at, filled
<1>4. /\ Trail(s) /\ Trail(filled) /\ Len(buffer) \in Nat
      /\ Len(filled) = Len(buffer) + 1 /\ Len(s) = Len(filled) + 1
      /\ \A i \in 1..Len(filled) : filled[i] = s[i + 1]
      /\ \A i \in 1..Len(trail) : s[i] = trail[i]
      /\ Floor(a, 8) = at => \A i \in 1..Len(filled) : Floor(filled[i][1], 8) = at
      /\ Floor(a, 8) # at =>
            Len(buffer) > 0 /\ Floor(s[1 + 1][1], 8) # Floor(s[Len(s)][1], 8)
  <2> DEFINE k == 1
             eight == 8
  <2>1. k \in Nat /\ Carried(k, eight) /\ ItsPage(at, a, eight)
    BY <1>1, <1>2
  <2> HIDE DEF k, eight
  <2>2. Grows(s, filled, a, v, k, eight, at)
    BY ONLY CommandInv, a \in Int, v \in Value, Longer(s, trail, a, v), <2>1, <1>2, Filled
  <2> QED BY <2>2 DEF Grows, k, eight
<1>5. /\ stage' = 0 => trail' = <<>>
      /\ stage' # 0 => trail' = s
  BY ONLY Longer(s, trail, a, v), Heard(a, v), TrailAfter
<1>6. /\ Is(s[1], At555, value) /\ s[1][2] = value /\ n \in {2, 4}
      /\ value \in {\h50, \h56} /\ (n = 2 <=> value = \h50) /\ value # \haa
      /\ remaining \in Int /\ Len(s) = n + 2 - remaining
  <2>1. s[1] = trail[1]
    BY ONLY <1>1, <1>4 DEF Carried
  <2>2. remaining \in Int
    BY DEF CommandInv, CommandType
  <2>3. /\ n \in {2, 4} /\ value \in {\h50, \h56} /\ (n = 2 <=> value = \h50)
        /\ value # \haa
    OBVIOUS
  <2> QED BY ONLY <1>1, <1>4, <2>1, <2>2, <2>3 DEF Is
<1>7. ASSUME ~ShortProgram(s, n, value)
      PROVE  NoCommand(s)
  <2>1. ~ShortProgram(s, 2, \h50) /\ ~ShortProgram(s, 4, \h56)
    BY ONLY <1>6, <1>7 DEF ShortProgram, Is
  <2> QED BY ONLY <1>6, <2>1, NotUnlocked
<1>8. Tail(s) = filled
  BY ONLY <1>4, TailIs
<1>9. CASE Floor(a, 8) # at
  <2>1. ~ShortProgram(s, n, value)
    <3>1. SUFFICES ASSUME Len(s) = n + 1, Together(filled, 8)
                   PROVE  FALSE
      BY <1>8 DEF ShortProgram
    <3>2. DOMAIN filled = 1..Len(filled)
      BY ONLY <1>4, LenProperties DEF Trail
    <3>3. 1 \in DOMAIN filled /\ Len(filled) \in DOMAIN filled
      BY <3>2, <1>4
    <3>4. Floor(filled[1][1], 8) = Floor(filled[Len(filled)][1], 8)
      BY ONLY <3>1, <3>3 DEF Together
    <3>5. filled[1] = s[1 + 1] /\ filled[Len(filled)] = s[Len(s)]
      BY ONLY <1>4
    <3> QED BY ONLY <3>4, <3>5, <1>4, <1>9
  <2>2. NoCommand(s)
    BY ONLY <2>1, <1>7
  <2>3. clear_flash_command /\ flash' = flash /\ stage' = 0
    BY ONLY <1>3, <1>9 DEF clear_flash_command
  <2>4. Effect(conf, s)
    BY ONLY <2>2, <2>3, NothingChanges
  <2>5. CommandInv'
    BY ONLY CommandInv, <2>3, <1>5, Ended
  <2> QED BY <2>4, <2>5
<1>10. CASE Floor(a, 8) = at /\ remaining > 1
  <2>1. ~ShortProgram(s, n, value)
    BY ONLY <1>6, <1>10 DEF ShortProgram
  <2>2. NoCommand(s)
    BY ONLY <2>1, <1>7
  <2>3. /\ page' = at /\ buffer' = filled /\ remaining' = remaining - 1
        /\ stage' = stage /\ expected' = expected /\ sector' = sector /\ flash' = flash
    BY ONLY <1>3, <1>10
  <2>4. Effect(conf, s)
    BY ONLY <2>2, <2>3, NothingChanges
  <2>5. trail' = s /\ stage \in {7, 8}
    BY <1>5, <2>3
  <2>6. CommandType'
    <3>1. Floor(a, 8) \in Int /\ page \in Int
      BY BaseType DEF CommandInv, CommandType
    <3>2. at \in Int
      BY ONLY <3>1, <1>2 DEF ItsPage
    <3> QED BY ONLY CommandInv, <1>4, <1>6, <2>3, <2>5, <3>2 DEF CommandInv, CommandType
  <2>7. /\ Len(s) = Len(filled) + 1 /\ Len(filled) + (remaining - 1) = n
        /\ remaining - 1 >= 1 /\ Is(s[1], At555, value)
        /\ \A i \in 1..Len(filled) : filled[i] = s[i + 1] /\ Floor(filled[i][1], 8) = at
    BY ONLY <1>1, <1>4, <1>6, <1>10
  <2>8. CASE stage = 7 /\ n = 2 /\ value = \h50
    <3>1. ShortSoFar(2, \h50)'
      BY ONLY <2>3, <2>5, <2>7, <2>8 DEF ShortSoFar, Carried
    <3>2. stage' = 7
      BY <2>3, <2>8
    <3>3. StageInv'
      BY ONLY <3>1, <3>2 DEF StageInv
    <3> QED BY <2>4, <2>6, <3>3 DEF CommandInv
  <2>9. CASE stage = 8 /\ n = 4 /\ value = \h56
    <3>1. ShortSoFar(4, \h56)'
      BY ONLY <2>3, <2>5, <2>7, <2>9 DEF ShortSoFar, Carried
    <3>2. stage' = 8
      BY <2>3, <2>9
    <3>3. StageInv'
      BY ONLY <3>1, <3>2 DEF StageInv
    <3> QED BY <2>4, <2>6, <3>3 DEF CommandInv
  <2> QED BY <2>8, <2>9
<1>11. CASE Floor(a, 8) = at /\ ~(remaining > 1)
  <2>1. clear_flash_command /\ stage' = 0 /\ flash' = Programmed(conf, filled)
    BY ONLY <1>3, <1>11 DEF clear_flash_command
  <2>2. Len(s) = n + 1
    BY ONLY <1>1, <1>6, <1>11
  <2>3. Together(Tail(s), 8)
    <3>1. Trail(filled) /\ \A i \in 1..Len(filled) : Floor(filled[i][1], 8) = at
      BY ONLY <1>4, <1>11
    <3>2. Together(filled, 8)
      BY ONLY <3>1, AllTogether
    <3> QED BY ONLY <1>8, <3>2
  <2>4. ShortProgram(s, n, value)
    BY ONLY <1>6, <2>2, <2>3 DEF ShortProgram
  <2>5. ShortProgram(s, 2, \h50) \/ ShortProgram(s, 4, \h56)
    BY ONLY <1>6, <2>4
  <2>6. ~SingleProgram(s) /\ ~BufferedProgram(s) /\ Blanked(s) = {}
    <3>1. ~Unlocked(s, 1)
      BY ONLY <1>6 DEF Unlocked, Is
    <3> QED BY ONLY <3>1 DEF SingleProgram, BufferedProgram, Blanked, SectorErase,
                             ChipErase, ErasePrefix, Prefixed
  <2>7. Data(s) = filled
    BY ONLY <1>8, <2>5, <2>6 DEF Data
  <2>8. flash' = Programmed(conf, Data(s))
    BY ONLY <2>1, <2>7
  <2>9. Effect(conf, s)
    BY ONLY CellAssumption, <2>6, <2>8, BytesProgrammed
  <2>10. CommandInv'
    BY ONLY CommandInv, <2>1, <1>5, Ended
  <2> QED BY <2>9, <2>10
<1> QED BY <1>9, <1>10, <1>11

\* With 25 in the third write it can only be a buffered program.
LEMMA OnlyBuffered ==
    ASSUME NEW s, Unlocked(s, 1), s[3][2] = \h25
    PROVE  /\ ~SingleProgram(s) /\ ~ShortProgram(s, 2, \h50) /\ ~ShortProgram(s, 4, \h56)
           /\ Blanked(s) = {}
           /\ ~BufferedProgram(s) => NoCommand(s)
<1>1. s[1][2] = \haa
  BY DEF Unlocked, Is
<1>2. ~ShortProgram(s, 2, \h50) /\ ~ShortProgram(s, 4, \h56)
  BY ONLY <1>1 DEF ShortProgram, Is
<1>3. ~SingleProgram(s) /\ ~SectorErase(s) /\ ~ChipErase(s)
  BY ONLY s[3][2] = \h25 DEF SingleProgram, SectorErase, ChipErase, ErasePrefix, Prefixed, Is
<1>4. Blanked(s) = {}
  BY ONLY <1>3 DEF Blanked
<1> QED BY ONLY <1>2, <1>3, <1>4 DEF NoCommand

\* The count of a buffered program (stage 9).
LEMMA CountWorks ==
    ASSUME CommandInv, NEW conf, NEW a \in Int, NEW v \in Value, NEW s,
           Longer(s, trail, a, v), stage = 9, Count(a, v), Heard(a, v)
    PROVE  CommandInv' /\ Effect(conf, s)
<1>1. /\ Trail(s) /\ Len(s) = Len(trail) + 1 /\ Len(trail) \in Nat
      /\ \A i \in 1..Len(trail) : s[i] = trail[i]
      /\ s[Len(s)][1] = a /\ s[Len(s)][2] = v
      /\ stage' = 0 => trail' = <<>>
      /\ stage' # 0 => trail' = s
  <2>1. /\ Grew(s, trail, a, v)
        /\ stage' = 0 => trail' = <<>>
        /\ stage' # 0 => trail' = s
    BY Grown
  <2> QED BY ONLY <2>1 DEF Grew
<1>2. /\ Len(s) = 4 /\ Unlocked(s, 1) /\ s[3][2] = \h25
      /\ sector_base(s[3][1]) = sector /\ s[4][1] = a /\ s[4][2] = v
  <2>1. /\ Len(trail) = 3 /\ Unlocked(trail, 1) /\ trail[3][2] = \h25
        /\ sector_base(trail[3][1]) = sector
    BY ONLY CommandInv, stage = 9 DEF CommandInv, StageInv
  <2>2. Len(s) = 4 /\ \A i \in 1..3 : s[i] = trail[i]
    BY ONLY <1>1, <2>1
  <2>3. Unlocked(s, 1)
    BY ONLY <2>1, <2>2 DEF Unlocked
  <2> QED BY ONLY <1>1, <2>1, <2>2, <2>3
<1>3. Effect(conf, s)
  <2>1. ~BufferedProgram(s)
    BY ONLY <1>2 DEF BufferedProgram
  <2>2. NoCommand(s)
    BY ONLY <1>2, <2>1, OnlyBuffered
  <2>3. flash' = flash
    BY ONLY Count(a, v) DEF Count, Keep
  <2> QED BY ONLY <2>2, <2>3, NothingChanges
<1>4. CASE sector_base(a) # sector \/ v >= 32
  <2>1. clear_flash_command /\ stage' = 0
    BY ONLY Count(a, v), <1>4 DEF Count, clear_flash_command
  <2>2. CommandInv'
    BY ONLY CommandInv, <2>1, <1>1, Ended
  <2> QED BY <1>3, <2>2
<1>5. CASE ~(sector_base(a) # sector \/ v >= 32)
  <2>1. /\ expected' = v + 1 /\ buffer' = <<>> /\ stage' = 10
        /\ remaining' = remaining /\ page' = page /\ sector' = sector
    BY ONLY Count(a, v), <1>5 DEF Count
  <2>2. trail' = s /\ v \in Nat
    BY <1>1, <2>1 DEF Value
  <2>3. CommandType'
    BY ONLY CommandInv, <1>1, <2>1, <2>2, NoTrail DEF CommandInv, CommandType
  <2>4. Len(buffer') = 0
    BY ONLY <2>1
  <2>5. Carried(4, 32)'
    BY ONLY <1>2, <2>2, <2>4 DEF Carried
  <2>6. (BufferedSoFar /\ Len(buffer) < expected)'
    <3>1. sector_base(s[4][1]) = sector
      BY ONLY <1>2, <1>5
    <3>2. v = (v + 1) - 1 /\ 0 < v + 1
      BY <2>2
    <3> QED BY ONLY <1>2, <2>1, <2>2, <2>4, <2>5, <3>1, <3>2 DEF BufferedSoFar
  <2>7. StageInv'
    BY ONLY <2>1, <2>6 DEF StageInv
  <2> QED BY <1>3, <2>3, <2>7 DEF CommandInv
<1> QED BY <1>4, <1>5

\* A byte of a buffered program (stage 10).
LEMMA FillWorks ==
    ASSUME CommandInv, NEW conf, NEW a \in Int, NEW v \in Value, NEW s,
           Longer(s, trail, a, v), stage = 10, Fill(a, v), Heard(a, v)
    PROVE  CommandInv' /\ Effect(conf, s)
<1> DEFINE at == IF buffer = <<>> THEN Floor(a, 32) ELSE page
           filled == Append(buffer, <<a, v>>)
<1>1. BufferedSoFar /\ Len(buffer) < expected
  BY ONLY CommandInv, stage = 10 DEF CommandInv, StageInv
<1>2. Longer(filled, buffer, a, v) /\ ItsPage(at, a, 32)
  BY DEF Longer, ItsPage
<1>3. /\ flash' = flash
      /\ Floor(a, 32) # at => clear_flash_command
      /\ Floor(a, 32) = at =>
            /\ page' = at /\ buffer' = filled
            /\ stage' = (IF Len(filled) = expected THEN 11 ELSE 10)
            /\ remaining' = remaining /\ expected' = expected /\ sector' = sector
  BY ONLY Fill(a, v), Zenon DEF Fill, Keep
<1> HIDE DEF at, filled
<1>4. /\ Trail(s) /\ Trail(filled) /\ Len(buffer) \in Nat
      /\ Len(filled) = Len(buffer) + 1 /\ Len(s) = Len(filled) + 4
      /\ \A i \in 1..Len(filled) : filled[i] = s[i + 4]
      /\ \A i \in 1..Len(trail) : s[i] = trail[i]
      /\ Floor(a, 32) = at => \A i \in 1..Len(filled) : Floor(filled[i][1], 32) = at
  <2> DEFINE k == 4
             size == 32
  <2>1. k \in Nat /\ Carried(k, size) /\ ItsPage(at, a, size)
    BY <1>1, <1>2 DEF BufferedSoFar
  <2> HIDE DEF k, size
  <2>2. Grows(s, filled, a, v, k, size, at)
    BY ONLY CommandInv, a \in Int, v \in Value, Longer(s, trail, a, v), <2>1, <1>2, Filled
  <2> QED BY <2>2 DEF Grows, k, size
<1>5. /\ stage' = 0 => trail' = <<>>
      /\ stage' # 0 => trail' = s
  BY ONLY Longer(s, trail, a, v), Heard(a, v), TrailAfter
<1>6. /\ Unlocked(s, 1) /\ s[3][2] = \h25 /\ s[4][2] = expected - 1
      /\ sector_base(s[3][1]) = sector /\ sector_base(s[4][1]) = sector
  <2>1. Len(trail) = Len(buffer) + 4
    BY <1>1 DEF BufferedSoFar, Carried
  <2>2. \A i \in 1..4 : s[i] = trail[i]
    BY ONLY <1>4, <2>1
  <2>3. Unlocked(s, 1)
    BY ONLY <1>1, <2>2 DEF BufferedSoFar, Unlocked
  <2> QED BY ONLY <1>1, <2>2, <2>3 DEF BufferedSoFar
<1>7. Effect(conf, s)
  <2>1. expected \in Int
    BY DEF CommandInv, CommandType
  <2>2. ~BufferedProgram(s)
    BY ONLY <1>1, <1>4, <1>6, <2>1 DEF BufferedProgram
  <2>3. NoCommand(s)
    BY ONLY <1>6, <2>2, OnlyBuffered
  <2> QED BY ONLY <1>3, <2>3, NothingChanges
<1>8. CASE Floor(a, 32) # at
  <2>1. clear_flash_command /\ stage' = 0
    BY ONLY <1>3, <1>8 DEF clear_flash_command
  <2>2. CommandInv'
    BY ONLY CommandInv, <2>1, <1>5, Ended
  <2> QED BY <1>7, <2>2
<1>9. CASE Floor(a, 32) = at
  <2>1. /\ page' = at /\ buffer' = filled
        /\ stage' = (IF Len(filled) = expected THEN 11 ELSE 10)
        /\ remaining' = remaining /\ expected' = expected /\ sector' = sector
    BY ONLY <1>3, <1>9
  <2>2. trail' = s /\ stage' \in {10, 11}
    BY ONLY <1>5, <2>1
  <2>3. CommandType'
    <3>1. Floor(a, 32) \in Int /\ page \in Int
      BY BaseType DEF CommandInv, CommandType
    <3>2. at \in Int
      BY ONLY <3>1, <1>2 DEF ItsPage
    <3> QED BY ONLY CommandInv, <1>4, <2>1, <2>2, <3>2 DEF CommandInv, CommandType
  <2>4. Carried(4, 32)'
    BY ONLY <1>4, <1>9, <2>1, <2>2 DEF Carried
  <2>5. BufferedSoFar'
    BY ONLY <1>6, <2>1, <2>2, <2>4 DEF BufferedSoFar
  <2>6. /\ stage' = 10 => Len(buffer') < expected'
        /\ stage' = 11 => Len(buffer') = expected'
    <3>1. expected \in Int
      BY DEF CommandInv, CommandType
    <3>2. Len(filled) <= expected
      BY ONLY <1>1, <1>4, <3>1
    <3> QED BY ONLY <1>4, <2>1, <3>1, <3>2
  <2>7. StageInv'
    BY ONLY <2>2, <2>5, <2>6 DEF StageInv
  <2> QED BY <1>7, <2>3, <2>7 DEF CommandInv
<1> QED BY <1>8, <1>9

\* The confirmation of a buffered program (stage 11).
LEMMA ConfirmWorks ==
    ASSUME CellAssumption, CommandInv, NEW conf, NEW a \in Int, NEW v \in Value,
           NEW s, Longer(s, trail, a, v), stage = 11, Confirm(conf, a, v), Heard(a, v)
    PROVE  CommandInv' /\ Effect(conf, s)
<1>1. BufferedSoFar /\ Len(buffer) = expected
  BY ONLY CommandInv, stage = 11 DEF CommandInv, StageInv
<1>2. /\ Trail(s) /\ Len(s) = Len(trail) + 1 /\ Len(trail) \in Nat
      /\ \A i \in 1..Len(trail) : s[i] = trail[i]
      /\ s[Len(s)][1] = a /\ s[Len(s)][2] = v
      /\ stage' = 0 => trail' = <<>>
  <2>1. /\ Grew(s, trail, a, v)
        /\ stage' = 0 => trail' = <<>>
        /\ stage' # 0 => trail' = s
    BY Grown
  <2> QED BY ONLY <2>1 DEF Grew
<1>3. /\ Trail(buffer) /\ Len(buffer) \in Nat /\ Len(s) = Len(buffer) + 5
      /\ \A i \in 1..Len(buffer) : buffer[i] = s[i + 4] /\ Floor(buffer[i][1], 32) = page
  <2>1. Trail(buffer) /\ Len(buffer) \in Nat
    BY TrailType DEF CommandInv, CommandType
  <2>2. /\ Len(trail) = Len(buffer) + 4
        /\ \A i \in 1..Len(buffer) : /\ buffer[i] = trail[i + 4]
                                     /\ Floor(buffer[i][1], 32) = page
    BY ONLY <1>1 DEF BufferedSoFar, Carried
  <2>3. \A i \in 1..Len(buffer) : i + 4 \in 1..Len(trail)
    BY ONLY <2>1, <2>2
  <2> QED BY ONLY <1>2, <2>1, <2>2, <2>3
<1>4. /\ Unlocked(s, 1) /\ s[3][2] = \h25 /\ s[4][2] = expected - 1
      /\ sector_base(s[3][1]) = sector /\ sector_base(s[4][1]) = sector
  <2>1. Len(trail) = Len(buffer) + 4
    BY <1>1 DEF BufferedSoFar, Carried
  <2>2. \A i \in 1..4 : s[i] = trail[i]
    BY ONLY <1>2, <1>3, <2>1
  <2>3. Unlocked(s, 1)
    BY ONLY <1>1, <2>2 DEF BufferedSoFar, Unlocked
  <2> QED BY ONLY <1>1, <2>2, <2>3 DEF BufferedSoFar
<1>5. expected >= 1 /\ expected \in Int /\ Len(s) >= 6 /\ s[4][2] = Len(s) - 6
  <2>1. \A i \in 1..Len(s) : s[i][1] \in Int /\ s[i][2] \in Value
    BY ONLY <1>2, TrailType
  <2>2. 4 \in 1..Len(s)
    BY ONLY <1>3
  <2>3. s[4][2] \in Nat
    BY ONLY <2>1, <2>2 DEF Value
  <2>4. expected \in Int
    BY DEF CommandInv, CommandType
  <2> QED BY ONLY <1>1, <1>3, <1>4, <2>3, <2>4
<1>6. SubSeq(s, 5, Len(s) - 1) = buffer
  BY ONLY <1>2, <1>3, MiddleIs
<1>7. Together(buffer, 32)
  <2>1. Trail(buffer)
    BY ONLY <1>3
  <2>2. \A i \in 1..Len(buffer) : Floor(buffer[i][1], 32) = page
    BY ONLY <1>3
  <2> QED BY ONLY <2>1, <2>2, AllTogether
<1>8. clear_flash_command /\ stage' = 0
  BY ONLY Confirm(conf, a, v) DEF Confirm, clear_flash_command
<1>9. CommandInv'
  BY ONLY CommandInv, <1>8, <1>2, Ended
<1>10. CASE v = \h29 /\ sector_base(a) = sector
  <2>1. BufferedProgram(s)
    <3>1. s[Len(s)][2] = \h29
      BY ONLY <1>2, <1>10
    <3>2. Together(SubSeq(s, 5, Len(s) - 1), 32)
      BY ONLY <1>6, <1>7
    <3>3. \A i \in {4, Len(s)} : sector_base(s[i][1]) = sector_base(s[3][1])
      BY ONLY <1>2, <1>4, <1>10
    <3> QED BY ONLY <1>4, <1>5, <3>1, <3>2, <3>3 DEF BufferedProgram
  <2>2. ~SingleProgram(s) /\ ~ShortProgram(s, 2, \h50) /\ ~ShortProgram(s, 4, \h56)
    BY ONLY <1>4, OnlyBuffered
  <2>3. Blanked(s) = {}
    BY ONLY <1>4, OnlyBuffered
  <2>4. Data(s) = SubSeq(s, 5, Len(s) - 1)
    BY ONLY <2>1, <2>2 DEF Data
  <2>5. flash' = Programmed(conf, buffer)
    BY ONLY Confirm(conf, a, v), <1>10 DEF Confirm
  <2>6. flash' = Programmed(conf, Data(s))
    BY ONLY <2>4, <2>5, <1>6
  <2>7. Effect(conf, s)
    BY ONLY CellAssumption, <2>3, <2>6, BytesProgrammed
  <2> QED BY <1>9, <2>7
<1>11. CASE ~(v = \h29 /\ sector_base(a) = sector)
  <2>1. ~BufferedProgram(s)
    BY ONLY <1>2, <1>4, <1>11 DEF BufferedProgram
  <2>2. NoCommand(s)
    BY ONLY <1>4, <2>1, OnlyBuffered
  <2>3. flash' = flash
    BY ONLY Confirm(conf, a, v), <1>11 DEF Confirm
  <2>4. Effect(conf, s)
    BY ONLY <2>2, <2>3, NothingChanges
  <2> QED BY <1>9, <2>4
<1> QED BY <1>10, <1>11

---------------------------------------------------------------------------
(* The chip as a whole.                                                    *)

\* What a write to the chip may do, under the configuration it meets.
Answered(conf) ==
    IF write' = NoWrite THEN flash' = flash
    ELSE HasNoF0(Append(trail, write')) => Effect(conf, Append(trail, write'))
Locked(conf) ==
    /\ ~flash_write_enabled(conf) => flash' = flash
    /\ \A c \in Cell : Recovery(conf, c) => flash'[c] = flash[c]

\* A flash that does not change respects every lock.
LEMMA Untouched ==
    ASSUME NEW conf, flash' = flash
    PROVE  Locked(conf)
BY DEF Locked

\* What does not reach the chip changes nothing.
LEMMA UnheardWorks ==
    ASSUME CommandInv, NEW conf, Unheard
    PROVE  CommandInv' /\ Answered(conf) /\ Locked(conf)
<1>1. UNCHANGED <<command, trail>> /\ flash' = flash /\ write' = NoWrite
  BY DEF Unheard, Keep
<1>2. CommandInv'
  BY ONLY <1>1, CommandInv DEF command, CommandInv, CommandType, StageInv, ShortSoFar,
          BufferedSoFar, Carried
<1>3. Answered(conf)
  BY ONLY <1>1 DEF Answered
<1> QED BY <1>1, <1>2, <1>3, Untouched

\* F0 gives the command up, and is outside what CommandsWork speaks of.
LEMMA ResetWorks ==
    ASSUME CommandInv, NEW conf, NEW a \in Int, clear_flash_command,
           UNCHANGED flash, Heard(a, \hf0)
    PROVE  CommandInv' /\ Answered(conf) /\ Locked(conf)
<1>1. stage' = 0
  BY DEF clear_flash_command
<1>2. write' = <<a, \hf0>> /\ trail' = <<>>
  BY <1>1 DEF Heard
<1>3. CommandInv'
  BY <1>1, <1>2, Ended
<1> DEFINE w == <<a, \hf0>>
           s == Append(trail, w)
<1>4. ~HasNoF0(s)
  <2>1. trail \in Seq(Int \X Nat)
    <3>1. Writes \subseteq Int \X Nat
      BY DEF Writes, Value
    <3>2. trail \in Seq(Writes)
      BY DEF CommandInv, CommandType, Trail
    <3> QED BY ONLY <3>1, <3>2, SeqMonotonic
  <2>2. w \in Int \X Nat /\ w[2] = \hf0
    OBVIOUS
  <2> HIDE DEF w
  <2> DEFINE t == Append(trail, w)
             pairs == Int \X Nat
  <2>3. trail \in Seq(pairs) /\ w \in pairs
    BY <2>1, <2>2
  <2> HIDE DEF pairs
  <2>4. t \in Seq(pairs) /\ Len(t) = Len(trail) + 1 /\ t[Len(trail) + 1] = w
    BY ONLY <2>3, AppendProperties
  <2> HIDE DEF t
  <2>5. Len(trail) \in Nat /\ DOMAIN t = 1..Len(t)
    BY ONLY <2>3, <2>4, LenProperties
  <2>6. Len(trail) + 1 \in DOMAIN t
    BY ONLY <2>4, <2>5
  <2>7. ~HasNoF0(t)
    BY ONLY <2>2, <2>4, <2>6 DEF HasNoF0
  <2> QED BY <2>7 DEF t
<1>5. write' = w /\ write' # NoWrite
  BY <1>2 DEF NoWrite
<1> HIDE DEF w
<1>6. Answered(conf)
  BY ONLY <1>4, <1>5 DEF Answered
<1> QED BY <1>3, <1>6, Untouched

\* An unlock cycle, after which stage "n" is next.
Unlocking(a, v, offsets, value, n) ==
    Keep /\ (Stage(0) \/ (a % 4096 \in offsets /\ v = value /\ Stage(n)))

\* The writes that the stages take.
LEMMA HeardWorks ==
    ASSUME CellAssumption, CommandInv, NEW conf, NEW a \in Int, NEW v \in Value,
           flash_write_enabled(conf), Heard(a, v),
           \/ stage = 0 /\ First(a, v)
           \/ stage = 1 /\ Unlocking(a, v, At2AA, \h55, 2)
           \/ stage = 2 /\ Third(a, v)
           \/ stage = 3 /\ Unlocking(a, v, At555, \haa, 4)
           \/ stage = 4 /\ Unlocking(a, v, At2AA, \h55, 5)
           \/ stage = 5 /\ Sixth(conf, a, v)
           \/ stage = 6 /\ Single(conf, a, v)
           \/ stage \in {7, 8} /\ Multi(conf, a, v)
           \/ stage = 9 /\ Count(a, v)
           \/ stage = 10 /\ Fill(a, v)
           \/ stage = 11 /\ Confirm(conf, a, v)
    PROVE  CommandInv' /\ Answered(conf) /\ Locked(conf)
<1> DEFINE s == Append(trail, <<a, v>>)
<1>1. Longer(s, trail, a, v)
  BY DEF Longer
<1>2. write' # NoWrite /\ s = Append(trail, write')
  BY DEF Heard, NoWrite
<1> HIDE DEF s
<1>3. SUFFICES CommandInv' /\ Effect(conf, s)
  <2>1. ASSUME Effect(conf, s), NEW c \in Cell, Recovery(conf, c)
        PROVE  flash'[c] = flash[c]
    BY <2>1 DEF Effect, Outcome
  <2> QED BY <1>2, <2>1 DEF Answered, Locked
<1> DEFINE Given == /\ CellAssumption /\ CommandInv /\ a \in Int /\ v \in Value
                    /\ Longer(s, trail, a, v) /\ Heard(a, v)
<1>4. Given
  BY <1>1
<1>5. CASE stage = 0 /\ First(a, v)
  BY ONLY <1>4, <1>5, FirstWorks
<1>6. CASE stage = 2 /\ Third(a, v)
  BY ONLY <1>4, <1>6, ThirdWorks
<1>7. CASE stage = 5 /\ Sixth(conf, a, v)
  BY ONLY <1>4, <1>7, SixthWorks
<1>8. CASE stage = 6 /\ Single(conf, a, v)
  BY ONLY <1>4, <1>8, SingleWorks
<1>9. CASE stage \in {7, 8} /\ Multi(conf, a, v)
  <2>1. CASE stage = 7
    BY ONLY <1>4, <1>9, <2>1, MultiWorks
  <2>2. CASE stage = 8
    BY ONLY <1>4, <1>9, <2>2, MultiWorks
  <2> QED BY <1>9, <2>1, <2>2
<1>10. CASE stage = 9 /\ Count(a, v)
  BY ONLY <1>4, <1>10, CountWorks
<1>11. CASE stage = 10 /\ Fill(a, v)
  BY ONLY <1>4, <1>11, FillWorks
<1>12. CASE stage = 11 /\ Confirm(conf, a, v)
  BY ONLY <1>4, <1>12, ConfirmWorks
<1>13. CASE stage = 1 /\ Unlocking(a, v, At2AA, \h55, 2)
  <2>1. Keep /\ (Stage(0) \/ (a % 4096 \in At2AA /\ v = \h55 /\ Stage(2)))
    BY ONLY <1>13 DEF Unlocking
  <2> QED BY ONLY <1>4, <1>13, <2>1, UnlockWorks
<1>14. CASE stage = 3 /\ Unlocking(a, v, At555, \haa, 4)
  <2>1. Keep /\ (Stage(0) \/ (a % 4096 \in At555 /\ v = \haa /\ Stage(4)))
    BY ONLY <1>14 DEF Unlocking
  <2> QED BY ONLY <1>4, <1>14, <2>1, UnlockWorks
<1>15. CASE stage = 4 /\ Unlocking(a, v, At2AA, \h55, 5)
  <2>1. Keep /\ (Stage(0) \/ (a % 4096 \in At2AA /\ v = \h55 /\ Stage(5)))
    BY ONLY <1>15 DEF Unlocking
  <2> QED BY ONLY <1>4, <1>15, <2>1, UnlockWorks
<1> QED BY <1>5, <1>6, <1>7, <1>8, <1>9, <1>10, <1>11, <1>12, <1>13, <1>14, <1>15

\* Every write that reaches the chip.
LEMMA WriteWorks ==
    ASSUME CellAssumption, CommandInv, NEW conf, NEW a \in Int, NEW v \in Nat,
           flash_write(conf, a, v)
    PROVE  CommandInv' /\ Answered(conf) /\ Locked(conf)
<1>1. CASE ~flash_write_enabled(conf)
  <2>1. Unheard
    BY ONLY <1>1, flash_write(conf, a, v) DEF flash_write
  <2> QED BY <2>1, UnheardWorks
<1>2. CASE flash_write_enabled(conf) /\ v = \hf0
  <2>1. clear_flash_command /\ UNCHANGED flash /\ Heard(a, \hf0)
    BY ONLY <1>2, flash_write(conf, a, v) DEF flash_write
  <2> QED BY <2>1, ResetWorks
<1>3. CASE flash_write_enabled(conf) /\ v # \hf0 /\ read_mode # "read"
  <2>1. Unheard
    BY ONLY <1>3, flash_write(conf, a, v) DEF flash_write
  <2> QED BY <2>1, UnheardWorks
<1>4. CASE flash_write_enabled(conf) /\ v # \hf0 /\ read_mode = "read"
  <2>1. /\ Heard(a, v)
        /\ \/ stage = 0 /\ First(a, v)
           \/ stage = 1 /\ Unlocking(a, v, At2AA, \h55, 2)
           \/ stage = 2 /\ Third(a, v)
           \/ stage = 3 /\ Unlocking(a, v, At555, \haa, 4)
           \/ stage = 4 /\ Unlocking(a, v, At2AA, \h55, 5)
           \/ stage = 5 /\ Sixth(conf, a, v)
           \/ stage = 6 /\ Single(conf, a, v)
           \/ stage \in {7, 8} /\ Multi(conf, a, v)
           \/ stage = 9 /\ Count(a, v)
           \/ stage = 10 /\ Fill(a, v)
           \/ stage = 11 /\ Confirm(conf, a, v)
    <3>1. stage \in 0..11
      BY DEF CommandInv, CommandType
    <3>2. /\ (a \div 2) % 2048 = 1365 <=> a % 4096 \in At555
          /\ (a \div 2) % 2048 = 682 <=> a % 4096 \in At2AA
      BY UnlockAddresses
    <3>3. Heard(a, v)
      BY ONLY <1>4, flash_write(conf, a, v) DEF flash_write
    <3>4. CASE stage = 1
      BY ONLY <1>4, <3>2, <3>3, <3>4, flash_write(conf, a, v)
         DEF flash_write, Proceed, unlock_address, Unlocking
    <3>5. CASE stage = 3
      BY ONLY <1>4, <3>2, <3>3, <3>5, flash_write(conf, a, v)
         DEF flash_write, Proceed, unlock_address, Unlocking
    <3>6. CASE stage = 4
      BY ONLY <1>4, <3>2, <3>3, <3>6, flash_write(conf, a, v)
         DEF flash_write, Proceed, unlock_address, Unlocking
    <3>7. CASE stage = 0
      <4>1. First(a, v)
        BY ONLY <1>4, <3>7, flash_write(conf, a, v)
           DEF flash_write, Proceed, unlock_address
      <4> QED BY <3>3, <3>7, <4>1
    <3>8. CASE stage = 2
      <4>1. Third(a, v)
        BY ONLY <1>4, <3>8, flash_write(conf, a, v)
           DEF flash_write, Proceed, unlock_address
      <4> QED BY <3>3, <3>8, <4>1
    <3>9. CASE stage = 5
      <4>1. Sixth(conf, a, v)
        BY ONLY <1>4, <3>9, flash_write(conf, a, v)
           DEF flash_write, Proceed, unlock_address
      <4> QED BY <3>3, <3>9, <4>1
    <3>10. CASE stage = 6
      <4>1. Single(conf, a, v)
        BY ONLY <1>4, <3>10, flash_write(conf, a, v)
           DEF flash_write, Proceed, unlock_address
      <4> QED BY <3>3, <3>10, <4>1
    <3>11. CASE stage = 7
      <4>1. Multi(conf, a, v)
        BY ONLY <1>4, <3>11, flash_write(conf, a, v)
           DEF flash_write, Proceed, unlock_address
      <4> QED BY <3>3, <3>11, <4>1
    <3>12. CASE stage = 8
      <4>1. Multi(conf, a, v)
        BY ONLY <1>4, <3>12, flash_write(conf, a, v)
           DEF flash_write, Proceed, unlock_address
      <4> QED BY <3>3, <3>12, <4>1
    <3>13. CASE stage = 9
      <4>1. Count(a, v)
        BY ONLY <1>4, <3>13, flash_write(conf, a, v)
           DEF flash_write, Proceed, unlock_address
      <4> QED BY <3>3, <3>13, <4>1
    <3>14. CASE stage = 10
      <4>1. Fill(a, v)
        BY ONLY <1>4, <3>14, flash_write(conf, a, v)
           DEF flash_write, Proceed, unlock_address
      <4> QED BY <3>3, <3>14, <4>1
    <3>15. CASE stage = 11
      <4>1. Confirm(conf, a, v)
        BY ONLY <1>4, <3>15, flash_write(conf, a, v)
           DEF flash_write, Proceed, unlock_address
      <4> QED BY <3>3, <3>15, <4>1
    <3> QED BY ONLY <3>1, <3>4, <3>5, <3>6, <3>7, <3>8, <3>9,
                    <3>10, <3>11, <3>12, <3>13, <3>14, <3>15
  <2>2. v \in Value
    BY <1>4 DEF Value
  <2> QED BY ONLY CellAssumption, CommandInv, a \in Int, <1>4, <2>1, <2>2, HeardWorks
<1> QED BY <1>1, <1>2, <1>3, <1>4

---------------------------------------------------------------------------
(* The cartridge: its registers, and the flash addresses they make.         *)

\* The action of CommandsWork.
Works == CommandsAre(HasNoF0) /\ LocksHold

\* What the chip did under the configuration after the write is CommandsWork.
LEMMA WorksIs ==
    ASSUME NEW conf, conf = flash_registers'.config, Answered(conf), Locked(conf)
    PROVE  Works
<1>1. LocksHold
  BY DEF Locked, LocksHold
<1>2. CommandsAre(HasNoF0)
  BY DEF Answered, CommandsAre, Effect
<1> QED BY <1>1, <1>2 DEF Works

\* The 16 KB page of a bus address.
LEMMA Quarter ==
    ASSUME NEW address \in Address
    PROVE  address \in Int /\ address \div 16384 \in 0..3
<1>1. address \in Int /\ 0 <= address /\ address <= 64 * 1024 - 1
  BY SMTT(30) DEF Address
<1>2. address < 65536
  BY ONLY <1>1
<1>3. address \div 16384 >= 0 /\ address \div 16384 < 4 /\ address \div 16384 \in Int
  BY ONLY <1>1, <1>2
<1> QED BY ONLY <1>1, <1>3

\* A subslot is two bits of the secondary slot register.
LEMMA Power ==
    ASSUME NEW slots \in Int, NEW k \in 0..3
    PROVE  (slots \div 4^k) % 4 \in 0..3
<1>1. 4^0 = 1 /\ 4^1 = 4 /\ 4^2 = 16 /\ 4^3 = 64
  OBVIOUS
<1>2. CASE k = 0
  BY <1>1, <1>2
<1>3. CASE k = 1
  BY <1>1, <1>3
<1>4. CASE k = 2
  BY <1>1, <1>4
<1>5. CASE k = 3
  BY <1>1, <1>5
<1> QED BY <1>2, <1>3, <1>4, <1>5

\* The selected subslot is one of the four.
LEMMA SubslotType ==
    ASSUME ChipType, NEW address \in Address
    PROVE  megaflash_selected_subslot(address) \in 0..3
<1>1. flash_registers.secondary_slot \in Int
  BY DEF ChipType
<1>2. address \div 16384 \in 0..3
  BY Quarter
<1> DEFINE slots == flash_registers.secondary_slot
           k == address \div 16384
<1>3. slots \in Int /\ k \in 0..3
  BY <1>1, <1>2
<1>4. megaflash_selected_subslot(address) = IF ~Expanded THEN 1 ELSE (slots \div 4^k) % 4
  BY SMT DEF megaflash_selected_subslot
<1> HIDE DEF slots, k
<1>5. (slots \div 4^k) % 4 \in 0..3
  BY ONLY <1>3, Power
<1> QED BY ONLY <1>4, <1>5

\* Where subslot 1 meets the flash, it is at an integer address.
LEMMA Address1 ==
    ASSUME ChipType, NEW address \in Address,
           subslot1_flash_address(address) # NoAddress
    PROVE  subslot1_flash_address(address) \in Int
<1> DEFINE linear == flash_registers.mapper \div 64 = 1
           p == IF linear THEN address \div 16384 ELSE address \div 8192 - 2
           size == IF linear THEN 16384 ELSE 8192
           remap == Has(flash_registers.config, 4)
           b == CASE remap /\ p = 0 /\ bank[0] = 0 -> 1018
                  [] remap /\ p = 1 /\ bank[1] = 1 -> 1019
                  [] OTHER -> bank[p] + flash_registers.offset
<1> DEFINE cell == (b * size + (address % size) + 65536) % FlashSize
           outside == ~linear /\ address \notin CartSpace
<1>7. subslot1_flash_address(address) = IF outside THEN NoAddress ELSE cell
  BY SMT DEF subslot1_flash_address
<1> HIDE DEF b, size, cell, outside
<1>8. ~outside /\ subslot1_flash_address(address) = cell
  BY ONLY <1>7, subslot1_flash_address(address) # NoAddress, Zenon
<1>2. linear \/ address \in CartSpace
  BY <1>8 DEF outside
<1>9. p \in Pages
  <2>1. CASE linear
    <3>1. p = address \div 16384
      BY <2>1
    <3>2. address \div 16384 \in Pages
      BY Quarter DEF Pages
    <3> QED BY <3>1, <3>2
  <2>2. CASE ~linear
    <3>1. p = address \div 8192 - 2
      BY <2>2
    <3>2. address \in CartSpace
      BY <2>2, <1>2
    <3>3. address \div 8192 - 2 \in Pages
      BY ONLY <3>2, SMT DEF CartSpace, Pages
    <3> QED BY <3>1, <3>3
  <2> QED BY <2>1, <2>2
<1>10. size \in {8192, 16384}
  BY DEF size
<1> HIDE DEF p
<1>3. bank[p] \in Int /\ flash_registers.offset \in Int
  BY <1>9 DEF ChipType
<1>4. b \in Int
  BY <1>3 DEF b
<1>5. b * size + (address % size) \in Int
  <2>1. address \in Int
    BY Quarter
  <2>2. CASE size = 8192
    BY ONLY <2>1, <2>2, <1>4
  <2>3. CASE size = 16384
    BY ONLY <2>1, <2>3, <1>4
  <2> QED BY <2>2, <2>3, <1>10
<1>6. (b * size + (address % size) + 65536) % FlashSize \in Int
  BY ONLY <1>5, SMT DEF FlashSize
<1> QED BY ONLY <1>8, <1>6 DEF cell

\* So is subslot 3, all over cartridge space.
LEMMA Address3 ==
    ASSUME ChipType, NEW address \in CartSpace
    PROVE  subslot3_flash_address(address) \in Int
<1> DEFINE b == sd_bank[address \div 8192 - 2]
<1>1. address \div 8192 - 2 \in Pages
  BY ONLY address \in CartSpace, SMTT(30) DEF Pages, CartSpace
<1>2. b \in Int
  BY <1>1 DEF ChipType
<1>3. subslot3_flash_address(address) = 7168 * 1024 + (b % 128) * 8192 + (address % 8192)
  BY SMT DEF subslot3_flash_address
<1> HIDE DEF b
<1> QED BY ONLY <1>2, <1>3, address \in CartSpace, SMTT(30) DEF CartSpace

\* The registers stay registers, whatever is written to them.
LEMMA ConfiguredType ==
    ASSUME ChipType, NEW address \in Address, NEW value \in Byte
    PROVE  Configured(address, value) \in
               [secondary_slot : Int, mapper : Int, config : Int, offset : Int,
                scc_mode : Int]
<1> DEFINE r == flash_registers
           sccMapper(m) == m \div 32 = 0
           mapper == IF ~Has(r.mapper, 2) /\ address = \h7fff THEN value ELSE r.mapper
           free == ~Has(mapper, 1)
           conf == IF ~Has(r.config, 7) /\ address = \h7ffc THEN value ELSE r.config
           low == free /\ address = \h7ffd
           high == free /\ address = \h7ffe
           offset == CASE low -> Floor(r.offset, 256) + value
                       [] high -> (r.offset % 256) + 256 * (value % 4)
                       [] OTHER -> r.offset
           control == IF sccMapper(mapper) /\ address \in {\hbffe, \hbfff}
                   THEN value ELSE r.scc_mode
<1>1. /\ value \in Int /\ r.secondary_slot \in Int /\ r.mapper \in Int
      /\ r.config \in Int /\ r.offset \in Int /\ r.scc_mode \in Int
  BY DEF ChipType, Byte
<1>2. Configured(address, value) =
        [secondary_slot |-> r.secondary_slot, mapper |-> mapper, config |-> conf,
         offset |-> offset, scc_mode |-> control]
  BY SMT DEF Configured
<1>3. mapper \in Int /\ conf \in Int /\ control \in Int
  BY <1>1
<1>4. offset \in Int
  <2> HIDE DEF low, high
  <2>1. Floor(r.offset, 256) + value \in Int
    BY ONLY <1>1 DEF Floor
  <2>2. (r.offset % 256) + 256 * (value % 4) \in Int
    BY ONLY <1>1
  <2> QED BY ONLY <1>1, <2>1, <2>2
<1> HIDE DEF mapper, conf, control, offset
<1> QED BY ONLY <1>1, <1>2, <1>3, <1>4

\* So do the banks of subslot 1.
LEMMA BankedType ==
    ASSUME ChipType, NEW mapper, NEW address \in Address, NEW value \in Byte
    PROVE  Banked(mapper, address, value) \in [Pages -> Int]
<1> DEFINE p == address \div 8192 - 2
           q == (address \div 2048) % 4
           kind == mapper \div 32
           small == Has(mapper, 0)
           In(low, high) == address >= low /\ address < high
           double == (2 * value) % 512
           second == (2 * value + 1) % 512
           off == Has(mapper, 1) \/ p \notin Pages
           v64 == IF small THEN value % 64 ELSE value
           v32 == IF small THEN value % 32 ELSE value
           konami == /\ kind = 1 /\ ~(Has(mapper, 3) /\ address < \h6000)
                     /\ address >= \h5000 /\ ~In(\h5800, \h6000)
           b1 == [bank EXCEPT ![p] = v64]
           b2 == [bank EXCEPT ![p] = v32]
           b3 == [bank EXCEPT ![p] = value]
           b4 == [bank EXCEPT ![q] = value]
           b5 == [bank EXCEPT ![0] = double, ![1] = second]
           b6 == [bank EXCEPT ![2] = double, ![3] = second]
           g1 == kind = 0 /\ q = 2
           g3 == kind \in {2, 3}
           g4 == kind \in {4, 5} /\ In(\h6000, \h8000)
           g5 == kind \in {6, 7} /\ In(\h6000, \h6800)
           g6 == kind \in {6, 7} /\ In(\h7000, \h7800)
<1>1. bank \in [Pages -> Int] /\ value \in Int
  BY DEF ChipType, Byte
<1>2. v64 \in Int /\ v32 \in Int /\ double \in Int /\ second \in Int
  BY <1>1
<1>3. Banked(mapper, address, value) =
        IF off THEN bank
        ELSE CASE g1 -> b1 [] konami -> b2 [] g3 -> b3 [] g4 -> b4 [] g5 -> b5
               [] g6 -> b6 [] OTHER -> bank
  BY SMT DEF Banked
<1> HIDE DEF v64, v32, double, second, p, q
<1>4. /\ b1 \in [Pages -> Int] /\ b2 \in [Pages -> Int] /\ b3 \in [Pages -> Int]
      /\ b4 \in [Pages -> Int] /\ b5 \in [Pages -> Int] /\ b6 \in [Pages -> Int]
  BY ONLY <1>1, <1>2
<1> HIDE DEF b1, b2, b3, b4, b5, b6, off, konami, g1, g3, g4, g5, g6
<1> QED BY ONLY <1>1, <1>3, <1>4, SMT

\* A write to subslot 1, the SCC mapper.
LEMMA Subslot1Works ==
    ASSUME CellAssumption, ChipInv, NEW address \in Address, NEW value \in Byte,
           write_subslot1(address, value)
    PROVE  ChipInv' /\ Works
<1> DEFINE r == Configured(address, value)
           cell == subslot1_flash_address(address)
<1>1. /\ flash_registers' = r /\ sd_bank' = sd_bank
      /\ ToScc(r, address) =>
            bank' = bank /\ scc_bank' = scc_bank /\ Unheard
      /\ ~ToScc(r, address) =>
            /\ bank' = Banked(r.mapper, address, value)
            /\ cell = NoAddress => Unheard
            /\ cell # NoAddress => flash_write(r.config, cell, value)
  BY Zenon DEF write_subslot1
<1>2. ChipType /\ CommandInv /\ value \in Nat
  BY DEF ChipInv, Byte
<1>3. r \in [secondary_slot : Int, mapper : Int, config : Int, offset : Int, scc_mode : Int]
  BY <1>2, ConfiguredType
<1>4. Banked(r.mapper, address, value) \in [Pages -> Int]
  BY <1>2, BankedType
<1>5. cell # NoAddress => cell \in Int
  BY <1>2, Address1
<1>9. r.config = flash_registers'.config
  BY <1>1
<1> HIDE DEF r, cell
<1>6. ChipType'
  BY ONLY <1>1, <1>2, <1>3, <1>4 DEF ChipType
<1>7. CASE ToScc(r, address) \/ cell = NoAddress
  <2>1. Unheard
    BY ONLY <1>1, <1>7
  <2>2. CommandInv' /\ Answered(r.config) /\ Locked(r.config)
    BY ONLY <1>2, <2>1, UnheardWorks
  <2>3. Works
    BY ONLY <1>9, <2>2, WorksIs
  <2> QED BY <1>6, <2>2, <2>3 DEF ChipInv
<1>8. CASE ~ToScc(r, address) /\ cell # NoAddress
  <2>1. flash_write(r.config, cell, value)
    BY ONLY <1>1, <1>8
  <2>2. CommandInv' /\ Answered(r.config) /\ Locked(r.config)
    BY ONLY CellAssumption, <1>2, <1>5, <1>8, <2>1, WriteWorks
  <2>3. Works
    BY ONLY <1>9, <2>2, WorksIs
  <2> QED BY <1>6, <2>2, <2>3 DEF ChipInv
<1> QED BY <1>7, <1>8

\* A write to subslot 3, the SD interface.
LEMMA Subslot3Works ==
    ASSUME CellAssumption, ChipInv, NEW address \in Address, NEW value \in Byte,
           write_subslot3(address, value)
    PROVE  ChipInv' /\ Works
<1> DEFINE conf == flash_registers.config
           cell == subslot3_flash_address(address)
           q == (address \div 2048) % 4
           other == address \in CartSpace
<1>1. /\ flash_registers' = flash_registers /\ bank' = bank
      /\ sd_bank' = sd_bank \/ sd_bank' = [sd_bank EXCEPT ![q] = value]
      /\ Unheard \/ (other /\ flash_write(conf, cell, value))
  <2>1. flash_registers' = flash_registers /\ bank' = bank
    BY ONLY write_subslot3(address, value), SMT DEF write_subslot3
  <2>2. sd_bank' = sd_bank \/ sd_bank' = [sd_bank EXCEPT ![q] = value]
    BY ONLY write_subslot3(address, value), SMT DEF write_subslot3
  <2>3. Unheard \/ (other /\ flash_write(conf, cell, value))
    BY ONLY write_subslot3(address, value), SMT DEF write_subslot3
  <2> QED BY <2>1, <2>2, <2>3
<1>2. ChipType /\ CommandInv /\ value \in Nat
  BY DEF ChipInv, Byte
<1>3. other => cell \in Int
  <2>1. ASSUME address \in CartSpace
        PROVE  cell \in Int
    BY ONLY <1>2, <2>1, Address3
  <2> QED BY <2>1
<1>4. conf = flash_registers'.config
  BY <1>1
<1> HIDE DEF conf, cell, q, other
<1>5. ChipType'
  BY ONLY <1>1, <1>2 DEF ChipType
<1>6. CommandInv' /\ Answered(conf) /\ Locked(conf)
  <2>1. CASE Unheard
    BY ONLY <1>2, <2>1, UnheardWorks
  <2>2. CASE other /\ flash_write(conf, cell, value)
    BY ONLY CellAssumption, <1>2, <1>3, <2>2, WriteWorks
  <2> QED BY <1>1, <2>1, <2>2
<1>7. Works
  BY ONLY <1>4, <1>6, WorksIs
<1> QED BY <1>5, <1>6, <1>7 DEF ChipInv

\* Every write of the guest.
LEMMA BusWorks ==
    ASSUME CellAssumption, ChipInv, NEW address \in Address, NEW value \in Byte,
           megaflash_write(address, value)
    PROVE  ChipInv' /\ Works
<1> DEFINE subslot == megaflash_selected_subslot(address)
           conf == flash_registers.config
           low == address % 16384
           second == Expanded /\ address = \hffff
<1>1. subslot \in 0..3
  BY SubslotType DEF ChipInv
<1>2. \/ megaflash_secondary_write(value)
      \/ flash_write(conf, low, value) /\ UNCHANGED <<flash_registers, banks>>
      \/ write_subslot1(address, value)
      \/ UNCHANGED <<flash_registers, banks>> /\ Unheard
      \/ write_subslot3(address, value)
  <2>1. CASE second
    BY ONLY <2>1, megaflash_write(address, value), SMT DEF megaflash_write
  <2>2. CASE ~second /\ subslot = 0
    BY ONLY <2>2, megaflash_write(address, value), SMT DEF megaflash_write
  <2>3. CASE ~second /\ subslot = 1
    BY ONLY <2>3, megaflash_write(address, value), SMT DEF megaflash_write
  <2>4. CASE ~second /\ subslot = 2
    BY ONLY <2>4, megaflash_write(address, value), SMT DEF megaflash_write
  <2>5. CASE ~second /\ subslot = 3
    BY ONLY <2>5, megaflash_write(address, value), SMT DEF megaflash_write
  <2> QED BY ONLY <1>1, <2>1, <2>2, <2>3, <2>4, <2>5
<1>3. address \in Address /\ value \in Byte
  OBVIOUS
<1>4. ChipType /\ CommandInv /\ value \in Int /\ value \in Nat /\ low \in Int
  <2>1. value \in Int /\ value \in Nat
    BY ONLY value \in Byte, SMT DEF Byte
  <2>2. address \in Int
    BY Quarter
  <2>3. low \in Int
    BY ONLY <2>2
  <2> QED BY <2>1, <2>3 DEF ChipInv
<1> HIDE DEF conf, low
<1>5. CASE megaflash_secondary_write(value)
  <2>1. /\ flash_registers' = [flash_registers EXCEPT !.secondary_slot = value]
        /\ bank' = bank /\ sd_bank' = sd_bank /\ Unheard
    BY <1>5 DEF megaflash_secondary_write, banks
  <2>2. ChipType'
    BY ONLY <1>4, <2>1 DEF ChipType
  <2> DEFINE c == flash_registers'.config
  <2>3. c = flash_registers'.config
    OBVIOUS
  <2> HIDE DEF c
  <2>4. CommandInv' /\ Answered(c) /\ Locked(c)
    BY ONLY <1>4, <2>1, UnheardWorks
  <2>5. Works
    BY ONLY <2>3, <2>4, WorksIs
  <2> QED BY <2>2, <2>4, <2>5 DEF ChipInv
<1>6. CASE UNCHANGED <<flash_registers, banks>>
           /\ (Unheard \/ flash_write(conf, low, value))
  <2>1. /\ flash_registers' = flash_registers
        /\ bank' = bank /\ sd_bank' = sd_bank
    BY <1>6 DEF banks
  <2>2. ChipType'
    BY ONLY <1>4, <2>1 DEF ChipType
  <2>3. conf = flash_registers'.config
    BY <2>1 DEF conf
  <2>4. CommandInv' /\ Answered(conf) /\ Locked(conf)
    <3>1. CASE Unheard
      BY ONLY <1>4, <3>1, UnheardWorks
    <3>2. CASE flash_write(conf, low, value)
      BY ONLY CellAssumption, <1>4, <3>2, WriteWorks
    <3> QED BY <1>6, <3>1, <3>2
  <2>5. Works
    BY ONLY <2>3, <2>4, WorksIs
  <2> QED BY <2>2, <2>4, <2>5 DEF ChipInv
<1>7. CASE write_subslot1(address, value)
  BY ONLY CellAssumption, ChipInv, <1>3, <1>7, Subslot1Works
<1>8. CASE write_subslot3(address, value)
  BY ONLY CellAssumption, ChipInv, <1>3, <1>8, Subslot3Works
<1> QED BY <1>2, <1>5, <1>6, <1>7, <1>8

\* The reset of the machine gives the command up and leaves the flash.
LEMMA ResetOfBus ==
    ASSUME ChipInv, megaflash_reset
    PROVE  ChipInv' /\ Works
<1>1. ChipType'
  BY DEF megaflash_reset, ChipType, ResetRegisters
<1>2. CommandInv'
  <2>1. clear_flash_command /\ stage' = 0 /\ trail' = <<>>
    BY DEF megaflash_reset, clear_flash_command
  <2> QED BY <2>1, Ended DEF ChipInv
<1>3. write' = NoWrite /\ flash' = flash
  BY DEF megaflash_reset
<1>4. Works
  BY <1>3 DEF Works, CommandsAre, LocksHold
<1> QED BY <1>1, <1>2, <1>4 DEF ChipInv

\* A command that the guest has written in full does to each cell what the
\* command says, one that is not complete or not well formed
\* does nothing, and neither passes a lock: the whole of flash_write, however
\* the registers and the banks lead to it.
THEOREM TheCommandsWork ==
    ASSUME CellAssumption
    PROVE  FlashSpec => CommandsWork
<1>1. FlashInit => ChipInv
  <2> SUFFICES ASSUME FlashInit
               PROVE  ChipInv
    OBVIOUS
  <2>1. ChipType
    <3>1. flash_registers \in [secondary_slot : Int, mapper : Int, config : Int,
                               offset : Int, scc_mode : Int]
      BY DEF FlashInit, ResetRegisters
    <3>2. bank \in [Pages -> Int]
      BY DEF FlashInit, Pages
    <3>3. sd_bank \in [Pages -> Int]
      BY DEF FlashInit, Pages
    <3> QED BY <3>1, <3>2, <3>3 DEF ChipType
  <2>2. CommandType
    BY NoTrail DEF FlashInit, CommandType
  <2>3. StageInv
    BY DEF FlashInit, StageInv
  <2> QED BY <2>1, <2>2, <2>3 DEF ChipInv, CommandInv
<1>2. ChipInv /\ [FlashNext]_flashvars => ChipInv' /\ [Works]_flashvars
  <2> SUFFICES ASSUME ChipInv, [FlashNext]_flashvars
               PROVE  ChipInv' /\ [Works]_flashvars
    OBVIOUS
  <2>1. CASE BusWrite
    <3>1. PICK w \in BusWrites : megaflash_write(w[1], w[2])
      BY <2>1 DEF BusWrite
    <3>2. w[1] \in Address /\ w[2] \in Byte
      BY DEF CellAssumption
    <3> QED BY ONLY CellAssumption, ChipInv, <3>1, <3>2, BusWorks
  <2>2. CASE megaflash_reset
    BY <2>2, ResetOfBus
  <2>3. CASE UNCHANGED flashvars
    BY <2>3 DEF flashvars, banks, command, history, ChipInv, ChipType, CommandInv,
                CommandType, StageInv, ShortSoFar, BufferedSoFar, Carried
  <2> QED BY <2>1, <2>2, <2>3 DEF FlashNext
<1> QED BY <1>1, <1>2, PTL DEF FlashSpec, CommandsWork, Works

---------------------------------------------------------------------------
(* The clock and its CMOS file (RtcStore).                                 *)

\* Every set of numbers that is not empty has a least one.
LEMMA Least ==
    ASSUME NEW S \in SUBSET Nat, S # {}
    PROVE  \E n \in S : \A m \in S : n <= m
<1> DEFINE R == {ss \in Nat \X Nat : ss[1] < ss[2]}
<1>1. IsWellFoundedOn(R, Nat)
  BY NatLessThanWellFounded DEF OpToRel
<1>2. \E x \in S : \A y \in S : <<y, x>> \notin R
  BY <1>1, WFMin
<1>3. PICK x \in S : \A y \in S : <<y, x>> \notin R
  BY <1>2
<1>4. \A y \in S : ~(y < x)
  <2> TAKE y \in S
  <2>1. <<y, x>> \in Nat \X Nat /\ <<y, x>>[1] = y /\ <<y, x>>[2] = x
    OBVIOUS
  <2> QED BY <1>3, <2>1
<1> QED BY <1>4

\* What holds of the start and of each next number holds of all up to n.
LEMMA UpTo ==
    ASSUME NEW n \in Nat, NEW S, 0 \in S,
           \A k \in 0 .. (n - 1) : k \in S => k + 1 \in S
    PROVE  \A k \in 0 .. n : k \in S
<1> DEFINE Bad == {k \in 0 .. n : k \notin S}
<1> SUFFICES ASSUME Bad # {} PROVE FALSE
  OBVIOUS
<1>1. PICK k \in Bad : \A m \in Bad : k <= m
  <2>1. Bad \in SUBSET Nat
    OBVIOUS
  <2> HIDE DEF Bad
  <2> QED BY <2>1, Least
<1>2. k \in 1 .. n
  BY <1>1
<1>3. k - 1 \in S
  BY <1>1, <1>2
<1> QED BY <1>1, <1>2, <1>3

---------------------------------------------------------------------------
(* The calendar: every day of the century has one date (DateOf).           *)

\* The lengths of the months.
LengthOf(m, leap) ==
    IF m = 2 /\ leap % 4 = 0 THEN 29 ELSE IF m = 2 THEN 28
    ELSE IF m \in {4, 6, 9, 11} THEN 30 ELSE 31

LEMMA MonthLength ==
    ASSUME NEW m \in 1..12, NEW leap \in Nat
    PROVE  /\ days_in_month(m, leap) = LengthOf(m, leap)
           /\ days_in_month(m, leap) \in 28..31
<1>1. MonthDays[m] = (IF m = 2 THEN 28 ELSE IF m \in {4, 6, 9, 11} THEN 30 ELSE 31)
  BY DEF MonthDays
<1> QED BY <1>1 DEF days_in_month, LengthOf

\* Where the months begin.
BeginOf(m, y) ==
    (IF m = 1 THEN 0 ELSE IF m = 2 THEN 31 ELSE IF m = 3 THEN 59 ELSE IF m = 4 THEN 90
     ELSE IF m = 5 THEN 120 ELSE IF m = 6 THEN 151 ELSE IF m = 7 THEN 181
     ELSE IF m = 8 THEN 212 ELSE IF m = 9 THEN 243 ELSE IF m = 10 THEN 273
     ELSE IF m = 11 THEN 304 ELSE 334)
    + IF m > 2 /\ y % 4 = 0 THEN 1 ELSE 0

LEMMA MonthBegins ==
    ASSUME NEW m \in 1..12, NEW y \in Nat
    PROVE  MonthStart(m, y) = BeginOf(m, y)
<1> DEFINE begins == <<0, 31, 59, 90, 120, 151, 181, 212, 243, 273, 304, 334>>
<1>1. begins[m] = (IF m = 1 THEN 0 ELSE IF m = 2 THEN 31 ELSE IF m = 3 THEN 59 ELSE IF m = 4 THEN 90
     ELSE IF m = 5 THEN 120 ELSE IF m = 6 THEN 151 ELSE IF m = 7 THEN 181
     ELSE IF m = 8 THEN 212 ELSE IF m = 9 THEN 243 ELSE IF m = 10 THEN 273
     ELSE IF m = 11 THEN 304 ELSE 334)
  OBVIOUS
<1>2. MonthStart(m, y) = begins[m] + (IF m > 2 /\ y % 4 = 0 THEN 1 ELSE 0)
  BY DEF MonthStart
<1> HIDE DEF begins
<1> QED BY <1>1, <1>2 DEF BeginOf

\* Each month begins where the one before it ends.
LEMMA MonthFollows ==
    ASSUME NEW m \in 1..11, NEW y \in Nat
    PROVE  MonthStart(m + 1, y) = MonthStart(m, y) + days_in_month(m, y % 4)
<1>1. m \in 1..12 /\ m + 1 \in 1..12 /\ y % 4 \in Nat /\ (y % 4) % 4 = y % 4
  OBVIOUS
<1>2. BeginOf(m + 1, y) = BeginOf(m, y) + LengthOf(m, y % 4)
  BY <1>1 DEF BeginOf, LengthOf
<1> QED BY <1>1, <1>2, MonthBegins, MonthLength

LEMMA MonthsInOrder ==
    ASSUME NEW m \in 1..12, NEW n \in 1..12, m < n, NEW y \in Nat
    PROVE  MonthStart(m, y) + days_in_month(m, y % 4) <= MonthStart(n, y)
<1>1. y % 4 \in Nat /\ (y % 4) % 4 = y % 4
  OBVIOUS
<1>2. BeginOf(m, y) + LengthOf(m, y % 4) <= BeginOf(n, y)
  BY <1>1 DEF BeginOf, LengthOf
<1> QED BY <1>1, <1>2, MonthBegins, MonthLength

\* The days of a year.
Leap(y) == IF y % 4 = 0 THEN 1 ELSE 0
LEMMA YearBegins ==
    /\ YearStart(0) = 0 /\ YearStart(100) = 36525
    /\ \A y \in Nat : YearStart(y) \in Nat /\ YearStart(y + 1) = YearStart(y) + 365 + Leap(y)
    /\ \A y, z \in Nat : y < z => YearStart(y + 1) <= YearStart(z)
<1>1. YearStart(0) = 0 /\ YearStart(100) = 36525
  BY DEF YearStart
<1>2. \A y \in Nat : YearStart(y) \in Nat /\ YearStart(y + 1) = YearStart(y) + 365 + Leap(y)
  BY DEF YearStart, Leap
<1>3. \A y, z \in Nat : y < z => YearStart(y + 1) <= YearStart(z)
  BY DEF YearStart
<1> QED BY <1>1, <1>2, <1>3

LEMMA Begins ==
    ASSUME NEW m \in 1..12, NEW y \in Nat
    PROVE  YearStart(y) \in Nat /\ MonthStart(m, y) \in Nat
<1>1. BeginOf(m, y) \in Nat
  BY DEF BeginOf
<1> QED BY <1>1, MonthBegins, YearBegins

\* A day of the century, by its date.
DayNo(y, m, d) == YearStart(y) + MonthStart(m, y) + d - 1
IsDate(y, m, d) == /\ y \in 0..99 /\ m \in 1..12 /\ d \in Nat
                   /\ 1 <= d /\ d <= days_in_month(m, y % 4)

\* A date lies in its year, and its year in the century.
LEMMA InYear ==
    ASSUME NEW y, NEW m, NEW d, IsDate(y, m, d)
    PROVE  /\ MonthStart(m, y) + d - 1 \in 0..(364 + Leap(y))
           /\ YearStart(y) <= DayNo(y, m, d) /\ DayNo(y, m, d) < YearStart(y + 1)
           /\ DayNo(y, m, d) \in Nat /\ DayNo(y, m, d) < 36525
           /\ d \in 1..31
<1>1. /\ y \in 0..99 /\ y \in Nat /\ m \in 1..12 /\ d \in Nat /\ 1 <= d
      /\ d <= days_in_month(m, y % 4) /\ y % 4 \in Nat /\ (y % 4) % 4 = y % 4
  BY DEF IsDate
<1>2. d <= LengthOf(m, y % 4) /\ MonthStart(m, y) = BeginOf(m, y)
  BY <1>1, MonthLength, MonthBegins
<1>3. BeginOf(m, y) + d - 1 \in 0..(364 + Leap(y)) /\ d \in 1..31
  BY <1>1, <1>2 DEF BeginOf, LengthOf, Leap
<1>4. YearStart(y) \in Nat /\ YearStart(y + 1) = YearStart(y) + 365 + Leap(y) /\ Leap(y) \in {0, 1}
  BY <1>1, YearBegins DEF Leap
<1>5. YearStart(y + 1) <= 36525
  <2>1. y + 1 = 100 \/ (y + 1 < 100 /\ y + 1 \in Nat /\ 100 \in Nat)
    BY <1>1
  <2>2. y + 1 < 100 => YearStart(y + 1) <= YearStart(100)
    <3>1. y + 1 < 100 => YearStart((y + 1) + 1) <= YearStart(100)
      BY <2>1, YearBegins
    <3>2. YearStart(y + 1) <= YearStart((y + 1) + 1)
      <4>1. y + 1 \in Nat
        BY <1>1
      <4>2. YearStart(y + 1) \in Nat /\ YearStart((y + 1) + 1) = YearStart(y + 1) + 365 + Leap(y + 1)
        BY <4>1, YearBegins
      <4>3. Leap(y + 1) \in {0, 1}
        BY DEF Leap
      <4> QED BY ONLY <4>2, <4>3
    <3>3. YearStart((y + 1) + 1) \in Nat /\ YearStart(y + 1) \in Nat
      BY <1>1, YearBegins
    <3> QED BY <3>1, <3>2, <3>3, YearBegins
  <2> QED BY <2>1, <2>2, YearBegins
<1>6. MonthStart(m, y) + d - 1 \in 0..(364 + Leap(y))
  BY <1>2, <1>3
<1>7. DayNo(y, m, d) = YearStart(y) + (MonthStart(m, y) + d - 1)
  <2>1. MonthStart(m, y) \in Nat
    BY <1>1, MonthBegins DEF BeginOf
  <2>2. d \in Nat /\ YearStart(y) \in Nat
    BY <1>1, <1>4
  <2> QED BY <2>1, <2>2 DEF DayNo
<1>8. /\ YearStart(y) <= DayNo(y, m, d) /\ DayNo(y, m, d) < YearStart(y + 1)
      /\ DayNo(y, m, d) \in Nat /\ DayNo(y, m, d) < 36525
  BY <1>4, <1>5, <1>6, <1>7
<1>9. d \in 1..31
  BY <1>3
<1> QED BY <1>6, <1>8, <1>9

\* A day has one date only.
LEMMA DateIs ==
    ASSUME NEW y, NEW m, NEW d, IsDate(y, m, d)
    PROVE  DateOf(DayNo(y, m, d)) = [year |-> y, month |-> m, day |-> d]
<1> DEFINE days == DayNo(y, m, d)
           inYear == days - YearStart(y)
<1>1. /\ y \in 0..99 /\ m \in 1..12 /\ d \in Nat /\ 1 <= d /\ d <= days_in_month(m, y % 4)
      /\ days \in Nat /\ YearStart(y) <= days /\ days < YearStart(y + 1)
  BY InYear DEF IsDate
<1>2. \A z \in 0..99 : YearStart(z) <= days /\ days < YearStart(z + 1) => z = y
  <2> SUFFICES ASSUME NEW z \in 0..99, YearStart(z) <= days, days < YearStart(z + 1), z # y
               PROVE  FALSE
    OBVIOUS
  <2>1. z \in Nat /\ y \in Nat /\ z + 1 \in Nat /\ y + 1 \in Nat
    BY <1>1
  <2>2. YearStart(z) \in Nat /\ YearStart(y) \in Nat /\ YearStart(z + 1) \in Nat /\ YearStart(y + 1) \in Nat
    BY <2>1, YearBegins
  <2>3. (z < y => YearStart(z + 1) <= YearStart(y)) /\ (y < z => YearStart(y + 1) <= YearStart(z))
    BY <2>1, YearBegins
  <2> QED BY <1>1, <2>1, <2>2, <2>3
<1>3. (CHOOSE z \in 0..99 : YearStart(z) <= days /\ days < YearStart(z + 1)) = y
  BY <1>1, <1>2
<1>4. MonthStart(m, y) \in Nat /\ inYear = MonthStart(m, y) + d - 1
  <2>1. y \in Nat
    BY <1>1
  <2>2. MonthStart(m, y) \in Nat
    BY <1>1, <2>1, MonthBegins DEF BeginOf
  <2> QED BY <1>1, <2>1, <2>2, YearBegins DEF DayNo
<1> HIDE DEF days
<1>5. \A n \in 1..12 : MonthStart(n, y) \in Nat
  BY <1>1, MonthBegins DEF BeginOf
<1>6. days_in_month(m, y % 4) \in Nat
  BY <1>1, MonthLength
<1>7. \A n \in 1..12 : /\ n < m => MonthStart(n + 1, y) <= MonthStart(m, y)
                       /\ m < n => MonthStart(m, y) + days_in_month(m, y % 4) <= MonthStart(n, y)
  <2> TAKE n \in 1..12
  <2>1. CASE n < m
    <3>1. CASE n + 1 = m
      BY <3>1, <1>1, <1>5
    <3>2. CASE n + 1 < m
      <4>1. n + 1 \in 1..12 /\ y \in Nat /\ y % 4 \in Nat
        BY <1>1, <3>2
      <4>2. /\ MonthStart(n + 1, y) + days_in_month(n + 1, y % 4) <= MonthStart(m, y)
            /\ days_in_month(n + 1, y % 4) \in Nat /\ MonthStart(n + 1, y) \in Nat
        BY <1>1, <1>5, <3>2, <4>1, MonthsInOrder, MonthLength
      <4> QED BY <1>1, <1>5, <4>2, <2>1
    <3> QED BY <2>1, <3>1, <3>2, <1>1
  <2>2. CASE m < n
    BY <2>2, <1>1, MonthsInOrder
  <2> QED BY <2>1, <2>2, <1>1
<1>8. \A n \in 1..12 : MonthStart(n, y) <= inYear /\ (n = 12 \/ inYear < MonthStart(n + 1, y)) => n = m
  <2> SUFFICES ASSUME NEW n \in 1..12, MonthStart(n, y) <= inYear,
                      n = 12 \/ inYear < MonthStart(n + 1, y), n # m
               PROVE  FALSE
    BY Zenon
  <2>1. MonthStart(m, y) <= inYear /\ inYear < MonthStart(m, y) + days_in_month(m, y % 4)
    BY <1>1, <1>4, <1>6
  <2>2. CASE n < m
    <3>1. n # 12 /\ n + 1 \in 1..12
      BY <1>1, <2>2
    <3> QED BY <1>1, <1>4, <1>5, <1>7, <2>1, <2>2, <3>1
  <2>3. CASE m < n
    BY <1>1, <1>4, <1>5, <1>6, <1>7, <2>1, <2>3
  <2> QED BY <1>1, <2>2, <2>3
<1>9. MonthStart(m, y) <= inYear /\ (m = 12 \/ inYear < MonthStart(m + 1, y))
  <2>1. MonthStart(m, y) <= inYear /\ inYear < MonthStart(m, y) + days_in_month(m, y % 4)
    BY <1>1, <1>4, <1>6
  <2>2. m # 12 => MonthStart(m + 1, y) = MonthStart(m, y) + days_in_month(m, y % 4)
    BY <1>1, MonthFollows
  <2> QED BY <2>1, <2>2
<1>10. (CHOOSE n \in 1..12 : /\ MonthStart(n, y) <= inYear
                             /\ n = 12 \/ inYear < MonthStart(n + 1, y)) = m
  BY <1>1, <1>8, <1>9
<1>11. inYear - MonthStart(m, y) + 1 = d
  BY <1>1, <1>4
<1> QED BY <1>3, <1>10, <1>11, Zenon DEF DateOf, days

\* The first day of a year.
LEMMA NewYear ==
    ASSUME NEW y \in 0..99
    PROVE  IsDate(y, 1, 1) /\ DayNo(y, 1, 1) = YearStart(y)
<1>1. y \in Nat /\ y % 4 \in Nat
  OBVIOUS
<1>2. 1 <= days_in_month(1, y % 4)
  BY <1>1, MonthLength
<1>3. MonthStart(1, y) = 0 /\ YearStart(y) \in Nat
  BY <1>1, MonthBegins, YearBegins DEF BeginOf
<1> QED BY <1>2, <1>3 DEF IsDate, DayNo

LEMMA FirstDay == IsDate(0, 1, 1) /\ DayNo(0, 1, 1) = 0
<1> DEFINE zero == 0
<1>1. zero \in 0..99 /\ YearStart(zero) = 0
  BY YearBegins
<1> HIDE DEF zero
<1>2. IsDate(zero, 1, 1) /\ DayNo(zero, 1, 1) = 0
  BY <1>1, NewYear
<1> QED BY <1>2 DEF zero

\* The days from a date to the next month.
Rest(y, m, d) == days_in_month(m, y % 4) - d + 1

\* The first day of the month after a date.
LEMMA MonthTurns ==
    ASSUME NEW y, NEW m, NEW d, IsDate(y, m, d)
    PROVE  /\ days_in_month(m, y % 4) \in 28..31
           /\ m < 12 => /\ IsDate(y, m + 1, 1)
                        /\ DayNo(y, m + 1, 1) = DayNo(y, m, d) + Rest(y, m, d)
           /\ m = 12 /\ y < 99 => /\ IsDate(y + 1, 1, 1)
                                  /\ DayNo(y + 1, 1, 1) = DayNo(y, m, d) + Rest(y, m, d)
           /\ m = 12 /\ y = 99 => DayNo(y, m, d) + Rest(y, m, d) = 36525
<1> DEFINE length == days_in_month(m, y % 4)
<1>1. /\ y \in 0..99 /\ y \in Nat /\ m \in 1..12 /\ d \in Nat /\ 1 <= d /\ d <= length
      /\ y % 4 \in Nat
  BY DEF IsDate
<1>2. length \in 28..31
  BY <1>1, MonthLength
<1>9. Rest(y, m, d) = length - d + 1
  BY DEF Rest
<1> HIDE DEF length
<1>3. YearStart(y) \in Nat /\ MonthStart(m, y) \in Nat
  BY <1>1, Begins
<1>4. ASSUME m < 12
      PROVE  IsDate(y, m + 1, 1) /\ DayNo(y, m + 1, 1) = DayNo(y, m, d) + Rest(y, m, d)
  <2>1. m \in 1..11 /\ m + 1 \in 1..12
    BY <1>1, <1>4
  <2>2. MonthStart(m + 1, y) = MonthStart(m, y) + length
    BY <1>1, <2>1, MonthFollows DEF length
  <2>3. 1 <= days_in_month(m + 1, y % 4)
    BY <1>1, <2>1, MonthLength
  <2>4. IsDate(y, m + 1, 1)
    BY <1>1, <2>1, <2>3 DEF IsDate
  <2>5. DayNo(y, m + 1, 1) = DayNo(y, m, d) + Rest(y, m, d)
    BY <1>1, <1>2, <1>3, <1>9, <2>2 DEF DayNo
  <2> QED BY <2>4, <2>5
<1>6. ASSUME m = 12
      PROVE  /\ y < 99 => /\ IsDate(y + 1, 1, 1)
                          /\ DayNo(y + 1, 1, 1) = DayNo(y, m, d) + Rest(y, m, d)
             /\ y = 99 => DayNo(y, m, d) + Rest(y, m, d) = 36525
  <2>1. MonthStart(m, y) + length = 365 + Leap(y)
    <3>1. MonthStart(12, y) = 334 + Leap(y)
      <4>1. 12 \in 1..12 /\ MonthStart(12, y) = BeginOf(12, y)
        BY <1>1, MonthBegins
      <4> QED BY <4>1 DEF BeginOf, Leap
    <3>2. length = 31
      <4>1. 12 \in 1..12 /\ days_in_month(12, y % 4) = LengthOf(12, y % 4)
        BY <1>1, MonthLength
      <4> QED BY <1>6, <4>1 DEF LengthOf, length
    <3>3. Leap(y) \in {0, 1}
      BY DEF Leap
    <3> QED BY <1>6, <3>1, <3>2, <3>3
  <2>2. YearStart(y + 1) = YearStart(y) + 365 + Leap(y) /\ Leap(y) \in {0, 1}
    BY <1>1, YearBegins DEF Leap
  <2>3. DayNo(y, m, d) + Rest(y, m, d) = YearStart(y + 1)
    BY <1>1, <1>2, <1>3, <1>9, <2>1, <2>2 DEF DayNo
  <2>4. ASSUME y < 99
        PROVE  IsDate(y + 1, 1, 1) /\ DayNo(y + 1, 1, 1) = DayNo(y, m, d) + Rest(y, m, d)
    <3>1. y + 1 \in 0..99
      BY <1>1, <2>4
    <3>2. IsDate(y + 1, 1, 1) /\ DayNo(y + 1, 1, 1) = YearStart(y + 1)
      BY <3>1, NewYear
    <3> QED BY <2>3, <3>2
  <2>5. y = 99 => YearStart(y + 1) = 36525
    BY YearBegins
  <2> QED BY <2>3, <2>4, <2>5
<1>7. days_in_month(m, y % 4) \in 28..31
  BY <1>2 DEF length
<1> QED BY <1>4, <1>6, <1>7

\* The day after a date that does not end its month.
LEMMA DayTurns ==
    ASSUME NEW y, NEW m, NEW d, IsDate(y, m, d), d < days_in_month(m, y % 4)
    PROVE  IsDate(y, m, d + 1) /\ DayNo(y, m, d + 1) = DayNo(y, m, d) + 1
<1>1. y \in 0..99 /\ y \in Nat /\ m \in 1..12 /\ d \in Nat /\ y % 4 \in Nat
  BY DEF IsDate
<1>2. days_in_month(m, y % 4) \in Nat
  BY <1>1, MonthLength
<1>3. YearStart(y) \in Nat /\ MonthStart(m, y) \in Nat
  BY <1>1, Begins
<1>4. IsDate(y, m, d + 1)
  BY <1>1, <1>2 DEF IsDate
<1>5. DayNo(y, m, d + 1) = DayNo(y, m, d) + 1
  BY <1>1, <1>3 DEF DayNo
<1> QED BY <1>4, <1>5

\* Every day of the century has a date.
LEMMA DateKnown ==
    ASSUME NEW D \in Nat, D < 36525
    PROVE  \E y, m, d : IsDate(y, m, d) /\ DayNo(y, m, d) = D
<1> DEFINE S == {k \in Nat : k < 36525 => \E y, m, d : IsDate(y, m, d) /\ DayNo(y, m, d) = k}
<1>1. 0 \in S
  BY FirstDay
<1>2. ASSUME NEW k \in 0..(D - 1), k \in S PROVE k + 1 \in S
  <2> SUFFICES ASSUME k + 1 < 36525
               PROVE  \E y, m, d : IsDate(y, m, d) /\ DayNo(y, m, d) = k + 1
    OBVIOUS
  <2>1. PICK y, m, d : IsDate(y, m, d) /\ DayNo(y, m, d) = k
    BY <1>2
  <2> DEFINE length == days_in_month(m, y % 4)
  <2>2. /\ y \in 0..99 /\ y \in Nat /\ m \in 1..12 /\ d \in Nat /\ 1 <= d /\ d <= length
        /\ y % 4 \in Nat
    BY <2>1 DEF IsDate
  <2>3. CASE d < length
    <3>1. IsDate(y, m, d + 1) /\ DayNo(y, m, d + 1) = DayNo(y, m, d) + 1
      BY <2>1, <2>3, DayTurns
    <3> QED BY <2>1, <3>1
  <2>4. CASE d = length
    <3>1. Rest(y, m, d) = 1
      BY <2>2, <2>4 DEF Rest
    <3>2. /\ m < 12 => IsDate(y, m + 1, 1) /\ DayNo(y, m + 1, 1) = DayNo(y, m, d) + Rest(y, m, d)
          /\ m = 12 /\ y < 99 => IsDate(y + 1, 1, 1) /\ DayNo(y + 1, 1, 1) = DayNo(y, m, d) + Rest(y, m, d)
          /\ m = 12 /\ y = 99 => DayNo(y, m, d) + Rest(y, m, d) = 36525
      BY <2>1, MonthTurns
    <3> HIDE DEF length
    <3>3. m < 12 \/ (m = 12 /\ y < 99) \/ (m = 12 /\ y = 99)
      BY <2>2
    <3>4. CASE m < 12
      BY <2>1, <3>1, <3>2, <3>4
    <3>5. CASE m = 12 /\ y < 99
      BY <2>1, <3>1, <3>2, <3>5
    <3>6. CASE m = 12 /\ y = 99
      BY <2>1, <3>1, <3>2, <3>6
    <3> QED BY <3>3, <3>4, <3>5, <3>6
  <2>5. length \in Nat
    BY <2>2, MonthLength
  <2> HIDE DEF length
  <2> QED BY <2>2, <2>3, <2>4, <2>5
<1> HIDE DEF S
<1>3. \A k \in 0..D : k \in S
  BY <1>1, <1>2, UpTo
<1>4. D \in S
  BY <1>3
<1> QED BY <1>4 DEF S

---------------------------------------------------------------------------
(* Days added to a date (AddDays): the first day of the next month, again and *)
(* again, until the rest fits.                                             *)

\* The fields of a moment, and the day they show.
Fields == [seconds : 0..59, minutes : 0..59, hours : 0..23, weekday : 0..6,
           day : 1..31, month : 1..12, year : 0..99, leap : 0..3]
OnDay(f, D) ==
    /\ IsDate(f.year, f.month, f.day) /\ f.leap = f.year % 4
    /\ DayNo(f.year, f.month, f.day) = D % 36525
SameTime(f, g) == /\ f.seconds = g.seconds /\ f.minutes = g.minutes
                  /\ f.hours = g.hours /\ f.weekday = g.weekday

\* Days are counted in a century of 36525.
LEMMA Century ==
    ASSUME NEW a \in Nat, NEW D \in Nat
    PROVE  /\ ((D % 36525) + a) % 36525 = (D + a) % 36525
           /\ D % 36525 \in Nat /\ D % 36525 < 36525
           /\ a < 36525 => a % 36525 = a
OBVIOUS

LEMMA DateReplaced ==
    ASSUME NEW f \in Fields, NEW d \in 1..31, NEW m \in 1..12, NEW y \in 0..99, NEW l \in 0..3
    PROVE  [f EXCEPT !.day = d, !.month = m, !.year = y, !.leap = l] \in Fields
BY DEF Fields

\* The first day of the next month, in the century.
LEMMA NextMonthIs ==
    ASSUME NEW f \in Fields, NEW D \in Nat, OnDay(f, D)
    PROVE  /\ NextMonth(f) \in Fields /\ SameTime(f, NextMonth(f))
           /\ OnDay(NextMonth(f), D + (days_in_month(f.month, f.leap) - f.day + 1))
<1> DEFINE y == f.year
           m == f.month
           d == f.day
           g == NextMonth(f)
           E == D + Rest(y, m, d)
<1>1. /\ y \in 0..99 /\ m \in 1..12 /\ d \in 1..31 /\ f.leap \in 0..3
      /\ f.leap = y % 4 /\ IsDate(y, m, d) /\ DayNo(y, m, d) = D % 36525
  BY DEF Fields, OnDay
<1>2. /\ g.day = 1 /\ g.month = (IF m = 12 THEN 1 ELSE m + 1)
      /\ g.year = (IF m = 12 THEN (y + 1) % 100 ELSE y)
      /\ g.leap = (IF m = 12 THEN (f.leap + 1) % 4 ELSE f.leap)
      /\ SameTime(f, g)
  BY DEF NextMonth, Fields, SameTime
<1>3. g \in Fields
  <2> DEFINE mm == IF m = 12 THEN 1 ELSE m + 1
             yy == IF m = 12 THEN (y + 1) % 100 ELSE y
             ll == IF m = 12 THEN (f.leap + 1) % 4 ELSE f.leap
  <2>1. mm \in 1..12 /\ yy \in 0..99 /\ ll \in 0..3
    BY <1>1
  <2>2. g = [f EXCEPT !.day = 1, !.month = mm, !.year = yy, !.leap = ll]
    BY Zenon DEF NextMonth
  <2> HIDE DEF mm, yy, ll, g
  <2>3. 1 \in 1..31 /\ f \in Fields
    OBVIOUS
  <2> QED BY ONLY <2>1, <2>2, <2>3, DateReplaced, Zenon
<1>4. Rest(y, m, d) \in 1..31 /\ E \in Nat
  <2>1. days_in_month(m, y % 4) \in 28..31 /\ d <= days_in_month(m, y % 4)
    BY <1>1, MonthTurns DEF IsDate
  <2> QED BY <1>1, <2>1 DEF Rest
<1> HIDE DEF g, y, m, d
<1>5. IsDate(g.year, g.month, 1) /\ DayNo(g.year, g.month, 1) = E % 36525
  <2> DEFINE r == Rest(y, m, d)
  <2>1. /\ m < 12 => /\ IsDate(y, m + 1, 1)
                     /\ DayNo(y, m + 1, 1) = DayNo(y, m, d) + r
        /\ m = 12 /\ y < 99 => /\ IsDate(y + 1, 1, 1)
                               /\ DayNo(y + 1, 1, 1) = DayNo(y, m, d) + r
        /\ m = 12 /\ y = 99 => DayNo(y, m, d) + r = 36525
    BY <1>1, MonthTurns
  <2>2. /\ ((D % 36525) + r) % 36525 = E % 36525 /\ r \in Nat
        /\ (36525 % 36525 = 0) /\ D % 36525 \in Nat
    BY <1>4, Century
  <2> HIDE DEF r
  <2>3. \A a, b, c : IsDate(a, b, c) => DayNo(a, b, c) \in Nat /\ DayNo(a, b, c) < 36525
    BY InYear
  <2>4. CASE m < 12
    <3>1. g.year = y /\ g.month = m + 1
      BY <1>1, <1>2, <2>4
    <3>2. IsDate(y, m + 1, 1) /\ DayNo(y, m + 1, 1) = (D % 36525) + r
      BY <1>1, <2>1, <2>4
    <3>3. (D % 36525) + r < 36525 /\ (D % 36525) + r \in Nat
      BY <2>3, <3>2
    <3>4. ((D % 36525) + r) % 36525 = (D % 36525) + r
      BY <3>3, Century
    <3> QED BY <2>2, <3>1, <3>2, <3>4
  <2>5. CASE m = 12 /\ y < 99
    <3>1. g.year = y + 1 /\ g.month = 1
      BY <1>1, <1>2, <2>5
    <3>2. IsDate(y + 1, 1, 1) /\ DayNo(y + 1, 1, 1) = (D % 36525) + r
      BY <1>1, <2>1, <2>5
    <3>3. (D % 36525) + r < 36525 /\ (D % 36525) + r \in Nat
      BY <2>3, <3>2
    <3>4. ((D % 36525) + r) % 36525 = (D % 36525) + r
      BY <3>3, Century
    <3> QED BY <2>2, <3>1, <3>2, <3>4
  <2>6. CASE m = 12 /\ y = 99
    <3>1. g.year = 0 /\ g.month = 1
      BY <1>1, <1>2, <2>6
    <3>2. (D % 36525) + r = 36525
      BY <1>1, <2>1, <2>6
    <3> QED BY <2>2, <3>1, <3>2, FirstDay
  <2> QED BY <1>1, <2>4, <2>5, <2>6
<1>6. g.leap = g.year % 4
  BY <1>1, <1>2
<1>7. E = D + (days_in_month(f.month, f.leap) - f.day + 1)
  BY <1>1 DEF Rest, y, m, d
<1> HIDE DEF E
<1>8. OnDay(g, E)
  BY <1>2, <1>5, <1>6 DEF OnDay
<1> QED BY <1>2, <1>3, <1>7, <1>8 DEF g

\* Days are turned until the rest fits in the month.
DaysFit(now) == now.date.day + now.days <= days_in_month(now.date.month, now.date.leap)

LEMMA TurnedIs ==
    ASSUME NEW now \in [date : Fields, days : Nat], NEW E \in Nat, now.days <= E,
           OnDay(now.date, E - now.days)
    PROVE  /\ Turned(now) \in [date : Fields, days : Nat] /\ Turned(now).days <= E
           /\ OnDay(Turned(now).date, E - Turned(now).days)
           /\ SameTime(now.date, Turned(now).date)
           /\ DaysFit(now) => Turned(now) = now
           /\ ~DaysFit(now) => Turned(now).days < now.days
<1> DEFINE f == now.date
           left == now.days
           length == days_in_month(f.month, f.leap)
           t == [date |-> NextMonth(f), days |-> left - (length - f.day) - 1]
<1>1. f \in Fields /\ left \in Nat /\ now = [date |-> f, days |-> left]
  OBVIOUS
<1>2. f.day \in Nat /\ length \in Nat /\ f.day <= length
  <2>1. IsDate(f.year, f.month, f.day) /\ f.leap = f.year % 4
    BY DEF OnDay
  <2>2. days_in_month(f.month, f.year % 4) \in 28..31 /\ f.day <= days_in_month(f.month, f.year % 4)
        /\ f.day \in Nat
    BY <2>1, MonthTurns DEF IsDate
  <2> QED BY <2>1, <2>2
<1>3. Turned(now) = IF f.day > length \/ f.day + left <= length THEN now ELSE t
  BY Zenon DEF Turned
<1>4. CASE f.day + left <= length
  BY <1>1, <1>2, <1>3, <1>4 DEF DaysFit, SameTime
<1>5. CASE ~(f.day + left <= length)
  <2> DEFINE D == E - left
             gone == length - f.day + 1
  <2>1. D \in Nat /\ gone \in Nat /\ gone >= 1 /\ gone <= left
    BY <1>1, <1>2, <1>5
  <2>2. left - (length - f.day) - 1 = left - gone
    BY <1>1, <1>2
  <2>3. NextMonth(f) \in Fields /\ SameTime(f, NextMonth(f)) /\ OnDay(NextMonth(f), D + gone)
    BY <1>1, <2>1, NextMonthIs
  <2>4. Turned(now) = t
    BY <1>2, <1>3, <1>5
  <2>5. t.date = NextMonth(f) /\ t.days = left - gone
    BY <2>2
  <2>6. D + gone = E - (left - gone)
    BY <1>1, <1>2
  <2>7. ~DaysFit(now)
    BY <1>5 DEF DaysFit
  <2>8. t \in [date : Fields, days : Nat]
    <3>1. left - gone \in Nat
      BY <1>1, <2>1
    <3> QED BY <2>2, <2>3, <3>1
  <2> HIDE DEF t, gone, D
  <2>9. t.days <= E /\ t.days < left
    BY <1>1, <2>1, <2>5
  <2> QED BY <2>3, <2>4, <2>5, <2>6, <2>7, <2>8, <2>9
<1> QED BY <1>4, <1>5

\* The recursive function of AddDays, which exists: there is one up to each
\* number of turns.
Turning(start, days, f) ==
    f = [n \in 0 .. days |-> IF n = 0 THEN start ELSE Turned(f[n - 1])]

LEMMA TurningExists ==
    ASSUME NEW start, NEW days \in Nat
    PROVE  \E f : Turning(start, days, f)
<1> DEFINE G(k, f) == f = [n \in 0 .. k |-> IF n = 0 THEN start ELSE Turned(f[n - 1])]
           S == {k \in 0 .. days : \E f : G(k, f)}
<1>1. 0 \in S
  <2> DEFINE f == [n \in 0 .. 0 |-> start]
             h == [n \in 0 .. 0 |-> IF n = 0 THEN start ELSE Turned(f[n - 1])]
  <2>1. f = [n \in 0 .. 0 |-> f[n]] /\ h = [n \in 0 .. 0 |-> h[n]]
    OBVIOUS
  <2>2. \A n \in 0 .. 0 : f[n] = h[n]
    OBVIOUS
  <2>3. h = [n \in 0 .. 0 |-> IF n = 0 THEN start ELSE Turned(f[n - 1])]
    OBVIOUS
  <2> HIDE DEF f, h
  <2>4. f = h
    BY ONLY <2>1, <2>2
  <2>5. G(0, f)
    BY ONLY <2>3, <2>4
  <2>6. 0 \in 0 .. days
    OBVIOUS
  <2> HIDE DEF G
  <2> QED BY ONLY <2>5, <2>6
<1>2. ASSUME NEW k \in 0 .. (days - 1), k \in S
      PROVE  k + 1 \in S
  <2>1. PICK f : G(k, f)
    BY <1>2
  <2> DEFINE g == [n \in 0 .. (k + 1) |-> IF n = k + 1 THEN Turned(f[k]) ELSE f[n]]
             h == [n \in 0 .. (k + 1) |-> IF n = 0 THEN start ELSE Turned(g[n - 1])]
  <2>2. \A n \in 0 .. k : g[n] = f[n]
    OBVIOUS
  <2>3. \A n \in 0 .. k : f[n] = IF n = 0 THEN start ELSE Turned(f[n - 1])
    BY <2>1
  <2>4. ASSUME NEW n \in 0 .. (k + 1) PROVE g[n] = h[n]
    <3>1. CASE n = k + 1
      <4>1. g[n] = Turned(f[k]) /\ n # 0 /\ n - 1 = k /\ g[k] = f[k]
        BY <3>1
      <4>2. h[n] = Turned(g[n - 1])
        BY <4>1
      <4> HIDE DEF g, h
      <4> QED BY <3>1, <4>1, <4>2
    <3>2. CASE n = 0
      BY <2>2, <2>3, <3>2
    <3>3. CASE n \in 1 .. k
      <4>1. g[n] = f[n] /\ g[n - 1] = f[n - 1] /\ f[n] = Turned(f[n - 1])
        BY <2>2, <2>3, <3>3
      <4>2. h[n] = Turned(g[n - 1])
        BY <3>3
      <4> HIDE DEF g, h
      <4> QED BY <4>1, <4>2
    <3> QED BY <3>1, <3>2, <3>3
  <2>5. g = [n \in 0 .. (k + 1) |-> g[n]] /\ h = [n \in 0 .. (k + 1) |-> h[n]]
    OBVIOUS
  <2>6. h = [n \in 0 .. (k + 1) |-> IF n = 0 THEN start ELSE Turned(g[n - 1])]
    OBVIOUS
  <2> HIDE DEF g, h
  <2>7. g = h
    BY ONLY <2>4, <2>5
  <2>8. G(k + 1, g)
    BY ONLY <2>6, <2>7
  <2>9. k + 1 \in 0 .. days
    OBVIOUS
  <2> HIDE DEF G
  <2> QED BY ONLY <2>8, <2>9
<1> HIDE DEF S
<1>3. days \in S
  <2>1. \A k \in 0 .. days : k \in S
    BY <1>1, <1>2, UpTo
  <2> QED BY <2>1
<1> QED BY <1>3 DEF S, Turning

\* Days added to a day of the calendar give the day that many days later.
LEMMA AddDaysIs ==
    ASSUME NEW f \in Fields, NEW D \in Nat, OnDay(f, D), NEW days \in Nat
    PROVE  /\ AddDays(f, days) \in Fields /\ OnDay(AddDays(f, days), D + days)
           /\ SameTime(f, AddDays(f, days))
<1> DEFINE start == [date |-> f, days |-> days]
           turned == CHOOSE g : Turning(start, days, g)
           last == turned[days]
           E == D + days
           Good(now) == /\ now \in [date : Fields, days : Nat] /\ now.days <= E
                        /\ OnDay(now.date, E - now.days) /\ SameTime(f, now.date)
           S == {n \in 0..days : /\ Good(turned[n])
                                 /\ DaysFit(turned[n]) \/ turned[n].days <= days - n}
<1>1. Turning(start, days, turned)
  BY TurningExists
<1>2. AddDays(f, days) = [last.date EXCEPT !.day = last.date.day + last.days]
  BY Zenon DEF AddDays, Turning
<1> HIDE DEF turned
<1>3. turned[0] = start /\ \A n \in 1..days : turned[n] = Turned(turned[n - 1])
  BY <1>1 DEF Turning
<1>4. 0 \in S
  <2>1. start.date = f /\ start.days = days /\ start \in [date : Fields, days : Nat]
    OBVIOUS
  <2>2. SameTime(f, f) /\ E - days = D
    BY DEF SameTime
  <2> HIDE DEF start
  <2> QED BY <1>3, <2>1, <2>2
<1>5. ASSUME NEW n \in 0..(days - 1), n \in S PROVE n + 1 \in S
  <2> DEFINE now == turned[n]
             t == Turned(now)
  <2>1. n + 1 \in 1..days /\ (n + 1) - 1 = n /\ n + 1 \in 0..days
    OBVIOUS
  <2>2. turned[n + 1] = t
    BY <1>3, <2>1
  <2>3. Good(now) /\ (DaysFit(now) \/ now.days <= days - n) /\ E \in Nat
    BY <1>5
  <2>7. /\ now \in [date : Fields, days : Nat] /\ now.days <= E
        /\ OnDay(now.date, E - now.days) /\ SameTime(f, now.date)
    BY <2>3
  <2> HIDE DEF now, E
  <2>4. /\ t \in [date : Fields, days : Nat] /\ t.days <= E /\ OnDay(t.date, E - t.days)
        /\ SameTime(now.date, t.date) /\ (DaysFit(now) => t = now)
        /\ (~DaysFit(now) => t.days < now.days)
    BY <2>3, <2>7, TurnedIs
  <2> HIDE DEF t
  <2>5. SameTime(f, t.date)
    BY <2>7, <2>4 DEF SameTime
  <2>6. DaysFit(t) \/ t.days <= days - (n + 1)
    <3>1. CASE DaysFit(now)
      BY <2>4, <3>1
    <3>2. CASE ~DaysFit(now)
      BY <2>3, <2>4, <2>7, <3>2
    <3> QED BY <3>1, <3>2
  <2>8. Good(turned[n + 1])
    BY <2>2, <2>4, <2>5
  <2> QED BY <2>1, <2>2, <2>6, <2>8
<1> HIDE DEF S
<1>6. \A n \in 0..days : n \in S
  BY <1>4, <1>5, UpTo
<1>7. Good(last) /\ (DaysFit(last) \/ last.days <= 0)
  <2>1. days \in S /\ days - days = 0
    BY <1>6
  <2> QED BY <2>1 DEF S
<1> HIDE DEF last
<1> DEFINE g == last.date
           left == last.days
           r == [g EXCEPT !.day = g.day + left]
<1>8. /\ g \in Fields /\ left \in Nat /\ left <= E /\ OnDay(g, E - left) /\ SameTime(f, g)
      /\ DaysFit(last) \/ left = 0
  BY <1>7
<1>9. /\ IsDate(g.year, g.month, g.day) /\ g.leap = g.year % 4
      /\ DayNo(g.year, g.month, g.day) = (E - left) % 36525
      /\ g.day \in 1..31 /\ g.month \in 1..12 /\ g.year \in 0..99
      /\ g.day <= days_in_month(g.month, g.leap) /\ days_in_month(g.month, g.leap) \in 28..31
  BY <1>8, MonthTurns DEF OnDay, IsDate, Fields
<1>10. g.day + left <= days_in_month(g.month, g.leap) /\ g.day + left \in 1..31
  <2>1. CASE left = 0
    BY <1>9, <2>1
  <2>2. CASE DaysFit(last)
    BY <1>8, <1>9, <2>2 DEF DaysFit
  <2> QED BY <1>8, <2>1, <2>2
<1>11. /\ r \in Fields /\ r.day = g.day + left /\ r.month = g.month /\ r.year = g.year
       /\ r.leap = g.leap /\ SameTime(f, r)
  BY <1>8, <1>10 DEF Fields, SameTime
<1> DEFINE now == g.day + left
<1>12. IsDate(g.year, g.month, now)
  BY <1>9, <1>10 DEF IsDate
<1>13. DayNo(g.year, g.month, now) = DayNo(g.year, g.month, g.day) + left
  <2>1. YearStart(g.year) \in Nat /\ MonthStart(g.month, g.year) \in Nat
    <3>1. g.year \in Nat /\ g.month \in 1..12
      BY <1>9
    <3> QED BY ONLY <3>1, Begins
  <2> QED BY <1>8, <1>9, <2>1 DEF DayNo
<1>14. DayNo(g.year, g.month, now) = E % 36525
  <2>1. DayNo(g.year, g.month, now) \in Nat /\ DayNo(g.year, g.month, now) < 36525
    BY <1>12, InYear
  <2>2. E - left \in Nat /\ (E - left) + left = E
    BY <1>8
  <2>3. (((E - left) % 36525) + left) % 36525 = E % 36525
    <3> DEFINE F == E - left
    <3>1. F \in Nat /\ left \in Nat /\ F + left = E
      BY <1>8, <2>2
    <3> HIDE DEF F
    <3>2. ((F % 36525) + left) % 36525 = (F + left) % 36525
      BY ONLY <3>1, Century
    <3>3. ((F % 36525) + left) % 36525 = E % 36525
      BY ONLY <3>1, <3>2
    <3> QED BY <3>3 DEF F
  <2>4. DayNo(g.year, g.month, now) % 36525 = DayNo(g.year, g.month, now)
    BY <2>1, Century
  <2> QED BY <1>9, <1>13, <2>3, <2>4
<1> HIDE DEF r
<1>15. OnDay(r, E)
  BY <1>9, <1>11, <1>12, <1>14 DEF OnDay
<1> QED BY <1>2, <1>11, <1>15 DEF r

---------------------------------------------------------------------------
(* Fields in registers: what set_time writes, Decoded reads.               *)

IsBank(nibbles) == nibbles = [r \in Regs |-> nibbles[r]]
IsTable(regs) == /\ regs = [b \in Blocks |-> regs[b]]
                 /\ \A b \in Blocks : IsBank(regs[b])

\* A pair of registers encoded at given places.
PairAt(nibbles, low, high, value) == [nibbles EXCEPT ![low] = value % 10, ![high] = value \div 10]

\* e is a bank with a pair encoded in it.
Encoded(nibbles, e, low, high, value) ==
    /\ IsBank(e) /\ e[low] = value % 10 /\ e[high] = value \div 10
    /\ \A r \in Regs \ {low, high} : e[r] = nibbles[r]

LEMMA PairEncoded ==
    ASSUME NEW nibbles, IsBank(nibbles), NEW low \in Regs, NEW high \in Regs, low # high, NEW value
    PROVE  Encoded(nibbles, PairAt(nibbles, low, high, value), low, high, value)
<1> DEFINE ones == value % 10
           tens == value \div 10
           e == [nibbles EXCEPT ![low] = ones, ![high] = tens]
<1>1. PairAt(nibbles, low, high, value) = e
  BY Zenon DEF PairAt
<1> HIDE DEF ones, tens
<1>3. DOMAIN nibbles = Regs
  BY DEF IsBank
<1>4. DOMAIN e = Regs /\ e[low] = ones /\ e[high] = tens
      /\ \A r \in Regs \ {low, high} : e[r] = nibbles[r]
  BY <1>3
<1>5. e = [r \in Regs |-> e[r]]
  BY <1>3
<1> HIDE DEF e
<1>6. IsBank(e)
  BY <1>5 DEF IsBank
<1> QED BY <1>1, <1>4, <1>6 DEF Encoded, ones, tens

\* The places of the pairs.
LEMMA PairPlaces ==
    ASSUME NEW nibbles, NEW value
    PROVE  /\ encode_pair(nibbles, 0, value) = PairAt(nibbles, 0, 1, value)
           /\ encode_pair(nibbles, 2, value) = PairAt(nibbles, 2, 3, value)
           /\ encode_pair(nibbles, 4, value) = PairAt(nibbles, 4, 5, value)
           /\ encode_pair(nibbles, 7, value) = PairAt(nibbles, 7, 8, value)
           /\ encode_pair(nibbles, 9, value) = PairAt(nibbles, 9, 10, value)
           /\ encode_pair(nibbles, 11, value) = PairAt(nibbles, 11, 12, value)
<1> DEFINE ones == value % 10
           tens == value \div 10
<1>1. \A low, high : PairAt(nibbles, low, high, value) = [nibbles EXCEPT ![low] = ones, ![high] = tens]
  BY Zenon DEF PairAt
<1>2. \A low : encode_pair(nibbles, low, value) = [nibbles EXCEPT ![low] = ones, ![low + 1] = tens]
  BY Zenon DEF encode_pair
<1> HIDE DEF ones, tens
<1> QED BY <1>1, <1>2

LEMMA Thirteen == Regs = {0, 1, 2, 3, 4, 5, 6, 7, 8, 9, 10, 11, 12}
BY DEF Regs

LEMMA PairsEncoded ==
    ASSUME NEW nibbles, IsBank(nibbles), NEW value
    PROVE  /\ Encoded(nibbles, encode_pair(nibbles, 0, value), 0, 1, value)
           /\ Encoded(nibbles, encode_pair(nibbles, 2, value), 2, 3, value)
           /\ Encoded(nibbles, encode_pair(nibbles, 4, value), 4, 5, value)
           /\ Encoded(nibbles, encode_pair(nibbles, 7, value), 7, 8, value)
           /\ Encoded(nibbles, encode_pair(nibbles, 9, value), 9, 10, value)
           /\ Encoded(nibbles, encode_pair(nibbles, 11, value), 11, 12, value)
<1>1. /\ 0 \in Regs /\ 1 \in Regs /\ 0 # 1 /\ 2 \in Regs /\ 3 \in Regs /\ 2 # 3
      /\ 4 \in Regs /\ 5 \in Regs /\ 4 # 5 /\ 7 \in Regs /\ 8 \in Regs /\ 7 # 8
      /\ 9 \in Regs /\ 10 \in Regs /\ 9 # 10 /\ 11 \in Regs /\ 12 \in Regs /\ 11 # 12
  BY Thirteen
<1>2. Encoded(nibbles, encode_pair(nibbles, 0, value), 0, 1, value)
  BY <1>1, PairPlaces, PairEncoded, Zenon
<1>3. Encoded(nibbles, encode_pair(nibbles, 2, value), 2, 3, value)
  BY <1>1, PairPlaces, PairEncoded, Zenon
<1>4. Encoded(nibbles, encode_pair(nibbles, 4, value), 4, 5, value)
  BY <1>1, PairPlaces, PairEncoded, Zenon
<1>5. Encoded(nibbles, encode_pair(nibbles, 7, value), 7, 8, value)
  BY <1>1, PairPlaces, PairEncoded, Zenon
<1>6. Encoded(nibbles, encode_pair(nibbles, 9, value), 9, 10, value)
  BY <1>1, PairPlaces, PairEncoded, Zenon
<1>7. Encoded(nibbles, encode_pair(nibbles, 11, value), 11, 12, value)
  BY <1>1, PairPlaces, PairEncoded, Zenon
<1> QED BY <1>2, <1>3, <1>4, <1>5, <1>6, <1>7

\* e is a bank with one register replaced, t a table with two banks replaced.
Replaced(nibbles, e, place, value) ==
    /\ IsBank(e) /\ e[place] = value
    /\ \A r \in Regs \ {place} : e[r] = nibbles[r]
Tabled(regs, t, b0, b1) ==
    /\ IsTable(t) /\ t[0] = b0 /\ t[1] = b1 /\ t[2] = regs[2] /\ t[3] = regs[3]

LEMMA BankReplaced ==
    ASSUME NEW nibbles, IsBank(nibbles), NEW place \in Regs, NEW value
    PROVE  Replaced(nibbles, [nibbles EXCEPT ![place] = value], place, value)
<1> DEFINE e == [nibbles EXCEPT ![place] = value]
<1>1. DOMAIN nibbles = Regs
  BY DEF IsBank
<1>2. e[place] = value /\ \A r \in Regs \ {place} : e[r] = nibbles[r]
  BY <1>1
<1>3. e = [r \in Regs |-> e[r]]
  BY <1>1
<1> HIDE DEF e
<1>4. IsBank(e)
  BY <1>3 DEF IsBank
<1> QED BY <1>2, <1>4, Zenon DEF Replaced, e

LEMMA TableReplaced ==
    ASSUME NEW regs, IsTable(regs), NEW b0, NEW b1, IsBank(b0), IsBank(b1)
    PROVE  Tabled(regs, [regs EXCEPT ![0] = b0, ![1] = b1], b0, b1)
<1> DEFINE t == [regs EXCEPT ![0] = b0, ![1] = b1]
<1>1. DOMAIN regs = Blocks /\ Blocks = {0, 1, 2, 3} /\ \A b \in Blocks : IsBank(regs[b])
  BY DEF IsTable, Blocks
<1>2. t[0] = b0 /\ t[1] = b1 /\ t[2] = regs[2] /\ t[3] = regs[3]
  BY <1>1
<1>3. t = [b \in Blocks |-> t[b]]
  BY <1>1
<1> HIDE DEF t
<1>4. \A b \in Blocks : IsBank(t[b])
  BY <1>1, <1>2
<1>5. IsTable(t)
  BY <1>3, <1>4 DEF IsTable
<1> QED BY <1>2, <1>5, Zenon DEF Tabled, t

\* The registers after a time was set.
IsSet(regs, f, t) ==
    /\ IsTable(t)
    /\ t[0][0] = f.seconds % 10 /\ t[0][1] = f.seconds \div 10
    /\ t[0][2] = f.minutes % 10 /\ t[0][3] = f.minutes \div 10
    /\ t[0][4] = EncodedHour(regs, f.hours) % 10
    /\ t[0][5] = EncodedHour(regs, f.hours) \div 10
    /\ t[0][6] = f.weekday % 7
    /\ t[0][7] = f.day % 10 /\ t[0][8] = f.day \div 10
    /\ t[0][9] = f.month % 10 /\ t[0][10] = f.month \div 10
    /\ t[0][11] = f.year % 10 /\ t[0][12] = f.year \div 10
    /\ t[1][11] = f.leap % 4 /\ t[1][10] = regs[1][10]

\* What set_time writes.
LEMMA SetTimeIs ==
    ASSUME NEW regs, IsTable(regs), NEW f
    PROVE  IsSet(regs, f, set_time(regs, f))
<1> DEFINE b0 == regs[0]
           b1 == encode_pair(b0, 0, f.seconds)
           b2 == encode_pair(b1, 2, f.minutes)
           b3 == encode_pair(b2, 4, EncodedHour(regs, f.hours))
           b4 == encode_pair(b3, 7, f.day)
           b5 == encode_pair(b4, 9, f.month)
           b6 == encode_pair(b5, 11, f.year)
           w == f.weekday % 7
           l == f.leap % 4
           six == 6
           eleven == 11
           nibbles == [b6 EXCEPT ![six] = w]
           other == [regs[1] EXCEPT ![eleven] = l]
           t == [regs EXCEPT ![0] = nibbles, ![1] = other]
<1>1. set_time(regs, f) = t
  <2>1. set_time(regs, f) = [regs EXCEPT ![0] = nibbles, ![1][11] = l]
    BY Zenon DEF set_time
  <2> HIDE DEF nibbles, l
  <2> DEFINE u == [regs EXCEPT ![0] = nibbles]
  <2>2. [regs EXCEPT ![0] = nibbles, ![1][11] = l] = [u EXCEPT ![1] = [u[1] EXCEPT ![11] = l]]
    BY Zenon
  <2>3. u[1] = regs[1]
    BY DEF IsTable, Blocks
  <2> QED BY <2>1, <2>2, <2>3
<1>2. IsBank(b0) /\ IsBank(regs[1])
  BY DEF IsTable, Blocks
<1>3. Encoded(b0, b1, 0, 1, f.seconds)
  BY ONLY <1>2, PairsEncoded, Zenon
<1>4. Encoded(b1, b2, 2, 3, f.minutes)
  <2>1. IsBank(b1)
    BY ONLY <1>3, Zenon DEF Encoded
  <2> HIDE DEF b1
  <2> QED BY ONLY <2>1, PairsEncoded, Zenon
<1>5. Encoded(b2, b3, 4, 5, EncodedHour(regs, f.hours))
  <2>1. IsBank(b2)
    BY ONLY <1>4, Zenon DEF Encoded
  <2> HIDE DEF b2
  <2> QED BY ONLY <2>1, PairsEncoded, Zenon
<1>6. Encoded(b3, b4, 7, 8, f.day)
  <2>1. IsBank(b3)
    BY ONLY <1>5, Zenon DEF Encoded
  <2> HIDE DEF b3
  <2> QED BY ONLY <2>1, PairsEncoded, Zenon
<1>7. Encoded(b4, b5, 9, 10, f.month)
  <2>1. IsBank(b4)
    BY ONLY <1>6, Zenon DEF Encoded
  <2> HIDE DEF b4
  <2> QED BY ONLY <2>1, PairsEncoded, Zenon
<1>8. Encoded(b5, b6, 11, 12, f.year)
  <2>1. IsBank(b5)
    BY ONLY <1>7, Zenon DEF Encoded
  <2> HIDE DEF b5
  <2> QED BY ONLY <2>1, PairsEncoded, Zenon
<1> HIDE DEF b0, b1, b2, b3, b4, b5, b6, w, l
<1>9. Replaced(b6, nibbles, six, w)
  <2>1. IsBank(b6) /\ six \in Regs
    BY <1>8, Thirteen DEF Encoded
  <2> HIDE DEF six
  <2> QED BY <2>1, BankReplaced, Zenon
<1>10. Replaced(regs[1], other, eleven, l)
  <2>1. eleven \in Regs
    BY Thirteen
  <2> HIDE DEF eleven
  <2> QED BY <1>2, <2>1, BankReplaced, Zenon
<1> HIDE DEF nibbles, other
<1>11. Tabled(regs, t, nibbles, other)
  <2>1. IsBank(nibbles) /\ IsBank(other) /\ IsTable(regs)
    BY <1>9, <1>10, Zenon DEF Replaced
  <2> QED BY ONLY <2>1, TableReplaced, Zenon
<1> HIDE DEF t
<1>13. /\ nibbles[0] = b1[0] /\ nibbles[1] = b1[1] /\ nibbles[2] = b2[2] /\ nibbles[3] = b2[3]
       /\ nibbles[4] = b3[4] /\ nibbles[5] = b3[5] /\ nibbles[7] = b4[7] /\ nibbles[8] = b4[8]
       /\ nibbles[9] = b5[9] /\ nibbles[10] = b5[10] /\ nibbles[11] = b6[11] /\ nibbles[12] = b6[12]
       /\ nibbles[6] = w /\ other[11] = l /\ other[10] = regs[1][10]
  BY <1>4, <1>5, <1>6, <1>7, <1>8, <1>9, <1>10, Thirteen DEF Encoded, Replaced
<1>14. /\ b1[0] = f.seconds % 10 /\ b1[1] = f.seconds \div 10
       /\ b2[2] = f.minutes % 10 /\ b2[3] = f.minutes \div 10
       /\ b3[4] = EncodedHour(regs, f.hours) % 10 /\ b3[5] = EncodedHour(regs, f.hours) \div 10
       /\ b4[7] = f.day % 10 /\ b4[8] = f.day \div 10
       /\ b5[9] = f.month % 10 /\ b5[10] = f.month \div 10
       /\ b6[11] = f.year % 10 /\ b6[12] = f.year \div 10
  BY <1>3, <1>4, <1>5, <1>6, <1>7, <1>8, Zenon DEF Encoded
<1> QED BY <1>1, <1>11, <1>13, <1>14, Zenon DEF IsSet, Tabled, w, l

LEMMA TwoDigits == \A v \in Nat : (v % 10) + 10 * (v \div 10) = v
OBVIOUS

\* What decode_pair reads of a pair that was encoded.
LEMMA PairRead ==
    ASSUME NEW nibbles, NEW v \in Nat
    PROVE  /\ nibbles[0] = v % 10 /\ nibbles[1] = v \div 10 => decode_pair(nibbles, 0) = v
           /\ nibbles[2] = v % 10 /\ nibbles[3] = v \div 10 => decode_pair(nibbles, 2) = v
           /\ nibbles[4] = v % 10 /\ nibbles[5] = v \div 10 => decode_pair(nibbles, 4) = v
           /\ nibbles[7] = v % 10 /\ nibbles[8] = v \div 10 => decode_pair(nibbles, 7) = v
           /\ nibbles[9] = v % 10 /\ nibbles[10] = v \div 10 => decode_pair(nibbles, 9) = v
           /\ nibbles[11] = v % 10 /\ nibbles[12] = v \div 10 => decode_pair(nibbles, 11) = v
<1>1. (v % 10) + 10 * (v \div 10) = v
  BY TwoDigits
<1> DEFINE ones == v % 10
           tens == v \div 10
<1> HIDE DEF ones, tens
<1>2. /\ nibbles[0] = ones /\ nibbles[1] = tens => decode_pair(nibbles, 0) = ones + 10 * tens
      /\ nibbles[2] = ones /\ nibbles[3] = tens => decode_pair(nibbles, 2) = ones + 10 * tens
      /\ nibbles[4] = ones /\ nibbles[5] = tens => decode_pair(nibbles, 4) = ones + 10 * tens
      /\ nibbles[7] = ones /\ nibbles[8] = tens => decode_pair(nibbles, 7) = ones + 10 * tens
      /\ nibbles[9] = ones /\ nibbles[10] = tens => decode_pair(nibbles, 9) = ones + 10 * tens
      /\ nibbles[11] = ones /\ nibbles[12] = tens => decode_pair(nibbles, 11) = ones + 10 * tens
  BY DEF decode_pair
<1> QED BY <1>1, <1>2, Zenon DEF ones, tens

\* An hour is read as it was written, in either mode.
LEMMA HourKept ==
    ASSUME NEW regs, NEW h \in 0..23
    PROVE  /\ EncodedHour(regs, h) \in Nat
           /\ (IF ~twenty_four_hour_mode(regs) /\ EncodedHour(regs, h) >= 20
               THEN EncodedHour(regs, h) - 8 ELSE EncodedHour(regs, h)) % 24 = h
<1>1. CASE twenty_four_hour_mode(regs)
  BY <1>1 DEF EncodedHour
<1>2. CASE ~twenty_four_hour_mode(regs)
  BY <1>2 DEF EncodedHour
<1> QED BY <1>1, <1>2

\* A time that was set is the time that is read.
LEMMA DecodedIs ==
    ASSUME NEW regs, IsTable(regs), NEW f \in Fields
    PROVE  Decoded(set_time(regs, f)) = f
<1> DEFINE t == set_time(regs, f)
           nibbles == t[0]
           hour == EncodedHour(regs, f.hours)
<1>1. IsSet(regs, f, t)
  BY SetTimeIs
<1> HIDE DEF t
<1>2. /\ f.seconds \in 0..59 /\ f.minutes \in 0..59 /\ f.hours \in 0..23 /\ f.weekday \in 0..6
      /\ f.day \in 1..31 /\ f.month \in 1..12 /\ f.year \in 0..99 /\ f.leap \in 0..3
  BY DEF Fields
<1>3. f.seconds \in Nat /\ f.minutes \in Nat /\ f.day \in Nat /\ f.month \in Nat /\ f.year \in Nat
  BY <1>2
<1>4. hour \in Nat
  BY <1>2, HourKept
<1> HIDE DEF hour
<1>5. /\ decode_pair(nibbles, 0) = f.seconds /\ decode_pair(nibbles, 2) = f.minutes
      /\ decode_pair(nibbles, 4) = hour /\ decode_pair(nibbles, 7) = f.day
      /\ decode_pair(nibbles, 9) = f.month /\ decode_pair(nibbles, 11) = f.year
  <2>1. /\ nibbles[0] = f.seconds % 10 /\ nibbles[1] = f.seconds \div 10
        /\ nibbles[2] = f.minutes % 10 /\ nibbles[3] = f.minutes \div 10
        /\ nibbles[4] = hour % 10 /\ nibbles[5] = hour \div 10
        /\ nibbles[7] = f.day % 10 /\ nibbles[8] = f.day \div 10
        /\ nibbles[9] = f.month % 10 /\ nibbles[10] = f.month \div 10
        /\ nibbles[11] = f.year % 10 /\ nibbles[12] = f.year \div 10
    BY <1>1, Zenon DEF IsSet, hour
  <2> HIDE DEF nibbles
  <2>2. decode_pair(nibbles, 0) = f.seconds
    BY ONLY <1>3, <1>4, <2>1, PairRead, Zenon
  <2>3. decode_pair(nibbles, 2) = f.minutes
    BY ONLY <1>3, <1>4, <2>1, PairRead, Zenon
  <2>4. decode_pair(nibbles, 4) = hour
    BY ONLY <1>3, <1>4, <2>1, PairRead, Zenon
  <2>5. decode_pair(nibbles, 7) = f.day
    BY ONLY <1>3, <1>4, <2>1, PairRead, Zenon
  <2>6. decode_pair(nibbles, 9) = f.month
    BY ONLY <1>3, <1>4, <2>1, PairRead, Zenon
  <2>7. decode_pair(nibbles, 11) = f.year
    BY ONLY <1>3, <1>4, <2>1, PairRead, Zenon
  <2> QED BY <2>2, <2>3, <2>4, <2>5, <2>6, <2>7
<1>6. /\ nibbles[6] % 7 = f.weekday /\ t[1][11] % 4 = f.leap
  <2>1. nibbles[6] = f.weekday % 7 /\ t[1][11] = f.leap % 4
    BY <1>1, Zenon DEF IsSet
  <2> QED BY <1>2, <2>1
<1>7. decode_hour(t) = f.hours
  <2>1. t[1][10] = regs[1][10]
    BY <1>1, Zenon DEF IsSet
  <2>2. twenty_four_hour_mode(t) <=> twenty_four_hour_mode(regs)
    BY <2>1, Zenon DEF twenty_four_hour_mode
  <2>3. decode_hour(t) = (IF ~twenty_four_hour_mode(t) /\ hour >= 20 THEN hour - 8 ELSE hour) % 24
    BY <1>5, Zenon DEF decode_hour, nibbles
  <2>4. (IF ~twenty_four_hour_mode(regs) /\ hour >= 20 THEN hour - 8 ELSE hour) % 24 = f.hours
    BY <1>2, HourKept DEF hour
  <2>5. (IF ~twenty_four_hour_mode(t) /\ hour >= 20 THEN hour - 8 ELSE hour)
           = (IF ~twenty_four_hour_mode(regs) /\ hour >= 20 THEN hour - 8 ELSE hour)
    BY <2>2
  <2> QED BY <2>3, <2>4, <2>5
<1>8. (IF f.day < 1 THEN 1 ELSE f.day) = f.day /\ (IF f.month \in 1..12 THEN f.month ELSE 1) = f.month
  BY <1>2
<1>9. Decoded(t) = [seconds |-> f.seconds, minutes |-> f.minutes,
         hours |-> f.hours, weekday |-> f.weekday,
         day |-> f.day, month |-> f.month,
         year |-> f.year, leap |-> f.leap]
  BY <1>5, <1>6, <1>7, <1>8, Zenon DEF Decoded, nibbles
<1>10. f = [seconds |-> f.seconds, minutes |-> f.minutes,
         hours |-> f.hours, weekday |-> f.weekday,
         day |-> f.day, month |-> f.month,
         year |-> f.year, leap |-> f.leap]
  BY DEF Fields
<1> QED BY ONLY <1>9, <1>10, Zenon DEF t

---------------------------------------------------------------------------
(* The time of day: the fields of a moment, and the carries of advance_time. *)

\* The fields that show a moment.
Moments == {t \in [days : Nat, seconds : Nat] : t.seconds < 86400}
Shows(f, t) ==
    /\ f \in Fields /\ OnDay(f, t.days) /\ f.weekday = (t.days + 2) % 7
    /\ t.seconds = f.hours * 3600 + f.minutes * 60 + f.seconds

LEMMA ClockRead ==
    ASSUME NEW h \in Nat, NEW m \in Nat, NEW s \in Nat, m < 60, s < 60, h < 24
    PROVE  /\ (h * 3600 + m * 60 + s) % 60 = s
           /\ ((h * 3600 + m * 60 + s) \div 60) % 60 = m
           /\ (h * 3600 + m * 60 + s) \div 3600 = h
OBVIOUS

\* Hours, minutes and seconds of a day, and the only ones.
IsClock(s, h, m, x) ==
    /\ h \in 0..23 /\ m \in 0..59 /\ x \in 0..59 /\ s = h * 3600 + m * 60 + x
    /\ s % 60 = x /\ (s \div 60) % 60 = m /\ s \div 3600 = h

LEMMA Clock ==
    ASSUME NEW s \in Nat, s < 86400
    PROVE  \E h, m, x : IsClock(s, h, m, x)
<1> DEFINE x == s % 60
           m == (s \div 60) % 60
           h == (s \div 60) \div 60
<1>1. /\ s \div 60 \in Nat /\ x \in 0..59 /\ s = 60 * (s \div 60) + x
      /\ s \div 60 < 1440
  OBVIOUS
<1>2. h \in Nat /\ m \in 0..59 /\ s \div 60 = 60 * h + m /\ h < 24
  BY <1>1
<1> HIDE DEF x, m, h
<1>3. s = h * 3600 + m * 60 + x
  BY <1>1, <1>2
<1>4. /\ (h * 3600 + m * 60 + x) % 60 = x /\ ((h * 3600 + m * 60 + x) \div 60) % 60 = m
      /\ (h * 3600 + m * 60 + x) \div 3600 = h
  BY <1>1, <1>2, ClockRead
<1>5. s % 60 = x /\ (s \div 60) % 60 = m /\ s \div 3600 = h
  BY <1>3, <1>4
<1>6. h \in 0..23 /\ m \in 0..59 /\ x \in 0..59
  BY <1>1, <1>2
<1>7. IsClock(s, h, m, x)
  BY <1>3, <1>5, <1>6 DEF IsClock
<1> QED BY <1>7

LEMMA FieldsAre ==
    ASSUME NEW t
    PROVE  LET date == DateOf(t.days % 36525)
           IN  /\ FieldsOf(t).seconds = t.seconds % 60
               /\ FieldsOf(t).minutes = (t.seconds \div 60) % 60
               /\ FieldsOf(t).hours = t.seconds \div 3600
               /\ FieldsOf(t).weekday = (t.days + 2) % 7
               /\ FieldsOf(t).day = date.day /\ FieldsOf(t).month = date.month
               /\ FieldsOf(t).year = date.year /\ FieldsOf(t).leap = date.year % 4
BY DEF FieldsOf

LEMMA FieldsEqual ==
    ASSUME NEW f \in Fields, NEW g \in Fields, SameTime(f, g),
           f.day = g.day, f.month = g.month, f.year = g.year, f.leap = g.leap
    PROVE  f = g
BY DEF Fields, SameTime

\* The fields of a moment show it, and only they do.
LEMMA FieldsShow ==
    ASSUME NEW t \in Moments
    PROVE  Shows(FieldsOf(t), t)
<1> DEFINE D == t.days % 36525
           date == DateOf(D)
           f == FieldsOf(t)
<1>1. t.days \in Nat /\ t.seconds \in Nat /\ t.seconds < 86400
  BY DEF Moments
<1>2. D \in Nat /\ D < 36525
  BY <1>1, Century
<1>3. PICK y, m, d : IsDate(y, m, d) /\ DayNo(y, m, d) = D
  BY <1>2, DateKnown
<1>4. date = [year |-> y, month |-> m, day |-> d]
  <2>1. DateOf(DayNo(y, m, d)) = [year |-> y, month |-> m, day |-> d]
    BY <1>3, DateIs
  <2> HIDE DEF D
  <2> QED BY <1>3, <2>1
<1> DEFINE sec == t.seconds % 60
           min == (t.seconds \div 60) % 60
           hou == t.seconds \div 3600
           wee == (t.days + 2) % 7
<1>5. /\ f.seconds = sec /\ f.minutes = min /\ f.hours = hou /\ f.weekday = wee
      /\ f.day = date.day /\ f.month = date.month /\ f.year = date.year
      /\ f.leap = date.year % 4
  BY FieldsAre
<1>6. f = [seconds |-> f.seconds, minutes |-> f.minutes, hours |-> f.hours,
           weekday |-> f.weekday, day |-> f.day, month |-> f.month,
           year |-> f.year, leap |-> f.leap]
  BY DEF FieldsOf
<1>7. PICK hh, mm, xx : IsClock(t.seconds, hh, mm, xx)
  BY <1>1, Clock
<1>13. /\ sec = xx /\ min = mm /\ hou = hh /\ hh \in 0..23 /\ mm \in 0..59 /\ xx \in 0..59
       /\ t.seconds = hh * 3600 + mm * 60 + xx
  BY <1>7 DEF IsClock
<1>8. wee \in 0..6
  BY <1>1
<1> HIDE DEF sec, min, hou, wee, date, f
<1>9. /\ f.day = d /\ f.month = m /\ f.year = y /\ f.leap = y % 4
  BY <1>4, <1>5
<1>10. y \in 0..99 /\ m \in 1..12 /\ d \in 1..31 /\ y % 4 \in 0..3
  BY <1>3, InYear DEF IsDate
<1>11. f \in Fields
  BY <1>5, <1>6, <1>13, <1>8, <1>9, <1>10 DEF Fields
<1>12. OnDay(f, t.days)
  BY <1>3, <1>9 DEF OnDay, D
<1> QED BY <1>5, <1>13, <1>11, <1>12 DEF Shows, f, wee

LEMMA ShowsOne ==
    ASSUME NEW t \in Moments, NEW f, Shows(f, t)
    PROVE  f = FieldsOf(t)
<1> DEFINE D == t.days % 36525
           date == DateOf(D)
           g == FieldsOf(t)
<1>1. Shows(g, t)
  BY FieldsShow
<1>2. /\ f \in Fields /\ IsDate(f.year, f.month, f.day) /\ f.leap = f.year % 4
      /\ DayNo(f.year, f.month, f.day) = D
      /\ f.weekday = (t.days + 2) % 7
      /\ t.seconds = f.hours * 3600 + f.minutes * 60 + f.seconds
  BY DEF Shows, OnDay
<1>3. /\ g \in Fields /\ IsDate(g.year, g.month, g.day) /\ g.leap = g.year % 4
      /\ DayNo(g.year, g.month, g.day) = D
      /\ g.weekday = (t.days + 2) % 7
      /\ t.seconds = g.hours * 3600 + g.minutes * 60 + g.seconds
  BY <1>1 DEF Shows, OnDay
<1> HIDE DEF g, D
<1>4. /\ DateOf(D) = [year |-> f.year, month |-> f.month, day |-> f.day]
      /\ DateOf(D) = [year |-> g.year, month |-> g.month, day |-> g.day]
  BY <1>2, <1>3, DateIs
<1>5. f.year = g.year /\ f.month = g.month /\ f.day = g.day /\ f.leap = g.leap
  <2> DEFINE a == DateOf(D)
  <2>1. /\ a = [year |-> f.year, month |-> f.month, day |-> f.day]
        /\ a = [year |-> g.year, month |-> g.month, day |-> g.day]
    BY <1>4
  <2> HIDE DEF a
  <2>2. f.year = g.year /\ f.month = g.month /\ f.day = g.day
    BY ONLY <2>1
  <2> QED BY <1>2, <1>3, <2>2
<1>6. f.hours = g.hours /\ f.minutes = g.minutes /\ f.seconds = g.seconds
  <2>1. /\ f.hours \in 0..23 /\ f.minutes \in 0..59 /\ f.seconds \in 0..59
        /\ g.hours \in 0..23 /\ g.minutes \in 0..59 /\ g.seconds \in 0..59
    BY <1>2, <1>3 DEF Fields
  <2>2. \A a, b, c \in Nat : a < 24 /\ b < 60 /\ c < 60 =>
           /\ (a * 3600 + b * 60 + c) % 60 = c
           /\ ((a * 3600 + b * 60 + c) \div 60) % 60 = b
           /\ (a * 3600 + b * 60 + c) \div 3600 = a
    BY ClockRead
  <2> DEFINE a == f.hours
             b == f.minutes
             c == f.seconds
             x == g.hours
             y == g.minutes
             z == g.seconds
  <2>3. /\ a \in Nat /\ b \in Nat /\ c \in Nat /\ a < 24 /\ b < 60 /\ c < 60
        /\ x \in Nat /\ y \in Nat /\ z \in Nat /\ x < 24 /\ y < 60 /\ z < 60
    BY <2>1
  <2>4. t.seconds = a * 3600 + b * 60 + c /\ t.seconds = x * 3600 + y * 60 + z
    BY <1>2, <1>3
  <2> HIDE DEF a, b, c, x, y, z
  <2>5. t.seconds % 60 = c /\ (t.seconds \div 60) % 60 = b /\ t.seconds \div 3600 = a
    BY ONLY <2>2, <2>3, <2>4
  <2>6. t.seconds % 60 = z /\ (t.seconds \div 60) % 60 = y /\ t.seconds \div 3600 = x
    BY ONLY <2>2, <2>3, <2>4
  <2>7. a = x /\ b = y /\ c = z
    BY ONLY <2>5, <2>6
  <2> QED BY <2>7 DEF a, b, c, x, y, z
<1>7. SameTime(f, g)
  BY <1>2, <1>3, <1>6 DEF SameTime
<1>8. f = g
  BY <1>2, <1>3, <1>5, <1>7, FieldsEqual
<1> QED BY <1>8 DEF g

\* The carries of an addition to a time of day.
IsCarried(h, m, x, s, n, hh, mm, xx, c) ==
    /\ (x + s) % 60 = xx /\ (m + n + (x + s) \div 60) % 60 = mm
    /\ (h + (m + n + (x + s) \div 60) \div 60) % 24 = hh
    /\ (h + (m + n + (x + s) \div 60) \div 60) \div 24 = c

Carries(h, m, x, s, n, hh, mm, xx, c) ==
    /\ IsCarried(h, m, x, s, n, hh, mm, xx, c)
    /\ hh \in 0..23 /\ mm \in 0..59 /\ xx \in 0..59 /\ c \in Nat
    /\ h * 3600 + m * 60 + x + (s + 60 * n) = c * 86400 + (hh * 3600 + mm * 60 + xx)

LEMMA CarriedOver ==
    ASSUME NEW h \in 0..23, NEW m \in 0..59, NEW x \in 0..59, NEW s \in Nat, NEW n \in Nat
    PROVE  \E hh, mm, xx, c : Carries(h, m, x, s, n, hh, mm, xx, c)
<1> DEFINE p == x + s
           a == p \div 60
           xx == p % 60
           q == m + n + a
           b == q \div 60
           mm == q % 60
           r == h + b
           c == r \div 24
           hh == r % 24
<1>1. p = 60 * a + xx /\ xx \in 0..59 /\ a \in Nat
  OBVIOUS
<1> HIDE DEF a, xx
<1>2. q = 60 * b + mm /\ mm \in 0..59 /\ b \in Nat
  BY <1>1
<1> HIDE DEF b, mm
<1>3. r = 24 * c + hh /\ hh \in 0..23 /\ c \in Nat
  BY <1>2
<1> HIDE DEF c, hh
<1>4. h * 3600 + m * 60 + x + (s + 60 * n) = c * 86400 + (hh * 3600 + mm * 60 + xx)
  BY <1>1, <1>2, <1>3
<1>5. /\ (x + s) % 60 = xx /\ (m + n + (x + s) \div 60) % 60 = mm
      /\ (h + (m + n + (x + s) \div 60) \div 60) % 24 = hh
      /\ (h + (m + n + (x + s) \div 60) \div 60) \div 24 = c
  BY DEF a, xx, b, mm, c, hh
<1> HIDE DEF p, q, r
<1>6. IsCarried(h, m, x, s, n, hh, mm, xx, c)
  BY <1>5 DEF IsCarried
<1>7. Carries(h, m, x, s, n, hh, mm, xx, c)
  BY <1>1, <1>2, <1>3, <1>4, <1>6 DEF Carries
<1> QED BY <1>7

LEMMA Day ==
    ASSUME NEW c \in Nat, NEW x \in Nat, x < 86400
    PROVE  (c * 86400 + x) \div 86400 = c /\ (c * 86400 + x) % 86400 = x
OBVIOUS

IsSplit(T, c, x) == c \in Nat /\ x \in Nat /\ x < 86400 /\ T = c * 86400 + x

LEMMA Split == ASSUME NEW T \in Nat PROVE IsSplit(T, T \div 86400, T % 86400)
BY DEF IsSplit

\* A week has seven days.
LEMMA Week ==
    ASSUME NEW a \in Nat, NEW d \in Nat
    PROVE  (((a + 2) % 7) + d) % 7 = ((a + d) + 2) % 7
OBVIOUS

\* A moment moved by seconds and days.
Moved(t, s, d) == [Later(t, s) EXCEPT !.days = @ + d]

IsMoved(u, t, d, c, x) == u \in Moments /\ u.days = t.days + (d + c) /\ u.seconds = x

LEMMA MovedIs ==
    ASSUME NEW t \in Moments, NEW s \in Nat, NEW d \in Nat, NEW c, NEW x,
           NEW T, T = t.seconds + s, IsSplit(T, c, x)
    PROVE  IsMoved(Moved(t, s, d), t, d, c, x)
<1> DEFINE a == T \div 86400
           b == T % 86400
<1>1. t.days \in Nat
  BY DEF Moments
<1>2. Later(t, s) = [days |-> t.days + a, seconds |-> b]
  BY DEF Later
<1>6. c \in Nat /\ x \in Nat /\ x < 86400 /\ T = c * 86400 + x
  BY DEF IsSplit
<1>3. a = c /\ b = x
  <2>1. T = c * 86400 + x
    BY <1>6
  <2>2. (c * 86400 + x) \div 86400 = c /\ (c * 86400 + x) % 86400 = x
    BY <1>6, Day
  <2> QED BY <2>1, <2>2
<1> HIDE DEF a, b
<1>4. Moved(t, s, d) = [days |-> t.days + c + d, seconds |-> x]
  BY <1>2, <1>3 DEF Moved
<1>5. t.days + c + d \in Nat /\ t.days + c + d = t.days + (d + c)
  BY <1>1, <1>6
<1> QED BY <1>4, <1>5, <1>6 DEF Moments, IsMoved

\* Every addition carries to some moment.
LEMMA MovedMoment ==
    ASSUME NEW t \in Moments, NEW s \in Nat, NEW d \in Nat
    PROVE  Moved(t, s, d) \in Moments
<1>1. t.seconds \in Nat
  BY DEF Moments
<1> DEFINE T == t.seconds + s
           c == T \div 86400
           x == T % 86400
<1>2. T \in Nat
  BY <1>1
<1>3. T = t.seconds + s
  OBVIOUS
<1> HIDE DEF T
<1>4. IsSplit(T, c, x)
  BY <1>2, Split
<1> HIDE DEF c, x
<1>5. IsMoved(Moved(t, s, d), t, d, c, x)
  BY <1>3, <1>4, MovedIs
<1> QED BY <1>5, Zenon DEF IsMoved

\* Fields with another time and weekday.
Retimed(f, x, m, h, w) ==
    [f EXCEPT !.seconds = x, !.minutes = m, !.hours = h, !.weekday = w]

IsTimed(f, g, x, m, h, w) ==
    /\ g \in Fields /\ g.seconds = x /\ g.minutes = m /\ g.hours = h /\ g.weekday = w
    /\ g.day = f.day /\ g.month = f.month /\ g.year = f.year /\ g.leap = f.leap

LEMMA Timed ==
    ASSUME NEW f \in Fields, NEW x \in 0..59, NEW m \in 0..59, NEW h \in 0..23, NEW w \in 0..6
    PROVE  IsTimed(f, Retimed(f, x, m, h, w), x, m, h, w)
BY DEF Fields, Retimed, IsTimed

\* What advance_time sets.
LEMMA AdvanceIs ==
    ASSUME NEW regs, NEW s, NEW n, NEW d, NEW hh, NEW mm, NEW xx, NEW c,
           NEW f, f = Decoded(regs),
           IsCarried(f.hours, f.minutes, f.seconds, s, n, hh, mm, xx, c),
           NEW ds, ds = d + c, NEW w, w = (f.weekday + ds) % 7
    PROVE  advance_time(regs, s, n, d, 0)
              = set_time(regs, AddDays(Retimed(f, xx, mm, hh, w), ds))
<1> DEFINE ss == f.seconds + s
           ms == f.minutes + n + ss \div 60
           hs == f.hours + ms \div 60
           sn == ss % 60
           mn == ms % 60
           hn == hs % 24
           cn == hs \div 24
           dn == d + cn
           wn == (f.weekday + dn) % 7
           g == [f EXCEPT !.seconds = sn, !.minutes = mn, !.hours = hn, !.weekday = wn]
<1>1. advance_time(regs, s, n, d, 0) = set_time(regs, AddDays(g, dn))
  BY Zenon DEF advance_time
<1>2. sn = xx /\ mn = mm /\ hn = hh /\ cn = c
  BY Zenon DEF IsCarried
<1>3. dn = d + cn
  OBVIOUS
<1>4. g = Retimed(f, sn, mn, hn, wn)
  BY Zenon DEF Retimed
<1>5. wn = (f.weekday + dn) % 7
  OBVIOUS
<1> HIDE DEF ss, ms, hs, dn, sn, mn, hn, cn, wn, g
<1>6. dn = ds /\ wn = w
  BY ONLY <1>2, <1>3, <1>5, ds = d + c, w = (f.weekday + ds) % 7, Zenon
<1> QED BY ONLY <1>1, <1>2, <1>4, <1>6, Zenon

\* An advanced clock shows the later moment.
LEMMA AdvanceShows ==
    ASSUME NEW regs, IsTable(regs), NEW t \in Moments, Shows(Decoded(regs), t),
           NEW s \in Nat, NEW n \in Nat, NEW d \in Nat
    PROVE  Shows(Decoded(advance_time(regs, s, n, d, 0)), Moved(t, s + 60 * n, d))
<1> DEFINE f == Decoded(regs)
           S == s + 60 * n
           u == Moved(t, S, d)
<1>2. /\ f \in Fields /\ OnDay(f, t.days) /\ f.weekday = (t.days + 2) % 7
      /\ t.seconds = f.hours * 3600 + f.minutes * 60 + f.seconds
  BY DEF Shows
<1>3. t.days \in Nat /\ S \in Nat
  BY DEF Moments
<1>4. f.hours \in 0..23 /\ f.minutes \in 0..59 /\ f.seconds \in 0..59 /\ f.weekday \in 0..6
  BY <1>2 DEF Fields
<1>5. PICK hh, mm, xx, c :
         Carries(f.hours, f.minutes, f.seconds, s, n, hh, mm, xx, c)
  BY <1>4, CarriedOver
<1>21. IsCarried(f.hours, f.minutes, f.seconds, s, n, hh, mm, xx, c)
  BY <1>5 DEF Carries
<1>20. /\ hh \in 0..23 /\ mm \in 0..59 /\ xx \in 0..59 /\ c \in Nat
       /\ f.hours * 3600 + f.minutes * 60 + f.seconds + (s + 60 * n)
             = c * 86400 + (hh * 3600 + mm * 60 + xx)
  <2> HIDE DEF f
  <2> QED BY <1>5 DEF Carries
<1> DEFINE ds == d + c
           w == (f.weekday + ds) % 7
           g == Retimed(f, xx, mm, hh, w)
           r == AddDays(g, ds)
           x == hh * 3600 + mm * 60 + xx
<1>1. advance_time(regs, s, n, d, 0) = set_time(regs, r)
  <2>1. f = Decoded(regs) /\ ds = d + c /\ w = (f.weekday + ds) % 7
    OBVIOUS
  <2> HIDE DEF f, ds, w
  <2> QED BY ONLY <1>21, <2>1, AdvanceIs
<1>6. w \in 0..6 /\ ds \in Nat
  <2>1. c \in Nat /\ d \in Nat /\ f.weekday \in Nat
    BY <1>4, <1>20
  <2> HIDE DEF f
  <2>2. ds \in Nat
    BY ONLY <2>1
  <2> HIDE DEF ds
  <2>3. w \in 0..6
    BY ONLY <2>1, <2>2
  <2> QED BY <2>2, <2>3
<1>7. x \in Nat /\ x < 86400 /\ t.seconds + S = c * 86400 + x
  <2> HIDE DEF f
  <2>1. f.hours * 3600 + f.minutes * 60 + f.seconds + S = c * 86400 + x
    BY <1>20
  <2>2. x \in Nat /\ x < 86400
    BY <1>20
  <2> HIDE DEF S, x
  <2> QED BY <1>2, <2>1, <2>2
<1>8. u.days = t.days + ds /\ u.seconds = x
  <2> HIDE DEF S, x, f
  <2> DEFINE T == t.seconds + S
  <2>1. IsSplit(T, c, x)
    BY <1>7, <1>20 DEF IsSplit
  <2>2. T = t.seconds + S
    OBVIOUS
  <2> HIDE DEF T, ds
  <2> HIDE DEF u
  <2>3. IsMoved(u, t, d, c, x)
    BY <1>3, <2>1, <2>2, MovedIs DEF u
  <2>4. u.days = t.days + (d + c) /\ u.seconds = x
    BY ONLY <2>3, Zenon DEF IsMoved
  <2> QED BY <2>4 DEF ds
<1>9. w = (((t.days + 2) % 7) + ds) % 7
  <2>1. f.weekday = (t.days + 2) % 7
    BY <1>2
  <2> DEFINE day == (t.days + 2) % 7
  <2> HIDE DEF f, ds, day
  <2>2. f.weekday = day
    BY <2>1 DEF day
  <2>3. w = (day + ds) % 7
    BY ONLY <2>2
  <2> QED BY <2>3 DEF day
<1>10. w = ((t.days + ds) + 2) % 7
  <2> HIDE DEF w, ds
  <2> QED BY <1>3, <1>6, <1>9, Week
<1> HIDE DEF f, w, ds, u
<1>22. IsTimed(f, g, xx, mm, hh, w)
  <2>1. f \in Fields /\ xx \in 0..59 /\ mm \in 0..59 /\ hh \in 0..23 /\ w \in 0..6
    BY <1>2, <1>6, <1>20
  <2> QED BY ONLY <2>1, Timed
<1> HIDE DEF g
<1>11. /\ g \in Fields /\ g.seconds = xx /\ g.minutes = mm /\ g.hours = hh /\ g.weekday = w
       /\ g.day = f.day /\ g.month = f.month /\ g.year = f.year /\ g.leap = f.leap
  BY <1>22 DEF IsTimed
<1>12. OnDay(g, t.days)
  BY <1>2, <1>11 DEF OnDay
<1>13. r \in Fields /\ OnDay(r, t.days + ds) /\ SameTime(g, r)
  BY <1>3, <1>6, <1>11, <1>12, AddDaysIs
<1> HIDE DEF r
<1>14. Decoded(advance_time(regs, s, n, d, 0)) = r
  BY <1>1, <1>13, DecodedIs
<1>15. r.seconds = xx /\ r.minutes = mm /\ r.hours = hh /\ r.weekday = w
  BY <1>11, <1>13 DEF SameTime
<1>16. r.weekday = (u.days + 2) % 7
  <2>1. (u.days + 2) % 7 = ((t.days + ds) + 2) % 7
    BY <1>8
  <2> QED BY ONLY <1>10, <1>15, <2>1
<1>17. u.seconds = r.hours * 3600 + r.minutes * 60 + r.seconds
  <2>1. x = r.hours * 3600 + r.minutes * 60 + r.seconds
    BY <1>15, <1>20
  <2> HIDE DEF x
  <2> QED BY <1>8, <2>1
<1>18. OnDay(r, u.days)
  BY <1>8, <1>13
<1>19. Shows(r, u)
  BY <1>13, <1>16, <1>17, <1>18 DEF Shows
<1> QED BY <1>14, <1>19 DEF u

LEMMA AdvanceTable ==
    ASSUME NEW regs, IsTable(regs), NEW s, NEW n, NEW d, NEW y
    PROVE  IsTable(advance_time(regs, s, n, d, y))
<1>1. \E f : advance_time(regs, s, n, d, y) = set_time(regs, f)
  BY Zenon DEF advance_time
<1>2. \A f : IsTable(set_time(regs, f))
  BY SetTimeIs DEF IsSet
<1> QED BY <1>1, <1>2

---------------------------------------------------------------------------
(* What the registers show, after the steps of the chip.                   *)

\* What a register file shows, when it shows a known moment.
Showing(regs, t) ==
    /\ IsTable(regs)
    /\ t # NoTruth => t \in Moments /\ Shows(Decoded(regs), t)

LEMMA StartMoments == Start \subseteq Moments
BY RtcAssumption DEF Moments

LEMMA NoMoment == NoTruth \notin Moments
BY DEF NoTruth, Moments

LEMMA MovedNot ==
    ASSUME NEW t \in Moments
    PROVE  Moved(t, 0, 0) = t
<1>1. t.days \in Nat /\ t.seconds \in Nat /\ t.seconds < 86400 /\ t = [days |-> t.days, seconds |-> t.seconds]
  BY DEF Moments
<1> DEFINE zero == 0
           T == t.seconds + zero
<1>2. IsSplit(T, zero, t.seconds) /\ T = t.seconds + zero /\ zero \in Nat
  BY <1>1 DEF IsSplit
<1>3. t.days + (zero + zero) = t.days
  BY <1>1
<1> HIDE DEF zero, T
<1>4. IsMoved(Moved(t, zero, zero), t, zero, zero, t.seconds)
  BY <1>2, MovedIs
<1>5. /\ Moved(t, zero, zero) \in Moments /\ Moved(t, zero, zero).days = t.days
      /\ Moved(t, zero, zero).seconds = t.seconds
  BY <1>3, <1>4, Zenon DEF IsMoved
<1>6. Moved(t, zero, zero) = t
  BY <1>1, <1>5 DEF Moments
<1> QED BY <1>6 DEF zero

LEMMA MovedEqual ==
    ASSUME NEW a \in Moments, NEW b \in Moments, a.days = b.days, a.seconds = b.seconds
    PROVE  a = b
BY DEF Moments

LEMMA LaterIs ==
    ASSUME NEW t \in Moments, NEW s \in Nat
    PROVE  Later(t, s) = Moved(t, s, 0) /\ Later(t, s) \in Moments
<1> DEFINE a == (t.seconds + s) \div 86400
           b == (t.seconds + s) % 86400
<1>1. t.days \in Nat /\ t.seconds + s \in Nat
  BY DEF Moments
<1>2. a \in Nat /\ b \in Nat /\ b < 86400
  BY <1>1
<1>3. Later(t, s) = [days |-> t.days + a, seconds |-> b]
  BY DEF Later
<1> HIDE DEF a, b
<1>4. t.days + a \in Nat /\ (t.days + a) + 0 = t.days + a
  BY <1>1, <1>2
<1>5. Later(t, s) \in Moments
  BY <1>2, <1>3, <1>4 DEF Moments
<1>6. Moved(t, s, 0) = Later(t, s)
  BY <1>3, <1>4 DEF Moved
<1> QED BY <1>5, <1>6

LEMMA Summed ==
    ASSUME NEW t \in Nat, NEW x \in Nat, NEW y \in Nat, NEW c, NEW a, NEW e, NEW b,
           IsSplit(t + x, c, a), IsSplit(a + y, e, b)
    PROVE  IsSplit(t + (x + y), c + e, b)
BY DEF IsSplit

\* A moment moved twice is moved by the sum.
LEMMA MovedTwice ==
    ASSUME NEW t \in Moments, NEW x \in Nat, NEW y \in Nat, NEW d \in Nat
    PROVE  Moved(Moved(t, x, 0), y, d) = Moved(t, x + y, d)
<1> DEFINE zero == 0
           T == t.seconds + x
           c == T \div 86400
           a == T % 86400
           u == Moved(t, x, zero)
<1>1. t.days \in Nat /\ t.seconds \in Nat /\ T \in Nat /\ T = t.seconds + x /\ zero \in Nat
  BY DEF Moments
<1>2. zero + c = c
  BY <1>1
<1> HIDE DEF T, zero
<1>3. IsSplit(T, c, a)
  BY <1>1, Split
<1> HIDE DEF c, a
<1>4. c \in Nat /\ a \in Nat
  BY <1>3 DEF IsSplit
<1>5. IsMoved(u, t, zero, c, a)
  BY <1>1, <1>3, MovedIs
<1> HIDE DEF u
<1>6. u \in Moments /\ u.days = t.days + c /\ u.seconds = a
  BY ONLY <1>2, <1>5, Zenon DEF IsMoved
<1> DEFINE U == a + y
           e == U \div 86400
           b == U % 86400
           v == Moved(u, y, d)
<1>7. U \in Nat /\ U = u.seconds + y
  BY <1>4, <1>6
<1>8. U = a + y
  OBVIOUS
<1> HIDE DEF U
<1>9. IsSplit(U, e, b)
  BY <1>7, Split
<1> HIDE DEF e, b
<1>10. e \in Nat
  BY <1>9 DEF IsSplit
<1>11. IsMoved(v, u, d, e, b)
  BY <1>6, <1>7, <1>9, MovedIs
<1> HIDE DEF v
<1>12. v \in Moments /\ v.days = u.days + (d + e) /\ v.seconds = b
  BY ONLY <1>11, Zenon DEF IsMoved
<1> DEFINE V == t.seconds + (x + y)
           w == Moved(t, x + y, d)
           k == c + e
<1>13. IsSplit(V, k, b)
  BY <1>1, <1>3, <1>8, <1>9, Summed
<1>14. V = t.seconds + (x + y) /\ x + y \in Nat /\ k = c + e
  OBVIOUS
<1> HIDE DEF V, k
<1>15. IsMoved(w, t, d, k, b)
  BY <1>13, <1>14, MovedIs
<1> HIDE DEF w
<1>16. w \in Moments /\ w.days = t.days + (d + k) /\ w.seconds = b
  BY ONLY <1>15, Zenon DEF IsMoved
<1>17. v.days = w.days
  BY <1>1, <1>4, <1>6, <1>10, <1>12, <1>14, <1>16
<1>18. v = w
  BY <1>12, <1>16, <1>17, MovedEqual
<1> QED BY <1>18 DEF v, w, u, zero

\* A showing clock, advanced, shows the later moment.
LEMMA ShowsLater ==
    ASSUME NEW regs, NEW t \in Moments, Showing(regs, t), NEW s \in Nat, NEW n \in Nat, NEW d \in Nat
    PROVE  Showing(advance_time(regs, s, n, d, 0), Moved(t, s + 60 * n, d))
<1>1. IsTable(regs) /\ Shows(Decoded(regs), t)
  BY NoMoment DEF Showing
<1>2. IsTable(advance_time(regs, s, n, d, 0))
  BY <1>1, AdvanceTable
<1>3. Shows(Decoded(advance_time(regs, s, n, d, 0)), Moved(t, s + 60 * n, d))
  BY <1>1, AdvanceShows
<1>4. Moved(t, s + 60 * n, d) \in Moments
  <2>1. s + 60 * n \in Nat
    OBVIOUS
  <2> QED BY <2>1, MovedMoment
<1> QED BY <1>2, <1>3, <1>4 DEF Showing

LEMMA ShowsLaterSeconds ==
    ASSUME NEW regs, NEW t \in Moments, Showing(regs, t), NEW s \in Nat
    PROVE  Showing(advance_time(regs, s, 0, 0, 0), Later(t, s))
<1>1. s + 60 * 0 = s
  OBVIOUS
<1>2. Showing(advance_time(regs, s, 0, 0, 0), Moved(t, s + 60 * 0, 0))
  BY ShowsLater
<1> QED BY <1>1, <1>2, LaterIs

LEMMA BlankTable == IsTable(BlankRegisters)
<1>1. \A b \in Blocks : register_masks[b] = [r \in Regs |-> register_masks[b][r]]
  BY DEF register_masks, Nibbles
<1> QED BY <1>1 DEF BlankRegisters, IsTable, IsBank

\* A clock set to the host's time shows it.
LEMMA FreshShows ==
    ASSUME NEW t \in Moments
    PROVE  Showing(Fresh(t), t)
<1>1. Shows(FieldsOf(t), t)
  BY FieldsShow
<1>2. FieldsOf(t) \in Fields
  BY <1>1 DEF Shows
<1>3. IsTable(Fresh(t))
  BY BlankTable, SetTimeIs DEF Fresh, IsSet
<1>4. Decoded(Fresh(t)) = FieldsOf(t)
  BY <1>2, BlankTable, DecodedIs DEF Fresh
<1> QED BY <1>1, <1>3, <1>4 DEF Showing

\* The fields depend on bank 0 and on registers 10 and 11 of bank 1.
LEMMA SameShown ==
    ASSUME NEW regs, NEW other, regs[0] = other[0], regs[1][10] = other[1][10],
           regs[1][11] = other[1][11]
    PROVE  Decoded(other) = Decoded(regs)
BY Zenon DEF Decoded, decode_hour, twenty_four_hour_mode, decode_pair

\* Before eight in the evening the hour is the same in both modes.
LEMMA SameHour ==
    ASSUME NEW regs, NEW other, regs[0] = other[0], regs[1][11] = other[1][11],
           ~(decode_pair(regs[0], 4) >= 20)
    PROVE  Decoded(other) = Decoded(regs)
<1>1. decode_hour(regs) = decode_pair(regs[0], 4) % 24
  BY Zenon DEF decode_hour
<1>2. decode_hour(other) = decode_pair(regs[0], 4) % 24
  BY Zenon DEF decode_hour
<1> QED BY <1>1, <1>2, Zenon DEF Decoded

IsWritten(regs, t, block, nibbles) ==
    IsTable(t) /\ t[block] = nibbles /\ \A b \in Blocks \ {block} : t[b] = regs[b]

LEMMA BankWritten ==
    ASSUME NEW regs, IsTable(regs), NEW block \in Blocks, NEW nibbles, IsBank(nibbles)
    PROVE  IsWritten(regs, [regs EXCEPT ![block] = nibbles], block, nibbles)
<1> DEFINE t == [regs EXCEPT ![block] = nibbles]
<1>1. DOMAIN regs = Blocks /\ \A b \in Blocks : IsBank(regs[b])
  BY DEF IsTable
<1>2. t = [b \in Blocks |-> t[b]] /\ t[block] = nibbles /\ \A b \in Blocks \ {block} : t[b] = regs[b]
  BY <1>1
<1> HIDE DEF t
<1>3. \A b \in Blocks : IsBank(t[b])
  BY <1>1, <1>2
<1>4. IsWritten(regs, t, block, nibbles)
  BY <1>2, <1>3 DEF IsTable, IsWritten
<1> QED BY <1>4 DEF t

IsWrittenAt(regs, t, block, place, value) ==
    /\ IsTable(t)
    /\ \A b \in Blocks, r \in Regs : b # block \/ r # place => t[b][r] = regs[b][r]
    /\ block # 0 => t[0] = regs[0]
    /\ regs[block][place] = value => t = regs

LEMMA RegisterWritten ==
    ASSUME NEW regs, IsTable(regs), NEW block \in Blocks, NEW place \in Regs, NEW value
    PROVE  IsWrittenAt(regs, [regs EXCEPT ![block][place] = value], block, place, value)
<1> DEFINE t == [regs EXCEPT ![block][place] = value]
           nibbles == [regs[block] EXCEPT ![place] = value]
<1>1. t = [regs EXCEPT ![block] = nibbles]
  BY Zenon
<1>2. \A b \in Blocks : IsBank(regs[b])
  BY DEF IsTable
<1>3. Replaced(regs[block], nibbles, place, value)
  <2>1. IsBank(regs[block])
    BY <1>2
  <2> QED BY <2>1, BankReplaced, Zenon
<1>4. regs[block][place] = value => nibbles = regs[block]
  BY <1>2 DEF IsBank
<1> HIDE DEF nibbles, t
<1>5. IsBank(nibbles) /\ \A r \in Regs \ {place} : nibbles[r] = regs[block][r]
  BY <1>3 DEF Replaced
<1>6. IsTable(t) /\ t[block] = nibbles /\ \A b \in Blocks \ {block} : t[b] = regs[b]
  <2>1. IsWritten(regs, t, block, nibbles)
    <3>1. IsBank(nibbles)
      BY <1>5
    <3>2. IsWritten(regs, [regs EXCEPT ![block] = nibbles], block, nibbles)
      BY <3>1, BankWritten
    <3> QED BY ONLY <1>1, <3>2
  <2> QED BY <2>1 DEF IsWritten
<1>7. block # 0 => t[0] = regs[0]
  BY <1>6 DEF Blocks
<1>8. \A b \in Blocks, r \in Regs : b # block \/ r # place => t[b][r] = regs[b][r]
  BY <1>5, <1>6
<1>9. regs[block][place] = value => t = regs
  <2> SUFFICES ASSUME regs[block][place] = value PROVE t = regs
    OBVIOUS
  <2>1. \A b \in Blocks : t[b] = regs[b]
    BY <1>4, <1>6
  <2>2. t = [b \in Blocks |-> t[b]] /\ regs = [b \in Blocks |-> regs[b]]
    BY <1>6 DEF IsTable
  <2> QED BY <2>1, <2>2
<1>10. IsWrittenAt(regs, t, block, place, value)
  BY <1>6, <1>7, <1>8, <1>9 DEF IsWrittenAt
<1> QED BY <1>10 DEF t

\* The alarm is no part of the time.
LEMMA AlarmCleared ==
    ASSUME NEW regs, IsTable(regs), NEW t,
           t = [regs EXCEPT ![1] = [r \in Regs |-> IF r \in 2..8 THEN 0 ELSE regs[1][r]]]
    PROVE  IsTable(t) /\ Decoded(t) = Decoded(regs)
<1> DEFINE nibbles == [r \in Regs |-> IF r \in 2..8 THEN 0 ELSE regs[1][r]]
           one == 1
<1>1. IsBank(nibbles) /\ nibbles[10] = regs[1][10] /\ nibbles[11] = regs[1][11]
  <2>1. 10 \in Regs /\ 11 \in Regs /\ 10 \notin 2..8 /\ 11 \notin 2..8
    BY Thirteen
  <2>2. \A r \in Regs : nibbles[r] = IF r \in 2..8 THEN 0 ELSE regs[1][r]
    OBVIOUS
  <2>3. nibbles = [r \in Regs |-> nibbles[r]]
    OBVIOUS
  <2> HIDE DEF nibbles
  <2>4. nibbles[10] = regs[1][10] /\ nibbles[11] = regs[1][11]
    BY <2>1, <2>2
  <2> QED BY <2>3, <2>4 DEF IsBank
<1>2. one \in Blocks /\ 0 \in Blocks \ {one} /\ t = [regs EXCEPT ![one] = nibbles]
  BY DEF Blocks
<1>5. one = 1
  OBVIOUS
<1> HIDE DEF nibbles, one
<1>3. IsTable(t) /\ t[one] = nibbles /\ \A b \in Blocks \ {one} : t[b] = regs[b]
  <2>1. IsWritten(regs, t, one, nibbles)
    <3>1. IsBank(nibbles) /\ one \in Blocks
      BY <1>1, <1>2
    <3>2. IsWritten(regs, [regs EXCEPT ![one] = nibbles], one, nibbles)
      BY <3>1, BankWritten
    <3> QED BY ONLY <1>2, <3>2
  <2> QED BY <2>1 DEF IsWritten
<1>4. t[0] = regs[0] /\ t[1][10] = regs[1][10] /\ t[1][11] = regs[1][11]
  BY <1>1, <1>2, <1>3, <1>5
<1> QED BY <1>3, <1>4, SameShown

---------------------------------------------------------------------------
(* The inductive invariant: the clock and its files (ClockSound), and a save *)
(* that is under way (SaveSound).                                          *)

\* A saved file shows the time of its save.
SaveShows(f) == f.kind = "saved" => Showing(f.registers, f.truth) /\ f.host \in Moments

ClockSound ==
    /\ Showing(registers, truth) /\ host \in Moments
    /\ cycle_accumulator \in Nat /\ test_cycle_accumulator \in Nat
    /\ mode \in 0..15 /\ test \in 0..15
    /\ file = [m \in Machine |-> file[m]] /\ \A m \in Machine : SaveShows(file[m])
    /\ SaveShows(temporary.content)

\* The steps of a save after its first, and the last of them.
Writing == {"flush_sync", "flush_rename", "exit_sync", "exit_rename"}
Renaming == {"flush_rename", "exit_rename"}
Flushes == Writing \cup {"flush_write", "exit_write"}

SaveSound ==
    /\ machine \in Machine /\ path \in Machine \cup {NoPath}
    /\ target \in Machine \cup {NoPath} /\ next_machine \in Machine \cup {NoPath}
    /\ rtc_dirty \in BOOLEAN /\ rtc_pc \in Flushes \cup {"attach", "running", "off"}
    /\ temporary = [content |-> temporary.content, synced |-> temporary.synced]
    /\ FileWhole
    /\ rtc_pc \in Writing => /\ path # NoPath
                             /\ temporary.content.kind = "saved"
                             /\ temporary.content.registers = registers
    /\ rtc_pc \in Renaming => temporary.synced
    /\ path # NoPath => \/ rtc_pc = "running"
                        \/ rtc_pc \in Flushes \cup {"attach"} /\ target = NoPath
    /\ path # NoPath /\ (rtc_pc = "attach" \/ ~rtc_dirty) => Kept

LEMMA Quotient ==
    ASSUME NEW a \in Nat, NEW c \in Nat \ {0}
    PROVE  a \div c \in Nat /\ a % c \in Nat
OBVIOUS

LEMMA Product == ASSUME NEW a \in Nat, NEW c \in Nat PROVE a * c \in Nat
OBVIOUS

\* An advance: the timer's seconds, then the test ticks (rtc_advance).
LEMMA AdvanceKeeps ==
    ASSUME Showing(registers, truth), cycle_accumulator \in Nat, test_cycle_accumulator \in Nat,
           rtc_dirty \in BOOLEAN, NEW cycles \in Nat, Advance(cycles)
    PROVE  /\ Showing(registers', truth')
           /\ cycle_accumulator' \in Nat /\ test_cycle_accumulator' \in Nat
           /\ rtc_dirty' \in BOOLEAN
           /\ ~rtc_dirty' => ~rtc_dirty /\ registers' = registers
           /\ UNCHANGED <<mode, test>>
<1> DEFINE total == cycle_accumulator + cycles
           seconds == IF TimerEnabled THEN total \div CpuHz ELSE 0
           timed == IF seconds = 0 THEN registers
                    ELSE advance_time(registers, seconds, 0, 0, 0)
           ticks == test_cycle_accumulator + cycles * TestHz
           tests == IF test = 0 THEN 0 ELSE ticks \div CpuHz
           Ticked(b) == IF HasBit(test, b) THEN tests ELSE 0
           one == Ticked(1)
           two == Ticked(2)
           four == Ticked(4)
           eight == Ticked(8)
           sum == seconds + one + 60 * two
           left == IF TimerEnabled THEN total % CpuHz ELSE cycle_accumulator
           unused == IF test = 0 THEN test_cycle_accumulator ELSE ticks % CpuHz
           ticked == advance_time(timed, one, two, four, eight)
<1>1. cycle_accumulator' = left
  BY Zenon DEF Advance, Fraction
<1>2. test_cycle_accumulator' = unused
  BY Zenon DEF Advance
<1>3. registers' = IF tests = 0 THEN timed ELSE ticked
  BY Zenon DEF Advance
<1>4. rtc_dirty' = (rtc_dirty \/ seconds > 0 \/ tests > 0)
  BY Zenon DEF Advance
<1>5. truth' = IF truth = NoTruth \/ eight > 0 THEN NoTruth
               ELSE LET t == Later(truth, sum) IN [t EXCEPT !.days = @ + four]
  BY Zenon DEF Advance
<1>6. UNCHANGED <<mode, test>>
  BY Zenon DEF Advance
<1>7. total \in Nat /\ ticks \in Nat /\ CpuHz \in Nat \ {0}
  <2>1. CpuHz \in Nat \ {0} /\ TestHz \in Nat
    BY RtcAssumption
  <2>2. cycles * TestHz \in Nat
    BY <2>1, Product
  <2> QED BY <2>1, <2>2
<1> HIDE DEF total, ticks
<1>8. seconds \in Nat /\ tests \in Nat /\ left \in Nat /\ unused \in Nat
  BY <1>7, Quotient
<1>9. /\ one \in Nat /\ two \in Nat /\ four \in Nat /\ eight \in Nat
      /\ tests = 0 => one = 0 /\ two = 0 /\ four = 0 /\ eight = 0
  BY <1>8
<1>11. truth' = IF truth = NoTruth \/ eight > 0 THEN NoTruth ELSE Moved(truth, sum, four)
  BY <1>5, Zenon DEF Moved
<1>12. sum = seconds + (one + 60 * two) /\ one + 60 * two \in Nat
  BY <1>8, <1>9
<1>13. (seconds > 0 \/ tests > 0) \/ registers' = registers
  BY <1>3, <1>8
<1> HIDE DEF seconds, tests, left, unused, one, two, four, eight, sum, ticked
<1>14. IsTable(registers)
  BY DEF Showing
<1>15. IsTable(timed)
  BY <1>14, AdvanceTable
<1>16. IsTable(registers')
  <2>1. IsTable(ticked)
    <3> HIDE DEF timed
    <3> QED BY <1>15, AdvanceTable DEF ticked
  <2> QED BY <1>3, <1>15, <2>1
<1>17. ASSUME truth' # NoTruth
       PROVE  truth' \in Moments /\ Shows(Decoded(registers'), truth')
  <2>1. truth \in Moments /\ eight = 0 /\ truth' = Moved(truth, sum, four) /\ truth # NoTruth
    <3>1. truth # NoTruth /\ ~(eight > 0) /\ truth' = Moved(truth, sum, four)
      BY <1>11, <1>17
    <3>2. truth \in Moments
      BY <3>1 DEF Showing
    <3> QED BY <1>9, <3>1, <3>2
  <2> DEFINE zero == 0
             middle == Moved(truth, seconds, zero)
  <2>2. middle \in Moments
    <3>1. zero \in Nat
      OBVIOUS
    <3> HIDE DEF zero
    <3> QED BY <1>8, <2>1, <3>1, MovedMoment
  <2>3. Showing(timed, middle)
    <3>1. CASE seconds = 0
      <4>1. middle = truth
        BY <2>1, <3>1, MovedNot
      <4> HIDE DEF middle
      <4> QED BY <3>1, <4>1
    <3>2. CASE seconds # 0
      <4>1. Showing(advance_time(registers, seconds, 0, 0, 0), Later(truth, seconds))
        BY <1>8, <2>1, ShowsLaterSeconds
      <4>2. Later(truth, seconds) = middle
        BY <1>8, <2>1, LaterIs
      <4> HIDE DEF middle
      <4> QED BY <3>2, <4>1, <4>2
    <3> QED BY <3>1, <3>2
  <2>4. Moved(middle, one + 60 * two, four) = truth'
    <3> DEFINE rest == one + 60 * two
    <3>1. Moved(middle, rest, four) = Moved(truth, seconds + rest, four)
      <4>1. rest \in Nat
        BY <1>12
      <4> HIDE DEF rest
      <4> QED BY <1>8, <1>9, <2>1, <4>1, MovedTwice
    <3> HIDE DEF middle
    <3> QED BY <1>12, <2>1, <3>1
  <2> HIDE DEF middle, timed
  <2>5. CASE tests = 0
    <3>1. one + 60 * two = 0 /\ four = 0
      BY <1>9, <2>5
    <3>2. Moved(middle, 0, 0) = middle
      BY <2>2, MovedNot
    <3>3. truth' = middle /\ registers' = timed
      BY <1>3, <2>4, <2>5, <3>1, <3>2
    <3> QED BY <2>2, <2>3, <3>3, NoMoment DEF Showing
  <2>6. CASE tests # 0
    <3>1. registers' = advance_time(timed, one, two, four, 0)
      BY <1>3, <2>1, <2>6 DEF ticked
    <3>2. Showing(advance_time(timed, one, two, four, 0), Moved(middle, one + 60 * two, four))
      BY <1>9, <2>2, <2>3, ShowsLater
    <3>3. Showing(registers', truth')
      BY <2>4, <3>1, <3>2
    <3> QED BY <1>17, <3>3 DEF Showing
  <2> QED BY <2>5, <2>6
<1>18. Showing(registers', truth')
  BY <1>16, <1>17 DEF Showing
<1>19. rtc_dirty' \in BOOLEAN /\ (~rtc_dirty' => ~rtc_dirty /\ registers' = registers)
  BY <1>4, <1>13
<1> QED BY <1>1, <1>2, <1>6, <1>8, <1>18, <1>19

---------------------------------------------------------------------------
(* One lemma for each step of the running clock, of a save and of the user. *)

\* A step of the running clock: the frontend, the host and the disk stay.
LEMMA RunningStep ==
    ASSUME ClockSound, SaveSound, rtc_pc = "running", UNCHANGED front, UNCHANGED <<host, disk>>,
           Showing(registers', truth'), cycle_accumulator' \in Nat, test_cycle_accumulator' \in Nat,
           mode' \in 0..15, test' \in 0..15, rtc_dirty' \in BOOLEAN,
           ~rtc_dirty' => ~rtc_dirty /\ registers' = registers
    PROVE  ClockSound' /\ SaveSound'
<1>1. /\ machine' = machine /\ path' = path /\ rtc_pc' = rtc_pc /\ target' = target
      /\ next_machine' = next_machine /\ host' = host /\ file' = file /\ temporary' = temporary
  BY DEF front, disk
<1>2. ClockSound'
  BY <1>1 DEF ClockSound, SaveShows
<1>3. rtc_pc \notin Writing /\ rtc_pc \notin Renaming /\ rtc_pc # "attach"
  BY DEF Writing, Renaming
<1>4. path' # NoPath /\ (rtc_pc' = "attach" \/ ~rtc_dirty') => Kept'
  BY <1>1, <1>3 DEF SaveSound, Kept
<1>5. SaveSound'
  BY <1>1, <1>3, <1>4 DEF SaveSound, FileWhole
<1> QED BY <1>2, <1>5

LEMMA FrameKeeps ==
    ASSUME ClockSound, SaveSound, Frame
    PROVE  ClockSound' /\ SaveSound'
<1>1. PICK cycles \in FrameCycles : Advance(cycles)
  BY DEF Frame
<1>2. /\ Showing(registers, truth) /\ cycle_accumulator \in Nat /\ test_cycle_accumulator \in Nat
      /\ mode \in 0..15 /\ test \in 0..15 /\ rtc_dirty \in BOOLEAN /\ cycles \in Nat
  BY RtcAssumption DEF ClockSound, SaveSound
<1>3. /\ Showing(registers', truth')
      /\ cycle_accumulator' \in Nat /\ test_cycle_accumulator' \in Nat
      /\ rtc_dirty' \in BOOLEAN
      /\ ~rtc_dirty' => ~rtc_dirty /\ registers' = registers
      /\ UNCHANGED <<mode, test>>
  BY <1>1, <1>2, AdvanceKeeps
<1>4. rtc_pc = "running" /\ UNCHANGED front /\ UNCHANGED <<host, disk>>
  BY Zenon DEF Frame
<1>5. mode' \in 0..15 /\ test' \in 0..15
  BY <1>2, <1>3
<1> QED BY ONLY ClockSound, SaveSound, <1>3, <1>4, <1>5, RunningStep

\* A written register shows the same time, or the clock is the guest's.
LEMMA WriteKeeps ==
    ASSUME ClockSound, SaveSound, NEW latch \in Regs, NEW value, WriteRegister(latch, value)
    PROVE  /\ Showing(registers', truth')
           /\ rtc_dirty' \in BOOLEAN
           /\ ~rtc_dirty' => ~rtc_dirty /\ registers' = registers
           /\ UNCHANGED <<mode, test, cycle_accumulator, test_cycle_accumulator>>
<1> DEFINE block == mode % 4
           stored == Masked(block, latch, value)
<1>1. /\ registers' = [registers EXCEPT ![block][latch] = stored]
      /\ rtc_dirty' = (rtc_dirty \/ registers[block][latch] # stored)
      /\ truth' = IF SetsClock(block, latch) /\ registers' # registers THEN NoTruth ELSE truth
      /\ UNCHANGED <<mode, test, cycle_accumulator, test_cycle_accumulator>>
  BY Zenon DEF WriteRegister
<1>2. block \in Blocks
  BY DEF Blocks, ClockSound
<1> HIDE DEF block, stored
<1>3. IsTable(registers) /\ rtc_dirty \in BOOLEAN
  BY DEF ClockSound, SaveSound, Showing
<1>4. /\ IsTable(registers')
      /\ \A b \in Blocks, r \in Regs : b # block \/ r # latch => registers'[b][r] = registers[b][r]
      /\ block # 0 => registers'[0] = registers[0]
      /\ registers[block][latch] = stored => registers' = registers
  <2>1. IsWrittenAt(registers, [registers EXCEPT ![block][latch] = stored], block, latch, stored)
    BY <1>2, <1>3, RegisterWritten
  <2>2. IsWrittenAt(registers, registers', block, latch, stored)
    BY ONLY <1>1, <2>1
  <2> QED BY <2>2 DEF IsWrittenAt
<1>5. ~SetsClock(block, latch) => Decoded(registers') = Decoded(registers)
  <2> SUFFICES ASSUME ~SetsClock(block, latch) PROVE Decoded(registers') = Decoded(registers)
    OBVIOUS
  <2>1. /\ block # 0 /\ (block # 1 \/ latch # 11)
        /\ block # 1 \/ latch # 10 \/ ~(decode_pair(registers[0], 4) >= 20)
    BY DEF SetsClock
  <2>2. 1 \in Blocks /\ 10 \in Regs /\ 11 \in Regs
    BY Thirteen DEF Blocks
  <2>3. /\ registers'[0] = registers[0]
        /\ registers'[1][11] = registers[1][11]
    BY <1>4, <2>1, <2>2
  <2>4. CASE block # 1 \/ latch # 10
    <3>1. registers'[1][10] = registers[1][10]
      BY <1>4, <2>2, <2>4
    <3> QED BY <2>3, <3>1, SameShown
  <2>5. CASE ~(decode_pair(registers[0], 4) >= 20)
    BY <2>3, <2>5, SameHour
  <2> QED BY <2>1, <2>4, <2>5
<1>6. Showing(registers', truth')
  BY <1>1, <1>4, <1>5 DEF ClockSound, Showing
<1>7. rtc_dirty' \in BOOLEAN /\ (~rtc_dirty' => ~rtc_dirty /\ registers' = registers)
  BY <1>1, <1>3, <1>4
<1> QED BY <1>1, <1>6, <1>7

LEMMA ResetKeeps ==
    ASSUME ClockSound, SaveSound, NEW value, WriteReset(value)
    PROVE  /\ Showing(registers', truth')
           /\ rtc_dirty' \in BOOLEAN
           /\ ~rtc_dirty' => ~rtc_dirty /\ registers' = registers
           /\ cycle_accumulator' \in Nat
           /\ UNCHANGED <<mode, test, test_cycle_accumulator>>
<1> DEFINE cleared == [registers EXCEPT ![1] = [r \in Regs |-> IF r \in 2..8 THEN 0 ELSE registers[1][r]]]
           alarm == HasBit(value, 1)
           drop == HasBit(value, 2)
<1>1. /\ registers' = IF alarm THEN cleared ELSE registers
      /\ rtc_dirty' = (rtc_dirty \/ alarm)
      /\ cycle_accumulator' = IF drop THEN 0 ELSE cycle_accumulator
      /\ UNCHANGED <<mode, test, test_cycle_accumulator, truth>>
  BY Zenon DEF WriteReset
<1>2. IsTable(registers) /\ rtc_dirty \in BOOLEAN /\ cycle_accumulator \in Nat
  BY DEF ClockSound, SaveSound, Showing
<1> HIDE DEF alarm, drop
<1>3. IsTable(cleared) /\ Decoded(cleared) = Decoded(registers)
  BY <1>2, AlarmCleared
<1> HIDE DEF cleared
<1>4. Showing(registers', truth')
  BY <1>1, <1>2, <1>3 DEF ClockSound, Showing
<1>5. cycle_accumulator' \in Nat
  BY <1>1, <1>2
<1>6. rtc_dirty' \in BOOLEAN /\ (~rtc_dirty' => ~rtc_dirty /\ registers' = registers)
  BY <1>1, <1>2
<1> QED BY <1>1, <1>4, <1>5, <1>6

LEMMA WriteDataKeeps ==
    ASSUME ClockSound, SaveSound, rtc_write_data
    PROVE  ClockSound' /\ SaveSound'
<1>1. rtc_pc = "running" /\ UNCHANGED front /\ UNCHANGED <<host, disk>>
  BY Zenon DEF rtc_write_data
<1>2. PICK w \in GuestWrites :
         CASE w[1] = 13 -> WriteMode(w[2])
           [] w[1] = 14 -> WriteTest(w[2])
           [] w[1] = 15 -> WriteReset(w[2])
           [] OTHER -> WriteRegister(w[1], w[2])
  BY Zenon DEF rtc_write_data
<1>3. w[1] \in 0..15 /\ w[2] \in 0..15
  BY RtcAssumption
<1>4. /\ Showing(registers, truth) /\ cycle_accumulator \in Nat /\ test_cycle_accumulator \in Nat
      /\ mode \in 0..15 /\ test \in 0..15 /\ rtc_dirty \in BOOLEAN
  BY DEF ClockSound, SaveSound
<1> SUFFICES /\ Showing(registers', truth')
             /\ cycle_accumulator' \in Nat /\ test_cycle_accumulator' \in Nat
             /\ mode' \in 0..15 /\ test' \in 0..15 /\ rtc_dirty' \in BOOLEAN
             /\ ~rtc_dirty' => ~rtc_dirty /\ registers' = registers
  BY <1>1, RunningStep
<1>5. CASE w[1] = 13
  <2>1. WriteMode(w[2])
    BY <1>2, <1>5
  <2> QED BY <1>3, <1>4, <2>1 DEF WriteMode
<1>6. CASE w[1] = 14
  <2>1. WriteTest(w[2])
    BY <1>2, <1>6
  <2> QED BY <1>3, <1>4, <2>1 DEF WriteTest
<1>7. CASE w[1] = 15
  <2>1. WriteReset(w[2])
    BY <1>2, <1>7
  <2>2. /\ Showing(registers', truth')
        /\ rtc_dirty' \in BOOLEAN
        /\ ~rtc_dirty' => ~rtc_dirty /\ registers' = registers
        /\ cycle_accumulator' \in Nat
        /\ UNCHANGED <<mode, test, test_cycle_accumulator>>
    BY <2>1, ResetKeeps
  <2> QED BY <1>4, <2>2
<1>8. CASE w[1] \notin {13, 14, 15}
  <2>1. WriteRegister(w[1], w[2])
    BY <1>2, <1>8
  <2>2. w[1] \in Regs
    BY <1>3, <1>8 DEF Regs
  <2>3. /\ Showing(registers', truth')
        /\ rtc_dirty' \in BOOLEAN
        /\ ~rtc_dirty' => ~rtc_dirty /\ registers' = registers
        /\ UNCHANGED <<mode, test, cycle_accumulator, test_cycle_accumulator>>
    BY <2>1, <2>2, WriteKeeps
  <2> QED BY <1>4, <2>3
<1> QED BY <1>5, <1>6, <1>7, <1>8

\* A reset of the machine keeps the time (rtc_reset).
LEMMA RtcResetKeeps ==
    ASSUME ClockSound, SaveSound, rtc_reset
    PROVE  ClockSound' /\ SaveSound'
<1>1. /\ rtc_pc = "running" /\ UNCHANGED front /\ UNCHANGED <<host, disk>>
      /\ mode' = 8 /\ test' = 0 /\ test_cycle_accumulator' = 0 /\ rtc_dirty' = TRUE
      /\ UNCHANGED <<registers, cycle_accumulator, truth>>
  BY DEF rtc_reset, ControlReset
<1>2. Showing(registers', truth') /\ cycle_accumulator' \in Nat
  BY <1>1 DEF ClockSound
<1> QED BY <1>1, <1>2, RunningStep

\* What a save writes, and what the loader reads of a file that was not saved.
LEMMA SavedIs ==
    /\ Saved.kind = "saved" /\ Saved.registers = registers /\ Saved.host = host
    /\ Saved.truth = truth
    /\ NoFile.kind = "none" /\ Torn.kind = "torn"
    /\ NoTemporary.content = NoFile /\ NoTemporary.synced = FALSE
BY DEF Saved, NoFile, Torn, NoTemporary

LEMMA NotSaved == SaveShows(NoFile) /\ SaveShows(Torn)
BY SavedIs DEF SaveShows

\* A step that leaves the clock, the host and the disk.
LEMMA ClockStays ==
    ASSUME ClockSound, UNCHANGED clock, UNCHANGED <<host, disk>>
    PROVE  ClockSound'
<1>1. /\ registers' = registers /\ mode' = mode /\ test' = test /\ truth' = truth
      /\ cycle_accumulator' = cycle_accumulator /\ test_cycle_accumulator' = test_cycle_accumulator
      /\ host' = host /\ file' = file /\ temporary' = temporary
  BY DEF clock, disk
<1> QED BY <1>1 DEF ClockSound

\* The clock of an emulator that has stopped, and a clock of the host's time.
LEMMA OffShows ==
    ASSUME ClockOff
    PROVE  /\ Showing(registers', truth') /\ cycle_accumulator' \in Nat
           /\ test_cycle_accumulator' \in Nat /\ mode' \in 0..15 /\ test' \in 0..15
           /\ rtc_dirty' = FALSE /\ rtc_pc' = "off" /\ path' = NoPath /\ machine' = machine
           /\ target' = machine /\ next_machine' = machine
<1>1. /\ registers' = BlankRegisters /\ truth' = NoTruth /\ mode' = 8 /\ test' = 0
      /\ test_cycle_accumulator' = 0 /\ cycle_accumulator' = 0
      /\ rtc_dirty' = FALSE /\ rtc_pc' = "off" /\ path' = NoPath /\ machine' = machine
      /\ target' = machine /\ next_machine' = machine
  BY Zenon DEF ClockOff, ControlReset
<1>2. Showing(registers', truth')
  BY <1>1, BlankTable DEF Showing
<1> QED BY <1>1, <1>2

LEMMA OffSaves ==
    ASSUME SaveSound, ClockOff, FileWhole',
           temporary' = temporary \/ temporary' = NoTemporary
    PROVE  SaveSound'
<1>1. /\ rtc_dirty' = FALSE /\ rtc_pc' = "off" /\ path' = NoPath /\ machine' = machine
      /\ target' = machine /\ next_machine' = machine
  BY OffShows
<1>2. rtc_pc' \notin Writing /\ rtc_pc' \notin Renaming
  BY <1>1 DEF Writing, Renaming
<1>3. temporary' = [content |-> temporary'.content, synced |-> temporary'.synced]
  BY DEF SaveSound, NoTemporary
<1> QED BY <1>1, <1>2, <1>3 DEF SaveSound

\* Where a flush may lead.
LEMMA Labels ==
    /\ "flush_write" \in Flushes \ Writing /\ "exit_write" \in Flushes \ Writing
    /\ "flush_sync" \in Writing \ Renaming /\ "exit_sync" \in Writing \ Renaming
    /\ Renaming = {"flush_rename", "exit_rename"}
    /\ Renaming \subseteq Writing /\ Writing \subseteq Flushes
    /\ Flushes = {"flush_write", "exit_write"} \cup {"flush_sync", "exit_sync"} \cup Renaming
    /\ "attach" \notin Flushes /\ "running" \notin Flushes /\ "off" \notin Flushes
BY DEF Flushes, Writing, Renaming

LEMMA FlushNothingKeeps ==
    ASSUME ClockSound, SaveSound, FlushNothing
    PROVE  ClockSound' /\ SaveSound'
<1>1. /\ rtc_pc \in {"flush_write", "exit_write"} /\ ~NeedsFlush
      /\ IF Exiting THEN ClockOff ELSE FrontAt("attach") /\ UNCHANGED clock
      /\ host' = host /\ file' = file /\ temporary' = temporary
  BY Zenon DEF FlushNothing, disk
<1>2. CASE Exiting
  <2>1. ClockOff
    BY <1>1, <1>2
  <2>2. FileWhole'
    BY <1>1 DEF SaveSound, FileWhole
  <2>3. SaveSound'
    BY <1>1, <2>1, <2>2, OffSaves
  <2>4. ClockSound'
    BY <1>1, <2>1, OffShows DEF ClockSound, SaveShows
  <2> QED BY <2>3, <2>4
<1>3. CASE ~Exiting
  <2>1. /\ rtc_pc' = "attach" /\ machine' = machine /\ path' = path /\ target' = target
        /\ next_machine' = next_machine /\ UNCHANGED clock
    BY <1>1, <1>3 DEF FrontAt
  <2>2. ClockSound'
    BY <1>1, <2>1, ClockStays DEF disk
  <2>3. registers' = registers /\ rtc_dirty' = rtc_dirty
    BY <2>1 DEF clock
  <2>4. path # NoPath => Kept /\ target = NoPath
    <3>1. path # NoPath => ~rtc_dirty
      BY <1>1 DEF NeedsFlush
    <3>2. rtc_pc # "running"
      BY <1>1
    <3> QED BY <3>1, <3>2 DEF SaveSound
  <2>5. Kept => Kept'
    BY <1>1, <2>1, <2>3 DEF Kept
  <2>6. rtc_pc' \notin Writing /\ rtc_pc' \notin Renaming
    BY <2>1 DEF Writing, Renaming
  <2>7. FileWhole'
    BY <1>1 DEF SaveSound, FileWhole
  <2> QED BY <1>1, <2>1, <2>2, <2>3, <2>4, <2>5, <2>6, <2>7 DEF SaveSound
<1> QED BY <1>2, <1>3

\* A step of a flush that does not end it.
LEMMA FlushingKeeps ==
    ASSUME ClockSound, SaveSound, NEW label, rtc_pc' = label, label \in Writing,
           rtc_pc \in Flushes, path # NoPath,
           UNCHANGED <<machine, path, target, next_machine>>, UNCHANGED clock,
           UNCHANGED <<host, file>>,
           temporary' = [content |-> temporary'.content, synced |-> temporary'.synced],
           temporary'.content.kind = "saved", temporary'.content.registers = registers,
           SaveShows(temporary'.content), label \in Renaming => temporary'.synced
    PROVE  ClockSound' /\ SaveSound'
<1>1. /\ machine' = machine /\ path' = path /\ target' = target /\ next_machine' = next_machine
      /\ registers' = registers /\ mode' = mode /\ test' = test /\ truth' = truth
      /\ cycle_accumulator' = cycle_accumulator /\ test_cycle_accumulator' = test_cycle_accumulator
      /\ rtc_dirty' = rtc_dirty /\ host' = host /\ file' = file
  BY DEF clock
<1>2. ClockSound'
  BY <1>1 DEF ClockSound, SaveShows
<1>3. FileWhole'
  BY <1>1 DEF SaveSound, FileWhole
<1>4. label \in Flushes /\ label # "attach" /\ rtc_pc # "running"
  BY Labels
<1>5. target = NoPath
  BY <1>4 DEF SaveSound
<1>6. path' # NoPath /\ (rtc_pc' = "attach" \/ ~rtc_dirty') => Kept'
  BY <1>1, <1>4 DEF SaveSound, Kept
<1> QED BY <1>1, <1>2, <1>3, <1>4, <1>5, <1>6 DEF SaveSound

LEMMA FlushWriteKeeps ==
    ASSUME ClockSound, SaveSound, FlushWrite
    PROVE  ClockSound' /\ SaveSound'
<1> DEFINE label == IF Exiting THEN "exit_sync" ELSE "flush_sync"
<1>1. /\ rtc_pc \in {"flush_write", "exit_write"} /\ NeedsFlush
      /\ temporary' = [content |-> Saved, synced |-> FALSE]
      /\ rtc_pc' = label /\ UNCHANGED <<machine, path, target, next_machine>>
      /\ UNCHANGED clock /\ UNCHANGED <<host, file>>
  BY Zenon DEF FlushWrite, Flushing, FrontAt
<1>2. label \in Writing /\ label \notin Renaming /\ rtc_pc \in Flushes
  BY <1>1, Labels
<1>3. temporary'.content = Saved
      /\ temporary' = [content |-> temporary'.content, synced |-> temporary'.synced]
  <2> DEFINE written == Saved
  <2> HIDE DEF written
  <2>1. temporary' = [content |-> written, synced |-> FALSE]
    BY <1>1 DEF written
  <2>2. temporary'.content = written
        /\ temporary' = [content |-> temporary'.content, synced |-> temporary'.synced]
    BY ONLY <2>1
  <2> QED BY <2>2 DEF written
<1>4. path # NoPath
  BY <1>1 DEF NeedsFlush
<1>5. SaveShows(temporary'.content)
  BY <1>3, SavedIs DEF SaveShows, ClockSound
<1> HIDE DEF label
<1> QED BY <1>1, <1>2, <1>3, <1>4, <1>5, SavedIs, FlushingKeeps

LEMMA FlushSyncKeeps ==
    ASSUME ClockSound, SaveSound, FlushSync
    PROVE  ClockSound' /\ SaveSound'
<1> DEFINE label == IF Exiting THEN "exit_rename" ELSE "flush_rename"
<1>1. /\ rtc_pc \in {"flush_sync", "exit_sync"}
      /\ temporary' = [temporary EXCEPT !.synced = TRUE]
      /\ rtc_pc' = label /\ UNCHANGED <<machine, path, target, next_machine>>
      /\ UNCHANGED clock /\ UNCHANGED <<host, file>>
  BY Zenon DEF FlushSync, Flushing, FrontAt
<1>2. label \in Writing /\ rtc_pc \in Writing /\ rtc_pc \in Flushes
  BY <1>1, Labels
<1>3. /\ path # NoPath /\ temporary.content.kind = "saved"
      /\ temporary.content.registers = registers
  BY <1>2 DEF SaveSound
<1>4. /\ temporary'.content = temporary.content /\ temporary'.synced = TRUE
      /\ temporary' = [content |-> temporary'.content, synced |-> temporary'.synced]
  BY <1>1 DEF SaveSound
<1> HIDE DEF label
<1> QED BY <1>1, <1>2, <1>3, <1>4, FlushingKeeps DEF ClockSound

\* The rename gives the path a whole file, or a torn one never synced: a save
\* syncs before it renames.
LEMMA FlushRenameKeeps ==
    ASSUME ClockSound, SaveSound, FlushRename
    PROVE  ClockSound' /\ SaveSound'
<1> DEFINE content == temporary.content
<1>1. /\ rtc_pc \in {"flush_rename", "exit_rename"}
      /\ file' = [file EXCEPT ![path] = IF temporary.synced THEN temporary.content ELSE Torn]
      /\ temporary' = NoTemporary /\ host' = host
      /\ IF Exiting THEN ClockOff
         ELSE /\ FrontAt("attach") /\ rtc_dirty' = FALSE
              /\ UNCHANGED <<registers, mode, test, cycle_accumulator, test_cycle_accumulator, truth>>
  BY Zenon DEF FlushRename
<1>2. rtc_pc \in Renaming /\ rtc_pc \in Writing /\ rtc_pc \in Flushes
  BY <1>1, Labels
<1>3. /\ path \in Machine /\ content.kind = "saved" /\ content.registers = registers
      /\ temporary.synced
  BY <1>2 DEF SaveSound
<1>4. file' = [file EXCEPT ![path] = content]
  BY <1>1, <1>3
<1>5. SaveShows(content) /\ file = [m \in Machine |-> file[m]] /\ \A m \in Machine : SaveShows(file[m])
  BY DEF ClockSound
<1> HIDE DEF content
<1>6. /\ file' = [m \in Machine |-> file'[m]] /\ file'[path] = content
      /\ \A m \in Machine : file'[m] = IF m = path THEN content ELSE file[m]
  <2> DEFINE g == [file EXCEPT ![path] = content]
  <2>1. g = [m \in Machine |-> g[m]] /\ g[path] = content
        /\ \A m \in Machine : g[m] = IF m = path THEN content ELSE file[m]
    BY <1>3, <1>5
  <2> HIDE DEF g
  <2>2. file' = g
    BY <1>4 DEF g
  <2> QED BY <2>1, <2>2
<1>7. \A m \in Machine : SaveShows(file'[m])
  BY <1>5, <1>6
<1>8. FileWhole'
  <2>1. \A m \in Machine : file'[m].kind # "torn"
    BY <1>3, <1>6 DEF SaveSound, FileWhole
  <2> QED BY <2>1 DEF FileWhole
<1>9. /\ temporary' = [content |-> temporary'.content, synced |-> temporary'.synced]
      /\ SaveShows(temporary'.content)
  BY <1>1, SavedIs, NotSaved DEF NoTemporary
<1>10. CASE Exiting
  <2>1. ClockOff
    BY <1>1, <1>10
  <2>2. SaveSound'
    BY <1>1, <1>8, <2>1, OffSaves
  <2>3. ClockSound'
    <3>1. host' \in Moments
      BY <1>1 DEF ClockSound
    <3>2. /\ Showing(registers', truth') /\ cycle_accumulator' \in Nat
          /\ test_cycle_accumulator' \in Nat /\ mode' \in 0..15 /\ test' \in 0..15
      BY <2>1, OffShows
    <3> QED BY <1>6, <1>7, <1>9, <3>1, <3>2 DEF ClockSound, SaveShows
  <2> QED BY <2>2, <2>3
<1>11. CASE ~Exiting
  <2>1. /\ rtc_pc' = "attach" /\ machine' = machine /\ path' = path /\ target' = target
        /\ next_machine' = next_machine /\ rtc_dirty' = FALSE
        /\ registers' = registers /\ mode' = mode /\ test' = test
        /\ cycle_accumulator' = cycle_accumulator
        /\ test_cycle_accumulator' = test_cycle_accumulator /\ truth' = truth
    BY <1>1, <1>11 DEF FrontAt
  <2>2. ClockSound'
    BY <1>1, <1>6, <1>7, <1>9, <2>1 DEF ClockSound, SaveShows
  <2>3. Kept'
    BY <1>3, <1>6, <2>1 DEF Kept
  <2>4. rtc_pc' \notin Writing /\ rtc_pc' \notin Renaming
    BY <2>1, Labels
  <2>5. target = NoPath
    BY <1>2, <1>3, Labels, RtcAssumption DEF SaveSound
  <2> QED BY <1>8, <1>9, <2>1, <2>2, <2>3, <2>4, <2>5 DEF SaveSound
<1> QED BY <1>10, <1>11

\* A save that fails leaves the file, and the path may be kept.
LEMMA FlushFailsKeeps ==
    ASSUME ClockSound, SaveSound, FlushFails
    PROVE  ClockSound' /\ SaveSound'
<1>1. /\ NeedsFlush /\ temporary' = NoTemporary /\ host' = host /\ file' = file
      /\ IF Exiting THEN ClockOff ELSE GiveUp
  BY Zenon DEF FlushFails
<1>2. FileWhole'
  BY <1>1 DEF SaveSound, FileWhole
<1>3. /\ temporary' = [content |-> temporary'.content, synced |-> temporary'.synced]
      /\ SaveShows(temporary'.content)
  BY <1>1, SavedIs, NotSaved DEF NoTemporary
<1>4. host' \in Moments /\ file' = [m \in Machine |-> file'[m]] /\ \A m \in Machine : SaveShows(file'[m])
  BY <1>1 DEF ClockSound
<1>5. CASE Exiting
  <2>1. ClockOff
    BY <1>1, <1>5
  <2>2. SaveSound'
    BY <1>1, <1>2, <2>1, OffSaves
  <2>3. /\ Showing(registers', truth') /\ cycle_accumulator' \in Nat
        /\ test_cycle_accumulator' \in Nat /\ mode' \in 0..15 /\ test' \in 0..15
    BY <2>1, OffShows
  <2>4. ClockSound'
    BY <1>3, <1>4, <2>3 DEF ClockSound, SaveShows
  <2> QED BY <2>2, <2>4
<1>6. CASE ~Exiting
  <2>1. /\ rtc_pc' = "running" /\ target' = machine /\ next_machine' = machine
        /\ machine' = machine /\ path' = path /\ UNCHANGED clock
    BY <1>1, <1>6 DEF GiveUp
  <2>2. /\ registers' = registers /\ mode' = mode /\ test' = test /\ rtc_dirty' = rtc_dirty
        /\ cycle_accumulator' = cycle_accumulator
        /\ test_cycle_accumulator' = test_cycle_accumulator /\ truth' = truth
    BY <2>1 DEF clock
  <2>3. ClockSound'
    BY <1>3, <1>4, <2>2 DEF ClockSound, SaveShows
  <2>4. rtc_dirty
    BY <1>1 DEF NeedsFlush
  <2>5. rtc_pc' \notin Writing /\ rtc_pc' \notin Renaming /\ rtc_pc' # "attach"
    BY <2>1, Labels
  <2> QED BY <1>2, <1>3, <2>1, <2>2, <2>3, <2>4, <2>5 DEF SaveSound
<1> QED BY <1>5, <1>6

LEMMA DetachKeeps ==
    ASSUME ClockSound, SaveSound, Detach
    PROVE  ClockSound' /\ SaveSound'
<1>1. /\ path' = NoPath /\ machine' = (IF next_machine = NoPath THEN machine ELSE next_machine)
      /\ target' = machine' /\ next_machine' = machine'
      /\ rtc_pc' \in {"running", "attach"} /\ UNCHANGED clock /\ UNCHANGED <<host, disk>>
  BY DEF Detach
<1>2. ClockSound'
  BY <1>1, ClockStays
<1>3. rtc_dirty' = rtc_dirty /\ file' = file /\ temporary' = temporary
  BY <1>1 DEF clock, disk
<1>4. rtc_pc' \notin Writing /\ rtc_pc' \notin Renaming
  BY <1>1, Labels
<1>5. FileWhole'
  BY <1>3 DEF SaveSound, FileWhole
<1>6. machine' \in Machine
  BY <1>1 DEF SaveSound
<1> QED BY <1>1, <1>2, <1>3, <1>4, <1>5, <1>6 DEF SaveSound

\* A step that attaches a path.
LEMMA AttachedKeeps ==
    ASSUME ClockSound, SaveSound, Attached, Showing(registers', truth'), ControlReset,
           cycle_accumulator' = 0, rtc_dirty' \in BOOLEAN,
           ~rtc_dirty' => file[target].kind = "saved" /\ file[target].registers = registers'
    PROVE  ClockSound' /\ SaveSound'
<1>1. /\ target # NoPath /\ path' = target /\ rtc_pc' = "running"
      /\ machine' = machine /\ target' = target /\ next_machine' = next_machine
      /\ host' = host /\ file' = file /\ temporary' = temporary
      /\ mode' = 8 /\ test' = 0 /\ test_cycle_accumulator' = 0
  BY DEF Attached, disk, ControlReset
<1>2. ClockSound'
  BY <1>1 DEF ClockSound, SaveShows
<1>3. ~rtc_dirty' => Kept'
  BY <1>1 DEF Kept
<1>4. rtc_pc' \notin Writing /\ rtc_pc' \notin Renaming /\ rtc_pc' # "attach"
  BY <1>1, Labels
<1>5. FileWhole'
  BY <1>1 DEF SaveSound, FileWhole
<1> QED BY <1>1, <1>2, <1>3, <1>4, <1>5 DEF SaveSound

\* A loaded file shows the time since it was saved.
LEMMA LoadFileKeeps ==
    ASSUME ClockSound, SaveSound, LoadFile
    PROVE  ClockSound' /\ SaveSound'
<1> DEFINE f == file[target]
           since == SecondsSince(f)
           offline == IF f.running /\ since > 0 THEN since ELSE 0
<1>1. /\ Attached /\ Loadable(f) /\ ControlReset /\ cycle_accumulator' = 0
      /\ registers' = IF offline = 0 THEN f.registers ELSE advance_time(f.registers, offline, 0, 0, 0)
      /\ rtc_dirty' = (offline > 0)
      /\ truth' = IF f.truth = NoTruth THEN NoTruth ELSE Later(f.truth, offline)
  BY Zenon DEF LoadFile
<1>2. target \in Machine /\ f.kind = "saved"
  BY <1>1 DEF SaveSound, Attached, Loadable
<1>3. Showing(f.registers, f.truth) /\ f.host \in Moments /\ host \in Moments
  BY <1>2 DEF ClockSound, SaveShows
<1>4. offline \in Nat
  <2>1. /\ f.host.days \in Nat /\ f.host.seconds \in Nat /\ host.days \in Nat /\ host.seconds \in Nat
    BY <1>3 DEF Moments
  <2>2. since \in Int
    BY <2>1 DEF SecondsSince, Now
  <2> HIDE DEF since
  <2> QED BY <2>2
<1> HIDE DEF offline, f
<1>5. Showing(registers', truth')
  <2>1. IsTable(f.registers)
    BY <1>3 DEF Showing
  <2>2. IsTable(registers')
    BY <1>1, <2>1, AdvanceTable
  <2>3. CASE f.truth = NoTruth
    BY <1>1, <2>2, <2>3 DEF Showing
  <2>4. CASE f.truth # NoTruth
    <3>1. f.truth \in Moments /\ truth' = Later(f.truth, offline)
      BY <1>1, <1>3, <2>4 DEF Showing
    <3>2. CASE offline = 0
      <4>1. Later(f.truth, 0) = f.truth
        BY <3>1, LaterIs, MovedNot
      <4>2. truth' = f.truth /\ registers' = f.registers
        BY <1>1, <3>1, <3>2, <4>1
      <4> QED BY <1>3, <4>2
    <3>3. CASE offline # 0
      <4>1. registers' = advance_time(f.registers, offline, 0, 0, 0)
        BY <1>1, <3>3
      <4> QED BY <1>3, <1>4, <3>1, <4>1, ShowsLaterSeconds
    <3> QED BY <3>2, <3>3
  <2> QED BY <2>3, <2>4
<1>6. rtc_dirty' \in BOOLEAN /\ (~rtc_dirty' => f.kind = "saved" /\ f.registers = registers')
  <2>1. rtc_dirty' = (offline > 0)
    BY <1>1
  <2>2. CASE offline > 0
    <3>0. (offline > 0) = TRUE
      BY <2>2
    <3>1. rtc_dirty' = TRUE
      BY <2>1, <3>0
    <3> QED BY <3>1
  <2>3. CASE ~(offline > 0)
    <3>0. (offline > 0) = FALSE
      BY <2>3
    <3>1. rtc_dirty' = FALSE
      BY <2>1, <3>0
    <3>2. offline = 0
      BY <1>4, <2>3
    <3>3. registers' = f.registers
      BY <1>1, <3>2
    <3> QED BY <1>2, <3>1, <3>3
  <2> QED BY <2>2, <2>3
<1> QED BY <1>1, <1>5, <1>6, AttachedKeeps DEF f

LEMMA KeepFreshKeeps ==
    ASSUME ClockSound, SaveSound, KeepFresh
    PROVE  ClockSound' /\ SaveSound'
<1>1. /\ Attached /\ ControlReset /\ cycle_accumulator' = 0 /\ rtc_dirty' = TRUE
      /\ registers' = Fresh(host) /\ truth' = host
  BY Zenon DEF KeepFresh, rtc_init, Now
<1>2. Showing(registers', truth')
  BY <1>1, FreshShows DEF ClockSound
<1> QED BY <1>1, <1>2, AttachedKeeps

\* A decision of the user, which begins a save.
LEMMA DecisionKeeps ==
    ASSUME ClockSound, SaveSound, rtc_pc = "running", rtc_pc' \in {"flush_write", "exit_write"},
           machine' = machine, path' = path,
           target' \in Machine \cup {NoPath}, next_machine' \in Machine \cup {NoPath},
           path # NoPath => target' = NoPath, UNCHANGED clock, UNCHANGED <<host, disk>>
    PROVE  ClockSound' /\ SaveSound'
<1>1. ClockSound'
  BY ClockStays
<1>2. rtc_dirty' = rtc_dirty /\ registers' = registers /\ file' = file /\ temporary' = temporary
  BY DEF clock, disk
<1>3. rtc_pc' \notin Writing /\ rtc_pc' \notin Renaming /\ rtc_pc' # "attach" /\ rtc_pc' \in Flushes
  BY Labels
<1>4. FileWhole' /\ (Kept => Kept')
  BY <1>2 DEF SaveSound, FileWhole, Kept
<1> QED BY <1>1, <1>2, <1>3, <1>4 DEF SaveSound

LEMMA ToggleKeeps ==
    ASSUME ClockSound, SaveSound, Toggle
    PROVE  ClockSound' /\ SaveSound'
<1>1. /\ rtc_pc = "running" /\ rtc_pc' = "flush_write" /\ machine' = machine /\ path' = path
      /\ IF path = NoPath THEN target' = machine /\ next_machine' = next_machine
         ELSE target' = NoPath /\ next_machine' = NoPath
      /\ UNCHANGED clock /\ UNCHANGED <<host, disk>>
  BY DEF Toggle
<1>2. target' \in Machine \cup {NoPath} /\ next_machine' \in Machine \cup {NoPath}
  BY <1>1 DEF SaveSound
<1> QED BY <1>1, <1>2, DecisionKeeps

LEMMA ReconfigureKeeps ==
    ASSUME ClockSound, SaveSound, Reconfigure
    PROVE  ClockSound' /\ SaveSound'
<1>1. /\ rtc_pc = "running" /\ rtc_pc' = "flush_write" /\ machine' = machine /\ path' = path
      /\ target' = NoPath /\ next_machine' \in Machine
      /\ UNCHANGED clock /\ UNCHANGED <<host, disk>>
  BY DEF Reconfigure
<1> QED BY <1>1, DecisionKeeps

LEMMA ShutdownKeeps ==
    ASSUME ClockSound, SaveSound, ClockShutdown
    PROVE  ClockSound' /\ SaveSound'
<1>1. /\ rtc_pc = "running" /\ rtc_pc' = "exit_write" /\ machine' = machine /\ path' = path
      /\ target' = NoPath /\ next_machine' = next_machine
      /\ UNCHANGED clock /\ UNCHANGED <<host, disk>>
  BY DEF ClockShutdown
<1>2. next_machine' \in Machine \cup {NoPath}
  BY <1>1 DEF SaveSound
<1> QED BY <1>1, <1>2, DecisionKeeps

LEMMA ReconfigureDetachedKeeps ==
    ASSUME ClockSound, SaveSound, ReconfigureDetached
    PROVE  ClockSound' /\ SaveSound'
<1>1. /\ path = NoPath /\ path' = path /\ rtc_pc = "running" /\ rtc_pc' = rtc_pc
      /\ machine' \in Machine /\ target' = machine' /\ next_machine' = machine'
      /\ mode' = 8 /\ test' = 0 /\ test_cycle_accumulator' = 0 /\ rtc_dirty' = TRUE
      /\ UNCHANGED <<registers, cycle_accumulator, truth, host, file, temporary>>
  BY DEF ReconfigureDetached, ControlReset, disk
<1>2. ClockSound'
  BY <1>1 DEF ClockSound, SaveShows
<1>3. rtc_pc' \notin Writing /\ rtc_pc' \notin Renaming
  BY <1>1, Labels
<1>4. FileWhole'
  BY <1>1 DEF SaveSound, FileWhole
<1> QED BY <1>1, <1>2, <1>3, <1>4 DEF SaveSound

LEMMA RestartKeeps ==
    ASSUME ClockSound, SaveSound, Restart
    PROVE  ClockSound' /\ SaveSound'
<1>1. /\ rtc_pc' = "attach" /\ path' = NoPath /\ target' = machine /\ next_machine' = machine
      /\ registers' = Fresh(host) /\ truth' = host
      /\ mode' = 8 /\ test' = 0 /\ test_cycle_accumulator' = 0 /\ cycle_accumulator' = 0
      /\ rtc_dirty' = FALSE
      /\ UNCHANGED <<machine, host, file, temporary>>
  BY DEF Restart, rtc_init, ControlReset, disk, Now
<1>2. Showing(registers', truth')
  BY <1>1, FreshShows DEF ClockSound
<1>3. ClockSound'
  BY <1>1, <1>2 DEF ClockSound, SaveShows
<1>4. rtc_pc' \notin Writing /\ rtc_pc' \notin Renaming
  BY <1>1, Labels
<1>5. FileWhole'
  BY <1>1 DEF SaveSound, FileWhole
<1> QED BY <1>1, <1>3, <1>4, <1>5 DEF SaveSound

\* A power failure keeps the files; the temporary is lost.
LEMMA PowerFailsKeeps ==
    ASSUME ClockSound, SaveSound, PowerFails
    PROVE  ClockSound' /\ SaveSound'
<1>1. ClockOff /\ temporary' = NoTemporary /\ host' = host /\ file' = file
  BY DEF PowerFails
<1>2. FileWhole'
  BY <1>1 DEF SaveSound, FileWhole
<1>3. SaveSound'
  BY <1>1, <1>2, OffSaves
<1>4. /\ Showing(registers', truth') /\ cycle_accumulator' \in Nat
      /\ test_cycle_accumulator' \in Nat /\ mode' \in 0..15 /\ test' \in 0..15
  BY <1>1, OffShows
<1>5. SaveShows(temporary'.content)
  BY <1>1, SavedIs, NotSaved
<1>6. ClockSound'
  BY <1>1, <1>4, <1>5 DEF ClockSound, SaveShows
<1> QED BY <1>3, <1>6

LEMMA HostClockKeeps ==
    ASSUME ClockSound, SaveSound, HostClock
    PROVE  ClockSound' /\ SaveSound'
<1>1. host'.days >= 0 /\ \E s \in HostSteps : host' = Later(host, s)
  BY DEF HostClock
<1>2. /\ registers' = registers /\ mode' = mode /\ test' = test /\ truth' = truth
      /\ cycle_accumulator' = cycle_accumulator /\ test_cycle_accumulator' = test_cycle_accumulator
      /\ rtc_dirty' = rtc_dirty /\ machine' = machine /\ path' = path /\ rtc_pc' = rtc_pc
      /\ target' = target /\ next_machine' = next_machine /\ file' = file /\ temporary' = temporary
  BY DEF HostClock, clock, front, disk
<1>3. host' \in Moments
  <2>1. PICK s \in HostSteps : host' = Later(host, s)
    BY <1>1
  <2>2. s \in Int /\ host.days \in Nat /\ host.seconds \in Nat
    BY RtcAssumption DEF ClockSound, Moments
  <2> DEFINE total == host.seconds + s
             d == host.days + total \div 86400
             x == total % 86400
  <2>3. host' = [days |-> d, seconds |-> x]
    BY <2>1 DEF Later
  <2>4. d \in Int /\ x \in Nat /\ x < 86400
    BY ONLY <2>2
  <2> HIDE DEF d, x
  <2> QED BY <1>1, <2>3, <2>4 DEF Moments
<1>4. ClockSound'
  BY <1>2, <1>3 DEF ClockSound, SaveShows
<1>5. FileWhole' /\ (Kept => Kept')
  BY <1>2 DEF SaveSound, FileWhole, Kept
<1> QED BY <1>2, <1>4, <1>5 DEF SaveSound

LEMMA ClockStarts ==
    ASSUME ClockInit
    PROVE  ClockSound /\ SaveSound
<1>1. /\ host \in Start /\ machine \in Machine /\ next_machine = machine
      /\ registers = Fresh(host) /\ truth = host /\ mode = 8 /\ test = 0
      /\ cycle_accumulator = 0 /\ test_cycle_accumulator = 0 /\ rtc_dirty = FALSE
      /\ path = NoPath /\ target = machine /\ rtc_pc = "attach"
      /\ file = [m \in Machine |-> NoFile] /\ temporary = NoTemporary
  BY Zenon DEF ClockInit
<1>2. host \in Moments
  BY <1>1, StartMoments
<1>3. Showing(registers, truth)
  BY <1>1, <1>2, FreshShows
<1>4. file = [m \in Machine |-> file[m]] /\ \A m \in Machine : file[m] = NoFile
  BY <1>1
<1>5. SaveShows(temporary.content) /\ \A m \in Machine : SaveShows(file[m])
  BY <1>1, <1>4, SavedIs, NotSaved
<1>6. ClockSound
  BY <1>1, <1>2, <1>3, <1>4, <1>5 DEF ClockSound
<1>7. FileWhole
  BY <1>4, SavedIs DEF FileWhole
<1>8. temporary = [content |-> temporary.content, synced |-> temporary.synced]
  BY <1>1 DEF NoTemporary
<1>9. rtc_pc \notin Writing /\ rtc_pc \notin Renaming
  BY <1>1, Labels
<1> QED BY <1>1, <1>6, <1>7, <1>8, <1>9 DEF SaveSound

LEMMA ClockStep ==
    ASSUME ClockSound, SaveSound, [ClockNext]_clockvars
    PROVE  ClockSound' /\ SaveSound'
<1>1. CASE UNCHANGED clockvars
  <2>1. /\ UNCHANGED clock /\ UNCHANGED <<host, disk>>
        /\ registers' = registers /\ rtc_dirty' = rtc_dirty /\ machine' = machine /\ path' = path
        /\ rtc_pc' = rtc_pc /\ target' = target /\ next_machine' = next_machine
        /\ file' = file /\ temporary' = temporary
    BY <1>1 DEF clockvars, clock, front, disk
  <2>2. ClockSound'
    BY <2>1, ClockStays
  <2>3. FileWhole' /\ (Kept => Kept')
    BY <2>1 DEF SaveSound, FileWhole, Kept
  <2> QED BY <2>1, <2>2, <2>3 DEF SaveSound
<1>2. CASE Frame
  BY <1>2, FrameKeeps
<1>3. CASE rtc_write_data
  BY <1>3, WriteDataKeeps
<1>4. CASE rtc_reset
  BY <1>4, RtcResetKeeps
<1>5. CASE FlushNothing
  BY <1>5, FlushNothingKeeps
<1>6. CASE FlushWrite
  BY <1>6, FlushWriteKeeps
<1>7. CASE FlushSync
  BY <1>7, FlushSyncKeeps
<1>8. CASE FlushRename
  BY <1>8, FlushRenameKeeps
<1>9. CASE FlushFails
  BY <1>9, FlushFailsKeeps
<1>10. CASE Detach
  BY <1>10, DetachKeeps
<1>11. CASE LoadFile
  BY <1>11, LoadFileKeeps
<1>12. CASE KeepFresh
  BY <1>12, KeepFreshKeeps
<1>13. CASE Toggle
  BY <1>13, ToggleKeeps
<1>14. CASE Reconfigure
  BY <1>14, ReconfigureKeeps
<1>15. CASE ReconfigureDetached
  BY <1>15, ReconfigureDetachedKeeps
<1>16. CASE ClockShutdown
  BY <1>16, ShutdownKeeps
<1>17. CASE Restart
  BY <1>17, RestartKeeps
<1>18. CASE PowerFails
  BY <1>18, PowerFailsKeeps
<1>19. CASE HostClock
  BY <1>19, HostClockKeeps
<1> QED BY <1>1, <1>2, <1>3, <1>4, <1>5, <1>6, <1>7, <1>8, <1>9, <1>10, <1>11, <1>12,
           <1>13, <1>14, <1>15, <1>16, <1>17, <1>18, <1>19, Zenon DEF ClockNext

---------------------------------------------------------------------------
(* The theorems.                                                           *)

\* The invariant the theorems about the clock rest on: the registers and every
\* saved file show the time they should, and a save that is under way holds
\* the registers (advance_time, rtc_save_persistence, rtc_load_persistence).
THEOREM ClockIsSound == ClockSpec => [](ClockSound /\ SaveSound)
<1>1. ClockInit => ClockSound /\ SaveSound
  BY ClockStarts
<1>2. ClockSound /\ SaveSound /\ [ClockNext]_clockvars => (ClockSound /\ SaveSound)'
  BY ClockStep
<1> QED BY <1>1, <1>2, PTL DEF ClockSpec

\* The clock shows the moment it should, whatever was added to it and
\* wherever it was saved and loaded, unless the guest set it (advance_time,
\* set_time, rtc_load_persistence).
THEOREM TimeIsShown == ClockSpec => []ShowsTheTime
<1>1. ClockSound => ShowsTheTime
  <2> SUFFICES ASSUME ClockSound, truth # NoTruth PROVE Decoded(registers) = FieldsOf(truth)
    BY DEF ShowsTheTime
  <2>1. truth \in Moments /\ Shows(Decoded(registers), truth)
    BY DEF ClockSound, Showing
  <2> QED BY <2>1, ShowsOne
<1> QED BY <1>1, ClockIsSound, PTL

\* A file is absent or a whole save, whatever step of a save power failed in
\* (rtc_save_persistence).
THEOREM FilesAreWhole == ClockSpec => []FileWhole
<1>1. SaveSound => FileWhole
  BY DEF SaveSound
<1> QED BY <1>1, ClockIsSound, PTL

\* The frontend lets go of a path only when its file holds the registers
\* (msx_set_rtc_persistence and its callers).
THEOREM NothingIsDropped == ClockSpec => NothingDropped
<1>1. ClockSound /\ SaveSound /\ [ClockNext]_clockvars
         => [(path # NoPath /\ path' # path /\ rtc_pc' # "off") => Kept]_clockvars
  <2> SUFFICES ASSUME SaveSound, [ClockNext]_clockvars, path # NoPath, path' # path, rtc_pc' # "off"
               PROVE  Kept
    OBVIOUS
  <2>1. path' = path => FALSE
    OBVIOUS
  <2>2. CASE rtc_pc = "attach"
    BY <2>2 DEF SaveSound
  <2>3. CASE rtc_pc # "attach"
    <3>1. \/ path' = path
          \/ path' = NoPath /\ rtc_pc' \in {"off", "attach"} /\ (ClockOff \/ rtc_pc = "off")
      BY <2>3 DEF ClockNext, clockvars, front, Frame, rtc_write_data, rtc_reset,
         FlushNothing, FlushWrite, FlushSync, FlushRename, FlushFails, Flushing, FrontAt, GiveUp,
         Detach, LoadFile, KeepFresh, Attached, Toggle, Reconfigure, ReconfigureDetached,
         ClockShutdown, Restart, PowerFails, HostClock, ClockOff
    <3>2. ClockOff => rtc_pc' = "off"
      BY OffShows
    <3>3. rtc_pc = "off" => path = NoPath
      BY Labels DEF SaveSound
    <3> QED BY <3>1, <3>2, <3>3
  <2> QED BY <2>2, <2>3
<1> QED BY <1>1, ClockIsSound, PTL DEF ClockSpec, NothingDropped

=============================================================================
