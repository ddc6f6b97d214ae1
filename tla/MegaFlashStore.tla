--------------------------- MODULE MegaFlashStore ---------------------------
(***************************************************************************)
(* The flash of a MegaFlashROM SCC+ SD between the guest that programs it, *)
(* the settings overlay that replaces its image, and the disk: the private *)
(* state file, one pending file per source image, and the configuration    *)
(* (megaflash.c, msx.c, overlay.c, config.c, main.c).                      *)
(*                                                                         *)
(* A flash is known by the image that seeded it and by how much the guest  *)
(* has programmed since.  A state file is written to a temporary that      *)
(* nothing reads and renamed, so that a write is one step here; the        *)
(* configuration is written in place and may be lost.  Saving, resetting   *)
(* to the defaults and leaving the program take several steps, between     *)
(* which the emulator may die.                                             *)
(*                                                                         *)
(* Bounds: MaxWork programs of one flash, MaxFailures refusals of the host,*)
(* MaxCrashes deaths.                                                      *)
(***************************************************************************)
EXTENDS Naturals

CONSTANTS
    Rom, NoRom,         \* images a user may choose, and none
    Final,              \* the private state file; a pending file has the
                        \* name of its image
    Failing,            \* the host steps that may be refused
    MaxWork, MaxFailures, MaxCrashes

\* "restore" is any other device that restore_saved_config puts back.
Steps == {"flush", "load", "restore", "config", "promote", "recover"}

StoreAssumption ==
    /\ NoRom \notin Rom /\ Final \notin Rom \cup {NoRom}
    /\ Failing \subseteq Steps /\ MaxWork \in Nat

\* The configuration can be written, and a start can finish a promotion.
NoLostSettings == Failing \subseteq {"flush", "load", "restore", "promote"}

VARIABLES
    states,             \* the state files
    config_file,        \* the configuration on the disk
    config, saved,      \* the live one, and the one to return to
    previous,           \* saved, while the defaults are tried
    megaflash,          \* the cartridge
    staged,             \* the image of megaflash_pending_state_path, or none
    dirty,              \* the overlay has something to save
    quitting,           \* the save in progress was asked for by a QUIT
    pc,                 \* where the frontend is
    over,               \* history: the state file each pending one was
                        \* staged over
    before,             \* history: what a save in progress replaces
    restored,           \* history: "whole"; "half" after a restore that a
                        \* refusal stopped; "astray" once the user went on
                        \* from there
    failures, crashes

overlay == <<config, saved, previous, staged, dirty>>
files == <<states, over>>
vars == <<files, config_file, overlay, megaflash, quitting, pc, before, restored,
          failures, crashes>>

Files == Rom \cup {Final}
NoFlash == [seed |-> NoRom, work |-> 0]
Seeded(image) == [seed |-> image, work |-> 0]
Unplugged == [loaded |-> FALSE, flash |-> NoFlash, path |-> Final, dirty |-> FALSE]
Plugged(flash, path) ==
    [loaded |-> TRUE, flash |-> flash, path |-> path, dirty |-> FALSE]
Settings(image, on) == [rom |-> image, on |-> on]
Defaults == Settings(NoRom, FALSE)
NotSaving == <<NoRom, NoFlash>>

Init ==
    /\ states = [f \in Files |-> NoFlash] /\ over = [r \in Rom |-> NoFlash]
    /\ config_file = Defaults /\ config = Defaults
    /\ saved = Defaults /\ previous = Defaults
    /\ megaflash = Unplugged /\ staged = NoRom /\ dirty = FALSE
    /\ pc = "off" /\ quitting = FALSE
    /\ before = NotSaving /\ restored = "whole"
    /\ failures = 0 /\ crashes = 0

---------------------------------------------------------------------------
(* The host.                                                               *)

Fine == UNCHANGED failures
Refused(step) ==
    /\ step \in Failing /\ failures < MaxFailures
    /\ failures' = failures + 1

Written(file, flash) == [states EXCEPT ![file] = flash]
OverWritten(file) ==
    IF file = Final THEN over ELSE [over EXCEPT ![file] = states[Final]]

Write(file, flash) ==
    /\ states' = Written(file, flash)
    /\ over' = OverWritten(file)

\* megaflash_load_persistent: the state file, or the image if there is none.
LoadedFrom(image, file) ==
    IF states[file] = NoFlash THEN Seeded(image) ELSE states[file]

\* What a start of the emulator would find (recover, then load).
Stored(image) ==
    IF image = NoRom THEN NoFlash
    ELSE IF states[image] # NoFlash THEN states[image]
    ELSE LoadedFrom(image, Final)

Durable == <<config_file.rom, Stored(config_file.rom)>>

NoSave == before' = NotSaving

\* Whatever the user does next but try again, a restore that stopped half way
\* is not made whole any more.
GoesOn == restored' = IF restored = "half" THEN "astray" ELSE restored

---------------------------------------------------------------------------
(* Start and end.                                                          *)

\* recover_pending_megaflash_state: a promotion that the configuration on
\* the disk expects is finished.
Promoted(image) ==
    /\ states' = [states EXCEPT ![Final] = states[image], ![image] = NoFlash]
    /\ UNCHANGED over

Expected == config_file.rom # NoRom /\ states[config_file.rom] # NoFlash

Recover ==
    /\ pc = "off" /\ pc' = "start"
    /\ \/ Expected /\ Promoted(config_file.rom) /\ Fine
       \/ Expected /\ Refused("recover") /\ UNCHANGED files
       \/ ~Expected /\ UNCHANGED files /\ Fine
    /\ UNCHANGED <<config_file, overlay, megaflash, quitting, before, restored, crashes>>

Launch ==
    /\ pc = "start" /\ pc' = "running"
    /\ \/ config_file.on
          /\ config' = config_file /\ Fine
          /\ megaflash' = Plugged(LoadedFrom(config_file.rom, Final), Final)
       \/ config_file.on /\ Refused("load")
          /\ config' = [config_file EXCEPT !.on = FALSE] /\ UNCHANGED megaflash
       \/ ~config_file.on /\ config' = config_file /\ UNCHANGED megaflash /\ Fine
    /\ UNCHANGED <<files, config_file, saved, previous, staged, dirty>>
    /\ UNCHANGED <<quitting, before, restored, crashes>>

\* The cartridge, the live settings and the overlay are memory.
Off ==
    /\ pc' = "off" /\ megaflash' = Unplugged
    /\ config' = Defaults /\ saved' = Defaults /\ previous' = Defaults
    /\ staged' = NoRom /\ dirty' = FALSE /\ quitting' = FALSE
    /\ NoSave

\* megaflash_flush_flash.
Flush ==
    IF megaflash.dirty THEN Write(megaflash.path, megaflash.flash) /\ Fine
    ELSE UNCHANGED files /\ Fine
FlushRefused == megaflash.dirty /\ Refused("flush") /\ UNCHANGED files

\* F12 or a QUIT, the overlay being closed or nothing staged (a QUIT with a
\* reseed staged saves first: Save), or the last frame of --exit-after.
Quit ==
    /\ pc \in {"running", "open"} /\ pc' = "exit"
    /\ before' = Durable /\ GoesOn
    /\ UNCHANGED <<files, config_file, overlay, megaflash, quitting, failures, crashes>>

\* The live settings are written, edits that nobody saved with them.
ExitSave ==
    /\ pc = "exit" /\ pc' = "flush" /\ NoSave
    /\ \/ config_file' = config /\ Fine
       \/ config_file' \in {config_file, Defaults} /\ Refused("config")
    /\ UNCHANGED <<files, overlay, megaflash, quitting, restored, crashes>>

Shutdown ==
    /\ pc = "flush" /\ Off
    /\ Flush \/ FlushRefused
    /\ UNCHANGED <<config_file, restored, crashes>>

\* A restore that stopped half way has changed nothing on the disk.
Dies ==
    /\ pc # "off" /\ Off
    /\ crashes < MaxCrashes /\ crashes' = crashes + 1
    /\ restored' = IF restored = "half" THEN "whole" ELSE restored
    /\ UNCHANGED <<files, config_file, failures>>

\* The guest programs or erases: flash_write reached program_byte or an
\* erase.  It runs on while the overlay is open.
Program ==
    /\ pc \in {"running", "open"} /\ megaflash.loaded
    /\ megaflash.flash.work < MaxWork
    /\ megaflash' = [megaflash EXCEPT !.flash.work = @ + 1, !.dirty = TRUE]
    /\ UNCHANGED <<files, config_file, overlay, quitting, pc, before, restored>>
    /\ UNCHANGED <<failures, crashes>>

---------------------------------------------------------------------------
(* The overlay.                                                            *)

Open ==
    /\ pc = "running" /\ pc' = "open"
    /\ saved' = config /\ dirty' = FALSE
    /\ UNCHANGED <<config, previous, staged, quitting>>
    /\ UNCHANGED <<files, config_file, megaflash, before, restored, failures, crashes>>

\* An edit in the open overlay.
Menu ==
    /\ pc = "open" /\ GoesOn
    /\ UNCHANGED <<pc, saved, previous, config_file, quitting, before, crashes>>

\* Mutant: compared with the live settings.
ReseedsLive(image) == config.rom # image
Reseeds(image) == saved.rom # image

\* remember_pending_megaflash_state, or discard_pending_megaflash_state: the
\* pending file of another image goes.
Forgotten(image) ==
    IF staged \in {NoRom, image} THEN NoRom ELSE staged

\* Files after the cartridge was flushed and "image" was staged (or not).
AfterFlush == IF megaflash.dirty THEN Written(megaflash.path, megaflash.flash) ELSE states
AfterFlushOver == IF megaflash.dirty THEN OverWritten(megaflash.path) ELSE over

Staging(from, fromOver, image, seeds) ==
    LET gone == Forgotten(IF Reseeds(image) THEN image ELSE NoRom)
        seeded == IF seeds THEN [from EXCEPT ![image] = Seeded(image)] ELSE from
    IN  /\ states' = [f \in Files |-> IF f = gone THEN NoFlash ELSE seeded[f]]
        /\ over' = IF seeds THEN [fromOver EXCEPT ![image] = from[Final]] ELSE fromOver
        /\ staged' = IF Reseeds(image) THEN image ELSE NoRom

\* finish_megaflash_setup on a connected cartridge: msx_replace_megaflash
\* flushes the old flash, seeds the pending file or loads what is stored,
\* and swaps the cartridge.  "image" may be the present one: new cards.
EditConnected(image) ==
    LET reseeds == Reseeds(image)
        seeds == reseeds /\ image # config.rom
        file == IF reseeds THEN image ELSE Final
        found == IF seeds \/ AfterFlush[file] = NoFlash THEN Seeded(image)
                 ELSE AfterFlush[file]
    IN  /\ Menu /\ config.on /\ megaflash.loaded
        /\ \/ /\ Staging(AfterFlush, AfterFlushOver, image, seeds)
              /\ megaflash' = Plugged(found, file)
              /\ config' = Settings(image, TRUE) /\ dirty' = TRUE /\ Fine
           \/ /\ FlushRefused \/ (Refused("load") /\ UNCHANGED files)
              /\ UNCHANGED <<megaflash, config, staged, dirty>>
           \/ \* the candidate cannot be stored or loaded
              /\ Refused(IF seeds THEN "flush" ELSE "load")
              /\ states' = AfterFlush /\ over' = AfterFlushOver
              /\ megaflash' = [megaflash EXCEPT !.dirty = FALSE]
              /\ UNCHANGED <<config, staged, dirty>>

\* The same for a cartridge that is not connected.
EditDisconnected(image) ==
    LET seeds == Reseeds(image) /\ image # config.rom
    IN  /\ Menu /\ ~config.on /\ config.rom # NoRom
        /\ \/ /\ Staging(states, over, image, seeds)
              /\ config' = Settings(image, FALSE) /\ dirty' = TRUE /\ Fine
           \/ /\ seeds /\ Refused("flush")
              /\ UNCHANGED <<files, config, staged, dirty>>
        /\ UNCHANGED megaflash

\* finish_megaflash_setup of a cartridge that was not configured: staged,
\* then connect_megaflash.  A failure to connect discards what was staged.
Setup(image) ==
    LET seeds == Reseeds(image)
        file == IF seeds THEN image ELSE Final
    IN  /\ Menu /\ ~config.on /\ config.rom = NoRom
        /\ \/ /\ Staging(states, over, image, seeds)
              /\ megaflash' = Plugged(IF seeds THEN Seeded(image)
                                      ELSE LoadedFrom(image, Final), file)
              /\ config' = Settings(image, TRUE) /\ dirty' = TRUE /\ Fine
           \/ /\ seeds /\ Refused("flush")
              /\ UNCHANGED <<files, megaflash, config, staged, dirty>>
           \/ /\ Refused("load")
              /\ states' = [f \in Files |->
                               IF f \in {staged, IF seeds THEN image ELSE staged}
                               THEN NoFlash ELSE states[f]]
              /\ staged' = NoRom
              /\ UNCHANGED <<over, megaflash, config, dirty>>

\* Mutant: what is staged is not looked at.
PrivatePath == Final
StatePath == IF staged = NoRom THEN Final ELSE staged

\* The menu entry of a configured cartridge: connect_megaflash.
Connect ==
    /\ Menu /\ ~config.on /\ config.rom # NoRom
    /\ \/ /\ megaflash' = Plugged(LoadedFrom(config.rom, StatePath), StatePath)
          /\ config' = [config EXCEPT !.on = TRUE] /\ dirty' = TRUE /\ Fine
       \/ /\ Refused("load") /\ UNCHANGED <<megaflash, config, dirty>>
    /\ UNCHANGED <<files, staged>>

\* megaflash_eject flushes the flash, then the cards: a card may refuse when
\* the flash is written.
EjectRefused ==
    /\ megaflash.loaded /\ Refused("flush")
    /\ \/ megaflash.dirty /\ UNCHANGED <<files, megaflash>>
       \/ /\ states' = AfterFlush /\ over' = AfterFlushOver
          /\ megaflash' = [megaflash EXCEPT !.dirty = FALSE]

\* disconnect_megaflash.
Disconnect ==
    /\ Menu /\ config.on
    /\ \/ /\ Flush /\ megaflash' = Unplugged
          /\ config' = [config EXCEPT !.on = FALSE] /\ dirty' = TRUE
       \/ EjectRefused /\ UNCHANGED <<config, dirty>>
    /\ UNCHANGED staged

\* The settings of the cartridge are cleared.
Clear ==
    LET ejected == IF config.on THEN AfterFlush ELSE states
    IN  /\ Menu /\ config.rom # NoRom
        /\ \/ /\ states' = [f \in Files |-> IF f = staged THEN NoFlash ELSE ejected[f]]
              /\ over' = IF config.on THEN AfterFlushOver ELSE over
              /\ megaflash' = IF config.on THEN Unplugged ELSE megaflash
              /\ config' = Defaults /\ staged' = NoRom /\ dirty' = TRUE /\ Fine
           \/ config.on /\ EjectRefused /\ UNCHANGED <<config, staged, dirty>>

---------------------------------------------------------------------------
(* restore_saved_config: the cartridge first, then what is staged goes,    *)
(* then the other devices, each of which may refuse.                       *)

Changed == config # saved \/ megaflash.loaded # saved.on
Ejected == IF Changed THEN AfterFlush ELSE states
EjectedOver == IF Changed THEN AfterFlushOver ELSE over

\* restore_megaflash, when nothing refuses.
Replugged ==
    IF ~Changed THEN megaflash
    ELSE IF ~saved.on THEN Unplugged
    ELSE Plugged(IF Ejected[Final] = NoFlash THEN Seeded(saved.rom) ELSE Ejected[Final],
                 Final)

\* discard_pending_megaflash_state.
Discarded ==
    /\ states' = [f \in Files |-> IF f = staged THEN NoFlash ELSE Ejected[f]]
    /\ over' = EjectedOver
    /\ staged' = NoRom

\* Cartridge, settings and what is staged belong together again, or do not.
Matches ==
    restored' = IF restored = "astray" THEN "astray"
                ELSE IF config' = saved' /\ staged' = NoRom THEN "whole"
                ELSE "half"

Restored ==
    Discarded /\ megaflash' = Replugged /\ config' = saved /\ Fine /\ Matches

\* The old cartridge stays, or none is left.
NotReplugged ==
    /\ Changed /\ UNCHANGED <<config, staged, restored>>
    /\ \/ EjectRefused
       \/ /\ saved.on /\ Refused("load")
          /\ states' = AfterFlush /\ over' = AfterFlushOver /\ megaflash' = Unplugged

\* The cartridge is back and a card of it is not, or another device is not: the
\* settings are still the edited ones, firmware and floppies apart.
HalfRestored ==
    /\ Refused("restore") /\ megaflash' = Replugged
    /\ \/ Discarded /\ config' \in {config, saved}
       \/ /\ Changed /\ saved.on
          /\ states' = AfterFlush /\ over' = AfterFlushOver
          /\ UNCHANGED <<config, staged>>
    /\ Matches

NotRestored == NotReplugged \/ HalfRestored

\* close_overlay without saving.
Cancel ==
    /\ pc = "open" /\ UNCHANGED saved
    /\ \/ Restored /\ pc' = "running" /\ dirty' = FALSE
       \/ NotRestored /\ UNCHANGED <<pc, dirty>>
    /\ UNCHANGED <<config_file, previous, quitting, before, crashes>>

\* reset_to_defaults restores the defaults and writes them; what was saved
\* is restored if that fails, and how that ends is not looked at.
ResetToDefaults ==
    /\ pc = "open" /\ pc' = "defaults"
    /\ saved' = Defaults /\ previous' = saved
    /\ UNCHANGED <<files, config_file, config, staged, dirty, megaflash>>
    /\ UNCHANGED <<quitting, before, restored, failures, crashes>>

RestoreDefaults ==
    /\ pc = "defaults" /\ UNCHANGED config_file
    /\ \/ /\ UNCHANGED <<saved, previous>> /\ pc' = "save"
          /\ Restored /\ before' = Durable'
       \/ /\ saved' = previous /\ previous' = Defaults /\ pc' = "previous"
          /\ NotRestored /\ UNCHANGED before
    /\ UNCHANGED <<dirty, quitting, crashes>>

SaveDefaults ==
    /\ pc = "save" /\ NoSave
    /\ \/ /\ config_file' = config /\ Fine /\ pc' = "running"
          /\ dirty' = FALSE /\ previous' = Defaults /\ UNCHANGED saved
       \/ /\ config_file' \in {config_file, Defaults} /\ Refused("config")
          /\ pc' = "previous" /\ saved' = previous /\ previous' = Defaults
          /\ UNCHANGED dirty
    /\ UNCHANGED <<files, config, staged, megaflash, quitting, restored, crashes>>

RestorePrevious ==
    /\ pc = "previous" /\ pc' = "open" /\ UNCHANGED saved
    /\ Restored \/ NotRestored
    /\ UNCHANGED <<config_file, previous, dirty, quitting, before, crashes>>

---------------------------------------------------------------------------
(* close_overlay: saving.                                                  *)

\* The overlay closes, and the program ends if that was asked for.
Closes(replaced) ==
    /\ pc' = IF quitting' THEN "exit" ELSE "running"
    /\ before' = IF quitting' THEN replaced ELSE NotSaving

\* F9, or a QUIT while something is staged: what is staged is flushed first.
Save ==
    /\ pc = "open" /\ GoesOn /\ UNCHANGED <<config_file, overlay, crashes>>
    /\ quitting' \in BOOLEAN /\ (quitting' => staged # NoRom)
    /\ \/ ~dirty /\ Closes(Durable) /\ UNCHANGED <<files, megaflash>> /\ Fine
       \/ /\ dirty /\ pc' = "config"
          /\ IF staged # NoRom /\ megaflash.loaded
             THEN Flush /\ megaflash' = [megaflash EXCEPT !.dirty = FALSE]
             ELSE UNCHANGED <<files, megaflash>> /\ Fine
          /\ before' = Durable'
       \/ /\ dirty /\ staged # NoRom /\ megaflash.loaded /\ FlushRefused
          /\ ~quitting' /\ UNCHANGED <<pc, megaflash, before>>

Closed ==
    /\ UNCHANGED quitting /\ Closes(before)
    /\ dirty' = FALSE /\ UNCHANGED <<config, saved, previous>>

\* It stays open, and the program goes on.
StaysOpen == pc' = "open" /\ quitting' = FALSE /\ NoSave /\ UNCHANGED overlay

\* config_save writes in place: a refusal leaves the old file, if it could
\* not be opened, or nothing of use.  Without a pending flash the overlay
\* closes all the same.
ConfigSave ==
    /\ pc = "config"
    /\ \/ /\ config_file' = config /\ Fine
          /\ IF staged = NoRom THEN Closed
             ELSE pc' = "commit" /\ UNCHANGED <<overlay, quitting, before>>
       \/ /\ config_file' \in {config_file, Defaults} /\ Refused("config")
          /\ IF staged = NoRom THEN Closed ELSE StaysOpen
    /\ UNCHANGED <<staged, files, megaflash, restored, crashes>>

\* An active cartridge follows its file.
Repathed == [megaflash EXCEPT !.path = Final]

\* megaflash_promote_persistent.
Commit ==
    /\ pc = "commit"
    /\ \/ /\ states[staged] # NoFlash /\ Promoted(staged) /\ Closed
          /\ megaflash' = IF megaflash.loaded /\ megaflash.path = staged
                          THEN Repathed ELSE megaflash
          /\ staged' = NoRom /\ Fine
       \/ /\ Refused("promote") \/ (states[staged] = NoFlash /\ Fine)
          /\ pc' = "revert"
          /\ UNCHANGED <<files, overlay, megaflash, quitting, before>>
    /\ UNCHANGED <<config_file, restored, crashes>>

\* Mutant: the new settings stay on the disk.
NoRollback ==
    /\ pc = "revert" /\ StaysOpen /\ Fine
    /\ UNCHANGED <<config_file, files, megaflash, restored, crashes>>

\* The promotion failed: the settings of before are written back.
Rollback ==
    /\ pc = "revert" /\ StaysOpen
    /\ \/ config_file' = saved /\ Fine
       \/ config_file' \in {config_file, Defaults} /\ Refused("config")
    /\ UNCHANGED <<files, megaflash, restored, crashes>>

Next ==
    \/ Recover \/ Launch \/ Quit \/ ExitSave \/ Shutdown \/ Dies \/ Program
    \/ Open \/ Connect \/ Disconnect \/ Clear \/ Cancel
    \/ ResetToDefaults \/ RestoreDefaults \/ SaveDefaults \/ RestorePrevious
    \/ \E image \in Rom : EditConnected(image) \/ EditDisconnected(image) \/ Setup(image)
    \/ Save \/ ConfigSave \/ Commit \/ Rollback

Spec == Init /\ [][Next]_vars

---------------------------------------------------------------------------
(* Properties.                                                             *)

\* Whatever the user stages, saves or gives up, and whenever the emulator
\* dies, the next start finds an image and a flash that belong together and
\* that only a save, a reset to the defaults or the end of the program has
\* changed (finish_megaflash_setup, close_overlay, reset_to_defaults, main,
\* recover_pending_megaflash_state).  Not so once the user edits, saves or
\* leaves after a restore that stopped half way: then the settings name one
\* image and the cartridge writes the flash of another.
Abstract == INSTANCE Reseed WITH
    rom <- config_file.rom, flash <- Stored(config_file.rom), before <- before,
    saving <- pc \in {"config", "commit", "revert", "save", "exit"},
    beyond <- restored = "astray"
ImplementsReseed == Abstract!Spec

\* A promotion replaces the state file that the pending one was staged over:
\* what the guest programmed since is not lost (megaflash_promote_persistent),
\* with the same exception.
Promotes(image) ==
    /\ states[image] # NoFlash /\ states'[image] = NoFlash
    /\ states'[Final] = states[image]
NothingReplaced ==
    [][\A image \in Rom :
          Promotes(image) /\ restored # "astray" => over[image] = states[Final]]_vars

\* A cartridge runs the image it is configured for (connect_megaflash,
\* msx_replace_megaflash, restore_megaflash), until a restore stops half way:
\* it then leaves the cartridge of the saved settings under the edited ones.
RunsItsImage ==
    restored = "whole" /\ megaflash.loaded => megaflash.flash.seed = config.rom

\* A reseed that is not saved is none of the configuration on the disk: a
\* start would promote it (TECHNICAL.md: "allowing startup to finish a
\* promotion interrupted after configuration save without attaching an
\* unsaved reseed to the old configuration").
UnsavedStaysOut == pc = "open" /\ staged # NoRom => config_file.rom # staged
=============================================================================
