------------------------------- MODULE Reseed -------------------------------
(***************************************************************************)
(* What the owner of a MegaFlashROM may count on (TECHNICAL.md, on the     *)
(* staged reseed): the configured image and the flash that a start of the  *)
(* emulator will find belong together, and only writing the settings (a    *)
(* save, a reset to the defaults, the end of the program) replaces them.   *)
(* A save that fails may put the earlier pair back; lost settings take the *)
(* cartridge out.                                                          *)
(***************************************************************************)
EXTENDS Naturals

CONSTANTS Rom, NoRom        \* NoRom is none of Rom

VARIABLES
    rom,        \* the configured image
    flash,      \* the flash of the next start
    before,     \* the pair that the save in progress replaced
    saving,     \* the settings are being written
    beyond      \* the user went on where nothing is promised

vars == <<rom, flash, before, saving, beyond>>

Flash == [seed: Rom, work: Nat]
NoFlash == [seed |-> NoRom, work |-> 0]

Init ==
    /\ rom = NoRom /\ flash = NoFlash
    /\ before = <<NoRom, NoFlash>> /\ saving = FALSE
    /\ beyond = FALSE

\* The guest's programming reaches the disk.
Worked ==
    /\ rom # NoRom /\ rom' = rom
    /\ flash' \in Flash /\ flash'.seed = flash.seed
Kept == UNCHANGED <<rom, flash>>

Work == Worked /\ UNCHANGED <<before, saving>>

BeginSave ==
    /\ ~saving /\ saving' = TRUE
    /\ Worked \/ Kept
    /\ before' = <<rom', flash'>>

Ended == saving' = FALSE /\ before' = <<NoRom, NoFlash>>
MayEnd == saving /\ (Ended \/ UNCHANGED <<saving, before>>)

\* Another image, with a flash that was seeded from it.
Commit ==
    /\ MayEnd /\ <<rom, flash>> = before
    /\ rom' \in Rom /\ flash' \in Flash /\ flash'.seed = rom'

\* The settings are lost, or say nothing of the cartridge.
Remove == MayEnd /\ rom' = NoRom /\ flash' = NoFlash

Revert == MayEnd /\ <<rom', flash'>> = before

EndSave == saving /\ Ended /\ Kept

Promised == Work \/ BeginSave \/ Commit \/ Remove \/ Revert \/ EndSave

Next == (Promised /\ UNCHANGED beyond) \/ beyond' = TRUE

Spec == Init /\ [][Next]_vars
=============================================================================
