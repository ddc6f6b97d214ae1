-------------------------------- MODULE MCKept --------------------------------
(***************************************************************************)
(* What is kept in files of its own: the CMOS of the real-time clock, the  *)
(* flash of the MegaFlashROM and the settings that name it, and the chip   *)
(* that the guest programs; one of the three at a time, they share no      *)
(* state.                                                                  *)
(*                                                                         *)
(* Clock: two machines; starts two seconds before the end of a century,    *)
(* and a second before the noon before a leap day; the host clock moves by *)
(* forty days and a half, by more than a file may be old, or is set back;  *)
(* two cycles a second; the guest stops the timer, enters the 12-hour mode *)
(* and the test modes, clears the alarm, drops the fraction and writes its *)
(* SRAM.  A clock that turned noon in the 12-hour mode is saved, and read  *)
(* back after the midnight of another month.                               *)
(* Files: two images, a program of a flash, two refusals of the host and   *)
(* one death: enough for a reseed over a reseed, a failed commit with      *)
(* a failed flush behind it, a restore that a second device stops, and a   *)
(* death at every step of a save.                                          *)
(* Chip: the addresses of window 4000-5FFF reach the recovery area through *)
(* subslot 0 and the flash through the banks of subslot 1, and with bank   *)
(* F8 and offset 300 the recovery area again, past the end of the flash;   *)
(* one bit of three cells, two in one page and one in the recovery area.   *)
(***************************************************************************)
EXTENDS MegaFlashStore, RtcStore, MegaFlash, TLC

CONSTANTS m1, m2, r1, r2
VARIABLE device     \* "clock", "files" or "chip"

MCMachine == {m1, m2}
Evening(d) == [days |-> d, seconds |-> 86398]
\* 2079-12-31, and the noon of 1984-02-28
MCStart == {Evening(YearStart(99) + 364),
            [days |-> YearStart(4) + 58, seconds |-> 43199]}
MCHostSteps == {40 * 86400 + 43200, 70 * 86400, -86400}
MCFrameCycles == {3}
MCGuestWrites == {<<13, 2>>, <<13, 8>>, <<14, 5>>, <<15, 3>>, <<5, 1>>,
                  <<13, 9>>, <<10, 0>>}

\* Machines started at one in the afternoon; the guest selects bank 1 and
\* the 12-hour mode, then bank 2 and a nibble of its SRAM.
MCAfternoon == {[days |-> 0, seconds |-> 13 * 3600]}
MCHourWrites == {<<13, 9>>, <<10, 0>>, <<13, 10>>}

\* A configuration that cannot be written, and a start that cannot promote,
\* break the pairing of image and flash: see MCMegaFlashUnsaved.cfg.
MCRom == {r1, r2}
MCFailing == {"flush", "load", "restore", "promote"}

MCCell == {\h820, \h10820, \h10821}
MCBit == {0}
MCCommands == {\haa, \ha0, \h80, \h10, \h25, \h50, \h56, \h90}
MCBusWrites ==
    ({\h4aaa} \X MCCommands) \cup
    {<<\h4555, \h55>>, <<\h4555, \h29>>, <<\h40aa, \h98>>,
     <<\h4820, 0>>, <<\h4820, 1>>, <<\h4821, \h30>>, <<\h4820, \hf0>>,
     <<\h5000, \hf8>>, <<\h7ffe, 3>>, <<\h7ffc, 0>>, <<\h7ffc, 1>>, <<\hffff, \h55>>}

\* What the proofs about the store suppose, and what the chip does.
ASSUME KeptAssumption == StoreAssumption /\ NoLostSettings
ASSUME ChipAssumption == CellAssumption

\* The two machines are alike, and so are the two images.
Alike == Permutations(MCMachine) \cup Permutations(MCRom)

KeptInit == /\ device \in {"clock", "files", "chip"}
            /\ ClockInit /\ Init /\ FlashInit
            /\ device # "clock" => host = CHOOSE moment \in Start : TRUE
KeptNext ==
    /\ UNCHANGED device
    /\ \/ device = "clock" /\ ClockNext /\ UNCHANGED <<vars, flashvars>>
       \/ device = "files" /\ Next /\ UNCHANGED <<clockvars, flashvars>>
       \/ device = "chip" /\ FlashNext /\ UNCHANGED <<clockvars, vars>>
KeptSpec == KeptInit /\ [][KeptNext]_<<device, clockvars, vars, flashvars>>

\* The clock alone, and the chip alone.
JustTheClock == KeptSpec /\ device = "clock"
JustTheChip == KeptSpec /\ device = "chip"

\* No action reads "write": states that differ in it alone are one state, and
\* the properties look at each step to it.  Of the bytes of a multiple program
\* those of cells that are not followed leave no trace.
Traced(w) == IF w[1] \in MCCell THEN w ELSE <<w[1], 0>>
Trail ==
    [i \in DOMAIN trail |->
        IF stage \in {7, 8} \/ i > 4 THEN Traced(trail[i]) ELSE trail[i]]
KeptView == <<device, clockvars, vars, flash_registers, bank, scc_bank, sd_bank,
              stage, remaining, expected, [i \in DOMAIN buffer |-> Traced(buffer[i])],
              page, sector, read_mode, flash, Trail>>
===============================================================================
