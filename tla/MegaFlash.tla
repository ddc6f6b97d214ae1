----------------------------- MODULE MegaFlash -----------------------------
(***************************************************************************)
(* The bus of a MegaFlashROM SCC+ SD (src/megaflash.c) as far as its flash *)
(* is concerned: subslots, mapper and configuration registers, the SCC     *)
(* window in front of the flash, and the command sequences of the          *)
(* M29W640GB, every write of which is also a write to a register.          *)
(*                                                                         *)
(* Of the 8 MiB only the cells in Cell are followed, and of a byte only    *)
(* the bits in Bit.                                                        *)
(*                                                                         *)
(* Bound: MaxCount, the largest count of a buffered program.               *)
(***************************************************************************)
EXTENDS Integers, Sequences

CONSTANTS
    Cell, Bit,
    BusWrites,          \* <<address, value>> of the guest
    MaxCount

FlashSize == 8192 * 1024
Address == 0..(64 * 1024 - 1)
Byte == 0..255

CellAssumption ==
    /\ Cell \subseteq 0..(FlashSize - 1) /\ Bit \subseteq 0..7
    /\ BusWrites \subseteq Address \X Byte /\ MaxCount \in 0..31

VARIABLES
    flash_registers,    \* secondary_slot, mapper, config, offset, scc_mode
    bank, scc_bank, sd_bank,
    stage, remaining, expected,     \* flash_command_stage and its counters
    buffer,             \* flash_buffer_address and _data, so far
    page, sector,
    read_mode,
    flash,
    trail,              \* history: the writes of the unfinished command
    write               \* history: the last write the chip listened to

command == <<stage, remaining, expected, buffer, page, sector>>
banks == <<bank, scc_bank, sd_bank>>
history == <<trail, write>>
flashvars == <<flash_registers, banks, command, read_mode, flash, history>>

Pages == 0..3
CartSpace == \h4000..\hbfff

Has(value, bit) == (value \div 2^bit) % 2 = 1
Bits(value) == {b \in Bit : Has(value, b)}
Floor(address, size) == address - (address % size)

flash_write_enabled(config) == Has(config, 0)
recovery_protected(config) == Has(config, 1)

unlock_address(address, first) ==
    (address \div 2) % 2048 = IF first THEN 1365 ELSE 682

sector_base(address) ==
    IF address < 65536 THEN Floor(address, 8192) ELSE Floor(address, 65536)

\* megaflash_reset.
ResetRegisters ==
    [secondary_slot |-> 0, mapper |-> 0, config |-> 3, offset |-> 0, scc_mode |-> 0]

NoWrite == <<>>

FlashInit ==
    /\ flash_registers = ResetRegisters
    /\ bank = [p \in Pages |-> p] /\ scc_bank = [p \in Pages |-> p]
    /\ sd_bank = [p \in Pages |-> IF p = 1 THEN 1 ELSE 0]
    /\ stage = 0 /\ remaining = 0 /\ expected = 0
    /\ buffer = <<>> /\ page = 0 /\ sector = 0 /\ read_mode = "read"
    /\ flash = [c \in Cell |-> Bit]
    /\ trail = <<>> /\ write = NoWrite

---------------------------------------------------------------------------
(* The chip.                                                               *)

\* What the configuration leaves writable.
Writable(config) ==
    IF recovery_protected(config) THEN {c \in Cell : c >= 16384} ELSE Cell

\* program_byte, for a sequence of <<address, value>>: bits are only cleared.
Programmed(config, writes) ==
    [c \in Cell |->
        IF c \in Writable(config)
        THEN {b \in flash[c] : \A i \in DOMAIN writes :
                                   writes[i][1] = c => b \in Bits(writes[i][2])}
        ELSE flash[c]]

Erased(config, cells) ==
    [c \in Cell |-> IF c \in cells \cap Writable(config) THEN Bit ELSE flash[c]]

InSector(base) == {c \in Cell : sector_base(c) = base}

Keep == UNCHANGED <<read_mode, flash>>
clear_flash_command ==
    /\ stage' = 0 /\ remaining' = 0 /\ expected' = 0
    /\ buffer' = <<>> /\ page' = 0 /\ sector' = 0
Stage(n) == stage' = n /\ UNCHANGED <<remaining, expected, buffer, page, sector>>
Proceed(ok, n) == Stage(IF ok THEN n ELSE 0) /\ Keep

Multiple(n, count) ==
    /\ stage' = n /\ remaining' = count /\ buffer' = <<>>
    /\ UNCHANGED <<expected, page, sector>>
First(address, value) ==
    LET unlocks == unlock_address(address, TRUE)
    IN  CASE (address \div 2) % 2048 = 85 /\ value = \h98 ->
                read_mode' = "cfi" /\ UNCHANGED <<command, flash>>
          [] unlocks /\ value = \h50 -> Multiple(7, 2) /\ Keep
          [] unlocks /\ value = \h56 -> Multiple(8, 4) /\ Keep
          [] unlocks /\ value = \haa -> Stage(1) /\ Keep
          [] OTHER -> UNCHANGED command /\ Keep

Third(address, value) ==
    LET unlocks == unlock_address(address, TRUE)
    IN  CASE value = \h25 ->
                /\ stage' = 9 /\ sector' = sector_base(address)
                /\ UNCHANGED <<remaining, expected, buffer, page>> /\ Keep
          [] unlocks /\ value = \h90 ->
                Stage(0) /\ read_mode' = "autoselect" /\ UNCHANGED flash
          [] unlocks /\ value = \ha0 -> Stage(6) /\ Keep
          [] unlocks /\ value = \h80 -> Stage(3) /\ Keep
          [] OTHER -> Stage(0) /\ Keep

Sixth(config, address, value) ==
    /\ Stage(0) /\ UNCHANGED read_mode
    /\ flash' = CASE value = \h30 -> Erased(config, InSector(sector_base(address)))
                  [] unlock_address(address, TRUE) /\ value = \h10 -> Erased(config, Cell)
                  [] OTHER -> flash

Single(config, address, value) ==
    /\ Stage(0) /\ UNCHANGED read_mode
    /\ flash' = Programmed(config, <<<<address, value>>>>)

\* Mutant: the page is not looked at.
MultiAnyPage(config, address, value) ==
    LET filled == Append(buffer, <<address, value>>)
    IN  /\ UNCHANGED read_mode
        /\ IF remaining > 1
           THEN /\ page' = Floor(address, 8) /\ buffer' = filled
                /\ remaining' = remaining - 1
                /\ UNCHANGED <<stage, expected, sector, flash>>
           ELSE clear_flash_command /\ flash' = Programmed(config, filled)

\* Double and quadruple programs: stages 7 and 8.
Multi(config, address, value) ==
    LET at == IF buffer = <<>> THEN Floor(address, 8) ELSE page
        filled == Append(buffer, <<address, value>>)
    IN  /\ UNCHANGED read_mode
        /\ CASE Floor(address, 8) # at -> clear_flash_command /\ UNCHANGED flash
             [] Floor(address, 8) = at /\ remaining > 1 ->
                  /\ page' = at /\ buffer' = filled /\ remaining' = remaining - 1
                  /\ UNCHANGED <<stage, expected, sector, flash>>
             [] OTHER ->
                  clear_flash_command /\ flash' = Programmed(config, filled)

\* Buffered program: the count, the data, the confirmation.
Count(address, value) ==
    /\ IF sector_base(address) # sector \/ value >= 32 THEN clear_flash_command
       ELSE /\ value <= MaxCount
            /\ expected' = value + 1 /\ buffer' = <<>> /\ stage' = 10
            /\ UNCHANGED <<remaining, page, sector>>
    /\ Keep

Fill(address, value) ==
    LET at == IF buffer = <<>> THEN Floor(address, 32) ELSE page
        filled == Append(buffer, <<address, value>>)
    IN  /\ IF Floor(address, 32) # at THEN clear_flash_command
           ELSE /\ page' = at /\ buffer' = filled
                /\ stage' = IF Len(filled) = expected THEN 11 ELSE 10
                /\ UNCHANGED <<remaining, expected, sector>>
        /\ Keep

Confirm(config, address, value) ==
    /\ clear_flash_command /\ UNCHANGED read_mode
    /\ flash' = IF value = \h29 /\ sector_base(address) = sector
                THEN Programmed(config, buffer) ELSE flash

Unheard == UNCHANGED <<command, trail>> /\ Keep /\ write' = NoWrite
Heard(address, value) ==
    /\ write' = <<address, value>>
    /\ trail' = IF stage' = 0 THEN <<>> ELSE Append(trail, <<address, value>>)

\* flash_write, after the configuration register took the value.
flash_write(config, address, value) ==
    IF ~flash_write_enabled(config) THEN Unheard
    ELSE IF value = \hf0 THEN
        /\ clear_flash_command /\ read_mode' = "read" /\ UNCHANGED flash
        /\ Heard(address, value)
    ELSE IF read_mode # "read" THEN Unheard
    ELSE
        /\ CASE stage = 0 -> First(address, value)
             [] stage = 1 -> Proceed(unlock_address(address, FALSE) /\ value = \h55, 2)
             [] stage = 2 -> Third(address, value)
             [] stage = 3 -> Proceed(unlock_address(address, TRUE) /\ value = \haa, 4)
             [] stage = 4 -> Proceed(unlock_address(address, FALSE) /\ value = \h55, 5)
             [] stage = 5 -> Sixth(config, address, value)
             [] stage = 6 -> Single(config, address, value)
             [] stage \in {7, 8} -> Multi(config, address, value)
             [] stage = 9 -> Count(address, value)
             [] stage = 10 -> Fill(address, value)
             [] stage = 11 -> Confirm(config, address, value)
        /\ Heard(address, value)

---------------------------------------------------------------------------
(* The cartridge.                                                          *)

Expanded == ~Has(flash_registers.config, 2)

megaflash_selected_subslot(address) ==
    IF ~Expanded THEN 1
    ELSE (flash_registers.secondary_slot \div 4^(address \div 16384)) % 4

NoAddress == -1

subslot1_flash_address(address) ==
    LET linear == flash_registers.mapper \div 64 = 1
        p == IF linear THEN address \div 16384 ELSE address \div 8192 - 2
        size == IF linear THEN 16384 ELSE 8192
        remap == Has(flash_registers.config, 4)
        b == CASE remap /\ p = 0 /\ bank[0] = 0 -> 1018
               [] remap /\ p = 1 /\ bank[1] = 1 -> 1019
               [] OTHER -> bank[p] + flash_registers.offset
    IN  IF ~linear /\ address \notin CartSpace THEN NoAddress
        ELSE (b * size + (address % size) + 65536) % FlashSize

subslot3_flash_address(address) ==
    7168 * 1024 + (sd_bank[address \div 8192 - 2] % 128) * 8192 + (address % 8192)

scc_enable(scc_mode) ==
    IF Has(scc_mode, 5) /\ scc_bank[3] >= 128 THEN 2
    ELSE IF ~Has(scc_mode, 5) /\ scc_bank[2] % 64 = 63 THEN 1 ELSE 0

\* The configuration registers take the value under their own locks.
Configured(address, value) ==
    LET r == flash_registers
        sccMapper(mapper) == mapper \div 32 = 0
        mapper == IF ~Has(r.mapper, 2) /\ address = \h7fff THEN value ELSE r.mapper
        free == ~Has(mapper, 1)
    IN  [secondary_slot |-> r.secondary_slot,
         mapper |-> mapper,
         config |-> IF ~Has(r.config, 7) /\ address = \h7ffc THEN value ELSE r.config,
         offset |-> CASE free /\ address = \h7ffd -> Floor(r.offset, 256) + value
                      [] free /\ address = \h7ffe -> (r.offset % 256) + 256 * (value % 4)
                      [] OTHER -> r.offset,
         scc_mode |-> IF sccMapper(mapper) /\ address \in {\hbffe, \hbfff}
                      THEN value ELSE r.scc_mode]

\* The write goes to the sound chip and no further.
ToScc(r, address) ==
    LET enable == scc_enable(r.scc_mode)
        ram2 == (Has(r.scc_mode, 5) /\ Has(r.scc_mode, 2)) \/ Has(r.scc_mode, 4)
    IN  /\ r.mapper \div 32 = 0
        /\ \/ enable = 1 /\ ~ram2 /\ address \in \h9800..\h9fff
           \/ enable = 2 /\ ~Has(r.scc_mode, 4) /\ address \in \hb800..\hbfff

\* write_bank_registers: the new banks.
Banked(mapper, address, value) ==
    LET p == address \div 8192 - 2
        kind == mapper \div 32
        small == Has(mapper, 0)
        In(low, high) == address >= low /\ address < high
        double == (2 * value) % 512
    IN  IF Has(mapper, 1) \/ p \notin Pages THEN bank
        ELSE CASE kind = 0 /\ (address \div 2048) % 4 = 2 ->
                    [bank EXCEPT ![p] = IF small THEN value % 64 ELSE value]
               [] kind = 1 /\ ~(Has(mapper, 3) /\ address < \h6000)
                  /\ address >= \h5000 /\ ~In(\h5800, \h6000) ->
                    [bank EXCEPT ![p] = IF small THEN value % 32 ELSE value]
               [] kind \in {2, 3} -> [bank EXCEPT ![p] = value]
               [] kind \in {4, 5} /\ In(\h6000, \h8000) ->
                    [bank EXCEPT ![(address \div 2048) % 4] = value]
               [] kind \in {6, 7} /\ In(\h6000, \h6800) ->
                    [bank EXCEPT ![0] = double, ![1] = (2 * value + 1) % 512]
               [] kind \in {6, 7} /\ In(\h7000, \h7800) ->
                    [bank EXCEPT ![2] = double, ![3] = (2 * value + 1) % 512]
               [] OTHER -> bank

SccBanked(mapper, address, value) ==
    LET p == address \div 8192 - 2
    IN  IF ~Has(mapper, 1) /\ p \in Pages /\ mapper \div 32 = 0
           /\ (address \div 2048) % 4 = 2
        THEN [scc_bank EXCEPT ![p] = value] ELSE scc_bank

\* The flash address is the one before the registers changed.
write_subslot1(address, value) ==
    LET r == Configured(address, value)
        target == subslot1_flash_address(address)
    IN  /\ flash_registers' = r /\ UNCHANGED sd_bank
        /\ IF ToScc(r, address) THEN UNCHANGED <<bank, scc_bank>> /\ Unheard
           ELSE /\ bank' = Banked(r.mapper, address, value)
                /\ scc_bank' = SccBanked(r.mapper, address, value)
                /\ IF target = NoAddress THEN Unheard
                   ELSE flash_write(r.config, target, value)

\* The window of the SD cards takes the write from the flash.
write_subslot3(address, value) ==
    /\ UNCHANGED <<flash_registers, bank, scc_bank>>
    /\ IF sd_bank[0] \div 64 = 1 /\ address \in \h4000..\h5fff
       THEN UNCHANGED sd_bank /\ Unheard
       ELSE /\ sd_bank' = IF address \in \h6000..\h7fff
                          THEN [sd_bank EXCEPT ![(address \div 2048) % 4] = value]
                          ELSE sd_bank
            /\ IF address \in CartSpace
               THEN flash_write(flash_registers.config, subslot3_flash_address(address), value)
               ELSE Unheard

megaflash_secondary_write(value) ==
    /\ flash_registers' = [flash_registers EXCEPT !.secondary_slot = value]
    /\ UNCHANGED banks /\ Unheard

megaflash_write(address, value) ==
    LET subslot == megaflash_selected_subslot(address)
    IN  IF Expanded /\ address = \hffff THEN megaflash_secondary_write(value)
        ELSE CASE subslot = 0 ->
                    /\ flash_write(flash_registers.config, address % 16384, value)
                    /\ UNCHANGED <<flash_registers, banks>>
               [] subslot = 1 -> write_subslot1(address, value)
               [] subslot = 2 -> UNCHANGED <<flash_registers, banks>> /\ Unheard
               [] subslot = 3 -> write_subslot3(address, value)

\* A reset of the machine leaves the flash.
megaflash_reset ==
    /\ flash_registers' = ResetRegisters
    /\ bank' = [p \in Pages |-> p] /\ scc_bank' = [p \in Pages |-> p]
    /\ sd_bank' = [p \in Pages |-> IF p = 1 THEN 1 ELSE 0]
    /\ clear_flash_command /\ read_mode' = "read"
    /\ trail' = <<>> /\ write' = NoWrite
    /\ UNCHANGED flash

BusWrite == \E w \in BusWrites : megaflash_write(w[1], w[2])
FlashNext == BusWrite \/ megaflash_reset

FlashSpec == FlashInit /\ [][FlashNext]_flashvars

---------------------------------------------------------------------------
(* The commands, from the sequences a guest's programmer writes: each with *)
(* the unlock cycles at word addresses 555 and 2AA (TECHNICAL.md).         *)

Is(w, offsets, value) == w[1] % 4096 \in offsets /\ w[2] = value
At555 == {\haaa, \haab}
At2AA == {\h554, \h555}
Unlocked(s, i) == Is(s[i], At555, \haa) /\ Is(s[i + 1], At2AA, \h55)
Together(s, size) == \A i, j \in DOMAIN s : Floor(s[i][1], size) = Floor(s[j][1], size)
Prefixed(s, n, value) == Len(s) = n /\ Unlocked(s, 1) /\ Is(s[3], At555, value)

SingleProgram(s) == Prefixed(s, 4, \ha0)
ShortProgram(s, n, value) ==
    Len(s) = n + 1 /\ Is(s[1], At555, value) /\ Together(Tail(s), 8)
BufferedProgram(s) ==
    /\ Len(s) >= 6 /\ Unlocked(s, 1) /\ s[3][2] = \h25 /\ s[4][2] = Len(s) - 6
    /\ s[Len(s)][2] = \h29 /\ Together(SubSeq(s, 5, Len(s) - 1), 32)
    /\ \A i \in {4, Len(s)} : sector_base(s[i][1]) = sector_base(s[3][1])
ErasePrefix(s) == Prefixed(s, 6, \h80) /\ Unlocked(s, 4)
SectorErase(s) == ErasePrefix(s) /\ s[6][2] = \h30
ChipErase(s) == ErasePrefix(s) /\ Is(s[6], At555, \h10)

\* What the sequence "s" programs, and what it erases.
Data(s) ==
    CASE SingleProgram(s) -> <<s[4]>>
      [] ShortProgram(s, 2, \h50) \/ ShortProgram(s, 4, \h56) -> Tail(s)
      [] BufferedProgram(s) -> SubSeq(s, 5, Len(s) - 1)
      [] OTHER -> <<>>
Blanked(s) ==
    CASE SectorErase(s) -> InSector(sector_base(s[6][1]))
      [] ChipErase(s) -> Cell
      [] OTHER -> {}

Recovery(config, c) == recovery_protected(config) /\ c < 16384
Outcome(config, data, blank, c) ==
    IF Recovery(config, c) THEN flash[c]
    ELSE IF c \in blank THEN Bit
    ELSE {b \in flash[c] : \A i \in DOMAIN data :
                               data[i][1] = c => b \in Bits(data[i][2])}

CommandsAre(allowed(_)) ==
    IF write' = NoWrite THEN flash' = flash
    ELSE LET s == Append(trail, write')
             data == Data(s)
             blank == Blanked(s)
         IN  allowed(s) => \A c \in Cell : 
             flash'[c] = Outcome(flash_registers'.config, data, blank, c)

---------------------------------------------------------------------------
(* Properties.                                                             *)

\* Whatever the guest writes through banks and registers, a cell changes
\* only by a complete command, and every complete command has its whole
\* effect and no other; without a command, or over a reset, it keeps its
\* contents.  The locks of the configuration register hold: no change without
\* the enable bit, and none of the recovery area while that is protected
\* (flash_write, megaflash_reset, program_byte, erase_sector).  Data of F0
\* apart: see AllDataPrograms.
HasNoF0(s) == \A i \in DOMAIN s : s[i][2] # \hf0
LocksHold ==
    LET config == flash_registers'.config
    IN  /\ ~flash_write_enabled(config) => flash' = flash
        /\ \A c \in Cell : Recovery(config, c) => flash'[c] = flash[c]
CommandsWork == [][CommandsAre(HasNoF0) /\ LocksHold]_flashvars

\* Any byte can be programmed, F0 too (TECHNICAL.md: programming and erase
\* "preserve the real command sequences").
AllData(s) == TRUE
AllDataPrograms == [][CommandsAre(AllData)]_flashvars
=============================================================================
