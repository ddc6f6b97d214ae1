------------------------------ MODULE VdpMemory ------------------------------
(***************************************************************************)
(* The bitmap screens of a V9938 in its VRAM (vdp.c), scaled: eight bytes  *)
(* of four bits, where the chip has 128 K bytes of eight.  As on the chip, *)
(* a byte holds two, four, two or one pixels of the four bitmap modes, the *)
(* wide modes have twice the columns of the narrow ones, and the planar    *)
(* modes interleave two halves of the memory and have half the rows.       *)
(***************************************************************************)
EXTENDS Integers, FiniteSetsExt

VramSize == 8
TmsVramSize == 4
Bytes == 0..15
Rows == 4                        \* the 1024 of the command engine

\* What the engine knows of a mode; no other mode is one of these
\* (command_mode_info, planar_vram).
ModeInfo == [g4 |-> [width |-> 4, colours |-> 4,  ppb |-> 2, planar |-> FALSE],
             g5 |-> [width |-> 8, colours |-> 2,  ppb |-> 4, planar |-> FALSE],
             g6 |-> [width |-> 8, colours |-> 4,  ppb |-> 2, planar |-> TRUE],
             g7 |-> [width |-> 4, colours |-> 16, ppb |-> 1, planar |-> TRUE]]
BitmapModes == DOMAIN ModeInfo

\* Coordinates wrap around the screen (bitmap_address).
BitmapAddress(mode, x, y) ==
    LET bytes == (x % ModeInfo[mode].width) \div ModeInfo[mode].ppb IN
    IF ModeInfo[mode].planar
    THEN (bytes % 2) * 4 + (y % 2) * 2 + bytes \div 2
    ELSE (y % 4) * 2 + bytes

\* The weight of a pixel in its byte, the leftmost highest.
Weight(mode, x) ==
    ModeInfo[mode].colours ^ (ModeInfo[mode].ppb - 1 - (x % ModeInfo[mode].ppb))

BitmapPixel(vram, mode, x, y) ==
    (vram[BitmapAddress(mode, x, y)] \div Weight(mode, x))
        % ModeInfo[mode].colours

\* The bits of a colour, by their weight, and those that two colours share.
HasBit(colour, weight) == (colour \div weight) % 2 = 1
Common(a, b) == SumSet({w \in {1, 2, 4, 8} : HasBit(a, w) /\ HasBit(b, w)})

\* A logical operation: fn on the colours, and nothing for colour zero when
\* transparent (command_write_pixel).
Combined(old, colour, colours, fn) ==
    CASE fn = "imp" -> colour
      [] fn = "and" -> Common(old, colour)
      [] fn = "or"  -> old + colour - Common(old, colour)
      [] fn = "xor" -> old + colour - 2 * Common(old, colour)
      [] fn = "not" -> colours - 1 - colour
      [] OTHER      -> old

WithPixel(vram, mode, x, y, given, operation) ==
    LET colours == ModeInfo[mode].colours
        colour == given % colours
        old == BitmapPixel(vram, mode, x, y)
        new == IF operation.transparent /\ colour = 0
               THEN old
               ELSE Combined(old, colour, colours, operation.fn)
    IN  [vram EXCEPT ![BitmapAddress(mode, x, y)] =
             @ + (new - old) * Weight(mode, x)]
==============================================================================
