--------------------------------- MODULE Vdp ---------------------------------
(***************************************************************************)
(* The V9938 and the TMS9918 (vdp.c) in a machine that steps through       *)
(* instructions and frames (msx.c, msx_run_frame): the four ports with     *)
(* their latches, the processor's single pending VRAM access, the command  *)
(* engine that takes a VRAM slot when it gets one, the interrupt line, the *)
(* sprite status, and the picture, drawn line by line when the beam has    *)
(* passed.                                                                 *)
(*                                                                         *)
(* Scaled: a line has four ticks and a frame five lines; one cycle of the  *)
(* processor is one tick; VdpMemory scales the VRAM.  Register pairs of a  *)
(* coordinate are one register.  A value written to a port is a number, or *)
(* a record of the fields that the register has.                           *)
(***************************************************************************)
EXTENDS VdpMemory, Sequences, FiniteSets, Functions

CONSTANT VdpGuests    \* a chip, what it was set to, a program, and how long
                      \* an instruction of it may take

VARIABLES vdp,        \* the MsxVdp
          vdp_pc,     \* "cpu", "engine": in vdp_advance, "frame": at its end
          cycles,     \* of the instruction that vdp_advance is called for
          ticks,      \* not yet passed in vram_engine_advance
          balance,    \* cycle_balance of the frame
          vdp_program,  \* what the guest has still to do
          pace        \* how long an instruction of it may take
machine == <<vdp, vdp_pc, cycles, ticks, balance, vdp_program, pace>>

---------------------------------------------------------------------------
(* Registers: those that are modelled, and the values of each by what it   *)
(* holds.                                                                  *)

Codes == {"STOP", "POINT", "PSET", "SRCH", "LINE", "LMMV", "LMMM", "LMCM", "LMMC",
          "HMMV", "HMMM", "YMMM", "HMMC"}
RegisterNumbers == {0, 1, 2, 7, 8, 9, 23, 32, 34, 36, 38, 40, 42, 44, 45, 46} \cup 14..19
RegisterValues(reg) ==
    CASE reg = 0  -> [ie1 : BOOLEAN, mode : STRING]
      [] reg = 1  -> [bl : BOOLEAN, ie0 : BOOLEAN, m1 : BOOLEAN]
      [] reg = 8  -> [tp : BOOLEAN, spd : BOOLEAN]
      [] reg = 9  -> [ln : BOOLEAN]
      [] reg = 17 -> [reg : Nat, hold : BOOLEAN]
      [] reg = 45 -> SUBSET STRING
      [] reg = 46 -> [code : {"STOP"}] \cup
                     [code : Codes, operation : [fn : STRING, transparent : BOOLEAN]]
      [] OTHER    -> Nat

\* What the proofs suppose of a guest: its registers, program and pace.
VdpAssumption ==
    \A guest \in VdpGuests :
        /\ guest.registers = [reg \in RegisterNumbers |-> guest.registers[reg]]
        /\ \A reg \in RegisterNumbers : guest.registers[reg] \in RegisterValues(reg)
        /\ guest.program \in Seq(Range(guest.program))
        /\ guest.pace \subseteq Nat \ {0}

---------------------------------------------------------------------------
(* Geometry.                                                               *)

TicksPerLine == 4
Scanlines == 5
FrameTicks == TicksPerLine * Scanlines
LineCounter == 4                 \* R#19 and R#23 count modulo 256
Columns == 4                     \* of the picture and the sprites
Palette == 0..3

V99x8(v) == v.type = "v9938"
DisplayMode(v) == IF v.r[1].m1 THEN "text" ELSE v.r[0].mode
Bitmap(v) == DisplayMode(v) \in BitmapModes
Planar(v) == V99x8(v) /\ DisplayMode(v) \in {"g6", "g7"}

LineZero(v) == 1 + (IF v.r[9].ln THEN 0 ELSE 1) + v.r[18]
RightBorder(v) == IF v.r[1].m1 THEN 3 ELSE 2
VisibleLines(v) == IF v.r[9].ln THEN 3 ELSE 2

\* The tick in the frame at which the counter meets R#19: at the right
\* border of the line, in the next frame's top border when it is that late,
\* and never when the counter starts again before (v9938_hscan_tick).
HscanTick(v) ==
    LET match == LineZero(v) * TicksPerLine
                 + ((v.r[19] - v.r[23]) % LineCounter) * TicksPerLine
                 + RightBorder(v)
    IN  IF match < FrameTicks THEN {match}
        ELSE {t \in {match - FrameTicks} : t < (1 + v.r[18]) * TicksPerLine}

UpdateIrq(v) ==
    [v EXCEPT !.irq = \/ v.f /\ v.r[1].ie0
                      \/ V99x8(v) /\ v.fh /\ v.r[0].ie1]

---------------------------------------------------------------------------
(* Sprites: at most PerLine of them on a line, the first in the table      *)
(* first.  The table is fixed; where it lies in VRAM is left out.          *)

PerLine(v) == IF DisplayMode(v) \in {"g1"} THEN 1 ELSE 2
SpriteHeight == 2
OpaqueZero(v) == V99x8(v) /\ v.r[8].tp

SpriteMode(v) == IF DisplayMode(v) = "g1" THEN 1
                 ELSE IF Bitmap(v) /\ V99x8(v) THEN 2 ELSE 0

\* The sprites that reach line y.
OnLine(v, y) ==
    LET line == (y + (IF V99x8(v) THEN v.r[23] ELSE 0)) % LineCounter
    IN  {n \in DOMAIN v.sprites :
            (line - (v.sprites[n].y + 1)) % LineCounter < SpriteHeight}
Position(v, y, n) == Cardinality({m \in OnLine(v, y) : m < n})
Visible(v, y) == {n \in OnLine(v, y) : Position(v, y, n) < PerLine(v)}
Surplus(v, y) == OnLine(v, y) \ Visible(v, y)

\* A sprite's dots on the screen, and those that can collide.
Dots(v, n) == {x \in 0..(Columns - 1) : x - v.sprites[n].x \in v.sprites[n].dots}
Solid(v, n) == /\ SpriteMode(v) = 2 => ~v.sprites[n].cc
               /\ V99x8(v) => v.sprites[n].colour # 0 \/ OpaqueZero(v)
Hits(v, y) == {x \in 0..(Columns - 1) :
                  Cardinality({n \in Visible(v, y) : Solid(v, n) /\ x \in Dots(v, n)}) > 1}

\* The sprites with a dot at x, those that stand there alone, in mode 1 all
\* that have a colour, and in mode 2 those combined with one of them.
There(v, y, x) == {n \in Visible(v, y) : x \in Dots(v, n)}
Alone(v, y, x) == {n \in There(v, y, x) :
                      /\ v.sprites[n].colour # 0 \/ OpaqueZero(v)
                      /\ SpriteMode(v) = 2 => ~v.sprites[n].cc}
Joined(v, y, x, n) == {m \in There(v, y, x) :
                          /\ SpriteMode(v) = 2 /\ m > n
                          /\ \A k \in Visible(v, y) : n < k /\ k <= m => v.sprites[k].cc}

\* The colour of a sprite at x, if one is drawn there: of the first that
\* stands alone, with the bits of those combined with it.
SpriteColours(v, y, x) ==
    LET n == Min(Alone(v, y, x))
        together == {n} \cup Joined(v, y, x, n)
    IN  IF Alone(v, y, x) = {} THEN {}
        ELSE {SumSet({bit \in {1, 2, 4, 8} :
                         \E m \in together : HasBit(v.sprites[m].colour, bit)})}

\* Mutant: a later line of the frame replaces the latched sprite.
UpdateSpriteStatusAnew(v, surplus, last, collision) ==
    [v EXCEPT !.s5 = @ \/ (surplus # {} /\ ~v.f),
              !.fifth = IF surplus = {} THEN last ELSE Min(surplus),
              !.c = @ \/ collision]

\* The status bits after some lines' sprites: the surplus sprite is latched
\* only while F and 5S are clear (update_sprite_status).
UpdateSpriteStatus(v, surplus, last, collision) ==
    [v EXCEPT !.s5 = @ \/ (surplus # {} /\ ~v.f),
              !.fifth = IF v.s5 THEN @
                        ELSE IF surplus = {} THEN last
                        ELSE IF v.f THEN @ ELSE Min(surplus),
              !.c = @ \/ collision]

\* The first collision keeps its place (latch_sprite_collision).
LatchCollision(v, lines) ==
    LET y == Min(lines)
    IN  IF lines = {} \/ v.c THEN v
        ELSE [v EXCEPT !.collision = <<Min(Hits(v, y)), y>>]

\* The sprites of the lines from first to limit - 1.
RenderSprites(v, first, limit) ==
    LET lines == first..(limit - 1)
        over == {y \in lines : Surplus(v, y) # {}}
        surplus == IF over = {} THEN {} ELSE Surplus(v, Min(over))
        hit == {y \in lines : Hits(v, y) # {}}
    IN  IF SpriteMode(v) = 0 \/ (V99x8(v) /\ v.r[8].spd) THEN v
        ELSE UpdateSpriteStatus(LatchCollision(v, hit), surplus,
                                Len(v.sprites) + 1, hit # {})

---------------------------------------------------------------------------
(* The picture.                                                            *)

ConfigureGeometry(v) ==
    LET wide == V99x8(v) /\ DisplayMode(v) \in {"g5", "g6"}
        tall == V99x8(v) /\ Bitmap(v) /\ v.r[9].ln
    IN  [v EXCEPT !.width = IF wide THEN 2 * Columns ELSE Columns,
                  !.height = IF tall THEN 3 ELSE 2]

\* Colour zero shows the backdrop unless it is opaque (visible_colour).
VisibleColour(v, colour) ==
    v.palette[IF colour = 0 /\ ~OpaqueZero(v) THEN v.r[7] ELSE colour % 4]

\* A line of a bitmap mode, scrolled by R#23, in the page of R#2.
BitmapDot(v, y, x) ==
    LET colour == BitmapPixel(v.vram, DisplayMode(v), x,
                              v.r[2] * 2 + ((y + v.r[23]) % LineCounter))
    IN  IF DisplayMode(v) = "g7" THEN <<"fixed", colour>>
        ELSE <<"palette", VisibleColour(v, colour)>>

\* The other modes show what their tables hold, in the colours of now.
TableDot(v) == <<DisplayMode(v), v.vram, v.palette, v.r[7]>>

Border(v) == <<"palette", v.palette[v.r[7]]>>
\* A sprite's dot: mode 7 has colours of its own for it.
SpriteDot(v, c) == IF DisplayMode(v) = "g7" THEN <<"fixed sprite", c>>
                   ELSE <<"palette", v.palette[c]>>
LineOf(v, y) ==
    [x \in 0..(v.width - 1) |->
        LET sprite == IF SpriteMode(v) = 0 \/ (V99x8(v) /\ v.r[8].spd) THEN {}
                      ELSE SpriteColours(v, y, (x * Columns) \div v.width)
        IN  IF ~v.r[1].bl THEN Border(v)
            ELSE IF sprite # {}
                 THEN SpriteDot(v, CHOOSE c \in sprite : TRUE)
            ELSE IF V99x8(v) /\ Bitmap(v) THEN BitmapDot(v, y, x)
            ELSE TableDot(v)]

\* Lines are drawn once, in order, as the chip stands now (render_to_line,
\* render_line_range).
RenderToLine(v, wanted) ==
    LET limit == IF wanted > v.height THEN v.height ELSE wanted
        drawn == [v EXCEPT !.rendered = limit,
                           !.pixels = [y \in 0..2 |->
                               IF y \in v.rendered..(limit - 1)
                               THEN LineOf(v, y) ELSE @[y]]]
    IN  IF limit <= v.rendered THEN v
        ELSE IF ~v.r[1].bl THEN drawn
        ELSE RenderSprites(drawn, v.rendered, limit)

\* Lines whose right border the beam has passed.
Completed(v) ==
    LET line == v.beam \div TicksPerLine
    IN  IF line < v.line_zero THEN 0
        ELSE line - v.line_zero
             + (IF v.beam % TicksPerLine >= RightBorder(v) THEN 1 ELSE 0)
FlushCompleted(v) == IF V99x8(v) THEN RenderToLine(v, Completed(v)) ELSE v

RenderAll(v) ==
    LET w == ConfigureGeometry(v) IN RenderToLine([w EXCEPT !.rendered = 0], w.height)

---------------------------------------------------------------------------
(* VRAM slots.                                                             *)

\* The ticks of a line at which the VRAM is free, fewer while the screen is
\* drawn, fewest with sprites.
FreeSlots(v) == IF ~v.r[1].bl \/ v.vr THEN {0, 1, 3}
                ELSE IF v.r[1].m1 THEN {0, 2}
                ELSE IF Bitmap(v) /\ v.r[8].spd THEN {0, 2, 3}
                ELSE {1, 3}

\* The time to the first free slot that is at least `minimum' away.
VramAccessDelay(v, minimum) ==
    Min({d \in minimum..(minimum + TicksPerLine) :
            (v.beam + d) % TicksPerLine \in FreeSlots(v)})
AtLeastOne(n) == IF n = 0 THEN 1 ELSE n

ScheduleEvent(v, event, minimum) ==
    [v EXCEPT !.event = event,
              !.event_ticks = AtLeastOne(VramAccessDelay(v, minimum))]

---------------------------------------------------------------------------
(* The processor's access to VRAM through the data port.                   *)

CpuVramAddress(v) ==
    LET linear == v.address + (IF V99x8(v) THEN v.r[14] * 4 ELSE 0)
    IN  IF Planar(v) THEN (linear % 2) * 4 + linear \div 2
        ELSE linear % (IF V99x8(v) THEN VramSize ELSE TmsVramSize)

\* The pointer carries into R#14, in the modes of the V9938 only.
IncrementVramPointer(v) ==
    [v EXCEPT !.address = (@ + 1) % 4,
              !.r[14] = IF v.address = 3 /\ V99x8(v) /\ Bitmap(v)
                        THEN (@ + 1) % 2 ELSE @]

\* Mutant: the lines the beam has passed are not drawn first.
ExecuteCpuVramAccessUnseen(v) ==
    LET a == CpuVramAddress(v)
        done == IF v.cpu_read THEN [v EXCEPT !.read_buffer = v.vram[a]]
                ELSE [v EXCEPT !.vram[a] = v.read_buffer]
    IN  [IncrementVramPointer(done) EXCEPT !.cpu_pending = FALSE, !.cpu_ticks = 0]

ExecuteCpuVramAccess(v) ==
    LET a == CpuVramAddress(v)
        w == FlushCompleted(v)
        done == IF v.cpu_read THEN [v EXCEPT !.read_buffer = v.vram[a]]
                ELSE [w EXCEPT !.vram[a] = v.read_buffer]
    IN  [IncrementVramPointer(done) EXCEPT !.cpu_pending = FALSE, !.cpu_ticks = 0]

\* At once on the TMS9918; on the V9938 at the next slot, and a request
\* that is still waiting is replaced but keeps its slot.
ScheduleCpuVramAccess(v, read, value) ==
    LET w == [v EXCEPT !.read_buffer = IF read THEN @ ELSE value,
                       !.cpu_read = read]
    IN  IF ~V99x8(v) THEN ExecuteCpuVramAccess([w EXCEPT !.cpu_pending = TRUE])
        ELSE IF v.cpu_pending THEN w
        ELSE [w EXCEPT !.cpu_pending = TRUE,
                       !.cpu_ticks = AtLeastOne(VramAccessDelay(w, 1))]

---------------------------------------------------------------------------
(* The command engine.                                                     *)

Flag(v, flag) == flag \in v.argument
Info(v) == ModeInfo[v.mode]
MovesBytes(code) == code \in {"HMMV", "HMMM", "YMMM", "HMMC"}
MovesSource(code) == code \in {"LMMM", "HMMM", "YMMM"}
TakesBytes(code) == code \in {"LMMC", "HMMC"}

CommandComplete(v) ==
    [v EXCEPT !.tr = FALSE, !.ce = FALSE, !.r[46] = [code |-> "STOP"],
              !.code = "STOP", !.event = "none", !.event_ticks = 0]

LeastOf(a, b) == IF a < b THEN a ELSE b
ClipX1(x, count, mode, reverse, bytes) ==
    LET unit == IF bytes THEN ModeInfo[mode].ppb ELSE 1
        units == ModeInfo[mode].width \div unit
        position == x \div unit
        n == IF count \div unit = 0 THEN units ELSE count \div unit
    IN  IF position >= units THEN 1
        ELSE LeastOf(n, IF reverse THEN position + 1 ELSE units - position)
ClipX2(sx, dx, count, mode, reverse, bytes) ==
    LET unit == IF bytes THEN ModeInfo[mode].ppb ELSE 1
        units == ModeInfo[mode].width \div unit
        source == sx \div unit
        destination == dx \div unit
        n == IF count \div unit = 0 THEN units ELSE count \div unit
    IN  IF source >= units \/ destination >= units THEN 1
        ELSE LeastOf(n, IF reverse THEN LeastOf(source, destination) + 1
                        ELSE units - (IF source > destination THEN source
                                      ELSE destination))
ClipY1(y, count, reverse) ==
    LET n == IF count = 0 THEN Rows ELSE count
    IN  IF reverse /\ n > y + 1 THEN y + 1 ELSE n
ClipY2(sy, dy, count, reverse) ==
    LET n == IF count = 0 THEN Rows ELSE count
    IN  IF ~reverse THEN n ELSE LeastOf(n, LeastOf(sy, dy) + 1)

\* The counters of a block or a transfer move to the next cell; the second
\* value tells whether there is one, the third whether it is in a new row
\* (command_advance_block, command_advance_transfer).
AdvanceBlock(v) ==
    LET xs == (IF Flag(v, "left") THEN -1 ELSE 1)
              * (IF MovesBytes(v.code) THEN Info(v).ppb ELSE 1)
        ys == IF Flag(v, "up") THEN -1 ELSE 1
        source == MovesSource(v.code)
    IN  IF v.left_x > 1
        THEN <<[v EXCEPT !.left_x = @ - 1, !.x = @ + xs,
                         !.source_x = IF source THEN @ + xs ELSE @],
               TRUE, FALSE>>
        ELSE IF v.left_y = 1
        THEN <<[v EXCEPT !.left_x = 0, !.left_y = 0], FALSE, FALSE>>
        ELSE <<[v EXCEPT !.left_x = v.row_length, !.left_y = @ - 1,
                         !.x = v.origin_x, !.y = @ + ys,
                         !.source_x = IF source THEN v.source_origin_x ELSE @,
                         !.source_y = IF source THEN @ + ys ELSE @],
               TRUE, TRUE>>

\* The least time of a step, and of the first step of a new row.
BlockTicks(code, new_row) ==
    CASE code = "LMMV" -> IF new_row THEN 3 ELSE 2
      [] code = "LMMM" -> IF new_row THEN 4 ELSE 3
      [] code = "HMMV" -> IF new_row THEN 2 ELSE 1
      [] code = "HMMM" -> IF new_row THEN 3 ELSE 2
      [] OTHER -> 1
TransferTicks(code) == IF code = "LMMC" THEN 2 ELSE 1

\* The colour or the byte at the source, and what becomes of the VRAM.
SourceColour(v, x, y) ==
    IF Flag(v, "from_expansion") THEN 15
    ELSE BitmapPixel(v.vram, v.mode, x, y)
SourceByte(v) == IF v.code = "HMMM" /\ Flag(v, "from_expansion") THEN 15
                 ELSE v.vram[BitmapAddress(v.mode, v.source_x, v.source_y)]
WritePixel(v, colour, operation) ==
    IF Flag(v, "to_expansion") THEN v
    ELSE [v EXCEPT !.vram = WithPixel(v.vram, v.mode, v.x, v.y, colour, operation)]
WriteByte(v, byte) ==
    IF Flag(v, "to_expansion") THEN v
    ELSE [v EXCEPT !.vram[BitmapAddress(v.mode, v.x, v.y)] = byte]

\* What a look shows goes to S#7, and to R#44.
ShowColour(v, colour) == [v EXCEPT !.status7 = colour, !.r[44] = colour]
LoadColour(v) == ShowColour(v, SourceColour(v, v.x, v.y))

\* After a cell of a block: the next one, or the end.
NextCell(v) ==
    LET next == AdvanceBlock(v)
    IN  IF next[2] THEN ScheduleEvent(next[1], "step", BlockTicks(v.code, next[3]))
        ELSE CommandComplete(next[1])

\* A whole byte is moved; only HMMM can take it from the expansion.
CopyByte(v) == NextCell(WriteByte(v, SourceByte(v)))

\* A pixel of a line, and the step to the next (command_execute_line_step).
LineStep(v) ==
    LET w == WritePixel(v, v.colour, v.operation)
        xs == IF Flag(v, "left") THEN -1 ELSE 1
        ys == IF Flag(v, "up") THEN -1 ELSE 1
        tall == Flag(v, "tall")
        minor == v.line_error < v.line_minor
        x_moves == ~tall \/ minor
        y_moves == tall \/ minor
        error == (v.line_error + (IF minor THEN v.line_major ELSE 0)
                  - v.line_minor) % 8
        moved == [w EXCEPT !.left_x = @ - 1,
                           !.x = IF x_moves THEN @ + xs ELSE @,
                           !.y = IF y_moves THEN @ + ys ELSE @,
                           !.line_error = error]
    IN  IF \/ v.left_x = 1
           \/ x_moves /\ xs < 0 /\ v.x = 0
           \/ y_moves /\ ys < 0 /\ v.y = 0
           \/ moved.x >= Info(v).width
        THEN CommandComplete(w)
        ELSE ScheduleEvent(moved, "step", IF minor THEN 3 ELSE 2)

SearchStep(v) ==
    LET x == v.x + (IF Flag(v, "left") THEN -1 ELSE 1)
        met == (SourceColour(v, v.x, v.y) = v.colour) # Flag(v, "unequal")
    IN  IF met THEN CommandComplete([v EXCEPT !.bd = TRUE, !.border_x = v.x])
        ELSE IF v.left_y # 0 \/ x < 0 \/ x >= Info(v).width
        THEN CommandComplete([v EXCEPT !.border_x = x])
        ELSE ScheduleEvent([v EXCEPT !.x = x], "step", 2)

ExecuteStep(v) ==
    CASE v.code = "POINT" ->
             CommandComplete(ShowColour(v, SourceColour(v, v.source_x, v.source_y)))
      [] v.code = "PSET" -> CommandComplete(WritePixel(v, v.colour, v.operation))
      [] v.code = "SRCH" -> SearchStep(v)
      [] v.code = "LINE" -> LineStep(v)
      [] v.code = "LMMV" -> NextCell(WritePixel(v, v.colour, v.operation))
      [] v.code = "LMMM" ->
             NextCell(WritePixel(v, SourceColour(v, v.source_x, v.source_y),
                                 v.operation))
      [] v.code = "HMMV" -> NextCell(WriteByte(v, v.colour))
      [] v.code \in {"HMMM", "YMMM"} -> CopyByte(v)
      [] OTHER -> CommandComplete(v)

\* Mutant: no event ends the last transfer.
AfterTransferOpenEnded(v) ==
    LET next == AdvanceBlock(v)
        w == [next[1] EXCEPT !.tr = FALSE]
    IN  IF next[2] THEN ScheduleEvent(w, "ready", TransferTicks(v.code)) ELSE w

\* The transfer goes on after a byte was moved, or ends, both in time.
AfterTransfer(v) ==
    LET next == AdvanceBlock(v)
    IN  ScheduleEvent([next[1] EXCEPT !.tr = FALSE],
                      IF next[2] THEN "ready" ELSE "complete", TransferTicks(v.code))

\* R#44 was written: the byte waits until a command wants it.
TransferWrite(v) ==
    LET w == [v EXCEPT !.transfer_pending = FALSE]
    IN  IF ~v.ce \/ ~v.tr \/ ~TakesBytes(v.code)
        THEN [v EXCEPT !.transfer_pending = TRUE]
        ELSE AfterTransfer(IF v.code = "LMMC"
                           THEN WritePixel(w, v.r[44], v.r[46].operation)
                           ELSE WriteByte(w, v.r[44]))

\* S#7 was read (command_read_colour).
ReadColour(v) == IF v.code = "LMCM" /\ v.ce /\ v.tr THEN AfterTransfer(v)
                 ELSE IF ~v.ce THEN [v EXCEPT !.tr = FALSE]
                 ELSE v

ExecuteEvent(given) ==
    LET v == [FlushCompleted(given) EXCEPT !.event = "none"]
        loaded == IF v.code = "LMCM" THEN LoadColour(v) ELSE v
        w == [loaded EXCEPT !.tr = TRUE]
    IN  CASE given.event = "complete" -> CommandComplete(v)
          [] given.event = "ready" /\ v.ce ->
                 IF v.transfer_pending /\ TakesBytes(v.code)
                 THEN TransferWrite(w) ELSE w
          [] given.event = "step" /\ v.ce -> ExecuteStep(v)
          [] OTHER -> v

\* The counters of a command: where it starts, how far it goes.
SetUp(v, x, y, sx, sy, columns, rows) ==
    [v EXCEPT !.x = x, !.y = y, !.origin_x = x, !.source_x = sx,
              !.source_y = sy, !.source_origin_x = sx,
              !.row_length = columns, !.left_x = columns, !.left_y = rows]
SetUpBlock(v) ==
    LET r == v.r
        bytes == MovesBytes(v.code)
        left == Flag(v, "left")
        up == Flag(v, "up")
    IN  CASE v.code \in {"LMMV", "HMMV", "LMMC", "HMMC"} ->
                 SetUp(v, r[36], r[38], v.source_x, v.source_y,
                       ClipX1(r[36], r[40], v.mode, left, bytes),
                       ClipY1(r[38], r[42], up))
          [] v.code = "LMCM" ->
                 SetUp(v, r[32], r[34], v.source_x, v.source_y,
                       ClipX1(r[32], r[40], v.mode, left, FALSE),
                       ClipY1(r[34], r[42], up))
          [] v.code \in {"LMMM", "HMMM"} ->
                 SetUp(v, r[36], r[38], r[32], r[34],
                       ClipX2(r[32], r[36], r[40], v.mode, left, bytes),
                       ClipY2(r[34], r[38], r[42], up))
          [] v.code = "YMMM" ->
                 SetUp(v, r[36], r[38], r[36], r[34],
                       ClipX1(r[36], 8, v.mode, left, TRUE),
                       ClipY2(r[34], r[38], r[42], up))

\* Mutant: the event of the old command stays scheduled.
DroppedButItsEvent(v) == [v EXCEPT !.tr = FALSE]

\* Whatever the engine did is over when R#46 is written.
Dropped(v) == [v EXCEPT !.event = "none", !.event_ticks = 0, !.tr = FALSE]

\* R#46 was written (execute_vdp_command).
ExecuteCommand(given) ==
    LET r == given.r
        dropped == Dropped(given)
        v == [dropped EXCEPT !.ce = TRUE, !.code = r[46].code,
                             !.mode = DisplayMode(given), !.argument = r[45],
                             !.colour = r[44], !.operation = r[46].operation]
        block == SetUpBlock(v)
        waiting == [block EXCEPT !.tr = TRUE]
    IN  IF r[46].code = "STOP" \/ ~Bitmap(given) THEN CommandComplete(dropped)
        ELSE CASE v.code = "POINT" ->
                 ScheduleEvent([v EXCEPT !.source_x = r[32], !.source_y = r[34]],
                               "step", 1)
          [] v.code = "PSET" ->
                 ScheduleEvent([v EXCEPT !.x = r[36], !.y = r[38]], "step", 1)
          [] v.code = "SRCH" ->
                 ScheduleEvent([v EXCEPT !.x = r[32], !.y = r[34],
                                         !.colour = @ % Info(v).colours,
                                         !.left_y = IF r[32] >= Info(v).width
                                                    THEN 1 ELSE 0], "step", 2)
          [] v.code = "LINE" ->
                 ScheduleEvent([v EXCEPT !.x = r[36], !.y = r[38],
                                         !.line_major = r[40], !.line_minor = r[42],
                                         !.line_error = IF r[40] = 0 THEN 0
                                                        ELSE (r[40] - 1) \div 2,
                                         !.left_x = r[40] + 1], "step", 2)
          [] v.code = "LMCM" -> LoadColour(waiting)
          [] TakesBytes(v.code) ->
                 IF v.transfer_pending THEN TransferWrite(waiting) ELSE waiting
          [] OTHER -> ScheduleEvent(block, "step", BlockTicks(v.code, FALSE))

---------------------------------------------------------------------------
(* The ports.  A value on a port is a pair, of the register it is meant    *)
(* for and of the value itself.                                            *)

\* The register that an access writes, if it does.
Written(v, op) ==
    CASE op.port = "indirect" /\ V99x8(v) -> {<<v.r[17].reg, op.value[2]>>}
      [] op.port = "control" /\ v.control_pending /\ op.value[2].does = "register" ->
             {<<op.value[2].reg, v.control_first[2]>>}
      [] OTHER -> {}

\* On the chip a register takes any byte; here the bytes of registers that
\* hold different things differ, and a guest keeps to them.
Fits(v, op) == \A w \in Written(v, op) : w[2] \in RegisterValues(w[1])

\* A register the chip does not have is not written.
WriteRegister(v, reg, value) ==
    LET w == [FlushCompleted(v) EXCEPT !.r[reg] = value]
        matched == [w EXCEPT !.fh = @ /\ ~(V99x8(v) /\ reg = 0 /\ ~value.ie1)]
    IN  CASE reg \notin DOMAIN v.r -> v
          [] reg \in {0, 1} -> UpdateIrq(matched)
          [] reg = 16 -> [w EXCEPT !.palette_pending = FALSE]
          [] reg = 44 -> TransferWrite(w)
          [] reg = 46 -> ExecuteCommand(w)
          [] OTHER -> w

\* Two bytes make a register write or the address; a first byte waits in
\* control_first, where the palette and the indirect port leave theirs too.
VdpWriteControl(v, value) ==
    LET w == [v EXCEPT !.control_pending = FALSE]
        addressed == [w EXCEPT !.address = v.control_first[2]]
    IN  IF ~v.control_pending
        THEN [v EXCEPT !.control_first = value, !.control_pending = TRUE]
        ELSE IF value[2].does = "register"
        THEN WriteRegister(w, value[2].reg, v.control_first[2])
        ELSE IF value[2].does = "write" THEN addressed
        ELSE ScheduleCpuVramAccess(addressed, TRUE, 0)

WritePalette(v, value) ==
    LET index == v.r[16]
    IN  IF ~V99x8(v) THEN v
        ELSE IF ~v.palette_pending
        THEN [v EXCEPT !.control_first = value, !.palette_pending = TRUE]
        ELSE [FlushCompleted(v) EXCEPT
                 !.palette[index] = <<v.control_first[2], value[2]>>,
                 !.r[16] = (index + 1) % 4, !.palette_pending = FALSE]

\* The register after this one: coordinates are pairs.
Following(reg) == IF reg \in 32..43 THEN reg + 2 ELSE reg + 1
WriteIndirect(v, value) ==
    LET selector == v.r[17]
        w == WriteRegister([v EXCEPT !.control_first = value], selector.reg, value[2])
    IN  IF ~V99x8(v) THEN v
        ELSE IF selector.hold THEN w
        ELSE [w EXCEPT !.r[17].reg = Following(selector.reg)]

VdpWriteData(v, value) ==
    [ScheduleCpuVramAccess(v, FALSE, value) EXCEPT !.control_pending = FALSE]
ReadData(v) ==
    [ScheduleCpuVramAccess(v, TRUE, 0) EXCEPT !.control_pending = FALSE]

\* Reading a status register clears what it reports.
ReadStatus(v) ==
    LET reg == IF V99x8(v) THEN v.r[15] ELSE 0
        w == [v EXCEPT !.control_pending = FALSE]
    IN  CASE reg = 0 -> UpdateIrq([w EXCEPT !.f = FALSE, !.s5 = FALSE, !.c = FALSE])
          [] reg = 1 -> UpdateIrq([w EXCEPT !.fh = FALSE])
          [] reg = 5 -> [w EXCEPT !.collision = <<>>]
          [] reg = 7 -> ReadColour(w)
          [] reg = 9 -> [w EXCEPT !.bd = FALSE]
          [] OTHER -> w

\* What a guest finds in the status register it reads.
StatusShows(v, what) ==
    CASE what = "F"  -> v.r[15] = 0 /\ v.f
      [] what = "FH" -> v.r[15] = 1
                        /\ IF v.r[0].ie1 THEN v.fh
                           ELSE \E t \in HscanTick(v) :
                                    (v.cycle - t) % FrameTicks < 2
      [] what = "turn" -> v.r[15] = 2 /\ (v.tr \/ ~v.ce)
      [] what = "rest" -> v.r[15] = 2 /\ ~v.ce
      [] what = "interrupt" -> v.irq

---------------------------------------------------------------------------
(* Time (vdp_advance, vram_engine_advance).                                *)

UpdateRetrace(v) ==
    LET start == LineZero(v) * TicksPerLine + 1
    IN  IF ~V99x8(v) THEN v
        ELSE [v EXCEPT !.vr = \/ v.cycle < start - TicksPerLine
                              \/ v.cycle >= start + VisibleLines(v) * TicksPerLine]

\* The beam stops at the end of the frame.
AdvanceBeam(v, n) ==
    [v EXCEPT !.beam = IF @ + n < FrameTicks THEN @ + n ELSE FrameTicks,
              !.event_ticks = IF v.event = "none" THEN @ ELSE @ - n,
              !.cpu_ticks = IF v.cpu_pending THEN @ - n ELSE @]

\* When the next access is due.
NextTicks(v) ==
    Min({FrameTicks} \cup (IF v.event = "none" THEN {} ELSE {v.event_ticks})
                     \cup (IF v.cpu_pending THEN {v.cpu_ticks} ELSE {}))

\* The processor comes first; the engine moves to the next free slot.
GiveWay(v) ==
    IF v.event # "none" /\ v.event_ticks = 0
    THEN [v EXCEPT !.event_ticks = AtLeastOne(VramAccessDelay(v, 1))] ELSE v

AtSlot(v) == IF v.cpu_pending /\ v.cpu_ticks = 0
             THEN ExecuteCpuVramAccess(GiveWay(v))
             ELSE IF v.event # "none" /\ v.event_ticks = 0 THEN ExecuteEvent(v)
             ELSE v

\* A line interrupt is latched when its tick is among those that passed.
LatchHscan(v, n) ==
    IF /\ V99x8(v) /\ v.r[0].ie1
       /\ \E t \in HscanTick(v) :
              LET first == IF t <= v.cycle THEN t + FrameTicks ELSE t
              IN  first <= v.cycle + n
    THEN UpdateIrq([v EXCEPT !.fh = TRUE]) ELSE v

EndAdvance(v, n) ==
    LET w == LatchHscan(FlushCompleted(v), n)
    IN  UpdateRetrace([w EXCEPT !.cycle = (@ + n) % FrameTicks])

BeginFrame(v) ==
    LET w == [ConfigureGeometry([v EXCEPT !.cycle = 0, !.beam = 0])
                  EXCEPT !.line_zero = IF V99x8(v) THEN LineZero(v) ELSE 0,
                         !.rendered = 0]
    IN  UpdateRetrace(w)

EndFrame(v) ==
    LET w == IF V99x8(v) THEN RenderToLine(v, v.height) ELSE RenderAll(v)
    IN  UpdateIrq([w EXCEPT !.f = TRUE])

---------------------------------------------------------------------------
(* The machine.                                                            *)

\* A chip after vdp_reset, with the registers its guest has set since.
VdpReset(guest) ==
    [type |-> guest.type, sprites |-> guest.sprites,
     vram |-> [a \in 0..(VramSize - 1) |-> guest.vram[a + 1]],
     r |-> guest.registers, palette |-> [c \in Palette |-> <<c, c>>],
     f |-> FALSE, s5 |-> FALSE, c |-> FALSE, fifth |-> 0, fh |-> FALSE,
     tr |-> FALSE, bd |-> FALSE, ce |-> FALSE, vr |-> FALSE, status7 |-> 0,
     irq |-> FALSE, read_buffer |-> 0, control_first |-> <<0, 0>>, address |-> 0,
     control_pending |-> FALSE, palette_pending |-> FALSE, collision |-> <<>>,
     x |-> 0, y |-> 0, origin_x |-> 0, source_x |-> 0, source_y |-> 0,
     source_origin_x |-> 0, row_length |-> 0, left_x |-> 0, left_y |-> 0,
     border_x |-> 0, line_major |-> 0, line_minor |-> 0, line_error |-> 0,
     code |-> "STOP", mode |-> "g4", argument |-> {}, colour |-> 0,
     operation |-> [fn |-> "imp", transparent |-> FALSE],
     event |-> "none", event_ticks |-> 0, transfer_pending |-> FALSE,
     cpu_pending |-> FALSE, cpu_read |-> FALSE, cpu_ticks |-> 0,
     cycle |-> 0, beam |-> 0, width |-> Columns, height |-> 2,
     line_zero |-> 0, rendered |-> 0, pixels |-> [y \in 0..2 |-> <<>>]]

VdpInit == \E guest \in VdpGuests :
    /\ vdp = BeginFrame(VdpReset(guest)) /\ vdp_program = guest.program
    /\ pace = guest.pace
    /\ vdp_pc = "cpu" /\ cycles = 0 /\ ticks = 0 /\ balance = FrameTicks

\* What an access to a port does to the chip; "status" and "wait" read.
Access(v, op) ==
    CASE op.port = "control" -> VdpWriteControl(v, op.value)
      [] op.port = "palette" -> WritePalette(v, op.value)
      [] op.port = "indirect" -> WriteIndirect(v, op.value)
      [] op.port = "data" -> VdpWriteData(v, op.value[2])
      [] op.port = "read" -> ReadData(v)
      [] OTHER -> ReadStatus(v)

\* An instruction, with the next access of the program or with none; a
\* guest that waits for a status goes on when it has seen it.
VdpInstruction ==
    /\ vdp_pc = "cpu" /\ balance > 0
    /\ \/ UNCHANGED <<vdp, vdp_program>>
       \/ /\ vdp_program # <<>> /\ vdp_program' = Tail(vdp_program)
          /\ Fits(vdp, Head(vdp_program))
          /\ Head(vdp_program).port = "wait" => StatusShows(vdp, Head(vdp_program).value[2])
          /\ vdp' = Access(vdp, Head(vdp_program))
    /\ \E n \in pace : cycles' = n /\ ticks' = IF V99x8(vdp) THEN n ELSE 0
    /\ vdp_pc' = "engine" /\ UNCHANGED balance

\* To the next access to VRAM, or to the end of the instruction.
Engine ==
    /\ vdp_pc = "engine" /\ ticks > 0
    /\ LET next == NextTicks(vdp) IN
       IF ticks < next
       THEN vdp' = AdvanceBeam(vdp, ticks) /\ ticks' = 0
       ELSE vdp' = AtSlot(AdvanceBeam(vdp, next)) /\ ticks' = ticks - next
    /\ UNCHANGED <<vdp_pc, cycles, balance, vdp_program>>

InstructionEnds ==
    /\ vdp_pc = "engine" /\ ticks = 0
    /\ vdp' = EndAdvance(vdp, cycles)
    /\ balance' = balance - cycles
    /\ vdp_pc' = IF balance - cycles > 0 THEN "cpu" ELSE "frame"
    /\ cycles' = 0
    /\ UNCHANGED <<ticks, vdp_program>>

FrameEnds == /\ vdp_pc = "frame" /\ vdp_pc' = "pause" /\ vdp' = EndFrame(vdp)
             /\ UNCHANGED <<cycles, ticks, balance, vdp_program>>
FrameBegins == /\ vdp_pc = "pause" /\ vdp_pc' = "cpu" /\ vdp' = BeginFrame(vdp)
               /\ balance' = balance + FrameTicks
               /\ UNCHANGED <<cycles, ticks, vdp_program>>

VdpNext == /\ UNCHANGED pace
           /\ VdpInstruction \/ Engine \/ InstructionEnds \/ FrameEnds \/ FrameBegins
VdpSpec == VdpInit /\ [][VdpNext]_machine
==============================================================================
