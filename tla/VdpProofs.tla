----------------------------- MODULE VdpProofs -----------------------------
(***************************************************************************)
(* Proofs about Vdp and its histories, for every set of guests: a line     *)
(* shows what the chip would have shown when the beam passed, and the      *)
(* interrupt line and the sprite flags tell the truth.                     *)
(*                                                                         *)
(* What a call of the chip may do is said by a few relations between the   *)
(* chip before and after: Work is what the engine does and what shows      *)
(* nothing; Change leaves the picture and its look alone or draws every    *)
(* line the beam has passed; Timely is what comes to pass with time, and   *)
(* DrawnTo says which lines it drew and what became of the sprite flags.   *)
(* The invariant follows from these relations alone.                       *)
(***************************************************************************)
EXTENDS VdpWatched, WellFoundedInduction, TLAPS

---------------------------------------------------------------------------
(* Work.                                                                   *)

Fields == {"type", "sprites", "vram", "r", "palette", "f", "s5", "c", "fifth", "fh",
    "tr", "bd", "ce", "vr", "status7", "irq", "read_buffer", "control_first",
    "address", "control_pending", "palette_pending", "collision", "x", "y",
    "origin_x", "source_x", "source_y", "source_origin_x", "row_length",
    "left_x", "left_y", "border_x", "line_major", "line_minor", "line_error",
    "code", "mode", "argument", "colour", "operation", "event", "event_ticks",
    "transfer_pending", "cpu_pending", "cpu_read", "cpu_ticks", "cycle",
    "beam", "width", "height", "line_zero", "rendered", "pixels"}

\* The chip, between two calls.
Chip(v) ==
    /\ DOMAIN v = Fields /\ DOMAIN v.r = RegisterNumbers /\ DOMAIN v.pixels = 0..2
    /\ v.r[18] \in Nat /\ v.beam \in Nat /\ v.line_zero \in Nat
    /\ v.height \in {2, 3} /\ v.rendered \in 0..v.height
    /\ v.event_ticks \in Nat /\ v.cpu_ticks \in Nat

\* The registers that say what is shown, and when.
Shaping == {0, 1, 2, 7, 8, 9, 18, 23}

\* What stays until the next frame.
SameFrame(v, w) ==
    /\ w.type = v.type /\ w.sprites = v.sprites /\ w.beam = v.beam
    /\ w.line_zero = v.line_zero /\ w.height = v.height /\ w.width = v.width
SamePicture(v, w) == w.rendered = v.rendered /\ w.pixels = v.pixels
SameFlags(v, w) ==
    w.s5 = v.s5 /\ w.fifth = v.fifth /\ w.c = v.c /\ w.collision = v.collision
SameIrq(v, w) == w.f = v.f /\ w.fh = v.fh /\ w.irq = v.irq
SameShape(v, w) == w.palette = v.palette /\ \A i \in Shaping : w.r[i] = v.r[i]

\* Work of the engine or of the processor's port: nothing of the above.
Work(v, w) ==
    /\ Chip(w) /\ SameFrame(v, w) /\ SamePicture(v, w) /\ SameFlags(v, w)
    /\ SameIrq(v, w) /\ SameShape(v, w)

LEMMA WorkAgain ==
    ASSUME NEW u, NEW v, NEW w, Work(u, v), Work(v, w)
    PROVE  Work(u, w)
BY DEF Work, SameFrame, SamePicture, SameFlags, SameIrq, SameShape

LEMMA NoWork ==
    ASSUME NEW v, Chip(v)
    PROVE  Work(v, v)
BY DEF Work, SameFrame, SamePicture, SameFlags, SameIrq, SameShape

\* A set of numbers that is not empty has a least one.
LEMMA Least ==
    ASSUME NEW S \in SUBSET Nat, S # {}
    PROVE  Min(S) \in S /\ \A n \in S : Min(S) <= n
<1> DEFINE R == {ss \in Nat \X Nat : ss[1] < ss[2]}
<1>1. IsWellFoundedOn(R, Nat)
  BY NatLessThanWellFounded DEF OpToRel
<1>2. \E x \in S : \A y \in S : <<y, x>> \notin R
  BY <1>1, WFMin
<1>3. PICK x \in S : \A y \in S : <<y, x>> \notin R
  BY <1>2
<1>4. \A y \in S : ~(y < x)
  <2> TAKE y \in S
  <2>1. <<y, x>> \in Nat \X Nat /\ <<y, x>>[1] = y /\ <<y, x>>[2] = x
    OBVIOUS
  <2> QED BY <1>3, <2>1
<1>5. \E m \in S : \A n \in S : m <= n
  BY <1>4
<1> QED BY <1>5 DEF Min

\* There is a free slot within a line.
LEMMA Delay ==
    ASSUME NEW v, v.beam \in Nat, NEW n \in Nat
    PROVE  AtLeastOne(VramAccessDelay(v, n)) \in Nat
<1> DEFINE S == {d \in n..(n + TicksPerLine) :
                    (v.beam + d) % TicksPerLine \in FreeSlots(v)}
<1>1. \E s \in 0..3 : s \in FreeSlots(v)
  BY DEF FreeSlots
<1>2. PICK s \in 0..3 : s \in FreeSlots(v)
  BY <1>1
<1>3. \E d \in n..(n + 4) : (v.beam + d) % 4 = s
  <2> DEFINE d == n + ((s - (v.beam + n)) % 4)
  <2>1. d \in n..(n + 4) /\ (v.beam + d) % 4 = s
    OBVIOUS
  <2> QED BY <2>1
<1>4. S # {} /\ S \in SUBSET Nat
  BY <1>2, <1>3 DEF TicksPerLine
<1>5. Min(S) \in Nat
  <2> HIDE DEF S
  <2> QED BY <1>4, Least
<1> QED BY <1>5 DEF VramAccessDelay, AtLeastOne

\* Each step of the engine is work.
LEMMA Schedules ==
    ASSUME NEW v, Chip(v), NEW e, NEW n \in Nat
    PROVE  Work(v, ScheduleEvent(v, e, n))
<1>1. AtLeastOne(VramAccessDelay(v, n)) \in Nat
  BY Delay DEF Chip
<1> QED BY <1>1 DEF ScheduleEvent, Work, Chip, Fields, SameFrame, SamePicture,
        SameFlags, SameIrq, SameShape

LEMMA Completes ==
    ASSUME NEW v, Chip(v)
    PROVE  Work(v, CommandComplete(v))
BY DEF CommandComplete, Work, Chip, Fields, SameFrame, SamePicture,
        SameFlags, SameIrq, SameShape, Shaping, RegisterNumbers

LEMMA Writes ==
    ASSUME NEW v, Chip(v), NEW x, NEW op
    PROVE  Work(v, WritePixel(v, x, op)) /\ Work(v, WriteByte(v, x))
BY DEF WritePixel, WriteByte, Work, Chip, Fields, SameFrame, SamePicture,
        SameFlags, SameIrq, SameShape

LEMMA Colours ==
    ASSUME NEW v, Chip(v), NEW x
    PROVE  Work(v, ShowColour(v, x)) /\ Work(v, LoadColour(v))
BY DEF ShowColour, LoadColour, Work, Chip, Fields, SameFrame, SamePicture,
        SameFlags, SameIrq, SameShape, Shaping, RegisterNumbers

LEMMA Advances ==
    ASSUME NEW v, Chip(v)
    PROVE  Work(v, AdvanceBlock(v)[1])
BY DEF AdvanceBlock, Work, Chip, Fields, SameFrame, SamePicture,
        SameFlags, SameIrq, SameShape

\* A step takes a time.
LEMMA Times ==
    ASSUME NEW code, NEW row
    PROVE  BlockTicks(code, row) \in Nat /\ TransferTicks(code) \in Nat
BY DEF BlockTicks, TransferTicks

\* The step to the next cell of a block, and out of a transfer.
LEMMA NextCells ==
    ASSUME NEW v, Chip(v)
    PROVE  Work(v, NextCell(v))
<1> DEFINE next == AdvanceBlock(v)
<1>1. Work(v, next[1]) /\ Chip(next[1])
  BY Advances DEF Work
<1> HIDE DEF next
<1>2. Work(next[1], ScheduleEvent(next[1], "step", BlockTicks(v.code, next[3])))
  BY <1>1, Times, Schedules
<1>3. Work(next[1], CommandComplete(next[1]))
  BY <1>1, Completes
<1>4. /\ Work(v, ScheduleEvent(next[1], "step", BlockTicks(v.code, next[3])))
      /\ Work(v, CommandComplete(next[1]))
  BY <1>1, <1>2, <1>3, WorkAgain
<1> QED BY <1>4 DEF NextCell, next

LEMMA AfterTransfers ==
    ASSUME NEW v, Chip(v)
    PROVE  Work(v, AfterTransfer(v))
<1> DEFINE next == AdvanceBlock(v)
           w == [next[1] EXCEPT !.tr = FALSE]
           e == IF next[2] THEN "ready" ELSE "complete"
<1>1. Work(v, next[1]) /\ Chip(next[1])
  BY Advances DEF Work
<1> HIDE DEF next
<1>2. Work(next[1], w)
  BY <1>1 DEF Work, Chip, Fields, SameFrame, SamePicture, SameFlags, SameIrq, SameShape
<1> HIDE DEF w, e
<1>3. Work(v, w) /\ Chip(w)
  BY <1>1, <1>2, WorkAgain DEF Work
<1>4. Work(w, ScheduleEvent(w, e, TransferTicks(v.code)))
  BY <1>3, Times, Schedules
<1>5. Work(v, ScheduleEvent(w, e, TransferTicks(v.code)))
  BY <1>3, <1>4, WorkAgain
<1> QED BY <1>5 DEF AfterTransfer, next, w, e

\* A cell of a block, a pixel of a line or of a search, or any step.
LEMMA Cells ==
    ASSUME NEW v, Chip(v), NEW x, NEW op
    PROVE  Work(v, NextCell(WritePixel(v, x, op))) /\ Work(v, NextCell(WriteByte(v, x)))
<1>1. Work(v, WritePixel(v, x, op)) /\ Work(v, WriteByte(v, x))
  BY Writes
<1>2. Chip(WritePixel(v, x, op)) /\ Chip(WriteByte(v, x))
  BY <1>1 DEF Work
<1>3. /\ Work(WritePixel(v, x, op), NextCell(WritePixel(v, x, op)))
      /\ Work(WriteByte(v, x), NextCell(WriteByte(v, x)))
  BY <1>2, NextCells
<1> QED BY <1>1, <1>3, WorkAgain

LEMMA LineSteps ==
    ASSUME NEW v, Chip(v)
    PROVE  Work(v, LineStep(v))
<1> DEFINE w == WritePixel(v, v.colour, v.operation)
<1>1. Work(v, w) /\ Chip(w)
  BY Writes DEF Work
<1> HIDE DEF w
<1>2. ASSUME NEW x, NEW y, NEW e
      PROVE  LET moved == [w EXCEPT !.left_x = @ - 1, !.x = x, !.y = y, !.line_error = e]
             IN  Work(w, moved) /\ Chip(moved)
  BY <1>1 DEF Work, Chip, Fields, SameFrame, SamePicture, SameFlags, SameIrq, SameShape
<1>3. Work(v, CommandComplete(w))
  BY <1>1, Completes, WorkAgain
<1>4. ASSUME NEW x, NEW y, NEW e, NEW n \in Nat
      PROVE  Work(v, ScheduleEvent([w EXCEPT !.left_x = @ - 1, !.x = x, !.y = y,
                                             !.line_error = e], "step", n))
  <2> DEFINE moved == [w EXCEPT !.left_x = @ - 1, !.x = x, !.y = y, !.line_error = e]
  <2>1. Work(w, moved) /\ Chip(moved)
    BY <1>2
  <2> HIDE DEF moved
  <2>2. Work(moved, ScheduleEvent(moved, "step", n))
    BY <2>1, Schedules
  <2>3. Work(v, ScheduleEvent(moved, "step", n))
    BY <1>1, <2>1, <2>2, WorkAgain
  <2> QED BY <2>3 DEF moved
<1> QED BY <1>3, <1>4 DEF LineStep, w

LEMMA SearchSteps ==
    ASSUME NEW v, Chip(v)
    PROVE  Work(v, SearchStep(v))
<1>1. ASSUME NEW x
      PROVE  /\ Work(v, [v EXCEPT !.bd = TRUE, !.border_x = x])
             /\ Work(v, [v EXCEPT !.border_x = x])
             /\ Work(v, [v EXCEPT !.x = x])
  BY DEF Work, Chip, Fields, SameFrame, SamePicture, SameFlags, SameIrq, SameShape
<1>2. ASSUME NEW w, Work(v, w)
      PROVE  Work(v, CommandComplete(w)) /\ Work(v, ScheduleEvent(w, "step", 2))
  <2>1. Chip(w)
    BY <1>2 DEF Work
  <2>2. Work(w, CommandComplete(w)) /\ Work(w, ScheduleEvent(w, "step", 2))
    BY <2>1, Completes, Schedules
  <2> QED BY <1>2, <2>2, WorkAgain
<1> QED BY <1>1, <1>2 DEF SearchStep

LEMMA Steps ==
    ASSUME NEW v, Chip(v)
    PROVE  Work(v, ExecuteStep(v))
<1>1. ASSUME NEW w, Work(v, w)
      PROVE  Work(v, CommandComplete(w))
  <2>1. Chip(w)
    BY <1>1 DEF Work
  <2>2. Work(w, CommandComplete(w))
    BY <2>1, Completes
  <2> QED BY <1>1, <2>2, WorkAgain
<1>2. ASSUME NEW x PROVE Work(v, CommandComplete(ShowColour(v, x)))
  BY <1>1, Colours
<1>3. ASSUME NEW x, NEW op PROVE Work(v, CommandComplete(WritePixel(v, x, op)))
  BY <1>1, Writes
<1>4. Work(v, CommandComplete(v))
  BY Completes
<1>5. Work(v, CopyByte(v))
  BY Cells DEF CopyByte
<1>6. Work(v, SearchStep(v)) /\ Work(v, LineStep(v))
  BY SearchSteps, LineSteps
<1>7. ASSUME NEW x, NEW op
      PROVE Work(v, NextCell(WritePixel(v, x, op))) /\ Work(v, NextCell(WriteByte(v, x)))
  BY Cells
<1> QED BY <1>2, <1>3, <1>4, <1>5, <1>6, <1>7 DEF ExecuteStep

---------------------------------------------------------------------------
(* Transfers and commands.                                                 *)

\* A byte given by the guest, or taken by it.
LEMMA Transfers ==
    ASSUME NEW v, Chip(v)
    PROVE  Work(v, TransferWrite(v)) /\ Work(v, ReadColour(v))
<1> DEFINE w == [v EXCEPT !.transfer_pending = FALSE]
<1>1. /\ Work(v, w) /\ Chip(w) /\ Work(v, [v EXCEPT !.transfer_pending = TRUE])
      /\ Work(v, [v EXCEPT !.tr = FALSE])
  BY DEF Work, Chip, Fields, SameFrame, SamePicture, SameFlags, SameIrq, SameShape
<1> HIDE DEF w
<1>2. ASSUME NEW u, Work(w, u)
      PROVE  Work(v, AfterTransfer(u))
  <2>1. Chip(u)
    BY <1>2 DEF Work
  <2> QED BY <1>1, <1>2, <2>1, AfterTransfers, WorkAgain
<1>3. ASSUME NEW x, NEW op
      PROVE  Work(v, AfterTransfer(WritePixel(w, x, op)))
             /\ Work(v, AfterTransfer(WriteByte(w, x)))
  BY <1>1, <1>2, Writes
<1>4. Work(v, TransferWrite(v))
  BY <1>1, <1>3 DEF TransferWrite, w
<1>5. Work(v, ReadColour(v))
  BY <1>1, AfterTransfers, NoWork DEF ReadColour
<1> QED BY <1>4, <1>5

\* To read a colour changes no VRAM.
LEMMA ReadShows ==
    ASSUME NEW v, Chip(v)
    PROVE  ReadColour(v).vram = v.vram
<1>1. DOMAIN v = Fields
  BY DEF Chip
<1>2. AdvanceBlock(v)[1].vram = v.vram /\ DOMAIN AdvanceBlock(v)[1] = Fields
  BY <1>1 DEF AdvanceBlock, Fields
<1> DEFINE w == [AdvanceBlock(v)[1] EXCEPT !.tr = FALSE]
<1>3. w.vram = v.vram /\ DOMAIN w = Fields
  BY <1>2 DEF Fields
<1> HIDE DEF w
<1>4. \A e, n : ScheduleEvent(w, e, n).vram = v.vram
  BY <1>3 DEF ScheduleEvent, Fields
<1>5. AfterTransfer(v).vram = v.vram
  BY <1>4 DEF AfterTransfer, w
<1> QED BY <1>1, <1>5 DEF ReadColour, Fields

\* The event of the engine, on the chip whose lines are drawn.
EventOf(e, u) ==
    LET v == [u EXCEPT !.event = "none"]
        loaded == IF v.code = "LMCM" THEN LoadColour(v) ELSE v
        w == [loaded EXCEPT !.tr = TRUE]
    IN  CASE e = "complete" -> CommandComplete(v)
          [] e = "ready" /\ v.ce ->
                 IF v.transfer_pending /\ TakesBytes(v.code)
                 THEN TransferWrite(w) ELSE w
          [] e = "step" /\ v.ce -> ExecuteStep(v)
          [] OTHER -> v

\* The event comes after the lines so far are drawn.
LEMMA EventIs ==
    ASSUME NEW v
    PROVE  ExecuteEvent(v) = EventOf(v.event, FlushCompleted(v))
BY DEF ExecuteEvent, EventOf

LEMMA Events ==
    ASSUME NEW u, Chip(u), NEW e
    PROVE  Work(u, EventOf(e, u))
<1> DEFINE v == [u EXCEPT !.event = "none"]
           loaded == IF v.code = "LMCM" THEN LoadColour(v) ELSE v
           w == [loaded EXCEPT !.tr = TRUE]
<1>1. Work(u, v) /\ Chip(v)
  BY DEF Work, Chip, Fields, SameFrame, SamePicture, SameFlags, SameIrq, SameShape
<1>h EventOf(e, u) = CASE e = "complete" -> CommandComplete(v)
          [] e = "ready" /\ v.ce ->
                 IF v.transfer_pending /\ TakesBytes(v.code)
                 THEN TransferWrite(w) ELSE w
          [] e = "step" /\ v.ce -> ExecuteStep(v)
          [] OTHER -> v
  BY DEF EventOf
<1> HIDE DEF v
<1>2. Work(v, loaded) /\ Chip(loaded)
  BY <1>1, Colours, NoWork DEF Work
<1> HIDE DEF loaded
<1>3. Work(loaded, w) /\ Chip(w)
  BY <1>2 DEF Work, Chip, Fields, SameFrame, SamePicture, SameFlags, SameIrq, SameShape
<1> HIDE DEF w
<1>4. Work(w, TransferWrite(w))
  BY <1>3, Transfers
<1>5. Work(u, w) /\ Work(u, TransferWrite(w))
  BY <1>1, <1>2, <1>3, <1>4, WorkAgain
<1>6. Work(u, CommandComplete(v)) /\ Work(u, ExecuteStep(v))
  BY <1>1, Completes, Steps, WorkAgain
<1> QED BY <1>1, <1>5, <1>6, <1>h

\* The counters of a block.
LEMMA Blocks ==
    ASSUME NEW v, Chip(v),
           v.code \in {"LMMV", "LMMM", "LMCM", "LMMC", "HMMV", "HMMM", "YMMM", "HMMC"}
    PROVE  Work(v, SetUpBlock(v))
<1>1. ASSUME NEW x, NEW y, NEW sx, NEW sy, NEW n, NEW m
      PROVE  Work(v, SetUp(v, x, y, sx, sy, n, m))
  <2> DEFINE p == [v EXCEPT !.x = x, !.y = y, !.origin_x = x]
             q == [p EXCEPT !.source_x = sx, !.source_y = sy, !.source_origin_x = sx]
             w == [q EXCEPT !.row_length = n, !.left_x = n, !.left_y = m]
  <2>1. Work(v, p) /\ Chip(p)
    BY DEF Work, Chip, Fields, SameFrame, SamePicture, SameFlags, SameIrq, SameShape
  <2>2. SetUp(v, x, y, sx, sy, n, m) = w
    BY DEF SetUp
  <2> HIDE DEF p
  <2>3. Work(p, q) /\ Chip(q)
    BY <2>1 DEF Work, Chip, Fields, SameFrame, SamePicture, SameFlags, SameIrq, SameShape
  <2> HIDE DEF q
  <2>4. Work(q, w)
    BY <2>3 DEF Work, Chip, Fields, SameFrame, SamePicture, SameFlags, SameIrq, SameShape
  <2> HIDE DEF w
  <2> QED BY <2>1, <2>2, <2>3, <2>4, WorkAgain
<1> QED BY <1>1 DEF SetUpBlock

\* The engine drops what it did and begins what R#46 says.
LEMMA Commands ==
    ASSUME NEW u, Chip(u), u.r[46].code \in Codes
    PROVE  Work(u, ExecuteCommand(u))
<1> DEFINE d == Dropped(u)
           v == [d EXCEPT !.ce = TRUE, !.code = u.r[46].code,
                          !.mode = DisplayMode(u), !.argument = u.r[45],
                          !.colour = u.r[44], !.operation = u.r[46].operation]
           block == SetUpBlock(v)
           waiting == [block EXCEPT !.tr = TRUE]
           point == [v EXCEPT !.source_x = u.r[32], !.source_y = u.r[34]]
           pset == [v EXCEPT !.x = u.r[36], !.y = u.r[38]]
           search == [v EXCEPT !.x = u.r[32], !.y = u.r[34],
                               !.colour = @ % Info(v).colours,
                               !.left_y = IF u.r[32] >= Info(v).width THEN 1 ELSE 0]
           line == [v EXCEPT !.x = u.r[36], !.y = u.r[38],
                             !.line_major = u.r[40], !.line_minor = u.r[42],
                             !.line_error = IF u.r[40] = 0 THEN 0
                                            ELSE (u.r[40] - 1) \div 2,
                             !.left_x = u.r[40] + 1]
<1>1. Work(u, d) /\ Chip(d)
  BY DEF Dropped, Work, Chip, Fields, SameFrame, SamePicture, SameFlags, SameIrq, SameShape
<1>2. Work(u, v) /\ Chip(v) /\ v.code = u.r[46].code /\ v.code \in Codes
  <2> HIDE DEF d
  <2>1. Work(d, v) /\ Chip(v) /\ v.code = u.r[46].code
    BY <1>1 DEF Work, Chip, Fields, SameFrame, SamePicture, SameFlags, SameIrq, SameShape
  <2> QED BY <1>1, <2>1, WorkAgain
<1>3. Work(u, CommandComplete(d))
  BY <1>1, Completes, WorkAgain
<1>h ExecuteCommand(u) =
      IF u.r[46].code = "STOP" \/ ~Bitmap(u) THEN CommandComplete(d)
      ELSE CASE v.code = "POINT" -> ScheduleEvent(point, "step", 1)
          [] v.code = "PSET" -> ScheduleEvent(pset, "step", 1)
          [] v.code = "SRCH" -> ScheduleEvent(search, "step", 2)
          [] v.code = "LINE" -> ScheduleEvent(line, "step", 2)
          [] v.code = "LMCM" -> LoadColour(waiting)
          [] TakesBytes(v.code) ->
                 IF v.transfer_pending THEN TransferWrite(waiting) ELSE waiting
          [] OTHER -> ScheduleEvent(block, "step", BlockTicks(v.code, FALSE))
  BY DEF ExecuteCommand
<1> HIDE DEF d, v
<1>4. ASSUME NEW w, Work(v, w), NEW n \in Nat
      PROVE  Work(u, ScheduleEvent(w, "step", n))
  <2>1. Chip(w)
    BY <1>4 DEF Work
  <2>2. Work(w, ScheduleEvent(w, "step", n))
    BY <2>1, Schedules
  <2> QED BY <1>2, <1>4, <2>2, WorkAgain
<1>5. Work(v, point) /\ Work(v, pset) /\ Work(v, search) /\ Work(v, line)
  BY <1>2 DEF Work, Chip, Fields, SameFrame, SamePicture, SameFlags, SameIrq, SameShape
<1> HIDE DEF point, pset, search, line
<1>6. ASSUME v.code \in {"LMMV", "LMMM", "LMCM", "LMMC", "HMMV", "HMMM", "YMMM", "HMMC"}
      PROVE  /\ Work(u, LoadColour(waiting)) /\ Work(u, waiting)
             /\ Work(u, TransferWrite(waiting))
             /\ Work(u, ScheduleEvent(block, "step", BlockTicks(v.code, FALSE)))
  <2>1. Work(v, block) /\ Chip(block)
    BY <1>2, <1>6, Blocks DEF Work
  <2>2. Work(u, ScheduleEvent(block, "step", BlockTicks(v.code, FALSE)))
    BY <1>4, <2>1, Times
  <2> HIDE DEF block
  <2>3. Work(block, waiting) /\ Chip(waiting)
    BY <2>1 DEF Work, Chip, Fields, SameFrame, SamePicture, SameFlags, SameIrq, SameShape
  <2> HIDE DEF waiting
  <2>4. Work(u, waiting)
    BY <1>2, <2>1, <2>3, WorkAgain
  <2>5. Work(waiting, LoadColour(waiting)) /\ Work(waiting, TransferWrite(waiting))
    BY <2>3, Colours, Transfers
  <2> QED BY <2>2, <2>4, <2>5, WorkAgain
<1> HIDE DEF waiting, block
<1>7. v.code \in {"STOP", "POINT", "PSET", "SRCH", "LINE"}
      \/ v.code \in {"LMMV", "LMMM", "LMCM", "LMMC", "HMMV", "HMMM", "YMMM", "HMMC"}
  BY <1>2 DEF Codes
<1>8. /\ Work(u, ScheduleEvent(point, "step", 1)) /\ Work(u, ScheduleEvent(pset, "step", 1))
      /\ Work(u, ScheduleEvent(search, "step", 2)) /\ Work(u, ScheduleEvent(line, "step", 2))
  BY <1>4, <1>5
<1>9. CASE v.code \in {"STOP", "POINT", "PSET", "SRCH", "LINE"}
  BY ONLY <1>2, <1>3, <1>8, <1>9, <1>h DEF TakesBytes
<1>10. CASE v.code \in {"LMMV", "LMMM", "LMCM", "LMMC", "HMMV", "HMMM", "YMMM", "HMMC"}
  <2>1. /\ Work(u, LoadColour(waiting)) /\ Work(u, waiting)
        /\ Work(u, TransferWrite(waiting))
        /\ Work(u, ScheduleEvent(block, "step", BlockTicks(v.code, FALSE)))
    BY <1>6, <1>10
  <2> QED BY ONLY <1>3, <1>10, <2>1, <1>h DEF TakesBytes
<1> QED BY <1>7, <1>9, <1>10

---------------------------------------------------------------------------
(* Drawing.                                                                *)

\* A sprite engine that sees the same.
SameSprites(v, w) ==
    w.type = v.type /\ w.sprites = v.sprites /\ \A i \in {0, 1, 8, 23} : w.r[i] = v.r[i]

\* Such a chip has the same sprites on each line.
LEMMA SpritesAlike ==
    ASSUME NEW v, NEW w, SameSprites(v, w), NEW y
    PROVE  /\ Surplus(w, y) = Surplus(v, y) /\ Hits(w, y) = Hits(v, y)
           /\ Visible(w, y) = Visible(v, y)
           /\ SpriteMode(w) = SpriteMode(v) /\ V99x8(w) = V99x8(v)
           /\ OpaqueZero(w) = OpaqueZero(v) /\ DisplayMode(w) = DisplayMode(v)
<1>1. /\ w.type = v.type /\ w.sprites = v.sprites
      /\ w.r[0] = v.r[0] /\ w.r[1] = v.r[1] /\ w.r[8] = v.r[8] /\ w.r[23] = v.r[23]
  BY DEF SameSprites
<1>2. V99x8(w) = V99x8(v) /\ DisplayMode(w) = DisplayMode(v)
  BY <1>1 DEF V99x8, DisplayMode
<1>3. /\ PerLine(w) = PerLine(v) /\ SpriteMode(w) = SpriteMode(v)
      /\ OpaqueZero(w) = OpaqueZero(v)
  BY <1>1, <1>2 DEF PerLine, SpriteMode, OpaqueZero, Bitmap
<1>4. OnLine(w, y) = OnLine(v, y)
  BY <1>1, <1>2 DEF OnLine
<1>5. \A n : Position(w, y, n) = Position(v, y, n)
  BY <1>4 DEF Position
<1>6. Visible(w, y) = Visible(v, y)
  BY <1>3, <1>4, <1>5 DEF Visible
<1>7. \A n : Dots(w, n) = Dots(v, n) /\ (Solid(w, n) <=> Solid(v, n))
  BY <1>1, <1>2, <1>3 DEF Dots, Solid
<1>8. Hits(w, y) = Hits(v, y)
  <2>1. \A x : {n \in Visible(w, y) : Solid(w, n) /\ x \in Dots(w, n)}
             = {n \in Visible(v, y) : Solid(v, n) /\ x \in Dots(v, n)}
    BY <1>6, <1>7
  <2> QED BY <2>1 DEF Hits
<1> QED BY <1>2, <1>3, <1>4, <1>6, <1>8 DEF Surplus

\* A picture that would show the same.
SameLook(v, w) == /\ SameSprites(v, w) /\ w.vram = v.vram /\ w.palette = v.palette
                  /\ w.width = v.width /\ \A i \in {2, 7} : w.r[i] = v.r[i]

\* Such a chip shows the same lines.
LEMMA LinesAlike ==
    ASSUME NEW v, NEW w, SameLook(v, w), NEW y
    PROVE  LineOf(w, y) = LineOf(v, y)
<1>1. /\ w.vram = v.vram /\ w.palette = v.palette /\ w.width = v.width
      /\ w.r[1] = v.r[1] /\ w.r[2] = v.r[2] /\ w.r[7] = v.r[7] /\ w.r[8] = v.r[8]
      /\ w.r[23] = v.r[23] /\ w.sprites = v.sprites /\ SameSprites(v, w)
  BY DEF SameLook, SameSprites
<1>2. /\ Visible(w, y) = Visible(v, y) /\ SpriteMode(w) = SpriteMode(v)
      /\ (V99x8(w) <=> V99x8(v)) /\ (OpaqueZero(w) <=> OpaqueZero(v))
      /\ DisplayMode(w) = DisplayMode(v)
  BY <1>1, SpritesAlike
<1>3. \A x : SpriteColours(w, y, x) = SpriteColours(v, y, x)
  <2>1. \A n : Dots(w, n) = Dots(v, n)
    BY <1>1 DEF Dots
  <2>2. \A x : There(w, y, x) = There(v, y, x)
    BY <1>2, <2>1 DEF There
  <2>3. \A x : Alone(w, y, x) = Alone(v, y, x)
    BY <1>1, <1>2, <2>2 DEF Alone
  <2>4. \A x, n : Joined(w, y, x, n) = Joined(v, y, x, n)
    BY <1>1, <1>2, <2>2 DEF Joined
  <2> TAKE x
  <2> DEFINE n == Min(Alone(v, y, x))
             weights == {bit \in {1, 2, 4, 8} : \E m \in {n} \cup Joined(v, y, x, n) :
                                                  HasBit(v.sprites[m].colour, bit)}
  <2>5. SpriteColours(v, y, x) = IF Alone(v, y, x) = {} THEN {} ELSE {SumSet(weights)}
    BY DEF SpriteColours
  <2>6. SpriteColours(w, y, x) = IF Alone(v, y, x) = {} THEN {} ELSE {SumSet(weights)}
    <3>1. w.sprites = v.sprites /\ Alone(w, y, x) = Alone(v, y, x)
          /\ Joined(w, y, x, n) = Joined(v, y, x, n)
      BY <1>1, <2>3, <2>4
    <3>2. SpriteColours(w, y, x)
            = IF Alone(w, y, x) = {} THEN {}
              ELSE {SumSet({bit \in {1, 2, 4, 8} :
                       \E m \in {Min(Alone(w, y, x))}
                               \cup Joined(w, y, x, Min(Alone(w, y, x))) :
                           HasBit(w.sprites[m].colour, bit)})}
      BY DEF SpriteColours
    <3> QED BY ONLY <3>1, <3>2
  <2> QED BY <2>5, <2>6
<1>4. \A x : BitmapDot(w, y, x) = BitmapDot(v, y, x)
  BY <1>1, <1>2 DEF BitmapDot, VisibleColour
<1>5. TableDot(w) = TableDot(v) /\ Border(w) = Border(v)
      /\ \A c : SpriteDot(w, c) = SpriteDot(v, c)
  BY <1>1, <1>2 DEF TableDot, Border, SpriteDot
<1>6. Bitmap(w) <=> Bitmap(v)
  BY <1>2 DEF Bitmap
<1> QED BY <1>1, <1>2, <1>3, <1>4, <1>5, <1>6 DEF LineOf

\* Of the lines from first to limit - 1, those with a surplus sprite, the
\* surplus of the first of them, and those with a collision.
Over(v, first, limit) == {y \in first..(limit - 1) : Surplus(v, y) # {}}
FirstSurplus(v, first, limit) ==
    IF Over(v, first, limit) = {} THEN {} ELSE Surplus(v, Min(Over(v, first, limit)))
Hit(v, first, limit) == {y \in first..(limit - 1) : Hits(v, y) # {}}
FirstHit(v, first, limit) ==
    <<Min(Hits(v, Min(Hit(v, first, limit)))), Min(Hit(v, first, limit))>>

\* Such a chip has the same flags to set.
LEMMA SurplusAlike ==
    ASSUME NEW v, NEW w, SameSprites(v, w), NEW first, NEW limit
    PROVE  /\ Over(w, first, limit) = Over(v, first, limit)
           /\ FirstSurplus(w, first, limit) = FirstSurplus(v, first, limit)
           /\ Hit(w, first, limit) = Hit(v, first, limit)
           /\ FirstHit(w, first, limit) = FirstHit(v, first, limit)
<1>1. \A y : Surplus(w, y) = Surplus(v, y) /\ Hits(w, y) = Hits(v, y)
  BY SpritesAlike
<1> QED BY <1>1 DEF Over, FirstSurplus, Hit, FirstHit

\* The flags after the sprites of the lines from first to limit - 1.
Sprited(v, w, first, limit) ==
    LET surplus == FirstSurplus(v, first, limit)
        hit == Hit(v, first, limit)
    IN  /\ w.s5 = (v.s5 \/ (surplus # {} /\ ~v.f))
        /\ w.fifth = IF v.s5 THEN v.fifth
                     ELSE IF surplus = {} THEN Len(v.sprites) + 1
                     ELSE IF v.f THEN v.fifth ELSE Min(surplus)
        /\ w.c = (v.c \/ hit # {})
        /\ w.collision = IF hit = {} \/ v.c THEN v.collision
                         ELSE FirstHit(v, first, limit)

\* Sprites are looked for.
SpritesOn(v) == v.r[1].bl /\ SpriteMode(v) # 0 /\ ~(V99x8(v) /\ v.r[8].spd)

\* The chip after it drew its lines up to limit.
DrawnTo(v, w, limit) ==
    /\ w.rendered = limit /\ v.rendered <= limit /\ limit <= v.height
    /\ \A y \in 0..2 : w.pixels[y] = IF y \in v.rendered..(limit - 1)
                                     THEN LineOf(v, y) ELSE v.pixels[y]
    /\ limit = v.rendered => SameFlags(v, w)
    /\ v.rendered < limit => IF SpritesOn(v) THEN Sprited(v, w, v.rendered, limit)
                             ELSE SameFlags(v, w)

\* What drawing leaves alone.
DrawsOnly(v, w) ==
    /\ Chip(w) /\ SameFrame(v, w) /\ SameIrq(v, w)
    /\ w.r = v.r /\ w.palette = v.palette /\ w.vram = v.vram
    /\ w.event = v.event /\ w.cpu_pending = v.cpu_pending

\* Sprites leave the picture alone and set their flags.
LEMMA RendersSprites ==
    ASSUME NEW v, Chip(v), NEW first, NEW limit, v.r[1].bl
    PROVE  LET w == RenderSprites(v, first, limit) IN
           /\ DrawsOnly(v, w) /\ SamePicture(v, w)
           /\ IF SpritesOn(v) THEN Sprited(v, w, first, limit) ELSE SameFlags(v, w)
<1> DEFINE surplus == FirstSurplus(v, first, limit)
           hit == Hit(v, first, limit)
           u == LatchCollision(v, hit)
           w == UpdateSpriteStatus(u, surplus, Len(v.sprites) + 1, hit # {})
<1>1. RenderSprites(v, first, limit) = IF SpritesOn(v) THEN w ELSE v
  BY DEF RenderSprites, SpritesOn, FirstSurplus, Over, Hit
<1>2. /\ DrawsOnly(v, v) /\ SamePicture(v, v) /\ SameFlags(v, v)
  BY DEF DrawsOnly, SamePicture, SameFlags, SameFrame, SameIrq
<1> HIDE DEF hit, surplus
<1>3. /\ DrawsOnly(v, u) /\ SamePicture(v, u)
      /\ u.s5 = v.s5 /\ u.fifth = v.fifth /\ u.c = v.c
      /\ u.collision = IF hit = {} \/ v.c THEN v.collision
                       ELSE <<Min(Hits(v, Min(hit))), Min(hit)>>
  BY DEF LatchCollision, DrawsOnly, Chip, Fields, SamePicture, SameFrame, SameIrq
<1> HIDE DEF u
<1>4. /\ DrawsOnly(u, w) /\ SamePicture(u, w) /\ w.collision = u.collision
      /\ w.s5 = (u.s5 \/ (surplus # {} /\ ~u.f))
      /\ w.fifth = IF u.s5 THEN u.fifth
                   ELSE IF surplus = {} THEN Len(v.sprites) + 1
                   ELSE IF u.f THEN u.fifth ELSE Min(surplus)
      /\ w.c = (u.c \/ hit # {})
  BY <1>3 DEF UpdateSpriteStatus, DrawsOnly, Chip, Fields, SamePicture, SameFrame, SameIrq
<1> HIDE DEF w
<1>5. u.f = v.f
  BY <1>3 DEF DrawsOnly, SameIrq
<1>6. DrawsOnly(v, w) /\ SamePicture(v, w)
  BY <1>3, <1>4 DEF DrawsOnly, SamePicture, SameFrame, SameIrq
<1>7. Sprited(v, w, first, limit)
  BY <1>3, <1>4, <1>5 DEF Sprited, FirstHit, hit, surplus
<1> QED BY <1>1, <1>2, <1>6, <1>7

\* Lines are drawn up to the one wanted, if they are not drawn yet.
LEMMA Renders ==
    ASSUME NEW v, Chip(v), NEW wanted \in Int
    PROVE  \E limit \in 0..v.height :
               /\ DrawsOnly(v, RenderToLine(v, wanted))
               /\ DrawnTo(v, RenderToLine(v, wanted), limit)
               /\ wanted <= v.height => wanted <= limit
               /\ v.height <= wanted => limit = v.height
               /\ wanted <= v.rendered => limit = v.rendered
<1> DEFINE limit == IF wanted > v.height THEN v.height ELSE wanted
           drawn == [v EXCEPT !.rendered = limit,
                              !.pixels = [y \in 0..2 |->
                                  IF y \in v.rendered..(limit - 1)
                                  THEN LineOf(v, y) ELSE @[y]]]
<1>0. v.rendered \in 0..v.height /\ v.height \in {2, 3}
  BY DEF Chip
<1>1. CASE limit <= v.rendered
  <2>1. RenderToLine(v, wanted) = v
    BY <1>1 DEF RenderToLine
  <2>2. DrawsOnly(v, v) /\ DrawnTo(v, v, v.rendered)
    BY <1>0 DEF DrawsOnly, DrawnTo, SameFlags, SameFrame, SameIrq
  <2>3. v.height <= wanted => v.rendered = v.height
    BY <1>0, <1>1
  <2>4. wanted <= v.height => wanted <= v.rendered
    BY <1>0, <1>1
  <2> QED BY <1>0, <2>1, <2>2, <2>3, <2>4
<1>2. CASE v.rendered < limit
  <2>1. limit \in 0..v.height /\ limit \in Nat /\ v.rendered \in Nat
    BY <1>0, <1>2
  <2>2. RenderToLine(v, wanted) = IF ~v.r[1].bl THEN drawn
                                  ELSE RenderSprites(drawn, v.rendered, limit)
    BY <1>0, <1>2 DEF RenderToLine
  <2>3. /\ wanted <= v.height => wanted <= limit
        /\ v.height <= wanted => limit = v.height
        /\ wanted <= v.rendered => limit = v.rendered
    BY <1>0, <1>2
  <2> HIDE DEF limit
  <2>4. /\ DrawsOnly(v, drawn) /\ SameFlags(v, drawn) /\ drawn.rendered = limit
        /\ \A y \in 0..2 : drawn.pixels[y] = IF y \in v.rendered..(limit - 1)
                                             THEN LineOf(v, y) ELSE v.pixels[y]
    BY <2>1 DEF DrawsOnly, Chip, Fields, SameFrame, SameIrq, SameFlags
  <2> HIDE DEF drawn
  <2>5. CASE ~v.r[1].bl
    <3>1. DrawnTo(v, drawn, limit)
      BY <1>2, <2>1, <2>4, <2>5 DEF DrawnTo, SpritesOn
    <3> QED BY <2>1, <2>2, <2>3, <2>4, <2>5, <3>1
  <2>6. CASE v.r[1].bl
    <3> DEFINE w == RenderSprites(drawn, v.rendered, limit)
    <3>1. drawn.r = v.r /\ SameFrame(v, drawn) /\ SameSprites(v, drawn) /\ Chip(drawn)
      BY <2>4 DEF DrawsOnly, SameFrame, SameSprites
    <3>2. /\ DrawsOnly(drawn, w) /\ SamePicture(drawn, w)
          /\ IF SpritesOn(drawn) THEN Sprited(drawn, w, v.rendered, limit)
             ELSE SameFlags(drawn, w)
      BY <2>6, <3>1, RendersSprites
    <3> HIDE DEF w
    <3>3. DrawsOnly(v, w)
      BY <2>4, <3>2 DEF DrawsOnly, SameFrame, SameIrq
    <3>4. SpritesOn(drawn) <=> SpritesOn(v)
      <4>1. SpriteMode(drawn) = SpriteMode(v) /\ (V99x8(drawn) <=> V99x8(v))
        BY <3>1, SpritesAlike
      <4> QED BY <3>1, <4>1 DEF SpritesOn
    <3>5. SpritesOn(v) => Sprited(v, w, v.rendered, limit)
      <4>1. /\ FirstSurplus(drawn, v.rendered, limit) = FirstSurplus(v, v.rendered, limit)
            /\ Hit(drawn, v.rendered, limit) = Hit(v, v.rendered, limit)
            /\ FirstHit(drawn, v.rendered, limit) = FirstHit(v, v.rendered, limit)
        BY <3>1, SurplusAlike
      <4>2. drawn.f = v.f /\ drawn.sprites = v.sprites
        BY <2>4 DEF DrawsOnly, SameIrq, SameFrame
      <4>3. SpritesOn(v) => Sprited(drawn, w, v.rendered, limit)
        BY <3>2, <3>4
      <4> QED BY <2>4, <4>1, <4>2, <4>3 DEF Sprited, SameFlags
    <3>6. ~SpritesOn(v) => SameFlags(v, w)
      BY <2>4, <3>2, <3>4 DEF SameFlags
    <3>7. DrawnTo(v, w, limit)
      BY <1>2, <2>1, <2>4, <3>2, <3>5, <3>6 DEF DrawnTo, SamePicture
    <3> QED BY <2>1, <2>2, <2>3, <2>6, <3>3, <3>7 DEF w
  <2> QED BY <2>5, <2>6
<1> QED BY <1>0, <1>1, <1>2

---------------------------------------------------------------------------
(* What a call may do to the picture.                                      *)

\* Lines are drawn, all that the beam has passed.
Drawn(v, w) ==
    \E limit \in 0..v.height :
        /\ w.rendered = limit /\ v.rendered <= limit
        /\ \A y \in 0..2 : w.pixels[y] = IF y \in v.rendered..(limit - 1)
                                         THEN LineOf(v, y) ELSE v.pixels[y]
        /\ IF V99x8(v) THEN Completed(v) <= limit \/ limit = v.height
           ELSE limit = v.rendered

\* The picture stays, and would look the same.
Kept(v, w) == SamePicture(v, w) /\ SameLook(v, w)

\* What shows is changed only when the lines so far are drawn.
Change(v, w) == Chip(w) /\ SameFrame(v, w) /\ (Kept(v, w) \/ Drawn(v, w))

\* What time does: nothing but the flags of the sprites changes with it.
Timely(v, w) ==
    /\ Change(v, w) /\ SameIrq(v, w) /\ SameShape(v, w)
    /\ \E limit \in 0..v.height : DrawnTo(v, w, limit)

\* How many lines the beam has passed.
LEMMA CompletedType ==
    ASSUME NEW v, Chip(v)
    PROVE  Completed(v) \in Int
BY DEF Chip, Completed, RightBorder, TicksPerLine

LEMMA CompletedAlike ==
    ASSUME NEW v, NEW w, SameFrame(v, w), w.r[1] = v.r[1]
    PROVE  Completed(w) = Completed(v) /\ (V99x8(w) <=> V99x8(v))
BY DEF SameFrame, Completed, RightBorder, V99x8

\* The lines are drawn as far as the beam.
LEMMA Flushes ==
    ASSUME NEW v, Chip(v)
    PROVE  /\ DrawsOnly(v, FlushCompleted(v)) /\ Drawn(v, FlushCompleted(v))
           /\ \E limit \in 0..v.height : DrawnTo(v, FlushCompleted(v), limit)
<1>1. CASE ~V99x8(v)
  <2>1. FlushCompleted(v) = v
    BY <1>1 DEF FlushCompleted
  <2>2. v.rendered \in 0..v.height /\ v.height \in {2, 3}
    BY DEF Chip
  <2> QED BY <1>1, <2>1, <2>2
          DEF DrawsOnly, Drawn, DrawnTo, SameFlags, SameFrame, SameIrq
<1>2. CASE V99x8(v)
  <2> DEFINE w == RenderToLine(v, Completed(v))
  <2>1. FlushCompleted(v) = w /\ Completed(v) \in Int
    BY <1>2, CompletedType DEF FlushCompleted
  <2>2. PICK limit \in 0..v.height :
               /\ DrawsOnly(v, w) /\ DrawnTo(v, w, limit)
               /\ Completed(v) <= v.height => Completed(v) <= limit
               /\ v.height <= Completed(v) => limit = v.height
    BY <2>1, Renders
  <2>3. v.height \in {2, 3}
    BY DEF Chip
  <2> HIDE DEF w
  <2>4. Completed(v) <= limit \/ limit = v.height
    BY <2>1, <2>2, <2>3
  <2>5. Drawn(v, w)
    BY <1>2, <2>2, <2>4 DEF Drawn, DrawnTo
  <2> QED BY <2>1, <2>2, <2>5
<1> QED BY <1>1, <1>2

\* Work on the chip whose lines are drawn.
LEMMA FlushAndWork ==
    ASSUME NEW v, Chip(v), NEW w, Work(FlushCompleted(v), w)
    PROVE  Timely(v, w)
<1> DEFINE u == FlushCompleted(v)
<1>1. /\ DrawsOnly(v, u) /\ Drawn(v, u)
      /\ \E limit \in 0..v.height : DrawnTo(v, u, limit)
  BY Flushes
<1>2. Work(u, w)
  OBVIOUS
<1> HIDE DEF u
<1>3. SameFrame(v, w) /\ SameIrq(v, w) /\ SameShape(v, w) /\ Chip(w)
  BY <1>1, <1>2 DEF DrawsOnly, Work, SameFrame, SameIrq, SameShape
<1>4. SamePicture(u, w) /\ SameFlags(u, w)
  BY <1>2 DEF Work
<1>5. Drawn(v, w)
  BY <1>1, <1>4 DEF Drawn, SamePicture
<1>6. \E limit \in 0..v.height : DrawnTo(v, w, limit)
  <2>1. PICK limit \in 0..v.height : DrawnTo(v, u, limit)
    BY <1>1
  <2>2. DrawnTo(v, w, limit)
    BY <2>1, <1>4 DEF DrawnTo, Sprited, SamePicture, SameFlags
  <2> QED BY <2>2
<1> QED BY <1>3, <1>5, <1>6 DEF Timely, Change

\* Work that leaves the VRAM alone.
LEMMA QuietWork ==
    ASSUME NEW v, Chip(v), NEW w, Work(v, w), w.vram = v.vram
    PROVE  Timely(v, w) /\ Kept(v, w)
<1>1. Kept(v, w)
  BY DEF Kept, Work, SameLook, SameSprites, SameShape, SameFrame, Shaping
<1>2. v.rendered \in 0..v.height /\ v.height \in {2, 3}
  BY DEF Chip
<1>3. DrawnTo(v, w, v.rendered)
  BY <1>2 DEF DrawnTo, Work, SamePicture, SameFlags
<1> QED BY <1>1, <1>2, <1>3 DEF Timely, Change, Work

\* A call after one that shows nothing.
LEMMA ChangeAfter ==
    ASSUME NEW u, Chip(u), NEW v, Work(u, v), v.vram = u.vram, NEW w, Change(v, w)
    PROVE  Change(u, w)
<1>1. /\ SameFrame(u, v) /\ SamePicture(u, v) /\ SameLook(u, v) /\ v.r[1] = u.r[1]
  BY QuietWork DEF Kept, Work, SameShape, Shaping
<1>2. Chip(w) /\ SameFrame(u, w)
  BY <1>1 DEF Change, SameFrame
<1>3. CASE Kept(v, w)
  <2>1. Kept(u, w)
    BY <1>1, <1>3 DEF Kept, SamePicture, SameLook, SameSprites
  <2> QED BY <1>2, <2>1 DEF Change
<1>4. CASE Drawn(v, w)
  <2>1. Completed(v) = Completed(u) /\ (V99x8(v) <=> V99x8(u))
    BY <1>1, CompletedAlike
  <2>2. \A y : LineOf(v, y) = LineOf(u, y)
    BY <1>1, LinesAlike
  <2>3. v.height = u.height /\ v.rendered = u.rendered /\ v.pixels = u.pixels
    BY <1>1 DEF SameFrame, SamePicture
  <2>4. Drawn(u, w)
    BY <1>4, <2>1, <2>2, <2>3 DEF Drawn
  <2> QED BY <1>2, <2>4 DEF Change
<1> QED BY <1>3, <1>4 DEF Change

---------------------------------------------------------------------------
(* The ports.                                                              *)

\* The interrupt line of a chip is that of its flags.
IrqOk(v) == v.irq <=> \/ v.f /\ v.r[1].ie0
                      \/ v.type = "v9938" /\ v.fh /\ v.r[0].ie1

\* What a call may do.
Call(v, w) == Change(v, w) /\ (IrqOk(v) => IrqOk(w))

\* The interrupt line stays true while flags and enables stay.
LEMMA IrqKept ==
    ASSUME NEW v, NEW w, SameIrq(v, w), w.r[0] = v.r[0], w.r[1] = v.r[1], w.type = v.type
    PROVE  IrqOk(w) <=> IrqOk(v)
BY DEF SameIrq, IrqOk

\* What time may do, a call may do; and one call after another.
LEMMA TimelyCall ==
    ASSUME NEW v, NEW w, Timely(v, w)
    PROVE  Call(v, w)
<1>1. /\ SameIrq(v, w) /\ w.r[0] = v.r[0] /\ w.r[1] = v.r[1] /\ w.type = v.type
      /\ Change(v, w)
  BY DEF Timely, SameShape, Shaping, Change, SameFrame
<1> QED BY <1>1, IrqKept DEF Call

LEMMA CallAfter ==
    ASSUME NEW u, Chip(u), NEW v, Work(u, v), v.vram = u.vram, NEW w, Call(v, w)
    PROVE  Call(u, w)
<1>1. SameIrq(u, v) /\ v.r[0] = u.r[0] /\ v.r[1] = u.r[1] /\ v.type = u.type
  BY DEF Work, SameShape, Shaping, SameFrame
<1>2. IrqOk(v) <=> IrqOk(u)
  BY <1>1, IrqKept
<1> QED BY <1>2, ChangeAfter DEF Call

\* The processor's access to VRAM, in its slot or when it is asked for.
LEMMA CpuAccess ==
    ASSUME NEW v, Chip(v)
    PROVE  Timely(v, ExecuteCpuVramAccess(v))
<1> DEFINE a == CpuVramAddress(v)
           u == FlushCompleted(v)
           Ended(x) == [IncrementVramPointer(x) EXCEPT !.cpu_pending = FALSE,
                                                       !.cpu_ticks = 0]
<1>1. ASSUME NEW x, Chip(x)
      PROVE  Work(x, Ended(x)) /\ Ended(x).vram = x.vram
  <2> DEFINE y == IncrementVramPointer(x)
  <2>1. Work(x, y) /\ Chip(y) /\ y.vram = x.vram
    BY <1>1 DEF IncrementVramPointer, Work, Chip, Fields, SameFrame, SamePicture,
         SameFlags, SameIrq, SameShape, Shaping, RegisterNumbers
  <2> HIDE DEF y
  <2>2. Work(y, [y EXCEPT !.cpu_pending = FALSE, !.cpu_ticks = 0])
        /\ [y EXCEPT !.cpu_pending = FALSE, !.cpu_ticks = 0].vram = y.vram
    BY <2>1 DEF Work, Chip, Fields, SameFrame, SamePicture, SameFlags, SameIrq, SameShape
  <2>3. Work(x, [y EXCEPT !.cpu_pending = FALSE, !.cpu_ticks = 0])
    BY <2>1, <2>2, WorkAgain
  <2> QED BY <2>1, <2>2, <2>3 DEF y
<1>2. CASE v.cpu_read
  <2> DEFINE x == [v EXCEPT !.read_buffer = v.vram[a]]
  <2>1. Work(v, x) /\ Chip(x) /\ x.vram = v.vram
    BY DEF Work, Chip, Fields, SameFrame, SamePicture, SameFlags, SameIrq, SameShape
  <2>2. ExecuteCpuVramAccess(v) = Ended(x)
    BY <1>2 DEF ExecuteCpuVramAccess
  <2> HIDE DEF x, Ended
  <2>3. Work(v, Ended(x)) /\ Ended(x).vram = v.vram
    BY <1>1, <2>1, WorkAgain
  <2> QED BY <2>2, <2>3, QuietWork
<1>3. CASE ~v.cpu_read
  <2> DEFINE x == [u EXCEPT !.vram[a] = v.read_buffer]
  <2>1. Chip(u)
    BY Flushes DEF DrawsOnly
  <2>2. ExecuteCpuVramAccess(v) = Ended(x)
    BY <1>3 DEF ExecuteCpuVramAccess
  <2> HIDE DEF u
  <2>3. Work(u, x) /\ Chip(x)
    BY <2>1 DEF Work, Chip, Fields, SameFrame, SamePicture, SameFlags, SameIrq, SameShape
  <2> HIDE DEF x, Ended
  <2>4. Work(u, Ended(x))
    BY <1>1, <2>3, WorkAgain
  <2> QED BY <2>2, <2>4, FlushAndWork DEF u
<1> QED BY <1>2, <1>3

LEMMA DataAccess ==
    ASSUME NEW v, Chip(v), NEW read, NEW value
    PROVE  Call(v, ScheduleCpuVramAccess(v, read, value))
<1> DEFINE w == [v EXCEPT !.read_buffer = IF read THEN @ ELSE value, !.cpu_read = read]
           t == AtLeastOne(VramAccessDelay(w, 1))
<1>1. Work(v, w) /\ Chip(w) /\ w.vram = v.vram /\ (V99x8(w) <=> V99x8(v))
  BY DEF Work, Chip, Fields, SameFrame, SamePicture, SameFlags, SameIrq, SameShape, V99x8
<1>h ScheduleCpuVramAccess(v, read, value) =
        IF ~V99x8(v) THEN ExecuteCpuVramAccess([w EXCEPT !.cpu_pending = TRUE])
        ELSE IF v.cpu_pending THEN w
        ELSE [w EXCEPT !.cpu_pending = TRUE, !.cpu_ticks = t]
  BY DEF ScheduleCpuVramAccess
<1>2. t \in Nat
  BY <1>1, Delay DEF Chip
<1> HIDE DEF w, t
<1>3. Call(v, w)
  BY <1>1, QuietWork, TimelyCall
<1>4. CASE ~V99x8(v)
  <2> DEFINE x == [w EXCEPT !.cpu_pending = TRUE]
  <2>1. Work(w, x) /\ Chip(x) /\ x.vram = w.vram
    BY <1>1 DEF Work, Chip, Fields, SameFrame, SamePicture, SameFlags, SameIrq, SameShape
  <2> HIDE DEF x
  <2>2. Work(v, x) /\ x.vram = v.vram
    BY <1>1, <2>1, WorkAgain
  <2>3. Call(x, ExecuteCpuVramAccess(x))
    BY <2>1, CpuAccess, TimelyCall
  <2>4. Call(v, ExecuteCpuVramAccess(x))
    BY <2>2, <2>3, CallAfter
  <2> QED BY <1>4, <1>h, <2>4 DEF x
<1>5. CASE V99x8(v) /\ ~v.cpu_pending
  <2> DEFINE x == [w EXCEPT !.cpu_pending = TRUE, !.cpu_ticks = t]
  <2>1. Work(w, x) /\ x.vram = w.vram
    BY <1>1, <1>2 DEF Work, Chip, Fields, SameFrame, SamePicture, SameFlags, SameIrq, SameShape
  <2> HIDE DEF x
  <2>2. Work(v, x) /\ x.vram = v.vram
    BY <1>1, <2>1, WorkAgain
  <2>3. Call(v, x)
    BY <2>2, QuietWork, TimelyCall
  <2> QED BY <1>5, <1>h, <2>3 DEF x
<1> QED BY <1>3, <1>4, <1>5, <1>h

\* A register is written when the lines so far are drawn.
LEMMA RegisterWritten ==
    ASSUME NEW v, Chip(v), NEW reg, NEW value, value \in RegisterValues(reg)
    PROVE  Call(v, WriteRegister(v, reg, value))
<1> DEFINE u == FlushCompleted(v)
           w == [u EXCEPT !.r[reg] = value]
           m == [w EXCEPT !.fh = @ /\ ~(V99x8(v) /\ reg = 0 /\ ~value.ie1)]
<1>1. /\ DrawsOnly(v, u) /\ Drawn(v, u)
  BY Flushes
<1>h WriteRegister(v, reg, value) =
        CASE reg \notin DOMAIN v.r -> v
          [] reg \in {0, 1} -> UpdateIrq(m)
          [] reg = 16 -> [w EXCEPT !.palette_pending = FALSE]
          [] reg = 44 -> TransferWrite(w)
          [] reg = 46 -> ExecuteCommand(w)
          [] OTHER -> w
  BY DEF WriteRegister
<1>2. Work(v, v)
  BY NoWork
<1>3. Call(v, v)
  BY <1>2, QuietWork, TimelyCall
<1> HIDE DEF u
<1>4. ASSUME reg \in DOMAIN v.r
      PROVE  /\ Chip(w) /\ SameFrame(v, w) /\ SamePicture(u, w) /\ SameIrq(v, w)
             /\ DOMAIN w.r = DOMAIN v.r
             /\ w.r[reg] = value /\ \A i \in DOMAIN v.r \ {reg} : w.r[i] = v.r[i]
  <2>1. reg = 18 => value \in Nat
    BY DEF RegisterValues
  <2>2. Chip(u) /\ SameFrame(v, u) /\ SameIrq(v, u) /\ u.r = v.r
    BY <1>1 DEF DrawsOnly
  <2> HIDE DEF w
  <2>3. /\ DOMAIN w = DOMAIN u /\ DOMAIN w.r = DOMAIN u.r
        /\ w.r[reg] = value /\ \A i \in DOMAIN u.r \ {reg} : w.r[i] = u.r[i]
        /\ \A f \in DOMAIN u : f # "r" => w[f] = u[f]
    BY <1>4, <2>2 DEF w, Chip, Fields
  <2>4. SameFrame(u, w) /\ SamePicture(u, w) /\ SameIrq(u, w)
    BY <2>2, <2>3 DEF Chip, Fields, SameFrame, SamePicture, SameIrq
  <2>5. Chip(w)
    BY <2>1, <2>2, <2>3 DEF Chip, Fields, RegisterNumbers
  <2> QED BY <2>2, <2>3, <2>4, <2>5 DEF SameFrame, SameIrq
<1> HIDE DEF w
<1>5. ASSUME reg \in DOMAIN v.r, NEW x, Work(w, x), reg \notin {0, 1}
      PROVE  Call(v, x)
  <2>1. /\ Chip(x) /\ SameFrame(v, x) /\ SamePicture(u, x) /\ SameIrq(v, x)
    BY <1>4, <1>5 DEF Work, SameFrame, SamePicture, SameIrq
  <2>2. Drawn(v, x)
    BY <1>1, <2>1 DEF Drawn, SamePicture
  <2>3. x.r[0] = v.r[0] /\ x.r[1] = v.r[1]
    <3>1. \A i \in {0, 1} : i \in DOMAIN v.r \ {reg}
      BY <1>5 DEF Chip, RegisterNumbers
    <3>2. \A i \in {0, 1} : w.r[i] = v.r[i] /\ x.r[i] = w.r[i]
      BY <1>4, <1>5, <3>1 DEF Work, SameShape, Shaping
    <3> QED BY <3>2
  <2>4. IrqOk(x) <=> IrqOk(v)
    BY <2>1, <2>3, IrqKept DEF SameFrame
  <2> QED BY <2>1, <2>2, <2>4 DEF Call, Change
<1>6. ASSUME reg \in {0, 1}, reg \in DOMAIN v.r
      PROVE  Call(v, UpdateIrq(m))
  <2>1. Chip(w)
    BY <1>4, <1>6
  <2>2. /\ Chip(m) /\ SameFrame(w, m) /\ SamePicture(w, m)
    BY <2>1 DEF Chip, Fields, SameFrame, SamePicture
  <2> HIDE DEF m
  <2>3. /\ Chip(UpdateIrq(m)) /\ SameFrame(m, UpdateIrq(m)) /\ SamePicture(m, UpdateIrq(m))
        /\ IrqOk(UpdateIrq(m))
    BY <2>2 DEF UpdateIrq, Chip, Fields, SameFrame, SamePicture, IrqOk, V99x8
  <2>4. Drawn(v, UpdateIrq(m))
    BY <1>1, <1>4, <1>6, <2>2, <2>3 DEF Drawn, SamePicture
  <2>5. SameFrame(v, UpdateIrq(m))
    BY <1>4, <1>6, <2>2, <2>3 DEF SameFrame
  <2> QED BY <2>3, <2>4, <2>5 DEF Call, Change
<1> HIDE DEF m
<1>7. ASSUME reg \in DOMAIN v.r
      PROVE  /\ Work(w, w) /\ Work(w, TransferWrite(w))
             /\ Work(w, [w EXCEPT !.palette_pending = FALSE])
             /\ reg = 46 => Work(w, ExecuteCommand(w))
  <2>1. Chip(w) /\ w.r[reg] = value
    BY <1>4, <1>7
  <2>2. reg = 46 => w.r[46].code \in Codes
    BY <2>1 DEF RegisterValues, Codes
  <2>3. Work(w, [w EXCEPT !.palette_pending = FALSE])
    BY <2>1 DEF Work, Chip, Fields, SameFrame, SamePicture, SameFlags, SameIrq, SameShape
  <2> QED BY <2>1, <2>2, <2>3, NoWork, Transfers, Commands
<1>8. CASE reg \notin DOMAIN v.r
  BY <1>3, <1>8, <1>h DEF Chip, RegisterNumbers
<1>9. CASE reg \in DOMAIN v.r /\ reg \in {0, 1}
  BY <1>6, <1>9, <1>h
<1>10. CASE reg \in DOMAIN v.r /\ reg \notin {0, 1}
  BY <1>5, <1>7, <1>10, <1>h
<1> QED BY <1>8, <1>9, <1>10

\* A call, and work after it that shows nothing.
LEMMA CallThen ==
    ASSUME NEW v, NEW u, Call(v, u), NEW w, Work(u, w), w.vram = u.vram
    PROVE  Call(v, w)
<1>1. /\ Chip(u) /\ Chip(w) /\ SameFrame(v, w)
  BY DEF Call, Change, Work, SameFrame
<1>2. /\ SamePicture(u, w) /\ SameLook(u, w)
  BY <1>1, QuietWork DEF Kept
<1>3. Kept(v, u) => Kept(v, w)
  BY <1>2 DEF Kept, SamePicture, SameLook, SameSprites
<1>4. Drawn(v, u) => Drawn(v, w)
  BY <1>2 DEF Drawn, SamePicture
<1>5. IrqOk(w) <=> IrqOk(u)
  <2>1. SameIrq(u, w) /\ w.r[0] = u.r[0] /\ w.r[1] = u.r[1] /\ w.type = u.type
    BY DEF Work, SameShape, Shaping, SameFrame
  <2> QED BY <2>1, IrqKept
<1> QED BY <1>1, <1>3, <1>4, <1>5 DEF Call, Change

\* The ports, one by one.
LEMMA ControlWritten ==
    ASSUME NEW v, Chip(v), NEW value,
           v.control_pending /\ value[2].does = "register"
               => v.control_first[2] \in RegisterValues(value[2].reg)
    PROVE  Call(v, VdpWriteControl(v, value))
<1> DEFINE w == [v EXCEPT !.control_pending = FALSE]
           a == [w EXCEPT !.address = v.control_first[2]]
           x == [v EXCEPT !.control_first = value, !.control_pending = TRUE]
<1>1. /\ Work(v, w) /\ Work(v, a) /\ Work(v, x) /\ Chip(w) /\ Chip(a)
      /\ w.vram = v.vram /\ a.vram = v.vram /\ x.vram = v.vram
  BY DEF Work, Chip, Fields, SameFrame, SamePicture, SameFlags, SameIrq, SameShape
<1>h VdpWriteControl(v, value) =
        IF ~v.control_pending THEN x
        ELSE IF value[2].does = "register"
        THEN WriteRegister(w, value[2].reg, v.control_first[2])
        ELSE IF value[2].does = "write" THEN a
        ELSE ScheduleCpuVramAccess(a, TRUE, 0)
  BY DEF VdpWriteControl
<1> HIDE DEF w, a, x
<1>2. Call(v, x) /\ Call(v, a)
  BY <1>1, QuietWork, TimelyCall
<1>3. Call(v, ScheduleCpuVramAccess(a, TRUE, 0))
  BY <1>1, DataAccess, CallAfter
<1>4. ASSUME v.control_pending, value[2].does = "register"
      PROVE  Call(v, WriteRegister(w, value[2].reg, v.control_first[2]))
  BY <1>1, <1>4, RegisterWritten, CallAfter
<1> QED BY <1>h, <1>2, <1>3, <1>4

LEMMA PaletteWritten ==
    ASSUME NEW v, Chip(v), NEW value
    PROVE  Call(v, WritePalette(v, value))
<1> DEFINE u == FlushCompleted(v)
           x == [v EXCEPT !.control_first = value, !.palette_pending = TRUE]
           w == [u EXCEPT !.palette[v.r[16]] = <<v.control_first[2], value[2]>>,
                          !.r[16] = (v.r[16] + 1) % 4, !.palette_pending = FALSE]
<1>1. Work(v, x) /\ x.vram = v.vram /\ Work(v, v)
  BY DEF Work, Chip, Fields, SameFrame, SamePicture, SameFlags, SameIrq, SameShape
<1>h WritePalette(v, value) = IF ~V99x8(v) THEN v ELSE IF ~v.palette_pending THEN x ELSE w
  BY DEF WritePalette
<1>2. Call(v, x) /\ Call(v, v)
  BY <1>1, QuietWork, TimelyCall
<1>3. DrawsOnly(v, u) /\ Drawn(v, u)
  BY Flushes
<1> HIDE DEF u
<1>4. /\ Chip(w) /\ SameFrame(u, w) /\ SamePicture(u, w) /\ SameIrq(u, w)
      /\ w.r[0] = u.r[0] /\ w.r[1] = u.r[1]
  BY <1>3 DEF DrawsOnly, Chip, Fields, SameFrame, SamePicture, SameIrq, RegisterNumbers
<1> HIDE DEF w
<1>5. Drawn(v, w) /\ SameFrame(v, w) /\ SameIrq(v, w) /\ w.r[0] = v.r[0] /\ w.r[1] = v.r[1]
  BY <1>3, <1>4 DEF Drawn, SamePicture, DrawsOnly, SameFrame, SameIrq
<1>6. IrqOk(w) <=> IrqOk(v)
  BY <1>5, IrqKept DEF SameFrame
<1>7. Call(v, w)
  BY <1>4, <1>5, <1>6 DEF Call, Change
<1> QED BY <1>h, <1>2, <1>7

LEMMA IndirectWritten ==
    ASSUME NEW v, Chip(v), NEW value,
           V99x8(v) => value[2] \in RegisterValues(v.r[17].reg)
    PROVE  Call(v, WriteIndirect(v, value))
<1> DEFINE x == [v EXCEPT !.control_first = value]
           w == WriteRegister(x, v.r[17].reg, value[2])
           y == [w EXCEPT !.r[17].reg = Following(v.r[17].reg)]
<1>1. Work(v, x) /\ x.vram = v.vram /\ Work(v, v) /\ Chip(x)
  BY DEF Work, Chip, Fields, SameFrame, SamePicture, SameFlags, SameIrq, SameShape
<1>2. WriteIndirect(v, value) = IF ~V99x8(v) THEN v ELSE IF v.r[17].hold THEN w ELSE y
  BY DEF WriteIndirect
<1>3. Call(v, v)
  BY <1>1, QuietWork, TimelyCall
<1> HIDE DEF x
<1>4. CASE V99x8(v)
  <2>1. Call(v, w)
    BY <1>1, <1>4, RegisterWritten, CallAfter
  <2>2. Chip(w)
    BY <2>1 DEF Call, Change
  <2> HIDE DEF w
  <2>3. Work(w, y) /\ y.vram = w.vram
    BY <2>2 DEF Work, Chip, Fields, SameFrame, SamePicture, SameFlags, SameIrq,
         SameShape, Shaping, RegisterNumbers
  <2>4. Call(v, y)
    BY <2>1, <2>3, CallThen
  <2> QED BY <1>2, <1>3, <2>1, <2>4
<1> QED BY <1>2, <1>3, <1>4

LEMMA DataMoved ==
    ASSUME NEW v, Chip(v), NEW value
    PROVE  Call(v, VdpWriteData(v, value)) /\ Call(v, ReadData(v))
<1>1. ASSUME NEW w, Call(v, w)
      PROVE  Call(v, [w EXCEPT !.control_pending = FALSE])
  <2>1. Chip(w)
    BY <1>1 DEF Call, Change
  <2>2. /\ Work(w, [w EXCEPT !.control_pending = FALSE])
        /\ [w EXCEPT !.control_pending = FALSE].vram = w.vram
    BY <2>1 DEF Work, Chip, Fields, SameFrame, SamePicture, SameFlags, SameIrq, SameShape
  <2> QED BY <1>1, <2>2, CallThen
<1> QED BY <1>1, DataAccess DEF VdpWriteData, ReadData

\* The interrupt line told anew, on a chip that shows the same.
LEMMA Updated ==
    ASSUME NEW v, Chip(v), NEW w, Chip(w), SameFrame(v, w), SamePicture(v, w),
           w.r = v.r, w.vram = v.vram, w.palette = v.palette
    PROVE  /\ Call(v, UpdateIrq(w)) /\ IrqOk(UpdateIrq(w)) /\ Kept(v, UpdateIrq(w))
           /\ UpdateIrq(w).r = v.r /\ UpdateIrq(w).f = w.f /\ SameFlags(w, UpdateIrq(w))
<1> DEFINE x == UpdateIrq(w)
<1>1. /\ Chip(x) /\ SameFrame(w, x) /\ SamePicture(w, x) /\ IrqOk(x)
      /\ x.r = w.r /\ x.vram = w.vram /\ x.palette = w.palette
      /\ x.f = w.f /\ SameFlags(w, x)
  BY DEF UpdateIrq, Chip, Fields, SameFrame, SamePicture, IrqOk, V99x8, SameFlags
<1> HIDE DEF x
<1>2. SameFrame(v, x) /\ Kept(v, x)
  BY <1>1 DEF SameFrame, SamePicture, Kept, SameLook, SameSprites
<1> QED BY <1>1, <1>2 DEF Call, Change, x

LEMMA StatusRead ==
    ASSUME NEW v, Chip(v)
    PROVE  Call(v, ReadStatus(v))
<1> DEFINE reg == IF V99x8(v) THEN v.r[15] ELSE 0
           w == [v EXCEPT !.control_pending = FALSE]
           x == [w EXCEPT !.f = FALSE, !.s5 = FALSE, !.c = FALSE]
           y == [w EXCEPT !.fh = FALSE]
           p == [w EXCEPT !.collision = <<>>]
           q == [w EXCEPT !.bd = FALSE]
<1>1. /\ Work(v, w) /\ Chip(w) /\ w.vram = v.vram
  BY DEF Work, Chip, Fields, SameFrame, SamePicture, SameFlags, SameIrq, SameShape
<1>2. /\ Chip(x) /\ SameFrame(v, x) /\ SamePicture(v, x)
      /\ x.r = v.r /\ x.vram = v.vram /\ x.palette = v.palette
  BY DEF Chip, Fields, SameFrame, SamePicture
<1>3. /\ Chip(y) /\ SameFrame(v, y) /\ SamePicture(v, y)
      /\ y.r = v.r /\ y.vram = v.vram /\ y.palette = v.palette
  BY DEF Chip, Fields, SameFrame, SamePicture
<1>4. /\ Chip(p) /\ SameFrame(v, p) /\ SamePicture(v, p) /\ SameIrq(v, p)
      /\ p.r = v.r /\ p.vram = v.vram /\ p.palette = v.palette
  BY DEF Chip, Fields, SameFrame, SamePicture, SameIrq
<1>5. Work(v, q) /\ q.vram = v.vram
  BY DEF Work, Chip, Fields, SameFrame, SamePicture, SameFlags, SameIrq, SameShape
<1>h ReadStatus(v) = CASE reg = 0 -> UpdateIrq(x)
                       [] reg = 1 -> UpdateIrq(y)
                       [] reg = 5 -> p
                       [] reg = 7 -> ReadColour(w)
                       [] reg = 9 -> q
                       [] OTHER -> w
  BY DEF ReadStatus
<1> HIDE DEF reg, w, x, y, p, q
<1>6. Call(v, UpdateIrq(x)) /\ Call(v, UpdateIrq(y))
  BY <1>2, <1>3, Updated
<1>7. Call(v, p)
  <2>1. IrqOk(p) <=> IrqOk(v)
    BY <1>4, IrqKept DEF SameFrame
  <2>2. Kept(v, p)
    BY <1>4 DEF Kept, SameLook, SameSprites, SameFrame
  <2> QED BY <1>4, <2>1, <2>2 DEF Call, Change
<1>8. Call(v, q) /\ Call(v, w)
  BY <1>1, <1>5, QuietWork, TimelyCall
<1>9. Call(v, ReadColour(w))
  <2>1. Work(w, ReadColour(w))
    BY <1>1, Transfers
  <2>2. ReadColour(w).vram = w.vram
    BY <1>1, ReadShows
  <2> QED BY <1>8, <2>1, <2>2, CallThen
<1> QED BY <1>h, <1>6, <1>7, <1>8, <1>9

\* Any access to a port.
LEMMA Accessed ==
    ASSUME NEW v, Chip(v), NEW op, Fits(v, op)
    PROVE  Call(v, Access(v, op))
<1>1. op.port = "control" => Call(v, VdpWriteControl(v, op.value))
  <2> SUFFICES ASSUME op.port = "control" PROVE Call(v, VdpWriteControl(v, op.value))
    OBVIOUS
  <2>1. v.control_pending /\ op.value[2].does = "register"
          => Written(v, op) = {<<op.value[2].reg, v.control_first[2]>>}
    BY DEF Written
  <2>2. v.control_pending /\ op.value[2].does = "register"
          => v.control_first[2] \in RegisterValues(op.value[2].reg)
    <3> SUFFICES ASSUME v.control_pending /\ op.value[2].does = "register"
                 PROVE  v.control_first[2] \in RegisterValues(op.value[2].reg)
      OBVIOUS
    <3>1. \A w \in {<<op.value[2].reg, v.control_first[2]>>} : w[2] \in RegisterValues(w[1])
      BY <2>1 DEF Fits
    <3> QED BY <3>1
  <2> QED BY <2>2, ControlWritten
<1>2. op.port = "indirect" => Call(v, WriteIndirect(v, op.value))
  <2> SUFFICES ASSUME op.port = "indirect" PROVE Call(v, WriteIndirect(v, op.value))
    OBVIOUS
  <2>1. V99x8(v) => Written(v, op) = {<<v.r[17].reg, op.value[2]>>}
    BY DEF Written
  <2>2. V99x8(v) => op.value[2] \in RegisterValues(v.r[17].reg)
    <3> SUFFICES ASSUME V99x8(v) PROVE op.value[2] \in RegisterValues(v.r[17].reg)
      OBVIOUS
    <3>1. \A w \in {<<v.r[17].reg, op.value[2]>>} : w[2] \in RegisterValues(w[1])
      BY <2>1 DEF Fits
    <3> QED BY <3>1
  <2> QED BY <2>2, IndirectWritten
<1>3. Call(v, WritePalette(v, op.value)) /\ Call(v, ReadStatus(v))
  BY PaletteWritten, StatusRead
<1>4. Call(v, VdpWriteData(v, op.value[2])) /\ Call(v, ReadData(v))
  BY DataMoved
<1> QED BY <1>1, <1>2, <1>3, <1>4 DEF Access

---------------------------------------------------------------------------
(* Time.                                                                   *)

\* Time after work that shows nothing.
LEMMA TimelyAfter ==
    ASSUME NEW u, Chip(u), NEW v, Work(u, v), v.vram = u.vram, NEW w, Timely(v, w)
    PROVE  Timely(u, w)
<1>1. Change(u, w)
  BY ChangeAfter DEF Timely
<1>2. SameIrq(u, w) /\ SameShape(u, w)
  BY DEF Timely, Work, SameIrq, SameShape
<1>3. /\ SameFrame(u, v) /\ SamePicture(u, v) /\ SameFlags(u, v) /\ SameIrq(u, v)
      /\ SameLook(u, v) /\ SameSprites(u, v) /\ v.r[1] = u.r[1] /\ v.r[8] = u.r[8]
  BY QuietWork DEF Kept, Work, SameLook, SameSprites
<1>4. PICK limit \in 0..v.height : DrawnTo(v, w, limit)
  BY DEF Timely
<1>5. \A y : LineOf(v, y) = LineOf(u, y)
  BY <1>3, LinesAlike
<1>6. /\ v.rendered = u.rendered /\ v.height = u.height /\ v.pixels = u.pixels
      /\ v.f = u.f /\ v.s5 = u.s5 /\ v.fifth = u.fifth /\ v.c = u.c
      /\ v.collision = u.collision /\ v.sprites = u.sprites
  BY <1>3 DEF SameFrame, SamePicture, SameFlags, SameIrq
<1>7. SpritesOn(v) <=> SpritesOn(u)
  <2>1. SpriteMode(v) = SpriteMode(u) /\ (V99x8(v) <=> V99x8(u))
    BY <1>3, SpritesAlike
  <2> QED BY <1>3, <2>1 DEF SpritesOn
<1>8. Sprited(v, w, v.rendered, limit) <=> Sprited(u, w, u.rendered, limit)
  <2>1. /\ FirstSurplus(v, u.rendered, limit) = FirstSurplus(u, u.rendered, limit)
        /\ Hit(v, u.rendered, limit) = Hit(u, u.rendered, limit)
        /\ FirstHit(v, u.rendered, limit) = FirstHit(u, u.rendered, limit)
    BY <1>3, SurplusAlike
  <2> QED BY <1>6, <2>1 DEF Sprited
<1>9. DrawnTo(u, w, limit)
  BY <1>4, <1>5, <1>6, <1>7, <1>8 DEF DrawnTo, SameFlags
<1> QED BY <1>1, <1>2, <1>6, <1>9 DEF Timely

\* The beam moves on, and nothing else of what shows.
Moved(v, w) ==
    /\ Chip(w) /\ v.beam <= w.beam /\ w.beam <= FrameTicks
    /\ w.line_zero = v.line_zero /\ w.height = v.height
    /\ SamePicture(v, w) /\ SameFlags(v, w) /\ SameIrq(v, w)
    /\ SameLook(v, w) /\ w.r = v.r

\* Time is taken from what waits for a slot, never more than is left.
LEMMA BeamAdvances ==
    ASSUME NEW v, Chip(v), v.beam <= FrameTicks, NEW n \in Nat,
           v.event # "none" => n <= v.event_ticks,
           v.cpu_pending => n <= v.cpu_ticks
    PROVE  Moved(v, AdvanceBeam(v, n))
<1> DEFINE w == AdvanceBeam(v, n)
<1>1. /\ DOMAIN w = Fields
      /\ \A f \in Fields \ {"beam", "event_ticks", "cpu_ticks"} : w[f] = v[f]
      /\ w.beam = IF v.beam + n < FrameTicks THEN v.beam + n ELSE FrameTicks
      /\ w.event_ticks = IF v.event = "none" THEN v.event_ticks ELSE v.event_ticks - n
      /\ w.cpu_ticks = IF v.cpu_pending THEN v.cpu_ticks - n ELSE v.cpu_ticks
  BY DEF AdvanceBeam, Chip, Fields
<1> HIDE DEF w
<1>2. w.beam \in Nat /\ v.beam <= w.beam /\ w.beam <= FrameTicks
  BY <1>1 DEF Chip, FrameTicks, TicksPerLine, Scanlines
<1>3. w.event_ticks \in Nat /\ w.cpu_ticks \in Nat
  BY <1>1 DEF Chip
<1>4. /\ w.r = v.r /\ w.line_zero = v.line_zero /\ w.height = v.height
      /\ w.type = v.type /\ w.sprites = v.sprites /\ w.vram = v.vram
      /\ w.palette = v.palette /\ w.width = v.width
      /\ SamePicture(v, w) /\ SameFlags(v, w) /\ SameIrq(v, w)
  BY <1>1 DEF Fields, SamePicture, SameFlags, SameIrq
<1>5. Chip(w)
  BY <1>1, <1>2, <1>3, <1>4 DEF Chip, SamePicture
<1> QED BY <1>2, <1>4, <1>5 DEF Moved, SameLook, SameSprites, w

LEMMA NextSlot ==
    ASSUME NEW v, Chip(v)
    PROVE  /\ NextTicks(v) \in Nat
           /\ v.event # "none" => NextTicks(v) <= v.event_ticks
           /\ v.cpu_pending => NextTicks(v) <= v.cpu_ticks
<1> DEFINE S == {FrameTicks} \cup (IF v.event = "none" THEN {} ELSE {v.event_ticks})
                             \cup (IF v.cpu_pending THEN {v.cpu_ticks} ELSE {})
<1>1. S \in SUBSET Nat /\ S # {}
  BY DEF Chip, FrameTicks, TicksPerLine, Scanlines
<1>2. (v.event # "none" => v.event_ticks \in S) /\ (v.cpu_pending => v.cpu_ticks \in S)
  OBVIOUS
<1>3. NextTicks(v) = Min(S)
  BY DEF NextTicks
<1> HIDE DEF S
<1>4. Min(S) \in S /\ \A n \in S : Min(S) <= n
  BY <1>1, Least
<1> QED BY <1>1, <1>2, <1>3, <1>4

\* A slot brings an access of the processor, an event, or nothing.
LEMMA Slots ==
    ASSUME NEW v, Chip(v)
    PROVE  Timely(v, AtSlot(v))
<1> DEFINE g == GiveWay(v)
<1>1. Work(v, g) /\ g.vram = v.vram /\ Chip(g)
  <2>1. AtLeastOne(VramAccessDelay(v, 1)) \in Nat
    BY Delay DEF Chip
  <2> QED BY <2>1 DEF GiveWay, Work, Chip, Fields, SameFrame, SamePicture, SameFlags,
                      SameIrq, SameShape
<1> HIDE DEF g
<1>2. Timely(v, ExecuteCpuVramAccess(g))
  BY <1>1, CpuAccess, TimelyAfter
<1>3. Timely(v, ExecuteEvent(v))
  <2>1. Chip(FlushCompleted(v))
    BY Flushes DEF DrawsOnly
  <2>2. Work(FlushCompleted(v), EventOf(v.event, FlushCompleted(v)))
    BY <2>1, Events
  <2> QED BY <2>2, EventIs, FlushAndWork
<1>4. Timely(v, v)
  BY NoWork, QuietWork
<1> QED BY <1>2, <1>3, <1>4 DEF AtSlot, g

\* What the end of an instruction and of a frame have in common: flags of
\* the frame and of the line interrupt besides lines drawn.
Closed(v, w) ==
    /\ Change(v, w) /\ (IrqOk(v) => IrqOk(w)) /\ w.r = v.r
    /\ \E limit \in 0..v.height : DrawnTo(v, w, limit)

\* After the lines are drawn, nothing that shows changes.
LEMMA DrawnThen ==
    ASSUME NEW v, Chip(v), NEW u, Drawn(v, u), DrawsOnly(v, u),
           NEW limit, DrawnTo(v, u, limit), NEW w, Chip(w),
           SameFrame(u, w), SamePicture(u, w), SameFlags(u, w)
    PROVE  Change(v, w) /\ DrawnTo(v, w, limit)
<1>1. SameFrame(v, w)
  BY DEF DrawsOnly, SameFrame
<1>2. Drawn(v, w)
  BY DEF Drawn, SamePicture
<1>3. DrawnTo(v, w, limit)
  BY DEF DrawnTo, Sprited, SamePicture, SameFlags
<1> QED BY <1>1, <1>2, <1>3 DEF Change

\* The end of an instruction.
LEMMA InstructionEnded ==
    ASSUME NEW v, Chip(v), NEW n
    PROVE  Closed(v, EndAdvance(v, n)) /\ EndAdvance(v, n).f = v.f
<1> DEFINE u == FlushCompleted(v)
           h == [u EXCEPT !.fh = TRUE]
           l == LatchHscan(u, n)
           c == [l EXCEPT !.cycle = (@ + n) % FrameTicks]
           w == UpdateRetrace(c)
<1>1. PICK limit \in 0..v.height : DrawnTo(v, u, limit)
  BY Flushes
<1>2. DrawsOnly(v, u) /\ Drawn(v, u)
  BY Flushes
<1>3. EndAdvance(v, n) = w
  BY DEF EndAdvance
<1> HIDE DEF u
<1>4. Chip(u) /\ (IrqOk(v) => IrqOk(u)) /\ u.f = v.f /\ u.r = v.r
  <2>1. Chip(u) /\ SameIrq(v, u) /\ u.r = v.r /\ u.type = v.type
    BY <1>2 DEF DrawsOnly, SameFrame
  <2> QED BY <2>1, IrqKept DEF SameIrq
<1>5. /\ Chip(l) /\ SameFrame(u, l) /\ SamePicture(u, l) /\ SameFlags(u, l)
      /\ l.f = u.f /\ l.r = u.r /\ (IrqOk(u) => IrqOk(l))
  <2>1. /\ Chip(h) /\ SameFrame(u, h) /\ SamePicture(u, h) /\ SameFlags(u, h)
        /\ h.f = u.f /\ h.r = u.r
    BY <1>4 DEF Chip, Fields, SameFrame, SamePicture, SameFlags
  <2> DEFINE i == UpdateIrq(h)
  <2>2. l = i \/ l = u
    BY DEF LatchHscan
  <2> HIDE DEF h, l
  <2>3. /\ Chip(i) /\ SameFrame(h, i) /\ SamePicture(h, i) /\ SameFlags(h, i)
        /\ i.f = h.f /\ i.r = h.r /\ IrqOk(i)
    BY <2>1 DEF UpdateIrq, Chip, Fields, SameFrame, SamePicture, IrqOk, V99x8, SameFlags
  <2> HIDE DEF i
  <2>4. CASE l = u
    BY <1>4, <2>4 DEF SameFrame, SamePicture, SameFlags
  <2>5. CASE l = i
    BY <2>1, <2>3, <2>5 DEF SameFrame, SamePicture, SameFlags
  <2> QED BY <2>2, <2>4, <2>5
<1> HIDE DEF l
<1>6. /\ Chip(c) /\ SameFrame(l, c) /\ SamePicture(l, c) /\ SameFlags(l, c)
      /\ c.f = l.f /\ c.r = l.r /\ SameIrq(l, c)
  BY <1>5 DEF Chip, Fields, SameFrame, SamePicture, SameFlags, SameIrq
<1> HIDE DEF c
<1>7. /\ Chip(w) /\ SameFrame(c, w) /\ SamePicture(c, w) /\ SameFlags(c, w)
      /\ w.f = c.f /\ w.r = c.r /\ SameIrq(c, w)
  BY <1>6 DEF UpdateRetrace, Chip, Fields, SameFrame, SamePicture, SameFlags, SameIrq
<1> HIDE DEF w
<1>8. SameFrame(u, w) /\ SamePicture(u, w) /\ SameFlags(u, w)
  BY <1>5, <1>6, <1>7 DEF SameFrame, SamePicture, SameFlags
<1>9. IrqOk(l) => IrqOk(w)
  <2>1. SameIrq(l, w) /\ w.r = l.r /\ w.type = l.type
    BY <1>6, <1>7 DEF SameIrq, SameFrame
  <2> QED BY <2>1, IrqKept
<1>10. Change(v, w) /\ DrawnTo(v, w, limit)
  BY <1>1, <1>2, <1>7, <1>8, DrawnThen
<1> QED BY <1>1, <1>3, <1>4, <1>5, <1>6, <1>7, <1>9, <1>10 DEF Closed

\* At the end of a frame the picture is whole, and F is set.
LEMMA Flagged ==
    ASSUME NEW u, Chip(u)
    PROVE  LET w == UpdateIrq([u EXCEPT !.f = TRUE]) IN
           /\ Chip(w) /\ SameFrame(u, w) /\ SamePicture(u, w) /\ SameFlags(u, w)
           /\ w.r = u.r /\ IrqOk(w)
<1> DEFINE h == [u EXCEPT !.f = TRUE]
           w == UpdateIrq(h)
<1>1. /\ Chip(h) /\ SameFrame(u, h) /\ SamePicture(u, h) /\ SameFlags(u, h) /\ h.r = u.r
  BY DEF Chip, Fields, SameFrame, SamePicture, SameFlags
<1> HIDE DEF h
<1>2. /\ Chip(w) /\ SameFrame(h, w) /\ SamePicture(h, w) /\ SameFlags(h, w)
      /\ w.r = h.r /\ IrqOk(w)
  BY <1>1 DEF UpdateIrq, Chip, Fields, SameFrame, SamePicture, IrqOk, V99x8, SameFlags
<1> HIDE DEF w
<1>3. /\ Chip(w) /\ SameFrame(u, w) /\ SamePicture(u, w) /\ SameFlags(u, w)
      /\ w.r = u.r /\ IrqOk(w)
  BY <1>1, <1>2 DEF SameFrame, SamePicture, SameFlags
<1> QED BY <1>3 DEF w, h

\* The V9938 has drawn its frame at the end.
LEMMA FrameEnded ==
    ASSUME NEW v, Chip(v), V99x8(v)
    PROVE  Closed(v, EndFrame(v)) /\ EndFrame(v).rendered = v.height
<1> DEFINE u == RenderToLine(v, v.height)
           w == UpdateIrq([u EXCEPT !.f = TRUE])
<1>1. v.height \in {2, 3} /\ v.height \in Int
  BY DEF Chip
<1>2. DrawsOnly(v, u) /\ DrawnTo(v, u, v.height)
  BY <1>1, Renders
<1>3. EndFrame(v) = w
  BY DEF EndFrame
<1> HIDE DEF u
<1>4. /\ Chip(w) /\ SameFrame(u, w) /\ SamePicture(u, w) /\ SameFlags(u, w)
      /\ w.r = u.r /\ IrqOk(w)
  BY <1>2, Flagged DEF DrawsOnly
<1> HIDE DEF w
<1>5. Drawn(v, u)
  BY <1>1, <1>2 DEF Drawn, DrawnTo
<1>6. Change(v, w) /\ DrawnTo(v, w, v.height)
  BY <1>2, <1>4, <1>5, DrawnThen
<1>7. w.r = v.r /\ w.rendered = v.height
  BY <1>2, <1>4 DEF DrawsOnly, DrawnTo, SamePicture
<1> QED BY <1>1, <1>3, <1>4, <1>6, <1>7 DEF Closed

\* The TMS9918 draws the frame at its end.
LEMMA FrameEndedAtOnce ==
    ASSUME NEW v, Chip(v), ~V99x8(v), v.rendered = 0
    PROVE  LET w == EndFrame(v) IN
           \E z : /\ Chip(z) /\ SameSprites(v, z) /\ SameFlags(v, z) /\ z.f = v.f
                  /\ z.rendered = 0 /\ DrawnTo(z, w, z.height) /\ w.height = z.height
                  /\ Chip(w) /\ SameSprites(v, w) /\ w.beam = v.beam /\ w.type = v.type
                  /\ IrqOk(w)
<1> DEFINE g == ConfigureGeometry(v)
           z == [g EXCEPT !.rendered = 0]
           u == RenderToLine(z, g.height)
           w == UpdateIrq([u EXCEPT !.f = TRUE])
<1>1. EndFrame(v) = w
  BY DEF EndFrame, RenderAll
<1>2. /\ Chip(g) /\ g.type = v.type /\ g.sprites = v.sprites /\ g.beam = v.beam
      /\ SameFlags(v, g) /\ g.f = v.f /\ g.r = v.r /\ g.rendered = 0
  BY DEF ConfigureGeometry, Chip, Fields, SameFlags
<1> HIDE DEF g
<1>3. /\ Chip(z) /\ z.type = g.type /\ z.sprites = g.sprites /\ z.beam = g.beam
      /\ SameFlags(g, z) /\ z.f = g.f /\ z.r = g.r /\ z.rendered = 0 /\ z.height = g.height
  BY <1>2 DEF Chip, Fields, SameFlags
<1> HIDE DEF z
<1>4. z.height \in {2, 3} /\ z.height \in Int
  BY <1>3 DEF Chip
<1>5. DrawsOnly(z, u) /\ DrawnTo(z, u, z.height)
  BY <1>3, <1>4, Renders
<1> HIDE DEF u
<1>6. /\ Chip(w) /\ SameFrame(u, w) /\ SamePicture(u, w) /\ SameFlags(u, w)
      /\ w.r = u.r /\ IrqOk(w)
  BY <1>5, Flagged DEF DrawsOnly
<1> HIDE DEF w
<1>7. DrawnTo(z, w, z.height)
  BY <1>5, <1>6 DEF DrawnTo, Sprited, SamePicture, SameFlags
<1>8. SameSprites(v, z) /\ SameFlags(v, z) /\ z.f = v.f
  BY <1>2, <1>3 DEF SameSprites, SameFlags
<1>9. /\ w.r = v.r /\ w.type = v.type /\ w.sprites = v.sprites /\ w.beam = v.beam
      /\ w.height = z.height
  BY <1>2, <1>3, <1>5, <1>6 DEF DrawsOnly, SameFrame
<1>10. SameSprites(v, w)
  BY <1>9 DEF SameSprites
<1> QED BY <1>1, <1>3, <1>6, <1>7, <1>8, <1>9, <1>10

\* A frame begins with nothing drawn.
LEMMA FrameBegun ==
    ASSUME NEW v, Chip(v)
    PROVE  LET w == BeginFrame(v) IN
           /\ Chip(w) /\ w.rendered = 0 /\ w.beam = 0 /\ w.type = v.type
           /\ IrqOk(v) => IrqOk(w)
<1> DEFINE a == [v EXCEPT !.cycle = 0, !.beam = 0]
           b == ConfigureGeometry(a)
           l == IF V99x8(v) THEN LineZero(v) ELSE 0
           c == [b EXCEPT !.line_zero = l, !.rendered = 0]
           w == UpdateRetrace(c)
<1>1. BeginFrame(v) = w
  BY DEF BeginFrame
<1>2. l \in Nat
  BY DEF LineZero, Chip
<1> HIDE DEF l
<1>3. /\ Chip(a) /\ SameIrq(v, a) /\ a.r = v.r /\ a.type = v.type /\ a.beam = 0
      /\ a.rendered \in {0, 1, 2, 3}
  BY DEF Chip, Fields, SameIrq
<1> HIDE DEF a
<1>4. /\ DOMAIN b = Fields /\ b.height \in {2, 3} /\ b.rendered = a.rendered
      /\ \A f \in Fields \ {"width", "height"} : b[f] = a[f]
  BY <1>3 DEF ConfigureGeometry, Chip, Fields
<1> HIDE DEF b
<1>5. /\ DOMAIN c = Fields /\ c.height = b.height /\ c.rendered = 0 /\ c.line_zero = l
      /\ \A f \in Fields \ {"line_zero", "rendered", "width", "height"} : c[f] = a[f]
  BY <1>4 DEF Fields
<1> HIDE DEF c
<1>6. Chip(c) /\ SameIrq(a, c) /\ c.r = a.r /\ c.type = a.type /\ c.beam = a.beam
  BY <1>2, <1>3, <1>4, <1>5 DEF Chip, Fields, SameIrq
<1>7. /\ Chip(w) /\ SameIrq(c, w) /\ w.r = c.r /\ w.type = c.type /\ w.beam = c.beam
      /\ w.rendered = c.rendered
  BY <1>6 DEF UpdateRetrace, Chip, Fields, SameIrq
<1> HIDE DEF w
<1>8. SameIrq(v, w) /\ w.r = v.r /\ w.type = v.type /\ w.beam = 0 /\ w.rendered = 0
  BY <1>3, <1>5, <1>6, <1>7 DEF SameIrq
<1> QED BY <1>1, <1>7, <1>8, IrqKept

---------------------------------------------------------------------------
(* The flags of the sprites, and what the beam saw.                        *)

\* The flags tell of the lines drawn so far.
FlagsOk(v) ==
    LET over == Over(v, 0, v.rendered)
        hit == Hit(v, 0, v.rendered)
    IN  /\ v.s5 <=> over # {}
        /\ v.fifth = IF over = {} THEN Len(v.sprites) + 1
                     ELSE Min(Surplus(v, Min(over)))
        /\ v.c <=> hit # {}
        /\ hit # {} => v.collision[2] = Min(hit)

\* Of two sets the one with the smaller numbers has the least.
LEMMA LeastOfTwo ==
    ASSUME NEW A \in SUBSET Nat, NEW D \in SUBSET Nat, \A a \in A, b \in D : a < b
    PROVE  Min(A \cup D) = IF A = {} THEN Min(D) ELSE Min(A)
<1>1. CASE A = {}
  <2>1. A \cup D = D
    BY <1>1
  <2> QED BY <1>1, <2>1
<1>2. CASE A # {}
  <2> DEFINE a == Min(A)
             u == Min(A \cup D)
  <2>1. /\ a \in A /\ \A n \in A : a <= n
        /\ u \in A \cup D /\ \A n \in A \cup D : u <= n
    <3>1. A \cup D \in SUBSET Nat /\ A \cup D # {}
      BY <1>2
    <3> QED BY <1>2, <3>1, Least
  <2> HIDE DEF a, u
  <2>2. a \in Nat /\ u \in Nat /\ u <= a
    BY <2>1
  <2>3. u \in D => a <= u
    BY <2>1, <2>2
  <2>4. u = a
    BY <2>1, <2>2, <2>3
  <2> QED BY <1>2, <2>4 DEF a, u
<1> QED BY <1>1, <1>2

\* Lines drawn in pieces leave the flags of all of them.
LEMMA FlagsOfPieces ==
    ASSUME NEW v, Chip(v), NEW w, NEW limit \in 0..v.height, DrawnTo(v, w, limit),
           SameSprites(v, w), SpritesOn(v), ~v.f, w.rendered > 0,
           v.rendered = 0 => ~v.s5 /\ ~v.c,
           v.rendered > 0 => FlagsOk(v)
    PROVE  FlagsOk(w)
<1> DEFINE r == v.rendered
           A == Over(v, 0, r)
           D == Over(v, r, limit)
           H == Hit(v, 0, r)
           K == Hit(v, r, limit)
<1>1. /\ r \in Nat /\ r <= limit /\ limit \in Nat /\ limit = w.rendered /\ 0 < limit
      /\ v.height \in {2, 3}
  BY DEF Chip, DrawnTo
<1>2. /\ Over(w, 0, limit) = Over(v, 0, limit) /\ Hit(w, 0, limit) = Hit(v, 0, limit)
      /\ (\A y : Surplus(w, y) = Surplus(v, y)) /\ w.sprites = v.sprites
  BY SurplusAlike, SpritesAlike DEF SameSprites
<1>3. /\ Over(v, 0, limit) = A \cup D /\ Hit(v, 0, limit) = H \cup K
      /\ A \in SUBSET Nat /\ D \in SUBSET Nat /\ H \in SUBSET Nat /\ K \in SUBSET Nat
      /\ (\A a \in A, b \in D : a < b) /\ (\A a \in H, b \in K : a < b)
  <2>1. 0..(limit - 1) = 0..(r - 1) \cup r..(limit - 1)
    BY <1>1
  <2>2. /\ \A y \in 0..(r - 1), z \in r..(limit - 1) : y \in Nat /\ z \in Nat /\ y < z
    BY <1>1
  <2>3. /\ A \subseteq 0..(r - 1) /\ D \subseteq r..(limit - 1)
        /\ H \subseteq 0..(r - 1) /\ K \subseteq r..(limit - 1)
    BY DEF Over, Hit
  <2>4. A \in SUBSET Nat /\ D \in SUBSET Nat /\ H \in SUBSET Nat /\ K \in SUBSET Nat
    BY <1>1, <2>3
  <2>5. (\A a \in A, b \in D : a < b) /\ (\A a \in H, b \in K : a < b)
    BY <2>2, <2>3
  <2>6. Over(v, 0, limit) = A \cup D /\ Hit(v, 0, limit) = H \cup K
    BY <2>1 DEF Over, Hit
  <2> QED BY <2>4, <2>5, <2>6
<1>4. (A = {} /\ H = {}) \/ r > 0
  BY <1>1 DEF Over, Hit
<1>5. /\ Min(A \cup D) = IF A = {} THEN Min(D) ELSE Min(A)
      /\ Min(H \cup K) = IF H = {} THEN Min(K) ELSE Min(H)
  BY <1>3, LeastOfTwo
<1>6. FirstSurplus(v, r, limit) # {} <=> D # {}
  <2>1. D # {} => Min(D) \in D
    BY <1>3, Least
  <2>2. D # {} => Surplus(v, Min(D)) # {}
    BY <2>1 DEF Over
  <2> QED BY <2>2 DEF FirstSurplus
<1>7. /\ v.s5 <=> A # {}
      /\ A # {} => v.fifth = Min(Surplus(v, Min(A)))
      /\ v.c <=> H # {}
      /\ H # {} => v.collision[2] = Min(H)
      /\ 0 < r /\ A = {} => v.fifth = Len(v.sprites) + 1
  <2>1. CASE r = 0
    BY <1>1, <1>4, <2>1
  <2>2. CASE r > 0
    BY <2>2 DEF FlagsOk
  <2> QED BY <1>1, <2>1, <2>2
<1>8. CASE r = limit
  <2>1. SameFlags(v, w) /\ D = {} /\ K = {}
    BY <1>1, <1>8 DEF DrawnTo, Over, Hit
  <2>2. FlagsOk(v) /\ Over(v, 0, r) = A /\ Hit(v, 0, r) = H
    BY <1>1, <1>8
  <2> QED BY <1>1, <1>2, <1>8, <2>1, <2>2 DEF FlagsOk, SameFlags
<1>9. CASE r < limit
  <2>1. Sprited(v, w, r, limit)
    BY <1>9 DEF DrawnTo
  <2>2. /\ w.s5 = (v.s5 \/ D # {})
        /\ w.fifth = IF v.s5 THEN v.fifth
                     ELSE IF D = {} THEN Len(v.sprites) + 1
                     ELSE Min(Surplus(v, Min(D)))
        /\ w.c = (v.c \/ K # {})
        /\ w.collision = IF K = {} \/ v.c THEN v.collision ELSE FirstHit(v, r, limit)
    BY <1>6, <2>1 DEF Sprited, FirstSurplus
  <2>3. FirstHit(v, r, limit)[2] = Min(K)
    BY DEF FirstHit
  <2> DEFINE O == A \cup D
             L == H \cup K
  <2>4. w.s5 <=> O # {}
    BY <1>7, <2>2
  <2>5. w.fifth = IF O = {} THEN Len(v.sprites) + 1 ELSE Min(Surplus(v, Min(O)))
    BY <1>5, <1>7, <2>2
  <2>6. w.c <=> L # {}
    BY <1>7, <2>2
  <2>7. L # {} => w.collision[2] = Min(L)
    BY <1>5, <1>7, <2>2, <2>3
  <2>8. /\ Over(w, 0, w.rendered) = O /\ Hit(w, 0, w.rendered) = L
    BY <1>1, <1>2, <1>3
  <2> HIDE DEF O, L, A, D, H, K
  <2> QED BY <1>2, <2>4, <2>5, <2>6, <2>7, <2>8 DEF FlagsOk
<1> QED BY <1>1, <1>8, <1>9

\* The lines the beam has passed: drawn as it saw them, or still to draw,
\* and then they would look as it saw them.
SeenOk(v, s) ==
    /\ ~V99x8(v) => DOMAIN s = {}
    /\ \A y \in DOMAIN s :
          /\ y \in 0..(v.height - 1)
          /\ y < v.rendered => v.pixels[y] = s[y]
          /\ ~(y < v.rendered) => y < Completed(v) /\ s[y] = LineOf(v, y)

\* A change keeps what the beam saw.
LEMMA StillSeen ==
    ASSUME NEW v, Chip(v), NEW s, SeenOk(v, s), NEW w, Change(v, w)
    PROVE  SeenOk(w, s)
<1>1. Chip(w) /\ SameFrame(v, w) /\ w.height = v.height /\ (V99x8(w) <=> V99x8(v))
  BY DEF Change, SameFrame, V99x8
<1>2. CASE Kept(v, w)
  <2>1. w.r[1] = v.r[1] /\ w.rendered = v.rendered /\ w.pixels = v.pixels
    BY <1>2 DEF Kept, SameLook, SameSprites, SamePicture
  <2>2. Completed(w) = Completed(v)
    BY <1>1, <2>1, CompletedAlike
  <2>3. \A y : LineOf(w, y) = LineOf(v, y)
    BY <1>2, LinesAlike DEF Kept
  <2> QED BY <1>1, <2>1, <2>2, <2>3 DEF SeenOk
<1>3. CASE Drawn(v, w)
  <2>1. PICK limit \in 0..v.height :
          /\ w.rendered = limit /\ v.rendered <= limit
          /\ \A y \in 0..2 : w.pixels[y] = IF y \in v.rendered..(limit - 1)
                                           THEN LineOf(v, y) ELSE v.pixels[y]
          /\ IF V99x8(v) THEN Completed(v) <= limit \/ limit = v.height
             ELSE limit = v.rendered
    BY <1>3 DEF Drawn
  <2>2. ASSUME NEW y \in DOMAIN s
        PROVE  y \in 0..(v.height - 1) /\ y < w.rendered /\ w.pixels[y] = s[y]
    <3>1. /\ V99x8(v) /\ y \in 0..(v.height - 1) /\ y \in 0..2 /\ y \in Int
          /\ v.rendered \in Int /\ limit \in Int /\ v.height \in Int
          /\ Completed(v) \in Int
      BY CompletedType DEF SeenOk, Chip
    <3>2. CASE y < v.rendered
      <4>1. y \notin v.rendered..(limit - 1) /\ y < limit
        BY <2>1, <3>1, <3>2
      <4>2. v.pixels[y] = s[y]
        BY <3>2 DEF SeenOk
      <4> QED BY <2>1, <3>1, <4>1, <4>2
    <3>3. CASE ~(y < v.rendered)
      <4>1. y < Completed(v) /\ s[y] = LineOf(v, y)
        BY <3>3 DEF SeenOk
      <4>2. y < limit
        BY <2>1, <3>1, <4>1
      <4>3. y \in v.rendered..(limit - 1)
        BY <3>1, <3>3, <4>2
      <4> QED BY <2>1, <3>1, <4>1, <4>2, <4>3
    <3> QED BY <3>2, <3>3
  <2> QED BY <1>1, <2>2 DEF SeenOk
<1> QED BY <1>2, <1>3 DEF Change

\* A line is passed when the beam comes to its right border.
LEMMA PassedIsCompleted ==
    ASSUME NEW v, Chip(v), NEW y \in Nat
    PROVE  y < Completed(v)
              <=> (v.line_zero + y) * TicksPerLine + RightBorder(v) <= v.beam
<1>1. RightBorder(v) \in {2, 3} /\ v.beam \in Nat /\ v.line_zero \in Nat
  BY DEF RightBorder, Chip
<1> DEFINE q == v.beam \div 4
           m == v.beam % 4
<1>2. q \in Nat /\ m \in 0..3 /\ v.beam = 4 * q + m
  BY <1>1
<1>3. Completed(v) = IF q < v.line_zero THEN 0
                     ELSE q - v.line_zero + (IF m >= RightBorder(v) THEN 1 ELSE 0)
  BY DEF Completed, TicksPerLine
<1> HIDE DEF q, m
<1> QED BY <1>1, <1>2, <1>3 DEF TicksPerLine

---------------------------------------------------------------------------
(* The invariant.                                                          *)

ChipInv ==
    /\ Chip(vdp) /\ IrqOk(vdp) /\ vdp.beam <= FrameTicks
    /\ ticks \in Nat /\ pace \subseteq Nat /\ \E S : vdp_program \in Seq(S)
    /\ ~V99x8(vdp) => ticks = 0 /\ vdp.beam = 0 /\ (vdp_pc # "pause" => vdp.rendered = 0)
    /\ vdp_pc = "pause" => vdp.rendered = vdp.height

\* While nothing disturbs them, the flags tell of the lines drawn so far.
FlagsInv == calm /\ vdp.rendered > 0 /\ SpritesOn(vdp)
                => (vdp_pc # "pause" => ~vdp.f) /\ FlagsOk(vdp)

IInv == ChipInv /\ SeenOk(vdp, seen) /\ FlagsInv

\* A chip that was reset.
LEMMA ResetIsChip ==
    ASSUME VdpAssumption, NEW guest \in VdpGuests
    PROVE  Chip(VdpReset(guest)) /\ IrqOk(VdpReset(guest))
<1> DEFINE v == VdpReset(guest)
<1>1. /\ DOMAIN guest.registers = RegisterNumbers
      /\ guest.registers[18] \in RegisterValues(18)
  <2>1. /\ guest.registers = [reg \in RegisterNumbers |-> guest.registers[reg]]
        /\ \A reg \in RegisterNumbers : guest.registers[reg] \in RegisterValues(reg)
    BY DEF VdpAssumption
  <2>2. 18 \in RegisterNumbers
    BY DEF RegisterNumbers
  <2> QED BY <2>1, <2>2
<1>2. guest.registers[18] \in Nat
  BY <1>1 DEF RegisterValues
<1>3. DOMAIN v = Fields
  BY DEF VdpReset, Fields
<1>4. /\ v.r = guest.registers /\ v.pixels = [y \in 0..2 |-> <<>>] /\ v.beam = 0
      /\ v.line_zero = 0 /\ v.height = 2 /\ v.rendered = 0 /\ v.event_ticks = 0
      /\ v.cpu_ticks = 0 /\ v.irq = FALSE /\ v.f = FALSE /\ v.fh = FALSE
  BY DEF VdpReset
<1> HIDE DEF v
<1>5. Chip(v)
  BY <1>1, <1>2, <1>3, <1>4 DEF Chip
<1>6. IrqOk(v)
  BY <1>4 DEF IrqOk
<1> QED BY <1>5, <1>6 DEF v

\* The invariant holds at first, and every step keeps it.
LEMMA Initially ==
    ASSUME VdpAssumption, WatchedInit
    PROVE  IInv
<1>1. PICK guest \in VdpGuests :
          /\ vdp = BeginFrame(VdpReset(guest)) /\ vdp_program = guest.program
          /\ pace = guest.pace
          /\ vdp_pc = "cpu" /\ cycles = 0 /\ ticks = 0 /\ balance = FrameTicks
  BY DEF WatchedInit, VdpInit
<1>2. /\ Chip(vdp) /\ vdp.rendered = 0 /\ vdp.beam = 0 /\ IrqOk(vdp)
  BY <1>1, ResetIsChip, FrameBegun
<1>3. /\ pace \subseteq Nat /\ vdp_program \in Seq(Range(guest.program))
  BY <1>1 DEF VdpAssumption
<1>4. ChipInv
  BY <1>1, <1>2, <1>3 DEF ChipInv, FrameTicks, TicksPerLine, Scanlines
<1>5. seen = <<>>
  BY DEF WatchedInit
<1>6. SeenOk(vdp, seen)
  BY <1>5 DEF SeenOk
<1>7. FlagsInv
  BY <1>2 DEF FlagsInv
<1> QED BY <1>4, <1>6, <1>7 DEF IInv

\* What was seen, when the beam has moved to where the step leaves it.
LEMMA SeenGoesOn ==
    ASSUME Chip(vdp), SeenOk(vdp, seen), vdp_pc # "pause", seen' = SeenAfter,
           NEW mid, Moved(vdp, mid), vdp'.beam = mid.beam,
           ~V99x8(vdp) => mid.beam = vdp.beam
    PROVE  SeenOk(mid, seen')
<1> DEFINE old == {y \in DOMAIN seen : y >= vdp.rendered}
<1>1. seen' = [y \in old \cup Passed |-> IF y \in old THEN seen[y] ELSE LineOf(vdp, y)]
  BY DEF SeenAfter
<1>2. /\ Chip(mid) /\ mid.height = vdp.height /\ mid.rendered = vdp.rendered
      /\ mid.pixels = vdp.pixels /\ mid.line_zero = vdp.line_zero
      /\ mid.beam \in Nat /\ vdp.beam \in Nat /\ vdp.beam <= mid.beam
      /\ (V99x8(mid) <=> V99x8(vdp)) /\ RightBorder(mid) = RightBorder(vdp)
      /\ vdp.rendered \in Nat /\ vdp.height \in Nat
      /\ RightBorder(vdp) \in Nat /\ vdp.line_zero \in Nat
  BY DEF Moved, SamePicture, SameLook, SameSprites, V99x8, RightBorder, Chip
<1>3. \A y : LineOf(mid, y) = LineOf(vdp, y)
  BY LinesAlike DEF Moved
<1>4. ASSUME NEW y \in old
      PROVE  /\ y \in 0..(mid.height - 1) /\ ~(y < mid.rendered)
             /\ y < Completed(mid) /\ seen[y] = LineOf(mid, y)
  <2>1. y \in 0..(vdp.height - 1) /\ y \in Nat
    BY <1>2 DEF SeenOk
  <2>2. ~(y < vdp.rendered)
    BY <1>2, <2>1
  <2>3. y < Completed(vdp) /\ seen[y] = LineOf(vdp, y)
    BY <2>2 DEF SeenOk
  <2>4. (vdp.line_zero + y) * TicksPerLine + RightBorder(vdp) <= vdp.beam
    BY <2>1, <2>3, PassedIsCompleted
  <2>5. (mid.line_zero + y) * TicksPerLine + RightBorder(mid) <= mid.beam
    BY <1>2, <2>1, <2>4 DEF TicksPerLine
  <2>6. y < Completed(mid)
    BY <1>2, <2>1, <2>5, PassedIsCompleted
  <2> QED BY <1>2, <1>3, <2>1, <2>2, <2>3, <2>6
<1>5. ASSUME NEW y \in Passed
      PROVE  /\ y \in 0..(mid.height - 1) /\ ~(y < mid.rendered) /\ y < Completed(mid)
             /\ vdp.beam # mid.beam
  <2>1. y \in vdp.rendered..(vdp.height - 1) /\ y \in Nat
    BY <1>2 DEF Passed
  <2> DEFINE t == (vdp.line_zero + y) * TicksPerLine + RightBorder(vdp)
  <2>2. vdp.beam < t /\ t <= mid.beam
    BY DEF Passed
  <2>3. y < Completed(mid)
    BY <1>2, <2>1, <2>2, PassedIsCompleted
  <2>4. vdp.beam # mid.beam
    <3>1. t \in Nat
      BY <1>2, <2>1 DEF TicksPerLine
    <3> HIDE DEF t
    <3> QED BY <1>2, <2>2, <3>1
  <2> QED BY <1>2, <2>1, <2>3, <2>4
<1>6. ~V99x8(mid) => DOMAIN seen' = {}
  <2> SUFFICES ASSUME ~V99x8(mid) PROVE DOMAIN seen' = {}
    OBVIOUS
  <2>1. DOMAIN seen = {} /\ mid.beam = vdp.beam
    BY <1>2 DEF SeenOk
  <2>2. old = {}
    BY <2>1
  <2>3. Passed = {}
    BY <1>5, <2>1
  <2> QED BY <1>1, <2>2, <2>3
<1>7. ASSUME NEW y \in DOMAIN seen'
      PROVE  /\ y \in 0..(mid.height - 1) /\ ~(y < mid.rendered)
             /\ y < Completed(mid) /\ seen'[y] = LineOf(mid, y)
  <2>1. y \in old \cup Passed /\ seen'[y] = IF y \in old THEN seen[y] ELSE LineOf(vdp, y)
    BY <1>1
  <2>2. CASE y \in old
    BY <1>4, <2>1, <2>2
  <2>3. CASE y \notin old
    BY <1>3, <1>5, <2>1, <2>3
  <2> QED BY <2>2, <2>3
<1> QED BY <1>6, <1>7 DEF SeenOk

\* A chip on which no time passes.
LEMMA NotMoved ==
    ASSUME NEW v, Chip(v), v.beam <= FrameTicks
    PROVE  Moved(v, v)
BY DEF Moved, SamePicture, SameFlags, SameIrq, SameLook, SameSprites, Chip

\* A step that changes the chip by such a call keeps what was seen.
LEMMA SeenAfterChange ==
    ASSUME ChipInv, SeenOk(vdp, seen), vdp_pc # "pause", seen' = SeenAfter,
           Change(vdp, vdp')
    PROVE  SeenOk(vdp, seen)'
<1>1. Chip(vdp) /\ Moved(vdp, vdp) /\ vdp'.beam = vdp.beam
  BY NotMoved DEF ChipInv, Change, SameFrame
<1>2. SeenOk(vdp, seen')
  BY <1>1, SeenGoesOn
<1>3. SeenOk(vdp', seen')
  BY <1>1, <1>2, StillSeen
<1> QED BY <1>3

\* Lines drawn in this step leave true flags, if the step is calm.
LEMMA FlagsAfterDrawing ==
    ASSUME ChipInv, FlagsInv, vdp_pc # "pause", calm' = CalmAfter,
           NEW z, Chip(z), SameFlags(vdp, z), z.f = vdp.f, z.rendered = vdp.rendered,
           SameSprites(vdp, z), SameSprites(z, vdp'),
           NEW limit \in 0..z.height, DrawnTo(z, vdp', limit)
    PROVE  calm' /\ vdp'.rendered > 0 /\ SpritesOn(vdp') => ~vdp.f /\ FlagsOk(vdp')
<1> SUFFICES ASSUME calm', vdp'.rendered > 0, SpritesOn(vdp')
             PROVE  ~vdp.f /\ FlagsOk(vdp')
  OBVIOUS
<1>1. calm /\ (vdp.rendered = 0 => FlagsClear)
  BY DEF CalmAfter
<1>2. SpritesOn(z) /\ SpritesOn(vdp)
  <2>1. /\ SpriteMode(vdp') = SpriteMode(z) /\ (V99x8(vdp') <=> V99x8(z))
        /\ SpriteMode(z) = SpriteMode(vdp) /\ (V99x8(z) <=> V99x8(vdp))
    BY SpritesAlike
  <2>2. vdp'.r[1] = z.r[1] /\ vdp'.r[8] = z.r[8] /\ z.r[1] = vdp.r[1] /\ z.r[8] = vdp.r[8]
    BY DEF SameSprites
  <2> QED BY <2>1, <2>2 DEF SpritesOn
<1>3. vdp.rendered \in Nat
  BY DEF ChipInv, Chip
<1>4. ~vdp.f /\ (vdp.rendered = 0 => ~vdp.s5 /\ ~vdp.c) /\ (vdp.rendered > 0 => FlagsOk(vdp))
  <2>1. CASE vdp.rendered = 0
    BY <1>1, <2>1 DEF FlagsClear
  <2>2. CASE vdp.rendered > 0
    BY <1>1, <1>2, <2>2 DEF FlagsInv
  <2> QED BY <1>3, <2>1, <2>2
<1>5. /\ ~z.f /\ (z.rendered = 0 => ~z.s5 /\ ~z.c)
      /\ z.rendered > 0 => FlagsOk(z)
  <2>1. /\ Over(z, 0, vdp.rendered) = Over(vdp, 0, vdp.rendered)
        /\ Hit(z, 0, vdp.rendered) = Hit(vdp, 0, vdp.rendered)
        /\ (\A y : Surplus(z, y) = Surplus(vdp, y)) /\ z.sprites = vdp.sprites
    BY SurplusAlike, SpritesAlike DEF SameSprites
  <2> QED BY <1>4, <2>1 DEF SameFlags, FlagsOk
<1>6. FlagsOk(vdp')
  BY <1>2, <1>5, FlagsOfPieces
<1> QED BY <1>4, <1>6

LEMMA InstructionKeeps ==
    ASSUME IInv, WatchedNext, VdpInstruction
    PROVE  IInv'
<1>1. vdp_pc = "cpu" /\ vdp_pc' = "engine" /\ pace' = pace
  BY DEF VdpInstruction, WatchedNext, VdpNext
<1>2. seen' = SeenAfter /\ calm' = CalmAfter
  BY DEF WatchedNext
<1>3. ticks' \in Nat /\ (~V99x8(vdp) => ticks' = 0)
  BY DEF VdpInstruction, IInv, ChipInv
<1>4. Chip(vdp) /\ IrqOk(vdp)
  BY DEF IInv, ChipInv
<1>5. Change(vdp, vdp') /\ IrqOk(vdp')
  <2>1. CASE vdp' = vdp
    <3>1. Call(vdp, vdp)
      BY <1>4, NoWork, QuietWork, TimelyCall
    <3> QED BY <1>4, <2>1, <3>1 DEF Call
  <2>2. CASE Fits(vdp, Head(vdp_program)) /\ vdp' = Access(vdp, Head(vdp_program))
    BY <1>4, <2>2, Accessed DEF Call
  <2> QED BY <2>1, <2>2 DEF VdpInstruction
<1>6. vdp'.beam = vdp.beam /\ Chip(vdp') /\ vdp'.type = vdp.type
  BY <1>5 DEF Change, SameFrame
<1>7. ~V99x8(vdp) => vdp'.rendered = 0
  BY <1>1, <1>5 DEF IInv, ChipInv, Change, Kept, Drawn, SamePicture
<1>8. \E S : vdp_program' \in Seq(S)
  <2>1. PICK S : vdp_program \in Seq(S)
    BY DEF IInv, ChipInv
  <2>2. vdp_program' = vdp_program \/ (vdp_program # <<>> /\ vdp_program' = Tail(vdp_program))
    BY DEF VdpInstruction
  <2>3. vdp_program' \in Seq(S)
    BY <2>1, <2>2
  <2> QED BY <2>3
<1>9. ChipInv'
  BY <1>1, <1>3, <1>5, <1>6, <1>7, <1>8 DEF IInv, ChipInv, V99x8
<1>10. SeenOk(vdp, seen)'
  BY <1>1, <1>2, <1>5, SeenAfterChange DEF IInv
<1>11. FlagsInv'
  <2>1. CASE vdp' = vdp /\ vdp_program' = vdp_program
    BY <1>1, <1>2, <2>1 DEF IInv, FlagsInv, CalmAfter
  <2>2. CASE vdp_program # <<>> /\ vdp_program' = Tail(vdp_program)
    <3>1. vdp_program' # vdp_program
      <4>1. PICK S : vdp_program \in Seq(S)
        BY DEF IInv, ChipInv
      <4>2. Len(Tail(vdp_program)) = Len(vdp_program) - 1 /\ Len(vdp_program) \in Nat
        BY <2>2, <4>1
      <4>3. Len(vdp_program) - 1 # Len(vdp_program)
        BY <4>2
      <4> QED BY ONLY <2>2, <4>2, <4>3
    <3> QED BY <1>1, <1>2, <3>1 DEF FlagsInv, CalmAfter
  <2> QED BY <2>1, <2>2 DEF VdpInstruction
<1> QED BY <1>9, <1>10, <1>11 DEF IInv

LEMMA EngineKeeps ==
    ASSUME IInv, WatchedNext, Engine
    PROVE  IInv'
<1>1. /\ vdp_pc = "engine" /\ vdp_pc' = vdp_pc /\ vdp_program' = vdp_program
      /\ pace' = pace /\ ticks > 0
  BY DEF Engine, WatchedNext, VdpNext
<1>2. seen' = SeenAfter /\ calm' = CalmAfter
  BY DEF WatchedNext
<1>3. Chip(vdp) /\ IrqOk(vdp) /\ vdp.beam <= FrameTicks /\ ticks \in Nat /\ V99x8(vdp)
  BY <1>1 DEF IInv, ChipInv
<1>4. /\ NextTicks(vdp) \in Nat
      /\ vdp.event # "none" => NextTicks(vdp) <= vdp.event_ticks
      /\ vdp.cpu_pending => NextTicks(vdp) <= vdp.cpu_ticks
  BY <1>3, NextSlot
<1>5. \E mid : /\ Moved(vdp, mid) /\ Timely(mid, vdp') /\ ticks' \in Nat
  <2>1. CASE ticks < NextTicks(vdp)
    <3> DEFINE mid == AdvanceBeam(vdp, ticks)
    <3>1. /\ vdp.event # "none" => ticks <= vdp.event_ticks
          /\ vdp.cpu_pending => ticks <= vdp.cpu_ticks
      BY <1>3, <1>4, <2>1 DEF Chip
    <3>2. Moved(vdp, mid)
      BY <1>3, <3>1, BeamAdvances
    <3>3. vdp' = mid /\ ticks' = 0
      BY <2>1 DEF Engine
    <3> HIDE DEF mid
    <3>4. Timely(mid, mid)
      BY <3>2, NoWork, QuietWork DEF Moved
    <3> QED BY <3>2, <3>3, <3>4
  <2>2. CASE ~(ticks < NextTicks(vdp))
    <3> DEFINE mid == AdvanceBeam(vdp, NextTicks(vdp))
    <3>1. Moved(vdp, mid)
      BY <1>3, <1>4, BeamAdvances
    <3>2. vdp' = AtSlot(mid) /\ ticks' = ticks - NextTicks(vdp)
      BY <2>2 DEF Engine
    <3>3. ticks' \in Nat
      BY <1>3, <1>4, <2>2, <3>2
    <3> HIDE DEF mid
    <3>4. Timely(mid, AtSlot(mid))
      BY <3>1, Slots DEF Moved
    <3> QED BY <3>1, <3>2, <3>3, <3>4
  <2> QED BY <2>1, <2>2
<1>6. PICK mid : Moved(vdp, mid) /\ Timely(mid, vdp') /\ ticks' \in Nat
  BY <1>5
<1>7. /\ Chip(mid) /\ Change(mid, vdp') /\ SameIrq(mid, vdp') /\ SameShape(mid, vdp')
      /\ SameIrq(vdp, mid) /\ mid.r = vdp.r /\ mid.type = vdp.type
      /\ mid.rendered = vdp.rendered /\ mid.height = vdp.height /\ mid.beam <= FrameTicks
      /\ SameFlags(vdp, mid) /\ SameSprites(vdp, mid) /\ SameFrame(mid, vdp')
  BY <1>6 DEF Moved, Timely, SamePicture, SameLook, SameSprites, Change
<1>8. SameSprites(mid, vdp')
  BY <1>7 DEF SameSprites, SameFrame, SameShape, Shaping
<1>9. IrqOk(vdp')
  <2>1. IrqOk(mid)
    BY <1>3, <1>7, IrqKept
  <2> QED BY <1>7, <1>8, <2>1, IrqKept DEF SameSprites
<1>10. ChipInv'
  <2>1. Chip(vdp') /\ vdp'.beam = mid.beam /\ V99x8(vdp')
    BY <1>3, <1>7 DEF Change, SameFrame, V99x8
  <2> QED BY <1>1, <1>6, <1>7, <1>9, <2>1 DEF IInv, ChipInv
<1>11. SeenOk(vdp, seen)'
  <2>1. vdp'.beam = mid.beam
    BY <1>7 DEF SameFrame
  <2>2. SeenOk(mid, seen')
    BY <1>1, <1>2, <1>3, <1>6, <2>1, SeenGoesOn DEF IInv
  <2>3. SeenOk(vdp', seen')
    BY <1>7, <2>2, StillSeen
  <2> QED BY <2>3
<1>12. FlagsInv'
  <2>1. PICK limit \in 0..mid.height : DrawnTo(mid, vdp', limit)
    BY <1>6 DEF Timely
  <2>2. mid.f = vdp.f /\ vdp'.f = vdp.f
    BY <1>7 DEF SameIrq
  <2>3. calm' /\ vdp'.rendered > 0 /\ SpritesOn(vdp') => ~vdp.f /\ FlagsOk(vdp')
    BY <1>1, <1>2, <1>7, <1>8, <2>1, <2>2, FlagsAfterDrawing DEF IInv
  <2> QED BY <2>2, <2>3 DEF FlagsInv
<1> QED BY <1>10, <1>11, <1>12 DEF IInv

LEMMA InstructionEndsKeeps ==
    ASSUME IInv, WatchedNext, InstructionEnds
    PROVE  IInv'
<1>1. /\ vdp_pc = "engine" /\ vdp_pc' # "pause" /\ vdp_program' = vdp_program /\ pace' = pace
      /\ ticks' = ticks /\ vdp' = EndAdvance(vdp, cycles)
  BY DEF InstructionEnds, WatchedNext, VdpNext
<1>2. seen' = SeenAfter /\ calm' = CalmAfter
  BY DEF WatchedNext
<1>3. Chip(vdp) /\ IrqOk(vdp) /\ vdp.beam <= FrameTicks
  BY DEF IInv, ChipInv
<1>4. Closed(vdp, vdp') /\ vdp'.f = vdp.f
  BY <1>1, <1>3, InstructionEnded
<1>5. /\ Change(vdp, vdp') /\ IrqOk(vdp') /\ vdp'.r = vdp.r
      /\ Chip(vdp') /\ SameFrame(vdp, vdp')
  BY <1>3, <1>4 DEF Closed, Change
<1>6. ~V99x8(vdp) => vdp'.rendered = 0
  BY <1>1, <1>5 DEF IInv, ChipInv, Change, Kept, Drawn, SamePicture
<1>7. ChipInv'
  BY <1>1, <1>3, <1>5, <1>6 DEF IInv, ChipInv, SameFrame, V99x8
<1>8. SeenOk(vdp, seen)'
  BY <1>1, <1>2, <1>5, SeenAfterChange DEF IInv
<1>9. FlagsInv'
  <2>1. PICK limit \in 0..vdp.height : DrawnTo(vdp, vdp', limit)
    BY <1>4 DEF Closed
  <2>2. SameFlags(vdp, vdp) /\ SameSprites(vdp, vdp) /\ SameSprites(vdp, vdp')
    BY <1>5 DEF SameFlags, SameSprites, SameFrame
  <2>3. calm' /\ vdp'.rendered > 0 /\ SpritesOn(vdp') => ~vdp.f /\ FlagsOk(vdp')
    BY <1>1, <1>2, <1>3, <2>1, <2>2, FlagsAfterDrawing DEF IInv
  <2> QED BY <1>4, <2>3 DEF FlagsInv
<1> QED BY <1>7, <1>8, <1>9 DEF IInv

LEMMA FrameEndsKeeps ==
    ASSUME IInv, WatchedNext, FrameEnds
    PROVE  IInv'
<1>1. /\ vdp_pc = "frame" /\ vdp_pc' = "pause" /\ vdp_program' = vdp_program /\ pace' = pace
      /\ ticks' = ticks /\ vdp' = EndFrame(vdp)
  BY DEF FrameEnds, WatchedNext, VdpNext
<1>2. seen' = SeenAfter /\ calm' = CalmAfter
  BY DEF WatchedNext
<1>3. Chip(vdp) /\ IrqOk(vdp) /\ vdp.beam <= FrameTicks
  BY DEF IInv, ChipInv
<1>4. CASE V99x8(vdp)
  <2>1. Closed(vdp, vdp') /\ vdp'.rendered = vdp.height
    BY <1>1, <1>3, <1>4, FrameEnded
  <2>2. /\ Change(vdp, vdp') /\ IrqOk(vdp') /\ vdp'.r = vdp.r
        /\ Chip(vdp') /\ SameFrame(vdp, vdp')
    BY <1>3, <2>1 DEF Closed, Change
  <2>3. ChipInv'
    BY <1>1, <1>3, <1>4, <2>1, <2>2 DEF IInv, ChipInv, SameFrame, V99x8
  <2>4. SeenOk(vdp, seen)'
    BY <1>1, <1>2, <2>2, SeenAfterChange DEF IInv
  <2>5. PICK limit \in 0..vdp.height : DrawnTo(vdp, vdp', limit)
    BY <2>1 DEF Closed
  <2>6. SameFlags(vdp, vdp) /\ SameSprites(vdp, vdp) /\ SameSprites(vdp, vdp')
    BY <2>2 DEF SameFlags, SameSprites, SameFrame
  <2>7. calm' /\ vdp'.rendered > 0 /\ SpritesOn(vdp') => ~vdp.f /\ FlagsOk(vdp')
    BY <1>1, <1>2, <1>3, <2>5, <2>6, FlagsAfterDrawing DEF IInv
  <2> QED BY <1>1, <2>3, <2>4, <2>7 DEF IInv, FlagsInv
<1>5. CASE ~V99x8(vdp)
  <2>1. vdp.rendered = 0 /\ ticks = 0 /\ vdp.beam = 0
    BY <1>1, <1>5 DEF IInv, ChipInv
  <2>2. PICK z : /\ Chip(z) /\ SameSprites(vdp, z) /\ SameFlags(vdp, z) /\ z.f = vdp.f
                 /\ z.rendered = 0 /\ DrawnTo(z, vdp', z.height) /\ vdp'.height = z.height
                 /\ Chip(vdp') /\ SameSprites(vdp, vdp') /\ vdp'.beam = vdp.beam
                 /\ vdp'.type = vdp.type /\ IrqOk(vdp')
    BY <1>1, <1>3, <1>5, <2>1, FrameEndedAtOnce
  <2>3. vdp'.rendered = vdp'.height
    BY <2>2 DEF DrawnTo
  <2>4. ChipInv'
    BY <1>1, <1>3, <1>5, <2>1, <2>2, <2>3 DEF IInv, ChipInv, V99x8
  <2>5. SeenOk(vdp, seen')
    BY <1>1, <1>2, <1>3, <2>2, NotMoved, SeenGoesOn DEF IInv
  <2>6. SeenOk(vdp, seen)'
    <3>1. DOMAIN seen' = {}
      BY <1>5, <2>5 DEF SeenOk
    <3> QED BY <3>1 DEF SeenOk
  <2>7. z.height \in 0..z.height
    BY <2>2 DEF Chip
  <2>8. SameSprites(z, vdp')
    BY <2>2 DEF SameSprites
  <2>9. calm' /\ vdp'.rendered > 0 /\ SpritesOn(vdp') => ~vdp.f /\ FlagsOk(vdp')
    BY <1>1, <1>2, <2>1, <2>2, <2>7, <2>8, FlagsAfterDrawing DEF IInv
  <2> QED BY <1>1, <2>4, <2>6, <2>9 DEF IInv, FlagsInv
<1> QED BY <1>4, <1>5

LEMMA FrameBeginsKeeps ==
    ASSUME IInv, WatchedNext, FrameBegins
    PROVE  IInv'
<1>1. /\ vdp_pc = "pause" /\ vdp_pc' = "cpu" /\ vdp_program' = vdp_program /\ pace' = pace
      /\ ticks' = ticks /\ vdp' = BeginFrame(vdp)
  BY DEF FrameBegins, WatchedNext, VdpNext
<1>2. seen' = <<>>
  BY <1>1 DEF WatchedNext, SeenAfter
<1>3. Chip(vdp) /\ IrqOk(vdp) /\ vdp.beam <= FrameTicks
  BY DEF IInv, ChipInv
<1>4. Chip(vdp') /\ vdp'.rendered = 0 /\ vdp'.beam = 0 /\ vdp'.type = vdp.type /\ IrqOk(vdp')
  BY <1>1, <1>3, FrameBegun
<1>5. ChipInv'
  BY <1>1, <1>4 DEF IInv, ChipInv, V99x8, FrameTicks, TicksPerLine, Scanlines
<1>6. SeenOk(vdp, seen)'
  BY <1>2 DEF SeenOk
<1>7. FlagsInv'
  BY <1>4 DEF FlagsInv
<1> QED BY <1>5, <1>6, <1>7 DEF IInv

LEMMA StepKeeps ==
    ASSUME IInv, [WatchedNext]_watched
    PROVE  IInv'
<1>1. CASE UNCHANGED watched
  <2>1. /\ vdp' = vdp /\ vdp_pc' = vdp_pc /\ ticks' = ticks /\ pace' = pace
        /\ vdp_program' = vdp_program
        /\ seen' = seen /\ calm' = calm
    BY <1>1 DEF watched, machine
  <2> QED BY <2>1 DEF IInv, ChipInv, FlagsInv
<1>2. CASE WatchedNext
  <2>1. VdpInstruction \/ Engine \/ InstructionEnds \/ FrameEnds \/ FrameBegins
    BY <1>2 DEF WatchedNext, VdpNext
  <2> QED BY <1>2, <2>1, InstructionKeeps, EngineKeeps, InstructionEndsKeeps,
             FrameEndsKeeps, FrameBeginsKeeps
<1> QED BY <1>1, <1>2

LEMMA Invariant ==
    ASSUME VdpAssumption
    PROVE  WatchedSpec => []IInv
<1>1. WatchedInit => IInv
  BY Initially
<1>2. IInv /\ [WatchedNext]_watched => IInv'
  BY StepKeeps
<1> QED BY <1>1, <1>2, PTL DEF WatchedSpec

\* For every guest: a line shows what the chip would have shown when the
\* beam passed its end (render_flush_completed), whatever is changed before
\* it is drawn.
THEOREM LinesAreAsSeen ==
    ASSUME VdpAssumption
    PROVE  WatchedSpec => []LinesAsTheBeamSaw
<1>1. IInv => LinesAsTheBeamSaw
  BY DEF IInv, SeenOk, LinesAsTheBeamSaw
<1> QED BY <1>1, Invariant, PTL

\* For every guest: the interrupt line is that of the enabled flags
\* (update_irq), and the sprite flags at the end of an undisturbed frame are
\* those of its lines together (update_sprite_status,
\* latch_sprite_collision).
THEOREM StatusIsTrue ==
    ASSUME VdpAssumption
    PROVE  WatchedSpec => []StatusTellsTheFrame
<1>1. IInv => StatusTellsTheFrame
  <2> SUFFICES ASSUME IInv PROVE StatusTellsTheFrame
    OBVIOUS
  <2>1. IrqTellsFlags
    BY DEF IInv, ChipInv, IrqOk, IrqTellsFlags
  <2>2. SpriteFlagsOfTheFrame
    <3> SUFFICES ASSUME vdp_pc = "pause", calm, vdp.r[1].bl, SpriteMode(vdp) # 0,
                        V99x8(vdp) => ~vdp.r[8].spd
                 PROVE  /\ vdp.s5 <=> Over(vdp, 0, vdp.height) # {}
                        /\ vdp.fifth = IF Over(vdp, 0, vdp.height) = {}
                                       THEN Len(vdp.sprites) + 1
                                       ELSE Min(Surplus(vdp, Min(Over(vdp, 0, vdp.height))))
                        /\ vdp.c <=> Hit(vdp, 0, vdp.height) # {}
                        /\ Hit(vdp, 0, vdp.height) # {}
                              => vdp.collision[2] = Min(Hit(vdp, 0, vdp.height))
      BY DEF SpriteFlagsOfTheFrame, Over, Hit
    <3>1. vdp.rendered = vdp.height /\ vdp.rendered > 0 /\ SpritesOn(vdp)
      BY DEF IInv, ChipInv, Chip, SpritesOn
    <3> QED BY <3>1 DEF IInv, FlagsInv, FlagsOk
  <2> QED BY <2>1, <2>2 DEF StatusTellsTheFrame
<1> QED BY <1>1, Invariant, PTL
============================================================================
