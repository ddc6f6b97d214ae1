------------------------------- MODULE Blitter -------------------------------
(***************************************************************************)
(* What the command engine of a V9938 promises, without its registers,     *)
(* counters, slots and events.  A command is a job: the cells it is to     *)
(* visit, in order, as the data book gives them in closed form.  The job   *)
(* is fixed when it is given; each cell is then visited once, in order,    *)
(* whatever the processor does to the VRAM in between; the next job drops  *)
(* what is left of it.  A job that moves data between processor and VRAM   *)
(* is ready for one byte at a time and takes or offers each byte once.     *)
(***************************************************************************)
EXTENDS VdpMemory, Sequences, FiniteSetsExt

VARIABLES order,        \* the command in the registers
          vram,
          job,          \* the command and the cells not yet visited
          busy,         \* CE
          ready,        \* TR: the job waits for the processor
          offer,        \* the colour the processor would read
          given         \* the byte the processor gave and no job has taken
vars == <<vram, job, busy, ready, offer, given>>

NoJob == [does |-> "nothing", cells |-> <<>>]

---------------------------------------------------------------------------
(* Jobs in closed form.  A command c has the registers it was given with.  *)

Sgn(back) == IF back THEN -1 ELSE 1
Least(a, b) == IF a < b THEN a ELSE b

\* Cells of a command that moves whole bytes are one byte apart.
Step(c) == IF c.bytes THEN ModeInfo[c.mode].ppb ELSE 1
Units(c) == ModeInfo[c.mode].width \div Step(c)

\* From x, a row ends at the edge of the screen; off the screen it is one
\* cell.
Room(c, x) == LET u == x \div Step(c) IN
              IF u >= Units(c) THEN 1
              ELSE IF c.left THEN u + 1 ELSE Units(c) - u
Wanted(c) == IF c.nx \div Step(c) = 0 THEN Units(c) ELSE c.nx \div Step(c)
RowsWanted(c) == IF c.ny = 0 THEN Rows ELSE c.ny

\* The visits of a rectangle with n columns and m rows, row by row.
Rectangle(c, n, m, cell(_, _)) ==
    [k \in 1..(n * m) |->
        cell(Sgn(c.left) * Step(c) * ((k - 1) % n), Sgn(c.up) * ((k - 1) \div n))]

Fill(c) ==
    Rectangle(c, Least(Wanted(c), Room(c, c.dx)),
              IF c.up THEN Least(RowsWanted(c), c.dy + 1) ELSE RowsWanted(c),
              LAMBDA i, j : [to |-> <<c.dx + i, c.dy + j>>,
                             from |-> <<c.dx + i, c.dy + j>>])
Scan(c) == Fill([c EXCEPT !.dx = c.sx, !.dy = c.sy])
Copy(c) ==
    Rectangle(c, Least(Wanted(c), Least(Room(c, c.sx), Room(c, c.dx))),
              IF c.up THEN Least(RowsWanted(c), Least(c.sy, c.dy) + 1)
                      ELSE RowsWanted(c),
              LAMBDA i, j : [to |-> <<c.dx + i, c.dy + j>>,
                             from |-> <<c.sx + i, c.sy + j>>])
\* YMMM copies from its column to the edge, within the same columns.
CopyRows(c) == Copy([c EXCEPT !.sx = c.dx, !.nx = 0])

\* The line of NX steps along its long side that makes NY steps along the
\* short one, rounded; it ends where it would leave the screen.
Line(c) ==
    LET minor(i) == IF i = 0 THEN 0
                    ELSE -(((c.nx - 1) \div 2 - i * c.ny) \div c.nx)
        at(i) == LET a == i  b == minor(i) IN
                 <<c.dx + Sgn(c.left) * (IF c.tall THEN b ELSE a),
                   c.dy + Sgn(c.up) * (IF c.tall THEN a ELSE b)>>
        inside(i) == at(i)[1] \in 0..(ModeInfo[c.mode].width - 1)
                     /\ at(i)[2] >= 0
        length == Max({n \in 0..c.nx : \A i \in 1..n : inside(i)})
    IN  [k \in 1..(length + 1) |-> [to |-> at(k - 1), from |-> at(k - 1)]]

\* A search goes along its row to the edge.
Search(c) ==
    LET n == IF c.sx >= ModeInfo[c.mode].width THEN 1 ELSE Room(c, c.sx)
    IN  [k \in 1..n |-> [to |-> <<c.sx + Sgn(c.left) * (k - 1), c.sy>>,
                         from |-> <<c.sx + Sgn(c.left) * (k - 1), c.sy>>]]
Point(x, y) == <<[to |-> <<x, y>>, from |-> <<x, y>>]>>

\* The job of a command: what it does to each of its cells.  YMMM stays
\* within the video RAM.
JobOf(c) ==
    LET job_(does, cells) ==
            [does |-> does, cells |-> cells, mode |-> c.mode,
             bytes |-> c.bytes, operation |-> c.operation,
             colour |-> IF does \in {"paint", "search"} THEN c.colour ELSE 0,
             from_expansion |-> c.from_expansion /\ c.code # "YMMM",
             to_expansion |-> c.to_expansion, unequal |-> c.unequal]
    IN  CASE c.code = "POINT" -> job_("look", Point(c.sx, c.sy))
          [] c.code = "PSET"  -> job_("paint", Point(c.dx, c.dy))
          [] c.code = "SRCH"  -> job_("search", Search(c))
          [] c.code = "LINE"  -> job_("paint", Line(c))
          [] c.code \in {"LMMV", "HMMV"} -> job_("paint", Fill(c))
          [] c.code \in {"LMMM", "HMMM"} -> job_("copy", Copy(c))
          [] c.code = "YMMM"  -> job_("copy", CopyRows(c))
          [] c.code = "LMCM"  -> job_("offer", Scan(c))
          [] c.code \in {"LMMC", "HMMC"} -> job_("take", Fill(c))
          [] OTHER -> NoJob

---------------------------------------------------------------------------
(* The visit of a cell.                                                    *)

\* The colour, or the byte, found at a cell; expansion RAM is not there.
Found(j, v, cell) ==
    IF j.from_expansion THEN 15
    ELSE IF j.bytes THEN v[BitmapAddress(j.mode, cell.from[1], cell.from[2])]
    ELSE BitmapPixel(v, j.mode, cell.from[1], cell.from[2])

\* The VRAM after a cell got a colour.
Put(j, v, cell, colour) ==
    IF j.to_expansion THEN v
    ELSE IF j.bytes
         THEN [v EXCEPT ![BitmapAddress(j.mode, cell.to[1], cell.to[2])] = colour]
    ELSE WithPixel(v, j.mode, cell.to[1], cell.to[2], colour, j.operation)

Init == /\ vram \in [0..(VramSize - 1) -> Bytes]
        /\ job = NoJob /\ busy = FALSE /\ ready = FALSE
        /\ offer = 0 /\ given = <<>>

\* What a look leaves in the register where a given byte waits, too.
Shown(colour) == /\ offer' = colour
                 /\ given' = IF given = <<>> THEN <<>> ELSE <<colour>>

\* A job is taken up; one that offers has its first colour ready, one that
\* takes may find its first byte already given.
Begin(j) ==
    IF j.cells = <<>>
    THEN /\ job' = NoJob /\ busy' = FALSE /\ ready' = FALSE
         /\ UNCHANGED <<vram, offer, given>>
    ELSE /\ busy' = TRUE
         /\ \/ /\ j.does = "offer" /\ ready' = TRUE /\ job' = j
               /\ Shown(Found(j, vram, Head(j.cells))) /\ UNCHANGED vram
            \/ /\ j.does = "take" /\ given = <<>>
               /\ ready' = TRUE /\ job' = j /\ UNCHANGED <<vram, offer, given>>
            \/ /\ j.does = "take" /\ given # <<>>
               /\ ready' = FALSE /\ given' = <<>>
               /\ job' = [j EXCEPT !.cells = Tail(@)]
               /\ vram' = Put(j, vram, Head(j.cells), given[1])
               /\ UNCHANGED offer
            \/ /\ j.does \notin {"offer", "take"}
               /\ ready' = FALSE /\ job' = j /\ UNCHANGED <<vram, offer, given>>

\* The next cell of a job that needs no processor.
Visit ==
    /\ busy /\ job.cells # <<>>
    /\ LET cell == Head(job.cells)
           colour == IF job.does = "paint" THEN job.colour
                     ELSE Found(job, vram, cell)
           met == job.does = "search"
                  /\ (colour = job.colour % ModeInfo[job.mode].colours)
                     # job.unequal
           left == IF met THEN <<>> ELSE Tail(job.cells)
       IN  /\ job' = IF left = <<>> THEN NoJob ELSE [job EXCEPT !.cells = left]
           /\ busy' = (left # <<>>)
           /\ \/ /\ job.does \in {"paint", "copy"}
                 /\ vram' = Put(job, vram, cell, colour)
                 /\ UNCHANGED <<offer, given>>
              \/ /\ job.does = "look" /\ Shown(colour) /\ UNCHANGED vram
              \/ /\ job.does = "search" /\ UNCHANGED <<vram, offer, given>>
    /\ UNCHANGED ready

\* The processor reads the colour that is ready.
Take == /\ busy /\ ready /\ job.does = "offer"
        /\ job' = [job EXCEPT !.cells = Tail(@)] /\ ready' = FALSE
        /\ UNCHANGED <<vram, busy, offer, given>>

\* The next colour is ready, or the next byte is wanted.
Ready == /\ busy /\ ~ready /\ job.does \in {"offer", "take"}
         /\ job.cells # <<>>
         /\ ready' = TRUE
         /\ IF job.does = "offer" THEN Shown(Found(job, vram, Head(job.cells)))
            ELSE given = <<>> /\ UNCHANGED <<offer, given>>
         /\ UNCHANGED <<vram, job, busy>>

\* A byte is put where it is wanted, when the job is ready for it, once.
Feed(byte) == /\ busy /\ job.does = "take" /\ job.cells # <<>>
              /\ vram' = Put(job, vram, Head(job.cells), byte)
              /\ job' = [job EXCEPT !.cells = Tail(@)]
              /\ ready' = FALSE /\ given' = <<>>
              /\ UNCHANGED <<busy, offer>>
Give(byte) == \/ ready /\ Feed(byte)
              \/ /\ ~(ready /\ job.does = "take")
                 /\ given' = <<byte>>
                 /\ UNCHANGED <<vram, job, busy, ready, offer>>
FeedGiven == given # <<>> /\ ~ready /\ Feed(given[1])

Finish == /\ busy /\ job.cells = <<>>
          /\ job' = NoJob /\ busy' = FALSE
          /\ UNCHANGED <<vram, ready, offer, given>>

ProcessorWrites ==
    /\ UNCHANGED <<job, busy, ready, offer, given>>
    /\ \E a \in 0..(VramSize - 1) :
           vram' = [vram EXCEPT ![a] = vram'[a]] /\ vram'[a] \in Bytes

\* Registers and lines of the chip change as they like; the order is what
\* the registers say when a command is given.
Next == \/ ProcessorWrites
        \/ \E j \in {JobOf(order')} : Begin(j)
        \/ Visit \/ Take \/ Ready \/ FeedGiven \/ Finish
        \/ \E byte \in Bytes : Give(byte)

Spec == Init /\ [][Next]_vars
==============================================================================
