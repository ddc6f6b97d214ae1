------------------------------ MODULE VdpWatched ------------------------------
(***************************************************************************)
(* The chip of Vdp with three histories, and what must agree with them:    *)
(* the job of the command in progress, as Blitter defines it; the lines as *)
(* the chip would have shown them when the beam passed; and whether the    *)
(* sprite flags are those of this frame alone.                             *)
(***************************************************************************)
EXTENDS Vdp

VARIABLES vdp_job,  \* the command in progress, as the data book gives it
          seen,     \* of lines passed but not drawn: what the beam saw
          calm      \* the sprite flags were clear when this frame's first
                    \* line was drawn, and the guest does nothing since
watched == <<machine, vdp_job, seen, calm>>

\* The command in the registers, with w as its code and operation.
OrderOf(v, w) ==
    [code |-> IF Bitmap(v) THEN w.code ELSE "STOP",
     operation |-> IF w.code = "STOP" THEN [fn |-> "imp", transparent |-> FALSE]
                   ELSE w.operation,
     mode |-> DisplayMode(v), bytes |-> MovesBytes(w.code),
     sx |-> v.r[32], sy |-> v.r[34], dx |-> v.r[36], dy |-> v.r[38],
     nx |-> v.r[40], ny |-> v.r[42], colour |-> v.r[44],
     left |-> "left" \in v.r[45], up |-> "up" \in v.r[45],
     tall |-> "tall" \in v.r[45], unequal |-> "unequal" \in v.r[45],
     from_expansion |-> "from_expansion" \in v.r[45],
     to_expansion |-> "to_expansion" \in v.r[45]]

B == INSTANCE Blitter WITH
        order <- OrderOf(vdp, vdp.r[46]), vram <- vdp.vram, job <- vdp_job,
        busy <- vdp.ce, ready <- vdp.tr, offer <- vdp.status7,
        given <- IF vdp.transfer_pending THEN <<vdp.r[44]>> ELSE <<>>

---------------------------------------------------------------------------
(* What a step is, seen from the bus.                                      *)

\* The event of the engine that the next slot brings.
EventNow ==
    LET next == NextTicks(vdp)
        v == AdvanceBeam(vdp, next)
    IN  IF /\ vdp_pc = "engine" /\ next <= ticks /\ v.event # "none" /\ v.event_ticks = 0
           /\ ~(v.cpu_pending /\ v.cpu_ticks = 0)
        THEN v.event ELSE "none"

JobRest == [vdp_job EXCEPT !.cells = Tail(@)]
AfterVisit == IF JobRest.cells = <<>> \/ (vdp_job.does = "search" /\ vdp'.bd /\ ~vdp'.ce)
              THEN B!NoJob ELSE JobRest

JobAfterAccess(op) ==
    LET written == Written(vdp, op)
        ordered == {w \in written : w[1] = 46}
        fed == \E w \in written : w[1] = 44
        given == B!JobOf(OrderOf(vdp, (CHOOSE w \in ordered : TRUE)[2]))
    IN  IF ordered # {}
        THEN IF given.does = "take" /\ vdp.transfer_pending
             THEN [given EXCEPT !.cells = Tail(@)] ELSE given
        ELSE IF \/ fed /\ vdp_job.does = "take" /\ vdp.tr
                \/ op.port = "status" /\ vdp.r[15] = 7
                   /\ vdp_job.does = "offer" /\ vdp.tr
        THEN JobRest ELSE vdp_job

JobAfter ==
    CASE vdp_pc = "cpu" -> IF vdp_program' = vdp_program THEN vdp_job
                           ELSE JobAfterAccess(Head(vdp_program))
      [] EventNow = "step" -> IF vdp_job.cells = <<>> THEN vdp_job ELSE AfterVisit
      [] EventNow = "ready" -> IF vdp_job.does = "take" /\ vdp.transfer_pending
                               THEN JobRest ELSE vdp_job
      [] EventNow = "complete" -> B!NoJob
      [] OTHER -> vdp_job

\* The lines not yet drawn whose right border the beam passes now.
Passed == {y \in vdp.rendered..(vdp.height - 1) :
              LET t == (vdp.line_zero + y) * TicksPerLine + RightBorder(vdp)
              IN  vdp.beam < t /\ t <= vdp'.beam}
SeenAfter ==
    IF vdp_pc = "pause" THEN <<>>
    ELSE LET old == {y \in DOMAIN seen : y >= vdp.rendered}
         IN  [y \in old \cup Passed |->
                 IF y \in old THEN seen[y] ELSE LineOf(vdp, y)]

FlagsClear == ~vdp.f /\ ~vdp.s5 /\ ~vdp.c
CalmAfter ==
    \/ vdp_pc = "pause"
    \/ /\ calm
       /\ vdp'.rendered > 0 => vdp_program' = vdp_program
       /\ vdp.rendered = 0 /\ vdp'.rendered > 0 => FlagsClear

WatchedInit == VdpInit /\ vdp_job = B!NoJob /\ seen = <<>> /\ calm = TRUE
WatchedNext == VdpNext /\ vdp_job' = JobAfter /\ seen' = SeenAfter /\ calm' = CalmAfter

\* The machine runs on, through instructions and frames (msx_run_frame is
\* called for every frame), and a guest that asks again and again comes to
\* see what it waits for.
Turns == vdp_pc' \in {"cpu", "engine", "frame", "pause"}
Goes == /\ vdp_pc = "cpu" /\ balance > 0 /\ vdp_program # <<>>
        /\ Head(vdp_program).port = "wait" => StatusShows(vdp, Head(vdp_program).value[2])
        /\ vdp_program' = Tail(vdp_program)
WatchedFairness == WF_vdp_pc(Turns) /\ SF_vdp_program(Goes)
WatchedSpec == WatchedInit /\ [][WatchedNext]_watched /\ WatchedFairness

---------------------------------------------------------------------------
(* Properties.                                                             *)

\* The engine is what Blitter promises: every cell of a command once and in
\* order, with the registers as they were when it was given, each byte of
\* a transfer taken or offered once, whatever the guest writes in between
\* and whenever a command is replaced (execute_vdp_command,
\* vram_engine_advance, command_execute_event).
ImplementsBlitter == B!Init /\ [][B!Next]_<<B!vars>>

\* The interrupt line is raised exactly while an enabled flag is set
\* (update_irq), whichever way flags and enables came to be.
IrqTellsFlags == vdp.irq <=> \/ vdp.f /\ vdp.r[1].ie0
                             \/ vdp.type = "v9938" /\ vdp.fh /\ vdp.r[0].ie1

\* A line of the picture shows what the chip would have shown when the beam
\* passed its end, though it is drawn later: nothing the guest or the engine
\* changed in between gets into it (render_flush_completed).
LinesAsTheBeamSaw ==
    \A y \in DOMAIN seen : y < vdp.rendered => vdp.pixels[y] = seen[y]

\* The sprite flags at the end of a frame are those of its lines taken
\* together, though the lines are drawn in pieces: the surplus sprite of
\* the first line that has one, or the end of the table, and a collision if
\* there was one, at the place of the first (update_sprite_status,
\* latch_sprite_collision).
SpriteFlagsOfTheFrame ==
    LET lines == 0..(vdp.height - 1)
        over == {y \in lines : Surplus(vdp, y) # {}}
        hit == {y \in lines : Hits(vdp, y) # {}}
        shown == /\ vdp.r[1].bl /\ SpriteMode(vdp) # 0
                 /\ V99x8(vdp) => ~vdp.r[8].spd
    IN  vdp_pc = "pause" /\ calm /\ shown =>
            /\ vdp.s5 <=> over # {}
            /\ vdp.fifth = IF over = {} THEN Len(vdp.sprites) + 1
                           ELSE Min(Surplus(vdp, Min(over)))
            /\ vdp.c <=> hit # {}
            /\ hit # {} => vdp.collision[2] = Min(hit)

\* Interrupt line and sprite flags tell the guest the truth (update_irq,
\* update_sprite_status).
StatusTellsTheFrame == IrqTellsFlags /\ SpriteFlagsOfTheFrame

\* Every guest that waits for what the chip promises, the next byte of a
\* transfer, the end of a command, an interrupt, gets to the end of its
\* program: no command and no access waits for ever.
GuestGetsThrough == <>(vdp_program = <<>>)
==============================================================================
