------------------------------ MODULE Timer8254 ------------------------------
(***************************************************************************)
(* The 8254 of the RS-232C interface (serial_8254.c) and the clock lines   *)
(* that it drives (serial_timing.h), as functions of a counter and of the  *)
(* time.  Scaled: a byte has four values, a word sixteen; the crystal's    *)
(* period is two units of time.                                            *)
(***************************************************************************)
EXTENDS Integers

ByteSize == 4
WordSize == ByteSize * ByteSize
TickTotal == 2

---------------------------------------------------------------------------
(* A clock line: periodic from a reference time on, or a level.            *)

NewClock == [total |-> 0, hi |-> 0, reference |-> 0,
             periodic |-> FALSE, status |-> FALSE]
SetState(c, status, t) ==
    [c EXCEPT !.status = status, !.periodic = FALSE, !.reference = t]
SetPeriodic(c, total, hi, t) ==
    [c EXCEPT !.periodic = TRUE, !.total = total, !.hi = hi,
              !.reference = t, !.status = hi > 0]
IsPeriodic(c) == c.periodic /\ c.total # 0
GetState(c, t) == IF IsPeriodic(c) THEN (t - c.reference) % c.total < c.hi
                  ELSE c.status

---------------------------------------------------------------------------
(* A counter.                                                              *)

Counter == [counter |-> 0, latched_counter |-> 0, counter_load |-> 0, now |-> 0,
            format |-> "both", mode |-> "m0", latched_control |-> <<>>,
            ltch_ctrl |-> FALSE, ltch_cntr |-> FALSE, read_order_low |-> TRUE,
            write_order_low |-> TRUE, active |-> FALSE, counting |-> TRUE,
            write_latch |-> 0, output |-> NewClock]

\* A reset forgets what was set up, but neither the count nor the output.
CounterReset(c, t) ==
    [Counter EXCEPT !.counter = c.counter, !.counter_load = c.counter_load,
                    !.output = c.output, !.now = t]

\* The remainder of C has the sign of the dividend.
Remainder(a, b) == IF b = 0 THEN 0 ELSE IF a < 0 THEN -((-a) % b) ELSE a % b

\* The count is brought up to date when somebody looks; what is left of a
\* tick is dropped.  The gate of every counter is high.
CounterAdvance(given, t) ==
    LET ticks == (t - given.now) \div TickTotal
        c == [given EXCEPT !.now = t]
        down == c.counter - ticks
        word == [c EXCEPT !.counter = down % WordSize]
    IN  CASE c.mode = "m0" /\ ~c.counting -> c
          [] c.mode = "m0" /\ c.counting /\ down >= 0 ->
                 [c EXCEPT !.counter = down]
          [] c.mode = "m0" /\ c.counting /\ down < 0 ->
                 IF c.active
                 THEN [word EXCEPT !.active = FALSE,
                                   !.output = SetState(@, FALSE, t)]
                 ELSE word
          [] c.mode = "m2" ->
                 [c EXCEPT !.counter = IF c.active
                                       THEN Remainder(down, c.counter_load)
                                       ELSE down]
          [] c.mode = "m3" ->
                 [c EXCEPT !.counter = IF c.active
                                       THEN Remainder(down - ticks, c.counter_load)
                                       ELSE down - ticks]
          [] c.mode = "m4" /\ c.active /\ down = 0 ->
                 [word EXCEPT !.output = SetState(@, FALSE, t)]
          [] c.mode = "m4" /\ c.active /\ down < 0 ->
                 [word EXCEPT !.output = SetState(@, TRUE, t), !.active = FALSE]
          [] OTHER -> word

\* The output of a periodic mode starts with the load that arms it.
Oscillates(c, t) ==
    LET load == c.counter_load IN
    CASE c.mode = "m3" ->
             SetPeriodic(c.output, TickTotal * load,
                         TickTotal * ((load + 1) \div 2), t)
      [] c.mode = "m2" -> SetPeriodic(c.output, TickTotal * load, TickTotal, t)
      [] c.mode = "m0" -> SetState(c.output, FALSE, t)
      [] OTHER -> c.output
WriteLoad(given, value, t) ==
    LET c == [given EXCEPT !.counter_load = value, !.active = TRUE]
        starts == c.mode = "m0" \/ (~given.active /\ c.mode \in {"m2", "m3"})
    IN  [c EXCEPT !.counter = IF starts \/ c.mode = "m4" THEN value ELSE @,
                  !.output = IF starts THEN Oscillates(c, t) ELSE @]

\* Two bytes make a load; the first stops a counter of mode 0.
ChannelWrite(given, byte, t) ==
    LET c == CounterAdvance(given, t)
        low == c.counter_load % ByteSize
        high == c.counter_load \div ByteSize
    IN  CASE c.format = "low" -> WriteLoad(c, high * ByteSize + byte, t)
          [] c.format = "high" -> WriteLoad(c, byte * ByteSize + low, t)
          [] c.format = "both" /\ c.write_order_low ->
                 [c EXCEPT !.write_order_low = FALSE, !.write_latch = byte,
                           !.counting = @ /\ c.mode # "m0"]
          [] c.format = "both" /\ ~c.write_order_low ->
                 WriteLoad([c EXCEPT !.write_order_low = TRUE, !.counting = TRUE],
                           byte * ByteSize + c.write_latch, t)

\* Mutant: the half that is read next stays what it was.
LatchCounterAnyHalf(given, t) ==
    LET c == CounterAdvance(given, t) IN
    IF c.ltch_cntr THEN c
    ELSE [c EXCEPT !.ltch_cntr = TRUE, !.latched_counter = c.counter % WordSize]

\* A second latch before the first was read changes nothing.
LatchCounter(given, t) ==
    LET c == CounterAdvance(given, t) IN
    IF c.ltch_cntr THEN c
    ELSE [c EXCEPT !.ltch_cntr = TRUE, !.read_order_low = TRUE,
                   !.latched_counter = c.counter % WordSize]
LatchStatus(given, t) ==
    LET c == CounterAdvance(given, t) IN
    IF c.ltch_ctrl THEN c
    ELSE [c EXCEPT !.ltch_ctrl = TRUE,
                   !.latched_control = <<GetState(c.output, t), c.format, c.mode>>]

WriteControlWord(given, word, t) ==
    LET c == CounterAdvance(given, t) IN
    IF word.format = "latch" THEN LatchCounter(c, t)
    ELSE [c EXCEPT !.format = word.format, !.mode = word.mode,
                   !.write_order_low = TRUE, !.counting = TRUE, !.active = FALSE,
                   !.output = SetState(@, word.mode # "m0", t)]

\* A read-back latches the status always, and the count when asked to.
ReadBack(c, count, t) ==
    LET w == LatchStatus(c, t) IN IF count THEN LatchCounter(w, t) ELSE w

\* What a read returns, and the counter after it.
ReadValue(given, t) ==
    LET c == CounterAdvance(given, t)
        count == IF c.ltch_cntr THEN c.latched_counter ELSE c.counter % WordSize
    IN  IF given.ltch_ctrl THEN given.latched_control
        ELSE IF c.format = "low" \/ (c.format = "both" /\ c.read_order_low)
        THEN <<count % ByteSize>> ELSE <<count \div ByteSize>>
ChannelRead(given, t) ==
    LET c == CounterAdvance(given, t)
    IN  CASE given.ltch_ctrl -> [given EXCEPT !.ltch_ctrl = FALSE]
          [] ~given.ltch_ctrl /\ c.format = "both" /\ c.read_order_low ->
                 [c EXCEPT !.read_order_low = FALSE]
          [] ~given.ltch_ctrl /\ c.format = "both" /\ ~c.read_order_low ->
                 [c EXCEPT !.read_order_low = TRUE, !.ltch_cntr = FALSE]
          [] OTHER -> [c EXCEPT !.ltch_cntr = FALSE]
==============================================================================
