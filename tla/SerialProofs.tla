----------------------------- MODULE SerialProofs -----------------------------
(***************************************************************************)
(* What passes the RS-232C interface stays whole and in order, neither     *)
(* direction of the USART comes to rest, and a latched count is read as it *)
(* was latched: for every program of the guest, every pace of its          *)
(* instructions, every clock, and rings and terminals of every size.       *)
(*                                                                         *)
(* First what each operation of the 8254 and of the 8251 does to the       *)
(* fields it changes and to those it leaves alone, then the actions.       *)
(***************************************************************************)
EXTENDS Serial, SequenceTheorems, TLAPS

---------------------------------------------------------------------------
(* Types.                                                                  *)

Clocks == [total : Int, hi : Int, reference : Int, periodic : BOOLEAN,
           status : BOOLEAN]
Statuses == {<<>>} \cup (BOOLEAN \X Format \X TimerMode)
Counters == [counter : Int, latched_counter : Int, counter_load : Nat,
             now : Int, format : Format, mode : TimerMode,
             latched_control : Statuses, ltch_ctrl : BOOLEAN,
             ltch_cntr : BOOLEAN, read_order_low : BOOLEAN,
             write_order_low : BOOLEAN, active : BOOLEAN, counting : BOOLEAN,
             write_latch : Nat, output : Clocks]
Pairs == [count : Int, bytes : Seq(Int), open : BOOLEAN]

\* What is read of a latched count, and which half comes next, is the same.
SameLatch(c, d) ==
    /\ d.ltch_cntr <=> c.ltch_cntr
    /\ d.read_order_low <=> c.read_order_low
    /\ d.latched_counter = c.latched_counter
    /\ d.format = c.format

---------------------------------------------------------------------------
(* Clock lines and counters.                                               *)

LEMMA ClockTypes ==
    ASSUME NEW c \in Clocks, NEW total \in Int, NEW hi \in Int, NEW t \in Int,
           NEW status \in BOOLEAN
    PROVE  /\ NewClock \in Clocks
           /\ SetState(c, status, t) \in Clocks
           /\ SetPeriodic(c, total, hi, t) \in Clocks
           /\ IsPeriodic(c) \in BOOLEAN
           /\ GetState(c, t) \in BOOLEAN
<1>1. NewClock \in Clocks
  BY DEF NewClock, Clocks
<1>2. SetState(c, status, t) \in Clocks
  BY DEF SetState, Clocks
<1>3. SetPeriodic(c, total, hi, t) \in Clocks
  <2>1. (hi > 0) \in BOOLEAN
    OBVIOUS
  <2> QED
    BY <2>1 DEF SetPeriodic, Clocks
<1>4. IsPeriodic(c) \in BOOLEAN
  BY DEF IsPeriodic, Clocks
<1>5. GetState(c, t) \in BOOLEAN
  <2>1. CASE IsPeriodic(c)
    <3>1. ((t - c.reference) % c.total < c.hi) \in BOOLEAN
      OBVIOUS
    <3> QED
      BY <2>1, <3>1 DEF GetState
  <2>2. CASE ~IsPeriodic(c)
    BY <2>2 DEF GetState, Clocks
  <2> QED
    BY <2>1, <2>2
<1> QED
  BY <1>1, <1>2, <1>3, <1>4, <1>5, Zenon

LEMMA RemainderType ==
    ASSUME NEW a \in Int, NEW b \in Nat
    PROVE  Remainder(a, b) \in Int
<1>1. CASE b = 0
  BY <1>1 DEF Remainder
<1>2. CASE b # 0
  <2>1. (-a) % b \in Int /\ a % b \in Int
    BY <1>2
  <2> QED
    BY <1>2, <2>1 DEF Remainder
<1> QED
  BY <1>1, <1>2

\* Bringing a counter up to date touches its count, its output and whether it
\* is armed, and nothing that a latch or a half-written load is made of.
LEMMA AdvanceKeeps ==
    ASSUME NEW given \in Counters, NEW t \in Int
    PROVE  /\ CounterAdvance(given, t) \in Counters
           /\ SameLatch(given, CounterAdvance(given, t))
<1> DEFINE ticks == (t - given.now) \div TickTotal
           c == [given EXCEPT !.now = t]
           down == c.counter - ticks
           word == [c EXCEPT !.counter = down % WordSize]
<1>1. /\ c \in Counters /\ SameLatch(given, c)
      /\ c.counter = given.counter /\ c.counter_load = given.counter_load
      /\ c.output = given.output /\ c.mode = given.mode
  BY DEF Counters, SameLatch
<1>2. ticks \in Int
  BY DEF Counters, TickTotal
<1>3. down \in Int /\ down - ticks \in Int
  <2>1. c.counter \in Int
    BY <1>1 DEF Counters
  <2> QED
    BY <1>2, <2>1
<1>4. down % WordSize \in Int
  <2>1. WordSize = 16
    BY DEF WordSize, ByteSize
  <2> HIDE DEF down
  <2> QED
    BY <1>3, <2>1
<1>5. /\ Remainder(down, c.counter_load) \in Int
      /\ Remainder(down - ticks, c.counter_load) \in Int
  <2>1. c.counter_load \in Nat
    BY <1>1 DEF Counters
  <2> HIDE DEF down, ticks, c
  <2> QED
    BY <1>3, <2>1, RemainderType
<1>6. word \in Counters /\ SameLatch(given, word) /\ word.output = given.output
  <2> HIDE DEF down
  <2> QED
    BY <1>1, <1>4 DEF Counters, SameLatch
<1>7. /\ SetState(word.output, FALSE, t) \in Clocks
      /\ SetState(word.output, TRUE, t) \in Clocks
  <2>1. given.output \in Clocks
    BY DEF Counters
  <2> HIDE DEF word
  <2> QED
    BY <1>6, <2>1, ClockTypes
<1> DEFINE next == CounterAdvance(given, t)
<1>7a. next =
         CASE c.mode = "m0" /\ ~c.counting -> c
           [] c.mode = "m0" /\ c.counting /\ down >= 0 ->
                  [c EXCEPT !.counter = down]
           [] c.mode = "m0" /\ c.counting /\ down < 0 ->
                  IF c.active
                  THEN [word EXCEPT !.active = FALSE,
                                    !.output = SetState(@, FALSE, t)]
                  ELSE word
           [] c.mode = "m2" ->
                  [c EXCEPT !.counter = IF c.active
                                        THEN Remainder(down, c.counter_load)
                                        ELSE down]
           [] c.mode = "m3" ->
                  [c EXCEPT !.counter = IF c.active
                                        THEN Remainder(down - ticks, c.counter_load)
                                        ELSE down - ticks]
           [] c.mode = "m4" /\ c.active /\ down = 0 ->
                  [word EXCEPT !.output = SetState(@, FALSE, t)]
           [] c.mode = "m4" /\ c.active /\ down < 0 ->
                  [word EXCEPT !.output = SetState(@, TRUE, t), !.active = FALSE]
           [] OTHER -> word
  BY Zenon DEF CounterAdvance
<1> HIDE DEF next, word, down, ticks, c
<1>8. \/ next = c
      \/ next = word
      \/ \E n \in Int : next = [c EXCEPT !.counter = n]
      \/ \E b \in BOOLEAN :
             \/ next = [word EXCEPT !.active = FALSE, !.output = SetState(@, b, t)]
             \/ next = [word EXCEPT !.output = SetState(@, b, t), !.active = FALSE]
      \/ next = [word EXCEPT !.output = SetState(@, FALSE, t)]
  <2>1. CASE c.mode = "m0" /\ ~c.counting
    BY <1>7a, <2>1
  <2>2. CASE c.mode = "m0" /\ c.counting /\ down >= 0
    <3>1. next = [c EXCEPT !.counter = down]
      BY <1>3, <1>7a, <2>2
    <3> QED
      BY <3>1, <1>3, Zenon
  <2>3. CASE c.mode = "m0" /\ c.counting /\ down < 0 /\ c.active
    <3>1. next = [word EXCEPT !.active = FALSE, !.output = SetState(@, FALSE, t)]
      BY <1>3, <1>7a, <2>3
    <3> QED
      BY <3>1
  <2>4. CASE c.mode = "m0" /\ c.counting /\ down < 0 /\ ~c.active
    BY <1>3, <1>7a, <2>4
  <2>5. CASE c.mode = "m2"
    <3> DEFINE left == IF c.active THEN Remainder(down, c.counter_load) ELSE down
    <3>1. left \in Int
      BY <1>3, <1>5
    <3>2. next = [c EXCEPT !.counter = left]
      BY <1>7a, <2>5
    <3> QED
      BY <3>1, <3>2, Zenon
  <2>6. CASE c.mode = "m3"
    <3> DEFINE left == IF c.active THEN Remainder(down - ticks, c.counter_load)
                       ELSE down - ticks
    <3>1. left \in Int
      BY <1>3, <1>5
    <3>2. next = [c EXCEPT !.counter = left]
      BY <1>7a, <2>6
    <3> QED
      BY <3>1, <3>2, Zenon
  <2>7. CASE c.mode = "m4" /\ c.active /\ down = 0
    BY <1>7a, <2>7
  <2>8. CASE c.mode = "m4" /\ c.active /\ down < 0
    <3>1. next = [word EXCEPT !.output = SetState(@, TRUE, t), !.active = FALSE]
      BY <1>3, <1>7a, <2>8
    <3> QED
      BY <3>1, Zenon
  <2>9. CASE c.mode \notin {"m0", "m2", "m3", "m4"}
    BY <1>7a, <2>9
  <2>10. CASE c.mode = "m4" /\ ~c.active
    BY <1>7a, <2>10
  <2>11. CASE c.mode = "m4" /\ down > 0
    <3>1. ~(down = 0) /\ ~(down < 0)
      BY <1>3, <2>11
    <3>2. c.mode # "m0" /\ c.mode # "m2" /\ c.mode # "m3"
      BY <2>11
    <3> QED
      BY <1>7a, <3>1, <3>2
  <2>12. /\ down >= 0 \/ down < 0
         /\ down = 0 \/ down < 0 \/ down > 0
    BY <1>3
  <2>13. CASE c.mode = "m0"
    BY <2>1, <2>2, <2>3, <2>4, <2>12, <2>13, Zenon
  <2>14. CASE c.mode = "m4"
    BY <2>7, <2>8, <2>10, <2>11, <2>12, <2>14, Zenon
  <2> QED
    BY <2>5, <2>6, <2>9, <2>13, <2>14
<1>9. ASSUME NEW n \in Int, next = [c EXCEPT !.counter = n]
      PROVE  next \in Counters /\ SameLatch(given, next)
  BY <1>9, <1>1 DEF Counters, SameLatch
<1>10. ASSUME NEW b \in BOOLEAN,
              \/ next = [word EXCEPT !.active = FALSE,
                                      !.output = SetState(@, b, t)]
              \/ next = [word EXCEPT !.output = SetState(@, b, t),
                                      !.active = FALSE]
       PROVE  next \in Counters /\ SameLatch(given, next)
  <2>1. SetState(word.output, b, t) \in Clocks
    BY <1>7
  <2>2. CASE next = [word EXCEPT !.active = FALSE, !.output = SetState(@, b, t)]
    BY <2>2, <1>6, <2>1 DEF Counters, SameLatch
  <2>3. CASE next = [word EXCEPT !.output = SetState(@, b, t), !.active = FALSE]
    BY <2>3, <1>6, <2>1 DEF Counters, SameLatch
  <2> QED
    BY <1>10, <2>2, <2>3
<1>11. ASSUME next = [word EXCEPT !.output = SetState(@, FALSE, t)]
       PROVE  next \in Counters /\ SameLatch(given, next)
  BY <1>11, <1>6, <1>7 DEF Counters, SameLatch
<1>12. next \in Counters /\ SameLatch(given, next)
  BY <1>1, <1>6, <1>8, <1>9, <1>10, <1>11, Zenon
<1> QED
  BY <1>12 DEF next

\* The output that a load starts is a clock line.
LEMMA OscillatesType ==
    ASSUME NEW c \in Counters, NEW t \in Int
    PROVE  Oscillates(c, t) \in Clocks
<1>1. c.output \in Clocks /\ c.counter_load \in Nat
  BY DEF Counters
<1> DEFINE load == c.counter_load
<1>2. /\ TickTotal * load \in Int /\ TickTotal \in Int
      /\ TickTotal * ((load + 1) \div 2) \in Int
  BY <1>1 DEF TickTotal
<1>3. /\ SetPeriodic(c.output, TickTotal * load, TickTotal, t) \in Clocks
      /\ SetPeriodic(c.output, TickTotal * load,
                     TickTotal * ((load + 1) \div 2), t) \in Clocks
      /\ SetState(c.output, FALSE, t) \in Clocks
  <2> HIDE DEF load
  <2> QED
    BY <1>1, <1>2, ClockTypes
<1>4. CASE c.mode = "m3"
  BY <1>3, <1>4 DEF Oscillates
<1>5. CASE c.mode = "m2"
  BY <1>3, <1>5 DEF Oscillates
<1>6. CASE c.mode = "m0"
  BY <1>3, <1>6 DEF Oscillates
<1>7. CASE c.mode \notin {"m0", "m2", "m3"}
  BY <1>1, <1>7 DEF Oscillates
<1> QED
  BY <1>4, <1>5, <1>6, <1>7

LEMMA WriteLoadKeeps ==
    ASSUME NEW given \in Counters, NEW value \in Nat, NEW t \in Int
    PROVE  /\ WriteLoad(given, value, t) \in Counters
           /\ SameLatch(given, WriteLoad(given, value, t))
<1> DEFINE c == [given EXCEPT !.counter_load = value, !.active = TRUE]
           starts == c.mode = "m0" \/ (~given.active /\ c.mode \in {"m2", "m3"})
           count == IF starts \/ c.mode = "m4" THEN value ELSE c.counter
           output == IF starts THEN Oscillates(c, t) ELSE c.output
<1>1. c \in Counters /\ SameLatch(given, c)
  BY DEF Counters, SameLatch
<1>2. count \in Int /\ output \in Clocks
  <2>1. c.counter \in Int /\ c.output \in Clocks
    BY <1>1 DEF Counters
  <2> HIDE DEF c
  <2> QED
    BY <1>1, <2>1, OscillatesType
<1>3. WriteLoad(given, value, t) = [c EXCEPT !.counter = count, !.output = output]
  BY Zenon DEF WriteLoad
<1> HIDE DEF c, count, output
<1> QED
  BY <1>1, <1>2, <1>3 DEF Counters, SameLatch

LEMMA ChannelWriteKeeps ==
    ASSUME NEW given \in Counters, NEW byte \in 0..(ByteSize - 1), NEW t \in Int
    PROVE  /\ ChannelWrite(given, byte, t) \in Counters
           /\ SameLatch(given, ChannelWrite(given, byte, t))
<1> DEFINE c == CounterAdvance(given, t)
           low == c.counter_load % ByteSize
           high == c.counter_load \div ByteSize
           halved == [c EXCEPT !.write_order_low = FALSE, !.write_latch = byte,
                               !.counting = @ /\ c.mode # "m0"]
           loaded == [c EXCEPT !.write_order_low = TRUE, !.counting = TRUE]
           next == ChannelWrite(given, byte, t)
<1>1. c \in Counters /\ SameLatch(given, c)
  BY AdvanceKeeps
<1>2. next =
         CASE c.format = "low" -> WriteLoad(c, high * ByteSize + byte, t)
           [] c.format = "high" -> WriteLoad(c, byte * ByteSize + low, t)
           [] c.format = "both" /\ c.write_order_low -> halved
           [] c.format = "both" /\ ~c.write_order_low ->
                  WriteLoad(loaded, byte * ByteSize + c.write_latch, t)
  BY Zenon DEF ChannelWrite
<1> HIDE DEF c, next
<1>3. /\ high * ByteSize + byte \in Nat /\ byte * ByteSize + low \in Nat
      /\ byte * ByteSize + c.write_latch \in Nat /\ byte \in Nat
  <2>1. c.counter_load \in Nat /\ c.write_latch \in Nat
    BY <1>1 DEF Counters
  <2> QED
    BY <2>1 DEF ByteSize
<1>4. halved \in Counters /\ SameLatch(c, halved)
  <2>1. (c.counting /\ c.mode # "m0") \in BOOLEAN
    OBVIOUS
  <2> QED
    BY <1>1, <1>3, <2>1 DEF Counters, SameLatch
<1>5. loaded \in Counters /\ SameLatch(c, loaded)
  BY <1>1 DEF Counters, SameLatch
<1> HIDE DEF halved, loaded, low, high
<1>6. next \in Counters /\ (SameLatch(c, next) \/ SameLatch(loaded, next))
  <2>1. c.format \in {"low", "high", "both"}
    BY <1>1 DEF Counters, Format
  <2>2. CASE c.format = "low"
    BY <1>1, <1>2, <1>3, <2>2, WriteLoadKeeps
  <2>3. CASE c.format = "high"
    BY <1>1, <1>2, <1>3, <2>3, WriteLoadKeeps
  <2>4. CASE c.format = "both" /\ c.write_order_low
    BY <1>2, <1>4, <2>4
  <2>5. CASE c.format = "both" /\ ~c.write_order_low
    BY <1>2, <1>3, <1>5, <2>5, WriteLoadKeeps
  <2> QED
    BY <2>1, <2>2, <2>3, <2>4, <2>5
<1>7. SameLatch(given, next)
  BY <1>1, <1>5, <1>6 DEF SameLatch
<1> QED
  BY <1>6, <1>7 DEF next

\* A latch takes the count and starts with its low half, unless one is there.
Latches(c, d) ==
    IF c.ltch_cntr THEN SameLatch(c, d)
    ELSE d.ltch_cntr /\ d.read_order_low /\ d.format = c.format

LEMMA LatchCounterDoes ==
    ASSUME NEW given \in Counters, NEW t \in Int
    PROVE  /\ LatchCounter(given, t) \in Counters
           /\ Latches(given, LatchCounter(given, t))
<1> DEFINE c == CounterAdvance(given, t)
           latched == [c EXCEPT !.ltch_cntr = TRUE, !.read_order_low = TRUE,
                                !.latched_counter = c.counter % WordSize]
<1>1. c \in Counters /\ SameLatch(given, c)
  BY AdvanceKeeps
<1>2. LatchCounter(given, t) = IF c.ltch_cntr THEN c ELSE latched
  BY Zenon DEF LatchCounter
<1> HIDE DEF c
<1>3. c.counter % WordSize \in Int
  <2>1. c.counter \in Int
    BY <1>1 DEF Counters
  <2> QED
    BY <2>1 DEF WordSize, ByteSize
<1>4. latched \in Counters
  BY <1>1, <1>3 DEF Counters
<1>5. latched.ltch_cntr /\ latched.read_order_low /\ latched.format = c.format
  BY <1>1 DEF Counters
<1> HIDE DEF latched
<1> QED
  BY <1>1, <1>2, <1>4, <1>5 DEF SameLatch, Latches

LEMMA LatchStatusKeeps ==
    ASSUME NEW given \in Counters, NEW t \in Int
    PROVE  /\ LatchStatus(given, t) \in Counters
           /\ SameLatch(given, LatchStatus(given, t))
<1> DEFINE c == CounterAdvance(given, t)
           status == <<GetState(c.output, t), c.format, c.mode>>
           latched == [c EXCEPT !.ltch_ctrl = TRUE, !.latched_control = status]
<1>1. c \in Counters /\ SameLatch(given, c)
  BY AdvanceKeeps
<1>2. LatchStatus(given, t) = IF c.ltch_ctrl THEN c ELSE latched
  BY Zenon DEF LatchStatus
<1> HIDE DEF c
<1>3. status \in Statuses
  <2>1. c.output \in Clocks /\ c.format \in Format /\ c.mode \in TimerMode
    BY <1>1 DEF Counters
  <2>2. GetState(c.output, t) \in BOOLEAN
    BY <2>1, ClockTypes
  <2> QED
    BY <2>1, <2>2 DEF Statuses
<1> HIDE DEF status
<1>4. latched \in Counters /\ SameLatch(c, latched)
  BY <1>1, <1>3 DEF Counters, SameLatch
<1> HIDE DEF latched
<1> QED
  BY <1>1, <1>2, <1>4 DEF SameLatch

LEMMA ReadBackDoes ==
    ASSUME NEW c \in Counters, NEW count \in BOOLEAN, NEW t \in Int
    PROVE  /\ ReadBack(c, count, t) \in Counters
           /\ \/ SameLatch(c, ReadBack(c, count, t))
              \/ Latches(c, ReadBack(c, count, t))
<1> DEFINE w == LatchStatus(c, t)
<1>1. w \in Counters /\ SameLatch(c, w)
  BY LatchStatusKeeps
<1>2. ReadBack(c, count, t) = IF count THEN LatchCounter(w, t) ELSE w
  BY Zenon DEF ReadBack
<1> HIDE DEF w
<1>3. CASE count
  <2>1. /\ LatchCounter(w, t) \in Counters
        /\ Latches(w, LatchCounter(w, t))
    BY <1>1, LatchCounterDoes
  <2> QED
    BY <1>1, <1>2, <1>3, <2>1 DEF SameLatch, Latches
<1>4. CASE ~count
  BY <1>1, <1>2, <1>4
<1> QED
  BY <1>3, <1>4

\* A control word latches, or gives the counter a mode and a format; a count
\* that was latched stays latched.
LEMMA ControlWordDoes ==
    ASSUME NEW given \in Counters, NEW word, NEW t \in Int,
           word.format \in Format \cup {"latch"}, word.mode \in TimerMode
    PROVE  LET d == WriteControlWord(given, word, t) IN
           /\ d \in Counters
           /\ word.format = "latch" => Latches(given, d)
           /\ word.format # "latch" =>
                  /\ d.ltch_cntr <=> given.ltch_cntr
                  /\ d.read_order_low <=> given.read_order_low
                  /\ d.latched_counter = given.latched_counter
                  /\ d.format = word.format
<1> DEFINE c == CounterAdvance(given, t)
           line == SetState(c.output, word.mode # "m0", t)
           set == [c EXCEPT !.format = word.format, !.mode = word.mode,
                            !.write_order_low = TRUE, !.counting = TRUE,
                            !.active = FALSE, !.output = line]
           next == WriteControlWord(given, word, t)
<1>1. c \in Counters /\ SameLatch(given, c)
  BY AdvanceKeeps
<1>2. next = IF word.format = "latch" THEN LatchCounter(c, t) ELSE set
  BY Zenon DEF WriteControlWord
<1> HIDE DEF c, next
<1>3. CASE word.format = "latch"
  <2>1. next \in Counters /\ Latches(c, next)
    BY <1>1, <1>2, <1>3, LatchCounterDoes
  <2>2. Latches(given, next)
    BY <1>1, <2>1 DEF SameLatch, Latches
  <2> QED
    BY <1>3, <2>1, <2>2 DEF next
<1>4. CASE word.format # "latch"
  <2>1. line \in Clocks
    <3>1. c.output \in Clocks /\ (word.mode # "m0") \in BOOLEAN
      BY <1>1 DEF Counters
    <3> QED
      BY <3>1, ClockTypes
  <2> HIDE DEF line
  <2>2. set \in Counters
    BY <1>1, <1>4, <2>1 DEF Counters
  <2>3. /\ set.ltch_cntr <=> c.ltch_cntr
        /\ set.read_order_low <=> c.read_order_low
        /\ set.latched_counter = c.latched_counter
        /\ set.format = word.format
    BY <1>1 DEF Counters
  <2>4. next = set
    BY <1>2, <1>4
  <2> HIDE DEF set
  <2>5. /\ next.ltch_cntr <=> given.ltch_cntr
        /\ next.read_order_low <=> given.read_order_low
        /\ next.latched_counter = given.latched_counter
        /\ next.format = word.format
    BY <1>1, <2>3, <2>4 DEF SameLatch
  <2> QED
    BY <1>4, <2>2, <2>4, <2>5 DEF next
<1> QED
  BY <1>3, <1>4

\* What a read takes of a latched count: the half that is due, after which
\* the other half of a count of two is due or the latch is free.
LEMMA ReadDoes ==
    ASSUME NEW given \in Counters, NEW t \in Int
    PROVE  LET d == ChannelRead(given, t)
               n == given.latched_counter
               whole == given.format = "both" IN
           /\ d \in Counters
           /\ d.format = given.format
           /\ d.latched_counter = n
           /\ given.ltch_ctrl => SameLatch(given, d)
           /\ ~given.ltch_ctrl =>
                  /\ d.ltch_cntr <=> given.ltch_cntr /\ whole /\ given.read_order_low
                  /\ d.read_order_low <=>
                         IF whole THEN ~given.read_order_low ELSE given.read_order_low
                  /\ given.ltch_cntr =>
                         ReadValue(given, t) =
                         IF given.format = "low" \/ (whole /\ given.read_order_low)
                         THEN <<n % ByteSize>> ELSE <<n \div ByteSize>>
<1> DEFINE c == CounterAdvance(given, t)
           d == ChannelRead(given, t)
           n == given.latched_counter
           whole == given.format = "both"
           r1 == [given EXCEPT !.ltch_ctrl = FALSE]
           r2 == [c EXCEPT !.read_order_low = FALSE]
           r3 == [c EXCEPT !.read_order_low = TRUE, !.ltch_cntr = FALSE]
           r4 == [c EXCEPT !.ltch_cntr = FALSE]
           count == IF c.ltch_cntr THEN c.latched_counter ELSE c.counter % WordSize
<1>1. c \in Counters /\ SameLatch(given, c)
  BY AdvanceKeeps
<1>2. /\ d = CASE given.ltch_ctrl -> r1
               [] ~given.ltch_ctrl /\ c.format = "both" /\ c.read_order_low -> r2
               [] ~given.ltch_ctrl /\ c.format = "both" /\ ~c.read_order_low -> r3
               [] OTHER -> r4
      /\ ReadValue(given, t) =
             IF given.ltch_ctrl THEN given.latched_control
             ELSE IF c.format = "low" \/ (c.format = "both" /\ c.read_order_low)
             THEN <<count % ByteSize>> ELSE <<count \div ByteSize>>
  BY Zenon DEF ChannelRead, ReadValue
<1> HIDE DEF c, d
<1>3. /\ r1 \in Counters /\ SameLatch(given, r1)
      /\ r1.latched_counter = n /\ r1.format = given.format
  BY DEF Counters, SameLatch
<1>4. /\ r2 \in Counters /\ r3 \in Counters /\ r4 \in Counters
  BY <1>1 DEF Counters
<1>5. /\ r2.format = c.format /\ r3.format = c.format /\ r4.format = c.format
      /\ r2.latched_counter = c.latched_counter
      /\ r3.latched_counter = c.latched_counter
      /\ r4.latched_counter = c.latched_counter
      /\ ~r2.read_order_low /\ (r2.ltch_cntr <=> c.ltch_cntr)
      /\ r3.read_order_low /\ ~r3.ltch_cntr
      /\ (r4.read_order_low <=> c.read_order_low) /\ ~r4.ltch_cntr
  BY <1>1 DEF Counters
<1> HIDE DEF r1, r2, r3, r4
<1>6. c.format = given.format /\ c.latched_counter = n
      /\ (c.ltch_cntr <=> given.ltch_cntr)
      /\ (c.read_order_low <=> given.read_order_low)
  BY <1>1 DEF SameLatch
<1>7. d \in Counters /\ d.format = given.format /\ d.latched_counter = n
  <2>1. d \in {r1, r2, r3, r4}
    BY <1>2
  <2> QED
    BY <1>3, <1>4, <1>5, <1>6, <2>1
<1>8. given.ltch_ctrl => SameLatch(given, d)
  BY <1>2, <1>3
<1>9. ASSUME ~given.ltch_ctrl
      PROVE  /\ d.ltch_cntr <=> given.ltch_cntr /\ whole /\ given.read_order_low
             /\ d.read_order_low <=>
                    IF whole THEN ~given.read_order_low ELSE given.read_order_low
  <2>1. CASE whole /\ given.read_order_low
    <3>1. d = r2
      BY <1>2, <1>6, <1>9, <2>1
    <3> QED
      BY <1>5, <1>6, <2>1, <3>1
  <2>2. CASE whole /\ ~given.read_order_low
    <3>1. d = r3
      BY <1>2, <1>6, <1>9, <2>2
    <3> QED
      BY <1>5, <1>6, <2>2, <3>1
  <2>3. CASE ~whole
    <3>1. d = r4
      BY <1>2, <1>6, <1>9, <2>3
    <3> QED
      BY <1>5, <1>6, <2>3, <3>1
  <2> QED
    BY <2>1, <2>2, <2>3
<1>10. ASSUME ~given.ltch_ctrl, given.ltch_cntr
       PROVE  ReadValue(given, t) =
              IF given.format = "low" \/ (whole /\ given.read_order_low)
              THEN <<n % ByteSize>> ELSE <<n \div ByteSize>>
  <2>1. count = n
    BY <1>6, <1>10
  <2> HIDE DEF count
  <2> QED
    BY <1>2, <1>6, <1>10, <2>1
<1> QED
  BY <1>7, <1>8, <1>9, <1>10, Zenon DEF d

LEMMA ResetKeepsType ==
    ASSUME NEW c \in Counters, NEW t \in Int
    PROVE  CounterReset(c, t) \in Counters
<1>1. Counter \in Counters
  <2>1. NewClock \in Clocks
    BY DEF NewClock, Clocks
  <2> QED
    BY <2>1 DEF Counter, Counters, Format, TimerMode, Statuses
<1> QED
  BY <1>1 DEF CounterReset, Counters

---------------------------------------------------------------------------
(* The count that was latched, and what was read of it.                    *)

\* What LatchedCountWhole says of one counter.
ReadWhole(p, c) ==
    /\ Len(p.bytes) >= 1 => p.bytes[1] = IF c.format = "high"
                                         THEN p.count \div ByteSize
                                         ELSE p.count % ByteSize
    /\ Len(p.bytes) >= 2 => p.bytes[2] = p.count \div ByteSize

\* While there is something left to read, the counter holds the count and
\* knows which half comes next.
PairGood(p, c) ==
    /\ p \in Pairs
    /\ ReadWhole(p, c)
    /\ p.open =>
        /\ c.ltch_cntr
        /\ p.count = c.latched_counter
        /\ IF c.format = "both" /\ ~c.read_order_low THEN Len(p.bytes) = 1
           ELSE p.bytes = <<>>

LEMMA PairKept ==
    ASSUME NEW c \in Counters, NEW d \in Counters, NEW p,
           SameLatch(c, d), PairGood(p, c)
    PROVE  PairGood(p, d)
BY DEF SameLatch, PairGood, ReadWhole

LEMMA NoPairGood ==
    ASSUME NEW c \in Counters
    PROVE  PairGood(NoPair, c)
<1>1. NoPair \in Pairs /\ NoPair.bytes = <<>> /\ ~NoPair.open
  BY DEF NoPair, Pairs
<1>2. Len(NoPair.bytes) = 0
  BY <1>1
<1> QED
  BY <1>1, <1>2 DEF PairGood, ReadWhole

LEMMA PairLatched ==
    ASSUME NEW ch, pit[ch] \in Counters, PairGood(pair[ch], pit[ch]),
           NEW d \in Counters,
           \/ SameLatch(pit[ch], d)
           \/ Latches(pit[ch], d)
    PROVE  PairGood(PairAfter(ch, d), d)
<1> DEFINE c == pit[ch]
           new == [count |-> d.latched_counter, bytes |-> <<>>, open |-> TRUE]
           after == PairAfter(ch, d)
<1>1. after = CASE d.ltch_cntr /\ ~c.ltch_cntr -> new
                [] d.format # c.format -> NoPair
                [] OTHER -> pair[ch]
  BY Zenon DEF PairAfter
<1> HIDE DEF after
<1>2. d.format = c.format
  BY DEF SameLatch, Latches
<1>3. CASE d.ltch_cntr /\ ~c.ltch_cntr
  <2>1. after = new
    BY <1>1, <1>2, <1>3
  <2>2. d.read_order_low
    BY <1>3 DEF SameLatch, Latches
  <2>3. d.latched_counter \in Int
    BY DEF Counters
  <2>4. new \in Pairs /\ new.bytes = <<>> /\ new.count = d.latched_counter
    BY <2>3 DEF Pairs
  <2>5. Len(new.bytes) = 0
    BY <2>4
  <2> HIDE DEF new
  <2>6. PairGood(new, d)
    BY <1>3, <2>2, <2>4, <2>5 DEF PairGood, ReadWhole
  <2> QED
    BY <2>1, <2>6 DEF after
<1>4. CASE ~(d.ltch_cntr /\ ~c.ltch_cntr)
  <2>1. after = pair[ch]
    BY <1>1, <1>2, <1>4
  <2>2. SameLatch(c, d)
    BY <1>4 DEF Latches, SameLatch
  <2>3. PairGood(pair[ch], d)
    BY <2>2, PairKept
  <2> QED
    BY <2>1, <2>3 DEF after
<1> QED
  BY <1>3, <1>4

\* A control word that gives another format ends what was being read.
LEMMA PairFormatted ==
    ASSUME NEW ch, pit[ch] \in Counters, PairGood(pair[ch], pit[ch]),
           NEW d \in Counters,
           d.ltch_cntr <=> pit[ch].ltch_cntr,
           d.read_order_low <=> pit[ch].read_order_low,
           d.latched_counter = pit[ch].latched_counter
    PROVE  PairGood(PairAfter(ch, d), d)
<1>1. CASE d.format = pit[ch].format
  <2>1. SameLatch(pit[ch], d)
    BY <1>1 DEF SameLatch
  <2> QED
    BY <2>1, PairLatched
<1>2. CASE d.format # pit[ch].format
  <2>1. PairAfter(ch, d) = NoPair
    BY <1>2 DEF PairAfter
  <2> QED
    BY <2>1, NoPairGood
<1> QED
  BY <1>1, <1>2

LEMMA PairReadGood ==
    ASSUME NEW c \in Counters, NEW t \in Int, NEW p, PairGood(p, c)
    PROVE  LET d == ChannelRead(c, t)
               q == IF c.ltch_ctrl \/ ~p.open THEN p
                    ELSE [p EXCEPT !.bytes = @ \o ReadValue(c, t),
                                   !.open = d.ltch_cntr] IN
           PairGood(q, d)
<1> DEFINE d == ChannelRead(c, t)
           value == ReadValue(c, t)
           n == c.latched_counter
           whole == c.format = "both"
           read == [p EXCEPT !.bytes = p.bytes \o value, !.open = d.ltch_cntr]
<1>1. /\ d \in Counters
      /\ d.format = c.format
      /\ d.latched_counter = n
      /\ c.ltch_ctrl => SameLatch(c, d)
      /\ ~c.ltch_ctrl =>
             /\ d.ltch_cntr <=> c.ltch_cntr /\ whole /\ c.read_order_low
             /\ d.read_order_low <=>
                    IF whole THEN ~c.read_order_low ELSE c.read_order_low
             /\ c.ltch_cntr =>
                    value = IF c.format = "low" \/ (whole /\ c.read_order_low)
                            THEN <<n % ByteSize>> ELSE <<n \div ByteSize>>
  BY ReadDoes, Zenon
<1>2. n \in Int /\ c.format \in {"low", "high", "both"} /\ n % ByteSize \in Int
      /\ n \div ByteSize \in Int
  BY DEF Counters, Format, ByteSize
<1> HIDE DEF d, value
<1>3. p \in Pairs /\ ReadWhole(p, c)
  BY DEF PairGood
<1>4. CASE c.ltch_ctrl
  <2>1. PairGood(p, d)
    BY <1>1, <1>4, PairKept
  <2> QED
    BY <1>4, <2>1 DEF d
<1>5. CASE ~c.ltch_ctrl /\ ~p.open
  <2>1. PairGood(p, d)
    BY <1>1, <1>3, <1>5 DEF PairGood, ReadWhole
  <2> QED
    BY <1>5, <2>1 DEF d
<1>6. CASE ~c.ltch_ctrl /\ p.open
  <2>1. c.ltch_cntr /\ p.count = n
    BY <1>6 DEF PairGood
  <2>2. \E x \in Int : /\ value = <<x>>
                       /\ x = IF c.format = "low" \/ (whole /\ c.read_order_low)
                              THEN n % ByteSize ELSE n \div ByteSize
    BY <1>1, <1>2, <1>6, <2>1
  <2>3. PICK x \in Int :
            /\ value = <<x>>
            /\ x = IF c.format = "low" \/ (whole /\ c.read_order_low)
                   THEN n % ByteSize ELSE n \div ByteSize
    BY <2>2
  <2> DEFINE bytes == p.bytes \o <<x>>
  <2>4. p.bytes \in Seq(Int)
    BY <1>3 DEF Pairs
  <2>5. /\ bytes \in Seq(Int) /\ Len(bytes) = Len(p.bytes) + 1
        /\ bytes[Len(p.bytes) + 1] = x
        /\ \A i \in 1..Len(p.bytes) : bytes[i] = p.bytes[i]
    BY <2>4
  <2>6. d.ltch_cntr \in BOOLEAN
    BY <1>1 DEF Counters
  <2> HIDE DEF bytes
  <2>7. /\ read \in Pairs /\ read.bytes = bytes /\ read.count = n
        /\ read.open = d.ltch_cntr
    <3>1. read = [p EXCEPT !.bytes = bytes, !.open = d.ltch_cntr]
      BY <2>3 DEF bytes
    <3>2. [p EXCEPT !.bytes = bytes, !.open = d.ltch_cntr] \in Pairs
      BY <1>3, <2>5, <2>6 DEF Pairs
    <3> QED
      BY <1>3, <2>1, <3>1, <3>2 DEF Pairs
  <2> HIDE DEF read
  <2>8. ASSUME whole /\ ~c.read_order_low
        PROVE  PairGood(read, d)
    <3>1. Len(p.bytes) = 1
      BY <1>6, <2>8 DEF PairGood
    <3>2. p.bytes[1] = n % ByteSize
      BY <1>3, <2>1, <2>8, <3>1 DEF ReadWhole
    <3>3. x = n \div ByteSize
      BY <2>3, <2>8
    <3>4. 1 \in 1..Len(p.bytes) /\ Len(p.bytes) + 1 = 2
      BY <3>1
    <3>5. Len(bytes) = 2 /\ bytes[1] = n % ByteSize /\ bytes[2] = n \div ByteSize
      BY <2>5, <3>2, <3>3, <3>4
    <3>6. ~d.ltch_cntr /\ d.format # "high"
      BY <1>1, <1>6, <2>8
    <3>7. ReadWhole(read, d)
      BY <2>7, <3>5, <3>6 DEF ReadWhole
    <3>8. ~read.open
      BY <2>7, <3>6, Zenon
    <3> QED
      BY <2>7, <3>7, <3>8 DEF PairGood
  <2>9. ASSUME ~(whole /\ ~c.read_order_low)
        PROVE  PairGood(read, d)
    <3>1. p.bytes = <<>>
      BY <1>6, <2>9 DEF PairGood
    <3>2. Len(p.bytes) = 0
      BY <3>1
    <3>3. Len(bytes) = 1 /\ bytes[1] = x
      BY <2>5, <3>2
    <3>4. x = IF d.format = "high" THEN n \div ByteSize ELSE n % ByteSize
      BY <1>1, <1>2, <2>3, <2>9
    <3>5. ReadWhole(read, d)
      BY <2>7, <3>3, <3>4 DEF ReadWhole
    <3>6. d.ltch_cntr => d.format = "both" /\ ~d.read_order_low
      BY <1>1, <1>6, <2>9
    <3>7. d.ltch_cntr => read.count = d.latched_counter
      BY <1>1, <2>7
    <3>8. read.open => d.ltch_cntr
      BY <2>7, Zenon
    <3>9. Len(read.bytes) = 1
      BY <2>7, <3>3
    <3> QED
      BY <2>7, <3>5, <3>6, <3>7, <3>8, <3>9 DEF PairGood
  <2>10. PairGood(read, d)
    BY <2>8, <2>9
  <2>11. (IF c.ltch_ctrl \/ ~p.open THEN p ELSE read) = read
    BY <1>6
  <2> QED
    BY <2>10, <2>11, Zenon DEF d, read, value
<1> QED
  BY <1>4, <1>5, <1>6
---------------------------------------------------------------------------
(* The USART and its rings.                                                *)

Uarts == [char_length : Nat, recv_buf : Nat, recv_ready : BOOLEAN,
          send_byte : Nat, send_buffer : Nat, txrdy : BOOLEAN,
          txempty : BOOLEAN, rxrdy : BOOLEAN, oe : BOOLEAN, txen : BOOLEAN,
          rxe : BOOLEAN, phase : {"mode", "sync1", "sync2", "cmd"},
          single : BOOLEAN, recv : SUBSET Int, trans : SUBSET Int,
          clock : Clocks, stood : BOOLEAN]
States == [u : Uarts, rx : Seq(Nat), tx : Seq(Nat), lost : BOOLEAN,
           overrun : BOOLEAN, t : Int]

\* A transmitter that is off is empty, and an empty one has nothing waiting.
Flags(u) == /\ ~u.txen => u.txempty
            /\ u.txempty => u.txrdy

\* The two halves of NeverStuck.
ReceiverRuns(u) == ~u.stood /\ u.rxe => u.recv_ready \/ u.recv # {}
SenderRuns(u) == ~u.stood /\ ~u.txempty => u.trans # {}

\* What the receiver holds, and the transmitter.
Held(u) == IF u.rxrdy THEN <<u.recv_buf>> ELSE <<>>
Sending(u) == IF u.txempty THEN <<>> ELSE <<u.send_byte>>
Waiting(u) == IF u.txrdy THEN <<>> ELSE <<u.send_buffer>>

\* The two halves of SerialInOrder, of a state s in the middle of a step.
In(s, heard, typed, n) ==
    ~s.lost /\ ~s.overrun =>
        heard \o Held(s.u) \o s.rx \o typed = [i \in 1..n |-> i]
Out(s, out, said) ==
    ~s.lost => out \o s.tx \o Sending(s.u) \o Waiting(s.u) = said

Sound(s, heard, typed, n, out, said) ==
    /\ s \in States
    /\ Flags(s.u)
    /\ Len(s.rx) <= RingSize - 1 /\ Len(s.tx) <= RingSize - 1
    /\ In(s, heard, typed, n)
    /\ Out(s, out, said)

SameReceiver(u, v) ==
    /\ v.rxe <=> u.rxe
    /\ v.rxrdy <=> u.rxrdy
    /\ v.recv_ready <=> u.recv_ready
    /\ v.recv_buf = u.recv_buf
    /\ v.recv = u.recv
SameSender(u, v) ==
    /\ v.txen <=> u.txen
    /\ v.txrdy <=> u.txrdy
    /\ v.txempty <=> u.txempty
    /\ v.send_byte = u.send_byte
    /\ v.send_buffer = u.send_buffer
    /\ v.trans = u.trans

LEMMA CharEndsDoes ==
    ASSUME NEW u \in Uarts, NEW t \in Int
    PROVE  /\ CharEnds(u, t) \in SUBSET Int
           /\ IsPeriodic(u.clock) => CharEnds(u, t) # {}
           /\ (u.stood \/ ~IsPeriodic(u.clock)) \in BOOLEAN
<1>1. u.clock.total \in Int /\ u.char_length \in Int
  BY DEF Uarts, Clocks
<1>2. u.clock.total * u.char_length \in Int
  BY <1>1
<1>3. t + u.clock.total * u.char_length \in Int
  BY <1>2
<1>4. (u.stood \/ ~IsPeriodic(u.clock)) \in BOOLEAN
  OBVIOUS
<1> QED
  BY <1>3, <1>4 DEF CharEnds

\* A character on its way: nothing of the receiver changes, and its end is
\* set unless the clock stands.
LEMMA UartSendDoes ==
    ASSUME NEW u \in Uarts, NEW value \in Nat, NEW t \in Int
    PROVE  LET v == UartSend(u, value, t) IN
           /\ v \in Uarts
           /\ SameReceiver(u, v)
           /\ SenderRuns(v)
           /\ ~v.txempty /\ v.send_byte = value
           /\ v.txrdy <=> u.txrdy
           /\ v.txen <=> u.txen
           /\ v.send_buffer = u.send_buffer
           /\ u.stood => v.stood
<1> DEFINE ends == CharEnds(u, t)
           stood == u.stood \/ ~IsPeriodic(u.clock)
           v == [u EXCEPT !.txempty = FALSE, !.send_byte = value,
                          !.trans = ends, !.stood = stood]
<1>1. UartSend(u, value, t) = v
  BY Zenon DEF UartSend
<1>2. /\ ends \in SUBSET Int
      /\ IsPeriodic(u.clock) => ends # {}
      /\ stood \in BOOLEAN
  BY CharEndsDoes
<1>3. ~stood => ends # {}
  BY <1>2
<1>4. u.stood => stood
  OBVIOUS
<1> HIDE DEF ends, stood
<1>5. v \in Uarts
  BY <1>2 DEF Uarts
<1>6. /\ v.trans = ends /\ v.send_byte = value /\ ~v.txempty
      /\ v.stood <=> stood
      /\ v.send_buffer = u.send_buffer
      /\ v.txrdy <=> u.txrdy
      /\ v.txen <=> u.txen
  BY <1>2 DEF Uarts
<1>7. SameReceiver(u, v)
  BY DEF Uarts, SameReceiver
<1> HIDE DEF v
<1> QED
  BY <1>1, <1>3, <1>4, <1>5, <1>6, <1>7 DEF SenderRuns

\* Concatenation of characters is associative.
LEMMA Regroup ==
    \A a, b, c \in Seq(Nat) : (a \o b) \o c = a \o (b \o c)
<1> TAKE a, b, c \in Seq(Nat)
<1> QED
  BY ConcatAssociative

\* The character at the head of the ring goes to the receiver.
LEMMA SignalKeeps ==
    ASSUME SerialAssumption,
           NEW s, NEW heard \in Seq(Nat), NEW typed \in Seq(Nat), NEW n \in Nat,
           NEW out \in Seq(Nat), NEW said,
           Sound(s, heard, typed, n, out, said)
    PROVE  LET r == Signal(s) IN
           /\ Sound(r, heard, typed, n, out, said)
           /\ SameSender(s.u, r.u)
           /\ s.u.stood => r.u.stood
           /\ r.u.rxe <=> s.u.rxe
           /\ ReceiverRuns(s.u) => ReceiverRuns(r.u)
<1> DEFINE u == s.u
           r == Signal(s)
           v == Head(s.rx)
           rest == [s EXCEPT !.rx = Tail(s.rx)]
           ends == CharEnds(u, s.t)
           stood == u.stood \/ ~IsPeriodic(u.clock)
           taken == [u EXCEPT !.recv_ready = FALSE, !.recv = ends, !.stood = stood]
           got == [taken EXCEPT !.recv_buf = v, !.rxrdy = TRUE]
           over == [taken EXCEPT !.oe = TRUE]
<1>1. s \in States /\ u \in Uarts /\ s.rx \in Seq(Nat) /\ s.t \in Int
  BY DEF Sound, States
<1>2. CASE s.rx = <<>>
  <2>1. r = s
    BY <1>2 DEF Signal
  <2> QED
    BY <2>1 DEF SameSender
<1>3. CASE s.rx # <<>>
  <2>1. /\ v \in Nat /\ Tail(s.rx) \in Seq(Nat)
        /\ Len(Tail(s.rx)) = Len(s.rx) - 1
        /\ s.rx = <<v>> \o Tail(s.rx)
    <3>1. v \in Nat /\ Tail(s.rx) \in Seq(Nat) /\ Len(Tail(s.rx)) = Len(s.rx) - 1
      BY <1>1, <1>3
    <3>2. s.rx = <<v>> \o Tail(s.rx)
      BY <1>1, <1>3, HeadTailProperties
    <3> QED
      BY <3>1, <3>2
  <2>2. rest \in States /\ rest.rx = Tail(s.rx) /\ rest.u = u /\ rest.tx = s.tx
        /\ rest.t = s.t /\ rest.lost = s.lost /\ rest.overrun = s.overrun
    BY <1>1, <2>1 DEF States
  <2>3. r = IF ~u.recv_ready \/ ~u.rxe THEN [rest EXCEPT !.lost = TRUE]
            ELSE IF u.rxrdy
            THEN [rest EXCEPT !.u = over, !.overrun = TRUE]
            ELSE [rest EXCEPT !.u = got]
    <3>1. r = ReceiveByte(rest, v)
      BY <1>3 DEF Signal
    <3> HIDE DEF rest, u
    <3> DEFINE w == rest.u
               t2 == [w EXCEPT !.recv_ready = FALSE, !.recv = CharEnds(w, rest.t),
                               !.stood = w.stood \/ ~IsPeriodic(w.clock)]
    <3>2. r = IF ~w.recv_ready \/ ~w.rxe THEN [rest EXCEPT !.lost = TRUE]
              ELSE IF w.rxrdy
              THEN [rest EXCEPT !.u = [t2 EXCEPT !.oe = TRUE], !.overrun = TRUE]
              ELSE [rest EXCEPT !.u = [t2 EXCEPT !.recv_buf = v, !.rxrdy = TRUE]]
      BY <3>1, Zenon DEF ReceiveByte
    <3> QED
      BY <2>2, <3>2, Zenon DEF u
  <2>4. /\ ends \in SUBSET Int
        /\ stood \in BOOLEAN
        /\ ~stood => ends # {}
        /\ u.stood => stood
    BY <1>1, CharEndsDoes
  <2> HIDE DEF ends, stood
  <2>5. /\ taken \in Uarts /\ SameSender(u, taken)
        /\ taken.recv = ends /\ (taken.stood <=> stood) /\ (taken.rxe <=> u.rxe)
    BY <1>1, <2>4 DEF Uarts, SameSender
  <2> HIDE DEF taken, v, u
  <2>6. /\ got \in Uarts /\ SameSender(u, got) /\ got.recv_buf = v /\ got.rxrdy
        /\ got.recv = ends /\ (got.stood <=> stood) /\ (got.rxe <=> u.rxe)
    BY <2>1, <2>5 DEF Uarts, SameSender
  <2>7. /\ over \in Uarts /\ SameSender(u, over)
        /\ over.recv = ends /\ (over.stood <=> stood) /\ (over.rxe <=> u.rxe)
    BY <2>5 DEF Uarts, SameSender
  <2> HIDE DEF got, over, rest, r
  <2>8. Flags(u) /\ Out(s, out, said) /\ In(s, heard, typed, n)
    BY DEF Sound, u
  <2>8a. Len(Tail(s.rx)) <= RingSize - 1 /\ Len(s.tx) <= RingSize - 1
    <3>1. Len(s.rx) <= RingSize - 1 /\ Len(s.rx) \in Nat /\ RingSize \in Nat
      BY <1>1 DEF Sound, SerialAssumption
    <3>2. Len(s.tx) <= RingSize - 1
      BY DEF Sound
    <3> QED
      BY <2>1, <3>1, <3>2
  <2>9. CASE ~u.recv_ready \/ ~u.rxe
    <3>1. r = [rest EXCEPT !.lost = TRUE]
      BY <2>3, <2>9
    <3>2. r \in States /\ r.lost /\ r.u = u /\ r.rx = Tail(s.rx) /\ r.tx = s.tx
      BY <2>2, <3>1 DEF States
    <3>3. Sound(r, heard, typed, n, out, said)
      BY <2>8, <2>8a, <3>2 DEF Sound, In, Out
    <3> QED
      BY <3>2, <3>3 DEF SameSender, r, u
  <2>10. CASE u.recv_ready /\ u.rxe /\ u.rxrdy
    <3>1. r = [rest EXCEPT !.u = over, !.overrun = TRUE]
      BY <2>3, <2>10
    <3>2. r \in States /\ r.overrun /\ r.u = over /\ r.rx = Tail(s.rx)
          /\ r.tx = s.tx /\ (r.lost <=> s.lost)
      BY <2>2, <2>7, <3>1 DEF States
    <3>3. Flags(over) /\ Sending(over) = Sending(u) /\ Waiting(over) = Waiting(u)
      BY <2>7, <2>8 DEF SameSender, Flags, Sending, Waiting
    <3>4. Out(r, out, said)
      BY <2>8, <3>2, <3>3 DEF Out, u
    <3>5. Sound(r, heard, typed, n, out, said)
      BY <2>8a, <3>2, <3>3, <3>4 DEF Sound, In
    <3>6. ReceiverRuns(over)
      BY <2>4, <2>7 DEF ReceiverRuns
    <3> QED
      BY <2>4, <2>7, <3>2, <3>5, <3>6 DEF r, u
  <2>11. CASE u.recv_ready /\ u.rxe /\ ~u.rxrdy
    <3>1. r = [rest EXCEPT !.u = got]
      BY <2>3, <2>11
    <3>2. r \in States /\ r.u = got /\ r.rx = Tail(s.rx) /\ r.tx = s.tx
          /\ (r.lost <=> s.lost) /\ (r.overrun <=> s.overrun)
      BY <2>2, <2>6, <3>1 DEF States
    <3>3. Flags(got) /\ Sending(got) = Sending(u) /\ Waiting(got) = Waiting(u)
      BY <2>6, <2>8 DEF SameSender, Flags, Sending, Waiting
    <3>4. Out(r, out, said)
      BY <2>8, <3>2, <3>3 DEF Out, u
    <3>5. Held(u) = <<>> /\ Held(got) = <<v>>
      BY <2>6, <2>11 DEF Held
    <3>6. heard \o Held(got) \o r.rx = heard \o Held(u) \o s.rx
      <4> DEFINE tail == Tail(s.rx)
      <4>1. tail \in Seq(Nat) /\ <<v>> \in Seq(Nat) /\ s.rx = <<v>> \o tail
        BY <2>1
      <4> HIDE DEF tail
      <4>2. (heard \o <<v>>) \o tail = heard \o (<<v>> \o tail)
        BY ONLY <4>1, heard \in Seq(Nat), ConcatAssociative
      <4>3. heard \o <<>> = heard
        BY ConcatEmptySeq
      <4> QED
        BY <3>2, <3>5, <4>1, <4>2, <4>3 DEF tail
    <3>7. In(r, heard, typed, n)
      BY <2>8, <3>2, <3>6 DEF In, u
    <3>8. Sound(r, heard, typed, n, out, said)
      BY <2>8a, <3>2, <3>3, <3>4, <3>7 DEF Sound
    <3>9. ReceiverRuns(got)
      BY <2>4, <2>6 DEF ReceiverRuns
    <3> QED
      BY <2>4, <2>6, <3>2, <3>8, <3>9 DEF r, u
  <2> QED
    BY <2>9, <2>10, <2>11
<1> QED
  BY <1>2, <1>3

\* What a state between two calls must have, whatever its USART is.
LEMMA OtherUart ==
    ASSUME NEW s, NEW heard, NEW typed, NEW n, NEW out, NEW said,
           Sound(s, heard, typed, n, out, said),
           NEW u \in Uarts, Flags(u),
           s.lost \/ s.overrun \/ Held(u) = Held(s.u),
           \/ s.lost
           \/ Sending(u) = Sending(s.u) /\ Waiting(u) = Waiting(s.u)
    PROVE  LET r == [s EXCEPT !.u = u] IN
           /\ Sound(r, heard, typed, n, out, said)
           /\ r.u = u
<1> DEFINE r == [s EXCEPT !.u = u]
<1>1. s \in States
  BY DEF Sound
<1>2. /\ r \in States /\ r.u = u /\ r.rx = s.rx /\ r.tx = s.tx
      /\ r.lost = s.lost /\ r.overrun = s.overrun
  BY <1>1 DEF States
<1> HIDE DEF r
<1>3. (r.lost <=> s.lost) /\ (r.overrun <=> s.overrun)
  BY <1>2, Zenon
<1>4. In(r, heard, typed, n)
  BY <1>2, <1>3 DEF Sound, In
<1>5. Out(r, out, said)
  BY <1>2, <1>3 DEF Sound, Out
<1>6. Len(r.rx) <= RingSize - 1 /\ Len(r.tx) <= RingSize - 1
  BY <1>2 DEF Sound
<1> QED
  BY <1>2, <1>4, <1>5, <1>6 DEF Sound, r

\* A command: what it drops was reported before (Silences).
LEMMA WriteCommandKeeps ==
    ASSUME SerialAssumption,
           NEW s, NEW heard \in Seq(Nat), NEW typed \in Seq(Nat), NEW n \in Nat,
           NEW out \in Seq(Nat), NEW said,
           Sound(s, heard, typed, n, out, said),
           NEW c, c.txen \in BOOLEAN, c.rxe \in BOOLEAN, c.rst_err \in BOOLEAN,
           ~c.txen /\ ~s.u.txempty => s.lost,
           ~c.rxe /\ s.u.rxrdy => s.lost
    PROVE  LET r == WriteCommand(s, c) IN
           /\ Sound(r, heard, typed, n, out, said)
           /\ ReceiverRuns(s.u) => ReceiverRuns(r.u)
           /\ SenderRuns(s.u) => SenderRuns(r.u)
           /\ r.u.rxe <=> c.rxe
           /\ ~c.txen => r.u.txempty
<1> DEFINE old == s.u
           trans == IF c.txen THEN old.trans ELSE {}
           txrdy == old.txrdy \/ ~c.txen
           txempty == old.txempty \/ ~c.txen
           oe == old.oe /\ ~c.rst_err /\ c.rxe = old.rxe
           u == [old EXCEPT !.txen = c.txen, !.rxe = c.rxe, !.trans = trans,
                            !.txrdy = txrdy, !.txempty = txempty, !.oe = oe]
           on == [u EXCEPT !.recv_ready = TRUE]
           off == [u EXCEPT !.recv = {}, !.rxrdy = FALSE]
           switched == IF c.rxe THEN on ELSE off
           r == WriteCommand(s, c)
<1>1. s \in States /\ old \in Uarts /\ Flags(old)
  BY DEF Sound, States
<1>2. r = IF c.rxe = old.rxe THEN [s EXCEPT !.u = u]
          ELSE Signal([s EXCEPT !.u = switched])
  BY Zenon DEF WriteCommand
<1>3. /\ trans \in SUBSET Int /\ txrdy \in BOOLEAN /\ txempty \in BOOLEAN
      /\ oe \in BOOLEAN
  BY <1>1 DEF Uarts
<1>4. /\ c.txen => trans = old.trans /\ (txrdy <=> old.txrdy)
                   /\ (txempty <=> old.txempty)
      /\ ~c.txen => txrdy /\ txempty
  BY <1>1 DEF Uarts
<1> HIDE DEF trans, txrdy, txempty, oe, old, r
<1>5. /\ u \in Uarts
      /\ u.trans = trans /\ (u.txrdy <=> txrdy) /\ (u.txempty <=> txempty)
      /\ (u.txen <=> c.txen) /\ (u.rxe <=> c.rxe) /\ (u.stood <=> old.stood)
      /\ u.send_byte = old.send_byte /\ u.send_buffer = old.send_buffer
      /\ u.recv_buf = old.recv_buf /\ u.recv = old.recv
      /\ (u.rxrdy <=> old.rxrdy) /\ (u.recv_ready <=> old.recv_ready)
  <2>1. u \in Uarts
    BY <1>1, <1>3 DEF Uarts
  <2>2. /\ u.trans = trans /\ u.send_byte = old.send_byte
        /\ u.send_buffer = old.send_buffer
        /\ u.recv_buf = old.recv_buf /\ u.recv = old.recv
    BY <1>1 DEF Uarts
  <2>3. /\ (u.txrdy <=> txrdy) /\ (u.txempty <=> txempty)
        /\ (u.txen <=> c.txen) /\ (u.rxe <=> c.rxe)
    BY <1>1, <1>3 DEF Uarts
  <2>4. /\ (u.rxrdy <=> old.rxrdy) /\ (u.recv_ready <=> old.recv_ready)
        /\ (u.stood <=> old.stood)
    BY <1>1 DEF Uarts
  <2> QED
    BY <2>1, <2>2, <2>3, <2>4
<1> HIDE DEF u
<1>6. on \in Uarts /\ SameSender(u, on) /\ Held(on) = Held(u) /\ on.recv_ready
      /\ (on.stood <=> u.stood) /\ (on.txen <=> u.txen) /\ (on.rxe <=> u.rxe)
  BY <1>5 DEF Uarts, SameSender, Held
<1>7. off \in Uarts /\ SameSender(u, off) /\ ~off.rxrdy /\ (off.rxe <=> u.rxe)
      /\ (off.stood <=> u.stood) /\ (off.txen <=> u.txen)
  BY <1>5 DEF Uarts, SameSender
<1> HIDE DEF on, off
<1>8. /\ Flags(u)
      /\ SenderRuns(old) => SenderRuns(u)
      /\ s.lost \/ (Sending(u) = Sending(old) /\ Waiting(u) = Waiting(old))
  <2>1. CASE c.txen
    BY <1>1, <1>4, <1>5, <2>1 DEF Flags, SenderRuns, Sending, Waiting
  <2>2. CASE ~c.txen
    <3>1. s.lost \/ (old.txempty /\ old.txrdy)
      BY <1>1, <2>2 DEF Flags, old
    <3> QED
      BY <1>4, <1>5, <2>2, <3>1 DEF Flags, SenderRuns, Sending, Waiting
  <2> QED
    BY <2>1, <2>2
<1>9. CASE c.rxe = old.rxe
  <2>1. Held(u) = Held(old)
    BY <1>5 DEF Held
  <2>2. r = [s EXCEPT !.u = u]
    BY <1>2, <1>9
  <2>3. Sound(r, heard, typed, n, out, said) /\ r.u = u
    BY <1>5, <1>8, <2>1, <2>2, OtherUart DEF old
  <2>4. ReceiverRuns(old) => ReceiverRuns(u)
    BY <1>5, <1>9 DEF ReceiverRuns
  <2>5. ~c.txen => u.txempty
    BY <1>4, <1>5
  <2> QED
    BY <1>5, <1>8, <2>3, <2>4, <2>5 DEF old, r
<1>10. CASE c.rxe # old.rxe
  <2> DEFINE w == [s EXCEPT !.u = switched]
  <2>1. /\ switched \in Uarts /\ SameSender(u, switched)
        /\ (switched.stood <=> u.stood) /\ (switched.rxe <=> c.rxe)
        /\ ReceiverRuns(switched)
    <3>1. CASE c.rxe
      BY <1>5, <1>6, <3>1 DEF ReceiverRuns
    <3>2. CASE ~c.rxe
      BY <1>5, <1>7, <3>2 DEF ReceiverRuns
    <3> QED
      BY <3>1, <3>2
  <2>2. s.lost \/ Held(switched) = Held(old)
    <3>1. CASE c.rxe
      BY <1>5, <1>6, <3>1 DEF Held
    <3>2. CASE ~c.rxe
      BY <1>7, <3>2 DEF Held, old
    <3> QED
      BY <3>1, <3>2
  <2>3. r = Signal(w)
    BY <1>2, <1>10
  <2> HIDE DEF switched
  <2>4. /\ Flags(switched) /\ Sending(switched) = Sending(u)
        /\ Waiting(switched) = Waiting(u)
        /\ SenderRuns(u) => SenderRuns(switched)
    BY <1>8, <2>1 DEF Flags, SameSender, Sending, Waiting, SenderRuns
  <2>5. Sound(w, heard, typed, n, out, said) /\ w.u = switched
    BY <1>8, <2>1, <2>2, <2>4, OtherUart DEF old
  <2> HIDE DEF w
  <2>6. /\ Sound(r, heard, typed, n, out, said)
        /\ SameSender(switched, r.u)
        /\ switched.stood => r.u.stood
        /\ r.u.rxe <=> switched.rxe
        /\ ReceiverRuns(r.u)
    BY <2>1, <2>3, <2>5, SignalKeeps
  <2>7. SenderRuns(switched) => SenderRuns(r.u)
    BY <2>6 DEF SameSender, SenderRuns
  <2>8. ~c.txen => r.u.txempty
    BY <1>4, <1>5, <2>1, <2>6 DEF SameSender
  <2> QED
    BY <1>8, <2>1, <2>4, <2>6, <2>7, <2>8 DEF old, r
<1> QED
  BY <1>9, <1>10

\* A reset loses what there is; it is for the caller to say so.
LEMMA UartResetKeeps ==
    ASSUME SerialAssumption,
           NEW s, NEW heard \in Seq(Nat), NEW typed \in Seq(Nat), NEW n \in Nat,
           NEW out \in Seq(Nat), NEW said,
           s \in States, s.lost,
           Len(s.rx) <= RingSize - 1, Len(s.tx) <= RingSize - 1
    PROVE  LET r == UartReset(s) IN
           /\ Sound(r, heard, typed, n, out, said)
           /\ ReceiverRuns(r.u)
           /\ SenderRuns(r.u)
<1> DEFINE old == s.u
           u == [old EXCEPT !.char_length = 0, !.recv_buf = 0,
                            !.recv_ready = FALSE, !.send_byte = 0,
                            !.send_buffer = 0, !.txrdy = TRUE, !.txempty = TRUE,
                            !.rxrdy = FALSE, !.oe = FALSE, !.txen = TRUE,
                            !.rxe = TRUE]
           s1 == [s EXCEPT !.u = u]
           c == [txen |-> FALSE, rxe |-> FALSE, rst_err |-> FALSE]
           w == WriteCommand(s1, c)
           v == [w.u EXCEPT !.phase = "mode", !.recv = {}, !.trans = {}]
           r == UartReset(s)
<1>1. r = [w EXCEPT !.u.phase = "mode", !.u.recv = {}, !.u.trans = {}]
  BY Zenon DEF UartReset
<1>2. old \in Uarts
  BY DEF States
<1> HIDE DEF old
<1>3. u \in Uarts /\ u.txempty /\ ~u.rxrdy /\ u.txrdy
  BY <1>2 DEF Uarts
<1> HIDE DEF u
<1>4. Sound(s1, heard, typed, n, out, said) /\ s1.u = u
  <2>1. /\ s1 \in States /\ s1.u = u /\ s1.rx = s.rx /\ s1.tx = s.tx
        /\ s1.lost
    BY <1>3 DEF States
  <2> HIDE DEF s1
  <2> QED
    BY <1>3, <2>1 DEF Sound, Flags, In, Out
<1> HIDE DEF s1
<1>5. c.txen \in BOOLEAN /\ c.rxe \in BOOLEAN /\ c.rst_err \in BOOLEAN
      /\ ~c.rxe /\ ~c.txen
  OBVIOUS
<1> HIDE DEF c
<1>6. Sound(w, heard, typed, n, out, said) /\ ~w.u.rxe /\ w.u.txempty
  <2>1. /\ ~c.txen /\ ~s1.u.txempty => s1.lost
        /\ ~c.rxe /\ s1.u.rxrdy => s1.lost
    BY <1>3, <1>4
  <2>2. /\ Sound(w, heard, typed, n, out, said)
        /\ w.u.rxe <=> c.rxe
        /\ ~c.txen => w.u.txempty
    BY <1>4, <1>5, <2>1, WriteCommandKeeps
  <2> QED
    BY <1>5, <2>2
<1> HIDE DEF w
<1>7. w \in States /\ w.u \in Uarts /\ Flags(w.u)
  BY <1>6 DEF Sound, States
<1>8. r = [w EXCEPT !.u = v]
  <2>1. [w EXCEPT !.u.phase = "mode", !.u.recv = {}, !.u.trans = {}]
          = [w EXCEPT !.u = v]
    BY <1>7 DEF States, Uarts
  <2> QED
    BY <1>1, <2>1, Zenon
<1>9. /\ v \in Uarts /\ ~v.rxe /\ v.txempty
      /\ Flags(v) /\ Held(v) = Held(w.u) /\ Sending(v) = Sending(w.u)
      /\ Waiting(v) = Waiting(w.u)
  <2>1. v \in Uarts /\ SameSender([w.u EXCEPT !.trans = {}], v)
        /\ (v.rxe <=> w.u.rxe) /\ (v.rxrdy <=> w.u.rxrdy)
        /\ v.recv_buf = w.u.recv_buf
    BY <1>7 DEF Uarts, SameSender
  <2>2. /\ (v.txen <=> w.u.txen) /\ (v.txrdy <=> w.u.txrdy)
        /\ (v.txempty <=> w.u.txempty) /\ v.send_byte = w.u.send_byte
        /\ v.send_buffer = w.u.send_buffer
    BY <1>7 DEF Uarts
  <2> HIDE DEF v
  <2> QED
    BY <1>6, <1>7, <2>1, <2>2 DEF Flags, Held, Sending, Waiting
<1> HIDE DEF v
<1>10. Sound(r, heard, typed, n, out, said) /\ r.u = v
  <2> HIDE DEF r
  <2> QED
    BY <1>6, <1>8, <1>9, OtherUart
<1> QED
  BY <1>9, <1>10 DEF ReceiverRuns, SenderRuns, r

\* A character of the guest goes out, or waits behind the one that does; one
\* that comes too early was reported lost.
LEMMA WriteDataKeeps ==
    ASSUME SerialAssumption,
           NEW s, NEW heard \in Seq(Nat), NEW typed \in Seq(Nat), NEW n \in Nat,
           NEW out \in Seq(Nat), NEW said \in Seq(Nat),
           Sound(s, heard, typed, n, out, said),
           NEW value \in Nat,
           s.u.txen /\ ~s.u.txrdy => s.lost
    PROVE  LET r == WriteData(s, value)
               q == IF s.u.txen THEN Append(said, value) ELSE said IN
           /\ Sound(r, heard, typed, n, out, q)
           /\ ReceiverRuns(s.u) => ReceiverRuns(r.u)
           /\ SenderRuns(s.u) => SenderRuns(r.u)
<1> DEFINE u == s.u
           v == UartSend(u, value, s.t)
           w == [u EXCEPT !.send_buffer = value, !.txrdy = FALSE]
           r == WriteData(s, value)
           new == Append(said, value)
<1>1. s \in States /\ u \in Uarts /\ s.t \in Int /\ Flags(u) /\ s.tx \in Seq(Nat)
  BY DEF Sound, States
<1>2. r = IF ~u.txen THEN s
          ELSE IF u.txempty THEN [s EXCEPT !.u = v] ELSE [s EXCEPT !.u = w]
  <2>1. r = IF ~u.txen THEN s
            ELSE IF u.txempty THEN [s EXCEPT !.u = v]
            ELSE [s EXCEPT !.u.send_buffer = value, !.u.txrdy = FALSE]
    BY Zenon DEF WriteData
  <2>2. [s EXCEPT !.u.send_buffer = value, !.u.txrdy = FALSE] = [s EXCEPT !.u = w]
    BY <1>1 DEF States, Uarts
  <2> QED
    BY <2>1, <2>2, Zenon
<1>3. /\ v \in Uarts /\ SameReceiver(u, v) /\ SenderRuns(v) /\ ~v.txempty
      /\ v.send_byte = value /\ (v.txrdy <=> u.txrdy) /\ (v.txen <=> u.txen)
      /\ (u.stood => v.stood)
  BY <1>1, UartSendDoes
<1>4. /\ w \in Uarts /\ SameReceiver(u, w)
      /\ w.send_buffer = value /\ ~w.txrdy /\ (w.txempty <=> u.txempty)
      /\ (w.txen <=> u.txen) /\ w.send_byte = u.send_byte /\ w.trans = u.trans
      /\ (w.stood <=> u.stood)
  BY <1>1 DEF Uarts, SameReceiver
<1>5. /\ Len(s.rx) <= RingSize - 1 /\ Len(s.tx) <= RingSize - 1
      /\ In(s, heard, typed, n) /\ Out(s, out, said)
  BY DEF Sound
<1>6. u.send_byte \in Nat
  BY <1>1 DEF Uarts
<1> HIDE DEF v, w, u
<1>7. CASE ~u.txen
  BY <1>2, <1>7 DEF u
<1>8. ASSUME u.txen, NEW x \in Uarts, r = [s EXCEPT !.u = x],
             SameReceiver(u, x), Flags(x), u.stood => x.stood,
             ~s.lost => out \o s.tx \o Sending(x) \o Waiting(x) = new,
             SenderRuns(u) => SenderRuns(x)
      PROVE  /\ Sound(r, heard, typed, n, out, new)
             /\ ReceiverRuns(s.u) => ReceiverRuns(r.u)
             /\ SenderRuns(s.u) => SenderRuns(r.u)
  <2>1. r \in States /\ r.u = x /\ r.rx = s.rx /\ r.tx = s.tx /\ r.lost = s.lost
        /\ r.overrun = s.overrun
    BY <1>1, <1>8 DEF States
  <2>2. (r.lost <=> s.lost) /\ (r.overrun <=> s.overrun)
    BY <2>1, Zenon
  <2> HIDE DEF r, new
  <2>3. Held(x) = Held(u)
    BY <1>8 DEF SameReceiver, Held
  <2>4. In(r, heard, typed, n)
    BY <1>5, <2>1, <2>2, <2>3 DEF In, u
  <2>5. Out(r, out, new)
    BY <1>8, <2>1, <2>2 DEF Out
  <2>6. ReceiverRuns(u) => ReceiverRuns(x)
    BY <1>8 DEF SameReceiver, ReceiverRuns
  <2> QED
    BY <1>5, <1>8, <2>1, <2>4, <2>5, <2>6 DEF Sound, u
<1>9. out \o s.tx \in Seq(Nat)
  BY <1>1, ConcatProperties
<1>10. CASE u.txen /\ u.txempty
  <2>1. r = [s EXCEPT !.u = v]
    BY <1>2, <1>10
  <2>2. u.txrdy
    BY <1>1, <1>10 DEF Flags, u
  <2>3. Flags(v)
    BY <1>3, <1>10 DEF Flags
  <2>4. ASSUME ~s.lost
        PROVE  out \o s.tx \o Sending(v) \o Waiting(v) = new
    <3>1. /\ Sending(u) = <<>> /\ Waiting(u) = <<>>
          /\ Sending(v) = <<value>> /\ Waiting(v) = <<>>
      BY <1>3, <1>10, <2>2 DEF Sending, Waiting
    <3>2. out \o s.tx \o <<>> \o <<>> = said
      BY <1>5, <2>4, <3>1 DEF Out, u
    <3> DEFINE q == out \o s.tx
    <3>3. q \in Seq(Nat) /\ value \in Nat
      BY <1>9
    <3> HIDE DEF q
    <3>4. q \o <<>> = q /\ q \o <<value>> \o <<>> = Append(q, value)
      BY ONLY <3>3, ConcatEmptySeq, ConcatProperties, AppendIsConcat
    <3> QED
      BY <3>1, <3>2, <3>4 DEF q
  <2>5. Sound(r, heard, typed, n, out, new)
        /\ (ReceiverRuns(s.u) => ReceiverRuns(r.u))
        /\ (SenderRuns(s.u) => SenderRuns(r.u))
    BY <1>3, <1>8, <1>10, <2>1, <2>3, <2>4
  <2> QED
    BY <1>10, <2>5 DEF u
<1>11. CASE u.txen /\ ~u.txempty
  <2>1. r = [s EXCEPT !.u = w]
    BY <1>2, <1>11
  <2>3. Flags(w)
    BY <1>4, <1>11 DEF Flags
  <2>4. ASSUME ~s.lost
        PROVE  out \o s.tx \o Sending(w) \o Waiting(w) = new
    <3>1. u.txrdy
      BY <1>11, <2>4 DEF u
    <3>2. /\ Sending(u) = <<u.send_byte>> /\ Waiting(u) = <<>>
          /\ Sending(w) = <<u.send_byte>> /\ Waiting(w) = <<value>>
      BY <1>4, <1>11, <3>1 DEF Sending, Waiting
    <3> DEFINE q == out \o s.tx \o <<u.send_byte>>
    <3>3. q \o <<>> = said
      BY <1>5, <2>4, <3>2 DEF Out, u
    <3>4. q \in Seq(Nat) /\ value \in Nat
      <4>1. <<u.send_byte>> \in Seq(Nat)
        BY <1>6
      <4> QED
        BY <1>9, <4>1, ConcatProperties
    <3>5. out \o s.tx \o Sending(w) \o Waiting(w) = q \o <<value>>
      BY <3>2
    <3> HIDE DEF q
    <3>6. q \o <<>> = q /\ q \o <<value>> = Append(q, value)
      BY ONLY <3>4, ConcatEmptySeq, AppendIsConcat
    <3> QED
      BY <3>3, <3>5, <3>6
  <2>5. SenderRuns(u) => SenderRuns(w)
    BY <1>4 DEF SenderRuns
  <2>6. Sound(r, heard, typed, n, out, new)
        /\ (ReceiverRuns(s.u) => ReceiverRuns(r.u))
        /\ (SenderRuns(s.u) => SenderRuns(r.u))
    BY <1>4, <1>8, <1>11, <2>1, <2>3, <2>4, <2>5
  <2> QED
    BY <1>11, <2>6 DEF u
<1> QED
  BY <1>7, <1>10, <1>11

\* A byte at the control port: mode, synchronous characters or a command.
LEMMA WriteControlKeeps ==
    ASSUME SerialAssumption,
           NEW s, NEW heard \in Seq(Nat), NEW typed \in Seq(Nat), NEW n \in Nat,
           NEW out \in Seq(Nat), NEW said,
           Sound(s, heard, typed, n, out, said),
           NEW w, w.txen \in BOOLEAN, w.rxe \in BOOLEAN, w.rst_err \in BOOLEAN,
           w.length \in Nat, w.single \in BOOLEAN, w.synchronous \in BOOLEAN,
           w.reset \in BOOLEAN,
           s.u.phase = "cmd" /\ ~w.reset /\ ~w.txen /\ ~s.u.txempty => s.lost,
           s.u.phase = "cmd" /\ ~w.reset /\ ~w.rxe /\ s.u.rxrdy => s.lost
    PROVE  LET r == WriteControl(s, w) IN
           /\ Sound(r, heard, typed, n, out, said)
           /\ ReceiverRuns(s.u) => ReceiverRuns(r.u)
           /\ SenderRuns(s.u) => SenderRuns(r.u)
<1> DEFINE u == s.u
           r == WriteControl(s, w)
           mode == [SetMode(u, w) EXCEPT !.phase = IF w.synchronous THEN "sync1"
                                                   ELSE "cmd"]
           Phase(p) == [u EXCEPT !.phase = p]
<1>1. s \in States /\ u \in Uarts /\ Flags(u)
  BY DEF Sound, States
<1>2. /\ u.phase \in {"mode", "sync1", "sync2", "cmd"}
      /\ u.phase = "mode" => r = [s EXCEPT !.u = mode]
      /\ u.phase = "sync1" =>
             r = [s EXCEPT !.u.phase = IF u.single THEN "cmd" ELSE "sync2"]
      /\ u.phase = "sync2" => r = [s EXCEPT !.u.phase = "cmd"]
      /\ u.phase = "cmd" /\ w.reset => r = [s EXCEPT !.u.phase = "mode"]
      /\ u.phase = "cmd" /\ ~w.reset => r = WriteCommand(s, w)
  <2>1. u.phase \in {"mode", "sync1", "sync2", "cmd"}
    BY <1>1 DEF Uarts
  <2>2. r = CASE u.phase = "mode" -> [s EXCEPT !.u = mode]
              [] u.phase = "sync1" ->
                     [s EXCEPT !.u.phase = IF u.single THEN "cmd" ELSE "sync2"]
              [] u.phase = "sync2" -> [s EXCEPT !.u.phase = "cmd"]
              [] u.phase = "cmd" /\ w.reset -> [s EXCEPT !.u.phase = "mode"]
              [] OTHER -> WriteCommand(s, w)
    BY Zenon DEF WriteControl
  <2> HIDE DEF r, mode, u
  <2> QED
    BY <2>1, <2>2
<1> HIDE DEF r
<1>3. ASSUME NEW v \in Uarts, SameReceiver(u, v), SameSender(u, v),
             v.stood <=> u.stood, r = [s EXCEPT !.u = v]
      PROVE  /\ Sound(r, heard, typed, n, out, said)
             /\ ReceiverRuns(s.u) => ReceiverRuns(r.u)
             /\ SenderRuns(s.u) => SenderRuns(r.u)
  <2>1. /\ Flags(v) /\ Held(v) = Held(u) /\ Sending(v) = Sending(u)
        /\ Waiting(v) = Waiting(u)
        /\ ReceiverRuns(u) => ReceiverRuns(v)
        /\ SenderRuns(u) => SenderRuns(v)
    BY <1>1, <1>3 DEF SameReceiver, SameSender, Flags, Held, Sending, Waiting,
                      ReceiverRuns, SenderRuns
  <2>2. Sound(r, heard, typed, n, out, said) /\ r.u = v
    BY <1>3, <2>1, OtherUart
  <2> QED
    BY <2>1, <2>2
<1>4. ASSUME NEW p \in {"mode", "sync1", "sync2", "cmd"},
             r = [s EXCEPT !.u.phase = p]
      PROVE  /\ Sound(r, heard, typed, n, out, said)
             /\ ReceiverRuns(s.u) => ReceiverRuns(r.u)
             /\ SenderRuns(s.u) => SenderRuns(r.u)
  <2>1. [s EXCEPT !.u.phase = p] = [s EXCEPT !.u = Phase(p)]
    BY <1>1 DEF States, Uarts
  <2>2. Phase(p) \in Uarts /\ (Phase(p).stood <=> u.stood)
    BY <1>1 DEF Uarts
  <2>3. SameReceiver(u, Phase(p)) /\ SameSender(u, Phase(p))
    BY <1>1 DEF Uarts, SameReceiver, SameSender
  <2> QED
    BY <1>3, <1>4, <2>1, <2>2, <2>3
<1>5. CASE u.phase = "mode"
  <2>1. mode \in Uarts /\ (mode.stood <=> u.stood)
    BY <1>1 DEF Uarts, SetMode
  <2>2. SameReceiver(u, mode) /\ SameSender(u, mode)
    BY <1>1 DEF Uarts, SameReceiver, SameSender, SetMode
  <2> QED
    BY <1>2, <1>3, <1>5, <2>1, <2>2 DEF r
<1>6. CASE u.phase = "sync1"
  BY <1>2, <1>4, <1>6 DEF r
<1>7. CASE u.phase = "sync2"
  BY <1>2, <1>4, <1>7 DEF r
<1>8. CASE u.phase = "cmd" /\ w.reset
  BY <1>2, <1>4, <1>8 DEF r
<1>9. CASE u.phase = "cmd" /\ ~w.reset
  <2>1. /\ ~w.txen /\ ~s.u.txempty => s.lost
        /\ ~w.rxe /\ s.u.rxrdy => s.lost
    BY <1>9
  <2>2. LET q == WriteCommand(s, w) IN
        /\ Sound(q, heard, typed, n, out, said)
        /\ ReceiverRuns(s.u) => ReceiverRuns(q.u)
        /\ SenderRuns(s.u) => SenderRuns(q.u)
    BY <2>1, WriteCommandKeeps
  <2> QED
    BY <1>2, <1>9, <2>2 DEF r
<1> QED
  BY <1>2, <1>5, <1>6, <1>7, <1>8, <1>9

\* A character has gone out.  Afterwards the transmitter is empty or the next
\* one is on its way, whatever its deadline was before.
LEMMA TransmitKeeps ==
    ASSUME SerialAssumption,
           NEW s, NEW heard \in Seq(Nat), NEW typed \in Seq(Nat), NEW n \in Nat,
           NEW out \in Seq(Nat), NEW said,
           Sound(s, heard, typed, n, out, said)
    PROVE  LET r == Transmit(s) IN
           /\ Sound(r, heard, typed, n, out, said)
           /\ ReceiverRuns(s.u) => ReceiverRuns(r.u)
           /\ SenderRuns(r.u)
<1> DEFINE u == s.u
           room == Space(s.tx) > 0
           tx == IF room THEN Append(s.tx, u.send_byte) ELSE s.tx
           lost == s.lost \/ Space(s.tx) = 0
           sent == [s EXCEPT !.tx = tx, !.lost = lost]
           done == [u EXCEPT !.txempty = TRUE]
           free == [u EXCEPT !.txrdy = TRUE]
           next == UartSend(free, u.send_buffer, s.t)
           r == Transmit(s)
<1>1. s \in States /\ u \in Uarts /\ s.t \in Int /\ Flags(u) /\ s.tx \in Seq(Nat)
      /\ u.send_byte \in Nat /\ u.send_buffer \in Nat
  BY DEF Sound, States, Uarts
<1>2. /\ Len(s.rx) <= RingSize - 1 /\ Len(s.tx) <= RingSize - 1
      /\ In(s, heard, typed, n) /\ Out(s, out, said)
  BY DEF Sound
<1>3. RingSize \in Nat /\ Len(s.tx) \in Nat
  BY <1>1 DEF SerialAssumption
<1>4. /\ tx \in Seq(Nat) /\ Len(tx) <= RingSize - 1 /\ lost \in BOOLEAN
      /\ s.lost => lost
      /\ ~lost => tx = Append(s.tx, u.send_byte)
  <2> DEFINE more == Append(s.tx, u.send_byte)
  <2>1. more \in Seq(Nat) /\ Len(more) = Len(s.tx) + 1
    BY <1>1, AppendProperties
  <2>2. /\ room => Len(s.tx) + 1 <= RingSize - 1
        /\ room \/ Space(s.tx) = 0
    <3> DEFINE l == Len(s.tx)
    <3>1. l \in Nat /\ RingSize \in Nat /\ l <= RingSize - 1
          /\ Space(s.tx) = RingSize - 1 - l
      BY <1>2, <1>3 DEF Space
    <3> HIDE DEF l
    <3>2. /\ RingSize - 1 - l > 0 => l + 1 <= RingSize - 1
          /\ RingSize - 1 - l > 0 \/ RingSize - 1 - l = 0
      BY <3>1
    <3> QED
      BY <3>1, <3>2, Zenon DEF l
  <2> HIDE DEF more, room
  <2>3. tx \in Seq(Nat) /\ Len(tx) <= RingSize - 1
    BY <1>1, <1>2, <2>1, <2>2 DEF more
  <2>4. lost \in BOOLEAN /\ (s.lost => lost)
    OBVIOUS
  <2>5. ~lost => tx = more
    BY <2>2 DEF more
  <2> QED
    BY <2>3, <2>4, <2>5 DEF more
<1>5. r = IF u.txempty \/ ~u.txen THEN s
          ELSE IF u.txrdy THEN [sent EXCEPT !.u.txempty = TRUE]
          ELSE [sent EXCEPT !.u = next]
  <2> DEFINE sent2 == [s EXCEPT !.tx = IF Space(@) > 0
                                       THEN Append(@, s.u.send_byte) ELSE @,
                                !.lost = @ \/ Space(s.tx) = 0]
  <2>1. sent2 = sent
    BY Zenon
  <2>2. r = IF u.txempty \/ ~u.txen THEN s
            ELSE IF u.txrdy THEN [sent2 EXCEPT !.u.txempty = TRUE]
            ELSE [sent2 EXCEPT !.u = next]
    BY Zenon DEF Transmit
  <2> QED
    BY <2>1, <2>2, Zenon
<1> HIDE DEF tx, lost
<1>6. /\ sent \in States /\ sent.tx = tx /\ (sent.lost <=> lost) /\ sent.u = u
      /\ sent.rx = s.rx /\ sent.overrun = s.overrun
  BY <1>1, <1>4 DEF States
<1>7. CASE u.txempty \/ ~u.txen
  <2>1. r = s
    BY <1>5, <1>7
  <2>2. u.txempty
    BY <1>1, <1>7 DEF Flags
  <2> QED
    BY <2>1, <2>2 DEF SenderRuns
<1> HIDE DEF sent, r
<1>8. ASSUME NEW v \in Uarts, r = [sent EXCEPT !.u = v], Flags(v),
             SameReceiver(u, v), u.stood => v.stood, SenderRuns(v),
             ~lost => out \o tx \o Sending(v) \o Waiting(v) = said
      PROVE  /\ Sound(r, heard, typed, n, out, said)
             /\ ReceiverRuns(u) => ReceiverRuns(r.u)
             /\ SenderRuns(r.u)
  <2>1. /\ r \in States /\ r.u = v /\ r.rx = s.rx /\ r.tx = tx
        /\ r.lost = sent.lost /\ r.overrun = s.overrun
    BY <1>6, <1>8 DEF States
  <2>2. (r.lost <=> lost) /\ (r.overrun <=> s.overrun)
    BY <1>6, <2>1, Zenon
  <2>3. Held(v) = Held(u)
    BY <1>8 DEF SameReceiver, Held
  <2>4. In(r, heard, typed, n)
    BY <1>2, <1>4, <2>1, <2>2, <2>3 DEF In
  <2>5. Out(r, out, said)
    BY <1>8, <2>1, <2>2 DEF Out
  <2>6. ReceiverRuns(u) => ReceiverRuns(v)
    BY <1>8 DEF SameReceiver, ReceiverRuns
  <2> QED
    BY <1>2, <1>4, <1>8, <2>1, <2>4, <2>5, <2>6 DEF Sound
<1> DEFINE b == u.send_byte
           q == out \o s.tx
<1>9. q \in Seq(Nat) /\ <<b>> \in Seq(Nat) /\ q \o <<b>> \in Seq(Nat)
  <2>1. q \in Seq(Nat) /\ <<b>> \in Seq(Nat)
    BY <1>1, ConcatProperties
  <2> QED
    BY <2>1, ConcatProperties
<1>10. ~lost => out \o tx = q \o <<b>>
  <2>1. ASSUME ~lost
        PROVE  out \o tx = q \o <<b>>
    <3>1. tx = Append(s.tx, b)
      BY <1>4, <2>1
    <3>2. Append(s.tx, b) = s.tx \o <<b>>
      BY <1>1, AppendIsConcat
    <3>3. (out \o s.tx) \o <<b>> = out \o (s.tx \o <<b>>)
      <4>1. s.tx \in Seq(Nat) /\ <<b>> \in Seq(Nat) /\ out \in Seq(Nat)
        BY <1>1, <1>9
      <4> HIDE DEF b
      <4> QED
        BY <4>1, Regroup, Zenon
    <3> QED
      BY <3>1, <3>2, <3>3
  <2> QED
    BY <2>1
<1>11. CASE ~u.txempty /\ u.txen /\ u.txrdy
  <2>1. r = [sent EXCEPT !.u = done]
    <3>1. [sent EXCEPT !.u.txempty = TRUE] = [sent EXCEPT !.u = done]
      BY <1>1, <1>6 DEF States, Uarts
    <3> QED
      BY <1>5, <1>11, <3>1
  <2>2. /\ done \in Uarts /\ done.txempty /\ (done.txrdy <=> u.txrdy)
        /\ (done.stood <=> u.stood) /\ SameReceiver(u, done)
    BY <1>1 DEF Uarts, SameReceiver
  <2> HIDE DEF done
  <2>3. Flags(done) /\ SenderRuns(done)
    BY <1>11, <2>2 DEF Flags, SenderRuns
  <2>4. ASSUME ~lost
        PROVE  out \o tx \o Sending(done) \o Waiting(done) = said
    <3>1. /\ Sending(u) = <<b>> /\ Waiting(u) = <<>>
          /\ Sending(done) = <<>> /\ Waiting(done) = <<>>
      BY <1>11, <2>2 DEF Sending, Waiting
    <3>2. q \o <<b>> \o <<>> = said
      BY <1>2, <1>4, <2>4, <3>1 DEF Out
    <3> HIDE DEF q, b
    <3>3. (q \o <<b>>) \o <<>> = q \o <<b>>
      BY ONLY <1>9, ConcatEmptySeq
    <3> QED
      BY <1>10, <2>4, <3>1, <3>2, <3>3
  <2> QED
    BY <1>8, <2>1, <2>2, <2>3, <2>4 DEF r
<1>12. CASE ~u.txempty /\ u.txen /\ ~u.txrdy
  <2>1. r = [sent EXCEPT !.u = next]
    BY <1>5, <1>12
  <2>2. /\ free \in Uarts /\ free.txrdy /\ (free.txen <=> u.txen)
        /\ (free.stood <=> u.stood) /\ SameReceiver(u, free)
    BY <1>1 DEF Uarts, SameReceiver
  <2> HIDE DEF free
  <2>3. /\ next \in Uarts /\ SameReceiver(free, next) /\ SenderRuns(next)
        /\ ~next.txempty /\ next.send_byte = u.send_buffer
        /\ (next.txrdy <=> free.txrdy) /\ (next.txen <=> free.txen)
        /\ free.stood => next.stood
    <3> DEFINE value == u.send_buffer
               time == s.t
    <3>1. value \in Nat /\ time \in Int
      BY <1>1
    <3> HIDE DEF value, time
    <3>2. LET v == UartSend(free, value, time) IN
          /\ v \in Uarts /\ SameReceiver(free, v) /\ SenderRuns(v)
          /\ ~v.txempty /\ v.send_byte = value
          /\ (v.txrdy <=> free.txrdy) /\ (v.txen <=> free.txen)
          /\ free.stood => v.stood
      BY <2>2, <3>1, UartSendDoes
    <3> QED
      BY <3>2, Zenon DEF value, time
  <2> HIDE DEF next
  <2>4. Flags(next) /\ SameReceiver(u, next) /\ (u.stood => next.stood)
    BY <1>12, <2>2, <2>3 DEF Flags, SameReceiver
  <2>5. ASSUME ~lost
        PROVE  out \o tx \o Sending(next) \o Waiting(next) = said
    <3>1. /\ Sending(u) = <<b>> /\ Waiting(u) = <<u.send_buffer>>
          /\ Sending(next) = <<u.send_buffer>> /\ Waiting(next) = <<>>
      BY <1>12, <2>2, <2>3 DEF Sending, Waiting
    <3>2. (q \o <<b>>) \o <<u.send_buffer>> = said
      BY <1>2, <1>4, <2>5, <3>1 DEF Out
    <3> DEFINE whole == (q \o <<b>>) \o <<u.send_buffer>>
    <3>3. whole \in Seq(Nat)
      <4>1. <<u.send_buffer>> \in Seq(Nat)
        BY <1>1
      <4> HIDE DEF q, b
      <4> QED
        BY <1>9, <4>1, ConcatProperties
    <3> HIDE DEF whole
    <3>4. whole \o <<>> = whole
      BY ONLY <3>3, ConcatEmptySeq
    <3> QED
      BY <1>10, <2>5, <3>1, <3>2, <3>4 DEF whole
  <2> QED
    BY <1>8, <2>1, <2>3, <2>4, <2>5 DEF r
<1> QED
  BY <1>7, <1>11, <1>12 DEF r

\* The two deadlines.  What is due happens, and leaves both directions with
\* something to wait for.
LEMMA UartAdvanceKeeps ==
    ASSUME SerialAssumption,
           NEW s, NEW heard \in Seq(Nat), NEW typed \in Seq(Nat), NEW n \in Nat,
           NEW out \in Seq(Nat), NEW said,
           Sound(s, heard, typed, n, out, said)
    PROVE  LET r == UartAdvance(s) IN
           /\ Sound(r, heard, typed, n, out, said)
           /\ ReceiverRuns(s.u) => ReceiverRuns(r.u)
           /\ SenderRuns(s.u) => SenderRuns(r.u)
<1> DEFINE Due(set) == \E d \in set : s.t >= d
           quiet == [s EXCEPT !.u.trans = {}]
           sent == IF Due(s.u.trans) THEN Transmit(quiet) ELSE s
           in == [sent EXCEPT !.u.recv = {}]
           ready == [in EXCEPT !.u.recv_ready = TRUE]
           r == UartAdvance(s)
<1>1. r = IF ~Due(sent.u.recv) THEN sent
          ELSE IF in.u.rxe THEN Signal(ready) ELSE in
  BY Zenon DEF UartAdvance
<1> HIDE DEF r
<1>2. s \in States /\ s.u \in Uarts /\ Flags(s.u)
  BY DEF Sound, States
<1>3. /\ Sound(sent, heard, typed, n, out, said)
      /\ ReceiverRuns(s.u) => ReceiverRuns(sent.u)
      /\ SenderRuns(s.u) => SenderRuns(sent.u)
  <2>1. CASE Due(s.u.trans)
    <3> DEFINE v == [s.u EXCEPT !.trans = {}]
    <3>1. quiet = [s EXCEPT !.u = v]
      BY <1>2 DEF States, Uarts
    <3>2. v \in Uarts /\ SameReceiver(s.u, v) /\ (v.stood <=> s.u.stood)
      BY <1>2 DEF Uarts, SameReceiver
    <3>3. Flags(v) /\ Sending(v) = Sending(s.u) /\ Waiting(v) = Waiting(s.u)
      BY <1>2 DEF Uarts, Flags, Sending, Waiting
    <3> HIDE DEF v
    <3>4. Held(v) = Held(s.u) /\ (ReceiverRuns(s.u) => ReceiverRuns(v))
      BY <3>2 DEF SameReceiver, Held, ReceiverRuns
    <3> HIDE DEF quiet
    <3>5. Sound(quiet, heard, typed, n, out, said) /\ quiet.u = v
      BY <3>1, <3>2, <3>3, <3>4, OtherUart
    <3>6. sent = Transmit(quiet)
      BY <2>1
    <3> HIDE DEF sent
    <3>7. /\ Sound(sent, heard, typed, n, out, said)
          /\ ReceiverRuns(quiet.u) => ReceiverRuns(sent.u)
          /\ SenderRuns(sent.u)
      BY <3>5, <3>6, TransmitKeeps
    <3> QED
      BY <3>4, <3>5, <3>7
  <2>2. CASE ~Due(s.u.trans)
    <3>1. sent = s
      BY <2>2
    <3> QED
      BY <3>1
  <2> QED
    BY <2>1, <2>2
<1> HIDE DEF sent
<1>4. CASE ~Due(sent.u.recv)
  BY <1>1, <1>3, <1>4 DEF r
<1>5. CASE Due(sent.u.recv)
  <2> DEFINE w == [sent.u EXCEPT !.recv = {}]
             x == [w EXCEPT !.recv_ready = TRUE]
  <2>1. sent \in States /\ sent.u \in Uarts /\ Flags(sent.u)
    BY <1>3 DEF Sound, States
  <2>2. in = [sent EXCEPT !.u = w]
    BY <2>1 DEF States, Uarts
  <2>3. /\ w \in Uarts /\ SameSender(sent.u, w) /\ (w.stood <=> sent.u.stood)
        /\ (w.rxe <=> sent.u.rxe) /\ (w.rxrdy <=> sent.u.rxrdy)
        /\ w.recv_buf = sent.u.recv_buf
    BY <2>1 DEF Uarts, SameSender
  <2> HIDE DEF w, in
  <2>4. Flags(w) /\ Sending(w) = Sending(sent.u) /\ Waiting(w) = Waiting(sent.u)
        /\ Held(w) = Held(sent.u) /\ (SenderRuns(sent.u) => SenderRuns(w))
    BY <2>1, <2>3 DEF SameSender, Flags, Sending, Waiting, Held, SenderRuns
  <2>5. Sound(in, heard, typed, n, out, said) /\ in.u = w
    BY <1>3, <2>2, <2>3, <2>4, OtherUart
  <2>6. CASE ~in.u.rxe
    <3>1. r = in
      BY <1>1, <1>5, <2>6
    <3>2. ReceiverRuns(w)
      BY <2>5, <2>6 DEF ReceiverRuns
    <3> QED
      BY <1>3, <2>4, <2>5, <3>1, <3>2 DEF r
  <2>7. CASE in.u.rxe
    <3>1. in \in States
      BY <2>5 DEF Sound
    <3>2. ready = [in EXCEPT !.u = x]
      BY <2>3, <2>5, <3>1 DEF States, Uarts
    <3>3. /\ x \in Uarts /\ SameSender(w, x) /\ (x.stood <=> w.stood)
          /\ x.recv_ready /\ (x.rxrdy <=> w.rxrdy) /\ x.recv_buf = w.recv_buf
      BY <2>3 DEF Uarts, SameSender
    <3> HIDE DEF x, ready
    <3>4. Flags(x) /\ Sending(x) = Sending(w) /\ Waiting(x) = Waiting(w)
          /\ Held(x) = Held(w) /\ (SenderRuns(w) => SenderRuns(x))
      BY <2>4, <3>3 DEF SameSender, Flags, Sending, Waiting, Held, SenderRuns
    <3>5. Sound(ready, heard, typed, n, out, said) /\ ready.u = x
      BY <2>5, <3>2, <3>3, <3>4, OtherUart
    <3>6. r = Signal(ready)
      BY <1>1, <1>5, <2>7
    <3>7. ReceiverRuns(x)
      BY <3>3 DEF ReceiverRuns
    <3>8. /\ Sound(r, heard, typed, n, out, said)
          /\ SameSender(x, r.u)
          /\ x.stood => r.u.stood
          /\ ReceiverRuns(r.u)
      BY <3>5, <3>6, <3>7, SignalKeeps
    <3>9. SenderRuns(x) => SenderRuns(r.u)
      BY <3>8 DEF SameSender, SenderRuns
    <3> QED
      BY <1>3, <2>4, <3>4, <3>8, <3>9 DEF r
  <2> QED
    BY <2>6, <2>7
<1> QED
  BY <1>4, <1>5

---------------------------------------------------------------------------
(* The rings and the terminal.                                             *)

LEMMA Cut ==
    ASSUME NEW q \in Seq(Nat), NEW n \in 0..Len(q)
    PROVE  /\ SubSeq(q, 1, n) \in Seq(Nat) /\ Len(SubSeq(q, 1, n)) = n
           /\ SubSeq(q, n + 1, Len(q)) \in Seq(Nat)
           /\ SubSeq(q, 1, n) \o SubSeq(q, n + 1, Len(q)) = q
<1>1. Len(q) \in Nat /\ n \in Nat /\ n <= Len(q)
  OBVIOUS
<1>2. \A i \in 1..Len(q) : q[i] \in Nat
  OBVIOUS
<1>3. SubSeq(q, 1, n) \in Seq(Nat) /\ Len(SubSeq(q, 1, n)) = n
  BY <1>1, <1>2, SubSeqProperties
<1>4. SubSeq(q, n + 1, Len(q)) \in Seq(Nat)
  BY <1>1, <1>2, SubSeqProperties
<1>5. SubSeq(q, 1, n) \o SubSeq(q, n + 1, Len(q)) = SubSeq(q, 1, Len(q))
  <2>1. /\ 1 \in 1..(Len(q) + 1) /\ n \in (1 - 1)..Len(q)
        /\ Len(q) \in n..Len(q)
    BY <1>1
  <2> QED
    BY <2>1, ConcatAdjacentSubSeq
<1>6. SubSeq(q, 1, Len(q)) = q
  BY SubSeqFull
<1> QED
  BY <1>3, <1>4, <1>5, <1>6

\* What is polled moves from the terminal into the ring and from the ring to
\* the terminal, unless the terminal refuses.
LEMMA PollKeeps ==
    ASSUME SerialAssumption,
           NEW b, b.rx \in Seq(Nat), b.tx \in Seq(Nat),
           Len(b.rx) <= RingSize - 1, Len(b.tx) <= RingSize - 1,
           NEW h, h.typed \in Seq(Nat), h.screen \in Seq(Nat),
           Len(h.screen) <= HostRoom
    PROVE  LET p == PollPty(b, h) IN
           /\ p.rx \in Seq(Nat) /\ p.tx \in Seq(Nat)
           /\ p.typed \in Seq(Nat) /\ p.screen \in Seq(Nat)
           /\ p.refused \in BOOLEAN
           /\ Len(p.rx) <= RingSize - 1 /\ Len(p.tx) <= RingSize - 1
           /\ Len(p.screen) <= HostRoom
           /\ p.rx \o p.typed = b.rx \o h.typed
           /\ ~p.refused => p.screen \o p.tx = h.screen \o b.tx
<1> DEFINE lr == Len(b.rx)
           lb == Len(b.tx)
           lt == Len(h.typed)
           ls == Len(h.screen)
           room == Space(b.rx)
           n == IF lt < room THEN lt ELSE room
           m == IF lb < HostRoom - ls THEN lb ELSE HostRoom - ls
           refused == m < lb
           k == m + (IF refused THEN 2 ELSE 1)
           moved == SubSeq(h.typed, 1, n)
           kept == SubSeq(h.typed, n + 1, lt)
           tx == SubSeq(b.tx, k, lb)
           gone == SubSeq(b.tx, 1, m)
           p == PollPty(b, h)
<1>1. /\ p.rx = b.rx \o moved /\ p.typed = kept
      /\ p.tx = tx /\ p.screen = h.screen \o gone /\ p.refused = refused
  BY DEF PollPty
<1>2. /\ lr \in Nat /\ lb \in Nat /\ lt \in Nat /\ ls \in Nat
      /\ RingSize \in Nat /\ HostRoom \in Nat
      /\ lr <= RingSize - 1 /\ lb <= RingSize - 1 /\ ls <= HostRoom
      /\ room = RingSize - 1 - lr
  BY DEF SerialAssumption, Space
<1> HIDE DEF lr, lb, lt, ls, room
<1>3. room \in Nat
  BY <1>2
<1>4. /\ n \in Nat /\ n <= lt /\ n <= room
      /\ m \in Nat /\ m <= lb /\ m <= HostRoom - ls /\ k \in Nat /\ m < k
      /\ refused \in BOOLEAN
      /\ ~refused => m = lb /\ k = lb + 1
  BY <1>2, <1>3
<1> HIDE DEF n, m, k, refused
<1>6. /\ moved \in Seq(Nat) /\ Len(moved) = n
      /\ kept \in Seq(Nat)
      /\ moved \o kept = h.typed
  <2> DEFINE q == h.typed
  <2>1. q \in Seq(Nat) /\ n \in 0..Len(q) /\ lt = Len(q)
    BY <1>2, <1>4 DEF lt
  <2> HIDE DEF q
  <2>2. /\ SubSeq(q, 1, n) \in Seq(Nat) /\ Len(SubSeq(q, 1, n)) = n
        /\ SubSeq(q, n + 1, Len(q)) \in Seq(Nat)
        /\ SubSeq(q, 1, n) \o SubSeq(q, n + 1, Len(q)) = q
    BY <2>1, Cut
  <2> QED
    BY <2>1, <2>2 DEF q
<1>7. gone \in Seq(Nat) /\ Len(gone) = m
  <2> DEFINE q == b.tx
  <2>1. q \in Seq(Nat) /\ m \in 0..Len(q)
    BY <1>2, <1>4 DEF lb
  <2> HIDE DEF q
  <2>2. SubSeq(q, 1, m) \in Seq(Nat) /\ Len(SubSeq(q, 1, m)) = m
    BY <2>1, Cut
  <2> QED
    BY <2>2 DEF q
<1>8. tx \in Seq(Nat) /\ Len(tx) <= lb
  <2> DEFINE q == b.tx
             t == SubSeq(q, k, lb)
  <2>1. q \in Seq(Nat) /\ lb = Len(q)
    BY DEF lb
  <2> HIDE DEF q
  <2>2. \A i \in k..lb : q[i] \in Nat
    BY <1>2, <1>4, <2>1
  <2>3. t \in Seq(Nat) /\ Len(t) = IF k <= lb THEN lb - k + 1 ELSE 0
    BY <1>2, <1>4, <2>2, SubSeqProperties
  <2> HIDE DEF t
  <2>4. Len(t) <= lb
    BY <1>2, <1>4, <2>3
  <2> QED
    BY <2>3, <2>4 DEF q, t
<1>9. ~refused => gone = b.tx /\ tx = <<>>
  <2>1. ASSUME ~refused
        PROVE  gone = b.tx /\ tx = <<>>
    <3>1. gone = SubSeq(b.tx, 1, Len(b.tx))
      BY <1>4, <2>1 DEF lb
    <3>2. SubSeq(b.tx, 1, Len(b.tx)) = b.tx
      BY SubSeqFull
    <3>3. tx = <<>>
      BY <1>2, <1>4, <2>1, SubSeqEmpty
    <3> QED
      BY <3>1, <3>2, <3>3
  <2> QED
    BY <2>1
<1> HIDE DEF moved, kept, tx, gone, p
<1>10. p.rx \in Seq(Nat) /\ Len(p.rx) = lr + n
  <2>1. b.rx \o moved \in Seq(Nat) /\ Len(b.rx \o moved) = Len(b.rx) + Len(moved)
    BY <1>6, ConcatProperties
  <2> QED
    BY <1>1, <1>6, <2>1 DEF lr
<1>11. Len(p.rx) <= RingSize - 1
  BY <1>2, <1>3, <1>4, <1>10
<1>12. p.rx \o p.typed = b.rx \o h.typed
  <2>1. (b.rx \o moved) \o kept = b.rx \o (moved \o kept)
    BY <1>6, Regroup, Zenon
  <2> QED
    BY <1>1, <1>6, <2>1
<1>13. p.screen \in Seq(Nat) /\ Len(p.screen) <= HostRoom
  <2>1. /\ h.screen \o gone \in Seq(Nat)
        /\ Len(h.screen \o gone) = Len(h.screen) + Len(gone)
    BY <1>7, ConcatProperties
  <2>2. Len(p.screen) = ls + m
    BY <1>1, <1>7, <2>1 DEF ls
  <2> QED
    BY <1>1, <1>2, <1>4, <2>1, <2>2
<1>14. ASSUME ~refused
       PROVE  p.screen \o p.tx = h.screen \o b.tx
  <2>1. p.screen = h.screen \o b.tx /\ p.tx = <<>>
    BY <1>1, <1>9, <1>14
  <2>2. p.screen \o <<>> = p.screen
    BY ONLY <1>13, ConcatEmptySeq
  <2> QED
    BY <2>1, <2>2
<1>15. Len(p.tx) <= RingSize - 1
  BY <1>1, <1>2, <1>8
<1>16. p.refused \in BOOLEAN /\ (p.refused <=> refused)
  BY <1>1, <1>4
<1> QED
  BY <1>1, <1>6, <1>8, <1>10, <1>11, <1>12, <1>13, <1>14, <1>15, <1>16 DEF p

---------------------------------------------------------------------------
(* The invariant.                                                          *)

Backends == [present : BOOLEAN, master : Int, rx : Seq(Nat), tx : Seq(Nat)]
Programs == [rest : Seq(Op), pace : SUBSET (Nat \ {0}), types : Nat,
             switches : Nat]
Hosts == [typed : Seq(Nat), screen : Seq(Nat)]
Tales == [heard : Seq(Nat), said : Seq(Nat), shown : Seq(Nat), next : Nat,
          typed : Nat]

\* What the variables are.
SerialTypes ==
    /\ pit \in [Channels -> Counters] /\ pair \in [Channels -> Pairs]
    /\ uart \in Uarts /\ now \in Int /\ backend \in Backends
    /\ events \in [lost : BOOLEAN, overrun : BOOLEAN]
    /\ host \in Hosts /\ told \in Tales

\* The interface between two steps: its counters with what was read of them,
\* its characters, and the two directions.
DeviceInv ==
    /\ SerialTypes
    /\ Len(host.screen) <= HostRoom
    /\ \A ch \in Channels : PairGood(pair[ch], pit[ch])
    /\ Sound(State, told.heard, host.typed, told.typed,
             told.shown \o host.screen, told.said)
    /\ ReceiverRuns(uart)
    /\ SenderRuns(uart)

\* And before main.c has switched it, its rings are empty.
SerialInv ==
    /\ DeviceInv
    /\ program \in Programs
    /\ device \in [present : BOOLEAN, active : BOOLEAN, started : BOOLEAN]
    /\ ~device.started => /\ backend.rx = <<>> /\ backend.tx = <<>>
                          /\ ~device.present

LEMMA StateType ==
    ASSUME SerialTypes
    PROVE  /\ State \in States
           /\ State.u = uart /\ State.rx = backend.rx /\ State.tx = backend.tx
           /\ State.t = now
           /\ State.lost = events.lost /\ State.overrun = events.overrun
<1>1. uart \in Uarts /\ backend.rx \in Seq(Nat) /\ backend.tx \in Seq(Nat)
      /\ now \in Int
  BY DEF SerialTypes, Backends
<1>2. events.lost \in BOOLEAN /\ events.overrun \in BOOLEAN
  BY DEF SerialTypes
<1> QED
  BY <1>1, <1>2 DEF State, States

\* The time of a state is not part of what is said of it.
LEMMA SameSound ==
    ASSUME NEW s, NEW r \in States, NEW heard, NEW typed, NEW n, NEW out,
           NEW said, Sound(s, heard, typed, n, out, said),
           r.u = s.u, r.rx = s.rx, r.tx = s.tx, s.lost => r.lost,
           s.overrun => r.overrun
    PROVE  Sound(r, heard, typed, n, out, said)
BY DEF Sound, In, Out

\* What a state that a call returned becomes.
LEMMA BecomesDoes ==
    ASSUME SerialTypes, now' \in Int, NEW s \in States, Becomes(s)
    PROVE  /\ uart' = s.u /\ uart' \in Uarts
           /\ backend' \in Backends /\ backend'.present = backend.present
           /\ events' \in [lost : BOOLEAN, overrun : BOOLEAN]
           /\ \A heard, typed, n, out, said :
                  Sound(s, heard, typed, n, out, said)
                      => Sound(State', heard, typed, n, out, said)
<1>1. uart' = s.u /\ uart' \in Uarts
  BY DEF Becomes, States
<1>2. /\ backend' \in Backends /\ backend'.present = backend.present
      /\ backend'.rx = s.rx /\ backend'.tx = s.tx
  BY DEF SerialTypes, Becomes, States, Backends
<1>3. /\ events' \in [lost : BOOLEAN, overrun : BOOLEAN]
      /\ events'.lost = s.lost /\ events'.overrun = s.overrun
  BY DEF SerialTypes, Becomes, States
<1>4. /\ State' \in States /\ State'.u = s.u /\ State'.rx = s.rx
      /\ State'.tx = s.tx /\ State'.lost = s.lost /\ State'.overrun = s.overrun
  <2>1. s.rx \in Seq(Nat) /\ s.tx \in Seq(Nat) /\ s.lost \in BOOLEAN
        /\ s.overrun \in BOOLEAN
    BY DEF States
  <2> QED
    BY <1>1, <1>2, <1>3, <2>1 DEF State, States
<1>5. /\ s.lost => State'.lost
      /\ s.overrun => State'.overrun
  BY <1>4, Zenon
<1>6. ASSUME NEW heard, NEW typed, NEW n, NEW out, NEW said,
             Sound(s, heard, typed, n, out, said)
      PROVE  Sound(State', heard, typed, n, out, said)
  BY <1>4, <1>5, <1>6, SameSound
<1> QED
  BY <1>1, <1>2, <1>3, <1>6

\* A step of the counters reaches the USART by its clock line only.
LEMMA TimerDoes ==
    ASSUME DeviceInv, NEW s \in [Channels -> Counters], Timer(s),
           UNCHANGED <<now, backend, events>>
    PROVE  /\ pit' = s
           /\ uart' \in Uarts /\ ReceiverRuns(uart)' /\ SenderRuns(uart)'
           /\ Sound(State', told.heard, host.typed, told.typed,
                    told.shown \o host.screen, told.said)
<1>1. SerialTypes /\ uart \in Uarts /\ now \in Int /\ pit \in [Channels -> Counters]
  BY DEF DeviceInv, SerialTypes
<1>2. ASSUME NEW clock \in Clocks, NEW ch \in Channels
      PROVE  Wired(clock, ch, s[ch]) \in Clocks
  <2>1. s[ch].output \in Clocks
    BY DEF Counters
  <2> DEFINE o == s[ch].output
  <2>2. o.total \in Int /\ o.hi \in Int
    BY <2>1 DEF Clocks
  <2>3. /\ SetPeriodic(clock, o.total, o.hi, now) \in Clocks
        /\ SetState(clock, GetState(o, now), now) \in Clocks
    <3>1. GetState(o, now) \in BOOLEAN
      BY <1>1, <2>1, ClockTypes
    <3> HIDE DEF o
    <3> QED
      BY <1>1, <2>2, <3>1, ClockTypes
  <2> QED
    BY <2>3 DEF Wired
<1> DEFINE clock == Wired(Wired(uart.clock, 0, s[0]), 1, s[1])
<1>3. clock \in Clocks
  <2>1. uart.clock \in Clocks /\ 0 \in Channels /\ 1 \in Channels
    BY <1>1 DEF Uarts, Channels
  <2> QED
    BY <1>2, <2>1
<1>4. pit' = s /\ uart' = [uart EXCEPT !.clock = clock]
  BY Zenon DEF Timer
<1> HIDE DEF clock
<1>5. /\ uart' \in Uarts /\ SameReceiver(uart, uart') /\ SameSender(uart, uart')
      /\ (uart'.stood <=> uart.stood)
  BY <1>1, <1>3, <1>4 DEF Uarts, SameReceiver, SameSender
<1>6. /\ Flags(uart) => Flags(uart')
      /\ Held(uart') = Held(uart) /\ Sending(uart') = Sending(uart)
      /\ Waiting(uart') = Waiting(uart)
      /\ ReceiverRuns(uart) => ReceiverRuns(uart')
      /\ SenderRuns(uart) => SenderRuns(uart')
  BY <1>5 DEF SameReceiver, SameSender, Flags, Held, Sending, Waiting,
              ReceiverRuns, SenderRuns
<1>7. State' = [State EXCEPT !.u = uart']
  BY DEF State
<1>8. Sound(State', told.heard, host.typed, told.typed,
            told.shown \o host.screen, told.said)
  <2>1. State.u = uart
    BY <1>1, StateType
  <2>2. Sound(State, told.heard, host.typed, told.typed,
              told.shown \o host.screen, told.said) /\ Flags(uart)
    BY <2>1 DEF DeviceInv, Sound
  <2> QED
    BY <1>5, <1>6, <1>7, <2>1, <2>2, OtherUart
<1>9. ReceiverRuns(uart)' /\ SenderRuns(uart)'
  <2>1. ReceiverRuns(uart') /\ SenderRuns(uart')
    BY <1>6 DEF DeviceInv
  <2> QED
    BY <2>1 DEF ReceiverRuns, SenderRuns
<1> QED
  BY <1>4, <1>5, <1>8, <1>9

---------------------------------------------------------------------------
(* The accesses of the guest, port by port.                                *)

LEMMA TimerPort ==
    ASSUME DeviceInv, NEW op, op.ch \in Channels, op.byte \in 0..(ByteSize - 1),
           TimerOf(op.ch, ChannelWrite(pit[op.ch], op.byte, now)),
           UNCHANGED <<now, host, backend, events, told, pair>>
    PROVE  DeviceInv'
<1> DEFINE c == ChannelWrite(pit[op.ch], op.byte, now)
           s == [pit EXCEPT ![op.ch] = c]
<1>1. SerialTypes /\ pit \in [Channels -> Counters] /\ now \in Int
  BY DEF DeviceInv, SerialTypes
<1>2. c \in Counters /\ SameLatch(pit[op.ch], c)
  BY <1>1, ChannelWriteKeeps
<1>3. Timer(s)
  BY DEF TimerOf
<1> HIDE DEF c
<1>4. s \in [Channels -> Counters]
  BY <1>1, <1>2
<1>5. /\ pit' = s
      /\ uart' \in Uarts /\ ReceiverRuns(uart)' /\ SenderRuns(uart)'
      /\ Sound(State', told.heard, host.typed, told.typed,
               told.shown \o host.screen, told.said)
  BY <1>3, <1>4, TimerDoes
<1>6. ASSUME NEW ch \in Channels
      PROVE  PairGood(pair[ch], s[ch])
  <2>1. PairGood(pair[ch], pit[ch])
    BY DEF DeviceInv
  <2>2. CASE ch = op.ch
    <3>1. s[ch] = c
      BY <1>1, <2>2
    <3> QED
      BY <1>1, <1>2, <2>1, <2>2, <3>1, PairKept
  <2>3. CASE ch # op.ch
    <3>1. s[ch] = pit[ch]
      BY <1>1, <2>3
    <3> QED
      BY <2>1, <3>1
  <2> QED
    BY <2>2, <2>3
<1> HIDE DEF s
<1>7. SerialTypes'
  BY <1>1, <1>4, <1>5 DEF SerialTypes
<1> QED
  BY <1>5, <1>6, <1>7 DEF DeviceInv

LEMMA WordPort ==
    ASSUME DeviceInv, NEW op, op.ch \in Channels,
           op.format \in Format \cup {"latch"}, op.mode \in TimerMode,
           TimerOf(op.ch, WriteControlWord(pit[op.ch], op, now)),
           pair' = [pair EXCEPT ![op.ch] =
                       PairAfter(op.ch, WriteControlWord(pit[op.ch], op, now))],
           UNCHANGED <<now, host, backend, events, told>>
    PROVE  DeviceInv'
<1> DEFINE c == WriteControlWord(pit[op.ch], op, now)
           s == [pit EXCEPT ![op.ch] = c]
           p == PairAfter(op.ch, c)
<1>1. SerialTypes /\ pit \in [Channels -> Counters] /\ now \in Int
      /\ pair \in [Channels -> Pairs]
  BY DEF DeviceInv, SerialTypes
<1>2. /\ c \in Counters
      /\ op.format = "latch" => Latches(pit[op.ch], c)
      /\ op.format # "latch" =>
             /\ c.ltch_cntr <=> pit[op.ch].ltch_cntr
             /\ c.read_order_low <=> pit[op.ch].read_order_low
             /\ c.latched_counter = pit[op.ch].latched_counter
             /\ c.format = op.format
  <2>1. pit[op.ch] \in Counters
    BY <1>1
  <2> QED
    BY <1>1, <2>1, ControlWordDoes
<1>3. Timer(s) /\ pair' = [pair EXCEPT ![op.ch] = p]
  BY DEF TimerOf
<1> HIDE DEF c
<1>4. s \in [Channels -> Counters]
  BY <1>1, <1>2
<1>5. /\ pit' = s
      /\ uart' \in Uarts /\ ReceiverRuns(uart)' /\ SenderRuns(uart)'
      /\ Sound(State', told.heard, host.typed, told.typed,
               told.shown \o host.screen, told.said)
  BY <1>3, <1>4, TimerDoes
<1>6. PairGood(p, c)
  <2>1. PairGood(pair[op.ch], pit[op.ch]) /\ pit[op.ch] \in Counters
    BY <1>1 DEF DeviceInv
  <2>2. CASE op.format = "latch"
    BY <1>2, <2>1, <2>2, PairLatched
  <2>3. CASE op.format # "latch"
    BY <1>2, <2>1, <2>3, PairFormatted
  <2> QED
    BY <2>2, <2>3
<1> HIDE DEF p
<1>7. p \in Pairs
  BY <1>6 DEF PairGood
<1>8. ASSUME NEW ch \in Channels
      PROVE  PairGood(pair'[ch], s[ch])
  <2>1. PairGood(pair[ch], pit[ch])
    BY DEF DeviceInv
  <2>2. CASE ch = op.ch
    <3>1. s[ch] = c /\ pair'[ch] = p
      BY <1>1, <1>3, <2>2
    <3> QED
      BY <1>6, <3>1
  <2>3. CASE ch # op.ch
    <3>1. s[ch] = pit[ch] /\ pair'[ch] = pair[ch]
      BY <1>1, <1>3, <2>3
    <3> QED
      BY <2>1, <3>1
  <2> QED
    BY <2>2, <2>3
<1> HIDE DEF s
<1>9. SerialTypes'
  <2>1. pair' \in [Channels -> Pairs]
    BY <1>1, <1>3, <1>7
  <2> QED
    BY <1>1, <1>4, <1>5, <2>1 DEF SerialTypes
<1> QED
  BY <1>5, <1>8, <1>9 DEF DeviceInv

LEMMA ReadBackPort ==
    ASSUME DeviceInv, NEW op, op.channels \in SUBSET Channels,
           op.count \in BOOLEAN,
           Timer([ch \in Channels |->
                      IF ch \in op.channels
                      THEN ReadBack(pit[ch], op.count, now) ELSE pit[ch]]),
           pair' = [ch \in Channels |-> PairAfter(ch, pit'[ch])],
           UNCHANGED <<now, host, backend, events, told>>
    PROVE  DeviceInv'
<1> DEFINE s == [ch \in Channels |->
                     IF ch \in op.channels
                     THEN ReadBack(pit[ch], op.count, now) ELSE pit[ch]]
<1>1. SerialTypes /\ pit \in [Channels -> Counters] /\ now \in Int
  BY DEF DeviceInv, SerialTypes
<1>2. ASSUME NEW ch \in Channels
      PROVE  /\ s[ch] \in Counters
             /\ SameLatch(pit[ch], s[ch]) \/ Latches(pit[ch], s[ch])
  <2>1. pit[ch] \in Counters
    BY <1>1
  <2>2. CASE ch \in op.channels
    <3>1. s[ch] = ReadBack(pit[ch], op.count, now)
      BY <2>2
    <3>2. LET d == ReadBack(pit[ch], op.count, now) IN
          /\ d \in Counters
          /\ SameLatch(pit[ch], d) \/ Latches(pit[ch], d)
      BY <1>1, <2>1, ReadBackDoes
    <3> QED
      BY <3>1, <3>2
  <2>3. CASE ch \notin op.channels
    <3>1. s[ch] = pit[ch]
      BY <2>3
    <3> QED
      BY <2>1, <3>1 DEF SameLatch
  <2> QED
    BY <2>2, <2>3
<1>3. s \in [Channels -> Counters]
  BY <1>2
<1> HIDE DEF s
<1>4. /\ pit' = s
      /\ uart' \in Uarts /\ ReceiverRuns(uart)' /\ SenderRuns(uart)'
      /\ Sound(State', told.heard, host.typed, told.typed,
               told.shown \o host.screen, told.said)
  BY <1>3, TimerDoes DEF s
<1>5. ASSUME NEW ch \in Channels
      PROVE  PairGood(pair'[ch], pit'[ch])
  <2>1. PairGood(pair[ch], pit[ch]) /\ pit[ch] \in Counters
    BY <1>1 DEF DeviceInv
  <2>2. PairGood(PairAfter(ch, s[ch]), s[ch])
    BY <1>2, <2>1, PairLatched
  <2>3. pair'[ch] = PairAfter(ch, s[ch])
    BY <1>4
  <2> QED
    BY <1>4, <2>2, <2>3
<1>6. pair' \in [Channels -> Pairs]
  <2>1. \A ch \in Channels : pair'[ch] \in Pairs
    BY <1>5 DEF PairGood
  <2> QED
    BY <2>1
<1>7. SerialTypes'
  BY <1>1, <1>3, <1>4, <1>6 DEF SerialTypes
<1> QED
  BY <1>4, <1>5, <1>7 DEF DeviceInv

LEMMA CountPort ==
    ASSUME DeviceInv, NEW op, op.ch \in Channels,
           TimerOf(op.ch, ChannelRead(pit[op.ch], now)),
           pair' = IF pit[op.ch].ltch_ctrl \/ ~pair[op.ch].open THEN pair
                   ELSE [pair EXCEPT ![op.ch] =
                            PairRead(@, ChannelRead(pit[op.ch], now),
                                     ReadValue(pit[op.ch], now))],
           UNCHANGED <<now, host, backend, events, told>>
    PROVE  DeviceInv'
<1> DEFINE c == ChannelRead(pit[op.ch], now)
           s == [pit EXCEPT ![op.ch] = c]
           old == pair[op.ch]
           p == IF pit[op.ch].ltch_ctrl \/ ~old.open THEN old
                ELSE [old EXCEPT !.bytes = @ \o ReadValue(pit[op.ch], now),
                                 !.open = c.ltch_cntr]
<1>1. SerialTypes /\ pit \in [Channels -> Counters] /\ now \in Int
      /\ pair \in [Channels -> Pairs] /\ pit[op.ch] \in Counters
  BY DEF DeviceInv, SerialTypes
<1>2. PairGood(p, c)
  <2>1. PairGood(old, pit[op.ch])
    BY DEF DeviceInv
  <2> QED
    BY <1>1, <2>1, PairReadGood
<1>3. c \in Counters
  BY <1>1, ReadDoes
<1>4. Timer(s)
  BY DEF TimerOf
<1>5. pair' = [pair EXCEPT ![op.ch] = p]
  <2> DEFINE read == PairRead(old, c, ReadValue(pit[op.ch], now))
  <2>1. pair' = IF pit[op.ch].ltch_ctrl \/ ~old.open THEN pair
                ELSE [pair EXCEPT ![op.ch] = read]
    BY Zenon
  <2>2. p = IF pit[op.ch].ltch_ctrl \/ ~old.open THEN old ELSE read
    BY Zenon DEF PairRead
  <2> HIDE DEF read, p
  <2>3. [pair EXCEPT ![op.ch] = old] = pair
    BY <1>1
  <2>4. CASE pit[op.ch].ltch_ctrl \/ ~old.open
    BY <2>1, <2>2, <2>3, <2>4, Zenon
  <2>5. CASE ~(pit[op.ch].ltch_ctrl \/ ~old.open)
    BY <2>1, <2>2, <2>5, Zenon
  <2> QED
    BY <2>4, <2>5, Zenon
<1> HIDE DEF c, p
<1>6. p \in Pairs
  BY <1>2 DEF PairGood
<1>7. s \in [Channels -> Counters]
  BY <1>1, <1>3
<1>8. /\ pit' = s
      /\ uart' \in Uarts /\ ReceiverRuns(uart)' /\ SenderRuns(uart)'
      /\ Sound(State', told.heard, host.typed, told.typed,
               told.shown \o host.screen, told.said)
  BY <1>4, <1>7, TimerDoes
<1>9. ASSUME NEW ch \in Channels
      PROVE  PairGood(pair'[ch], s[ch])
  <2>1. PairGood(pair[ch], pit[ch])
    BY DEF DeviceInv
  <2>2. CASE ch = op.ch
    <3>1. s[ch] = c /\ pair'[ch] = p
      BY <1>1, <1>5, <2>2
    <3> QED
      BY <1>2, <3>1
  <2>3. CASE ch # op.ch
    <3>1. s[ch] = pit[ch] /\ pair'[ch] = pair[ch]
      BY <1>1, <1>5, <2>3
    <3> QED
      BY <2>1, <3>1
  <2> QED
    BY <2>2, <2>3
<1> HIDE DEF s
<1>10. SerialTypes'
  <2>1. pair' \in [Channels -> Pairs]
    BY <1>1, <1>5, <1>6
  <2> QED
    BY <1>1, <1>7, <1>8, <2>1 DEF SerialTypes
<1> QED
  BY <1>8, <1>9, <1>10 DEF DeviceInv

\* The tail of every step that leaves the counters alone.
LEMMA Settled ==
    ASSUME DeviceInv, now' \in Int, NEW s \in States, Becomes(s),
           UNCHANGED <<pit, pair>>,
           told' \in Tales, host' \in Hosts, Len(host'.screen) <= HostRoom,
           ReceiverRuns(s.u), SenderRuns(s.u),
           Sound(s, told'.heard, host'.typed, told'.typed,
                 told'.shown \o host'.screen, told'.said)
    PROVE  DeviceInv' /\ backend'.present = backend.present
<1>1. SerialTypes
  BY DEF DeviceInv
<1>2. /\ uart' = s.u /\ uart' \in Uarts
      /\ backend' \in Backends /\ backend'.present = backend.present
      /\ events' \in [lost : BOOLEAN, overrun : BOOLEAN]
      /\ \A heard, typed, n, out, said :
             Sound(s, heard, typed, n, out, said)
                 => Sound(State', heard, typed, n, out, said)
  BY <1>1, BecomesDoes
<1>3. Sound(State', told'.heard, host'.typed, told'.typed,
            told'.shown \o host'.screen, told'.said)
  BY <1>2, Zenon
<1>4. SerialTypes'
  BY <1>1, <1>2 DEF SerialTypes
<1>5. ReceiverRuns(uart)' /\ SenderRuns(uart)'
  BY <1>2 DEF ReceiverRuns, SenderRuns
<1>6. \A ch \in Channels : PairGood(pair'[ch], pit'[ch])
  BY DEF DeviceInv
<1> QED
  BY <1>2, <1>3, <1>4, <1>5, <1>6 DEF DeviceInv

\* That something was lost may be said at any time.
LEMMA LostSound ==
    ASSUME DeviceInv, NEW b \in BOOLEAN
    PROVE  LET r == [State EXCEPT !.lost = State.lost \/ b] IN
           /\ r \in States /\ r.u = uart /\ r.t = now
           /\ r.rx = backend.rx /\ r.tx = backend.tx
           /\ b => r.lost
           /\ Sound(r, told.heard, host.typed, told.typed,
                    told.shown \o host.screen, told.said)
<1> DEFINE r == [State EXCEPT !.lost = State.lost \/ b]
<1>1. /\ State \in States
      /\ State.u = uart /\ State.rx = backend.rx /\ State.tx = backend.tx
      /\ State.t = now
  BY StateType DEF DeviceInv
<1>2. (State.lost \/ b) \in BOOLEAN
  BY <1>1 DEF States
<1> HIDE DEF r
<1>3. /\ r \in States /\ r.u = State.u /\ r.rx = State.rx /\ r.tx = State.tx
      /\ r.t = State.t
      /\ r.lost <=> State.lost \/ b
      /\ r.overrun <=> State.overrun
  <2> HIDE DEF r
  <2>1. r = [State EXCEPT !.lost = State.lost \/ b]
    BY DEF r
  <2> QED
    BY <1>1, <1>2, <2>1 DEF States
<1>4. Sound(State, told.heard, host.typed, told.typed,
            told.shown \o host.screen, told.said)
  BY DEF DeviceInv
<1>5. Sound(r, told.heard, host.typed, told.typed,
            told.shown \o host.screen, told.said)
  BY <1>3, <1>4, SameSound
<1> QED
  BY <1>1, <1>3, <1>5 DEF r

\* The characters of the histories, as the lemmas of the USART want them.
LEMMA TaleTypes ==
    ASSUME SerialTypes
    PROVE  /\ told.heard \in Seq(Nat) /\ told.said \in Seq(Nat)
           /\ told.shown \in Seq(Nat) /\ told.next \in Nat /\ told.typed \in Nat
           /\ host.typed \in Seq(Nat) /\ host.screen \in Seq(Nat)
           /\ told.shown \o host.screen \in Seq(Nat)
<1>1. /\ told.heard \in Seq(Nat) /\ told.said \in Seq(Nat)
      /\ told.shown \in Seq(Nat) /\ told.next \in Nat /\ told.typed \in Nat
      /\ host.typed \in Seq(Nat) /\ host.screen \in Seq(Nat)
  BY DEF SerialTypes, Tales, Hosts
<1>2. told.shown \o host.screen \in Seq(Nat)
  BY ONLY <1>1, ConcatProperties
<1> QED
  BY <1>1, <1>2

LEMMA ControlPort ==
    ASSUME SerialAssumption, DeviceInv,
           NEW op, op.length \in Nat, op.single \in BOOLEAN,
           op.synchronous \in BOOLEAN, op.reset \in BOOLEAN,
           op.txen \in BOOLEAN, op.rxe \in BOOLEAN, op.rst_err \in BOOLEAN,
           Becomes(WriteControl([State EXCEPT !.lost = @ \/ Silences(op)], op)),
           UNCHANGED <<now, host, pit, told, pair>>
    PROVE  DeviceInv' /\ backend'.present = backend.present
<1> DEFINE b == Silences(op)
           s == [State EXCEPT !.lost = State.lost \/ b]
           r == WriteControl(s, op)
<1>1. SerialTypes /\ now \in Int /\ ReceiverRuns(uart) /\ SenderRuns(uart)
      /\ told \in Tales /\ host \in Hosts /\ Len(host.screen) <= HostRoom
  BY DEF DeviceInv, SerialTypes
<1>2. b \in BOOLEAN
  BY DEF Silences
<1>3. Becomes(r)
  BY Zenon
<1> HIDE DEF b
<1>4. /\ s \in States /\ s.u = uart
      /\ b => s.lost
      /\ Sound(s, told.heard, host.typed, told.typed,
               told.shown \o host.screen, told.said)
  BY <1>2, LostSound
<1> HIDE DEF s
<1>5. /\ s.u.phase = "cmd" /\ ~op.reset /\ ~op.txen /\ ~s.u.txempty => s.lost
      /\ s.u.phase = "cmd" /\ ~op.reset /\ ~op.rxe /\ s.u.rxrdy => s.lost
  BY <1>4 DEF Silences, b
<1>6. /\ Sound(r, told.heard, host.typed, told.typed,
               told.shown \o host.screen, told.said)
      /\ ReceiverRuns(r.u) /\ SenderRuns(r.u)
  <2>1. /\ told.heard \in Seq(Nat) /\ host.typed \in Seq(Nat)
        /\ told.typed \in Nat /\ told.shown \o host.screen \in Seq(Nat)
    BY <1>1, TaleTypes
  <2>2. ReceiverRuns(s.u) /\ SenderRuns(s.u)
    BY <1>1, <1>4
  <2> DEFINE out == told.shown \o host.screen
             heard == told.heard
             typed == host.typed
             n == told.typed
             said == told.said
  <2>3. /\ heard \in Seq(Nat) /\ typed \in Seq(Nat) /\ n \in Nat
        /\ out \in Seq(Nat) /\ Sound(s, heard, typed, n, out, said)
    BY <1>4, <2>1
  <2> HIDE DEF out, heard, typed, n, said, r
  <2>4. LET q == WriteControl(s, op) IN
        /\ Sound(q, heard, typed, n, out, said)
        /\ ReceiverRuns(s.u) => ReceiverRuns(q.u)
        /\ SenderRuns(s.u) => SenderRuns(q.u)
    <3>1. /\ op.length \in Nat /\ op.single \in BOOLEAN
          /\ op.synchronous \in BOOLEAN /\ op.reset \in BOOLEAN
          /\ op.txen \in BOOLEAN /\ op.rxe \in BOOLEAN
          /\ op.rst_err \in BOOLEAN /\ SerialAssumption
      OBVIOUS
    <3> QED
      BY ONLY <1>5, <2>3, <3>1, WriteControlKeeps
  <2> QED
    BY <2>2, <2>4 DEF out, heard, typed, n, said, r
<1> HIDE DEF r
<1>7. r \in States
  BY <1>6 DEF Sound
<1> QED
  BY <1>1, <1>3, <1>6, <1>7, Settled

LEMMA DataPort ==
    ASSUME SerialAssumption, DeviceInv,
           Becomes(WriteData([State EXCEPT
                                  !.lost = @ \/ (uart.txen /\ ~uart.txrdy)],
                             told.next)),
           told' = [told EXCEPT !.next = told.next + 1,
                                !.said = IF uart.txen THEN Append(@, told.next)
                                         ELSE @],
           UNCHANGED <<now, host, pit, pair>>
    PROVE  DeviceInv' /\ backend'.present = backend.present
<1> DEFINE b == uart.txen /\ ~uart.txrdy
           s == [State EXCEPT !.lost = State.lost \/ b]
           r == WriteData(s, told.next)
           longer == Append(told.said, told.next)
           said == IF uart.txen THEN longer ELSE told.said
           out == told.shown \o host.screen
           heard == told.heard
           typed == host.typed
           n == told.typed
           value == told.next
           before == told.said
<1>1. SerialTypes /\ now \in Int /\ ReceiverRuns(uart) /\ SenderRuns(uart)
      /\ told \in Tales /\ host \in Hosts /\ Len(host.screen) <= HostRoom
      /\ uart \in Uarts
  BY DEF DeviceInv, SerialTypes
<1>2. b \in BOOLEAN
  OBVIOUS
<1>3. Becomes(r)
  OBVIOUS
<1>4. /\ s \in States /\ s.u = uart
      /\ b => s.lost
      /\ Sound(s, told.heard, host.typed, told.typed,
               told.shown \o host.screen, told.said)
  <2> HIDE DEF b
  <2> QED
    BY <1>2, LostSound
<1>5. /\ heard \in Seq(Nat) /\ typed \in Seq(Nat) /\ n \in Nat
      /\ out \in Seq(Nat) /\ before \in Seq(Nat) /\ value \in Nat
  BY <1>1, TaleTypes
<1>6. told' = [told EXCEPT !.next = told.next + 1, !.said = said]
  BY Zenon
<1>7. said \in Seq(Nat) /\ told.next + 1 \in Nat
  BY <1>5
<1> HIDE DEF said
<1>8. /\ told' \in Tales /\ told'.heard = heard /\ told'.typed = n
      /\ told'.shown = told.shown /\ told'.said = said
  BY <1>1, <1>6, <1>7 DEF Tales
<1>9. /\ s.u.txen /\ ~s.u.txrdy => s.lost
      /\ Sound(s, heard, typed, n, out, before)
      /\ SerialAssumption
  BY <1>4
<1> HIDE DEF s
<1>10. LET q == WriteData(s, value)
           new == IF s.u.txen THEN Append(before, value) ELSE before IN
       /\ Sound(q, heard, typed, n, out, new)
       /\ ReceiverRuns(s.u) => ReceiverRuns(q.u)
       /\ SenderRuns(s.u) => SenderRuns(q.u)
  <2> HIDE DEF out, heard, typed, n, value, before
  <2> QED
    BY ONLY <1>5, <1>9, WriteDataKeeps
<1>11. (IF s.u.txen THEN Append(before, value) ELSE before) = said
  BY <1>4 DEF said
<1>12. Sound(r, heard, typed, n, out, said) /\ ReceiverRuns(r.u) /\ SenderRuns(r.u)
  <2>1. ReceiverRuns(s.u) /\ SenderRuns(s.u)
    BY <1>1, <1>4
  <2> HIDE DEF out, heard, typed, n, before
  <2> QED
    BY <1>10, <1>11, <2>1 DEF r
<1> HIDE DEF r
<1>13. r \in States
  BY <1>12 DEF Sound
<1>14. Sound(r, told'.heard, host'.typed, told'.typed,
             told'.shown \o host'.screen, told'.said)
  BY <1>8, <1>12
<1> QED
  BY <1>1, <1>3, <1>8, <1>12, <1>13, <1>14, Settled

\* What is read was held: the guest has heard it now.
LEMMA ReadPort ==
    ASSUME SerialAssumption, DeviceInv,
           uart' = ReadTrans(uart),
           told' = [told EXCEPT !.heard = IF uart.rxrdy
                                          THEN Append(@, uart.recv_buf) ELSE @],
           UNCHANGED <<now, host, pit, backend, events, pair>>
    PROVE  DeviceInv' /\ backend'.present = backend.present
<1> DEFINE u == [uart EXCEPT !.rxrdy = FALSE]
           r == [State EXCEPT !.u = u]
           more == Append(told.heard, uart.recv_buf)
           heard == IF uart.rxrdy THEN more ELSE told.heard
           out == told.shown \o host.screen
<1>1. SerialTypes /\ now \in Int /\ ReceiverRuns(uart) /\ SenderRuns(uart)
      /\ told \in Tales /\ host \in Hosts /\ Len(host.screen) <= HostRoom
      /\ uart \in Uarts /\ uart.recv_buf \in Nat /\ backend.rx \in Seq(Nat)
      /\ backend \in Backends
      /\ events \in [lost : BOOLEAN, overrun : BOOLEAN]
      /\ Sound(State, told.heard, host.typed, told.typed,
               told.shown \o host.screen, told.said)
  BY DEF DeviceInv, SerialTypes, Uarts, Backends
<1>2. /\ told.heard \in Seq(Nat) /\ host.typed \in Seq(Nat)
      /\ told.typed \in Nat /\ told.shown \o host.screen \in Seq(Nat)
  BY <1>1, TaleTypes
<1>3. /\ State \in States
      /\ State.u = uart /\ State.rx = backend.rx /\ State.tx = backend.tx
      /\ State.lost = events.lost /\ State.overrun = events.overrun
  BY <1>1, StateType
<1>4. /\ u \in Uarts /\ ~u.rxrdy /\ SameSender(uart, u)
      /\ u.rxe <=> uart.rxe
      /\ u.recv_ready <=> uart.recv_ready
      /\ u.stood <=> uart.stood
      /\ u.recv = uart.recv
  BY <1>1 DEF Uarts, SameSender
<1>5. uart' = u
  BY DEF ReadTrans
<1> HIDE DEF u
<1>6. /\ r \in States /\ r.u = u /\ r.rx = State.rx /\ r.tx = State.tx
      /\ r.lost = State.lost /\ r.overrun = State.overrun
  BY <1>3, <1>4 DEF States
<1> HIDE DEF r
<1>7. Becomes(r)
  <2>1. backend' = [backend EXCEPT !.rx = r.rx, !.tx = r.tx]
    BY <1>1, <1>3, <1>6 DEF Backends
  <2>2. events' = [events EXCEPT !.lost = r.lost, !.overrun = r.overrun]
    <3>1. events = [events EXCEPT !.lost = events.lost,
                                  !.overrun = events.overrun]
      BY <1>1
    <3>2. events' = events
      OBVIOUS
    <3> QED
      BY <1>3, <1>6, <3>1, <3>2, Zenon
  <2> QED
    BY <1>5, <1>6, <2>1, <2>2 DEF Becomes
<1>8. Sending(u) = Sending(uart) /\ Waiting(u) = Waiting(uart)
      /\ (Flags(uart) => Flags(u)) /\ Held(u) = <<>>
  BY <1>4 DEF SameSender, Sending, Waiting, Flags, Held
<1>9. heard \o Held(u) = told.heard \o Held(uart) /\ heard \in Seq(Nat)
  <2>1. CASE uart.rxrdy
    <3>1. heard = more /\ Held(uart) = <<uart.recv_buf>>
      BY <2>1 DEF Held
    <3>2. more = told.heard \o <<uart.recv_buf>> /\ more \in Seq(Nat)
      <4> DEFINE q == told.heard
                 e == uart.recv_buf
      <4>1. q \in Seq(Nat) /\ e \in Nat
        BY <1>1, <1>2
      <4> HIDE DEF q, e
      <4>2. Append(q, e) = q \o <<e>>
        BY ONLY <4>1, AppendIsConcat
      <4>3. Append(q, e) \in Seq(Nat)
        BY ONLY <4>1, AppendProperties
      <4> QED
        BY <4>2, <4>3 DEF q, e
    <3>3. more \o <<>> = more
      BY ONLY <3>2, ConcatEmptySeq
    <3>4. heard \o Held(u) = heard
      BY <1>8, <3>1, <3>3, Zenon
    <3> QED
      BY <3>1, <3>2, <3>4, Zenon
  <2>2. CASE ~uart.rxrdy
    <3>1. heard = told.heard /\ Held(uart) = <<>>
      BY <2>2 DEF Held
    <3> QED
      BY <1>2, <1>8, <3>1
  <2> QED
    BY <2>1, <2>2
<1> HIDE DEF heard
<1>10. /\ told' \in Tales /\ told'.heard = heard /\ told'.typed = told.typed
       /\ told'.shown = told.shown /\ told'.said = told.said
  <2>1. told' = [told EXCEPT !.heard = heard]
    BY Zenon DEF heard
  <2> QED
    BY <1>1, <1>9, <2>1 DEF Tales
<1>11. Sound(r, heard, host.typed, told.typed, out, told.said)
  <2>1. /\ In(State, told.heard, host.typed, told.typed)
        /\ Out(State, out, told.said)
        /\ Flags(uart) /\ Len(State.rx) <= RingSize - 1
        /\ Len(State.tx) <= RingSize - 1
    BY <1>1, <1>3 DEF Sound
  <2>2. In(r, heard, host.typed, told.typed)
    BY <1>3, <1>6, <1>9, <2>1 DEF In
  <2>3. Out(r, out, told.said)
    BY <1>3, <1>6, <1>8, <2>1 DEF Out
  <2> QED
    BY <1>6, <1>8, <2>1, <2>2, <2>3 DEF Sound
<1>12. ReceiverRuns(r.u) /\ SenderRuns(r.u)
  BY <1>1, <1>4, <1>6 DEF ReceiverRuns, SenderRuns, SameSender
<1>13. Sound(r, told'.heard, host'.typed, told'.typed,
             told'.shown \o host'.screen, told'.said)
  BY <1>10, <1>11
<1> QED
  BY <1>1, <1>6, <1>7, <1>10, <1>12, <1>13, Settled

---------------------------------------------------------------------------
(* The actions.                                                            *)

LEMMA AcceptedKeeps ==
    ASSUME SerialAssumption, DeviceInv, NEW op \in Op, op.port # "wait",
           Accepted(op), UNCHANGED <<now, host>>
    PROVE  DeviceInv'
<1>1. op.port \in {"timer", "word", "readback", "count", "control", "data",
                   "read"}
  BY DEF Op
<1>2. CASE op.port = "timer"
  <2>1. op.ch \in Channels /\ op.byte \in 0..(ByteSize - 1)
    BY <1>2 DEF Op
  <2>2. /\ TimerOf(op.ch, ChannelWrite(pit[op.ch], op.byte, now))
        /\ UNCHANGED <<backend, events, told, pair>>
    BY <1>2 DEF Accepted
  <2> QED
    BY <2>1, <2>2, TimerPort
<1>3. CASE op.port = "word"
  <2>1. /\ op.ch \in Channels /\ op.format \in Format \cup {"latch"}
        /\ op.mode \in TimerMode
    BY <1>3 DEF Op
  <2>2. /\ TimerOf(op.ch, WriteControlWord(pit[op.ch], op, now))
        /\ pair' = [pair EXCEPT ![op.ch] =
                       PairAfter(op.ch, WriteControlWord(pit[op.ch], op, now))]
        /\ UNCHANGED <<backend, events, told>>
    BY <1>3 DEF Accepted
  <2> QED
    BY <2>1, <2>2, WordPort
<1>4. CASE op.port = "readback"
  <2>1. op.channels \in SUBSET Channels /\ op.count \in BOOLEAN
    BY <1>4 DEF Op
  <2>2. /\ Timer([ch \in Channels |->
                      IF ch \in op.channels
                      THEN ReadBack(pit[ch], op.count, now) ELSE pit[ch]])
        /\ pair' = [ch \in Channels |-> PairAfter(ch, pit'[ch])]
        /\ UNCHANGED <<backend, events, told>>
    BY <1>4 DEF Accepted
  <2> QED
    BY <2>1, <2>2, ReadBackPort
<1>5. CASE op.port = "count"
  <2>1. op.ch \in Channels
    BY <1>5 DEF Op
  <2>2. /\ TimerOf(op.ch, ChannelRead(pit[op.ch], now))
        /\ pair' = IF pit[op.ch].ltch_ctrl \/ ~pair[op.ch].open THEN pair
                   ELSE [pair EXCEPT ![op.ch] =
                            PairRead(@, ChannelRead(pit[op.ch], now),
                                     ReadValue(pit[op.ch], now))]
        /\ UNCHANGED <<backend, events, told>>
    BY <1>5 DEF Accepted
  <2> QED
    BY <2>1, <2>2, CountPort
<1>6. CASE op.port = "control"
  <2>1. /\ op.length \in Nat /\ op.single \in BOOLEAN
        /\ op.synchronous \in BOOLEAN /\ op.reset \in BOOLEAN
        /\ op.txen \in BOOLEAN /\ op.rxe \in BOOLEAN /\ op.rst_err \in BOOLEAN
    BY <1>6 DEF Op
  <2>2. /\ Becomes(WriteControl([State EXCEPT !.lost = @ \/ Silences(op)], op))
        /\ UNCHANGED <<pit, told, pair>>
    BY <1>6 DEF Accepted
  <2> QED
    BY <2>1, <2>2, ControlPort
<1>7. CASE op.port = "data"
  <2>1. /\ Becomes(WriteData([State EXCEPT
                                  !.lost = @ \/ (uart.txen /\ ~uart.txrdy)],
                             told.next))
        /\ told' = [told EXCEPT !.next = told.next + 1,
                                !.said = IF uart.txen
                                         THEN Append(@, told.next) ELSE @]
        /\ UNCHANGED <<pit, pair>>
    BY <1>7 DEF Accepted
  <2> QED
    BY <2>1, DataPort
<1>8. CASE op.port = "read"
  <2>1. /\ uart' = ReadTrans(uart)
        /\ told' = [told EXCEPT !.heard = IF uart.rxrdy
                                          THEN Append(@, uart.recv_buf) ELSE @]
        /\ UNCHANGED <<pit, backend, events, pair>>
    BY <1>8 DEF Accepted
  <2> QED
    BY <2>1, ReadPort
<1> QED
  BY <1>1, <1>2, <1>3, <1>4, <1>5, <1>6, <1>7, <1>8

\* A guest takes its next access, or waits.
LEMMA InstructionKeeps ==
    ASSUME SerialAssumption, SerialInv, Instruction
    PROVE  SerialInv'
<1> DEFINE rest == program.rest
           waits == rest # <<>> /\ Head(rest).port = "wait"
           goes == /\ rest # <<>>
                   /\ waits => ~device.present \/ Shows(Head(rest).what)
<1>1. DeviceInv /\ program \in Programs /\ rest \in Seq(Op)
  BY DEF SerialInv, Programs
<1>2. /\ UNCHANGED <<device, now, files, host>> /\ device.started
      /\ program' = IF goes THEN [program EXCEPT !.rest = Tail(@)] ELSE program
      /\ IF goes /\ ~waits /\ device.present THEN Accepted(Head(rest))
         ELSE UNCHANGED <<pit, uart, backend, events, told, pair>>
  BY Zenon DEF Instruction
<1>3. program' \in Programs
  <2>1. CASE goes
    <3>1. Tail(rest) \in Seq(Op)
      BY <1>1, <2>1
    <3>2. program' = [program EXCEPT !.rest = Tail(rest)]
      BY <1>2, <2>1
    <3> QED
      BY <1>1, <3>1, <3>2 DEF Programs
  <2>2. CASE ~goes
    BY <1>1, <1>2, <2>2
  <2> QED
    BY <2>1, <2>2
<1>4. DeviceInv'
  <2>1. CASE goes /\ ~waits /\ device.present
    <3>1. Head(rest) \in Op
      BY <1>1, <2>1
    <3>2. Head(rest).port # "wait" /\ Accepted(Head(rest))
      BY <1>2, <2>1
    <3> QED
      BY <1>1, <1>2, <3>1, <3>2, AcceptedKeeps
  <2>2. CASE ~(goes /\ ~waits /\ device.present)
    <3>1. UNCHANGED <<pit, uart, backend, now, host, events, told, pair>>
      BY <1>2, <2>2
    <3> QED
      BY <1>1, <3>1 DEF DeviceInv, SerialTypes, State, ReceiverRuns, SenderRuns
  <2> QED
    BY <2>1, <2>2
<1> QED
  BY <1>2, <1>3, <1>4 DEF SerialInv

\* What polling leaves, of an interface whose terminal may be closed.
LEMMA PolledSound ==
    ASSUME SerialAssumption, DeviceInv, NEW d \in Int
    PROVE  LET moved == PollPty(backend, host)
               open == backend.present
               p == [State EXCEPT !.t = now + d,
                                  !.rx = IF open THEN moved.rx ELSE @,
                                  !.tx = IF open THEN moved.tx ELSE @,
                                  !.lost = @ \/ (open /\ moved.refused)]
               typed == IF open THEN moved.typed ELSE host.typed
               screen == IF open THEN moved.screen ELSE host.screen IN
           /\ p.u = uart
           /\ typed \in Seq(Nat) /\ screen \in Seq(Nat)
           /\ Len(screen) <= HostRoom
           /\ Sound(p, told.heard, typed, told.typed, told.shown \o screen,
                    told.said)
<1> DEFINE moved == PollPty(backend, host)
           open == backend.present
           b == open /\ moved.refused
           rx == IF open THEN moved.rx ELSE backend.rx
           tx == IF open THEN moved.tx ELSE backend.tx
           typed == IF open THEN moved.typed ELSE host.typed
           screen == IF open THEN moved.screen ELSE host.screen
           lost == State.lost \/ b
           q == [State EXCEPT !.t = now + d, !.rx = rx, !.tx = tx, !.lost = lost]
           p == [State EXCEPT !.t = now + d,
                              !.rx = IF open THEN moved.rx ELSE @,
                              !.tx = IF open THEN moved.tx ELSE @,
                              !.lost = @ \/ (open /\ moved.refused)]
<1>1. /\ SerialTypes /\ now \in Int /\ Len(host.screen) <= HostRoom
      /\ uart \in Uarts /\ backend.rx \in Seq(Nat) /\ backend.tx \in Seq(Nat)
      /\ backend.present \in BOOLEAN
      /\ Sound(State, told.heard, host.typed, told.typed,
               told.shown \o host.screen, told.said)
  BY DEF DeviceInv, SerialTypes, Backends
<1>2. /\ told.heard \in Seq(Nat) /\ host.typed \in Seq(Nat)
      /\ told.typed \in Nat /\ told.shown \in Seq(Nat)
      /\ host.screen \in Seq(Nat)
  BY <1>1, TaleTypes
<1>3. /\ State \in States /\ State.u = uart /\ State.rx = backend.rx
      /\ State.tx = backend.tx
  BY <1>1, StateType
<1>4. /\ In(State, told.heard, host.typed, told.typed)
      /\ Out(State, told.shown \o host.screen, told.said)
      /\ Flags(uart) /\ Len(backend.rx) <= RingSize - 1
      /\ Len(backend.tx) <= RingSize - 1
  BY <1>1, <1>3 DEF Sound
<1>5. /\ moved.rx \in Seq(Nat) /\ moved.tx \in Seq(Nat)
      /\ moved.typed \in Seq(Nat) /\ moved.screen \in Seq(Nat)
      /\ moved.refused \in BOOLEAN
      /\ Len(moved.rx) <= RingSize - 1 /\ Len(moved.tx) <= RingSize - 1
      /\ Len(moved.screen) <= HostRoom
      /\ moved.rx \o moved.typed = backend.rx \o host.typed
      /\ ~moved.refused => moved.screen \o moved.tx = host.screen \o backend.tx
  BY <1>1, <1>2, <1>4, PollKeeps
<1>6. p = q
  BY <1>3, Zenon
<1> HIDE DEF p, moved
<1>7. /\ rx \in Seq(Nat) /\ tx \in Seq(Nat)
      /\ typed \in Seq(Nat) /\ screen \in Seq(Nat)
      /\ Len(rx) <= RingSize - 1 /\ Len(tx) <= RingSize - 1
      /\ Len(screen) <= HostRoom
      /\ rx \o typed = backend.rx \o host.typed
      /\ ~b => screen \o tx = host.screen \o backend.tx
      /\ b \in BOOLEAN
  BY <1>1, <1>2, <1>4, <1>5, Zenon
<1>8. now + d \in Int /\ lost \in BOOLEAN
  BY <1>1
<1> HIDE DEF rx, tx, typed, screen, b
<1>9. (State.lost => lost) /\ (b => lost)
  BY <1>3, <1>7
<1> HIDE DEF lost
<1>10. /\ q \in States /\ q.u = uart /\ q.rx = rx /\ q.tx = tx
       /\ q.lost <=> lost
       /\ q.overrun <=> State.overrun
  BY <1>3, <1>7, <1>8 DEF States
<1> HIDE DEF q
<1>11. /\ Held(uart) \in Seq(Nat)
       /\ told.heard \o Held(uart) \in Seq(Nat)
  <2>1. Held(uart) \in Seq(Nat)
    <3>1. uart.recv_buf \in Nat
      BY <1>1 DEF Uarts
    <3> QED
      BY <3>1 DEF Held
  <2> QED
    BY ONLY <1>2, <2>1, ConcatProperties
<1>12. In(q, told.heard, typed, told.typed)
  <2> DEFINE h == told.heard \o Held(uart)
  <2>1. (h \o rx) \o typed = h \o (rx \o typed)
    BY <1>7, <1>11, Regroup, Zenon
  <2>2. (h \o backend.rx) \o host.typed = h \o (backend.rx \o host.typed)
    <3>1. backend.rx \in Seq(Nat) /\ host.typed \in Seq(Nat)
      BY <1>1, <1>2
    <3> QED
      BY <1>11, <3>1, Regroup, Zenon
  <2>3. (h \o rx) \o typed = (h \o backend.rx) \o host.typed
    BY <1>7, <2>1, <2>2, Zenon
  <2> HIDE DEF h
  <2> QED
    BY <1>3, <1>4, <1>9, <1>10, <2>3 DEF In, h
<1>13. Out(q, told.shown \o screen, told.said)
  <2>1. (told.shown \o screen) \o tx = told.shown \o (screen \o tx)
    BY <1>2, <1>7, Regroup, Zenon
  <2>2. (told.shown \o host.screen) \o backend.tx
        = told.shown \o (host.screen \o backend.tx)
    <3>1. /\ told.shown \in Seq(Nat) /\ host.screen \in Seq(Nat)
          /\ backend.tx \in Seq(Nat)
      BY <1>1, <1>2
    <3> QED
      BY <3>1, Regroup, Zenon
  <2>3. ~b => (told.shown \o screen) \o tx
              = (told.shown \o host.screen) \o backend.tx
    BY <1>7, <2>1, <2>2, Zenon
  <2> DEFINE new == (told.shown \o screen) \o tx
             old == (told.shown \o host.screen) \o backend.tx
  <2> HIDE DEF new, old
  <2>4. ~b => new = old
    BY <2>3 DEF new, old
  <2> QED
    BY <1>3, <1>4, <1>9, <1>10, <2>4 DEF Out, new, old
<1>14. Sound(q, told.heard, typed, told.typed, told.shown \o screen, told.said)
  BY <1>4, <1>7, <1>10, <1>12, <1>13 DEF Sound
<1> QED
  BY <1>6, <1>7, <1>10, <1>14 DEF p, moved, typed, screen

LEMMA AdvanceInterface ==
    ASSUME SerialAssumption, SerialInv, Advance
    PROVE  SerialInv'
<1>1. /\ DeviceInv /\ SerialTypes /\ program \in Programs
      /\ UNCHANGED <<pit, device, files, program, told, pair>>
      /\ now \in Int /\ told \in Tales
      /\ ReceiverRuns(uart) /\ SenderRuns(uart)
  BY DEF SerialInv, DeviceInv, SerialTypes, Advance
<1>2. CASE ~device.present
  <2>1. UNCHANGED <<uart, backend, now, host, events>>
    BY <1>2 DEF Advance
  <2>2. DeviceInv'
    BY <1>1, <2>1 DEF DeviceInv, SerialTypes, State, ReceiverRuns, SenderRuns
  <2> QED
    BY <1>1, <2>1, <2>2 DEF SerialInv
<1>3. CASE device.present
  <2> DEFINE moved == PollPty(backend, host)
             Polled(d) ==
                 [State EXCEPT !.t = now + d,
                               !.rx = IF backend.present THEN moved.rx ELSE @,
                               !.tx = IF backend.present THEN moved.tx ELSE @,
                               !.lost = @ \/ (backend.present /\ moved.refused)]
             typed == IF backend.present THEN moved.typed ELSE host.typed
             screen == IF backend.present THEN moved.screen ELSE host.screen
             Given(s) == IF s.u.rxe /\ s.u.recv_ready THEN Signal(s) ELSE s
  <2>1. PICK d \in program.pace :
            /\ now' = now + d
            /\ Becomes(UartAdvance(Given(Polled(d))))
            /\ host' = IF backend.present
                       THEN [host EXCEPT !.typed = moved.typed,
                                         !.screen = moved.screen]
                       ELSE host
    BY <1>3, Zenon DEF Advance
  <2> DEFINE s == Polled(d)
             g == Given(s)
             r == UartAdvance(g)
             heard == told.heard
             n == told.typed
             said == told.said
             out == told.shown \o screen
  <2>2. d \in Int
    BY <1>1 DEF Programs
  <2>3. /\ s.u = uart
        /\ typed \in Seq(Nat) /\ screen \in Seq(Nat) /\ Len(screen) <= HostRoom
        /\ Sound(s, heard, typed, n, out, said)
    BY <1>1, <2>2, PolledSound
  <2>4. /\ heard \in Seq(Nat) /\ n \in Nat /\ told.shown \in Seq(Nat)
        /\ host \in Hosts
    BY <1>1, TaleTypes DEF SerialTypes
  <2>5. host' \in Hosts /\ host'.typed = typed /\ host'.screen = screen
    <3> HIDE DEF moved
    <3>1. CASE backend.present
      BY <2>1, <2>3, <2>4, <3>1 DEF Hosts
    <3>2. CASE ~backend.present
      BY <2>1, <2>4, <3>2
    <3> QED
      BY <3>1, <3>2
  <2>6. Becomes(r)
    BY <2>1
  <2> HIDE DEF s, typed, screen
  <2>7. out \in Seq(Nat)
    BY ONLY <2>3, <2>4, ConcatProperties
  <2> HIDE DEF heard, n, said, out, Given
  <2>8. /\ Sound(g, heard, typed, n, out, said)
        /\ ReceiverRuns(g.u) /\ SenderRuns(g.u)
    <3>1. ReceiverRuns(s.u) /\ SenderRuns(s.u)
      BY <1>1, <2>3
    <3>2. CASE s.u.rxe /\ s.u.recv_ready
      <4>1. g = Signal(s)
        BY <3>2 DEF Given
      <4>2. LET q == Signal(s) IN
            /\ Sound(q, heard, typed, n, out, said)
            /\ SameSender(s.u, q.u)
            /\ s.u.stood => q.u.stood
            /\ q.u.rxe <=> s.u.rxe
            /\ ReceiverRuns(s.u) => ReceiverRuns(q.u)
        BY <2>3, <2>4, <2>7, SignalKeeps
      <4> QED
        BY <3>1, <4>1, <4>2 DEF SenderRuns, SameSender
    <3>3. CASE ~(s.u.rxe /\ s.u.recv_ready)
      <4>1. g = s
        BY <3>3 DEF Given
      <4> QED
        BY <2>3, <3>1, <4>1
    <3> QED
      BY <3>2, <3>3
  <2> HIDE DEF g
  <2>9. /\ Sound(r, heard, typed, n, out, said)
        /\ ReceiverRuns(r.u) /\ SenderRuns(r.u)
    BY <2>3, <2>4, <2>7, <2>8, UartAdvanceKeeps
  <2> HIDE DEF r
  <2>10. r \in States
    BY <2>9 DEF Sound
  <2>11. now' \in Int
    BY <1>1, <2>1, <2>2
  <2>12. told' \in Tales
    BY <1>1
  <2>13. Sound(r, told'.heard, host'.typed, told'.typed,
               told'.shown \o host'.screen, told'.said)
    BY <1>1, <2>5, <2>9 DEF heard, n, said, out
  <2>14. DeviceInv'
    BY <1>1, <2>3, <2>5, <2>6, <2>9, <2>10, <2>11, <2>12, <2>13, Settled
  <2> QED
    BY <1>1, <1>3, <2>14 DEF SerialInv
<1> QED
  BY <1>2, <1>3

\* A reset of the machine drops what the USART holds, and what was latched.
LEMMA ResetKeeps ==
    ASSUME SerialAssumption, SerialInv, SerialReset
    PROVE  SerialInv'
<1> DEFINE s == [State EXCEPT !.lost = TRUE]
           r == UartReset(s)
           out == told.shown \o host.screen
<1>1. /\ DeviceInv /\ SerialTypes /\ program \in Programs /\ now \in Int
      /\ device.started /\ program.switches > 0
      /\ Becomes(r)
      /\ pit' = [ch \in Channels |-> CounterReset(pit[ch], now)]
      /\ pair' = [ch \in Channels |-> NoPair]
      /\ program' = [program EXCEPT !.switches = @ - 1]
      /\ UNCHANGED <<device, now, files, idle, host, told>>
      /\ pit \in [Channels -> Counters]
  BY DEF SerialInv, DeviceInv, SerialTypes, SerialReset
<1>2. program' \in Programs
  BY <1>1 DEF Programs
<1>3. /\ State \in States /\ State.u = uart /\ State.rx = backend.rx
      /\ State.tx = backend.tx
  BY <1>1, StateType
<1>4. /\ s \in States /\ s.lost /\ s.rx = backend.rx /\ s.tx = backend.tx
  BY <1>3 DEF States
<1>5. Len(s.rx) <= RingSize - 1 /\ Len(s.tx) <= RingSize - 1
  BY <1>1, <1>3, <1>4 DEF DeviceInv, Sound
<1>6. /\ told.heard \in Seq(Nat) /\ host.typed \in Seq(Nat)
      /\ told.typed \in Nat /\ out \in Seq(Nat)
  BY <1>1, TaleTypes
<1> HIDE DEF s
<1>7. /\ Sound(r, told.heard, host.typed, told.typed, out, told.said)
      /\ ReceiverRuns(r.u) /\ SenderRuns(r.u)
  <2> HIDE DEF out
  <2> QED
    BY <1>4, <1>5, <1>6, UartResetKeeps
<1> HIDE DEF r
<1>8. r \in States
  BY <1>7 DEF Sound
<1>9. /\ uart' = r.u /\ uart' \in Uarts
      /\ backend' \in Backends
      /\ events' \in [lost : BOOLEAN, overrun : BOOLEAN]
      /\ Sound(State', told.heard, host.typed, told.typed, out, told.said)
  BY <1>1, <1>7, <1>8, BecomesDoes
<1>10. ASSUME NEW ch \in Channels
       PROVE  pit'[ch] \in Counters /\ PairGood(pair'[ch], pit'[ch])
              /\ pair'[ch] \in Pairs
  <2>1. pit'[ch] = CounterReset(pit[ch], now) /\ pair'[ch] = NoPair
    BY <1>1
  <2>2. CounterReset(pit[ch], now) \in Counters
    BY <1>1, ResetKeepsType
  <2>3. PairGood(NoPair, pit'[ch])
    BY <2>1, <2>2, NoPairGood
  <2> QED
    BY <2>1, <2>2, <2>3 DEF PairGood
<1>11. SerialTypes'
  <2>1. pit' \in [Channels -> Counters] /\ pair' \in [Channels -> Pairs]
    BY <1>1, <1>10
  <2> QED
    BY <1>1, <1>9, <2>1 DEF SerialTypes
<1>12. ReceiverRuns(uart)' /\ SenderRuns(uart)'
  BY <1>7, <1>9 DEF ReceiverRuns, SenderRuns
<1>13. DeviceInv'
  BY <1>1, <1>9, <1>10, <1>11, <1>12 DEF DeviceInv
<1> QED
  BY <1>1, <1>2, <1>13 DEF SerialInv

LEMMA BackendType ==
    \A present \in BOOLEAN, d \in Int :
        LET b == [present |-> present, master |-> d, rx |-> <<>>, tx |-> <<>>] IN
        b \in Backends /\ b.rx = <<>> /\ b.tx = <<>>
<1>1. <<>> \in Seq(Nat)
  OBVIOUS
<1> QED
  BY <1>1 DEF Backends

\* A switched interface has new rings or, switched off, the ones it had.
LEMMA SetEnabledDoes ==
    ASSUME backend \in Backends, NEW enabled \in BOOLEAN, SerialSetEnabled(enabled)
    PROVE  /\ backend' \in Backends
           /\ device' \in [present : BOOLEAN, active : BOOLEAN, started : BOOLEAN]
           /\ device'.started
           /\ \/ backend'.rx = <<>> /\ backend'.tx = <<>>
              \/ backend'.rx = backend.rx /\ backend'.tx = backend.tx
<1>1. CASE Opens
  <2>1. LowestFree \in Int
    <3> DEFINE free == Descriptors \ files
    <3>1. free # {} /\ free \subseteq {0, 3, 4}
      BY <1>1 DEF Opens, Descriptors, Stdin
    <3> HIDE DEF free
    <3>2. \E d \in free : \A e \in free : d <= e
      <4>1. CASE 0 \in free
        BY <3>1, <4>1
      <4>2. CASE 0 \notin free /\ 3 \in free
        BY <3>1, <4>2
      <4>3. CASE 0 \notin free /\ 3 \notin free
        <5>1. free = {4}
          BY <3>1, <4>3
        <5> QED
          BY <5>1
      <4> QED
        BY <4>1, <4>2, <4>3
    <3>3. LowestFree \in free
      BY <3>2, Zenon DEF LowestFree, free
    <3> QED
      BY <3>1, <3>3
  <2> DEFINE d == LowestFree
  <2>2. /\ backend' = [NewBackend EXCEPT !.master = d]
        /\ device' = [present |-> TRUE, active |-> TRUE, started |-> TRUE]
    BY <1>1, Zenon DEF Opens
  <2> HIDE DEF d
  <2>3. d \in Int
    BY <2>1 DEF d
  <2>4. /\ backend' \in Backends
        /\ backend'.rx = <<>> /\ backend'.tx = <<>>
    <3>1. backend' = [present |-> TRUE, master |-> d, rx |-> <<>>, tx |-> <<>>]
      BY <2>2 DEF NewBackend
    <3> QED
      BY <2>3, <3>1, BackendType
  <2> QED
    BY <2>2, <2>4
<1>2. CASE OpenFails
  <2>1. /\ backend' = [NewBackend EXCEPT !.present = FALSE]
        /\ device' = [present |-> TRUE, active |-> FALSE, started |-> TRUE]
    BY <1>2 DEF OpenFails
  <2>2. /\ backend' \in Backends
        /\ backend'.rx = <<>> /\ backend'.tx = <<>>
    <3> DEFINE closed == -1
    <3>1. backend' = [present |-> FALSE, master |-> closed, rx |-> <<>>,
                      tx |-> <<>>]
      BY <2>1 DEF NewBackend
    <3>2. closed \in Int
      OBVIOUS
    <3> HIDE DEF closed
    <3> QED
      BY <3>1, <3>2, BackendType
  <2> QED
    BY <2>1, <2>2
<1>3. CASE Shutdown
  <2>1. /\ backend' = [backend EXCEPT !.present = FALSE, !.master = -1]
        /\ device' = [present |-> FALSE, active |-> FALSE, started |-> TRUE]
    BY <1>3 DEF Shutdown
  <2>2. /\ backend' \in Backends
        /\ backend'.rx = backend.rx /\ backend'.tx = backend.tx
    <3> DEFINE closed == -1
    <3>2. backend' = [backend EXCEPT !.present = FALSE, !.master = closed]
      BY <2>1
    <3>3. closed \in Int
      OBVIOUS
    <3> HIDE DEF closed
    <3> QED
      BY <3>2, <3>3 DEF Backends
  <2> QED
    BY <2>1, <2>2
<1> QED
  BY <1>1, <1>2, <1>3 DEF SerialSetEnabled

LEMMA StartKeeps ==
    ASSUME SerialAssumption, SerialInv, Start
    PROVE  SerialInv'
<1>1. /\ DeviceInv /\ SerialTypes /\ ~device.started /\ program \in Programs
      /\ backend \in Backends /\ backend.rx = <<>> /\ backend.tx = <<>>
      /\ UNCHANGED <<pit, uart, now, program, idle, host, told, events, pair>>
  BY DEF SerialInv, DeviceInv, SerialTypes, Start
<1>2. PICK enabled \in BOOLEAN : SerialSetEnabled(enabled)
  BY DEF Start
<1>3. /\ backend' \in Backends
      /\ device' \in [present : BOOLEAN, active : BOOLEAN, started : BOOLEAN]
      /\ device'.started /\ backend'.rx = backend.rx /\ backend'.tx = backend.tx
  BY <1>1, <1>2, SetEnabledDoes
<1>4. State' = State
  BY <1>1, <1>3 DEF State
<1>5. SerialTypes'
  BY <1>1, <1>3 DEF SerialTypes
<1>6. DeviceInv'
  BY <1>1, <1>4, <1>5 DEF DeviceInv, ReceiverRuns, SenderRuns
<1> QED
  BY <1>1, <1>3, <1>6 DEF SerialInv

\* A switch loses what is on the way: from then on nothing is promised of it.
LEMMA SwitchKeeps ==
    ASSUME SerialAssumption, SerialInv, Switch
    PROVE  SerialInv'
<1>1. /\ DeviceInv /\ SerialTypes /\ program \in Programs
      /\ backend \in Backends /\ program.switches > 0
      /\ events' = [events EXCEPT !.lost = TRUE]
      /\ host' = [typed |-> <<>>, screen |-> <<>>]
      /\ program' = [program EXCEPT !.switches = @ - 1]
      /\ UNCHANGED <<pit, uart, now, idle, told, pair>>
  BY DEF SerialInv, DeviceInv, SerialTypes, Switch
<1>2. PICK enabled \in BOOLEAN : SerialSetEnabled(enabled)
  BY DEF Switch
<1>3. /\ backend' \in Backends
      /\ device' \in [present : BOOLEAN, active : BOOLEAN, started : BOOLEAN]
      /\ device'.started
      /\ \/ backend'.rx = <<>> /\ backend'.tx = <<>>
         \/ backend'.rx = backend.rx /\ backend'.tx = backend.tx
  BY <1>1, <1>2, SetEnabledDoes
<1>4. program' \in Programs
  BY <1>1 DEF Programs
<1>5. /\ events' \in [lost : BOOLEAN, overrun : BOOLEAN] /\ events'.lost
      /\ host' \in Hosts /\ Len(host'.screen) <= HostRoom
  <2>1. /\ events' \in [lost : BOOLEAN, overrun : BOOLEAN] /\ events'.lost
    BY <1>1 DEF SerialTypes
  <2>2. /\ host'.typed = <<>> /\ host'.screen = <<>> /\ host' \in Hosts
    <3>1. <<>> \in Seq(Nat)
      OBVIOUS
    <3> QED
      BY <1>1, <3>1 DEF Hosts
  <2>3. Len(host'.screen) <= HostRoom
    <3>1. Len(host'.screen) = 0
      BY <2>2
    <3> QED
      BY <3>1 DEF SerialAssumption
  <2> QED
    BY <2>1, <2>2, <2>3
<1>6. SerialTypes'
  BY <1>1, <1>3, <1>5 DEF SerialTypes
<1>7. /\ State.u = uart /\ State.rx = backend.rx /\ State.tx = backend.tx
  BY <1>1, StateType
<1>8. /\ Flags(uart)
      /\ Len(backend.rx) <= RingSize - 1 /\ Len(backend.tx) <= RingSize - 1
  BY <1>1, <1>7 DEF DeviceInv, Sound
<1>9. /\ State' \in States /\ State'.u = uart' /\ State'.rx = backend'.rx
      /\ State'.tx = backend'.tx /\ State'.lost
  <2>1. /\ uart' \in Uarts /\ backend'.rx \in Seq(Nat)
        /\ backend'.tx \in Seq(Nat) /\ now' \in Int
        /\ events'.lost = TRUE /\ events'.overrun \in BOOLEAN
    BY <1>1, <1>3, <1>5, <1>6 DEF SerialTypes, Backends
  <2> QED
    BY <2>1 DEF State, States
<1>10. Len(backend'.rx) <= RingSize - 1 /\ Len(backend'.tx) <= RingSize - 1
  <2>1. Len(<<>>) <= RingSize - 1
    BY DEF SerialAssumption
  <2> QED
    BY <1>3, <1>8, <2>1
<1>11. Sound(State', told'.heard, host'.typed, told'.typed,
             told'.shown \o host'.screen, told'.said)
  BY <1>1, <1>8, <1>9, <1>10 DEF Sound, In, Out, Flags
<1>12. DeviceInv'
  BY <1>1, <1>5, <1>6, <1>11 DEF DeviceInv, ReceiverRuns, SenderRuns
<1> QED
  BY <1>3, <1>4, <1>12 DEF SerialInv

\* Somebody types the next character, in its number.
LEMMA Counted ==
    \A n \in Nat : Append([i \in 1..n |-> i], n + 1) = [i \in 1..(n + 1) |-> i]
<1> TAKE n \in Nat
<1> DEFINE f == [i \in 1..n |-> i]
           g == [i \in 1..(n + 1) |-> i]
           e == n + 1
<1>1. f \in Seq(Nat) /\ Len(f) = n /\ e \in Nat /\ g \in Seq(Nat) /\ Len(g) = e
  OBVIOUS
<1>2. /\ \A i \in 1..n : f[i] = i
      /\ \A i \in 1..e : g[i] = i
  OBVIOUS
<1> HIDE DEF f, g
<1>3. /\ Append(f, e) \in Seq(Nat) /\ Len(Append(f, e)) = n + 1
      /\ \A i \in 1..n : Append(f, e)[i] = f[i]
      /\ Append(f, e)[n + 1] = e
  <2> HIDE DEF e
  <2> QED
    BY ONLY <1>1, AppendProperties
<1>4. \A i \in 1..e : Append(f, e)[i] = g[i]
  <2> TAKE i \in 1..e
  <2>1. i \in 1..n \/ i = n + 1
    OBVIOUS
  <2> QED
    BY <1>2, <1>3, <2>1
<1>5. Append(f, e) = g
  <2> DEFINE h == Append(f, e)
  <2>1. h \in Seq(Nat) /\ Len(h) = Len(g) /\ \A i \in 1..Len(h) : h[i] = g[i]
    BY <1>1, <1>3, <1>4
  <2> HIDE DEF h
  <2>2. h = g
    BY ONLY <1>1, <2>1, SeqEqual
  <2> QED
    BY <2>2 DEF h
<1> QED
  BY <1>5 DEF f, g

LEMMA HostTypesKeeps ==
    ASSUME SerialAssumption, SerialInv, HostTypes
    PROVE  SerialInv'
<1> DEFINE n == told.typed
           e == n + 1
           typed == Append(host.typed, e)
           x == told.heard \o Held(uart) \o backend.rx
<1>1. /\ DeviceInv /\ SerialTypes /\ program \in Programs /\ program.types > 0
      /\ program' = [program EXCEPT !.types = @ - 1]
      /\ told' = [told EXCEPT !.typed = e]
      /\ host' = [host EXCEPT !.typed = typed]
      /\ UNCHANGED <<pit, uart, device, backend, now, files, idle, events, pair>>
      /\ told \in Tales /\ host \in Hosts /\ uart \in Uarts
      /\ backend.rx \in Seq(Nat) /\ Len(host.screen) <= HostRoom
  BY DEF SerialInv, DeviceInv, SerialTypes, HostTypes, Backends
<1>2. /\ told.heard \in Seq(Nat) /\ host.typed \in Seq(Nat) /\ n \in Nat
      /\ e \in Nat
  <2>1. /\ told.heard \in Seq(Nat) /\ host.typed \in Seq(Nat)
        /\ told.typed \in Nat
    BY <1>1, TaleTypes
  <2> QED
    BY <2>1
<1>3. program' \in Programs
  <2>1. /\ program \in Programs /\ program.types > 0
        /\ program' = [program EXCEPT !.types = @ - 1]
    BY <1>1
  <2> QED
    BY ONLY <2>1 DEF Programs
<1>4. typed = host.typed \o <<e>> /\ typed \in Seq(Nat)
  <2> DEFINE q == host.typed
  <2> HIDE DEF q, e
  <2>1. Append(q, e) = q \o <<e>> /\ Append(q, e) \in Seq(Nat)
    <3>1. q \in Seq(Nat) /\ e \in Nat
      BY <1>2 DEF q
    <3>2. Append(q, e) = q \o <<e>>
      BY ONLY <3>1, AppendIsConcat
    <3>3. Append(q, e) \in Seq(Nat)
      BY ONLY <3>1, AppendProperties
    <3> QED
      BY <3>2, <3>3
  <2> QED
    BY <2>1 DEF q
<1> HIDE DEF typed, e
<1>5. /\ host' \in Hosts /\ host'.typed = typed /\ host'.screen = host.screen
  BY <1>1, <1>4 DEF Hosts
<1>6. /\ told' \in Tales /\ told'.heard = told.heard /\ told'.typed = e
      /\ told'.shown = told.shown /\ told'.said = told.said
  BY <1>1, <1>2 DEF Tales
<1>7. /\ State.u = uart /\ State.rx = backend.rx
      /\ Sound(State, told.heard, host.typed, n, told.shown \o host.screen,
               told.said)
  <2>1. State.u = uart /\ State.rx = backend.rx
    BY <1>1, StateType
  <2>2. Sound(State, told.heard, host.typed, n, told.shown \o host.screen,
              told.said)
    BY <1>1 DEF DeviceInv
  <2> QED
    BY <2>1, <2>2
<1>8. In(State, told.heard, typed, e)
  <2>1. ASSUME ~State.lost, ~State.overrun
        PROVE  x \o typed = [i \in 1..e |-> i]
    <3>1. x \o host.typed = [i \in 1..n |-> i]
      BY <1>7, <2>1 DEF Sound, In
    <3>2. x \in Seq(Nat)
      <4>1. Held(uart) \in Seq(Nat)
        <5>1. uart.recv_buf \in Nat
          BY <1>1 DEF Uarts
        <5> QED
          BY <5>1 DEF Held
      <4>2. told.heard \o Held(uart) \in Seq(Nat)
        BY ONLY <1>2, <4>1, ConcatProperties
      <4>3. backend.rx \in Seq(Nat)
        BY <1>1
      <4> QED
        BY ONLY <4>2, <4>3, ConcatProperties
    <3> DEFINE q == host.typed
               one == <<e>>
    <3> HIDE DEF x, q
    <3>3. q \in Seq(Nat) /\ one \in Seq(Nat)
      BY <1>2 DEF q
    <3> HIDE DEF one
    <3>4. (x \o q) \o one = x \o (q \o one)
      BY <3>2, <3>3, Regroup, Zenon
    <3>5. x \o q \in Seq(Nat)
      BY ONLY <3>2, <3>3, ConcatProperties
    <3>6. (x \o q) \o one = Append(x \o q, e)
      <4> DEFINE y == x \o q
      <4>1. y \in Seq(Nat) /\ e \in Nat
        BY <1>2, <3>5
      <4> HIDE DEF y
      <4>2. Append(y, e) = y \o <<e>>
        BY ONLY <4>1, AppendIsConcat
      <4> QED
        BY <4>2 DEF y, one
    <3>7. Append([i \in 1..n |-> i], n + 1) = [i \in 1..(n + 1) |-> i]
      BY <1>2, Counted
    <3>8. x \o typed = Append(x \o q, e)
      BY <1>4, <3>4, <3>6, Zenon DEF q, one
    <3> QED
      BY <3>1, <3>7, <3>8, Zenon DEF q, e
  <2> QED
    BY <1>7, <2>1 DEF In, x
<1>9. Sound(State, told.heard, typed, e, told.shown \o host.screen, told.said)
  BY <1>7, <1>8 DEF Sound
<1>10. State' = State
  BY <1>1 DEF State
<1>11. SerialTypes'
  BY <1>1, <1>5, <1>6 DEF SerialTypes
<1>12. DeviceInv'
  BY <1>1, <1>5, <1>6, <1>9, <1>10, <1>11
     DEF DeviceInv, ReceiverRuns, SenderRuns
<1> QED
  BY <1>1, <1>3, <1>12 DEF SerialInv

LEMMA HostReadsKeeps ==
    ASSUME SerialAssumption, SerialInv, HostReads
    PROVE  SerialInv'
<1> DEFINE shown == told.shown \o host.screen
<1>1. /\ DeviceInv /\ SerialTypes /\ program \in Programs
      /\ told' = [told EXCEPT !.shown = shown]
      /\ host' = [host EXCEPT !.screen = <<>>]
      /\ UNCHANGED <<pit, uart, device, backend, now, files, program, idle,
                     events, pair>>
      /\ told \in Tales /\ host \in Hosts
  BY DEF SerialInv, DeviceInv, SerialTypes, HostReads
<1>2. shown \in Seq(Nat)
  BY <1>1, TaleTypes
<1>3. shown \o <<>> = shown
  <2> HIDE DEF shown
  <2> QED
    BY ONLY <1>2, ConcatEmptySeq
<1>4. Sound(State, told.heard, host.typed, told.typed, shown, told.said)
  BY <1>1 DEF DeviceInv
<1> HIDE DEF shown
<1>5. <<>> \in Seq(Nat)
  OBVIOUS
<1>6. /\ host' \in Hosts /\ host'.typed = host.typed /\ host'.screen = <<>>
  BY <1>1, <1>5 DEF Hosts
<1>7. /\ told' \in Tales /\ told'.heard = told.heard /\ told'.typed = told.typed
      /\ told'.shown = shown /\ told'.said = told.said
  BY <1>1, <1>2 DEF Tales
<1>8. State' = State
  BY <1>1 DEF State
<1>9. SerialTypes'
  BY <1>1, <1>6, <1>7 DEF SerialTypes
<1>10. Len(host'.screen) <= HostRoom
  <2>1. Len(host'.screen) = 0
    BY <1>6
  <2> QED
    BY <2>1 DEF SerialAssumption
<1>11. Sound(State', told'.heard, host'.typed, told'.typed,
             told'.shown \o host'.screen, told'.said)
  BY <1>3, <1>4, <1>6, <1>7, <1>8, Zenon
<1>12. DeviceInv'
  BY <1>1, <1>9, <1>10, <1>11 DEF DeviceInv, ReceiverRuns, SenderRuns
<1> QED
  BY <1>1, <1>12 DEF SerialInv

---------------------------------------------------------------------------
(* The specification.                                                      *)

LEMMA InitHolds ==
    ASSUME SerialAssumption, SerialInit
    PROVE  SerialInv
<1>1. /\ program \in Guests
      /\ pit = [ch \in Channels |-> Counter] /\ uart = NewUart
      /\ now = 0 /\ device = [present |-> FALSE, active |-> FALSE,
                              started |-> FALSE]
      /\ backend = ZeroBackend
      /\ host = [typed |-> <<>>, screen |-> <<>>]
      /\ told = [heard |-> <<>>, said |-> <<>>, shown |-> <<>>, next |-> 1,
                 typed |-> 0]
      /\ events = [lost |-> FALSE, overrun |-> FALSE]
      /\ pair = [ch \in Channels |-> NoPair]
  BY DEF SerialInit
<1>2. <<>> \in Seq(Nat) /\ Len(<<>>) = 0 /\ <<>> \o <<>> = <<>>
  OBVIOUS
<1>3. program \in Programs
  BY <1>1 DEF SerialAssumption, Programs
<1>4. /\ uart \in Uarts /\ uart.txempty /\ uart.txrdy /\ ~uart.rxrdy /\ ~uart.rxe
  <2>1. NewClock \in Clocks
    BY DEF NewClock, Clocks
  <2> QED
    BY <1>1, <2>1 DEF NewUart, Uarts
<1>5. Counter \in Counters
  <2>1. NewClock \in Clocks
    BY DEF NewClock, Clocks
  <2> QED
    BY <2>1 DEF Counter, Counters, Format, TimerMode, Statuses
<1>6. PairGood(NoPair, Counter) /\ NoPair \in Pairs
  BY <1>5, NoPairGood DEF PairGood
<1>7. backend \in Backends /\ backend.rx = <<>> /\ backend.tx = <<>>
  BY <1>1, <1>2 DEF ZeroBackend, Backends
<1>8. /\ host \in Hosts /\ host.typed = <<>> /\ host.screen = <<>>
      /\ told \in Tales /\ told.heard = <<>> /\ told.said = <<>>
      /\ told.shown = <<>> /\ told.typed = 0
      /\ events \in [lost : BOOLEAN, overrun : BOOLEAN]
      /\ ~events.lost /\ ~events.overrun
  BY <1>1, <1>2 DEF Hosts, Tales
<1>9. pit \in [Channels -> Counters] /\ pair \in [Channels -> Pairs]
      /\ \A ch \in Channels : PairGood(pair[ch], pit[ch])
  BY <1>1, <1>5, <1>6
<1>10. SerialTypes
  BY <1>1, <1>4, <1>7, <1>8, <1>9 DEF SerialTypes
<1>11. /\ State \in States /\ State.u = uart /\ State.rx = <<>>
       /\ State.tx = <<>>
  BY <1>7, <1>10, StateType
<1>12. Held(uart) = <<>> /\ Sending(uart) = <<>> /\ Waiting(uart) = <<>>
       /\ Flags(uart) /\ ReceiverRuns(uart) /\ SenderRuns(uart)
  BY <1>4 DEF Held, Sending, Waiting, Flags, ReceiverRuns, SenderRuns
<1>13. [i \in 1..0 |-> i] = <<>>
  OBVIOUS
<1>14. Sound(State, told.heard, host.typed, told.typed,
             told.shown \o host.screen, told.said)
  <2>1. In(State, told.heard, host.typed, told.typed)
    BY <1>2, <1>8, <1>11, <1>12, <1>13 DEF In
  <2>2. Out(State, told.shown \o host.screen, told.said)
    BY <1>2, <1>8, <1>11, <1>12 DEF Out
  <2>3. 0 <= RingSize - 1
    BY DEF SerialAssumption
  <2> QED
    BY <1>2, <1>11, <1>12, <2>1, <2>2, <2>3 DEF Sound
<1>15. Len(host.screen) <= HostRoom
  BY <1>2, <1>8 DEF SerialAssumption
<1>16. DeviceInv
  BY <1>9, <1>10, <1>12, <1>14, <1>15 DEF DeviceInv
<1> QED
  BY <1>1, <1>3, <1>7, <1>16 DEF SerialInv

LEMMA StepKeeps ==
    ASSUME SerialAssumption, SerialInv, [SerialNext]_serialvars
    PROVE  SerialInv'
<1>1. CASE Start
  BY <1>1, StartKeeps
<1>2. CASE Instruction
  BY <1>2, InstructionKeeps
<1>3. CASE Advance
  BY <1>3, AdvanceInterface
<1>4. CASE SerialReset
  BY <1>4, ResetKeeps
<1>5. CASE Switch
  BY <1>5, SwitchKeeps
<1>6. CASE HostTypes
  BY <1>6, HostTypesKeeps
<1>7. CASE HostReads
  BY <1>7, HostReadsKeeps
<1>8. CASE UNCHANGED serialvars
  BY <1>8 DEF serialvars, SerialInv, DeviceInv, SerialTypes, State, ReceiverRuns,
              SenderRuns
<1> QED
  BY <1>1, <1>2, <1>3, <1>4, <1>5, <1>6, <1>7, <1>8 DEF SerialNext

\* Whatever guest, host and overlay do, the invariant of the interface holds.
THEOREM SerialInvariant == SerialAssumption => (SerialSpec => []SerialInv)
<1> SUFFICES ASSUME SerialAssumption
             PROVE  SerialSpec => []SerialInv
  OBVIOUS
<1>1. SerialInit => SerialInv
  BY InitHolds
<1>2. SerialInv /\ [SerialNext]_serialvars => SerialInv'
  BY StepKeeps
<1> QED
  BY <1>1, <1>2, PTL DEF SerialSpec

\* What is typed on the host is heard by the guest, and what the guest says
\* is shown on the host, each character once and in its order, unless
\* something happened that must lose characters (rs232.c, serial_8251.c).
THEOREM CharactersInOrder == SerialAssumption => (SerialSpec => []SerialInOrder)
<1> SUFFICES ASSUME SerialAssumption
             PROVE  SerialSpec => []SerialInOrder
  OBVIOUS
<1>1. SerialInv => SerialInOrder
  <2> SUFFICES ASSUME SerialInv
               PROVE  SerialInOrder
    OBVIOUS
  <2>1. /\ State.u = uart /\ State.rx = backend.rx /\ State.tx = backend.tx
        /\ State.lost = events.lost /\ State.overrun = events.overrun
    BY StateType DEF SerialInv, DeviceInv
  <2>2. /\ In(State, told.heard, host.typed, told.typed)
        /\ Out(State, told.shown \o host.screen, told.said)
    BY DEF SerialInv, DeviceInv, Sound
  <2> QED
    BY <2>1, <2>2 DEF SerialInOrder, In, Out, Held, Sending, Waiting
<1> QED
  BY <1>1, SerialInvariant, PTL

\* Neither direction of the USART comes to rest with its work undone, through
\* every command, reset and mode (serial_8251.c).
THEOREM NeitherStuck == SerialAssumption => (SerialSpec => []NeverStuck)
<1> SUFFICES ASSUME SerialAssumption
             PROVE  SerialSpec => []NeverStuck
  OBVIOUS
<1>1. SerialInv => NeverStuck
  BY DEF SerialInv, DeviceInv, ReceiverRuns, SenderRuns, NeverStuck
<1> QED
  BY <1>1, SerialInvariant, PTL

\* The bytes that are read of a latched count are the halves of that count,
\* whatever the guest asks of the counters meanwhile (8254 of rs232_dev.c).
THEOREM CountsWhole == SerialAssumption => (SerialSpec => []LatchedCountWhole)
<1> SUFFICES ASSUME SerialAssumption
             PROVE  SerialSpec => []LatchedCountWhole
  OBVIOUS
<1>1. SerialInv => LatchedCountWhole
  BY DEF SerialInv, DeviceInv, PairGood, ReadWhole, LatchedCountWhole
<1> QED
  BY <1>1, SerialInvariant, PTL
===============================================================================
