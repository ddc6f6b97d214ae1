--------------------------- MODULE MCSerialGuests ---------------------------
(***************************************************************************)
(* Guests of the RS-232C interface that send, fetch and keep time, how     *)
(* many characters the host types meanwhile, and how often the overlay or  *)
(* a reset comes between.                                                  *)
(***************************************************************************)
EXTENDS Integers, Sequences

\* The accesses to the ports, see Serial.
WordOf(ch, format, mode) == [port |-> "word", ch |-> ch, format |-> format, mode |-> mode]
Word(ch, format, mode) == <<WordOf(ch, format, mode)>>
Load(ch, low, high) == <<[port |-> "timer", ch |-> ch, byte |-> low],
                         [port |-> "timer", ch |-> ch, byte |-> high]>>
Clock(ch, mode, n) == Word(ch, "both", mode) \o Load(ch, n % 4, n \div 4)
\* What a byte means as a mode and what it means as a command.
Byte == [port |-> "control", length |-> 1, single |-> FALSE, synchronous |-> FALSE,
         reset |-> FALSE, txen |-> FALSE, rxe |-> TRUE, rst_err |-> FALSE]
Mode(n, sync) == <<[Byte EXCEPT !.length = n, !.single = n = 1, !.synchronous = sync]>>
Command(tx, rx) == <<[Byte EXCEPT !.txen = tx, !.rxe = rx, !.rst_err = TRUE]>>
Again == <<[Byte EXCEPT !.reset = TRUE]>>
SyncByte == <<Byte>>
Send == <<[port |-> "data"]>>
Wait(what) == <<[port |-> "wait", what |-> what]>>
Fetch == Wait("rxrdy") \o <<[port |-> "read"]>>
Count(ch) == <<[port |-> "count", ch |-> ch]>>
Latch(ch) == Word(ch, "latch", "m0")
ReadBackOf(chs, count) == <<[port |-> "readback", channels |-> chs, count |-> count]>>

Boot == Clock(0, "m3", 1) \o Mode(1, FALSE) \o Command(TRUE, TRUE)

\* Programs that send and fetch, at one rate or another, in several modes.
Talkers == {Boot \o Fetch \o Fetch \o Fetch,
            Boot \o Send \o Wait("txrdy") \o Send \o Wait("txrdy") \o Send,
            Boot \o Send \o Send \o Send,
            Boot \o Fetch \o Send \o Wait("txempty") \o Send,
            Clock(1, "m2", 2) \o Mode(2, TRUE) \o SyncByte \o SyncByte \o Command(FALSE, TRUE)
               \o Fetch \o Command(TRUE, FALSE) \o Send \o Command(TRUE, TRUE) \o Fetch,
            Boot \o Fetch \o Again \o Mode(1, TRUE) \o SyncByte \o Command(TRUE, TRUE) \o Fetch,
            Mode(1, FALSE) \o Command(TRUE, TRUE) \o Send \o Clock(0, "m3", 1) \o Fetch,
            Boot \o Clock(1, "m3", 2) \o Fetch \o Clock(0, "m0", 1) \o Fetch \o Send}
\* Programs that read, latch and reload the counters.
Timers == {Clock(ch, mode, 5) \o doing :
             ch \in {2}, mode \in {"m0", "m1", "m2", "m3", "m4"},
             doing \in {Count(2) \o Latch(2) \o Count(2) \o Latch(2) \o Count(2),
                        ReadBackOf({1, 2}, TRUE) \o Count(2) \o Count(2) \o Latch(2) \o Count(2)
                          \o Load(2, 1, 0) \o Count(2),
                        Word(2, "high", "m2") \o <<[port |-> "timer", ch |-> 2, byte |-> 1]>> \o Latch(2) \o Count(2),
                        Word(2, "low", "m0") \o <<[port |-> "timer", ch |-> 2, byte |-> 1]>> \o Count(2) \o Wait("timer")}}

Scenario(rest, pace, types, switches) ==
    [rest |-> rest, pace |-> pace, types |-> types, switches |-> switches]

\* A guest that does nothing, with nobody at the other end.
Quiet == Scenario(<<>>, {1}, 0, 0)

SerialGuests == {Quiet}
    \cup {Scenario(g, {n}, 3, 0) : g \in Talkers, n \in {1, 3}}
    \cup {Scenario(g, {1, 3}, 1, 0) : g \in Talkers}
    \cup {Scenario(g, {2}, 1, 1) : g \in Talkers}
    \cup {Scenario(g, {1, 3}, 0, 0) : g \in Timers}
=============================================================================
