---------------------------- MODULE MCVdpGuests ----------------------------
(***************************************************************************)
(* Guests of the VDP that draw, transfer, search and scroll.               *)
(***************************************************************************)
EXTENDS Integers, Sequences, TLC

Registers(mode, ie0, ie1) ==
    (0 :> [ie1 |-> ie1, mode |-> mode]) @@
    (1 :> [bl |-> TRUE, ie0 |-> ie0, m1 |-> FALSE]) @@
    (2 :> 0) @@ (7 :> 1) @@ (8 :> [tp |-> FALSE, spd |-> FALSE]) @@
    (9 :> [ln |-> FALSE]) @@ (14 :> 0) @@ (15 :> 2) @@ (16 :> 0) @@
    (17 :> [reg |-> 32, hold |-> FALSE]) @@ (18 :> 0) @@ (19 :> 0) @@
    (23 :> 0) @@ (32 :> 0) @@ (34 :> 0) @@ (36 :> 0) @@ (38 :> 0) @@
    (40 :> 0) @@ (42 :> 0) @@ (44 :> 0) @@ (45 :> {}) @@
    (46 :> [code |-> "STOP"])
With(registers, changes) == changes @@ registers

Access_(name, n, v) == [port |-> name, value |-> <<n, v>>]
Select(how, n) == Access_("control", -1, [does |-> how, reg |-> n])
R(n, v) == <<Access_("control", n, v), Select("register", n)>>
Indirect(n, v) == Access_("indirect", n, v)
Seek(low, write) ==
    <<Access_("control", -2, low), Select(IF write THEN "write" ELSE "read", 0)>>
Data(v) == Access_("data", -2, v)
Get == Access_("read", -2, 0)
Status == Access_("status", -2, 0)
Wait(what) == Access_("wait", -3, what)
Paint(v) == <<Access_("palette", -2, v), Access_("palette", -2, v)>>
Op(code) == [code |-> code, operation |-> [fn |-> "imp", transparent |-> FALSE]]
OpT(code, fn) == [code |-> code, operation |-> [fn |-> fn, transparent |-> TRUE]]
Picture == <<1, 6, 11, 12, 2, 7, 8, 13>>

Guest(registers, doing) ==
    [type |-> "v9938", sprites |-> <<>>, vram |-> Picture, pace |-> {1, 2},
     registers |-> registers, program |-> doing]

Coordinates(p) == (32 :> p[1]) @@ (34 :> p[2]) @@ (36 :> p[3]) @@
                  (38 :> p[4]) @@ (40 :> p[5]) @@ (42 :> p[6])
Dark == 1 :> [bl |-> FALSE, ie0 |-> FALSE, m1 |-> FALSE]
At46 == 17 :> [reg |-> 46, hold |-> TRUE]
At44 == 17 :> [reg |-> 44, hold |-> TRUE]

\* Commands that run by themselves, both ways round, in narrow and wide,
\* plain and planar modes, on a dark screen.
Alone(code, mode, p, arg) ==
    Guest(With(Registers(mode, FALSE, FALSE),
               Coordinates(p) @@ Dark @@ At46 @@ (44 :> 9) @@ (45 :> arg)),
          <<Indirect(46, OpT(code, "xor"))>>)
Blocks == {Alone(code, mode, p, arg) :
             mode \in {"g5", "g7"}, code \in {"LMMV", "LMMM", "HMMV", "HMMM", "YMMM"},
             arg \in {{}, {"left", "up"}},
             p \in {<<1, 0, 6, 1, 4, 2>>, <<3, 2, 1, 1, 0, 0>>}}
Expansion == {Alone(code, "g5", <<1, 0, 6, 1, 4, 2>>, {"from_expansion"}) :
                 code \in {"HMMM", "YMMM"}}
Lines == {Alone("LINE", "g4", p, arg) :
             p \in {<<0, 0, 0, 1, 3, 2>>, <<0, 0, 2, 2, 3, 1>>, <<0, 0, 1, 0, 0, 0>>},
             arg \in {{}, {"left"}, {"up", "tall"}}}
Looks == {Alone(code, "g6", <<2, 1, 3, 0, 0, 0>>, arg) :
             code \in {"SRCH", "POINT", "PSET"},
             arg \in {{}, {"left", "unequal"}, {"from_expansion", "to_expansion"}}}

\* Transfers, by a guest that waits and by one that does not, from a first
\* byte given before or after the command.
Transfers ==
    {Guest(With(Registers("g5", FALSE, FALSE),
                Coordinates(<<0, 0, 2, 1, 4, 2>>) @@ Dark @@ At44 @@ (45 :> arg)),
           given \o R(46, OpT(code, "or")) \o rest) :
        code \in {"LMMC", "HMMC"}, arg \in {{}, {"left"}},
        given \in {<<>>, <<Indirect(44, 5)>>},
        rest \in {<<Indirect(44, 6), Indirect(44, 9), Indirect(44, 3)>>,
                  <<Wait("turn"), Indirect(44, 6), Wait("turn"), Indirect(44, 9),
                    Wait("turn"), Indirect(44, 3)>>}}
Readers ==
    {Guest(With(Registers("g4", FALSE, FALSE),
                Coordinates(<<1, 0, 0, 0, 1, 2>>) @@ Dark @@ At46 @@ (45 :> {})),
           <<Indirect(46, Op("LMCM"))>> \o R(15, 7) \o <<Status>> \o rest) :
        rest \in {<<Status>>, R(44, 2) \o <<Status>>,
                  R(15, 2) \o <<Wait("turn")>> \o R(15, 7) \o <<Status>>
                  \o R(15, 2) \o <<Wait("rest")>>}}

\* A command is replaced, or stopped, or outlives its mode.
Replaced ==
    {Guest(With(Registers("g4", FALSE, FALSE),
                Coordinates(<<1, 1, 0, 0, 3, 2>>) @@ Dark @@ At46 @@ (44 :> 2)),
           <<Indirect(46, Op(first))>> \o between \o <<Indirect(46, second)>>) :
        first \in {"LMMV", "LMMC", "LMCM"},
        second \in {Op("STOP"), Op("HMMM"), Op("LMMC")},
        between \in {<<>>, R(44, 1), R(0, [ie1 |-> FALSE, mode |-> "g1"])}}

\* The processor reads and writes VRAM while the engine copies it.
Racing ==
    {Guest(With(Registers("g6", FALSE, FALSE),
                Coordinates(<<0, 0, 2, 1, 6, 1>>) @@ At46),
           Seek(3, TRUE) \o <<Indirect(46, Op("HMMM")), Data(5), Data(10)>>)} \cup
    {Guest(With(Registers("g4", FALSE, FALSE), Coordinates(<<0, 0, 2, 1, 2, 1>>) @@ At46),
           <<Indirect(46, Op("HMMM"))>> \o Seek(3, FALSE) \o <<Get, Wait("rest")>>)}

\* Interrupts and the picture: the guest answers a line or a frame
\* interrupt by changing what is shown.
Raster ==
    {Guest(With(Registers("g4", TRUE, TRUE), (19 :> shape[1]) @@ (15 :> 1) @@ (9 :> [ln |-> shape[2]])),
           <<Wait("FH")>> \o change \o R(15, 0) \o <<Wait("F")>>) :
        shape \in {<<0, TRUE>>, <<2, FALSE>>},
        change \in {R(23, 1), R(7, 2), R(0, [ie1 |-> FALSE, mode |-> "g7"]),
                    R(19, 1) \o R(15, 1) \o <<Wait("FH")>>,
                    R(1, [bl |-> TRUE, ie0 |-> TRUE, m1 |-> TRUE]),
                    Paint(3),
                    Seek(1, TRUE) \o <<Data(9)>>,
                    R(1, [bl |-> FALSE, ie0 |-> FALSE, m1 |-> FALSE]) \o
                        R(1, [bl |-> TRUE, ie0 |-> TRUE, m1 |-> FALSE])}}

Sprite(y, x, dots, colour, cc) ==
    [y |-> y, x |-> x, dots |-> dots, colour |-> colour, cc |-> cc]
Table == <<Sprite(0, 0, {0, 1}, 1, FALSE), Sprite(0, 1, {0}, 2, FALSE),
           Sprite(1, 1, {0, 1}, 2, TRUE)>>
Crowded == <<Sprite(2, 0, {0, 1}, 1, FALSE), Sprite(2, 1, {0}, 2, FALSE),
             Sprite(3, 1, {0, 1}, 2, FALSE)>>
Sprites ==
    {[Guest(With(Registers(mode, TRUE, FALSE), 15 :> 0),
            <<Wait("F")>> \o R(1, [bl |-> TRUE, ie0 |-> FALSE, m1 |-> FALSE])
            \o R(1, [bl |-> TRUE, ie0 |-> TRUE, m1 |-> FALSE]) \o <<Status>>)
         EXCEPT !.type = type, !.sprites = table] :
        table \in {Table, Crowded}, type \in {"v9938", "tms9918"}, mode \in {"g1", "g4"}}

\* A guest that does nothing.
At(pace, guests) == {[g EXCEPT !.pace = pace] : g \in guests}
Quiet == Guest(Registers("g4", FALSE, FALSE), <<>>)

GuestsOfTheVdp == {Quiet} \cup At({2}, Blocks \cup Expansion \cup Lines \cup Looks)
             \cup Transfers \cup Readers
             \cup At({1}, Replaced) \cup At({2}, Replaced) \cup Racing \cup Raster
             \cup {g \in Sprites : g.type = "tms9918" => g.registers[0].mode = "g1"}
==============================================================================
