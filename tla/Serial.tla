-------------------------------- MODULE Serial --------------------------------
(***************************************************************************)
(* The RS-232C interface (rs232_dev.c): the 8251 USART (serial_8251.c) and *)
(* the 8254 that clocks it, the rings between USART and host, and the      *)
(* pseudo terminal at whose other end somebody types and reads (rs232.c).  *)
(* A guest runs a program; the interface is moved on after every           *)
(* instruction (msx.c, advance_machine); the overlay switches it on and    *)
(* off.                                                                    *)
(*                                                                         *)
(* Characters are numbered in the order in which each side sends them.     *)
(* Histories: what each side got, what the guest sent, and what happened   *)
(* that may lose a character.                                              *)
(***************************************************************************)
EXTENDS Timer8254, Sequences, FiniteSets

CONSTANTS Guests,     \* what the guest does, how long its instructions may
                      \* take, how many characters the host types meanwhile
                      \* and how often the overlay acts
          Horizon,    \* when to stop: a bound
          RingSize,   \* RS232_RING
          HostRoom    \* what the pseudo terminal takes before it refuses

VARIABLES pit,        \* the counters 0 to 2
          uart,       \* the 8251 and its clock line
          device,     \* present, backend_active; main.c has switched it
          backend,    \* the rings and the descriptor of the pseudo terminal
          now,
          files,      \* the descriptors that the process has open
          program,    \* of the guest, and what host and overlay still may do
          idle,       \* the interface has been moved on since the instruction
          host,       \* what was typed and has not been read; what may be read
          told,       \* histories: heard and said by the guest, shown on the
                      \* host, typed so far
          events,     \* and what may have lost a character
          pair        \* the count latched in each counter, and its bytes read
serialvars == <<pit, uart, device, backend, now, files, program, idle, host, told,
          events, pair>>

Channels == 0..2
Stdin == 0
Descriptors == {Stdin, 3, 4}

\* The accesses of a guest to the ports, and its waiting for what it sees
\* there.  A control byte is given by what it means as a mode (the length of
\* a frame, synchronous characters) and by what it means as a command.
Format == {"low", "high", "both"}
TimerMode == {"m0", "m1", "m2", "m3", "m4", "m5"}
Op == [port : {"timer"}, ch : Channels, byte : 0..(ByteSize - 1)]
      \cup [port : {"word"}, ch : Channels, format : Format \cup {"latch"},
            mode : TimerMode]
      \cup [port : {"readback"}, channels : SUBSET Channels, count : BOOLEAN]
      \cup [port : {"count"}, ch : Channels]
      \cup [port : {"control"}, length : Nat, single : BOOLEAN,
            synchronous : BOOLEAN, reset : BOOLEAN, txen : BOOLEAN,
            rxe : BOOLEAN, rst_err : BOOLEAN]
      \cup [port : {"data", "read"}]
      \cup [port : {"wait"}, what : {"rxrdy", "txrdy", "txempty", "oe", "timer"}]

SerialAssumption ==
    /\ Guests \subseteq [rest : Seq(Op), pace : SUBSET (Nat \ {0}),
                        types : Nat, switches : Nat]
    /\ RingSize \in Nat \ {0} /\ HostRoom \in Nat

---------------------------------------------------------------------------
(* Rings and the pseudo terminal.  A full ring holds one less than its     *)
(* size.                                                                   *)

Space(ring) == RingSize - 1 - Len(ring)
NewBackend == [present |-> TRUE, master |-> -1, rx |-> <<>>, tx |-> <<>>]

\* A structure that was allocated and never initialised.
ZeroBackend == [present |-> FALSE, master |-> 0, rx |-> <<>>, tx |-> <<>>]

\* The process gets the lowest free descriptor.
LowestFree == CHOOSE d \in Descriptors \ files :
                  \A e \in Descriptors \ files : d <= e

\* rs232_init: whatever the structure held is forgotten, open or not.
Opens == /\ Descriptors \ files # {}
         /\ backend' = [NewBackend EXCEPT !.master = LowestFree]
         /\ files' = files \cup {LowestFree}
         /\ device' = [present |-> TRUE, active |-> TRUE, started |-> TRUE]
OpenFails == /\ backend' = [NewBackend EXCEPT !.present = FALSE]
             /\ device' = [present |-> TRUE, active |-> FALSE, started |-> TRUE]
             /\ UNCHANGED files
Shutdown == /\ files' = files \ {backend.master}
            /\ backend' = [backend EXCEPT !.present = FALSE, !.master = -1]
            /\ device' = [present |-> FALSE, active |-> FALSE, started |-> TRUE]
SerialSetEnabled(enabled) == IF enabled THEN Opens \/ OpenFails ELSE Shutdown

\* What is moved between terminal and rings: all that fits inwards, all
\* outwards until the terminal refuses; what it refused is gone.
PollPty(b, h) ==
    LET n == IF Len(h.typed) < Space(b.rx) THEN Len(h.typed) ELSE Space(b.rx)
        m == IF Len(b.tx) < HostRoom - Len(h.screen) THEN Len(b.tx)
             ELSE HostRoom - Len(h.screen)
        refused == m < Len(b.tx)
    IN  [rx |-> b.rx \o SubSeq(h.typed, 1, n),
         typed |-> SubSeq(h.typed, n + 1, Len(h.typed)),
         tx |-> SubSeq(b.tx, m + (IF refused THEN 2 ELSE 1), Len(b.tx)),
         screen |-> h.screen \o SubSeq(b.tx, 1, m),
         refused |-> refused]

---------------------------------------------------------------------------
(* The 8251.  The functions take and return the USART and the two rings as *)
(* a state s = [u, rx, tx, lost, overrun], and t the time.                 *)

\* A character takes its time from t on, if the clock runs at all.
CharEnds(u, t) == IF IsPeriodic(u.clock)
                  THEN {t + u.clock.total * u.char_length} ELSE {}

UartSend(u, value, t) ==
    [u EXCEPT !.txempty = FALSE, !.send_byte = value, !.trans = CharEnds(u, t),
              !.stood = @ \/ ~IsPeriodic(u.clock)]

\* Mutant: the character that came too late is not reported.
ReceiveByteUnreported(s, value) ==
    LET u == s.u
        taken == [u EXCEPT !.recv_ready = FALSE, !.recv = CharEnds(u, s.t),
                           !.stood = @ \/ ~IsPeriodic(u.clock)]
    IN  IF ~u.recv_ready \/ ~u.rxe THEN [s EXCEPT !.lost = TRUE]
        ELSE IF u.rxrdy THEN [s EXCEPT !.u = taken]
        ELSE [s EXCEPT !.u = [taken EXCEPT !.recv_buf = value, !.rxrdy = TRUE]]

\* A character from the host: one that the guest did not fetch in time
\* stays, the new one is lost with an overrun error (ser8251_recv_byte).
ReceiveByte(s, value) ==
    LET u == s.u
        taken == [u EXCEPT !.recv_ready = FALSE, !.recv = CharEnds(u, s.t),
                           !.stood = @ \/ ~IsPeriodic(u.clock)]
    IN  IF ~u.recv_ready \/ ~u.rxe THEN [s EXCEPT !.lost = TRUE]
        ELSE IF u.rxrdy
        THEN [s EXCEPT !.u = [taken EXCEPT !.oe = TRUE], !.overrun = TRUE]
        ELSE [s EXCEPT !.u = [taken EXCEPT !.recv_buf = value, !.rxrdy = TRUE]]

\* The USART asks for the next character (glue_signal): it is taken from the
\* ring, wanted or not.
Signal(s) == IF s.rx = <<>> THEN s
             ELSE ReceiveByte([s EXCEPT !.rx = Tail(@)], Head(s.rx))

\* Mutant: a receiver that is enabled waits for the end of a character.
WriteCommandUnready(s, c) ==
    LET old == s.u
        u == [old EXCEPT !.txen = c.txen, !.rxe = c.rxe,
                         !.trans = IF c.txen THEN @ ELSE {},
                         !.txrdy = @ \/ ~c.txen, !.txempty = @ \/ ~c.txen,
                         !.oe = @ /\ ~c.rst_err /\ c.rxe = old.rxe]
        switched == IF c.rxe THEN u
                    ELSE [u EXCEPT !.recv = {}, !.rxrdy = FALSE]
    IN  IF c.rxe = old.rxe THEN [s EXCEPT !.u = u]
        ELSE Signal([s EXCEPT !.u = switched])

\* The command register: enabling the receiver readies it, disabling it
\* drops what arrived; both ask for a character (ser8251_write_command).
WriteCommand(s, c) ==
    LET old == s.u
        u == [old EXCEPT !.txen = c.txen, !.rxe = c.rxe,
                         !.trans = IF c.txen THEN @ ELSE {},
                         !.txrdy = @ \/ ~c.txen, !.txempty = @ \/ ~c.txen,
                         !.oe = @ /\ ~c.rst_err /\ c.rxe = old.rxe]
        switched == IF c.rxe THEN [u EXCEPT !.recv_ready = TRUE]
                    ELSE [u EXCEPT !.recv = {}, !.rxrdy = FALSE]
    IN  IF c.rxe = old.rxe THEN [s EXCEPT !.u = u]
        ELSE Signal([s EXCEPT !.u = switched])

\* Whatever the receiver held is dropped, but the clock line goes on.
UartReset(s) ==
    LET u == [s.u EXCEPT !.char_length = 0, !.recv_buf = 0, !.recv_ready = FALSE,
                         !.send_byte = 0, !.send_buffer = 0, !.txrdy = TRUE,
                         !.txempty = TRUE, !.rxrdy = FALSE, !.oe = FALSE,
                         !.txen = TRUE, !.rxe = TRUE]
        w == WriteCommand([s EXCEPT !.u = u],
                          [txen |-> FALSE, rxe |-> FALSE, rst_err |-> FALSE])
    IN  [w EXCEPT !.u.phase = "mode", !.u.recv = {}, !.u.trans = {}]

\* A frame's length, in clocks of the 8254, and its synchronous characters.
SetMode(u, w) == [u EXCEPT !.char_length = w.length, !.single = w.single]

\* The control port: a mode first, then one or two synchronous characters
\* where the mode has them, then commands, until one asks for a mode again.
WriteControl(s, w) ==
    CASE s.u.phase = "mode" ->
             [s EXCEPT !.u = [SetMode(s.u, w) EXCEPT
                                  !.phase = IF w.synchronous THEN "sync1"
                                            ELSE "cmd"]]
      [] s.u.phase = "sync1" ->
             [s EXCEPT !.u.phase = IF s.u.single THEN "cmd" ELSE "sync2"]
      [] s.u.phase = "sync2" -> [s EXCEPT !.u.phase = "cmd"]
      [] s.u.phase = "cmd" /\ w.reset -> [s EXCEPT !.u.phase = "mode"]
      [] OTHER -> WriteCommand(s, w)

WriteData(s, value) ==
    IF ~s.u.txen THEN s
    ELSE IF s.u.txempty THEN [s EXCEPT !.u = UartSend(s.u, value, s.t)]
    ELSE [s EXCEPT !.u.send_buffer = value, !.u.txrdy = FALSE]

ReadTrans(u) == [u EXCEPT !.rxrdy = FALSE]

\* A character has gone out: the one that waits follows it.
Transmit(s) ==
    LET sent == [s EXCEPT !.tx = IF Space(@) > 0 THEN Append(@, s.u.send_byte) ELSE @,
                          !.lost = @ \/ Space(s.tx) = 0]
    IN  IF s.u.txempty \/ ~s.u.txen THEN s
        ELSE IF s.u.txrdy THEN [sent EXCEPT !.u.txempty = TRUE]
        ELSE [sent EXCEPT !.u = UartSend([s.u EXCEPT !.txrdy = TRUE],
                                         s.u.send_buffer, s.t)]

\* The two deadlines, once each (ser8251_advance).
UartAdvance(s) ==
    LET due(set) == \E d \in set : s.t >= d
        out == IF due(s.u.trans) THEN Transmit([s EXCEPT !.u.trans = {}]) ELSE s
        in == [out EXCEPT !.u.recv = {}]
    IN  IF ~due(out.u.recv) THEN out
        ELSE IF in.u.rxe THEN Signal([in EXCEPT !.u.recv_ready = TRUE])
        ELSE in

---------------------------------------------------------------------------
(* The ports.                                                              *)

State == [u |-> uart, rx |-> backend.rx, tx |-> backend.tx,
          lost |-> events.lost, overrun |-> events.overrun, t |-> now]
Becomes(s) ==
    /\ uart' = s.u
    /\ backend' = [backend EXCEPT !.rx = s.rx, !.tx = s.tx]
    /\ events' = [events EXCEPT !.lost = s.lost, !.overrun = s.overrun]

\* The outputs of counters 0 and 1 are both wired to the clock of the USART:
\* the one that changed last drives it (on_counter_output).
Wired(clock, ch, c) ==
    IF ch = 2 \/ c.output = pit[ch].output THEN clock
    ELSE IF IsPeriodic(c.output)
    THEN SetPeriodic(clock, c.output.total, c.output.hi, now)
    ELSE SetState(clock, GetState(c.output, now), now)

\* Counters become what s says, the lowest first.
Timer(s) ==
    /\ pit' = s
    /\ uart' = [uart EXCEPT !.clock = Wired(Wired(@, 0, s[0]), 1, s[1])]
TimerOf(ch, c) == Timer([pit EXCEPT ![ch] = c])

\* The count latched in a counter and what the guest has read of it since.
NoPair == [count |-> 0, bytes |-> <<>>, open |-> FALSE]
PairAfter(ch, c) ==
    CASE c.ltch_cntr /\ ~pit[ch].ltch_cntr ->
             [count |-> c.latched_counter, bytes |-> <<>>, open |-> TRUE]
      [] c.format # pit[ch].format -> NoPair
      [] OTHER -> pair[ch]
PairRead(p, c, value) ==
    [p EXCEPT !.bytes = @ \o value, !.open = c.ltch_cntr]

\* A command that drops what is being sent or has been received.
Silences(w) == /\ uart.phase = "cmd" /\ ~w.reset
               /\ (~w.txen /\ ~uart.txempty) \/ (~w.rxe /\ uart.rxrdy)

Accepted(op) ==
    CASE op.port = "timer" ->
             LET c == ChannelWrite(pit[op.ch], op.byte, now) IN
             TimerOf(op.ch, c) /\ UNCHANGED <<backend, events, told, pair>>
      [] op.port = "word" ->
             LET c == WriteControlWord(pit[op.ch], op, now) IN
             /\ TimerOf(op.ch, c)
             /\ pair' = [pair EXCEPT ![op.ch] = PairAfter(op.ch, c)]
             /\ UNCHANGED <<backend, events, told>>
      [] op.port = "readback" ->
             /\ Timer([ch \in Channels |->
                           IF ch \in op.channels
                           THEN ReadBack(pit[ch], op.count, now) ELSE pit[ch]])
             /\ pair' = [ch \in Channels |-> PairAfter(ch, pit'[ch])]
             /\ UNCHANGED <<backend, events, told>>
      [] op.port = "count" ->
             LET c == ChannelRead(pit[op.ch], now)
                 value == ReadValue(pit[op.ch], now) IN
             /\ TimerOf(op.ch, c)
             /\ pair' = IF pit[op.ch].ltch_ctrl \/ ~pair[op.ch].open THEN pair
                        ELSE [pair EXCEPT ![op.ch] = PairRead(@, c, value)]
             /\ UNCHANGED <<backend, events, told>>
      [] op.port = "control" ->
             /\ Becomes(WriteControl(
                    [State EXCEPT !.lost = @ \/ Silences(op)], op))
             /\ UNCHANGED <<pit, told, pair>>
      [] op.port = "data" ->
             LET n == told.next IN
             /\ Becomes(WriteData([State EXCEPT !.lost = @ \/ (uart.txen /\ ~uart.txrdy)], n))
             /\ told' = [told EXCEPT !.next = n + 1,
                                     !.said = IF uart.txen THEN Append(@, n) ELSE @]
             /\ UNCHANGED <<pit, pair>>
      [] op.port = "read" ->
             /\ uart' = ReadTrans(uart)
             /\ told' = [told EXCEPT !.heard = IF uart.rxrdy
                                               THEN Append(@, uart.recv_buf) ELSE @]
             /\ UNCHANGED <<pit, backend, events, pair>>

\* What a guest waits for in the status of the USART, or on port 82h.
Shows(what) ==
    CASE what = "rxrdy" -> uart.rxrdy
      [] what = "txrdy" -> uart.txrdy
      [] what = "txempty" -> uart.txempty
      [] what = "oe" -> uart.oe
      [] what = "timer" -> GetState(pit[2].output, now)

\* The next access, or one more round of a loop that waits for something;
\* nobody answers when the interface is off.
Instruction ==
    /\ idle /\ device.started /\ now < Horizon
    /\ idle' = FALSE
    /\ LET rest == program.rest
           waits == rest # <<>> /\ Head(rest).port = "wait"
           goes == rest # <<>> /\ (waits => ~device.present \/ Shows(Head(rest).what))
       IN  /\ program' = IF goes THEN [program EXCEPT !.rest = Tail(@)] ELSE program
           /\ IF goes /\ ~waits /\ device.present THEN Accepted(Head(rest))
              ELSE UNCHANGED <<pit, uart, backend, events, told, pair>>
    /\ UNCHANGED <<device, now, files, host>>

\* rs232dev_io_advance: the rings are served, a USART that waits for a
\* character is given one, and what is due happens.
Advance ==
    /\ ~idle /\ idle' = TRUE
    /\ \E n \in program.pace :
        IF ~device.present THEN UNCHANGED <<uart, backend, now, host, events>>
        ELSE LET moved == PollPty(backend, host)
                 polled == [State EXCEPT !.t = now + n,
                                         !.rx = IF backend.present THEN moved.rx ELSE @,
                                         !.tx = IF backend.present THEN moved.tx ELSE @,
                                         !.lost = @ \/ (backend.present /\ moved.refused)]
                 given == IF polled.u.rxe /\ polled.u.recv_ready
                          THEN Signal(polled) ELSE polled
             IN  /\ now' = now + n
                 /\ Becomes(UartAdvance(given))
                 /\ host' = IF backend.present
                            THEN [host EXCEPT !.typed = moved.typed,
                                              !.screen = moved.screen]
                            ELSE host
    /\ UNCHANGED <<pit, device, files, program, told, pair>>

\* The machine is reset (rs232dev_io_reset).
SerialReset ==
    /\ idle /\ device.started /\ program.switches > 0
    /\ Becomes(UartReset([State EXCEPT !.lost = TRUE]))
    /\ pit' = [ch \in Channels |-> CounterReset(pit[ch], now)]
    /\ pair' = [ch \in Channels |-> NoPair]
    /\ program' = [program EXCEPT !.switches = @ - 1]
    /\ UNCHANGED <<device, now, files, idle, host, told>>

\* main.c switches it on or off when it has created it.
Start ==
    /\ ~device.started
    /\ \E enabled \in BOOLEAN : SerialSetEnabled(enabled)
    /\ UNCHANGED <<pit, uart, now, program, idle, host, told, events, pair>>

\* The overlay switches the interface, or gives up its settings and puts it
\* to what it was, which it may be already (restore_rs232).
Switch ==
    /\ idle /\ device.started /\ program.switches > 0
    /\ \E enabled \in BOOLEAN : SerialSetEnabled(enabled)
    /\ events' = [events EXCEPT !.lost = TRUE]
    /\ host' = [typed |-> <<>>, screen |-> <<>>]
    /\ program' = [program EXCEPT !.switches = @ - 1]
    /\ UNCHANGED <<pit, uart, now, idle, told, pair>>

---------------------------------------------------------------------------
(* The other end of the terminal.                                          *)

HostTypes ==
    /\ idle /\ device.active /\ program.types > 0
    /\ program' = [program EXCEPT !.types = @ - 1]
    /\ told' = [told EXCEPT !.typed = @ + 1]
    /\ host' = [host EXCEPT !.typed = Append(@, told.typed + 1)]
    /\ UNCHANGED <<pit, uart, device, backend, now, files, idle, events, pair>>
HostReads ==
    /\ idle /\ host.screen # <<>>
    /\ told' = [told EXCEPT !.shown = @ \o host.screen]
    /\ host' = [host EXCEPT !.screen = <<>>]
    /\ UNCHANGED <<pit, uart, device, backend, now, files, program, idle, events, pair>>

NewUart == [char_length |-> 0, recv_buf |-> 0, recv_ready |-> FALSE,
            send_byte |-> 0, send_buffer |-> 0, txrdy |-> TRUE, txempty |-> TRUE,
            rxrdy |-> FALSE, oe |-> FALSE, txen |-> FALSE, rxe |-> FALSE,
            phase |-> "mode", single |-> FALSE, recv |-> {}, trans |-> {},
            clock |-> NewClock, stood |-> FALSE]

\* rs232dev_create.
SerialInit ==
    /\ program \in Guests
    /\ pit = [ch \in Channels |-> Counter] /\ uart = NewUart
    /\ now = 0 /\ idle = TRUE
    /\ device = [present |-> FALSE, active |-> FALSE, started |-> FALSE]
    /\ backend = ZeroBackend /\ files = {Stdin}
    /\ host = [typed |-> <<>>, screen |-> <<>>]
    /\ told = [heard |-> <<>>, said |-> <<>>, shown |-> <<>>, next |-> 1,
               typed |-> 0]
    /\ events = [lost |-> FALSE, overrun |-> FALSE]
    /\ pair = [ch \in Channels |-> NoPair]

SerialNext == Start \/ Instruction \/ Advance \/ SerialReset \/ Switch \/ HostTypes \/ HostReads
SerialSpec == SerialInit /\ [][SerialNext]_serialvars

---------------------------------------------------------------------------
(* Properties.                                                             *)

\* Nothing is lost, doubled or reordered on the way through terminal, ring
\* and USART, in either direction, as long as nothing happened that must
\* lose characters: an overrun, which the USART reports; a receiver or
\* transmitter that the guest switches off, or a guest that does not wait
\* for the transmitter; a refusing terminal; a reset or a switch.
SerialInOrder ==
    ~events.lost =>
        /\ ~events.overrun =>
              told.heard \o (IF uart.rxrdy THEN <<uart.recv_buf>> ELSE <<>>)
                         \o backend.rx \o host.typed
              = [i \in 1..told.typed |-> i]
        /\ told.shown \o host.screen \o backend.tx
              \o (IF uart.txempty THEN <<>> ELSE <<uart.send_byte>>)
              \o (IF uart.txrdy THEN <<>> ELSE <<uart.send_buffer>>)
           = told.said

\* An enabled receiver waits for a character or for the end of one, and a
\* transmitter that is not empty for the end of its own, through every
\* command, reset and new mode, unless a character met a clock that stood:
\* neither direction can come to rest for ever with characters waiting.
NeverStuck ==
    ~uart.stood => /\ uart.rxe => uart.recv_ready \/ uart.recv # {}
                   /\ ~uart.txempty => uart.trans # {}

\* A count that was latched is read as it was, low half first, however far
\* the counter has run on and whatever else is read or latched in between.
LatchedCountWhole ==
    \A ch \in Channels :
        LET p == pair[ch] IN
        /\ Len(p.bytes) >= 1 => p.bytes[1] = IF pit[ch].format = "high"
                                             THEN p.count \div ByteSize
                                             ELSE p.count % ByteSize
        /\ Len(p.bytes) >= 2 => p.bytes[2] = p.count \div ByteSize

\* rs232.h:43 "-1 when closed": the interface closes what it opened, nothing
\* else, and leaves nothing open that it has forgotten (rs232_init,
\* rs232_shutdown).
OwnDescriptors == device.started => files = {Stdin} \cup ({backend.master} \ {-1})
==============================================================================
