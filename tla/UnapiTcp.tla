------------------------------ MODULE UnapiTcp ------------------------------
(***************************************************************************)
(* The TCP half of src/unapinet.c: the handles of the bridge, the host     *)
(* sockets behind them and what the network does to those.  UnapiNet says  *)
(* when the frame loop polls and when a command runs.                      *)
(*                                                                         *)
(* A byte is the number of its position in its stream, so that a lost, a   *)
(* repeated or a displaced byte shows.  Chunk stands for the 512 bytes of  *)
(* one recv(), and is one byte here.                                       *)
(* Bounds: MaxAccepted[h] and MaxArrived[h] cap the bytes the guest sends  *)
(* and the peer sends over one connection of handle h.                     *)
(***************************************************************************)
EXTENDS Naturals, Sequences, SequencesExt, FiniteSetsExt

CONSTANTS
    TcpHandle,      \* the guest's handles 1..MAX_TCP
    Peer, NoPeer,   \* remote addresses; NoPeer is remote_ip = 0
    MaxBuffer,      \* MAX_BUFFER
    MaxLength,      \* the longest tcp_send, 65535 in the code
    RecvRounds,     \* the 16 rounds of the receive loop
    MaxAccepted, MaxArrived

TcpAssumption ==
    /\ NoPeer \notin Peer
    /\ {MaxBuffer, MaxLength, RecvRounds} \subseteq Nat
    /\ MaxAccepted \in [TcpHandle -> Nat] /\ MaxArrived \in [TcpHandle -> Nat]
    /\ MaxLength <= MaxBuffer

VARIABLES
    conn,           \* TcpConnection of each handle
    net,            \* the host socket of each handle and its far end
    descriptors,    \* descriptors opened for a handle and not closed
    delivered       \* history: bytes of this connection the guest has received

tcpVars == <<conn, net, descriptors, delivered>>

\* state: "closed", "listen", "syn_sent", "established", "fin_wait" or
\* "close_wait"; close_deadline: "none", "running" or "passed".
Closed == [socket |-> FALSE, state |-> "closed", resident |-> FALSE,
           fin_sent |-> FALSE, close_deadline |-> "none", filter |-> NoPeer,
           recv_data |-> <<>>, send_data |-> <<>>]

\* conn: the TCP handshake; in: sent by the peer, not yet read; arrived: how
\* many bytes the peer sent; fin, reset: what the peer did last; wire: bytes
\* the kernel took from us; our_fin: shutdown(SHUT_WR) was called; accepted is
\* history: the bytes the guest was told are taken.
NewSocket(handshake) == [conn |-> handshake, in |-> <<>>, arrived |-> 0,
                         fin |-> FALSE, reset |-> FALSE, wire |-> <<>>,
                         our_fin |-> FALSE, accepted |-> <<>>]

TcpInit ==
    /\ conn = [h \in TcpHandle |-> Closed]
    /\ net = [h \in TcpHandle |-> NewSocket("none")]
    /\ descriptors = [h \in TcpHandle |-> 0]
    /\ delivered = [h \in TcpHandle |-> <<>>]

\* The first n bytes of a buffer, and what memmove leaves of it behind them.
Take(s, n) == SubSeq(s, 1, n)
Rest(s, n) == SubSeq(s, n + 1, Len(s))

-----------------------------------------------------------------------------
(* A link is a handle's connection, its socket and its open descriptors:   *)
(* what one call of the code turns into another one.                       *)

Link(h) == [c |-> conn[h], n |-> net[h], fds |-> descriptors[h]]

\* close_tcp: without "clear" the received bytes and the address stay.
CloseTcp(l, clear) ==
    [l EXCEPT !.c = IF clear THEN Closed
                    ELSE [@ EXCEPT !.socket = FALSE, !.state = "closed",
                                   !.send_data = <<>>, !.fin_sent = FALSE,
                                   !.filter = NoPeer,
                                   !.close_deadline = "none"],
              !.n = NewSocket("none"),
              !.fds = IF l.c.socket THEN @ - 1 ELSE @]

\* poll_connect: nothing yet, refused, or up.
PollConnect(l) ==
    CASE l.n.conn = "refused" -> {CloseTcp(l, FALSE)}
      [] l.n.conn = "up" -> {[l EXCEPT !.c.state = "established"]}
      [] OTHER -> {l}

\* accept() opened one descriptor more and the listener is closed.
AcceptedFdsListenerKept(l) == l.fds + 1
AcceptedFds(l) == l.fds + 1 - 1

\* accept() finds nobody, or a peer the filter refuses (its socket is closed
\* at once), or the peer whose socket takes the place of the listener, which
\* is closed.
PollListen(l) ==
    {l} \cup {[l EXCEPT !.c.state = "established", !.c.filter = NoPeer,
                        !.n = NewSocket("up"), !.fds = AcceptedFds(l)] :
                  p \in {q \in Peer : l.c.filter \in {NoPeer, q}}}

\* The queued bytes: send() takes some, would block or fails.
PollSend(l) ==
    IF l.c.send_data = <<>> THEN {l}
    ELSE IF l.n.reset THEN {CloseTcp(l, FALSE)}
    ELSE {[l EXCEPT !.c.send_data = Rest(@, k),
                    !.n.wire = @ \o Take(l.c.send_data, k)] :
              k \in 0..Len(l.c.send_data)}

MayShutDown(l) == ~l.c.fin_sent /\ l.c.send_data = <<>>

TimedOutAfterFin(l) == l.c.fin_sent /\ l.c.close_deadline = "passed"
TimedOut(l) == l.c.close_deadline = "passed"

\* The FIN_WAIT part: shutdown once the queue is empty, and the deadline.
PollFin(l) ==
    IF l.c.state # "fin_wait" THEN l
    ELSE LET shut == IF MayShutDown(l)
                     THEN [l EXCEPT !.c.fin_sent = TRUE, !.n.our_fin = TRUE]
                     ELSE l
         IN IF TimedOut(shut) THEN CloseTcp(shut, TRUE) ELSE shut

Reads(l) == Min({MaxBuffer - Len(l.c.recv_data), RecvRounds, Len(l.n.in)})

\* The receive loop reads until it has made RecvRounds rounds, the buffer is
\* full, or recv() has nothing more: then it learns of the end of the stream.
PollRecv(l) ==
    LET room == MaxBuffer - Len(l.c.recv_data)
        k == Reads(l)
        got == [l EXCEPT !.c.recv_data = @ \o Take(l.n.in, k),
                         !.n.in = Rest(@, k)]
    IN IF k = room \/ k = RecvRounds THEN got
       ELSE IF l.n.reset THEN CloseTcp(got, FALSE)
       ELSE IF ~l.n.fin THEN got
       ELSE IF l.c.state = "fin_wait" THEN CloseTcp(got, TRUE)
       ELSE [got EXCEPT !.c.state = "close_wait"]

\* poll_tcp: what one call can leave behind.
PollTcp(l) ==
    CASE ~l.c.socket -> {l}
      [] l.c.state = "syn_sent" -> PollConnect(l)
      [] l.c.state = "listen" -> PollListen(l)
      [] OTHER ->
            {LET f == PollFin(s) IN
             IF f.c.socket THEN PollRecv(f) ELSE f : s \in PollSend(l)}

Polled(h) == PollTcp(Link(h))

Put(links) ==
    /\ conn' = [h \in TcpHandle |-> links[h].c]
    /\ net' = [h \in TcpHandle |-> links[h].n]
    /\ descriptors' = [h \in TcpHandle |-> links[h].fds]

PutOne(h, l) ==
    /\ conn' = [conn EXCEPT ![h] = l.c]
    /\ net' = [net EXCEPT ![h] = l.n]
    /\ descriptors' = [descriptors EXCEPT ![h] = l.fds]

\* The history of a stream ends with the stream.
ForgetCleared ==
    delivered' = [h \in TcpHandle |->
                    IF ~conn'[h].socket /\ conn'[h].recv_data = <<>> THEN <<>>
                    ELSE delivered[h]]

\* unapinet_poll, the TCP loop.
PollAllTcp ==
    /\ \E links \in {f \in [TcpHandle -> UNION {Polled(h) : h \in TcpHandle}] :
                         \A h \in TcpHandle : f[h] \in Polled(h)} : Put(links)
    /\ ForgetCleared

-----------------------------------------------------------------------------
(* The commands of the guest.                                              *)

Free(h) == ~conn[h].socket /\ conn[h].state = "closed"

\* A command that answers and touches no connection: short parameters, an
\* unknown or closed handle, no free slot, no descriptor, and tcp_state.
TcpAnswersOnly == UNCHANGED tcpVars

\* tcp_slot takes the first free handle; which one is of no consequence here.

\* cmd_tcp_open with the passive flag: bind() or listen() may fail after the
\* slot was prepared, and the descriptor is closed again.
TcpListen(h, p, resident) ==
    /\ Free(h)
    /\ \E ok \in BOOLEAN :
          PutOne(h, [c |-> [Closed EXCEPT !.filter = IF ok THEN p ELSE NoPeer,
                              !.resident = resident, !.socket = ok, !.state = IF ok THEN "listen" ELSE "closed"],
                     n |-> NewSocket("none"),
                     fds |-> descriptors[h] + (IF ok THEN 1 ELSE 0)])
    /\ delivered' = [delivered EXCEPT ![h] = <<>>]

\* ... and without it: connect() succeeds, is in progress or fails.
TcpConnect(h, resident) ==
    /\ Free(h)
    /\ \E result \in {"established", "syn_sent", "closed"} :
          PutOne(h, [c |-> [Closed EXCEPT !.resident = resident,
                              !.socket = result # "closed", !.state = result],
                     n |-> NewSocket(IF result = "syn_sent" THEN "pending" ELSE "up"),
                     fds |-> descriptors[h] + (IF result # "closed" THEN 1 ELSE 0)])
    /\ delivered' = [delivered EXCEPT ![h] = <<>>]

\* The length new bytes of a tcp_send on h.
NewBytes(h, length) == [i \in 1..length |-> Len(net[h].accepted) + i]

\* Only behind an empty queue may bytes go to the kernel at once.
SendsDirectlyAlways(l, length) == length > 0
SendsDirectly(l, length) == l.c.send_data = <<>> /\ length > 0

\* cmd_tcp_send.  With an empty queue the bytes go to the kernel first, which
\* may take some of them or report the reset; what it leaves is queued if it
\* fits, and otherwise the guest is told 2, nothing taken.
TcpSend(h, length) ==
    LET l == Link(h)
        data == NewBytes(h, length)
        direct == SendsDirectly(l, length)
    IN /\ l.c.socket /\ l.c.state \in {"established", "close_wait"}
       /\ Len(l.n.accepted) + length <= MaxAccepted[h]
       /\ IF direct /\ l.n.reset
          THEN PutOne(h, CloseTcp(l, FALSE))
          ELSE \E sent \in IF direct THEN 0..length ELSE {0} :
                 LET on_wire == [l EXCEPT !.n.wire = @ \o Take(data, sent)]
                 IN IF Len(l.c.send_data) + length - sent > MaxBuffer
                    THEN PutOne(h, on_wire)
                    ELSE PutOne(h, [on_wire EXCEPT
                                        !.c.send_data = @ \o Rest(data, sent),
                                        !.n.accepted = @ \o data])
       /\ ForgetCleared

\* cmd_tcp_recv: any handle, open or not.
TcpRecv(h, maximum) ==
    LET length == IF Len(conn[h].recv_data) < maximum
                  THEN Len(conn[h].recv_data) ELSE maximum
    IN /\ length > 0
       /\ delivered' = [delivered EXCEPT ![h] = @ \o Take(conn[h].recv_data, length)]
       /\ conn' = [conn EXCEPT ![h].recv_data = Rest(@, length)]
       /\ UNCHANGED <<net, descriptors>>

GracefulClose(l) ==
    IF l.c.socket /\ l.c.state \in {"established", "close_wait"}
    THEN [l EXCEPT !.c.state = "fin_wait",
                   !.c.close_deadline = "running", !.c.fin_sent = FALSE]
    ELSE CloseTcp(l, TRUE)

TcpClose(h) ==
    /\ conn[h].socket
    /\ PutOne(h, GracefulClose(Link(h)))
    /\ ForgetCleared

\* cmd_tcp_close with handle 0: every handle that is not resident.
TcpCloseAll ==
    /\ Put([h \in TcpHandle |-> IF ~conn[h].resident /\ conn[h].socket
                               THEN GracefulClose(Link(h)) ELSE Link(h)])
    /\ ForgetCleared

TcpAbort(h) ==
    /\ conn[h].socket
    /\ PutOne(h, CloseTcp(Link(h), TRUE))
    /\ ForgetCleared

TcpCommand ==
    \/ TcpAnswersOnly \/ TcpCloseAll
    \/ \E h \in TcpHandle :
        \/ \E p \in Peer \cup {NoPeer}, resident \in BOOLEAN :
               TcpListen(h, p, resident)
        \/ \E resident \in BOOLEAN : TcpConnect(h, resident)
        \/ \E length \in 0..MaxLength : TcpSend(h, length)
        \/ \E maximum \in 1..MaxBuffer : TcpRecv(h, maximum)
        \/ TcpClose(h) \/ TcpAbort(h)

\* unapinet_reset, the TCP loop.
ResetTcp ==
    /\ Put([h \in TcpHandle |-> CloseTcp(Link(h), TRUE)])
    /\ ForgetCleared

-----------------------------------------------------------------------------
(* The network and the clock.                                              *)

Network(h, n) == net' = [net EXCEPT ![h] = n]
                 /\ UNCHANGED <<conn, descriptors, delivered>>
Up(h) == conn[h].socket /\ net[h].conn = "up" /\ ~net[h].reset

Handshake(h) ==
    /\ conn[h].socket /\ net[h].conn = "pending"
    /\ \E result \in {"up", "refused"} : Network(h, [net[h] EXCEPT !.conn = result])

PeerSends(h) ==
    /\ Up(h) /\ ~net[h].fin
    /\ net[h].arrived < MaxArrived[h]
    /\ Network(h, [net[h] EXCEPT !.in = Append(@, net[h].arrived + 1),
                                 !.arrived = @ + 1])

PeerCloses(h) == Up(h) /\ ~net[h].fin /\ Network(h, [net[h] EXCEPT !.fin = TRUE])

\* A reset may take with it what the host had not read yet.
PeerResets(h) ==
    /\ Up(h)
    /\ \E kept \in {net[h].in, <<>>} :
          Network(h, [net[h] EXCEPT !.reset = TRUE, !.in = kept])

\* 30 seconds after graceful_close.
DeadlinePasses(h) ==
    /\ conn[h].close_deadline = "running"
    /\ conn' = [conn EXCEPT ![h].close_deadline = "passed"]
    /\ UNCHANGED <<net, descriptors, delivered>>

NetworkStep ==
    \E h \in TcpHandle : Handshake(h) \/ PeerSends(h) \/ PeerCloses(h)
                         \/ PeerResets(h) \/ DeadlinePasses(h)
=============================================================================
