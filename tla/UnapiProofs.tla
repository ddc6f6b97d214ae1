---------------------------- MODULE UnapiProofs ----------------------------
(***************************************************************************)
(* The bridge of TCP/IP UNAPI.  Its sockets, for any number of handles,    *)
(* buffer sizes and rounds: the bytes and the datagrams pass once and in   *)
(* order, and no descriptor is lost or closed twice.  A handle of TCP is   *)
(* one link, and every call of the code turns a good link into a good one; *)
(* an endpoint of UDP is a ring whose content continues what the guest has *)
(* received.  Its resolver, for every set of hosts and addresses and every *)
(* number of generations: type correctness, no use after free, the guest   *)
(* sees the answer to its own question, and UnapiDns implements Resolver.  *)
(***************************************************************************)
EXTENDS UnapiDns, UnapiNet, SequenceTheorems, WellFoundedInduction, TLAPS

(* ------------------------------ sequences ------------------------------ *)

\* A buffer is what memmove took off its front and what it left.
LEMMA TakeRest ==
    ASSUME NEW S, NEW s \in Seq(S), NEW n \in 0..Len(s)
    PROVE  /\ Take(s, n) \in Seq(S) /\ Rest(s, n) \in Seq(S)
           /\ Len(Take(s, n)) = n /\ Len(Rest(s, n)) = Len(s) - n
           /\ \A i \in 1..n : Take(s, n)[i] = s[i]
           /\ \A i \in 1..(Len(s) - n) : Rest(s, n)[i] = s[n + i]
           /\ Take(s, n) \o Rest(s, n) = s
<1>0. Len(s) \in Nat /\ \A i \in 1..Len(s) : s[i] \in S
  BY LenProperties, ElementOfSeq
<1>1. /\ Take(s, n) \in Seq(S) /\ Len(Take(s, n)) = n
      /\ \A i \in 1..n : Take(s, n)[i] = s[i]
  <2>1. \A i \in 1..n : s[i] \in S
    BY <1>0
  <2>2. /\ SubSeq(s, 1, n) \in Seq(S)
        /\ Len(SubSeq(s, 1, n)) = IF 1 <= n THEN n - 1 + 1 ELSE 0
        /\ \A i \in 1..(n - 1 + 1) : SubSeq(s, 1, n)[i] = s[1 + i - 1]
    BY <2>1, SubSeqProperties
  <2>3. \A i \in 1..n : i \in 1..(n - 1 + 1) /\ 1 + i - 1 = i
    OBVIOUS
  <2> QED BY <1>0, <2>2, <2>3 DEF Take
<1>2. /\ Rest(s, n) \in Seq(S) /\ Len(Rest(s, n)) = Len(s) - n
      /\ \A i \in 1..(Len(s) - n) : Rest(s, n)[i] = s[n + i]
  <2>1. \A i \in (n + 1)..Len(s) : s[i] \in S
    BY <1>0
  <2>2. n + 1 \in Int /\ Len(s) \in Int
    BY <1>0
  <2>3. /\ SubSeq(s, n + 1, Len(s)) \in Seq(S)
        /\ Len(SubSeq(s, n + 1, Len(s)))
           = IF n + 1 <= Len(s) THEN Len(s) - (n + 1) + 1 ELSE 0
        /\ \A i \in 1..(Len(s) - (n + 1) + 1) :
               SubSeq(s, n + 1, Len(s))[i] = s[n + 1 + i - 1]
    BY <2>1, <2>2, SubSeqProperties
  <2>4. \A i \in 1..(Len(s) - n) :
            i \in 1..(Len(s) - (n + 1) + 1) /\ n + 1 + i - 1 = n + i
    BY <1>0
  <2> QED BY <1>0, <2>3, <2>4 DEF Rest
<1>3. Take(s, n) \o Rest(s, n) = s
  <2>1. SubSeq(s, 1, n) \o SubSeq(s, n + 1, Len(s)) = SubSeq(s, 1, Len(s))
    <3>1. 1 \in 1..(Len(s) + 1) /\ n \in (1 - 1)..Len(s)
          /\ Len(s) \in n..Len(s)
      BY <1>0
    <3> QED BY <3>1, ConcatAdjacentSubSeq
  <2> QED BY <2>1, SubSeqFull DEF Take, Rest
<1> QED BY <1>1, <1>2, <1>3

\* The whole is what lies before a buffer and the buffer, wherever it is cut.
LEMMA CutAnywhere ==
    ASSUME NEW S, NEW a \in Seq(S), NEW s \in Seq(S), NEW n \in 0..Len(s)
    PROVE  (a \o Take(s, n)) \o Rest(s, n) = a \o s
<1>1. /\ Take(s, n) \in Seq(S) /\ Rest(s, n) \in Seq(S)
      /\ Take(s, n) \o Rest(s, n) = s
  BY TakeRest, Zenon
<1>2. (a \o Take(s, n)) \o Rest(s, n) = a \o (Take(s, n) \o Rest(s, n))
  <2> DEFINE t == Take(s, n)
             u == Rest(s, n)
  <2>1. t \in Seq(S) /\ u \in Seq(S)
    BY <1>1
  <2> HIDE DEF t, u
  <2> SUFFICES (a \o t) \o u = a \o (t \o u)
    BY DEF t, u
  <2> QED BY <2>1, ConcatAssociative
<1> QED BY <1>1, <1>2

(* -------------------------------- links -------------------------------- *)

Bytes == Seq(Nat)
State == {"closed", "listen", "syn_sent", "established", "fin_wait",
          "close_wait"}
Conns == [socket : BOOLEAN, state : State, resident : BOOLEAN,
          fin_sent : BOOLEAN, close_deadline : {"none", "running", "passed"},
          filter : Peer \cup {NoPeer}, recv_data : Bytes, send_data : Bytes]
Nets == [conn : {"none", "pending", "up", "refused"}, in : Bytes,
         arrived : Nat, fin : BOOLEAN, reset : BOOLEAN, wire : Bytes,
         our_fin : BOOLEAN, accepted : Bytes]
Links == [c : Conns, n : Nets, fds : Nat]

\* A handle owns a descriptor exactly while it is open.
Owned(l) == /\ l.fds = IF l.c.socket THEN 1 ELSE 0
            /\ l.c.socket <=> l.c.state # "closed"

\* What the guest was told is taken is on the wire or queued behind it; a
\* handle that is not open has nothing on its way.
Sent(c, n) ==
    IF c.socket THEN n.wire \o c.send_data = n.accepted
    ELSE /\ c.send_data = <<>> /\ n.wire = <<>> /\ n.accepted = <<>>
         /\ n.in = <<>> /\ ~n.our_fin

\* Our end of stream is behind the last byte, and nothing comes behind it.
Finished(c, n) ==
    n.our_fin => c.state = "fin_wait" /\ c.fin_sent /\ c.send_data = <<>>

\* A connection that is not up has carried nothing.
Early(c, n, d) ==
    c.state \in {"listen", "syn_sent"} =>
        /\ c.recv_data = <<>> /\ c.send_data = <<>> /\ d = <<>>
        /\ n.wire = <<>> /\ n.accepted = <<>>

\* What the guest has, what is buffered and what the host holds are the
\* peer's stream from its first byte on; a reset may have cut it short.
Counted(r, in, d) ==
    /\ \A i \in 1..Len(d) : d[i] = i
    /\ \A i \in 1..Len(r) : r[i] = Len(d) + i
    /\ \A i \in 1..Len(in) : in[i] = Len(d) + Len(r) + i
Whole(c, n, d) ==
    c.socket /\ ~n.reset => n.arrived = Len(d) + Len(c.recv_data) + Len(n.in)

\* The receive buffer does not overflow.
Fits(r) == r = <<>> \/ Len(r) <= MaxBuffer

Good(l, d) ==
    /\ l \in Links /\ d \in Bytes /\ Fits(l.c.recv_data)
    /\ Owned(l) /\ Sent(l.c, l.n) /\ Finished(l.c, l.n) /\ Early(l.c, l.n, d)
    /\ Counted(l.c.recv_data, l.n.in, d) /\ Whole(l.c, l.n, d)

LEMMA EmptyBytes == <<>> \in Bytes /\ Len(<<>>) = 0
BY EmptySeq DEF Bytes

LEMMA FreshTypes ==
    /\ Closed \in Conns
    /\ \A hs \in {"none", "pending", "up"} : NewSocket(hs) \in Nets
BY EmptyBytes DEF Closed, NewSocket, Conns, Nets, State

\* close_tcp gives the descriptor back and drops what was not sent.
LEMMA CloseGood ==
    ASSUME NEW l, NEW d, Good(l, d), NEW clear, NEW e, e = CloseTcp(l, clear)
    PROVE  /\ Good(e, d) /\ ~e.c.socket
           /\ clear => e.c.recv_data = <<>>
<1>0. l \in Links /\ l.c \in Conns /\ l.n \in Nets /\ l.fds \in Nat
  BY DEF Good, Links
<1> DEFINE c == IF clear THEN Closed
                ELSE [l.c EXCEPT !.socket = FALSE, !.state = "closed",
                                 !.send_data = <<>>, !.fin_sent = FALSE,
                                 !.filter = NoPeer, !.close_deadline = "none"]
           n == NewSocket("none")
           fds == IF l.c.socket THEN l.fds - 1 ELSE l.fds
<1>1. e = [l EXCEPT !.c = c, !.n = n, !.fds = fds]
  BY DEF CloseTcp
<1>2. c \in Conns /\ ~c.socket /\ c.state = "closed" /\ c.send_data = <<>>
  <2>1. CASE clear
    BY <2>1, FreshTypes DEF Closed
  <2>2. CASE ~clear
    <3> DEFINE a == [l.c EXCEPT !.socket = FALSE, !.state = "closed",
                                !.send_data = <<>>]
    <3>1. a \in Conns /\ a.state = "closed" /\ a.send_data = <<>>
      BY <1>0, EmptyBytes DEF Conns, State
    <3>2. ~a.socket
      BY <1>0 DEF Conns
    <3>3. c = [a EXCEPT !.fin_sent = FALSE, !.filter = NoPeer,
                        !.close_deadline = "none"]
      BY <2>2
    <3> HIDE DEF a
    <3>4. c \in Conns
      BY <3>1, <3>3 DEF Conns
    <3>5. c.state = a.state /\ c.send_data = a.send_data
          /\ (c.socket <=> a.socket)
      BY <3>1, <3>3 DEF Conns
    <3> QED BY <3>1, <3>2, <3>4, <3>5
  <2> QED BY <2>1, <2>2
<1>3. c.recv_data = <<>> \/ (~clear /\ c.recv_data = l.c.recv_data)
  BY <1>0 DEF Conns, Closed
<1>4. n \in Nets /\ n.wire = <<>> /\ n.in = <<>> /\ n.accepted = <<>>
      /\ ~n.our_fin
  BY FreshTypes DEF NewSocket
<1>5. fds = 0
  BY <1>0 DEF Good, Owned
<1> HIDE DEF c, n, fds
<1>6. e \in Links
  <2>1. c \in Conns /\ n \in Nets /\ fds \in Nat
    BY <1>2, <1>4, <1>5
  <2> QED BY <1>0, <1>1, <2>1 DEF Links
<1>7. e.c = c /\ e.n = n /\ e.fds = 0
  BY <1>0, <1>1, <1>5 DEF Links
<1>8. Counted(c.recv_data, n.in, d)
  BY <1>3, <1>4, EmptyBytes DEF Good, Counted
<1> QED BY <1>2, <1>3, <1>4, <1>6, <1>7, <1>8
        DEF Good, Owned, Sent, Finished, Early, Whole, Fits

\* poll_connect: the handshake is over, one way or the other.
LEMMA ConnectGood ==
    ASSUME NEW l, NEW d, Good(l, d), l.c.socket, l.c.state = "syn_sent",
           NEW e \in PollConnect(l)
    PROVE  Good(e, d)
<1>0. l \in Links /\ l.c \in Conns /\ l.n \in Nets
  BY DEF Good, Links
<1>1. e = CloseTcp(l, FALSE) \/ e = [l EXCEPT !.c.state = "established"] \/ e = l
  <2>1. CASE l.n.conn = "refused"
    BY <2>1 DEF PollConnect
  <2>2. CASE l.n.conn = "up"
    BY <2>2 DEF PollConnect
  <2>3. CASE l.n.conn # "refused" /\ l.n.conn # "up"
    BY <2>3 DEF PollConnect
  <2> QED BY <2>1, <2>2, <2>3
<1>2. CASE e = [l EXCEPT !.c.state = "established"]
  <2> DEFINE c == [l.c EXCEPT !.state = "established"]
  <2>1. c \in Conns
    BY <1>0 DEF Conns, State
  <2>2. e.c = c /\ e.n = l.n /\ e.fds = l.fds /\ e \in Links
    BY <1>0, <1>2, <2>1 DEF Links
  <2>3. /\ c.state = "established" /\ c.send_data = l.c.send_data
        /\ c.recv_data = l.c.recv_data /\ (c.socket <=> l.c.socket)
    BY <1>0 DEF Conns
  <2> HIDE DEF c
  <2>4. Owned(e) /\ Sent(e.c, e.n) /\ Finished(e.c, e.n)
    BY <2>2, <2>3 DEF Good, Owned, Sent, Finished
  <2> QED BY <2>2, <2>3, <2>4 DEF Good, Early, Whole
<1> QED BY <1>1, <1>2, CloseGood

\* accept(): the peer's socket takes the place of the listener.
LEMMA ListenGood ==
    ASSUME NEW l, NEW d, Good(l, d), l.c.socket, l.c.state = "listen",
           NEW e \in PollListen(l)
    PROVE  Good(e, d)
<1>0. l \in Links /\ l.c \in Conns /\ l.n \in Nets /\ l.fds = 1
  BY DEF Good, Links, Owned
<1> DEFINE n == NewSocket("up")
           c == [l.c EXCEPT !.state = "established", !.filter = NoPeer]
<1>1. CASE e = [l EXCEPT !.c.state = "established", !.c.filter = NoPeer,
                         !.n = n, !.fds = AcceptedFds(l)]
  <2>1. c \in Conns /\ n \in Nets /\ AcceptedFds(l) = 1
    <3>1. c \in Conns
      BY <1>0 DEF Conns, State
    <3>2. AcceptedFds(l) = 1
      BY <1>0 DEF AcceptedFds
    <3> QED BY <3>1, <3>2, FreshTypes
  <2>2. /\ c.state = "established" /\ c.send_data = l.c.send_data
        /\ c.recv_data = l.c.recv_data /\ (c.socket <=> l.c.socket)
    BY <1>0 DEF Conns
  <2>3. /\ n.wire = <<>> /\ n.accepted = <<>> /\ n.in = <<>> /\ ~n.our_fin
        /\ n.arrived = 0
    BY DEF NewSocket
  <2> HIDE DEF n
  <2>4. e.c = c /\ e.n = n /\ e.fds = 1
    BY <1>0, <1>1, <2>1 DEF Links
  <2>5. e \in Links
    <3> DEFINE m == [l EXCEPT !.n = n, !.fds = 1]
    <3>1. m \in Links /\ m.c = l.c
      BY <1>0, <2>1 DEF Links
    <3>2. e = [m EXCEPT !.c = c]
      BY <1>0, <1>1, <2>1 DEF Links
    <3> HIDE DEF m, c
    <3> QED BY <2>1, <3>1, <3>2 DEF Links
  <2> HIDE DEF c
  <2>6. /\ l.c.recv_data = <<>> /\ l.c.send_data = <<>> /\ d = <<>>
        /\ d \in Bytes
    BY DEF Good, Early
  <2>7. Sent(c, n)
    BY <2>2, <2>3, <2>6, EmptyBytes, ConcatEmptySeq DEF Sent, Bytes
  <2>8. Owned(e) /\ Finished(c, n) /\ Early(c, n, d)
    BY <2>2, <2>3, <2>4 DEF Owned, Finished, Early
  <2>9. Counted(c.recv_data, n.in, d) /\ Whole(c, n, d)
    BY <2>2, <2>3, <2>6, EmptyBytes DEF Counted, Whole
  <2>10. Fits(c.recv_data)
    BY <2>2, <2>6 DEF Fits
  <2> QED BY <2>4, <2>5, <2>6, <2>7, <2>8, <2>9, <2>10 DEF Good
<1> QED BY <1>1 DEF PollListen

\* The queue: what send() takes goes behind what it took before.
LEMMA SendGood ==
    ASSUME NEW l, NEW d, Good(l, d), l.c.socket,
           l.c.state \notin {"listen", "syn_sent"}, NEW e \in PollSend(l)
    PROVE  Good(e, d) /\ (e.c.socket => e.c.state = l.c.state)
<1>0. l \in Links /\ l.c \in Conns /\ l.n \in Nets /\ l.fds \in Nat
  BY DEF Good, Links
<1>1. CASE l.c.send_data = <<>>
  BY <1>1 DEF PollSend
<1>2. CASE l.c.send_data # <<>> /\ l.n.reset
  <2>1. e = CloseTcp(l, FALSE)
    BY <1>2 DEF PollSend
  <2> QED BY <2>1, CloseGood
<1>3. CASE l.c.send_data # <<>> /\ ~l.n.reset
  <2> DEFINE s == l.c.send_data
             w == l.n.wire
  <2>0. s \in Seq(Nat) /\ w \in Seq(Nat) /\ Len(s) \in Nat
    BY <1>0, LenProperties DEF Conns, Nets, Bytes
  <2>1. PICK k \in 0..Len(s) :
            e = [l EXCEPT !.c.send_data = Rest(s, k),
                          !.n.wire = w \o Take(s, k)]
    BY <1>3 DEF PollSend
  <2> DEFINE rest == Rest(s, k)
             wire == w \o Take(s, k)
             c == [l.c EXCEPT !.send_data = rest]
             n == [l.n EXCEPT !.wire = wire]
  <2>2. rest \in Bytes /\ wire \in Bytes /\ wire \o rest = w \o s
    <3>1. Take(s, k) \in Seq(Nat) /\ Rest(s, k) \in Seq(Nat)
      BY <2>0, TakeRest
    <3>2. (w \o Take(s, k)) \o Rest(s, k) = w \o s
      BY <2>0, CutAnywhere
    <3> QED BY <2>0, <3>1, <3>2, ConcatProperties DEF Bytes
  <2>3. e = [l EXCEPT !.c = c, !.n = n]
    BY <1>0, <2>1 DEF Links
  <2> HIDE DEF rest, wire
  <2>4. c \in Conns /\ n \in Nets
    BY <1>0, <2>2 DEF Conns, Nets
  <2>5. /\ c.state = l.c.state /\ c.recv_data = l.c.recv_data
        /\ (c.socket <=> l.c.socket) /\ c.send_data = rest
    BY <1>0 DEF Conns
  <2>6. /\ n.in = l.n.in /\ n.arrived = l.n.arrived /\ (n.reset <=> l.n.reset)
        /\ (n.our_fin <=> l.n.our_fin) /\ n.accepted = l.n.accepted
        /\ n.wire = wire
    BY <1>0 DEF Nets
  <2> HIDE DEF c, n
  <2>7. e.c = c /\ e.n = n /\ e.fds = l.fds
    BY <1>0, <2>3 DEF Links
  <2>8. e \in Links
    BY <1>0, <2>3, <2>4 DEF Links
  <2>9. Sent(c, n)
    BY <2>2, <2>5, <2>6 DEF Good, Sent
  <2>10. ~n.our_fin
    BY <1>3, <2>6 DEF Good, Finished
  <2>11. Owned(e) /\ Finished(c, n) /\ Early(c, n, d)
    BY <2>5, <2>7, <2>10 DEF Good, Owned, Finished, Early
  <2>12. Counted(c.recv_data, n.in, d) /\ Whole(c, n, d)
    BY <2>5, <2>6 DEF Good, Counted, Whole
  <2> QED BY <2>5, <2>7, <2>8, <2>9, <2>11, <2>12 DEF Good
<1> QED BY <1>1, <1>2, <1>3

\* The end of our stream, and the deadline of a handle that was closed.
LEMMA FinGood ==
    ASSUME NEW l, NEW d, Good(l, d), NEW e, e = PollFin(l)
    PROVE  Good(e, d) /\ (e.c.socket => e.c.state = l.c.state)
<1>0. l \in Links /\ l.c \in Conns /\ l.n \in Nets /\ l.fds \in Nat
  BY DEF Good, Links
<1> DEFINE shut == IF MayShutDown(l)
                   THEN [l EXCEPT !.c.fin_sent = TRUE, !.n.our_fin = TRUE]
                   ELSE l
<1>1. CASE l.c.state # "fin_wait"
  BY <1>1 DEF PollFin
<1>2. CASE l.c.state = "fin_wait"
  <2>1. e = IF TimedOut(shut) THEN CloseTcp(shut, TRUE) ELSE shut
    BY <1>2 DEF PollFin
  <2>2. Good(shut, d) /\ shut.c.state = l.c.state
    <3>1. CASE MayShutDown(l)
      <4> DEFINE c == [l.c EXCEPT !.fin_sent = TRUE]
                 n == [l.n EXCEPT !.our_fin = TRUE]
      <4>1. shut = [l EXCEPT !.c = c, !.n = n]
        BY <1>0, <3>1 DEF Links
      <4>2. c \in Conns /\ n \in Nets
        BY <1>0 DEF Conns, Nets
      <4>3. /\ c.state = l.c.state /\ c.recv_data = l.c.recv_data
            /\ (c.socket <=> l.c.socket) /\ c.send_data = l.c.send_data
        BY <1>0 DEF Conns
      <4>4. c.fin_sent
        BY <1>0 DEF Conns
      <4>5. /\ n.in = l.n.in /\ n.arrived = l.n.arrived
            /\ (n.reset <=> l.n.reset) /\ n.accepted = l.n.accepted
            /\ n.wire = l.n.wire
        BY <1>0 DEF Nets
      <4> HIDE DEF c, n, shut
      <4>6. shut.c = c /\ shut.n = n /\ shut.fds = l.fds
        BY <1>0, <4>1 DEF Links
      <4>7. shut \in Links
        BY <1>0, <4>1, <4>2 DEF Links
      <4>8. l.c.socket /\ l.c.send_data = <<>>
        BY <1>2, <3>1 DEF Good, Owned, MayShutDown
      <4>9. Owned(shut) /\ Sent(c, n) /\ Finished(c, n)
        BY <1>2, <4>3, <4>4, <4>5, <4>6, <4>8 DEF Good, Owned, Sent, Finished
      <4>10. Early(c, n, d) /\ Fits(c.recv_data)
        BY <1>2, <4>3 DEF Good, Early
      <4>11. Counted(c.recv_data, n.in, d)
        BY <4>3, <4>5 DEF Good
      <4>12. Whole(c, n, d)
        BY <4>3, <4>5 DEF Good, Whole
      <4> QED BY <4>3, <4>6, <4>7, <4>9, <4>10, <4>11, <4>12 DEF Good
    <3>2. CASE ~MayShutDown(l)
      BY <3>2
    <3> QED BY <3>1, <3>2
  <2> HIDE DEF shut
  <2> QED BY <2>1, <2>2, CloseGood
<1> QED BY <1>1, <1>2

LEMMA MinOfThree ==
    ASSUME NEW a \in Nat, NEW b \in Nat, NEW c \in Nat, NEW m,
           m = Min({a, b, c})
    PROVE  m \in Nat /\ m <= a /\ m <= b /\ m <= c /\ m \in {a, b, c}
<1>1. \E x \in {a, b, c} : \A y \in {a, b, c} : x <= y
  <2>1. CASE a <= b /\ a <= c
    BY <2>1
  <2>2. CASE b <= a /\ b <= c
    BY <2>2
  <2>3. CASE c <= a /\ c <= b
    BY <2>3
  <2> QED BY <2>1, <2>2, <2>3
<1>2. m \in {a, b, c} /\ \A y \in {a, b, c} : m <= y
  BY <1>1 DEF Min
<1> QED BY <1>2

\* Bytes that move from the host to the buffer stay where they are in the
\* peer's stream.
LEMMA CountedMoves ==
    ASSUME NEW r \in Bytes, NEW in \in Bytes, NEW d \in Bytes,
           Counted(r, in, d), NEW k \in 0..Len(in)
    PROVE  /\ r \o Take(in, k) \in Bytes /\ Rest(in, k) \in Bytes
           /\ Len(r \o Take(in, k)) = Len(r) + k
           /\ Len(Rest(in, k)) = Len(in) - k
           /\ Counted(r \o Take(in, k), Rest(in, k), d)
<1> DEFINE t == Take(in, k)
           u == Rest(in, k)
           s == r \o t
<1>0. Len(r) \in Nat /\ Len(in) \in Nat /\ Len(d) \in Nat
  BY LenProperties DEF Bytes
<1>1. /\ t \in Bytes /\ u \in Bytes /\ Len(t) = k /\ Len(u) = Len(in) - k
      /\ \A i \in 1..k : t[i] = in[i]
      /\ \A i \in 1..(Len(in) - k) : u[i] = in[k + i]
  BY TakeRest DEF Bytes
<1> HIDE DEF t, u
<1>2. /\ s \in Bytes /\ Len(s) = Len(r) + k
      /\ \A i \in 1..(Len(r) + k) :
             s[i] = IF i <= Len(r) THEN r[i] ELSE t[i - Len(r)]
  BY <1>1, ConcatProperties DEF Bytes
<1> HIDE DEF s
<1>3. ASSUME NEW i \in 1..Len(s) PROVE s[i] = Len(d) + i
  <2>1. CASE i <= Len(r)
    BY <1>0, <1>2, <2>1 DEF Counted
  <2>2. CASE ~(i <= Len(r))
    <3> DEFINE j == i - Len(r)
    <3>1. j \in 1..k /\ j \in 1..Len(in) /\ i = Len(r) + j
      BY <1>0, <1>2, <2>2
    <3>2. s[i] = t[j] /\ t[j] = in[j] /\ in[j] = Len(d) + Len(r) + j
      BY <1>0, <1>1, <1>2, <2>2, <3>1 DEF Counted
    <3> QED BY <1>0, <3>1, <3>2
  <2> QED BY <2>1, <2>2
<1>4. ASSUME NEW i \in 1..Len(u) PROVE u[i] = Len(d) + Len(s) + i
  <2>1. k + i \in 1..Len(in) /\ i \in 1..(Len(in) - k)
    BY <1>0, <1>1
  <2>2. u[i] = in[k + i] /\ in[k + i] = Len(d) + Len(r) + (k + i)
    BY <1>1, <2>1 DEF Counted
  <2> QED BY <1>0, <1>1, <1>2, <2>2
<1>5. Counted(s, u, d)
  BY <1>3, <1>4 DEF Counted
<1> QED BY <1>1, <1>2, <1>5 DEF t, u, s

\* The receive loop.
LEMMA RecvGood ==
    ASSUME TcpAssumption, NEW l, NEW d, Good(l, d), l.c.socket,
           l.c.state \notin {"listen", "syn_sent"},
           NEW e, e = PollRecv(l)
    PROVE  Good(e, d)
<1>0. l \in Links /\ l.c \in Conns /\ l.n \in Nets /\ l.fds \in Nat
      /\ d \in Bytes
  BY DEF Good, Links
<1> DEFINE r == l.c.recv_data
           in == l.n.in
           room == MaxBuffer - Len(r)
           k == Reads(l)
<1>1. r \in Bytes /\ in \in Bytes /\ Len(r) \in Nat /\ Len(in) \in Nat
  BY <1>0, LenProperties DEF Conns, Nets, Bytes
<1>2. room \in Nat
  BY <1>1, EmptyBytes DEF Good, Fits, TcpAssumption
<1>3. k \in 0..Len(in) /\ k <= room
  <2>1. k = Min({room, RecvRounds, Len(in)})
    BY DEF Reads
  <2>2. RecvRounds \in Nat
    BY DEF TcpAssumption
  <2> HIDE DEF k, room, in
  <2>3. k \in Nat /\ k <= room /\ k <= Len(in)
    BY <1>1, <1>2, <2>1, <2>2, MinOfThree
  <2> QED BY <1>1, <2>3
<1> DEFINE buffer == r \o Take(in, k)
           left == Rest(in, k)
           c == [l.c EXCEPT !.recv_data = buffer]
           n == [l.n EXCEPT !.in = left]
           got == [l EXCEPT !.c.recv_data = buffer, !.n.in = left]
<1>4. /\ buffer \in Bytes /\ left \in Bytes /\ Len(buffer) = Len(r) + k
      /\ Len(left) = Len(in) - k /\ Counted(buffer, left, d)
  BY <1>0, <1>1, <1>3, CountedMoves DEF Good
<1>5. got = [l EXCEPT !.c = c, !.n = n]
  BY <1>0 DEF Links
<1>6. e = IF k = room \/ k = RecvRounds THEN got
          ELSE IF l.n.reset THEN CloseTcp(got, FALSE)
          ELSE IF ~l.n.fin THEN got
          ELSE IF l.c.state = "fin_wait" THEN CloseTcp(got, TRUE)
          ELSE [got EXCEPT !.c.state = "close_wait"]
  BY DEF PollRecv
<1> HIDE DEF got, buffer, left, k
<1>7. c \in Conns /\ n \in Nets
  BY <1>0, <1>4 DEF Conns, Nets
<1>8. /\ c.state = l.c.state /\ c.recv_data = buffer
      /\ (c.socket <=> l.c.socket) /\ (c.fin_sent <=> l.c.fin_sent)
      /\ c.send_data = l.c.send_data
  BY <1>0 DEF Conns
<1>9. /\ n.in = left /\ n.arrived = l.n.arrived /\ (n.reset <=> l.n.reset)
      /\ n.accepted = l.n.accepted /\ n.wire = l.n.wire
      /\ (n.our_fin <=> l.n.our_fin)
  BY <1>0 DEF Nets
<1> HIDE DEF c, n
<1>10. got.c = c /\ got.n = n /\ got.fds = l.fds
  BY <1>0, <1>5 DEF Links
<1>11. got \in Links
  BY <1>0, <1>5, <1>7 DEF Links
<1>12. Owned(got) /\ Sent(c, n) /\ Finished(c, n) /\ Early(c, n, d)
  BY <1>8, <1>9, <1>10 DEF Good, Owned, Sent, Finished, Early
<1>13. Fits(c.recv_data)
  <2>1. MaxBuffer \in Nat
    BY DEF TcpAssumption
  <2>2. Len(buffer) <= MaxBuffer
    BY <1>1, <1>3, <1>4, <2>1
  <2> QED BY <1>8, <2>2 DEF Fits
<1>14. Whole(c, n, d)
  <2>1. Len(d) \in Nat
    BY <1>0, LenProperties DEF Bytes
  <2>2. Len(d) + Len(r) + Len(in) = Len(d) + Len(buffer) + Len(left)
    <3>1. k \in Int /\ Len(buffer) = Len(r) + k /\ Len(left) = Len(in) - k
      BY <1>1, <1>3, <1>4
    <3>2. \A a, b, g, i \in Int : g + a + b = g + (a + i) + (b - i)
      OBVIOUS
    <3> HIDE DEF r, in
    <3> QED BY <1>1, <2>1, <3>1, <3>2
  <2> QED BY <1>8, <1>9, <2>2 DEF Good, Whole
<1>15. Good(got, d)
  BY <1>0, <1>4, <1>8, <1>9, <1>10, <1>11, <1>12, <1>13, <1>14 DEF Good
<1>16. CASE e = [got EXCEPT !.c.state = "close_wait"] /\ l.c.state # "fin_wait"
  <2> DEFINE w == [c EXCEPT !.state = "close_wait"]
  <2>1. w \in Conns
    BY <1>7 DEF Conns, State
  <2>2. e = [got EXCEPT !.c = w]
    BY <1>10, <1>11, <1>16 DEF Links
  <2>3. /\ w.state = "close_wait" /\ w.recv_data = c.recv_data
        /\ (w.socket <=> c.socket) /\ w.send_data = c.send_data
    BY <1>7 DEF Conns
  <2> HIDE DEF w
  <2>4. e.c = w /\ e.n = n /\ e.fds = got.fds /\ e \in Links
    BY <1>10, <1>11, <2>1, <2>2 DEF Links
  <2>5. Owned(e) /\ Sent(w, n) /\ Finished(w, n) /\ Early(w, n, d)
        /\ Whole(w, n, d)
    BY <1>8, <1>10, <1>12, <1>14, <1>16, <2>3, <2>4
       DEF Owned, Sent, Finished, Early, Whole
  <2> QED BY <1>15, <1>10, <2>3, <2>4, <2>5 DEF Good
<1> QED BY <1>6, <1>15, <1>16, CloseGood

\* poll_tcp, the whole of it.
LEMMA PollGood ==
    ASSUME TcpAssumption, NEW l, NEW d, Good(l, d), NEW e \in PollTcp(l)
    PROVE  Good(e, d)
<1>1. CASE ~l.c.socket
  <2>1. l.c.state = "closed"
    BY <1>1 DEF Good, Owned
  <2>2. PollTcp(l) = {l}
    BY <1>1, <2>1 DEF PollTcp
  <2> QED BY <2>2
<1>2. CASE l.c.socket /\ l.c.state = "syn_sent"
  <2>1. e \in PollConnect(l)
    BY <1>2 DEF PollTcp
  <2> QED BY <1>2, <2>1, ConnectGood
<1>3. CASE l.c.socket /\ l.c.state = "listen"
  <2>1. e \in PollListen(l)
    BY <1>3 DEF PollTcp
  <2> QED BY <1>3, <2>1, ListenGood
<1>4. CASE l.c.socket /\ l.c.state \notin {"syn_sent", "listen"}
  <2>1. e \in {LET f == PollFin(s) IN
               IF f.c.socket THEN PollRecv(f) ELSE f : s \in PollSend(l)}
    BY <1>4 DEF PollTcp
  <2>2. PICK s \in PollSend(l) : e = IF PollFin(s).c.socket
                                     THEN PollRecv(PollFin(s)) ELSE PollFin(s)
    BY <2>1
  <2> DEFINE f == PollFin(s)
  <2>3. Good(s, d) /\ (s.c.socket => s.c.state = l.c.state)
    BY <1>4, SendGood
  <2>4. Good(f, d) /\ (f.c.socket => f.c.state = s.c.state)
    BY <2>3, FinGood
  <2>5. e = IF f.c.socket THEN PollRecv(f) ELSE f
    BY <2>2
  <2> HIDE DEF f
  <2>6. CASE f.c.socket
    <3>1. s.c.socket
      <4>1. f.c.state # "closed"
        BY <2>4, <2>6 DEF Good, Owned
      <4> QED BY <2>3, <2>4, <2>6, <4>1 DEF Good, Owned
    <3> QED BY <1>4, <2>3, <2>4, <2>5, <2>6, <3>1, RecvGood
  <2> QED BY <2>4, <2>5, <2>6
<1> QED BY <1>1, <1>2, <1>3, <1>4

(* ----------------------------- the commands ---------------------------- *)

\* graceful_close: a connection that is up may still send what is queued.
LEMMA GracefulGood ==
    ASSUME NEW l, NEW d, Good(l, d), NEW e, e = GracefulClose(l)
    PROVE  Good(e, d)
<1>0. l \in Links /\ l.c \in Conns /\ l.n \in Nets /\ l.fds \in Nat
  BY DEF Good, Links
<1>1. CASE l.c.socket /\ l.c.state \in {"established", "close_wait"}
  <2> DEFINE c == [l.c EXCEPT !.state = "fin_wait",
                              !.close_deadline = "running", !.fin_sent = FALSE]
  <2>1. c \in Conns
    BY <1>0 DEF Conns, State
  <2>2. /\ c.state = "fin_wait" /\ c.recv_data = l.c.recv_data
        /\ (c.socket <=> l.c.socket) /\ c.send_data = l.c.send_data
    BY <1>0 DEF Conns
  <2>3. e = [l EXCEPT !.c = c]
    BY <1>0, <1>1 DEF Links, GracefulClose
  <2> HIDE DEF c
  <2>4. e.c = c /\ e.n = l.n /\ e.fds = l.fds /\ e \in Links
    BY <1>0, <2>1, <2>3 DEF Links
  <2>5. Owned(e) /\ Sent(c, l.n) /\ Finished(c, l.n) /\ Early(c, l.n, d)
        /\ Whole(c, l.n, d)
    BY <1>1, <2>2, <2>4 DEF Good, Owned, Sent, Finished, Early, Whole
  <2> QED BY <2>2, <2>4, <2>5 DEF Good
<1>2. CASE ~(l.c.socket /\ l.c.state \in {"established", "close_wait"})
  BY <1>2, CloseGood DEF GracefulClose
<1> QED BY <1>1, <1>2

LEMMA NewBytesTypes ==
    ASSUME NEW h, NEW length \in Nat, Len(net[h].accepted) \in Nat
    PROVE  NewBytes(h, length) \in Bytes /\ Len(NewBytes(h, length)) = length
<1> DEFINE s == [i \in 1..length |-> Len(net[h].accepted) + i]
<1>1. s \in [1..length -> Nat]
  OBVIOUS
<1>2. s \in Seq(Nat)
  BY <1>1, SeqDef
<1>3. Len(s) = length
  BY <1>1, <1>2, LenProperties
<1> QED BY <1>2, <1>3 DEF NewBytes, Bytes

\* Concatenation of sequences of numbers is associative.
LEMMA ConcatNat ==
    ASSUME NEW a \in Seq(Nat), NEW b \in Seq(Nat), NEW c \in Seq(Nat)
    PROVE  (a \o b) \o c = a \o (b \o c)
BY ONLY a \in Seq(Nat), b \in Seq(Nat), c \in Seq(Nat), ConcatAssociative

\* What one cmd_tcp_send adds, partly on the wire and partly in the queue,
\* continues what was accepted.
LEMMA SentContinues ==
    ASSUME NEW w \in Bytes, NEW s \in Bytes, NEW data \in Bytes,
           NEW sent \in 0..Len(data), s = <<>> \/ sent = 0
    PROVE  /\ w \o Take(data, sent) \in Bytes /\ s \o Rest(data, sent) \in Bytes
           /\ (w \o Take(data, sent)) \o (s \o Rest(data, sent))
              = (w \o s) \o data
<1> DEFINE t == Take(data, sent)
           u == Rest(data, sent)
<1>1. /\ t \in Seq(Nat) /\ u \in Seq(Nat) /\ t \o u = data /\ Len(t) = sent
      /\ w \in Seq(Nat) /\ s \in Seq(Nat) /\ data \in Seq(Nat)
  BY TakeRest DEF Bytes
<1> HIDE DEF t, u
<1>2. w \in Seq(Nat) /\ s \in Seq(Nat) /\ t \in Seq(Nat) /\ u \in Seq(Nat)
  BY <1>1
<1>3. (w \o t) \o (s \o u) = (w \o s) \o data
  <2>1. CASE s = <<>>
    <3>1. s \o u = u /\ w \o s = w
      BY <1>1, <2>1, ConcatEmptySeq
    <3>2. (w \o t) \o u = w \o (t \o u)
      BY <1>2, ConcatNat
    <3> QED BY <1>1, <3>1, <3>2
  <2>2. CASE sent = 0
    <3>1. t = <<>>
      BY <1>1, <2>2, EmptySeq
    <3>2. w \o t = w /\ u = data
      BY <1>1, <3>1, ConcatEmptySeq
    <3>3. (w \o s) \o u = w \o (s \o u)
      BY <1>2, ConcatNat
    <3> QED BY <3>2, <3>3
  <2> QED BY <2>1, <2>2
<1>4. w \o t \in Seq(Nat) /\ s \o u \in Seq(Nat)
  BY <1>1, ConcatProperties
<1> QED BY <1>3, <1>4 DEF t, u, Bytes

\* tcp_recv: the guest takes what is next.
LEMMA CountedTaken ==
    ASSUME NEW r \in Bytes, NEW in \in Bytes, NEW d \in Bytes,
           Counted(r, in, d), NEW k \in 0..Len(r)
    PROVE  /\ d \o Take(r, k) \in Bytes /\ Rest(r, k) \in Bytes
           /\ Len(d \o Take(r, k)) + Len(Rest(r, k)) = Len(d) + Len(r)
           /\ Len(Rest(r, k)) = Len(r) - k
           /\ Counted(Rest(r, k), in, d \o Take(r, k))
<1> DEFINE t == Take(r, k)
           u == Rest(r, k)
           s == d \o t
<1>0. Len(r) \in Nat /\ Len(in) \in Nat /\ Len(d) \in Nat
  BY LenProperties DEF Bytes
<1>1. /\ t \in Bytes /\ u \in Bytes /\ Len(t) = k /\ Len(u) = Len(r) - k
      /\ \A i \in 1..k : t[i] = r[i]
      /\ \A i \in 1..(Len(r) - k) : u[i] = r[k + i]
  BY TakeRest DEF Bytes
<1> HIDE DEF t, u
<1>2. /\ s \in Bytes /\ Len(s) = Len(d) + k
      /\ \A i \in 1..(Len(d) + k) :
             s[i] = IF i <= Len(d) THEN d[i] ELSE t[i - Len(d)]
  BY <1>1, ConcatProperties DEF Bytes
<1> HIDE DEF s
<1>3. Len(s) + Len(u) = Len(d) + Len(r)
  <2>1. k \in Int
    OBVIOUS
  <2> QED BY <1>0, <1>1, <1>2, <2>1
<1>4. ASSUME NEW i \in 1..Len(s) PROVE s[i] = i
  <2>1. CASE i <= Len(d)
    BY <1>0, <1>2, <2>1 DEF Counted
  <2>2. CASE ~(i <= Len(d))
    <3> DEFINE j == i - Len(d)
    <3>1. j \in 1..k /\ j \in 1..Len(r) /\ i = Len(d) + j
      BY <1>0, <1>2, <2>2
    <3>2. s[i] = t[j] /\ t[j] = r[j] /\ r[j] = Len(d) + j
      BY <1>0, <1>1, <1>2, <2>2, <3>1 DEF Counted
    <3> QED BY <1>0, <3>1, <3>2
  <2> QED BY <2>1, <2>2
<1>5. ASSUME NEW i \in 1..Len(u) PROVE u[i] = Len(s) + i
  <2>1. k + i \in 1..Len(r) /\ i \in 1..(Len(r) - k)
    BY <1>0, <1>1
  <2>2. u[i] = r[k + i] /\ r[k + i] = Len(d) + (k + i)
    BY <1>1, <2>1 DEF Counted
  <2> QED BY <1>0, <1>1, <1>2, <2>2
<1>6. Counted(u, in, s)
  BY <1>3, <1>4, <1>5 DEF Counted
<1> QED BY <1>1, <1>2, <1>3, <1>6 DEF t, u, s

(* -------------------------- the TCP invariant -------------------------- *)

TcpInv ==
    /\ conn \in [TcpHandle -> Conns] /\ net \in [TcpHandle -> Nets]
    /\ descriptors \in [TcpHandle -> Nat] /\ delivered \in [TcpHandle -> Bytes]
    /\ \A h \in TcpHandle : Good(Link(h), delivered[h])

\* The parts of a link are the link.
LEMMA Rebuilt ==
    ASSUME NEW l, NEW d, Good(l, d),
           NEW e, e = [c |-> l.c, n |-> l.n, fds |-> l.fds]
    PROVE  Good(e, d)
<1>1. l.c \in Conns /\ l.n \in Nets /\ l.fds \in Nat
  BY DEF Good, Links
<1>2. e \in Links /\ e.c = l.c /\ e.n = l.n /\ e.fds = l.fds
  BY <1>1 DEF Links
<1> QED BY <1>2 DEF Good, Owned

\* The history of a stream may go with its last byte.
LEMMA ForgetGood ==
    ASSUME NEW l, NEW d, Good(l, d), ~l.c.socket, l.c.recv_data = <<>>
    PROVE  Good(l, <<>>)
<1>1. l.n.in = <<>>
  BY DEF Good, Sent
<1>2. Counted(<<>>, <<>>, <<>>)
  BY EmptyBytes DEF Counted
<1> QED BY <1>1, <1>2, EmptyBytes DEF Good, Early, Whole

\* Every handle good, every history kept or gone with its stream.
LEMMA AllGood ==
    ASSUME TcpInv, NEW links, ForgetCleared,
           \A h \in TcpHandle : Good(links[h], delivered[h]),
           conn' \in [TcpHandle -> Conns], net' \in [TcpHandle -> Nets],
           descriptors' \in [TcpHandle -> Nat],
           \A h \in TcpHandle : /\ conn'[h] = links[h].c /\ net'[h] = links[h].n
                                /\ descriptors'[h] = links[h].fds
    PROVE  TcpInv'
<1>1. ASSUME NEW h \in TcpHandle
      PROVE  delivered'[h] \in Bytes /\ Good(Link(h), delivered[h])'
  <2>1. Link(h)' = [c |-> links[h].c, n |-> links[h].n, fds |-> links[h].fds]
    BY DEF Link
  <2> DEFINE e == Link(h)'
  <2>2. Good(e, delivered[h])
    BY <2>1, Rebuilt
  <2>3. e.c = conn'[h]
    BY DEF Link
  <2> HIDE DEF e
  <2>4. CASE ~conn'[h].socket /\ conn'[h].recv_data = <<>>
    <3>1. delivered'[h] = <<>>
      BY <2>4 DEF ForgetCleared
    <3>2. Good(e, <<>>)
      BY <2>2, <2>3, <2>4, ForgetGood
    <3> QED BY <3>1, <3>2, EmptyBytes DEF e, Good
  <2>5. CASE ~(~conn'[h].socket /\ conn'[h].recv_data = <<>>)
    <3>1. delivered'[h] = delivered[h]
      BY <2>5 DEF ForgetCleared
    <3> QED BY <2>2, <3>1 DEF e, Good, TcpInv
  <2> QED BY <2>4, <2>5
<1>2. delivered' \in [TcpHandle -> Bytes]
  BY <1>1 DEF ForgetCleared
<1> QED BY <1>1, <1>2 DEF TcpInv

LEMMA PutGood ==
    ASSUME TcpInv, NEW links, ForgetCleared, Put(links),
           \A h \in TcpHandle : Good(links[h], delivered[h])
    PROVE  TcpInv'
<1>1. \A h \in TcpHandle : /\ links[h].c \in Conns /\ links[h].n \in Nets
                           /\ links[h].fds \in Nat
  BY DEF Good, Links
<1>2. /\ conn' \in [TcpHandle -> Conns] /\ net' \in [TcpHandle -> Nets]
      /\ descriptors' \in [TcpHandle -> Nat]
  BY <1>1 DEF Put
<1>3. \A h \in TcpHandle : /\ conn'[h] = links[h].c /\ net'[h] = links[h].n
                           /\ descriptors'[h] = links[h].fds
  BY DEF Put
<1> QED BY <1>2, <1>3, AllGood

LEMMA PutOneGood ==
    ASSUME TcpInv, NEW h \in TcpHandle, NEW l, ForgetCleared, PutOne(h, l),
           Good(l, delivered[h])
    PROVE  TcpInv'
<1> DEFINE links == [g \in TcpHandle |-> IF g = h THEN l ELSE Link(g)]
<1>1. \A g \in TcpHandle : Good(links[g], delivered[g])
  BY DEF TcpInv
<1>2. l.c \in Conns /\ l.n \in Nets /\ l.fds \in Nat
  BY DEF Good, Links
<1>3. /\ conn' \in [TcpHandle -> Conns] /\ net' \in [TcpHandle -> Nets]
      /\ descriptors' \in [TcpHandle -> Nat]
  BY <1>2 DEF PutOne, TcpInv
<1>4. \A g \in TcpHandle : /\ conn'[g] = links[g].c /\ net'[g] = links[g].n
                           /\ descriptors'[g] = links[g].fds
  BY DEF PutOne, TcpInv, Link
<1> HIDE DEF links
<1> QED BY <1>1, <1>3, <1>4, AllGood

\* unapinet_poll: what a call of poll_tcp may leave behind, for every handle.
LEMMA PollAllKeeps ==
    ASSUME TcpAssumption, TcpInv, PollAllTcp PROVE TcpInv'
<1>1. PICK links : /\ Put(links)
                   /\ \A h \in TcpHandle : links[h] \in Polled(h)
  BY DEF PollAllTcp
<1>2. ForgetCleared
  BY DEF PollAllTcp
<1>3. \A h \in TcpHandle : Good(links[h], delivered[h])
  BY <1>1, PollGood DEF TcpInv, Polled
<1> QED BY <1>1, <1>2, <1>3, PutGood

LEMMA CloseAllKeeps ==
    ASSUME TcpInv, TcpCloseAll \/ ResetTcp PROVE TcpInv'
<1>1. CASE TcpCloseAll
  <2> DEFINE links == [h \in TcpHandle |->
                 IF ~conn[h].resident /\ conn[h].socket
                 THEN GracefulClose(Link(h)) ELSE Link(h)]
  <2>1. Put(links) /\ ForgetCleared
    BY <1>1 DEF TcpCloseAll
  <2>2. \A h \in TcpHandle : Good(links[h], delivered[h])
    BY GracefulGood DEF TcpInv
  <2> HIDE DEF links
  <2> QED BY <2>1, <2>2, PutGood
<1>2. CASE ResetTcp
  <2> DEFINE links == [h \in TcpHandle |-> CloseTcp(Link(h), TRUE)]
  <2>1. Put(links) /\ ForgetCleared
    BY <1>2 DEF ResetTcp
  <2>2. \A h \in TcpHandle : Good(links[h], delivered[h])
    BY CloseGood DEF TcpInv
  <2> HIDE DEF links
  <2> QED BY <2>1, <2>2, PutGood
<1> QED BY <1>1, <1>2

LEMMA CloseOneKeeps ==
    ASSUME TcpInv, NEW h \in TcpHandle, TcpClose(h) \/ TcpAbort(h) PROVE TcpInv'
<1>1. Good(Link(h), delivered[h])
  BY DEF TcpInv
<1>2. CASE TcpClose(h)
  BY <1>1, <1>2, GracefulGood, PutOneGood DEF TcpClose
<1>3. CASE TcpAbort(h)
  BY <1>1, <1>3, CloseGood, PutOneGood DEF TcpAbort
<1> QED BY <1>2, <1>3

\* A step that changes one handle and its history.
LEMMA OneKeeps ==
    ASSUME TcpInv, NEW h \in TcpHandle, NEW l, NEW d, PutOne(h, l),
           delivered' = [delivered EXCEPT ![h] = d], Good(l, d)
    PROVE  TcpInv'
<1>1. l.c \in Conns /\ l.n \in Nets /\ l.fds \in Nat
  BY DEF Good, Links
<1>2. /\ conn' \in [TcpHandle -> Conns] /\ net' \in [TcpHandle -> Nets]
      /\ descriptors' \in [TcpHandle -> Nat]
      /\ delivered' \in [TcpHandle -> Bytes]
  BY <1>1 DEF PutOne, TcpInv, Good
<1>3. ASSUME NEW g \in TcpHandle PROVE Good(Link(g), delivered[g])'
  <2>1. CASE g = h
    <3>1. Link(g)' = [c |-> l.c, n |-> l.n, fds |-> l.fds]
          /\ delivered'[g] = d
      BY <2>1 DEF Link, PutOne, TcpInv
    <3> QED BY <3>1, Rebuilt
  <2>2. CASE g # h
    <3>1. Link(g)' = Link(g) /\ delivered'[g] = delivered[g]
      BY <2>2 DEF Link, PutOne, TcpInv
    <3> QED BY <3>1 DEF TcpInv
  <2> QED BY <2>1, <2>2
<1> QED BY <1>2, <1>3 DEF TcpInv

\* A handle that was just opened, or that could not be.
LEMMA FreshGood ==
    ASSUME NEW e \in Links, e.c.recv_data = <<>>, e.c.send_data = <<>>, Owned(e),
           e.n.in = <<>>, e.n.wire = <<>>, e.n.accepted = <<>>, ~e.n.our_fin,
           e.n.arrived = 0
    PROVE  Good(e, <<>>)
<1>1. <<>> \o <<>> = <<>>
  BY EmptyBytes, ConcatEmptySeq DEF Bytes
<1>2. Sent(e.c, e.n) /\ Finished(e.c, e.n) /\ Early(e.c, e.n, <<>>)
  BY <1>1 DEF Sent, Finished, Early
<1>3. Counted(<<>>, <<>>, <<>>)
  BY EmptyBytes DEF Counted
<1>4. Whole(e.c, e.n, <<>>)
  BY EmptyBytes DEF Whole
<1> QED BY <1>2, <1>3, <1>4, EmptyBytes DEF Good, Fits

LEMMA FreeHandle ==
    ASSUME TcpInv, NEW h \in TcpHandle, Free(h)
    PROVE  descriptors[h] = 0
<1>1. Good(Link(h), delivered[h])
  BY DEF TcpInv
<1> QED BY <1>1 DEF Free, Good, Owned, Link

LEMMA ListenKeeps ==
    ASSUME TcpInv, NEW h \in TcpHandle, NEW p \in Peer \cup {NoPeer},
           NEW resident \in BOOLEAN, TcpListen(h, p, resident)
    PROVE  TcpInv'
<1>1. descriptors[h] = 0
  BY FreeHandle DEF TcpListen
<1>2. PICK ok \in BOOLEAN :
        PutOne(h, [c |-> [Closed EXCEPT !.filter = IF ok THEN p ELSE NoPeer,
                            !.resident = resident, !.socket = ok,
                            !.state = IF ok THEN "listen" ELSE "closed"],
                   n |-> NewSocket("none"),
                   fds |-> descriptors[h] + (IF ok THEN 1 ELSE 0)])
  BY DEF TcpListen
<1> DEFINE filter == IF ok THEN p ELSE NoPeer
           state == IF ok THEN "listen" ELSE "closed"
           c == [Closed EXCEPT !.filter = filter, !.resident = resident,
                               !.socket = ok, !.state = state]
           n == NewSocket("none")
           fds == descriptors[h] + (IF ok THEN 1 ELSE 0)
           l == [c |-> c, n |-> n, fds |-> fds]
<1>3. filter \in Peer \cup {NoPeer} /\ state \in State
      /\ (ok <=> state # "closed")
  BY DEF State
<1>4. fds = IF ok THEN 1 ELSE 0
  BY <1>1
<1>5. PutOne(h, l)
  BY <1>2
<1> HIDE DEF filter, state, fds
<1>6. c \in Conns
  BY <1>3, FreshTypes DEF Conns
<1>7. c.recv_data = <<>> /\ c.send_data = <<>> /\ c.state = state
  BY DEF Closed
<1>8. c.socket <=> ok
  BY DEF Closed
<1>9. n \in Nets /\ n.in = <<>> /\ n.wire = <<>> /\ n.accepted = <<>>
      /\ ~n.our_fin /\ n.arrived = 0
  BY FreshTypes DEF NewSocket
<1> HIDE DEF c, n
<1>10. l \in Links /\ l.c = c /\ l.n = n /\ l.fds = fds
  BY <1>4, <1>6, <1>9 DEF Links
<1>11. Owned(l)
  BY <1>3, <1>4, <1>7, <1>8, <1>10 DEF Owned
<1>12. Good(l, <<>>)
  BY <1>7, <1>9, <1>10, <1>11, FreshGood
<1>13. delivered' = [delivered EXCEPT ![h] = <<>>]
  BY DEF TcpListen
<1> HIDE DEF l
<1> QED BY <1>5, <1>12, <1>13, OneKeeps

LEMMA ConnectKeeps ==
    ASSUME TcpInv, NEW h \in TcpHandle, NEW resident \in BOOLEAN,
           TcpConnect(h, resident)
    PROVE  TcpInv'
<1>1. descriptors[h] = 0
  BY FreeHandle DEF TcpConnect
<1>2. PICK result \in {"established", "syn_sent", "closed"} :
        PutOne(h, [c |-> [Closed EXCEPT !.resident = resident,
                            !.socket = result # "closed", !.state = result],
                   n |-> NewSocket(IF result = "syn_sent" THEN "pending" ELSE "up"),
                   fds |-> descriptors[h] + (IF result # "closed" THEN 1 ELSE 0)])
  BY DEF TcpConnect
<1> DEFINE ok == result # "closed"
           c == [Closed EXCEPT !.resident = resident, !.socket = ok,
                               !.state = result]
           n == NewSocket(IF result = "syn_sent" THEN "pending" ELSE "up")
           fds == descriptors[h] + (IF ok THEN 1 ELSE 0)
           l == [c |-> c, n |-> n, fds |-> fds]
<1>3. ok \in BOOLEAN /\ result \in State /\ (ok <=> result # "closed")
  BY DEF State
<1>4. fds = IF ok THEN 1 ELSE 0
  BY <1>1
<1>5. PutOne(h, l)
  BY <1>2
<1>9. n \in Nets /\ n.in = <<>> /\ n.wire = <<>> /\ n.accepted = <<>>
      /\ ~n.our_fin /\ n.arrived = 0
  BY FreshTypes DEF NewSocket
<1> HIDE DEF ok, n, fds
<1>6. c \in Conns
  BY <1>3, FreshTypes DEF Conns
<1>7. c.recv_data = <<>> /\ c.send_data = <<>> /\ c.state = result
  BY DEF Closed
<1>8. c.socket <=> ok
  BY DEF Closed
<1> HIDE DEF c
<1>10. l \in Links /\ l.c = c /\ l.n = n /\ l.fds = fds
  BY <1>4, <1>6, <1>9 DEF Links
<1>11. Owned(l)
  BY <1>3, <1>4, <1>7, <1>8, <1>10 DEF Owned
<1>12. Good(l, <<>>)
  BY <1>7, <1>9, <1>10, <1>11, FreshGood
<1>13. delivered' = [delivered EXCEPT ![h] = <<>>]
  BY DEF TcpConnect
<1> HIDE DEF l
<1> QED BY <1>5, <1>12, <1>13, OneKeeps

\* cmd_tcp_send on a connection that is up: what it leaves behind.
LEMMA AddedGood ==
    ASSUME NEW l, NEW d, Good(l, d), l.c.socket,
           l.c.state \in {"established", "close_wait"},
           NEW wire \in Bytes, NEW queue \in Bytes, NEW accepted \in Bytes,
           wire \o queue = accepted,
           NEW e, e = [l EXCEPT !.c = [l.c EXCEPT !.send_data = queue],
                                !.n = [l.n EXCEPT !.wire = wire,
                                                  !.accepted = accepted]]
    PROVE  Good(e, d)
<1>0. l \in Links /\ l.c \in Conns /\ l.n \in Nets /\ l.fds \in Nat
  BY DEF Good, Links
<1> DEFINE c == [l.c EXCEPT !.send_data = queue]
           n == [l.n EXCEPT !.wire = wire, !.accepted = accepted]
<1>1. c \in Conns /\ n \in Nets
  BY <1>0 DEF Conns, Nets
<1>2. /\ c.state = l.c.state /\ c.recv_data = l.c.recv_data
      /\ (c.socket <=> l.c.socket) /\ c.send_data = queue
  BY <1>0 DEF Conns
<1>3. /\ n.in = l.n.in /\ n.arrived = l.n.arrived
      /\ n.accepted = accepted /\ n.wire = wire
  BY <1>0 DEF Nets
<1>4. (n.reset <=> l.n.reset) /\ (n.our_fin <=> l.n.our_fin)
  BY <1>0 DEF Nets
<1>5. e = [l EXCEPT !.c = c, !.n = n]
  OBVIOUS
<1> HIDE DEF c, n
<1>6. e.c = c /\ e.n = n /\ e.fds = l.fds /\ e \in Links
  BY <1>0, <1>1, <1>5 DEF Links
<1>7. ~l.n.our_fin
  BY DEF Good, Finished
<1>8. Owned(e) /\ Sent(c, n) /\ Finished(c, n) /\ Early(c, n, d)
      /\ Whole(c, n, d)
  BY <1>2, <1>3, <1>4, <1>6, <1>7
     DEF Good, Owned, Sent, Finished, Early, Whole
<1> QED BY <1>2, <1>3, <1>6, <1>8 DEF Good

LEMMA SendKeeps ==
    ASSUME TcpAssumption, TcpInv, NEW h \in TcpHandle,
           NEW length \in 0..MaxLength, TcpSend(h, length)
    PROVE  TcpInv'
<1> DEFINE l == Link(h)
           data == NewBytes(h, length)
           direct == SendsDirectly(l, length)
           w == l.n.wire
           s == l.c.send_data
           a == l.n.accepted
           d == delivered[h]
<1>0. MaxLength \in Nat /\ MaxBuffer \in Nat /\ MaxLength <= MaxBuffer
      /\ length \in Nat /\ length <= MaxLength
  BY DEF TcpAssumption
<1>1. Good(l, d) /\ ForgetCleared
  BY DEF TcpInv, TcpSend
<1>2. l \in Links /\ l.c \in Conns /\ l.n \in Nets /\ l.fds \in Nat
  BY <1>1 DEF Good, Links
<1>3. w \in Bytes /\ s \in Bytes /\ a \in Bytes /\ Len(s) \in Nat
  BY <1>2, LenProperties DEF Conns, Nets, Bytes
<1>4. data \in Bytes /\ Len(data) = length
  <2>1. net[h].accepted \in Bytes
    BY <1>3 DEF Link
  <2>2. Len(net[h].accepted) \in Nat
    BY <2>1, LenProperties DEF Bytes
  <2> QED BY <1>0, <2>2, NewBytesTypes
<1>5. l.c.socket /\ l.c.state \in {"established", "close_wait"}
  BY DEF TcpSend
<1>6. CASE direct /\ l.n.reset
  <2>1. PutOne(h, CloseTcp(l, FALSE))
    BY <1>6 DEF TcpSend
  <2> QED BY <1>1, <2>1, CloseGood, PutOneGood
<1>7. CASE ~(direct /\ l.n.reset)
  <2>1. PICK sent \in IF direct THEN 0..length ELSE {0} :
          LET on_wire == [l EXCEPT !.n.wire = @ \o Take(data, sent)]
          IN IF Len(l.c.send_data) + length - sent > MaxBuffer
             THEN PutOne(h, on_wire)
             ELSE PutOne(h, [on_wire EXCEPT
                                 !.c.send_data = @ \o Rest(data, sent),
                                 !.n.accepted = @ \o data])
    BY <1>7 DEF TcpSend
  <2>2. sent \in 0..Len(data) /\ (s = <<>> \/ sent = 0)
    BY <1>0, <1>4, <2>1 DEF SendsDirectly
  <2> DEFINE wire == w \o Take(data, sent)
             queue == s \o Rest(data, sent)
             accepted == a \o data
             on_wire == [l EXCEPT !.n.wire = w \o Take(data, sent)]
             m == [l.n EXCEPT !.wire = wire]
  <2>3. wire \in Bytes /\ queue \in Bytes /\ wire \o queue = (w \o s) \o data
    <3> HIDE DEF data, w, s
    <3>1. w \in Bytes /\ s \in Bytes /\ data \in Bytes
      BY <1>3, <1>4
    <3>2. sent \in 0..Len(data) /\ (s = <<>> \/ sent = 0)
      BY <2>2
    <3> QED BY ONLY <3>1, <3>2, SentContinues
  <2>4. w \o s = a
    BY <1>1, <1>5 DEF Good, Sent
  <2>5. accepted \in Bytes
    BY <1>3, <1>4, ConcatProperties DEF Bytes
  <2>6. CASE Len(s) + length - sent > MaxBuffer
    <3>1. PutOne(h, on_wire)
      BY <2>1, <2>6
    <3>2. sent = 0
      <4>1. CASE s = <<>>
        <5>1. Len(s) = 0 /\ sent \in Nat /\ sent <= length
          BY <1>4, <2>2, <4>1, EmptySeq
        <5> QED BY <1>0, <2>6, <5>1
      <4> QED BY <2>2, <4>1
    <3>3. Take(data, sent) = <<>>
      <4>1. /\ Take(data, sent) \in Seq(Nat)
            /\ Len(Take(data, sent)) = sent
        BY <1>4, <2>2, TakeRest DEF Bytes
      <4> QED BY <3>2, <4>1, EmptySeq
    <3>4. wire = w
      BY <1>3, <3>3, ConcatEmptySeq DEF Bytes
    <3>5. on_wire = l
      BY <1>2, <3>4 DEF Links, Nets
    <3> QED BY <1>1, <3>1, <3>5, PutOneGood
  <2>7. CASE ~(Len(s) + length - sent > MaxBuffer)
    <3> DEFINE e == [on_wire EXCEPT !.c.send_data = @ \o Rest(data, sent),
                                    !.n.accepted = @ \o data]
               f == [l EXCEPT !.c = [l.c EXCEPT !.send_data = queue],
                              !.n = [l.n EXCEPT !.wire = wire,
                                                !.accepted = accepted]]
    <3>1. PutOne(h, e)
      BY <2>1, <2>7
    <3>2. Good(f, d)
      BY <1>1, <1>5, <2>3, <2>4, <2>5, AddedGood
    <3>3. on_wire = [l EXCEPT !.n = m] /\ m \in Nets
      BY <1>2, <2>3 DEF Links, Nets
    <3>4. on_wire.c = l.c /\ on_wire.n = m /\ on_wire.fds = l.fds
          /\ on_wire \in Links
      BY <1>2, <3>3 DEF Links
    <3>5. e = [on_wire EXCEPT !.c = [l.c EXCEPT !.send_data = queue],
                              !.n = [m EXCEPT !.accepted = accepted]]
      <4>1. m.accepted = a
        BY <1>2 DEF Nets
      <4> HIDE DEF m, on_wire, data
      <4> QED BY <1>2, <3>4, <4>1 DEF Links, Conns, Nets
    <3>6. e = f
      <4>1. [m EXCEPT !.accepted = accepted]
            = [l.n EXCEPT !.wire = wire, !.accepted = accepted]
        BY <1>2 DEF Nets
      <4> DEFINE c1 == [l.c EXCEPT !.send_data = queue]
                 n1 == [l.n EXCEPT !.wire = wire, !.accepted = accepted]
      <4>2. e = [on_wire EXCEPT !.c = c1, !.n = n1]
        BY <3>5, <4>1
      <4>3. f = [l EXCEPT !.c = c1, !.n = n1]
        OBVIOUS
      <4> HIDE DEF c1, n1, e, f, m
      <4>4. [on_wire EXCEPT !.c = c1, !.n = n1] = [l EXCEPT !.c = c1, !.n = n1]
        BY <1>2, <3>3 DEF Links
      <4> QED BY <4>2, <4>3, <4>4
    <3> HIDE DEF e, f
    <3>7. PutOne(h, f) /\ Good(f, d)
      BY <3>1, <3>2, <3>6
    <3> QED BY <1>1, <3>7, PutOneGood
  <2> QED BY <2>6, <2>7
<1> QED BY <1>6, <1>7

\* cmd_tcp_recv: from the buffer to the guest.
LEMMA TakenGood ==
    ASSUME TcpAssumption, NEW l, NEW d, Good(l, d),
           NEW k \in 0..Len(l.c.recv_data), k > 0,
           NEW e, e = [l EXCEPT !.c = [l.c EXCEPT
                                           !.recv_data = Rest(l.c.recv_data, k)]]
    PROVE  Good(e, d \o Take(l.c.recv_data, k))
<1>0. l \in Links /\ l.c \in Conns /\ l.n \in Nets /\ l.fds \in Nat
      /\ d \in Bytes
  BY DEF Good, Links
<1> DEFINE r == l.c.recv_data
           in == l.n.in
           u == Rest(r, k)
           seen == d \o Take(r, k)
           c == [l.c EXCEPT !.recv_data = u]
<1>1. r \in Bytes /\ in \in Bytes /\ Len(r) \in Nat /\ Len(in) \in Nat
      /\ Len(d) \in Nat
  BY <1>0, LenProperties DEF Conns, Nets, Bytes
<1>2. Counted(r, in, d) /\ Fits(r)
  BY DEF Good
<1>3. k \in 0..Len(r)
  OBVIOUS
<1>4. /\ seen \in Bytes /\ u \in Bytes
      /\ Len(seen) + Len(u) = Len(d) + Len(r) /\ Len(u) = Len(r) - k
      /\ Counted(u, in, seen)
  <2> HIDE DEF r, in
  <2> QED BY <1>0, <1>1, <1>2, <1>3, CountedTaken
<1>5. Len(seen) \in Nat /\ Len(u) \in Nat
  BY <1>4, LenProperties DEF Bytes
<1>6. r # <<>>
  BY <1>3, EmptyBytes
<1> HIDE DEF u, seen
<1>7. c \in Conns
  BY <1>0, <1>4 DEF Conns
<1>8. /\ c.state = l.c.state /\ c.recv_data = u /\ (c.socket <=> l.c.socket)
      /\ (c.fin_sent <=> l.c.fin_sent) /\ c.send_data = l.c.send_data
  BY <1>0 DEF Conns
<1>9. e = [l EXCEPT !.c = c]
  BY DEF u
<1> HIDE DEF c
<1>10. e.c = c /\ e.n = l.n /\ e.fds = l.fds /\ e \in Links
  BY <1>0, <1>7, <1>9 DEF Links
<1>11. Owned(e) /\ Sent(c, l.n) /\ Finished(c, l.n)
  BY <1>8, <1>10 DEF Good, Owned, Sent, Finished
<1>12. Early(c, l.n, seen)
  BY <1>6, <1>8 DEF Good, Early
<1>13. Fits(u)
  <2>1. MaxBuffer \in Nat
    BY DEF TcpAssumption
  <2> QED BY <1>1, <1>2, <1>3, <1>4, <1>6, <2>1 DEF Fits
<1>14. Whole(c, l.n, seen)
  <2>1. Whole(l.c, l.n, d)
    BY DEF Good
  <2> QED BY <1>4, <1>8, <2>1 DEF Whole
<1>15. Good(e, seen)
  BY <1>4, <1>8, <1>10, <1>11, <1>12, <1>13, <1>14 DEF Good
<1> QED BY <1>15 DEF seen

LEMMA RecvKeeps ==
    ASSUME TcpAssumption, TcpInv, NEW h \in TcpHandle,
           NEW maximum \in 1..MaxBuffer, TcpRecv(h, maximum)
    PROVE  TcpInv'
<1> DEFINE l == Link(h)
           d == delivered[h]
           r == conn[h].recv_data
           k == IF Len(r) < maximum THEN Len(r) ELSE maximum
           c == [l.c EXCEPT !.recv_data = Rest(r, k)]
           e == [l EXCEPT !.c = c]
<1>1. Good(l, d) /\ l.c = conn[h] /\ l.n = net[h] /\ l.fds = descriptors[h]
      /\ l \in Links /\ l.c \in Conns
  BY DEF TcpInv, Link, Good
<1>2. r \in Bytes /\ Len(r) \in Nat
  BY <1>1, LenProperties DEF Conns, Bytes
<1>3. maximum \in Nat
  BY DEF TcpAssumption
<1>4. k > 0
  BY DEF TcpRecv
<1>5. k \in 0..Len(r)
  BY <1>2, <1>3
<1>6. Good(e, d \o Take(r, k))
  <2> HIDE DEF l, k
  <2> QED BY <1>1, <1>4, <1>5, TakenGood
<1>7. /\ delivered' = [delivered EXCEPT ![h] = d \o Take(r, k)]
      /\ conn' = [conn EXCEPT ![h] = c] /\ net' = net
      /\ descriptors' = descriptors
  <2>1. /\ delivered' = [delivered EXCEPT ![h] = @ \o Take(r, k)]
        /\ conn' = [conn EXCEPT ![h].recv_data = Rest(@, k)] /\ net' = net
        /\ descriptors' = descriptors
    BY DEF TcpRecv
  <2> HIDE DEF k
  <2> QED BY <1>1, <2>1 DEF TcpInv
<1>8. e.c = c /\ e.n = net[h] /\ e.fds = descriptors[h]
  BY <1>1 DEF Link
<1> HIDE DEF e, c
<1>9. PutOne(h, e)
  BY <1>7, <1>8 DEF PutOne, TcpInv
<1> QED BY <1>6, <1>7, <1>9, OneKeeps

(* ---------------------------- the outside ------------------------------ *)

LEMMA NetworkOne ==
    ASSUME TcpInv, NEW h \in TcpHandle, NEW n, Network(h, n),
           NEW e, e = [c |-> conn[h], n |-> n, fds |-> descriptors[h]],
           Good(e, delivered[h])
    PROVE  TcpInv'
<1>1. e.c = conn[h] /\ e.n = n /\ e.fds = descriptors[h]
  OBVIOUS
<1>2. PutOne(h, e)
  BY <1>1 DEF Network, PutOne, TcpInv
<1>3. delivered' = [delivered EXCEPT ![h] = delivered[h]]
  BY DEF Network, TcpInv
<1> QED BY <1>2, <1>3, OneKeeps

\* What the far end does leaves our half of the stream alone.
LEMMA FarEndGood ==
    ASSUME NEW l, NEW d, Good(l, d), l.c.socket, NEW n \in Nets,
           n.wire = l.n.wire, n.accepted = l.n.accepted,
           n.our_fin <=> l.n.our_fin,
           Counted(l.c.recv_data, n.in, d), Whole(l.c, n, d),
           NEW e, e = [c |-> l.c, n |-> n, fds |-> l.fds]
    PROVE  Good(e, d)
<1>1. l.c \in Conns /\ l.fds \in Nat
  BY DEF Good, Links
<1>2. e \in Links /\ e.c = l.c /\ e.n = n /\ e.fds = l.fds
  BY <1>1 DEF Links
<1>3. Owned(e) /\ Sent(e.c, e.n) /\ Finished(e.c, e.n) /\ Early(e.c, e.n, d)
  BY <1>2 DEF Good, Owned, Sent, Finished, Early
<1> QED BY <1>2, <1>3 DEF Good

LEMMA HandshakeKeeps ==
    ASSUME TcpInv, NEW h \in TcpHandle, Handshake(h) PROVE TcpInv'
<1> DEFINE l == Link(h)
           d == delivered[h]
<1>1. PICK result \in {"up", "refused"} :
          Network(h, [net[h] EXCEPT !.conn = result])
  BY DEF Handshake
<1> DEFINE n == [net[h] EXCEPT !.conn = result]
           e == [c |-> conn[h], n |-> n, fds |-> descriptors[h]]
<1>2. Good(l, d) /\ l.c = conn[h] /\ l.n = net[h] /\ l.fds = descriptors[h]
      /\ net[h] \in Nets /\ l.c.socket
  BY DEF TcpInv, Link, Handshake
<1>3. n \in Nets /\ n.wire = l.n.wire /\ n.accepted = l.n.accepted
      /\ n.in = l.n.in /\ n.arrived = l.n.arrived
  BY <1>2 DEF Nets
<1>4. (n.our_fin <=> l.n.our_fin) /\ (n.reset <=> l.n.reset)
  BY <1>2 DEF Nets
<1>5. Network(h, n)
  BY <1>1
<1> HIDE DEF l, n
<1>6. Counted(l.c.recv_data, n.in, d) /\ Whole(l.c, n, d)
  BY <1>2, <1>3, <1>4 DEF Good, Whole
<1>7. e = [c |-> l.c, n |-> n, fds |-> l.fds]
  BY <1>2
<1> HIDE DEF e
<1>8. Good(e, d)
  BY <1>2, <1>3, <1>4, <1>6, <1>7, FarEndGood
<1> QED BY <1>5, <1>8, NetworkOne DEF e

\* The peer's next byte, behind all that came before it.
LEMMA PeerSendsKeeps ==
    ASSUME TcpInv, NEW h \in TcpHandle, PeerSends(h) PROVE TcpInv'
<1> DEFINE l == Link(h)
           d == delivered[h]
           m == net[h]
           r == conn[h].recv_data
           next == m.arrived + 1
           in == Append(m.in, next)
           n == [m EXCEPT !.in = in, !.arrived = next]
           e == [c |-> conn[h], n |-> n, fds |-> descriptors[h]]
<1>1. Network(h, n)
  BY DEF PeerSends
<1>2. Good(l, d) /\ l.c = conn[h] /\ l.n = net[h] /\ l.fds = descriptors[h]
      /\ net[h] \in Nets /\ conn[h] \in Conns /\ l.c.socket /\ ~m.reset
      /\ d \in Bytes
  BY DEF TcpInv, Link, PeerSends, Up
<1>3. m.arrived \in Nat /\ m.in \in Bytes /\ r \in Bytes
      /\ Len(m.in) \in Nat /\ Len(r) \in Nat /\ Len(d) \in Nat
  BY <1>2, LenProperties DEF Conns, Nets, Bytes
<1>4. next \in Nat
  BY <1>3
<1>5. /\ in \in Bytes /\ Len(in) = Len(m.in) + 1
      /\ \A i \in 1..Len(m.in) : in[i] = m.in[i]
      /\ in[Len(m.in) + 1] = next
  BY <1>3, <1>4, AppendProperties DEF Bytes
<1>6. m.arrived = Len(d) + Len(r) + Len(m.in)
  BY <1>2 DEF Good, Whole
<1>7. Counted(r, m.in, d)
  BY <1>2 DEF Good
<1>17. next = Len(d) + Len(r) + (Len(m.in) + 1)
  <2>1. \A a, b, g \in Nat : (a + b + g) + 1 = a + b + (g + 1)
    OBVIOUS
  <2>2. next = m.arrived + 1
    OBVIOUS
  <2> DEFINE a == Len(d)
             b == Len(r)
             g == Len(m.in)
             arrived == m.arrived
  <2>3. a \in Nat /\ b \in Nat /\ g \in Nat /\ arrived = a + b + g
        /\ next = arrived + 1
    BY <1>3, <1>6, <2>2
  <2> HIDE DEF a, b, g, arrived, next
  <2>4. next = a + b + (g + 1)
    BY ONLY <2>1, <2>3
  <2> QED BY <2>4 DEF a, b, g
<1> HIDE DEF in, next
<1>8. ASSUME NEW i \in 1..Len(in) PROVE in[i] = Len(d) + Len(r) + i
  <2>1. CASE i = Len(m.in) + 1
    BY <1>5, <1>17, <2>1
  <2>2. CASE i # Len(m.in) + 1
    <3>1. i \in 1..Len(m.in)
      BY <1>3, <1>5, <2>2
    <3> QED BY <1>5, <1>7, <3>1 DEF Counted
  <2> QED BY <2>1, <2>2
<1>9. Counted(r, in, d)
  BY <1>7, <1>8 DEF Counted
<1>10. next = Len(d) + Len(r) + Len(in)
  BY <1>5, <1>17
<1>11. n \in Nets /\ n.wire = m.wire /\ n.accepted = m.accepted
       /\ n.in = in /\ n.arrived = next
  BY <1>2, <1>4, <1>5 DEF Nets
<1>12. (n.our_fin <=> m.our_fin) /\ (n.reset <=> m.reset)
  BY <1>2 DEF Nets
<1> HIDE DEF l, n
<1>13. Counted(l.c.recv_data, n.in, d) /\ Whole(l.c, n, d)
  BY <1>2, <1>9, <1>10, <1>11 DEF Whole
<1>14. e = [c |-> l.c, n |-> n, fds |-> l.fds]
  BY <1>2
<1> HIDE DEF e
<1>15. Good(e, d)
  BY <1>2, <1>11, <1>12, <1>13, <1>14, FarEndGood
<1> QED BY <1>1, <1>15, NetworkOne DEF e

LEMMA PeerClosesKeeps ==
    ASSUME TcpInv, NEW h \in TcpHandle, PeerCloses(h) PROVE TcpInv'
<1> DEFINE l == Link(h)
           d == delivered[h]
           n == [net[h] EXCEPT !.fin = TRUE]
           e == [c |-> conn[h], n |-> n, fds |-> descriptors[h]]
<1>1. Network(h, n)
  BY DEF PeerCloses
<1>2. Good(l, d) /\ l.c = conn[h] /\ l.n = net[h] /\ l.fds = descriptors[h]
      /\ net[h] \in Nets /\ l.c.socket
  BY DEF TcpInv, Link, PeerCloses, Up
<1>3. n \in Nets /\ n.wire = l.n.wire /\ n.accepted = l.n.accepted
      /\ n.in = l.n.in /\ n.arrived = l.n.arrived
  BY <1>2 DEF Nets
<1>4. (n.our_fin <=> l.n.our_fin) /\ (n.reset <=> l.n.reset)
  BY <1>2 DEF Nets
<1> HIDE DEF l, n
<1>5. Counted(l.c.recv_data, n.in, d) /\ Whole(l.c, n, d)
  BY <1>2, <1>3, <1>4 DEF Good, Whole
<1>6. e = [c |-> l.c, n |-> n, fds |-> l.fds]
  BY <1>2
<1> HIDE DEF e
<1>7. Good(e, d)
  BY <1>2, <1>3, <1>4, <1>5, <1>6, FarEndGood
<1> QED BY <1>1, <1>7, NetworkOne DEF e

LEMMA PeerResetsKeeps ==
    ASSUME TcpInv, NEW h \in TcpHandle, PeerResets(h) PROVE TcpInv'
<1> DEFINE l == Link(h)
           d == delivered[h]
<1>1. PICK in \in {net[h].in, <<>>} :
          Network(h, [net[h] EXCEPT !.reset = TRUE, !.in = in])
  BY DEF PeerResets
<1> DEFINE n == [net[h] EXCEPT !.reset = TRUE, !.in = in]
           e == [c |-> conn[h], n |-> n, fds |-> descriptors[h]]
<1>2. Good(l, d) /\ l.c = conn[h] /\ l.n = net[h] /\ l.fds = descriptors[h]
      /\ net[h] \in Nets /\ l.c.socket
  BY DEF TcpInv, Link, PeerResets, Up
<1>3. in \in Bytes /\ (in = l.n.in \/ in = <<>>)
  BY <1>2, EmptyBytes DEF Nets
<1>4. n \in Nets /\ n.wire = l.n.wire /\ n.accepted = l.n.accepted
      /\ n.in = in
  BY <1>2, <1>3 DEF Nets
<1>5. (n.our_fin <=> l.n.our_fin) /\ n.reset
  BY <1>2 DEF Nets
<1>6. Network(h, n)
  BY <1>1
<1> HIDE DEF l, n
<1>7. Counted(l.c.recv_data, n.in, d)
  <2>1. Counted(l.c.recv_data, l.n.in, d)
    BY <1>2 DEF Good
  <2>2. CASE in = <<>>
    BY <1>4, <2>1, <2>2, EmptyBytes DEF Counted
  <2> QED BY <1>3, <1>4, <2>1, <2>2
<1>8. Whole(l.c, n, d)
  BY <1>5 DEF Whole
<1>9. e = [c |-> l.c, n |-> n, fds |-> l.fds]
  BY <1>2
<1> HIDE DEF e
<1>10. Good(e, d)
  BY <1>2, <1>4, <1>5, <1>7, <1>8, <1>9, FarEndGood
<1> QED BY <1>6, <1>10, NetworkOne DEF e

LEMMA DeadlineKeeps ==
    ASSUME TcpInv, NEW h \in TcpHandle, DeadlinePasses(h) PROVE TcpInv'
<1> DEFINE l == Link(h)
           d == delivered[h]
           c == [conn[h] EXCEPT !.close_deadline = "passed"]
           e == [c |-> c, n |-> net[h], fds |-> descriptors[h]]
<1>1. Good(l, d) /\ l.c = conn[h] /\ l.n = net[h] /\ l.fds = descriptors[h]
      /\ conn[h] \in Conns /\ net[h] \in Nets /\ descriptors[h] \in Nat
  BY DEF TcpInv, Link
<1>2. c \in Conns
  BY <1>1 DEF Conns
<1>3. /\ c.state = l.c.state /\ c.recv_data = l.c.recv_data
      /\ c.send_data = l.c.send_data
  BY <1>1 DEF Conns
<1>4. (c.socket <=> l.c.socket) /\ (c.fin_sent <=> l.c.fin_sent)
  BY <1>1 DEF Conns
<1>5. conn' = [conn EXCEPT ![h] = c]
  BY DEF DeadlinePasses, TcpInv
<1> HIDE DEF c
<1>6. e \in Links /\ e.c = c /\ e.n = net[h] /\ e.fds = descriptors[h]
  BY <1>1, <1>2 DEF Links
<1> HIDE DEF l, e
<1>7. Owned(e) /\ Sent(e.c, e.n) /\ Finished(e.c, e.n) /\ Early(e.c, e.n, d)
      /\ Whole(e.c, e.n, d)
  BY <1>1, <1>3, <1>4, <1>6 DEF Good, Owned, Sent, Finished, Early, Whole
<1>8. Good(e, d)
  BY <1>1, <1>3, <1>6, <1>7 DEF Good
<1>9. PutOne(h, e)
  BY <1>5, <1>6 DEF PutOne, DeadlinePasses, TcpInv
<1>10. delivered' = [delivered EXCEPT ![h] = d]
  BY DEF DeadlinePasses, TcpInv
<1> HIDE DEF d
<1>11. delivered' = [delivered EXCEPT ![h] = d] /\ Good(e, d) /\ PutOne(h, e)
  BY <1>8, <1>9, <1>10
<1> QED BY <1>11, OneKeeps

(* --------------------- every step of the TCP half ---------------------- *)

LEMMA TcpStart == ASSUME TcpInit PROVE TcpInv
<1>1. ASSUME NEW h \in TcpHandle PROVE Good(Link(h), delivered[h])
  <2> DEFINE e == Link(h)
  <2>1. e.c = Closed /\ e.n = NewSocket("none") /\ e.fds = 0
        /\ delivered[h] = <<>> /\ e = [c |-> Closed, n |-> NewSocket("none"),
                                       fds |-> 0]
    BY DEF TcpInit, Link
  <2>2. e \in Links
    BY <2>1, FreshTypes DEF Links
  <2>3. /\ e.c.recv_data = <<>> /\ e.c.send_data = <<>> /\ Owned(e)
        /\ e.n.in = <<>> /\ e.n.wire = <<>> /\ e.n.accepted = <<>>
        /\ ~e.n.our_fin /\ e.n.arrived = 0
    BY <2>1 DEF Closed, NewSocket, Owned
  <2> HIDE DEF e
  <2>4. Good(e, <<>>)
    BY <2>2, <2>3, FreshGood
  <2> QED BY <2>1, <2>4 DEF e
<1> QED BY <1>1, FreshTypes, EmptyBytes DEF TcpInit, TcpInv

LEMMA TcpSame == ASSUME TcpInv, UNCHANGED tcpVars PROVE TcpInv'
BY DEF tcpVars, TcpInv, Link

LEMMA CommandKeeps ==
    ASSUME TcpAssumption, TcpInv, TcpCommand PROVE TcpInv'
<1>1. CASE TcpAnswersOnly
  BY <1>1, TcpSame DEF TcpAnswersOnly
<1>2. CASE TcpCloseAll
  BY <1>2, CloseAllKeeps
<1>3. ASSUME NEW h \in TcpHandle, NEW p \in Peer \cup {NoPeer},
             NEW resident \in BOOLEAN, TcpListen(h, p, resident)
      PROVE  TcpInv'
  BY <1>3, ListenKeeps
<1>4. ASSUME NEW h \in TcpHandle, NEW resident \in BOOLEAN,
             TcpConnect(h, resident)
      PROVE  TcpInv'
  BY <1>4, ConnectKeeps
<1>5. ASSUME NEW h \in TcpHandle, NEW length \in 0..MaxLength,
             TcpSend(h, length)
      PROVE  TcpInv'
  BY <1>5, SendKeeps
<1>6. ASSUME NEW h \in TcpHandle, NEW maximum \in 1..MaxBuffer,
             TcpRecv(h, maximum)
      PROVE  TcpInv'
  BY <1>6, RecvKeeps
<1>7. ASSUME NEW h \in TcpHandle, TcpClose(h) \/ TcpAbort(h) PROVE TcpInv'
  BY <1>7, CloseOneKeeps
<1> QED BY <1>1, <1>2, <1>3, <1>4, <1>5, <1>6, <1>7 DEF TcpCommand

LEMMA NetworkKeeps == ASSUME TcpInv, NetworkStep PROVE TcpInv'
BY HandshakeKeeps, PeerSendsKeeps, PeerClosesKeeps, PeerResetsKeeps,
   DeadlineKeeps DEF NetworkStep

(* -------------------------- the UDP invariant -------------------------- *)

\* Slots beyond the last are the first ones again.
LEMMA Around ==
    ASSUME NEW q \in Nat \ {0}, NEW x \in 0..(2 * q - 1)
    PROVE  /\ x % q = IF x < q THEN x ELSE x - q
           /\ x % q \in 0..(q - 1)
OBVIOUS

Datagrams == Seq(Int)
Endpoints == [socket : BOOLEAN, queue : [Slot -> Int], head : Slot,
              count : 0..UdpQueue]

\* What was stored for the guest is what it has received and, behind that,
\* what the ring holds.
InRing(u, all, seen) ==
    /\ Len(all) = Len(seen) + u.count
    /\ \A i \in 1..Len(seen) : all[i] = seen[i]
    /\ \A i \in 1..u.count :
           all[Len(seen) + i] = u.queue[(u.head + i - 1) % UdpQueue]

\* The stored datagrams rise, and every one the host still holds is later.
Number(x) == IF x < 0 THEN 0 - x ELSE x
Rising(all, in, n) ==
    /\ \A i, j \in 1..Len(all) : i < j => all[i] < all[j]
    /\ \A i \in 1..Len(all) : all[i] <= n
    /\ \A j \in 1..Len(in) : in[j] # 0 /\ Number(in[j]) <= n
    /\ \A i, j \in 1..Len(in) : i < j => Number(in[i]) < Number(in[j])
    /\ \A i \in 1..Len(all), j \in 1..Len(in) : all[i] < Number(in[j])

UdpInv ==
    /\ udp \in [UdpHandle -> Endpoints] /\ inbox \in [UdpHandle -> Datagrams]
    /\ arrivals \in [UdpHandle -> Nat] /\ udp_descriptors \in [UdpHandle -> Nat]
    /\ kept \in [UdpHandle -> Datagrams] /\ taken \in [UdpHandle -> Datagrams]
    /\ \A h \in UdpHandle :
           /\ udp_descriptors[h] = IF udp[h].socket THEN 1 ELSE 0
           /\ InRing(udp[h], kept[h], taken[h])
           /\ Rising(kept[h], inbox[h], arrivals[h])

LEMMA EmptyDatagrams == <<>> \in Datagrams /\ Len(<<>>) = 0
BY EmptySeq DEF Datagrams

\* An endpoint without datagrams.
LEMMA EmptyRing ==
    ASSUME NEW u, u.count = 0, NEW n \in Nat
    PROVE  InRing(u, <<>>, <<>>) /\ Rising(<<>>, <<>>, n)
BY EmptyDatagrams DEF InRing, Rising

\* The receive loop reads no more than there is and stops at the first
\* datagram without payload.
LEMMA ReadStops ==
    ASSUME UdpAssumption, NEW in \in Datagrams
    PROVE  /\ Read(in) \in 0..Len(in)
           /\ \A k \in 1..Len(in) : in[k] < 0 => Read(in) <= k
<1> DEFINE ends == {k \in 1..Len(in) : in[k] < 0} \cup {UdpRounds, Len(in)}
<1>1. Len(in) \in Nat /\ UdpRounds \in Nat
  BY LenProperties DEF Datagrams, UdpAssumption
<1>2. ends \subseteq Nat /\ ends # {} /\ Len(in) \in ends
  BY <1>1
<1>3. PICK x \in ends : \A y \in ends : ~ (<<y, x>> \in OpToRel(<, Nat))
  <2> HIDE DEF ends
  <2> QED BY <1>2, NatLessThanWellFounded, WFMin
<1>4. \A y \in ends : x <= y
  <2> SUFFICES ASSUME NEW y \in ends PROVE x <= y
    OBVIOUS
  <2>1. x \in Nat /\ y \in Nat
    BY <1>2
  <2>2. ~ (<<y, x>> \in OpToRel(<, Nat))
    BY <1>3
  <2>3. ~(y < x)
    BY <2>1, <2>2 DEF OpToRel
  <2> QED BY <2>1, <2>3
<1>5. Read(in) \in ends /\ \A e \in ends : Read(in) <= e
  BY <1>4 DEF Read
<1> QED BY <1>1, <1>2, <1>5

\* Every datagram stored gets a slot of its own behind the ring's newest, and
\* the slots that hold older ones are left alone.
LEMMA Places ==
    ASSUME UdpAssumption, NEW u \in Endpoints
    PROVE  /\ \A i \in 1..u.count :
                  Place(u, (u.head + i - 1) % UdpQueue) > UdpQueue - u.count
           /\ \A i \in 1..(UdpQueue - u.count) :
                  Place(u, (u.head + u.count + i - 1) % UdpQueue) = i
<1> DEFINE q == UdpQueue
           a == u.head
           b == u.count
           next == NextFree(u)
<1>1. q \in Nat \ {0} /\ a \in 0..(q - 1) /\ b \in 0..q
  BY DEF UdpAssumption, Endpoints, Slot
<1>2. next = IF a + b < q THEN a + b ELSE a + b - q
  <2>1. a + b \in 0..(2 * q - 1)
    BY <1>1
  <2> QED BY <1>1, <2>1, Around DEF NextFree
<1>3. \A s : Place(u, s) = 1 + ((s + q - next) % q)
  BY DEF Place
<1> HIDE DEF q, a, b, next
<1>4. ASSUME NEW i \in 1..b PROVE Place(u, (a + i - 1) % q) > q - b
  <2> DEFINE s == (a + i - 1) % q
             x == s + q - next
  <2>1. a + i - 1 \in 0..(2 * q - 1)
    BY <1>1
  <2>2. s = IF a + i - 1 < q THEN a + i - 1 ELSE a + i - 1 - q
    <3> DEFINE y == a + i - 1
    <3>1. y \in 0..(2 * q - 1)
      BY <2>1
    <3> HIDE DEF y
    <3>2. y % q = IF y < q THEN y ELSE y - q
      BY <1>1, <3>1, Around
    <3>3. s = y % q
      BY DEF y
    <3>4. s = IF y < q THEN y ELSE y - q
      BY <3>2, <3>3
    <3> HIDE DEF s
    <3> QED BY <1>1, <2>1, <3>4 DEF y
  <2> HIDE DEF s
  <2>3. x \in 0..(2 * q - 1)
    BY <1>1, <1>2, <2>2
  <2>4. x % q = IF x < q THEN x ELSE x - q
    BY <1>1, <2>3, Around
  <2>5. (IF x < q THEN x ELSE x - q) >= q - b
    BY <1>1, <1>2, <2>2
  <2>6. Place(u, s) = 1 + (x % q)
    BY <1>3
  <2>7. (IF x < q THEN x ELSE x - q) \in Int
    BY <2>3, <1>1
  <2> HIDE DEF x
  <2>8. Place(u, s) > q - b
    BY <1>1, <2>4, <2>5, <2>6, <2>7
  <2> QED BY <2>8 DEF s
<1>5. ASSUME NEW i \in 1..(q - b) PROVE Place(u, (a + b + i - 1) % q) = i
  <2> DEFINE s == (a + b + i - 1) % q
             x == s + q - next
  <2>1. a + b + i - 1 \in 0..(2 * q - 1)
    BY <1>1
  <2>2. s = IF a + b + i - 1 < q THEN a + b + i - 1 ELSE a + b + i - 1 - q
    <3> DEFINE y == a + b + i - 1
    <3>1. y \in 0..(2 * q - 1)
      BY <2>1
    <3> HIDE DEF y
    <3>2. y % q = IF y < q THEN y ELSE y - q
      BY <1>1, <3>1, Around
    <3>3. s = y % q
      BY DEF y
    <3>4. s = IF y < q THEN y ELSE y - q
      BY <3>2, <3>3
    <3> HIDE DEF s
    <3> QED BY <1>1, <2>1, <3>4 DEF y
  <2> HIDE DEF s
  <2>3. x \in 0..(2 * q - 1)
    BY <1>1, <1>2, <2>2
  <2>4. x % q = IF x < q THEN x ELSE x - q
    BY <1>1, <2>3, Around
  <2>5. (IF x < q THEN x ELSE x - q) = i - 1
    BY <1>1, <1>2, <2>2
  <2>6. Place(u, s) = 1 + (x % q)
    BY <1>3
  <2> HIDE DEF x
  <2>7. Place(u, s) = i
    BY <2>4, <2>5, <2>6
  <2> QED BY <2>7 DEF s
<1> QED BY <1>4, <1>5 DEF q, a, b

\* poll_udp on one endpoint: the ring holds the datagrams that found room
\* behind those it held.
LEMMA EnqueueGood ==
    ASSUME UdpAssumption, NEW u \in Endpoints, NEW all \in Datagrams,
           NEW seen \in Datagrams, InRing(u, all, seen), NEW got \in Datagrams,
           NEW v, v = Enqueue(u, got), NEW r, r = Room(u, got)
    PROVE  /\ v \in Endpoints /\ (v.socket <=> u.socket)
           /\ r \in 0..Len(got) /\ r <= UdpQueue - u.count
           /\ InRing(v, all \o Take(got, r), seen)
<1> DEFINE queue == [s \in Slot |-> IF Place(u, s) <= r THEN got[Place(u, s)]
                                    ELSE u.queue[s]]
           count == u.count + r
           t == Take(got, r)
           more == all \o t
<1>1. /\ UdpQueue \in Nat \ {0} /\ u.count \in 0..UdpQueue /\ u.head \in Slot
      /\ u.queue \in [Slot -> Int] /\ Len(got) \in Nat /\ Len(all) \in Nat
      /\ Len(seen) \in Nat
  BY LenProperties DEF UdpAssumption, Endpoints, Datagrams
<1>2. r \in 0..Len(got) /\ r <= UdpQueue - u.count
  BY <1>1 DEF Room
<1>3. /\ t \in Datagrams /\ Len(t) = r /\ \A i \in 1..r : t[i] = got[i]
  BY <1>2, TakeRest DEF Datagrams
<1>4. v = [u EXCEPT !.queue = queue, !.count = count]
  BY DEF Enqueue, Endpoints
<1>5. count \in 0..UdpQueue
  BY <1>1, <1>2
<1>6. queue \in [Slot -> Int]
  <2> SUFFICES ASSUME NEW s \in Slot, Place(u, s) <= r PROVE got[Place(u, s)] \in Int
    BY <1>1
  <2>1. Place(u, s) \in 1..UdpQueue
    <3>1. s + UdpQueue - NextFree(u) \in Int
      <4>1. NextFree(u) \in Int
        BY <1>1 DEF NextFree, Slot
      <4> QED BY <1>1, <4>1 DEF Slot
    <3> QED BY <1>1, <3>1 DEF Place
  <2>2. Place(u, s) \in 1..Len(got)
    BY <1>1, <1>2, <2>1
  <2> QED BY <2>2, ElementOfSeq DEF Datagrams
<1>7. ASSUME NEW i \in 1..u.count
      PROVE  queue[(u.head + i - 1) % UdpQueue] = u.queue[(u.head + i - 1) % UdpQueue]
  <2> DEFINE s == (u.head + i - 1) % UdpQueue
  <2>1. s \in Slot
    <3>1. u.head + i - 1 \in Int
      BY <1>1 DEF Slot
    <3> QED BY <1>1, <3>1 DEF Slot
  <2>2. Place(u, s) > UdpQueue - u.count
    BY Places
  <2>3. Place(u, s) \in Int
    <3>1. NextFree(u) \in Int /\ s \in Int
      BY <1>1, <2>1 DEF NextFree, Slot
    <3> HIDE DEF s
    <3> QED BY <1>1, <3>1 DEF Place
  <2>4. ~(Place(u, s) <= r)
    <3> HIDE DEF s
    <3> QED BY <1>1, <1>2, <2>2, <2>3
  <2> HIDE DEF s
  <2>5. queue[s] = u.queue[s]
    BY <2>1, <2>4
  <2> QED BY <2>5 DEF s
<1>8. ASSUME NEW i \in 1..r
      PROVE  queue[(u.head + u.count + i - 1) % UdpQueue] = got[i]
  <2> DEFINE s == (u.head + u.count + i - 1) % UdpQueue
  <2>1. s \in Slot
    <3>1. u.head + u.count + i - 1 \in Int
      BY <1>1, <1>2 DEF Slot
    <3> QED BY <1>1, <3>1 DEF Slot
  <2>2. i \in 1..(UdpQueue - u.count)
    BY <1>1, <1>2
  <2>3. Place(u, s) = i
    BY <2>2, Places
  <2> HIDE DEF s
  <2>4. queue[s] = got[i]
    BY <1>2, <2>1, <2>3
  <2> QED BY <2>4 DEF s
<1> HIDE DEF queue, count, t
<1>9. v \in Endpoints /\ v.queue = queue /\ v.count = count /\ v.head = u.head
  BY <1>4, <1>5, <1>6 DEF Endpoints
<1>10. v.socket <=> u.socket
  BY <1>4 DEF Endpoints
<1>11. /\ Len(more) = Len(all) + r
       /\ \A i \in 1..(Len(all) + r) :
              more[i] = IF i <= Len(all) THEN all[i] ELSE t[i - Len(all)]
  BY <1>3, ConcatProperties DEF Datagrams
<1> HIDE DEF more
<1>12. Len(all) = Len(seen) + u.count
  BY DEF InRing
<1>13. Len(more) = Len(seen) + count
  BY <1>1, <1>2, <1>11, <1>12 DEF count
<1>14. ASSUME NEW i \in 1..Len(seen) PROVE more[i] = seen[i]
  <2>1. i \in 1..(Len(all) + r) /\ i <= Len(all)
    BY <1>1, <1>2, <1>12
  <2> QED BY <1>11, <2>1 DEF InRing
<1>15. ASSUME NEW i \in 1..count
       PROVE  more[Len(seen) + i] = queue[(u.head + i - 1) % UdpQueue]
  <2>1. CASE i <= u.count
    <3>1. /\ i \in 1..u.count /\ Len(seen) + i \in 1..(Len(all) + r)
          /\ Len(seen) + i <= Len(all)
      BY <1>1, <1>2, <1>12, <2>1 DEF count
    <3>2. more[Len(seen) + i] = all[Len(seen) + i]
      BY <1>11, <3>1
    <3>3. all[Len(seen) + i] = u.queue[(u.head + i - 1) % UdpQueue]
      BY <3>1 DEF InRing
    <3> QED BY <1>7, <3>1, <3>2, <3>3
  <2>2. CASE ~(i <= u.count)
    <3> DEFINE j == i - u.count
    <3>5. j \in 1..r /\ i = u.count + j /\ u.count \in Nat
      BY <1>1, <1>2, <2>2 DEF count
    <3> HIDE DEF j
    <3>1. /\ j \in 1..r /\ Len(seen) + i \in 1..(Len(all) + r)
          /\ ~(Len(seen) + i <= Len(all)) /\ Len(seen) + i - Len(all) = j
      <4> DEFINE x == Len(seen)
                 y == Len(all)
                 b == u.count
      <4>1. x \in Nat /\ y \in Nat /\ b \in Nat /\ r \in Nat /\ j \in 1..r
            /\ y = x + b /\ i = b + j
        BY <1>1, <1>2, <1>12, <3>5
      <4> HIDE DEF x, y, b
      <4>2. x + i \in 1..(y + r) /\ ~(x + i <= y) /\ x + i - y = j
        BY ONLY <4>1
      <4> QED BY <4>1, <4>2 DEF x, y
    <3>6. u.head + u.count + j - 1 = u.head + i - 1
      <4> DEFINE h == u.head
                 b == u.count
      <4>1. h \in Nat /\ b \in Nat /\ j \in Nat /\ i = b + j
        BY <1>1, <1>2, <3>5 DEF Slot
      <4> HIDE DEF h, b
      <4>2. h + b + j - 1 = h + i - 1
        BY ONLY <4>1
      <4> QED BY <4>2 DEF h, b
    <3>2. more[Len(seen) + i] = t[j]
      BY <1>11, <3>1
    <3>3. t[j] = got[j]
      BY <1>3, <3>1
    <3>4. queue[(u.head + u.count + j - 1) % UdpQueue] = got[j]
      BY <1>8, <3>1
    <3> QED BY <3>6, <3>2, <3>3, <3>4
  <2> QED BY <2>1, <2>2
<1>16. InRing(v, more, seen)
  BY <1>9, <1>13, <1>14, <1>15 DEF InRing
<1> QED BY <1>2, <1>9, <1>10, <1>16 DEF more, t

\* The datagrams read come in order, behind those stored before and before
\* those the host still holds; the empty one in between is not one of them.
LEMMA ReadRises ==
    ASSUME UdpAssumption, NEW all \in Datagrams, NEW in \in Datagrams,
           NEW n \in Nat, Rising(all, in, n), NEW k, k = Read(in),
           NEW m, m = IF k > 0 /\ in[k] < 0 THEN k - 1 ELSE k,
           NEW got, got = Take(in, m), NEW r \in 0..Len(got)
    PROVE  /\ got \in Datagrams /\ Rest(in, k) \in Datagrams
           /\ all \o Take(got, r) \in Datagrams
           /\ Rising(all \o Take(got, r), Rest(in, k), n)
<1>1. /\ k \in 0..Len(in) /\ Len(in) \in Nat /\ Len(all) \in Nat
      /\ \A i \in 1..Len(in) : in[i] < 0 => k <= i
  BY ReadStops, LenProperties DEF Datagrams
<1>2. \A i \in 1..Len(in) : in[i] \in Int
  BY ElementOfSeq DEF Datagrams
<1>3. m \in 0..Len(in) /\ m <= k
  <2>1. CASE k > 0 /\ in[k] < 0
    <3>1. m = k - 1
      BY <2>1
    <3> QED BY <1>1, <2>1, <3>1
  <2>2. CASE ~(k > 0 /\ in[k] < 0)
    <3>1. m = k
      BY <2>2
    <3> QED BY <1>1, <3>1
  <2> QED BY <2>1, <2>2
<1>4. /\ got \in Datagrams /\ Len(got) = m
      /\ \A i \in 1..m : got[i] = in[i]
  <2>1. in \in Seq(Int) /\ got = Take(in, m)
    BY DEF Datagrams
  <2>2. /\ Take(in, m) \in Seq(Int) /\ Len(Take(in, m)) = m
        /\ \A i \in 1..m : Take(in, m)[i] = in[i]
    BY ONLY <1>3, <2>1, TakeRest
  <2> QED BY <2>1, <2>2 DEF Datagrams
<1> DEFINE t == Take(got, r)
           u == Rest(in, k)
           more == all \o t
<1>5. /\ t \in Datagrams /\ Len(t) = r /\ r \in 0..m
      /\ \A i \in 1..r : t[i] = in[i]
  <2>1. /\ t \in Datagrams /\ Len(t) = r
        /\ \A i \in 1..r : t[i] = got[i]
    <3>1. got \in Seq(Int) /\ r \in 0..Len(got)
      BY <1>4 DEF Datagrams
    <3>2. /\ Take(got, r) \in Seq(Int) /\ Len(Take(got, r)) = r
          /\ \A i \in 1..r : Take(got, r)[i] = got[i]
      BY ONLY <3>1, TakeRest
    <3> QED BY <3>2 DEF Datagrams
  <2>2. r \in 0..m /\ m \in Nat
    BY <1>3, <1>4
  <2> HIDE DEF t
  <2> QED BY <1>4, <2>1, <2>2
<1>6. /\ u \in Datagrams /\ Len(u) = Len(in) - k
      /\ \A i \in 1..(Len(in) - k) : u[i] = in[k + i]
  BY <1>1, TakeRest DEF Datagrams
<1> HIDE DEF t, u
<1>7. /\ more \in Datagrams /\ Len(more) = Len(all) + r
      /\ \A i \in 1..(Len(all) + r) :
             more[i] = IF i <= Len(all) THEN all[i] ELSE t[i - Len(all)]
  BY <1>5, ConcatProperties DEF Datagrams
<1> HIDE DEF more
<1>8. ASSUME NEW i \in 1..m PROVE in[i] > 0
  <2>1. i \in 1..Len(in) /\ i <= k /\ in[i] \in Int /\ in[i] # 0
    BY <1>1, <1>2, <1>3 DEF Rising
  <2>2. CASE in[i] < 0
    <3>1. k = i /\ k > 0
      BY <1>1, <2>1, <2>2
    <3>2. m = k - 1
      BY <2>2, <3>1
    <3> QED BY <1>1, <3>1, <3>2
  <2> QED BY <2>1, <2>2
<1>9. \A i \in 1..m : i \in 1..Len(in) /\ in[i] \in Int /\ Number(in[i]) = in[i]
  BY <1>2, <1>3, <1>8 DEF Number
<1>10. ASSUME NEW i \in 1..Len(more)
       PROVE  \/ i \in 1..Len(all) /\ more[i] = all[i]
              \/ i - Len(all) \in 1..r /\ more[i] = in[i - Len(all)]
  <2>1. CASE i <= Len(all)
    BY <1>1, <1>5, <1>7, <2>1
  <2>2. CASE ~(i <= Len(all))
    <3>1. i - Len(all) \in 1..r
      BY <1>1, <1>5, <1>7, <2>2
    <3>2. more[i] = t[i - Len(all)]
      BY <1>5, <1>7, <2>2
    <3> QED BY <1>5, <3>1, <3>2
  <2> QED BY <2>1, <2>2
<1>11. \A i \in 1..r : i \in 1..m /\ i <= k
  BY <1>1, <1>3, <1>5
<1>12. ASSUME NEW i \in 1..Len(more), NEW j \in 1..Len(more), i < j
       PROVE  more[i] < more[j]
  <2>1. CASE j \in 1..Len(all) /\ more[j] = all[j]
    <3>1. i \in 1..Len(all)
      BY <1>1, <1>7, <1>12, <2>1
    <3>2. more[i] = all[i]
      BY <1>1, <1>5, <1>7, <3>1
    <3> QED BY <1>12, <2>1, <3>1, <3>2 DEF Rising
  <2>2. CASE j - Len(all) \in 1..r /\ more[j] = in[j - Len(all)]
    <3> DEFINE y == j - Len(all)
    <3>1. y \in 1..Len(in) /\ Number(in[y]) = in[y]
      BY <1>9, <1>11, <2>2
    <3>2. CASE i \in 1..Len(all) /\ more[i] = all[i]
      <4>1. all[i] < Number(in[y])
        BY <3>1, <3>2 DEF Rising
      <4> QED BY <2>2, <3>1, <3>2, <4>1
    <3>3. CASE i - Len(all) \in 1..r /\ more[i] = in[i - Len(all)]
      <4> DEFINE x == i - Len(all)
      <4>1. x \in 1..Len(in) /\ Number(in[x]) = in[x]
        BY <1>9, <1>11, <3>3
      <4>2. x < y
        BY <1>1, <1>5, <1>7, <1>12
      <4>3. more[i] = in[x] /\ more[j] = in[y]
        BY <2>2, <3>3
      <4> HIDE DEF x, y
      <4>4. Number(in[x]) < Number(in[y])
        BY <3>1, <4>1, <4>2 DEF Rising
      <4> QED BY <3>1, <4>1, <4>3, <4>4
    <3> QED BY <1>10, <3>2, <3>3
  <2> QED BY <1>10, <2>1, <2>2
<1>13. ASSUME NEW i \in 1..Len(more) PROVE more[i] <= n
  <2>1. CASE i \in 1..Len(all) /\ more[i] = all[i]
    BY <2>1 DEF Rising
  <2>2. CASE i - Len(all) \in 1..r /\ more[i] = in[i - Len(all)]
    <3> DEFINE x == i - Len(all)
    <3>1. x \in 1..Len(in) /\ Number(in[x]) = in[x]
      BY <1>9, <1>11, <2>2
    <3>2. Number(in[x]) <= n
      BY <3>1 DEF Rising
    <3> QED BY <2>2, <3>1, <3>2
  <2> QED BY <1>10, <2>1, <2>2
<1>14. ASSUME NEW j \in 1..Len(u)
       PROVE  /\ k + j \in 1..Len(in) /\ u[j] = in[k + j]
  BY <1>1, <1>6
<1>15. \A j \in 1..Len(u) : u[j] # 0 /\ Number(u[j]) <= n
  BY <1>14 DEF Rising
<1>16. ASSUME NEW i \in 1..Len(u), NEW j \in 1..Len(u), i < j
       PROVE  Number(u[i]) < Number(u[j])
  <2>1. k + i < k + j
    BY <1>1, <1>6, <1>16
  <2> DEFINE x == k + i
             y == k + j
  <2>2. x \in 1..Len(in) /\ y \in 1..Len(in) /\ x < y /\ u[i] = in[x] /\ u[j] = in[y]
    BY <1>14, <2>1
  <2> HIDE DEF x, y
  <2> QED BY <2>2 DEF Rising
<1>17. ASSUME NEW i \in 1..Len(more), NEW j \in 1..Len(u)
       PROVE  more[i] < Number(u[j])
  <2> DEFINE y == k + j
  <2>1. y \in 1..Len(in) /\ u[j] = in[y] /\ k < y
    BY <1>1, <1>6, <1>14
  <2> HIDE DEF y
  <2>2. CASE i \in 1..Len(all) /\ more[i] = all[i]
    BY <2>1, <2>2 DEF Rising
  <2>3. CASE i - Len(all) \in 1..r /\ more[i] = in[i - Len(all)]
    <3> DEFINE x == i - Len(all)
    <3>1. x \in 1..Len(in) /\ Number(in[x]) = in[x] /\ more[i] = in[x] /\ x <= k
      BY <1>9, <1>11, <2>3
    <3> HIDE DEF x
    <3>2. x < y
      BY <1>1, <2>1, <3>1
    <3>3. Number(in[x]) < Number(in[y])
      BY <2>1, <3>1, <3>2 DEF Rising
    <3> QED BY <2>1, <3>1, <3>3
  <2> QED BY <1>10, <2>2, <2>3
<1>18. Rising(more, u, n)
  BY <1>12, <1>13, <1>15, <1>16, <1>17 DEF Rising
<1> QED BY <1>4, <1>6, <1>7, <1>18 DEF more, t, u

LEMMA PollUdpKeeps ==
    ASSUME UdpAssumption, UdpInv, PollAllUdp PROVE UdpInv'
<1>1. ASSUME NEW h \in UdpHandle
      PROVE  /\ udp'[h] \in Endpoints /\ (udp'[h].socket <=> udp[h].socket)
             /\ inbox'[h] \in Datagrams /\ kept'[h] \in Datagrams
             /\ InRing(udp'[h], kept'[h], taken[h])
             /\ Rising(kept'[h], inbox'[h], arrivals[h])
  <2> DEFINE u == udp[h]
             in == inbox[h]
             all == kept[h]
             n == arrivals[h]
             got == Arrived(h)
             r == Room(u, got)
             k == Read(in)
             m == IF k > 0 /\ in[k] < 0 THEN k - 1 ELSE k
  <2>1. /\ u \in Endpoints /\ in \in Datagrams /\ all \in Datagrams
        /\ taken[h] \in Datagrams /\ n \in Nat
        /\ InRing(u, all, taken[h]) /\ Rising(all, in, n)
    BY DEF UdpInv
  <2>2. udp'[h] = Enqueue(u, got) /\ kept'[h] = all \o Take(got, r)
    BY DEF PollAllUdp, Take
  <2>3. got = IF u.socket THEN Take(in, m) ELSE <<>>
    BY DEF Arrived, Take
  <2>4. inbox'[h] = IF u.socket THEN Rest(in, k) ELSE in
    BY DEF PollAllUdp, Rest
  <2>5. m = IF k > 0 /\ in[k] < 0 THEN k - 1 ELSE k
    OBVIOUS
  <2>6. k = Read(in) /\ r = Room(u, got)
    OBVIOUS
  <2> HIDE DEF u, in, all, n, got, r, k, m
  <2>7. got \in Datagrams
    <3>1. CASE u.socket
      <4>1. k \in 0..Len(in) /\ Len(in) \in Nat
        BY <2>1, <2>6, ReadStops, LenProperties DEF Datagrams
      <4>2. m \in 0..Len(in)
        <5>1. CASE k > 0 /\ in[k] < 0
          <6>1. m = k - 1
            BY <2>5, <5>1
          <6> QED BY <4>1, <5>1, <6>1
        <5>2. CASE ~(k > 0 /\ in[k] < 0)
          <6>1. m = k
            BY <2>5, <5>2
          <6> QED BY <4>1, <6>1
        <5> QED BY <5>1, <5>2
      <4>3. in \in Seq(Int)
        BY <2>1 DEF Datagrams
      <4>4. Take(in, m) \in Seq(Int)
        BY ONLY <4>2, <4>3, TakeRest
      <4> QED BY <2>3, <3>1, <4>4 DEF Datagrams
    <3>2. CASE ~u.socket
      BY <2>3, <3>2, EmptyDatagrams
    <3> QED BY <3>1, <3>2
  <2>8. /\ udp'[h] \in Endpoints /\ (udp'[h].socket <=> u.socket)
        /\ r \in 0..Len(got) /\ InRing(udp'[h], all \o Take(got, r), taken[h])
    BY <2>1, <2>2, <2>6, <2>7, EnqueueGood
  <2>9. /\ inbox'[h] \in Datagrams /\ kept'[h] \in Datagrams
        /\ Rising(kept'[h], inbox'[h], n)
    <3>1. CASE u.socket
      <4>1. got = Take(in, m)
        BY <2>3, <3>1
      <4>2. /\ Rest(in, k) \in Datagrams
            /\ all \o Take(got, r) \in Datagrams
            /\ Rising(all \o Take(got, r), Rest(in, k), n)
        BY <2>1, <2>5, <2>6, <2>8, <4>1, ReadRises
      <4> QED BY <2>2, <2>4, <3>1, <4>2
    <3>2. CASE ~u.socket
      <4>1. got = <<>> /\ r = 0
        <5>1. got = <<>>
          BY <2>3, <3>2
        <5> QED BY <2>8, <5>1, EmptyDatagrams
      <4>2. Take(got, r) = <<>>
        <5>1. /\ <<>> \in Seq(Int) /\ 0 \in 0..Len(<<>>)
          BY EmptyDatagrams DEF Datagrams
        <5>2. Take(<<>>, 0) \in Seq(Int) /\ Len(Take(<<>>, 0)) = 0
          BY ONLY <5>1, TakeRest
        <5> QED BY <4>1, <5>2, EmptySeq
      <4>3. all \o Take(got, r) = all
        BY <2>1, <4>2, ConcatEmptySeq DEF Datagrams
      <4> QED BY <2>1, <2>2, <2>4, <3>2, <4>3
    <3> QED BY <3>1, <3>2
  <2>10. InRing(udp'[h], kept'[h], taken[h])
    BY <2>2, <2>8
  <2> QED BY <2>8, <2>9, <2>10 DEF u, n
<1>2. /\ udp' \in [UdpHandle -> Endpoints] /\ inbox' \in [UdpHandle -> Datagrams]
      /\ kept' \in [UdpHandle -> Datagrams]
  BY <1>1 DEF PollAllUdp
<1>3. taken' = taken /\ arrivals' = arrivals /\ udp_descriptors' = udp_descriptors
  BY DEF PollAllUdp
<1> QED BY <1>1, <1>2, <1>3 DEF UdpInv

LEMMA ClosedEndpoint ==
    ASSUME UdpAssumption, NEW u \in Endpoints
    PROVE  /\ CloseUdp(u) \in Endpoints /\ CloseUdp(u).count = 0
           /\ ~CloseUdp(u).socket
           /\ [CloseUdp(u) EXCEPT !.socket = TRUE] \in Endpoints
           /\ [CloseUdp(u) EXCEPT !.socket = TRUE].count = 0
           /\ [CloseUdp(u) EXCEPT !.socket = TRUE].socket
<1> DEFINE v == CloseUdp(u)
           w == [v EXCEPT !.socket = TRUE]
<1>1. 0 \in Slot /\ 0 \in 0..UdpQueue
  BY DEF Slot, UdpAssumption
<1>2. v = [u EXCEPT !.socket = FALSE, !.head = 0, !.count = 0]
  BY DEF CloseUdp
<1>3. v \in Endpoints
  BY <1>1, <1>2 DEF Endpoints
<1>4. v.count = 0
  BY <1>2 DEF Endpoints
<1>5. ~v.socket
  BY <1>2 DEF Endpoints
<1> HIDE DEF v
<1>6. w \in Endpoints /\ w.count = v.count
  BY <1>3 DEF Endpoints
<1>7. w.socket
  BY <1>3 DEF Endpoints
<1> QED BY <1>3, <1>4, <1>5, <1>6, <1>7 DEF v

LEMMA UdpOpenKeeps ==
    ASSUME UdpAssumption, UdpInv, NEW h \in UdpHandle, UdpOpen(h) PROVE UdpInv'
<1> DEFINE v == [CloseUdp(udp[h]) EXCEPT !.socket = TRUE]
<1>1. v \in Endpoints /\ v.count = 0 /\ v.socket
  <2>1. udp[h] \in Endpoints
    BY DEF UdpInv
  <2> QED BY <2>1, ClosedEndpoint
<1>3. udp_descriptors[h] = 0
  BY DEF UdpInv, UdpOpen, UdpFree
<1>4. udp' = [udp EXCEPT ![h] = v]
  BY DEF UdpOpen, UdpInv
<1> HIDE DEF v
<1>5. /\ udp' \in [UdpHandle -> Endpoints] /\ inbox' \in [UdpHandle -> Datagrams]
      /\ arrivals' \in [UdpHandle -> Nat] /\ udp_descriptors' \in [UdpHandle -> Nat]
      /\ kept' \in [UdpHandle -> Datagrams] /\ taken' \in [UdpHandle -> Datagrams]
  <2>1. /\ udp' \in [UdpHandle -> Endpoints]
        /\ inbox' \in [UdpHandle -> Datagrams]
        /\ kept' \in [UdpHandle -> Datagrams]
        /\ taken' \in [UdpHandle -> Datagrams]
    BY <1>1, <1>4, EmptyDatagrams DEF UdpInv, UdpOpen
  <2>2. /\ arrivals' = [arrivals EXCEPT ![h] = 0]
        /\ udp_descriptors' = [udp_descriptors EXCEPT ![h] = 1]
    BY <1>3 DEF UdpInv, UdpOpen
  <2>3. arrivals \in [UdpHandle -> Nat] /\ udp_descriptors \in [UdpHandle -> Nat]
    BY DEF UdpInv
  <2> QED BY <2>1, <2>2, <2>3
<1>6. ASSUME NEW g \in UdpHandle
      PROVE  /\ udp_descriptors'[g] = IF udp'[g].socket THEN 1 ELSE 0
             /\ InRing(udp'[g], kept'[g], taken'[g])
             /\ Rising(kept'[g], inbox'[g], arrivals'[g])
  <2>1. CASE g = h
    <3>1. /\ udp'[g] = v /\ kept'[g] = <<>> /\ taken'[g] = <<>>
          /\ inbox'[g] = <<>> /\ arrivals'[g] = 0 /\ udp_descriptors'[g] = 0 + 1
      BY <1>3, <1>4, <2>1 DEF UdpInv, UdpOpen
    <3> QED BY <1>1, <3>1, EmptyRing
  <2>2. CASE g # h
    <3>1. /\ udp'[g] = udp[g] /\ kept'[g] = kept[g] /\ taken'[g] = taken[g]
          /\ inbox'[g] = inbox[g] /\ arrivals'[g] = arrivals[g]
          /\ udp_descriptors'[g] = udp_descriptors[g]
      BY <1>4, <2>2 DEF UdpInv, UdpOpen
    <3> QED BY <3>1 DEF UdpInv
  <2> QED BY <2>1, <2>2
<1> QED BY <1>5, <1>6 DEF UdpInv

LEMMA CloseUdpKeeps ==
    ASSUME UdpAssumption, UdpInv, NEW handles, CloseEndpoints(handles)
    PROVE  UdpInv'
<1>1. ASSUME NEW h \in UdpHandle
      PROVE  /\ udp'[h] \in Endpoints /\ inbox'[h] \in Datagrams
             /\ kept'[h] \in Datagrams /\ taken'[h] \in Datagrams
             /\ udp_descriptors'[h] = IF udp'[h].socket THEN 1 ELSE 0
             /\ InRing(udp'[h], kept'[h], taken'[h])
             /\ Rising(kept'[h], inbox'[h], arrivals[h])
  <2>1. CASE h \in handles
    <3> DEFINE v == CloseUdp(udp[h])
    <3>1. v \in Endpoints /\ v.count = 0 /\ ~v.socket
      <4>1. udp[h] \in Endpoints
        BY DEF UdpInv
      <4> QED BY <4>1, ClosedEndpoint
    <3>3. /\ udp'[h] = v /\ kept'[h] = <<>> /\ taken'[h] = <<>>
          /\ inbox'[h] = <<>>
      BY <2>1 DEF CloseEndpoints
    <3>4. udp_descriptors'[h] = 0
      <4>1. udp_descriptors'[h] = IF udp[h].socket THEN udp_descriptors[h] - 1
                                  ELSE udp_descriptors[h]
        BY <2>1 DEF CloseEndpoints
      <4>2. udp_descriptors[h] = IF udp[h].socket THEN 1 ELSE 0
        BY DEF UdpInv
      <4> QED BY <4>1, <4>2
    <3>5. arrivals[h] \in Nat
      BY DEF UdpInv
    <3> HIDE DEF v
    <3> QED BY <3>1, <3>3, <3>4, <3>5, EmptyRing, EmptyDatagrams
  <2>2. CASE h \notin handles
    <3>1. /\ udp'[h] = udp[h] /\ kept'[h] = kept[h] /\ taken'[h] = taken[h]
          /\ inbox'[h] = inbox[h] /\ udp_descriptors'[h] = udp_descriptors[h]
      BY <2>2 DEF CloseEndpoints
    <3> QED BY <3>1 DEF UdpInv
  <2> QED BY <2>1, <2>2
<1>2. ASSUME NEW h \in UdpHandle PROVE udp_descriptors'[h] \in Nat
  BY <1>1
<1>3. /\ udp' \in [UdpHandle -> Endpoints] /\ inbox' \in [UdpHandle -> Datagrams]
      /\ kept' \in [UdpHandle -> Datagrams] /\ taken' \in [UdpHandle -> Datagrams]
      /\ udp_descriptors' \in [UdpHandle -> Nat]
  BY <1>1, <1>2 DEF CloseEndpoints
<1>4. arrivals' = arrivals /\ arrivals \in [UdpHandle -> Nat]
  BY DEF CloseEndpoints, UdpInv
<1> QED BY <1>1, <1>3, <1>4 DEF UdpInv

\* cmd_udp_recv: the oldest datagram goes from the ring to the guest.
LEMMA RingTaken ==
    ASSUME UdpAssumption, NEW u \in Endpoints, NEW all \in Datagrams,
           NEW seen \in Datagrams, InRing(u, all, seen), u.count > 0,
           NEW v, v = [u EXCEPT !.head = (@ + 1) % UdpQueue, !.count = @ - 1]
    PROVE  /\ v \in Endpoints /\ (v.socket <=> u.socket)
           /\ Append(seen, u.queue[u.head]) \in Datagrams
           /\ InRing(v, all, Append(seen, u.queue[u.head]))
<1> DEFINE q == UdpQueue
           a == u.head
           b == u.count
           ring == u.queue
           x == ring[a]
           more == Append(seen, x)
           head == (a + 1) % q
           count == b - 1
           n == Len(seen)
<1>1. /\ q \in Nat \ {0} /\ b \in 1..q /\ a \in 0..(q - 1)
      /\ ring \in [0..(q - 1) -> Int] /\ n \in Nat
  BY LenProperties DEF UdpAssumption, Endpoints, Slot, Datagrams
<1>2. /\ Len(all) = n + b
      /\ \A i \in 1..n : all[i] = seen[i]
      /\ \A i \in 1..b : all[n + i] = ring[(a + i - 1) % q]
  BY DEF InRing
<1>3. v = [u EXCEPT !.head = head, !.count = count]
  BY DEF Endpoints
<1>4. Slot = 0..(q - 1) /\ UdpQueue = q /\ u.queue = ring /\ u.head = a
      /\ Len(seen) = n
  BY DEF Slot
<1>5. head = (a + 1) % q /\ count = b - 1 /\ x = ring[a]
  OBVIOUS
<1> HIDE DEF q, a, b, ring, x, head, count, n
<1>6. head = (IF a + 1 < q THEN a + 1 ELSE a + 1 - q) /\ head \in 0..(q - 1)
  <2> DEFINE y == a + 1
  <2>1. y \in 0..(2 * q - 1) /\ head = y % q
    BY <1>1, <1>5
  <2> HIDE DEF y
  <2>2. head = (IF y < q THEN y ELSE y - q) /\ head \in 0..(q - 1)
    BY <1>1, <2>1, Around
  <2> QED BY <1>1, <2>1, <2>2 DEF y
<1>7. count \in 0..q
  BY <1>1, <1>5
<1>8. v \in Endpoints /\ v.head = head /\ v.count = count /\ v.queue = ring
  BY <1>3, <1>4, <1>6, <1>7 DEF Endpoints
<1>9. v.socket <=> u.socket
  BY <1>3 DEF Endpoints
<1>10. x \in Int
  BY <1>1, <1>5
<1>11. /\ more \in Datagrams /\ Len(more) = n + 1
       /\ \A i \in 1..n : more[i] = seen[i]
       /\ more[n + 1] = x
  BY <1>4, <1>10, AppendProperties DEF Datagrams
<1>12. all[n + 1] = x
  <2>1. 1 \in 1..b
    BY <1>1
  <2>2. all[n + 1] = ring[(a + 1 - 1) % q]
    BY <1>2, <2>1
  <2>3. a + 1 - 1 = a
    BY <1>1
  <2>4. a % q = a
    <3>1. a \in 0..(2 * q - 1) /\ a < q
      BY <1>1
    <3> QED BY <1>1, <3>1, Around
  <2> QED BY <1>5, <2>2, <2>3, <2>4
<1> HIDE DEF more
<1>13. Len(all) = Len(more) + count
  BY <1>1, <1>2, <1>5, <1>11
<1>14. ASSUME NEW i \in 1..Len(more) PROVE all[i] = more[i]
  <2>1. CASE i = n + 1
    BY <1>11, <1>12, <2>1
  <2>2. CASE i # n + 1
    <3>1. i \in 1..n
      BY <1>1, <1>11, <2>2
    <3> QED BY <1>2, <1>11, <3>1
  <2> QED BY <2>1, <2>2
<1>15. ASSUME NEW i \in 1..count
       PROVE  all[Len(more) + i] = ring[(head + i - 1) % q]
  <2> DEFINE y == a + (i + 1) - 1
             z == head + i - 1
  <2>1. i + 1 \in 1..b /\ Len(more) + i = n + (i + 1) /\ i \in Nat
        /\ i >= 1 /\ i <= q - 1
    <3>1. i \in Nat /\ i >= 1 /\ i <= count /\ count = b - 1 /\ b \in Nat
          /\ b <= q /\ q \in Nat
      BY <1>1, <1>5, <1>7
    <3>2. i + 1 \in 1..b /\ i <= q - 1
      BY <3>1
    <3>3. Len(more) + i = n + (i + 1)
      BY <1>1, <1>11, <3>1
    <3> QED BY <3>1, <3>2, <3>3
  <2>2. all[n + (i + 1)] = ring[y % q]
    BY <1>2, <2>1
  <2>3. y % q = z % q
    <3>8. /\ i \in Nat /\ i >= 1 /\ i <= q - 1 /\ q \in Nat \ {0}
          /\ a \in 0..(q - 1) /\ head \in 0..(q - 1)
          /\ head = (IF a + 1 < q THEN a + 1 ELSE a + 1 - q)
      BY <1>1, <1>6, <2>1
    <3>1. y \in 0..(2 * q - 1) /\ z \in 0..(2 * q - 1)
      BY ONLY <3>8
    <3>2. z = IF a + 1 < q THEN y ELSE y - q
      BY ONLY <3>8
    <3>3. ~(a + 1 < q) => y >= q /\ y - q < q
      BY ONLY <3>8
    <3> HIDE DEF y, z
    <3>4. y % q = (IF y < q THEN y ELSE y - q)
      BY <1>1, <3>1, Around
    <3>5. z % q = (IF z < q THEN z ELSE z - q)
      BY <1>1, <3>1, Around
    <3>6. CASE a + 1 < q
      BY <3>2, <3>6
    <3>7. CASE ~(a + 1 < q)
      <4>1. z = y - q /\ y >= q /\ y - q < q /\ y \in Int /\ q \in Nat
        BY <1>1, <3>1, <3>2, <3>3, <3>7
      <4>2. z < q /\ ~(y < q)
        BY <4>1
      <4> QED BY <3>4, <3>5, <4>1, <4>2
    <3> QED BY <3>6, <3>7
  <2> QED BY <2>1, <2>2, <2>3
<1>16. InRing(v, all, more)
  BY <1>4, <1>8, <1>13, <1>14, <1>15 DEF InRing
<1> QED BY <1>8, <1>9, <1>11, <1>16 DEF more, x, ring, a

LEMMA UdpRecvKeeps ==
    ASSUME UdpAssumption, UdpInv, NEW h \in UdpHandle, UdpRecv(h) PROVE UdpInv'
<1> DEFINE u == udp[h]
           v == [u EXCEPT !.head = (@ + 1) % UdpQueue, !.count = @ - 1]
           seen == Append(taken[h], u.queue[u.head])
<1>1. /\ u \in Endpoints /\ kept[h] \in Datagrams /\ taken[h] \in Datagrams
      /\ InRing(u, kept[h], taken[h]) /\ u.count > 0
  BY DEF UdpInv, UdpRecv
<1>2. /\ v \in Endpoints /\ (v.socket <=> u.socket) /\ seen \in Datagrams
      /\ InRing(v, kept[h], seen)
  <2> HIDE DEF u
  <2> QED BY <1>1, RingTaken
<1>3. udp' = [udp EXCEPT ![h] = v] /\ taken' = [taken EXCEPT ![h] = seen]
  BY DEF UdpRecv, UdpInv
<1> HIDE DEF v, seen
<1>4. /\ inbox' = inbox /\ arrivals' = arrivals /\ kept' = kept
      /\ udp_descriptors' = udp_descriptors
  BY DEF UdpRecv
<1>5. udp' \in [UdpHandle -> Endpoints] /\ taken' \in [UdpHandle -> Datagrams]
  BY <1>2, <1>3 DEF UdpInv
<1>6. ASSUME NEW g \in UdpHandle
      PROVE  /\ udp_descriptors[g] = IF udp'[g].socket THEN 1 ELSE 0
             /\ InRing(udp'[g], kept[g], taken'[g])
  <2>1. CASE g = h
    BY <1>2, <1>3, <2>1 DEF UdpInv
  <2>2. CASE g # h
    BY <1>3, <2>2 DEF UdpInv
  <2> QED BY <2>1, <2>2
<1> QED BY <1>4, <1>5, <1>6 DEF UdpInv

\* A datagram is later than all that came before it.
LEMMA ArrivesKeeps ==
    ASSUME UdpInv, NEW h \in UdpHandle, DatagramArrives(h) PROVE UdpInv'
<1> DEFINE in == inbox[h]
           n == arrivals[h]
           all == kept[h]
<1>1. PICK sign \in {1, -1} :
          inbox' = [inbox EXCEPT ![h] = Append(@, sign * (arrivals[h] + 1))]
  BY DEF DatagramArrives
<1> DEFINE x == sign * (n + 1)
           more == Append(in, x)
<1>2. /\ in \in Datagrams /\ n \in Nat /\ all \in Datagrams
      /\ Rising(all, in, n) /\ Len(in) \in Nat
  BY LenProperties DEF UdpInv, Datagrams
<1>3. x \in Int /\ x # 0 /\ Number(x) = n + 1
  <2>1. CASE sign = 1
    BY <1>2, <2>1 DEF Number
  <2>2. CASE sign = -1
    BY <1>2, <2>2 DEF Number
  <2> QED BY <2>1, <2>2
<1>4. inbox' = [inbox EXCEPT ![h] = more]
  BY <1>1 DEF UdpInv
<1> HIDE DEF x, n, in, all
<1>5. /\ more \in Datagrams /\ Len(more) = Len(in) + 1
      /\ \A i \in 1..Len(in) : more[i] = in[i]
      /\ more[Len(in) + 1] = x
  BY <1>2, <1>3, AppendProperties DEF Datagrams
<1> HIDE DEF more
<1>6. \A i \in 1..Len(all) : all[i] \in Int
  BY <1>2, ElementOfSeq DEF Datagrams
<1>7. \A j \in 1..Len(in) : in[j] \in Int /\ Number(in[j]) \in Int
  <2>1. \A j \in 1..Len(in) : in[j] \in Int
    BY <1>2, ElementOfSeq DEF Datagrams
  <2> QED BY <2>1 DEF Number
<1>8. ASSUME NEW j \in 1..Len(more)
      PROVE  \/ j \in 1..Len(in) /\ more[j] = in[j]
             \/ j = Len(in) + 1 /\ more[j] = x
  BY <1>2, <1>5
<1>9. \A i \in 1..Len(all) : all[i] <= n + 1 /\ all[i] < Number(x)
  <2>1. \A i \in 1..Len(all) : all[i] <= n
    BY <1>2 DEF Rising
  <2> QED BY <1>2, <1>3, <1>6, <2>1
<1>10. \A j \in 1..Len(in) : /\ in[j] # 0 /\ Number(in[j]) <= n + 1
                             /\ Number(in[j]) < Number(x)
  <2>1. \A j \in 1..Len(in) : in[j] # 0 /\ Number(in[j]) <= n
    BY <1>2 DEF Rising
  <2> QED BY <1>2, <1>3, <1>7, <2>1
<1>11. \A j \in 1..Len(more) : more[j] # 0 /\ Number(more[j]) <= n + 1
  <2>1. Number(x) <= n + 1
    BY <1>2, <1>3
  <2> QED BY <1>3, <1>8, <1>10, <2>1
<1>12. ASSUME NEW i \in 1..Len(more), NEW j \in 1..Len(more), i < j
       PROVE  Number(more[i]) < Number(more[j])
  <2>1. i \in 1..Len(in) /\ more[i] = in[i]
    BY <1>2, <1>5, <1>12
  <2>2. CASE j \in 1..Len(in) /\ more[j] = in[j]
    BY <1>2, <1>12, <2>1, <2>2 DEF Rising
  <2>3. CASE j = Len(in) + 1 /\ more[j] = x
    BY <1>10, <2>1, <2>3
  <2> QED BY <1>8, <2>2, <2>3
<1>13. ASSUME NEW i \in 1..Len(all), NEW j \in 1..Len(more)
       PROVE  all[i] < Number(more[j])
  <2>1. CASE j \in 1..Len(in) /\ more[j] = in[j]
    BY <1>2, <2>1 DEF Rising
  <2>2. CASE j = Len(in) + 1 /\ more[j] = x
    BY <1>9, <2>2
  <2> QED BY <1>8, <2>1, <2>2
<1>14. Rising(all, more, n + 1)
  <2>1. \A i, j \in 1..Len(all) : i < j => all[i] < all[j]
    BY <1>2 DEF Rising
  <2> QED BY <1>9, <1>11, <1>12, <1>13, <2>1 DEF Rising
<1>15. arrivals' = [arrivals EXCEPT ![h] = n + 1]
  BY DEF DatagramArrives, UdpInv, n
<1>16. /\ udp' = udp /\ kept' = kept /\ taken' = taken
       /\ udp_descriptors' = udp_descriptors
  BY DEF DatagramArrives
<1>17. inbox' \in [UdpHandle -> Datagrams] /\ arrivals' \in [UdpHandle -> Nat]
  <2>1. n + 1 \in Nat
    BY <1>2
  <2> QED BY <1>4, <1>5, <1>15, <2>1 DEF UdpInv
<1>18. ASSUME NEW g \in UdpHandle
       PROVE  Rising(kept[g], inbox'[g], arrivals'[g])
  <2>1. CASE g = h
    <3>1. inbox'[g] = more /\ arrivals'[g] = n + 1 /\ kept[g] = all
      BY <1>4, <1>15, <2>1 DEF UdpInv, all
    <3> QED BY <1>14, <3>1
  <2>2. CASE g # h
    <3>1. inbox'[g] = inbox[g] /\ arrivals'[g] = arrivals[g]
      BY <1>4, <1>15, <2>2 DEF UdpInv
    <3> QED BY <3>1 DEF UdpInv
  <2> QED BY <2>1, <2>2
<1> QED BY <1>16, <1>17, <1>18 DEF UdpInv

LEMMA UdpStart == ASSUME UdpAssumption, UdpInit PROVE UdpInv
<1>1. 0 \in Slot /\ 0 \in 0..UdpQueue
  BY DEF Slot, UdpAssumption
<1>2. udp \in [UdpHandle -> Endpoints]
  BY <1>1 DEF UdpInit, Endpoints
<1>3. \A h \in UdpHandle : ~udp[h].socket /\ udp[h].count = 0
  BY DEF UdpInit
<1>4. \A h \in UdpHandle : InRing(udp[h], <<>>, <<>>) /\ Rising(<<>>, <<>>, 0)
  BY <1>3, EmptyRing
<1> QED BY <1>2, <1>3, <1>4, EmptyDatagrams DEF UdpInit, UdpInv

LEMMA UdpSame == ASSUME UdpInv, UNCHANGED udpVars PROVE UdpInv'
BY DEF udpVars, UdpInv

LEMMA UdpCommandKeeps ==
    ASSUME UdpAssumption, UdpInv, UdpCommand PROVE UdpInv'
<1>1. CASE UdpAnswersOnly
  BY <1>1, UdpSame DEF UdpAnswersOnly
<1>2. CASE UdpCloseAll
  BY <1>2, CloseUdpKeeps DEF UdpCloseAll
<1>3. ASSUME NEW h \in UdpHandle, UdpOpen(h) PROVE UdpInv'
  BY <1>3, UdpOpenKeeps
<1>4. ASSUME NEW h \in UdpHandle, UdpClose(h) PROVE UdpInv'
  BY <1>4, CloseUdpKeeps DEF UdpClose
<1>5. ASSUME NEW h \in UdpHandle, UdpRecv(h) PROVE UdpInv'
  BY <1>5, UdpRecvKeeps
<1> QED BY <1>1, <1>2, <1>3, <1>4, <1>5 DEF UdpCommand

(* ------------------------------ the bridge ----------------------------- *)

NetInv == TcpInv /\ UdpInv

LEMMA InvariantHolds ==
    ASSUME TcpAssumption, UdpAssumption PROVE NetSpec => []NetInv
<1>1. NetInit => NetInv
  BY TcpStart, UdpStart DEF NetInit, NetInv
<1>2. NetInv /\ [NetNext]_netvars => NetInv'
  <2> SUFFICES ASSUME NetInv, [NetNext]_netvars PROVE NetInv'
    OBVIOUS
  <2>1. TcpInv /\ UdpInv
    BY DEF NetInv
  <2>2. CASE FramePoll
    BY <2>1, <2>2, PollAllKeeps, PollUdpKeeps DEF FramePoll, Poll, NetInv
  <2>3. CASE BeginCommand
    BY <2>1, <2>3, PollAllKeeps, PollUdpKeeps DEF BeginCommand, Poll, NetInv
  <2>4. CASE Command
    <3>1. CASE TcpCommand /\ UNCHANGED udpVars
      BY <2>1, <3>1, CommandKeeps, UdpSame DEF NetInv
    <3>2. CASE UdpCommand /\ UNCHANGED tcpVars
      BY <2>1, <3>2, UdpCommandKeeps, TcpSame DEF NetInv
    <3> QED BY <2>4, <3>1, <3>2 DEF Command
  <2>5. ASSUME ResetAll PROVE NetInv'
    BY <2>1, <2>5, CloseAllKeeps, CloseUdpKeeps DEF ResetAll, ResetUdp, NetInv
  <2>6. CASE MachineReset
    BY <2>5, <2>6 DEF MachineReset
  <2>7. ASSUME NEW on \in BOOLEAN, NetSetEnabled(on) PROVE NetInv'
    <3>1. CASE on
      BY <2>1, <2>7, <3>1, TcpSame, UdpSame DEF NetSetEnabled, NetInv
    <3>2. CASE ~on
      BY <2>5, <2>7, <3>2 DEF NetSetEnabled
    <3> QED BY <3>1, <3>2
  <2>8. CASE Outside
    <3>1. CASE NetworkStep /\ UNCHANGED udpVars
      BY <2>1, <3>1, NetworkKeeps, UdpSame DEF NetInv
    <3>2. ASSUME NEW h \in UdpHandle, DatagramArrives(h), UNCHANGED tcpVars
          PROVE  NetInv'
      BY <2>1, <3>2, ArrivesKeeps, TcpSame DEF NetInv
    <3> QED BY <2>8, <3>1, <3>2 DEF Outside
  <2>9. CASE UNCHANGED netvars
    BY <2>1, <2>9, TcpSame, UdpSame DEF netvars, NetInv
  <2> QED BY <2>2, <2>3, <2>4, <2>6, <2>7, <2>8, <2>9 DEF NetNext
<1> QED BY <1>1, <1>2, PTL DEF NetSpec

\* A sequence is known by its elements.
LEMMA Counting ==
    ASSUME NEW s \in Bytes, \A i \in 1..Len(s) : s[i] = i
    PROVE  s = [i \in 1..Len(s) |-> i]
<1> DEFINE t == [i \in 1..Len(s) |-> i]
<1>1. Len(s) \in Nat
  BY LenProperties DEF Bytes
<1>2. t \in [1..Len(s) -> Nat]
  BY <1>1
<1>3. t \in Seq(Nat) /\ Len(t) = Len(s)
  <2>1. t \in Seq(Nat)
    BY <1>1, <1>2, SeqDef
  <2> QED BY <1>1, <1>2, <2>1, LenProperties
<1>4. \A i \in 1..Len(s) : s[i] = t[i]
  OBVIOUS
<1>5. s \in Seq(Nat)
  BY DEF Bytes
<1> HIDE DEF t
<1>6. s = t
  BY <1>3, <1>4, <1>5, SeqEqual
<1> QED BY <1>6 DEF t

LEMMA HandleInOrder ==
    ASSUME NEW l, NEW d, Good(l, d)
    PROVE  /\ l.c.socket => l.n.wire \o l.c.send_data = l.n.accepted
           /\ d \o l.c.recv_data = [i \in 1..Len(d \o l.c.recv_data) |-> i]
           /\ l.n.our_fin => l.n.wire = l.n.accepted
<1> DEFINE r == l.c.recv_data
           s == d \o r
<1>1. l.c \in Conns /\ l.n \in Nets /\ d \in Seq(Nat) /\ r \in Seq(Nat)
      /\ l.n.wire \in Seq(Nat)
  BY DEF Good, Links, Conns, Nets, Bytes
<1>2. Len(d) \in Nat /\ Len(r) \in Nat
  BY <1>1, LenProperties
<1>3. Counted(r, l.n.in, d)
  BY DEF Good
<1> HIDE DEF r
<1>4. /\ s \in Bytes /\ Len(s) = Len(d) + Len(r)
      /\ \A i \in 1..(Len(d) + Len(r)) :
             s[i] = IF i <= Len(d) THEN d[i] ELSE r[i - Len(d)]
  BY <1>1, ConcatProperties DEF Bytes
<1> HIDE DEF s
<1>5. ASSUME NEW i \in 1..Len(s) PROVE s[i] = i
  <2>1. CASE i <= Len(d)
    BY <1>2, <1>3, <1>4, <2>1 DEF Counted
  <2>2. CASE ~(i <= Len(d))
    <3> DEFINE j == i - Len(d)
    <3>1. j \in 1..Len(r) /\ Len(d) + j = i
      BY <1>2, <1>4, <2>2
    <3>2. s[i] = r[j] /\ r[j] = Len(d) + j
      BY <1>3, <1>4, <2>2, <3>1 DEF Counted
    <3> QED BY <3>1, <3>2
  <2> QED BY <2>1, <2>2
<1>6. s = [i \in 1..Len(s) |-> i]
  BY <1>4, <1>5, Counting
<1>7. ASSUME l.n.our_fin PROVE l.n.wire = l.n.accepted
  <2>1. l.c.socket /\ l.c.send_data = <<>>
    BY <1>7 DEF Good, Sent, Finished
  <2>2. l.n.wire \o <<>> = l.n.wire
    BY <1>1, ConcatEmptySeq
  <2> QED BY <2>1, <2>2 DEF Good, Sent
<1>8. l.c.socket => l.n.wire \o l.c.send_data = l.n.accepted
  BY DEF Good, Sent
<1> QED BY <1>6, <1>7, <1>8 DEF s, r

LEMMA RingInOrder ==
    ASSUME UdpAssumption, NEW u \in Endpoints, NEW all \in Datagrams,
           NEW seen \in Datagrams, InRing(u, all, seen)
    PROVE  seen \o Content(u) = all
<1> DEFINE t == Content(u)
           s == seen \o t
           n == Len(seen)
           b == u.count
<1>1. /\ u.count \in Nat /\ u.head \in 0..(UdpQueue - 1)
      /\ u.queue \in [0..(UdpQueue - 1) -> Int] /\ UdpQueue \in Nat \ {0}
      /\ n \in Nat /\ Len(all) = n + b
  BY LenProperties DEF Endpoints, Slot, UdpAssumption, Datagrams, InRing
<1>2. t = [i \in 1..b |-> u.queue[(u.head + i - 1) % UdpQueue]]
  BY DEF Content
<1>3. \A i \in 1..b : u.queue[(u.head + i - 1) % UdpQueue] \in Int
  <2> SUFFICES ASSUME NEW i \in 1..b
               PROVE  u.queue[(u.head + i - 1) % UdpQueue] \in Int
    OBVIOUS
  <2> DEFINE x == u.head + i - 1
  <2>1. x \in Int
    BY <1>1
  <2> HIDE DEF x
  <2>2. x % UdpQueue \in 0..(UdpQueue - 1)
    BY <1>1, <2>1
  <2>3. u.queue[x % UdpQueue] \in Int
    BY <1>1, <2>2
  <2> QED BY <2>3 DEF x
<1> HIDE DEF t
<1>4. t \in [1..b -> Int]
  BY <1>2, <1>3
<1>5. t \in Seq(Int) /\ Len(t) = b
  <2>1. t \in Seq(Int)
    BY <1>1, <1>4, SeqDef
  <2> QED BY <1>1, <1>4, <2>1, LenProperties
<1>6. /\ s \in Seq(Int) /\ Len(s) = n + b
      /\ \A i \in 1..(n + b) : s[i] = IF i <= n THEN seen[i] ELSE t[i - n]
  BY <1>5, ConcatProperties DEF Datagrams
<1>7. ASSUME NEW i \in 1..(n + b) PROVE s[i] = all[i]
  <2>1. CASE i <= n
    <3>1. i \in 1..n
      BY <1>1, <2>1
    <3> QED BY <1>6, <2>1, <3>1 DEF InRing
  <2>2. CASE ~(i <= n)
    <3> DEFINE j == i - n
    <3>1. j \in 1..b /\ n + j = i
      BY <1>1, <2>2
    <3>2. s[i] = t[j]
      BY <1>6, <2>2
    <3> HIDE DEF j
    <3>3. t[j] = u.queue[(u.head + j - 1) % UdpQueue]
      BY <1>2, <3>1
    <3>4. all[n + j] = u.queue[(u.head + j - 1) % UdpQueue]
      BY <3>1 DEF InRing
    <3> QED BY <3>1, <3>2, <3>3, <3>4
  <2> QED BY <2>1, <2>2
<1> HIDE DEF s
<1>8. s = all
  <2>1. s \in Seq(Int) /\ all \in Seq(Int) /\ Len(s) = Len(all)
        /\ \A i \in 1..Len(s) : s[i] = all[i]
    BY <1>1, <1>6, <1>7 DEF Datagrams
  <2> QED BY ONLY <2>1, SeqEqual
<1> QED BY <1>8 DEF s, t

LEMMA InvariantSays ==
    ASSUME UdpAssumption, NetInv PROVE NoDescriptorLeak /\ StreamsInOrder
<1>1. ASSUME NEW h \in TcpHandle
      PROVE  /\ descriptors[h] = IF conn[h].socket THEN 1 ELSE 0
             /\ conn[h].socket <=> conn[h].state # "closed"
             /\ conn[h].socket => net[h].wire \o conn[h].send_data = net[h].accepted
             /\ delivered[h] \o conn[h].recv_data
                = [i \in 1..Len(delivered[h] \o conn[h].recv_data) |-> i]
             /\ net[h].our_fin => net[h].wire = net[h].accepted
  <2> DEFINE l == Link(h)
  <2>1. Good(l, delivered[h])
    BY DEF NetInv, TcpInv
  <2>2. l.c = conn[h] /\ l.n = net[h] /\ l.fds = descriptors[h]
    BY DEF Link
  <2> HIDE DEF l
  <2>3. /\ l.c.socket => l.n.wire \o l.c.send_data = l.n.accepted
        /\ delivered[h] \o l.c.recv_data
           = [i \in 1..Len(delivered[h] \o l.c.recv_data) |-> i]
        /\ l.n.our_fin => l.n.wire = l.n.accepted
    BY <2>1, HandleInOrder
  <2>4. l.fds = (IF l.c.socket THEN 1 ELSE 0)
        /\ (l.c.socket <=> l.c.state # "closed")
    BY <2>1 DEF Good, Owned
  <2> DEFINE c == conn[h]
             n == net[h]
             seen == delivered[h] \o c.recv_data
  <2>5. l.c = c /\ l.n = n
    BY <2>2
  <2>6. seen = [i \in 1..Len(seen) |-> i]
    BY <2>3, <2>5
  <2> HIDE DEF c, n, seen
  <2>7. /\ descriptors[h] = IF c.socket THEN 1 ELSE 0
        /\ c.socket <=> c.state # "closed"
        /\ c.socket => n.wire \o c.send_data = n.accepted
        /\ n.our_fin => n.wire = n.accepted
    BY <2>2, <2>3, <2>4, <2>5
  <2> QED BY <2>6, <2>7 DEF c, n, seen
<1>2. ASSUME NEW h \in UdpHandle
      PROVE  LET all == taken[h] \o Content(udp[h])
             IN /\ all = kept[h]
                /\ \A i, j \in DOMAIN all : i < j => all[i] < all[j]
  <2>1. /\ udp[h] \in Endpoints /\ kept[h] \in Datagrams
        /\ taken[h] \in Datagrams /\ InRing(udp[h], kept[h], taken[h])
        /\ Rising(kept[h], inbox[h], arrivals[h])
    BY DEF NetInv, UdpInv
  <2>2. taken[h] \o Content(udp[h]) = kept[h]
    BY <2>1, RingInOrder
  <2>3. DOMAIN kept[h] = 1..Len(kept[h])
    BY <2>1, LenProperties DEF Datagrams
  <2> DEFINE all == taken[h] \o Content(udp[h])
  <2>4. all = kept[h]
    BY <2>2
  <2>5. \A i, j \in 1..Len(kept[h]) : i < j => kept[h][i] < kept[h][j]
    BY <2>1 DEF Rising
  <2> HIDE DEF all
  <2>6. /\ all = kept[h]
        /\ \A i, j \in DOMAIN all : i < j => all[i] < all[j]
    BY <2>3, <2>4, <2>5
  <2> QED BY <2>6 DEF all
<1>3. \A h \in UdpHandle : udp_descriptors[h] = IF udp[h].socket THEN 1 ELSE 0
  BY DEF NetInv, UdpInv
<1>4. NoDescriptorLeak
  BY <1>1, <1>3 DEF NoDescriptorLeak
<1>5. SendStream /\ ReceiveStream /\ FinAfterData
  BY <1>1 DEF SendStream, ReceiveStream, FinAfterData
<1>6. DatagramOrder
  BY <1>2 DEF DatagramOrder
<1> QED BY <1>4, <1>5, <1>6 DEF StreamsInOrder

\* No path of unapinet.c leaks or doubly closes a descriptor, for any number
\* of handles and whatever the network does: a handle owns one exactly while
\* it is open.
THEOREM DescriptorsKept ==
    ASSUME TcpAssumption, UdpAssumption PROVE NetSpec => []NoDescriptorLeak
<1>1. NetSpec => []NetInv
  BY InvariantHolds
<1>2. NetInv => NoDescriptorLeak
  BY InvariantSays
<1> QED BY <1>1, <1>2, PTL

\* What the guest sends and receives over TCP passes once and in order, our
\* end of stream is behind the last byte, and the datagrams of the ring reach
\* the guest in the order they came (cmd_tcp_send, cmd_tcp_recv, poll_tcp,
\* poll_udp, cmd_udp_recv), for any buffer, ring and message length.
THEOREM InOrder ==
    ASSUME TcpAssumption, UdpAssumption PROVE NetSpec => []StreamsInOrder
<1>1. NetSpec => []NetInv
  BY InvariantHolds
<1>2. NetInv => StreamsInOrder
  BY InvariantSays
<1> QED BY <1>1, <1>2, PTL

(* ----------------------------- the resolver ---------------------------- *)

\* A worker that has not published yet and whose generation is current works
\* for the query the state speaks of; any other one is stale.
WorkerInv ==
    /\ (worker.pc # "none") <=> dns_thread
    /\ worker.generation <= dns_generation
    /\ worker.pc # "none" => worker.host \in Host
    /\ worker.success => worker.ip \in AddressesOf[worker.host]
    /\ ~worker.success => worker.ip = NoAddr
    /\ worker.pc = "resolving" => ~worker.success
    /\ worker.pc \in {"resolving", "publish"}
       /\ worker.generation = dns_generation
           => dns_state = 1 /\ worker.host = asked /\ pc # "query_spawn"

\* What each state says of the question and the address.
StateInv ==
    /\ dns_state = 0 => asked = NoHost
    /\ dns_state # 0 => asked \in Host
    /\ dns_state = 2 => dns_ip \in AddressesOf[asked]
    /\ dns_state # 2 => dns_ip = NoAddr

\* What the frame loop knows where it is.
PcInv ==
    /\ alive <=> pc # "destroyed"
    /\ pc \in {"query_parse", "query_join", "query_publish"} =>
           dns_state # 1 /\ job \in Host /\ dns_generation < MaxGeneration
    /\ pc \in {"query_publish", "query_spawn", "destroy_reset", "destroyed"} =>
           ~dns_thread
    /\ pc = "query_spawn" => dns_state = 1 /\ asked = job /\ job \in Host
    /\ dns_generation > MaxGeneration =>
           pc \in {"destroy_join", "destroy_reset", "destroyed"}
    /\ dns_generation > MaxGeneration + 1 => pc = "destroyed"

\* The last reply is about the current question, except while the handler
\* that replaces the question has not replied yet.
ReplyInv ==
    pc # "query_spawn" /\ reply.status = "data" /\ reply.code \in {1, 2}
        /\ reply.ip # NoAddr
        => asked # NoHost /\ reply.ip \in AddressesOf[asked]

IInv == TypeOK /\ WorkerInv /\ StateInv /\ PcInv /\ ReplyInv

\* The constants as the proofs use them.
LEMMA Constants ==
    /\ Literal \subseteq Host /\ NoHost \notin Host
    /\ NoAddr \notin Addr
    /\ \A h \in Host : AddressesOf[h] \subseteq Addr
    /\ MaxGeneration \in Nat
BY HostAssumption, AddrAssumption, AnswerAssumption, BoundAssumption

\* The Boolean part of TypeOK, which the steps below give a leaf of its own.
Flags ==
    /\ alive \in BOOLEAN /\ enabled \in BOOLEAN
    /\ dns_thread \in BOOLEAN /\ activity \in BOOLEAN

LEMMA InitIInv == Init => IInv
<1> SUFFICES ASSUME Init PROVE IInv
    OBVIOUS
<1>1. Flags
    BY Zenon DEF Init, Flags
<1>2. NoWorker \in Worker /\ NoReply \in Reply
    BY Constants DEF NoWorker, NoReply, WorkerPcs, Worker, Reply, Generation
<1>3. TypeOK
    BY <1>1, <1>2, Constants DEF Init, TypeOK, Flags, Pcs, Generation
<1>4. WorkerInv /\ StateInv /\ PcInv /\ ReplyInv
    BY Constants DEF Init, WorkerInv, StateInv, PcInv, ReplyInv, NoWorker, NoReply
<1>5. QED
    BY <1>3, <1>4 DEF IInv

\* A worker that was just created is a worker.
LEMMA StartedWorker ==
    ASSUME NEW h \in Host, NEW g \in Generation
    PROVE  /\ Started(h, g) \in Worker
           /\ Started(h, g).pc = "resolving"
           /\ Started(h, g).host = h /\ Started(h, g).generation = g
           /\ Started(h, g).ip = NoAddr /\ ~Started(h, g).success
BY DEF Worker, WorkerPcs, Started

\* One step per action of Next.
LEMMA NextIInv == IInv /\ [Next]_vars => IInv'
<1> SUFFICES ASSUME IInv, [Next]_vars PROVE IInv'
    OBVIOUS
<1> USE Constants DEF IInv, TypeOK, WorkerInv, StateInv, PcInv, ReplyInv,
        Pcs, WorkerPcs, Worker, Reply, Generation
<1>1. CASE Reset
    BY <1>1 DEF Reset, CancelDns, NoReply
<1>2. CASE ResetActivity
    <2>1. Flags'
        BY <1>2, Zenon DEF ResetActivity, Flags
    <2>2. QED
        BY <1>2, <2>1 DEF ResetActivity, Flags
<1>3. CASE Enable
    BY <1>3 DEF Enable
<1>4. CASE Disable
    <2>1. Flags'
        BY <1>4, Zenon DEF Disable, Flags
    <2>2. QED
        BY <1>4, <2>1 DEF Disable, CancelDns, NoReply, Flags
<1>5. ASSUME NEW h \in Host, QueryCheck(h) PROVE IInv'
    BY <1>5 DEF QueryCheck, ProtocolError
<1>6. CASE QueryNothing
    BY <1>6 DEF QueryNothing, ProtocolError
<1>7. CASE QueryLiteral
    BY <1>7 DEF QueryLiteral, Answer
<1>8. CASE QueryName
    BY <1>8 DEF QueryName
<1>9. CASE QueryJoin
    <2>1. Flags'
        BY <1>9, Zenon DEF QueryJoin, Flags
    <2>2. QED
        BY <1>9, <2>1 DEF QueryJoin, NoWorker, Flags
<1>10. CASE QueryPublish
    BY <1>10 DEF QueryPublish
<1>11. CASE QuerySpawn
    <2>1. Flags'
        BY <1>11, Zenon DEF QuerySpawn, Flags
    <2>2. worker' = Started(job, dns_generation)
        BY <1>11 DEF QuerySpawn
    <2>3. /\ worker' \in Worker /\ worker'.pc = "resolving"
          /\ worker'.host = job /\ worker'.generation = dns_generation
          /\ worker'.ip = NoAddr /\ ~worker'.success
        <3> HIDE DEF Worker, Generation
        <3>1. job \in Host /\ dns_generation \in Generation
            BY <1>11 DEF QuerySpawn
        <3>2. QED
            BY <3>1, <2>2, StartedWorker
    <2>4. reply' \in Reply
        BY <1>11 DEF QuerySpawn, Answer
    <2>5. TypeOK'
        <3> HIDE DEF Worker, Reply, Generation
        <3>1. QED
            BY <1>11, <2>1, <2>3, <2>4 DEF QuerySpawn, Flags
    <2>6. WorkerInv'
        BY <1>11, <2>3 DEF QuerySpawn
    <2>7. StateInv' /\ PcInv'
        BY <1>11 DEF QuerySpawn
    <2>8. ReplyInv'
        BY <1>11 DEF QuerySpawn, Answer
    <2>9. QED
        BY <2>5, <2>6, <2>7, <2>8
<1>12. CASE QuerySpawnFails
    BY <1>12 DEF QuerySpawnFails, Answer
<1>13. CASE Status
    BY <1>13 DEF Status, Answer
<1>14. CASE TakeActivity
    <2>1. Flags'
        BY <1>14, Zenon DEF TakeActivity, Flags
    <2>2. QED
        BY <1>14, <2>1 DEF TakeActivity, Flags
<1>15. CASE Destroy
    BY <1>15 DEF Destroy, MustJoin
<1>16. CASE DestroyJoin
    <2>1. Flags'
        BY <1>16, Zenon DEF DestroyJoin, Flags
    <2>2. QED
        BY <1>16, <2>1 DEF DestroyJoin, NoWorker, Flags
<1>17. CASE DestroyFree
    <2>1. Flags'
        BY <1>17, Zenon DEF DestroyFree, Flags
    <2>2. QED
        BY <1>17, <2>1 DEF DestroyFree, CancelDns, NoReply, Flags
<1>18. CASE WorkerResolve
    <2>1. Flags'
        BY <1>18, Zenon DEF WorkerResolve, Flags
    <2>2. /\ worker' \in Worker /\ worker'.pc = "publish"
          /\ worker'.host = worker.host
          /\ worker'.generation = worker.generation
          /\ worker'.success => worker'.ip \in AddressesOf[worker.host]
          /\ ~worker'.success => worker'.ip = NoAddr
        <3>1. ASSUME NEW a \in AddressesOf[worker.host],
                     worker' = [worker EXCEPT !.pc = "publish", !.ip = a,
                                              !.success = TRUE]
              PROVE  /\ worker' \in Worker /\ worker'.pc = "publish"
                     /\ worker'.host = worker.host
                     /\ worker'.generation = worker.generation
                     /\ worker'.success => worker'.ip \in AddressesOf[worker.host]
                     /\ ~worker'.success => worker'.ip = NoAddr
            BY <1>18, <3>1 DEF WorkerResolve
        <3>2. CASE worker' = [worker EXCEPT !.pc = "publish"]
            BY <1>18, <3>2 DEF WorkerResolve
        <3>3. QED
            BY <1>18, <3>1, <3>2 DEF WorkerResolve
    <2>3. worker.pc = "resolving"
        BY <1>18 DEF WorkerResolve
    <2>4. TypeOK'
        BY <1>18, <2>1, <2>2 DEF WorkerResolve, Flags
    <2>5. WorkerInv'
        <3> HIDE DEF Worker, TypeOK, StateInv, PcInv, ReplyInv
        <3>1. /\ dns_thread' = dns_thread /\ dns_generation' = dns_generation
              /\ dns_state' = dns_state /\ asked' = asked /\ pc' = pc
              /\ worker.pc = "resolving"
            BY <1>18 DEF WorkerResolve
        <3>2. QED
            BY <3>1, <2>2, <2>3
    <2>6. StateInv' /\ PcInv' /\ ReplyInv'
        BY <1>18 DEF WorkerResolve
    <2>7. QED
        BY <2>4, <2>5, <2>6
<1>19. CASE WorkerPublish
    <2>1. Flags'
        BY <1>19, Zenon DEF WorkerPublish, Flags
    <2>2. QED
        BY <1>19, <2>1 DEF WorkerPublish, Current, Outcome, Flags
<1>20. CASE UNCHANGED vars
    BY <1>20 DEF vars
<1>21. QED
    BY <1>1, <1>2, <1>3, <1>4, <1>5, <1>6, <1>7, <1>8, <1>9, <1>10, <1>11,
       <1>12, <1>13, <1>14, <1>15, <1>16, <1>17, <1>18, <1>19, <1>20
    DEF Next, QueryStep, DestroyStep, WorkerStep

\* The inductive invariant holds in every reachable state.
LEMMA Invariance == Spec => []IInv
BY InitIInv, NextIInv, PTL DEF Spec

\* Every variable of the resolver keeps its type (struct UnapiNet, DnsJob).
THEOREM TypeCorrect == Spec => []TypeOK
<1>1. IInv => TypeOK
    BY DEF IInv
<1>2. QED
    BY <1>1, Invariance, PTL

\* No dns_worker ever writes to a structure that unapinet_destroy has freed.
THEOREM NoWorkerOutlivesNet == Spec => []NoUseAfterFree
<1>1. IInv => NoUseAfterFree
    BY DEF IInv, PcInv, WorkerInv, NoUseAfterFree
<1>2. QED
    BY <1>1, Invariance, PTL

\* A status command shows an address of the name asked for last and of no
\* earlier one, through resets and threads that outlive their query.
THEOREM OwnAnswer == Spec => []GuestSeesOwnAnswer
<1>1. IInv => GuestSeesOwnAnswer
    BY DEF IInv, ReplyInv, GuestSeesOwnAnswer
<1>2. QED
    BY <1>1, Invariance, PTL

-----------------------------------------------------------------------------
\* The abstract phase, state by state.
LEMMA PhaseValue ==
    /\ dns_state = 0 => Phase = "idle"
    /\ dns_state = 1 => Phase = "pending"
    /\ dns_state = 2 => Phase = "resolved"
    /\ dns_state = 3 => Phase = "failed"
BY DEF Phase

LEMMA PhaseValueNext ==
    /\ dns_state' = 0 => Phase' = "idle"
    /\ dns_state' = 1 => Phase' = "pending"
    /\ dns_state' = 2 => Phase' = "resolved"
    /\ dns_state' = 3 => Phase' = "failed"
BY DEF Phase

LEMMA PhaseUnchanged == dns_state' = dns_state => Phase' = Phase
BY DEF Phase

\* Every step of the code is a step of the resolver or none of its business.
LEMMA StepRefines == IInv /\ [Next]_vars => [Abstract!Next]_(Abstract!rvars)
<1> SUFFICES ASSUME IInv, [Next]_vars PROVE [Abstract!Next]_(Abstract!rvars)
    OBVIOUS
<1> USE DEF Abstract!Next, Abstract!rvars
<1>1. CASE UNCHANGED <<dns_state, dns_ip, asked>>
    BY <1>1, PhaseUnchanged
<1>2. CASE CancelDns
    BY <1>2, PhaseValueNext DEF CancelDns, Abstract!Withdraw
<1>3. CASE QueryLiteral
    <2>1. job \in Host /\ dns_state \in {0, 2, 3}
        BY <1>3 DEF QueryLiteral, IInv, PcInv, TypeOK
    <2>2. Phase # "pending"
        BY <2>1, PhaseValue
    <2>3. Abstract!AskLiteral(job)
        BY <1>3, <2>2, PhaseValueNext DEF QueryLiteral, Abstract!AskLiteral
    <2>4. QED
        BY <2>1, <2>3
<1>4. CASE QueryPublish
    <2>1. job \in Host /\ dns_state \in {0, 2, 3}
        BY <1>4 DEF QueryPublish, IInv, PcInv, TypeOK
    <2>2. Phase # "pending"
        BY <2>1, PhaseValue
    <2>3. Abstract!Ask(job)
        BY <1>4, <2>2, PhaseValueNext DEF QueryPublish, Abstract!Ask
    <2>4. QED
        BY <2>1, <2>3
<1>5. CASE QuerySpawnFails
    <2>1. dns_state = 1 /\ dns_ip = NoAddr
        BY <1>5 DEF QuerySpawnFails, IInv, PcInv, StateInv
    <2>2. Abstract!Fail
        BY <1>5, <2>1, PhaseValue, PhaseValueNext DEF QuerySpawnFails, Abstract!Fail
    <2>3. QED
        BY <2>2
<1>6. CASE WorkerPublish /\ Current
    <2>1. dns_state = 1 /\ worker.host = asked
        BY <1>6 DEF WorkerPublish, Current, IInv, WorkerInv
    <2>2. CASE worker.success
        <3>1. Abstract!Resolve
            BY <1>6, <2>1, <2>2, PhaseValue, PhaseValueNext
            DEF WorkerPublish, Outcome, IInv, WorkerInv, Abstract!Resolve
        <3>2. QED
            BY <3>1
    <2>3. CASE ~worker.success
        <3>1. Abstract!Fail
            BY <1>6, <2>1, <2>3, PhaseValue, PhaseValueNext
            DEF WorkerPublish, Outcome, IInv, WorkerInv, Abstract!Fail
        <3>2. QED
            BY <3>1
    <2>4. QED
        BY <2>2, <2>3
<1>7. QED
    BY <1>1, <1>2, <1>3, <1>4, <1>5, <1>6
    DEF Next, QueryStep, DestroyStep, WorkerStep, vars, Reset, ResetActivity,
        Enable, Disable, QueryCheck, QueryNothing, QueryName, QueryJoin,
        QuerySpawn, Status, TakeActivity, Destroy, DestroyJoin, DestroyFree,
        WorkerResolve, WorkerPublish

\* Threads, generations and joins add up to the promise of Resolver: one
\* question at a time and only its own answer.
THEOREM Refinement == Spec => ImplementsResolver
<1>1. Init => Abstract!Init
    BY PhaseValue DEF Init, Abstract!Init
<1>2. QED
    BY <1>1, Invariance, StepRefines, PTL
    DEF Spec, ImplementsResolver, Abstract!Spec
=============================================================================
