------------------------------ MODULE UnapiUdp ------------------------------
(***************************************************************************)
(* The UDP half of src/unapinet.c: endpoints with a ring of received       *)
(* datagrams.  A datagram is the number of its arrival; a negative number  *)
(* is one without payload, for which recvfrom() returns 0.                 *)
(* Bound: MaxDatagrams caps the arrivals at one endpoint.                  *)
(***************************************************************************)
EXTENDS Integers, Sequences

CONSTANTS
    UdpHandle,
    UdpQueue,       \* UDP_QUEUE
    UdpRounds,      \* the 16 rounds of poll_udp
    MaxDatagrams

UdpAssumption ==
    /\ UdpQueue \in Nat \ {0} /\ UdpRounds \in Nat \ {0} /\ MaxDatagrams \in Nat

VARIABLES
    udp,            \* UdpConnection of each handle
    inbox,          \* the kernel's queue of each socket
    arrivals,       \* datagrams that reached each socket
    udp_descriptors,\* descriptors opened for a handle and not closed
    kept,           \* history: datagrams stored for the guest, in order
    taken           \* history: datagrams the guest has received, in order

udpVars == <<udp, inbox, arrivals, udp_descriptors, kept, taken>>

Slot == 0..(UdpQueue - 1)

\* What the ring holds, oldest first.
Content(u) == [i \in 1..u.count |-> u.queue[(u.head + i - 1) % UdpQueue]]

UdpInit ==
    /\ udp = [h \in UdpHandle |-> [socket |-> FALSE, queue |-> [s \in Slot |-> 0],
                                   head |-> 0, count |-> 0]]
    /\ inbox = [h \in UdpHandle |-> <<>>]
    /\ arrivals = [h \in UdpHandle |-> 0]
    /\ udp_descriptors = [h \in UdpHandle |-> 0]
    /\ kept = [h \in UdpHandle |-> <<>>]
    /\ taken = [h \in UdpHandle |-> <<>>]

CloseUdp(u) == [u EXCEPT !.socket = FALSE, !.head = 0, !.count = 0]

\* The slot behind the newest datagram.
NextFree(u) == (u.head + u.count) % UdpQueue

\* How many of the datagrams read find room; the others are dropped.
Room(u, got) == LET free == UdpQueue - u.count
                IN IF Len(got) < free THEN Len(got) ELSE free

\* Each is stored behind the newest, from NextFree on and around the ring.
Place(u, s) == 1 + ((s + UdpQueue - NextFree(u)) % UdpQueue)
Enqueue(u, got) ==
    [u EXCEPT !.queue = [s \in Slot |-> IF Place(u, s) <= Room(u, got)
                                        THEN got[Place(u, s)] ELSE @[s]],
              !.count = @ + Room(u, got)]

\* The receive loop ends after UdpRounds datagrams, at the first without
\* payload (which is consumed) or when none is left.
Read(in) ==
    LET ends == {k \in 1..Len(in) : in[k] < 0} \cup {UdpRounds, Len(in)}
    IN CHOOSE k \in ends : \A e \in ends : k <= e

\* What a poll of an open endpoint reads, without the empty datagram.
Arrived(h) ==
    LET k == Read(inbox[h])
    IN IF ~udp[h].socket THEN <<>>
       ELSE SubSeq(inbox[h], 1, IF k > 0 /\ inbox[h][k] < 0 THEN k - 1 ELSE k)

\* unapinet_poll, the UDP loop.
PollAllUdp ==
    /\ udp' = [h \in UdpHandle |-> Enqueue(udp[h], Arrived(h))]
    /\ inbox' = [h \in UdpHandle |->
                    IF udp[h].socket
                    THEN SubSeq(inbox[h], Read(inbox[h]) + 1, Len(inbox[h]))
                    ELSE inbox[h]]
    /\ kept' = [h \in UdpHandle |->
                   kept[h] \o SubSeq(Arrived(h), 1, Room(udp[h], Arrived(h)))]
    /\ UNCHANGED <<arrivals, udp_descriptors, taken>>

-----------------------------------------------------------------------------
(* The commands of the guest.                                              *)

UdpFree(h) == ~udp[h].socket

\* A command that answers and touches no endpoint: bad parameters, no free
\* slot or descriptor, udp_state, and udp_send, whose datagram leaves at once.
UdpAnswersOnly == UNCHANGED udpVars

\* cmd_udp_open: when neither bind() succeeds the descriptor is closed again
\* and the endpoint is left alone.
UdpOpen(h) ==
    /\ UdpFree(h)
    /\ udp' = [udp EXCEPT ![h] = [CloseUdp(@) EXCEPT !.socket = TRUE]]
    /\ udp_descriptors' = [udp_descriptors EXCEPT ![h] = @ + 1]
    /\ inbox' = [inbox EXCEPT ![h] = <<>>]
    /\ arrivals' = [arrivals EXCEPT ![h] = 0]
    /\ kept' = [kept EXCEPT ![h] = <<>>]
    /\ taken' = [taken EXCEPT ![h] = <<>>]

CloseEndpoints(handles) ==
    /\ udp' = [h \in UdpHandle |-> IF h \in handles THEN CloseUdp(udp[h]) ELSE udp[h]]
    /\ udp_descriptors' = [h \in UdpHandle |->
           IF h \in handles /\ udp[h].socket THEN udp_descriptors[h] - 1
           ELSE udp_descriptors[h]]
    /\ inbox' = [h \in UdpHandle |-> IF h \in handles THEN <<>> ELSE inbox[h]]
    /\ kept' = [h \in UdpHandle |-> IF h \in handles THEN <<>> ELSE kept[h]]
    /\ taken' = [h \in UdpHandle |-> IF h \in handles THEN <<>> ELSE taken[h]]
    /\ UNCHANGED arrivals

UdpClose(h) == udp[h].socket /\ CloseEndpoints({h})
UdpCloseAll == CloseEndpoints(UdpHandle)

\* cmd_udp_recv hands over the oldest datagram and drops what did not fit.
UdpRecv(h) ==
    /\ udp[h].socket /\ udp[h].count > 0
    /\ taken' = [taken EXCEPT ![h] = Append(@, udp[h].queue[udp[h].head])]
    /\ udp' = [udp EXCEPT ![h].head = (@ + 1) % UdpQueue, ![h].count = @ - 1]
    /\ UNCHANGED <<inbox, arrivals, udp_descriptors, kept>>

UdpCommand ==
    \/ UdpAnswersOnly \/ UdpCloseAll
    \/ \E h \in UdpHandle : UdpOpen(h) \/ UdpClose(h) \/ UdpRecv(h)

\* unapinet_reset, the UDP loop.
ResetUdp == CloseEndpoints(UdpHandle)

-----------------------------------------------------------------------------
\* A datagram, with or without payload, reaches the socket.
DatagramArrives(h) ==
    /\ udp[h].socket /\ arrivals[h] < MaxDatagrams
    /\ arrivals' = [arrivals EXCEPT ![h] = @ + 1]
    /\ \E sign \in {1, -1} :
          inbox' = [inbox EXCEPT ![h] = Append(@, sign * (arrivals[h] + 1))]
    /\ UNCHANGED <<udp, udp_descriptors, kept, taken>>
=============================================================================
