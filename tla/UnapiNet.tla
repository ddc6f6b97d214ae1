------------------------------ MODULE UnapiNet ------------------------------
(***************************************************************************)
(* The bridge of src/unapinet.c as the frame loop drives it: a poll of all *)
(* sockets in every frame, and another one before each command of the      *)
(* guest.  Resolver queries are UnapiDns's.                                *)
(*                                                                         *)
(* Bound: a guest opens TCP or UDP handles, not both: the two kinds share  *)
(* nothing but the polls and the resets.                                   *)
(***************************************************************************)
EXTENDS UnapiTcp, UnapiUdp

VARIABLES
    guest,          \* what the guest program uses, "tcp" or "udp"
    net_enabled,
    net_pc          \* "loop", or "command" between the poll and its command

netvars == <<tcpVars, udpVars, guest, net_enabled, net_pc>>

NetInit ==
    /\ TcpInit /\ UdpInit /\ guest \in {"tcp", "udp"}
    /\ net_enabled = FALSE /\ net_pc = "loop"

Poll == net_enabled /\ PollAllTcp /\ PollAllUdp

FramePoll == net_pc = "loop" /\ Poll /\ UNCHANGED <<guest, net_enabled, net_pc>>

\* process_command polls first ...
BeginCommand == net_pc = "loop" /\ Poll /\ net_pc' = "command" /\ UNCHANGED <<guest, net_enabled>>

\* ... and the network may act before the command itself runs.
Command ==
    /\ net_pc = "command" /\ net_pc' = "loop"
    /\ \/ guest = "tcp" /\ TcpCommand /\ UNCHANGED udpVars
       \/ guest = "udp" /\ UdpCommand /\ UNCHANGED tcpVars
    /\ UNCHANGED <<guest, net_enabled>>

ResetAll == ResetTcp /\ ResetUdp

\* unapinet_io_reset and unapinet_set_enabled.
MachineReset == net_pc = "loop" /\ ResetAll /\ UNCHANGED <<guest, net_enabled, net_pc>>
NetSetEnabled(on) ==
    /\ net_pc = "loop" /\ net_enabled' = on
    /\ IF on THEN UNCHANGED <<tcpVars, udpVars>> ELSE ResetAll
    /\ UNCHANGED <<guest, net_pc>>

\* What the hosts outside and the clock do, at any time.
Outside ==
    /\ \/ NetworkStep /\ UNCHANGED udpVars
       \/ \E h \in UdpHandle : DatagramArrives(h) /\ UNCHANGED tcpVars
    /\ UNCHANGED <<guest, net_enabled, net_pc>>

NetNext ==
    \/ FramePoll \/ BeginCommand \/ Command
    \/ MachineReset \/ \E on \in BOOLEAN : NetSetEnabled(on)
    \/ Outside

NetSpec == NetInit /\ [][NetNext]_netvars

\* Only Command leads from "command" back to "loop".
CommandReturns == net_pc = "command" /\ net_pc' = "loop"

TimePasses(h) == DeadlinePasses(h) /\ UNCHANGED <<udpVars, guest, net_enabled, net_pc>>

\* The loop polls in every frame while the bridge is on, a command that was
\* begun ends, and time passes.
NetFairness ==
    /\ WF_netvars(FramePoll) /\ WF_net_pc(CommandReturns)
    /\ \A h \in TcpHandle : WF_netvars(TimePasses(h))

NetFairSpec == NetSpec /\ NetFairness

-----------------------------------------------------------------------------
(* Properties.                                                             *)

\* A byte the guest was told is taken is sent once and in order: what the
\* kernel has and what is queued are together what was accepted, through
\* partial sends, a full queue and a direct send behind a queued one
\* (cmd_tcp_send, poll_tcp).
SendStream ==
    \A h \in TcpHandle :
        conn[h].socket => net[h].wire \o conn[h].send_data = net[h].accepted

\* The guest receives a gapless prefix of what the peer sent, also from a
\* connection that has been reset or half-closed since (cmd_tcp_recv reads
\* the buffer of a handle that is no longer open).
ReceiveStream ==
    \A h \in TcpHandle :
        LET seen == delivered[h] \o conn[h].recv_data
        IN seen = [i \in 1..Len(seen) |-> i]

\* The peer sees our end of stream only behind the last accepted byte: the
\* FIN waits for the queue, and nothing is queued behind it (graceful_close,
\* poll_tcp, cmd_tcp_send).
FinAfterData == \A h \in TcpHandle : net[h].our_fin => net[h].wire = net[h].accepted

\* No path leaks or doubly closes a descriptor, the failing ones of bind,
\* listen, connect and accept included: a handle owns one exactly while it is
\* open, and a handle without one is free for tcp_slot.
NoDescriptorLeak ==
    /\ \A h \in TcpHandle :
          /\ descriptors[h] = IF conn[h].socket THEN 1 ELSE 0
          /\ conn[h].socket <=> conn[h].state # "closed"
    /\ \A h \in UdpHandle : udp_descriptors[h] = IF udp[h].socket THEN 1 ELSE 0

\* The guest receives the stored datagrams in the order they arrived, none
\* twice, and the ring holds exactly those it has not received (poll_udp,
\* cmd_udp_recv, whatever head and count are).
DatagramOrder ==
    \A h \in UdpHandle : udp[h].socket =>
        LET all == taken[h] \o Content(udp[h])
        IN /\ all = kept[h]
           /\ \A i, j \in DOMAIN all : i < j => all[i] < all[j]

\* Bytes and datagrams pass once and in order, in both directions.
StreamsInOrder == SendStream /\ ReceiveStream /\ FinAfterData /\ DatagramOrder

\* A connection the guest closed goes away, whatever the peer does: the
\* deadline of graceful_close ends what neither side finishes.
FinWaitEnds ==
    \A h \in TcpHandle : conn[h].state = "fin_wait" ~> conn[h].state # "fin_wait"
=============================================================================
