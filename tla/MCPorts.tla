------------------------------- MODULE MCPorts -------------------------------
(***************************************************************************)
(* Four devices that work while the guest does something else, one of them *)
(* in the machine: the resolver and the sockets of the TCP/IP UNAPI, the   *)
(* RS-232C interface, and the VDP.  They share no state.                   *)
(*                                                                         *)
(* A name with two possible addresses, a name that may be refused or have  *)
(* one, and a literal address, under four generations of the resolver.     *)
(* One TCP handle that carries three bytes each way through buffers of     *)
(* two, and one UDP endpoint with a ring of two datagrams that up to four  *)
(* reach.  Rings of two characters and a terminal that holds two.          *)
(***************************************************************************)
EXTENDS UnapiDns, UnapiNet, Serial, VdpWatched

CONSTANTS alpha, beta, literal, a1, a2, a3, h1, u1, p1, p2

MCHost == {alpha, beta, literal}
MCLiteral == {literal}
MCAddr == {a1, a2, a3}
MCAddressesOf == [h \in MCHost |->
    IF h = alpha THEN {a1} ELSE IF h = beta THEN {a2} ELSE {a3}]

MCTcpHandle == {h1}
MCUdpHandle == {u1}
MCPeer == {p1, p2}
MCBytes == [h \in MCTcpHandle |-> 3]

SerialGuest == INSTANCE MCSerialGuests
MCGuests == SerialGuest!SerialGuests

VdpGuest == INSTANCE MCVdpGuests
MCVdpGuestSet == VdpGuest!GuestsOfTheVdp

VARIABLE used       \* "dns", "net", "serial" or "vdp"

\* What the proofs about the sockets, the RS-232C interface and the VDP
\* suppose.
ASSUME NetAssumption == TcpAssumption /\ UdpAssumption
ASSUME SerialHolds == SerialAssumption
ASSUME VdpHolds == VdpAssumption

\* The guest uses one device; the others wait in one initial state.
PortsInit ==
    /\ used \in {"dns", "net", "serial", "vdp"}
    /\ Init /\ NetInit /\ SerialInit /\ WatchedInit
    /\ used # "net" => guest = "tcp"
    /\ used # "serial" => program = SerialGuest!Quiet
    /\ used # "vdp" => vdp_program = VdpGuest!Quiet.program

\* A device other than the VDP may have reached its bounds.
PortsNext ==
    /\ UNCHANGED used
    /\ \/ used = "dns" /\ Next /\ UNCHANGED <<netvars, serialvars, watched>>
       \/ used = "net" /\ NetNext /\ UNCHANGED <<vars, serialvars, watched>>
       \/ used = "serial" /\ SerialNext /\ UNCHANGED <<vars, netvars, watched>>
       \/ used = "vdp" /\ WatchedNext /\ UNCHANGED <<vars, netvars, serialvars>>
       \/ used # "vdp" /\ UNCHANGED <<vars, netvars, serialvars, watched>>

\* What each module assumes of the loop and of the host, for its device.
PortsFairness ==
    /\ WF_vars(used = "dns" /\ HandlerStep) /\ WF_vars(used = "dns" /\ WorkerStep)
    /\ WF_netvars(used = "net" /\ FramePoll)
    /\ WF_net_pc(used = "net" /\ CommandReturns)
    /\ \A h \in TcpHandle : WF_netvars(used = "net" /\ TimePasses(h))
    /\ WF_vdp_pc(used = "vdp" /\ Turns)
    /\ SF_vdp_program(used = "vdp" /\ Goes)
PortsSpec ==
    /\ PortsInit /\ [][PortsNext]_<<used, vars, netvars, serialvars, watched>>
    /\ PortsFairness
==============================================================================
