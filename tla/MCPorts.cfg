SPECIFICATION PortsSpec
CONSTANTS
    alpha = alpha
    beta = beta
    literal = literal
    a1 = a1
    a2 = a2
    a3 = a3
    NoHost = NoHost
    NoAddr = NoAddr
    Host <- MCHost
    Literal <- MCLiteral
    Addr <- MCAddr
    AddressesOf <- MCAddressesOf
    MaxGeneration = 4
    h1 = h1
    u1 = u1
    p1 = p1
    p2 = p2
    NoPeer = NoPeer
    TcpHandle <- MCTcpHandle
    UdpHandle <- MCUdpHandle
    Peer <- MCPeer
    MaxBuffer = 2
    MaxLength = 2
    RecvRounds = 2
    MaxAccepted <- MCBytes
    MaxArrived <- MCBytes
    UdpQueue = 2
    UdpRounds = 2
    MaxDatagrams = 4
    Guests <- MCGuests
    VdpGuests <- MCVdpGuestSet
    Horizon = 24
    RingSize = 3
    HostRoom = 2
INVARIANTS NoUseAfterFree GuestSeesOwnAnswer
INVARIANTS StreamsInOrder NoDescriptorLeak
INVARIANTS SerialInOrder NeverStuck LatchedCountWhole
INVARIANTS LinesAsTheBeamSaw StatusTellsTheFrame
PROPERTIES ImplementsResolver QueryEnds FinWaitEnds
PROPERTIES ImplementsBlitter GuestGetsThrough
