SPECIFICATION JustTheChip
CONSTANTS
    m1 = m1
    m2 = m2
    NoPath = NoPath
    Machine <- MCMachine
    Start <- MCStart
    HostSteps <- MCHostSteps
    FrameCycles <- MCFrameCycles
    CpuHz = 2
    TestHz = 2
    GuestWrites <- MCGuestWrites
    MaxOffline = 60
    MaxMoves = 5
    MaxDeaths = 1
    r1 = r1
    r2 = r2
    NoRom = NoRom
    Final = Final
    Rom <- MCRom
    Failing <- MCFailing
    MaxWork = 2
    MaxFailures = 2
    MaxCrashes = 1
    Cell <- MCCell
    Bit <- MCBit
    BusWrites <- MCBusWrites
    MaxCount = 1
VIEW KeptView
PROPERTIES AllDataPrograms
CHECK_DEADLOCK FALSE
