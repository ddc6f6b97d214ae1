SPECIFICATION FrontEndSpec
CONSTANTS
    Users <- MCUsers
    Rom = {"r1", "r2"}
    Image = {"i1"}
    Cart = {"c1"}
    Empty = ""
    Machine = {"m0", "m1"}
    DefaultMachine = "m0"
    ReservedSlot <- MCReserved
    Texts <- MCTexts
    MaxHeld = 3
    Nibble = 4
    Deltas <- MCDeltas
    MaxMotions = 3
    File = {"program", "image", "junk"}
    NoFile = ""
    Contents <- MCContents
    TypeBytes = 2
    LongLeader = 2
    ShortLeader = 1
    ByteSamples = 1
    CpuHz = 5
    SampleRate = 3
    Runs = {1, 4, 7}
    Horizon = 9
INVARIANTS MachineFollows DirtyTellsTruth GivenUpIsRestored
INVARIANTS KeysTrue MouseTrue TapeTrue
CHECK_DEADLOCK FALSE
