CONSTANTS
    f1 = f1
    f2 = f2
    NoFile = NoFile
    Path <- MCPath
    Locked <- MCLocked
    tracks <- MCTracks
    sides <- MCSides
    sectors_per_track <- MCSectors
    SectorBytes = 2
    AddressBytes = 1
    Cylinder = {0}
    Head = {0}
    SectorNumber = {1, 3}
    FormatCount = {2}
    UnitSelect = {0, 1, 2}
    MaxRequests = 2
SPECIFICATION MCSpec
INVARIANTS NothingForgotten ChangeSeen GuestIsAnswered
PROPERTIES ReadOnlyKept
VIEW MCView
CHECK_DEADLOCK FALSE
