SPECIFICATION Spec
CONSTANTS
    NoRom = NoRom
    Final = Final
    Rom = {r1, r2}
    Failing = {"config"}
    MaxWork = 2
    MaxFailures = 1
    MaxCrashes = 1
INVARIANTS UnsavedStaysOut
CHECK_DEADLOCK FALSE
