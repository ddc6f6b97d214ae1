SPECIFICATION Spec
CONSTANTS
    Users <- MCScsiUser
    Rom = {"r1", "r2"}
    Image = {"i1"}
    Cart = {"c1"}
    Empty = ""
    Machine = {"m0", "m1"}
    DefaultMachine = "m0"
    ReservedSlot <- MCReserved
INVARIANT GivenUpIsRestored
CHECK_DEADLOCK FALSE
