SPECIFICATION Spec
CONSTANTS
    Processes = {p1, p2}
    Names = {w1, w2, w3}
    None = None
    Capacity = 2
    Timeout = 1
    MaxId = 4
    MaxTime = 2
    MaxFaults = 1
    MaxTurns = 5
CHECK_DEADLOCK FALSE
SYMMETRY Symmetry
INVARIANTS
    TypeOK
    UniqueRecords
    
PROPERTIES
    OnlyOwnerVouches
    KeepsOtherWindows
