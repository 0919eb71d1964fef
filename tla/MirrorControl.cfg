SPECIFICATION Spec
CONSTANTS
    Commands = {c1}
    Sizes = {s1}
    Titles = {}
    Clients = {k1, k2}
    LeaseIds = {i1, i2}
    Nothing = Nothing
    Mode = "NodeSession"
    MaximumEvents = 4
    MaximumCheckpoints = 1
    Durations = {1, 5}
    TimeModulus = 6
    MaxChunks = 0
    MaxSequence = 3
    MaxTime = 2
    MaxGrants = 2
SYMMETRY ControlSymmetry
CHECK_DEADLOCK FALSE
INVARIANTS
    
    OneController
PROPERTIES
    NoTakeover
    ClosedIsFinal
