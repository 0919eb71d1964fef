SPECIFICATION TunnelSpec
CONSTANTS
    Commands = {c1}
    Sizes = {s1}
    Titles = {}
    Clients = {}
    LeaseIds = {}
    Nothing = Nothing
    Mode = "NodeSession"
    MaximumEvents = 3
    MaximumCheckpoints = 1
    Durations = {1}
    TimeModulus = 8
    MaxChunks = 2
    MaxSequence = 3
    MaxTime = 0
    MaxGrants = 0
    Routes = {r1}
    Positions = {0, 1, 2, 3}
    Worker = worker
    MaxFrames = 2
CHECK_DEADLOCK FALSE
INVARIANTS
    TunnelTypeOK
    SentIsRecorded
    LiveInOrder
    NothingLostAtRest
