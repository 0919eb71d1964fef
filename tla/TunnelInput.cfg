SPECIFICATION TunnelSpec
CONSTANTS
    Commands = {c1}
    Sizes = {s1}
    Titles = {t1}
    Clients = {k1}
    LeaseIds = {i1}
    Nothing = Nothing
    Mode = "NodeSession"
    MaximumEvents = 3
    MaximumCheckpoints = 1
    Durations = {1}
    TimeModulus = 8
    MaxChunks = 1
    MaxSequence = 3
    MaxTime = 1
    MaxGrants = 1
    Routes = {r1}
    Positions = {}
    Worker = worker
    MaxFrames = 0
CHECK_DEADLOCK FALSE
INVARIANTS
    SinkFollowsLog
PROPERTIES
    Spec
