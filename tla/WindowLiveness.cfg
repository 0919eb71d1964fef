SPECIFICATION FairSpec
CONSTANTS
    Processes = {p1, p2}
    Names = {w1}
    None = None
    Capacity = 2
    Timeout = 0
    MaxId = 2
    MaxTime = 0
    MaxFaults = 1
    MaxTurns = 5
CHECK_DEADLOCK FALSE
PROPERTIES
    EveryCallReturns
    ListedAgain
