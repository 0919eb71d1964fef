SPECIFICATION Spec
CONSTANTS
    Processes = {p1}
    Names = {w1}
    None = None
    Capacity = 2
    Timeout = 1
    MaxId = 3
    MaxTime = 0
    MaxFaults = 0
    MaxTurns = 4
CHECK_DEADLOCK FALSE
PROPERTY DeleteClosesWindow
