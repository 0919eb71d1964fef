SPECIFICATION Spec
CONSTANTS
    Nodes <- SplitNodes
    Other <- WtCommandline
    None = None
    MaxTurns = 0
    MaxExits = 0
    MaxPanes = 3
INVARIANTS
    TabsKnowTheirNode
CHECK_DEADLOCK FALSE
