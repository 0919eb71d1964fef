SPECIFICATION Spec
CONSTANTS
    Nodes <- TabNodes
    Other <- WtCommandline
    None = None
    MaxTurns = 2
    MaxExits = 1
    MaxPanes = 5
INVARIANTS
    TypeOK
    
    InputsInOrder
    CommandTerminalsHosted
PROPERTIES
    StartupInputArrives
CHECK_DEADLOCK FALSE
