SPECIFICATION Spec
CONSTANTS
    manager = manager
    viewer = viewer
    Managers = {manager}
    Viewers = {viewer}
    TypedNames <- MCNewName
    Saved <- MCSaved
    Budgets <- MCOneBudget
    None = None
CHECK_DEADLOCK FALSE
INVARIANTS
    TabOrderSurvives
