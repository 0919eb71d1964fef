SPECIFICATION Spec
CONSTANTS
    manager = manager
    viewer = viewer
    Managers = {manager}
    Viewers = {viewer}
    TypedNames <- MCTypedNames
    Saved <- MCSaved
    Budgets <- MCBudgets
    None = None
CHECK_DEADLOCK FALSE
INVARIANTS
    TypeOK
    UntouchedStays
    SavedListLoads
PROPERTIES
    ImplementsStore
