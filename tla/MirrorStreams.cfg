SPECIFICATION Spec
CONSTANTS
    Commands = {c1, c2}
    Sizes = {s1}
    Titles = {t1}
    Clients = {}
    LeaseIds = {}
    Nothing = Nothing
    Mode = "NodeSession"
    MaximumEvents = 2
    MaximumCheckpoints = 2
    Durations = {1}
    TimeModulus = 8
    MaxChunks = 3
    MaxSequence = 4
    MaxTime = 0
    MaxGrants = 0
SYMMETRY CommandSymmetry
CHECK_DEADLOCK FALSE
INVARIANTS
    TypeOK
    SequencesUnique
    RetainedIsNewest
    NoSilentLoss
    ResumeExact
    ReplayExact
    CheckpointExactWithoutGap
    PlanReachesHead
    AttributesFollowStream
PROPERTIES
    GapClearedOnlyByCheckpoint
    ClosedIsFinal
