SPECIFICATION FairSpec
CONSTANTS
    a = a
    b = b
    Job = {a, b}
    Choices <- Built
    ChainLen <- Chains
    MaxFires <- Fires
    PoolSize = 2
CHECK_DEADLOCK FALSE
INVARIANTS
    SavedOnlyWithResult
    ReturnIsTruthful
    OverlapsOnlyAbandoned
    WaitsForCommands
PROPERTIES
    NoFireTimeTwice
    ShutdownCompletes
    DeadlineFreesJob
