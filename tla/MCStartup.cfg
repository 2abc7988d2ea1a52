SPECIFICATION FairSpec
CONSTANTS
    p = p
    q = q
    a1 = a1
    a2 = a2
    b1 = b1
    Builtin = Builtin
    AddressableMib = 8192
    UsizeMax = 8192
    TableElementsLimit = 12
    Memory = {m1, m2}
    Table = {t1}
    Size = {6, 10, 17}
    Maximum = 16
    MaxClock = 1
    NoDeadline = NoDeadline
    Specs <- AllSpecs
    Files <- WasmFiles
    Commands <- ListCommands
    Schedules <- ListSchedules
    LoadTimeout = 1
    Deadlines = {0, 1}
CHECK_DEADLOCK FALSE
INVARIANTS
    LimiterCountsMemory
    CallErrorIsTruthful
    FirstComponentStays
    JobsAreRegistered
    LoweringNeverFails
    PasswordStaysPrivate
PROPERTIES
    CallStops
