SPECIFICATION FairSpec
CONSTANTS
    m1 = m1
    m2 = m2
    c1 = c1
    c2 = c2
    k1 = k1
    Msg = {m1, m2}
    MaxRetries <- NoRetries
    Garbage = {}
    ServerConsumer = {c1}
    CliConsumer = {}
    Tool = {k1}
    Server = Server
    NoElement = NoElement
    RecoverOnStart = TRUE
    SettleRetries = 1
    BatchSize = 1
    MaxFaults = 2
    MaxCrashes = 1
    MaxStarts = 2
    MaxCommands = 0
CHECK_DEADLOCK FALSE
PROPERTIES
    ShutdownCompletes
    EveryMessageEnds
