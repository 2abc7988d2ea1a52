SPECIFICATION FairSpec
CONSTANTS
    m1 = m1
    m2 = m2
    c1 = c1
    c2 = c2
    k1 = k1
    Msg = {m1}
    MaxRetries <- NoRetries
    MaxName = 10
    NoFile = NoFile
    ServerConsumer = {c1, c2}
    CliConsumer = {}
    Tool = {k1}
    Server = Server
    RecoverOnStart = TRUE
    SettleRetries = 1
    MaxFaults = 1
    MaxCrashes = 1
    MaxStarts = 2
    MaxCommands = 0
CHECK_DEADLOCK FALSE
PROPERTIES
    ShutdownCompletes
    EveryMessageEnds
