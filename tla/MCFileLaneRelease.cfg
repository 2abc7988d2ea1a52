SPECIFICATION Spec
CONSTANTS
    m1 = m1
    m2 = m2
    c1 = c1
    c2 = c2
    k1 = k1
    Msg = {m1}
    MaxRetries <- OneRetry
    MaxName = 4
    NoFile = NoFile
    ServerConsumer = {c1}
    CliConsumer = {}
    Tool = {k1}
    Server = Server
    RecoverOnStart = FALSE
    SettleRetries = 1
    MaxFaults = 1
    MaxCrashes = 0
    MaxStarts = 1
    MaxCommands = 0
CHECK_DEADLOCK FALSE
PROPERTIES
    ReleaseRestoresCount
