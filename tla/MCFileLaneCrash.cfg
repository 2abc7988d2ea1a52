SPECIFICATION Spec
CONSTANTS
    m1 = m1
    m2 = m2
    c1 = c1
    c2 = c2
    k1 = k1
    Msg = {m1}
    MaxRetries <- OneRetry
    MaxName = 4
    NoFile = NoFile
    ServerConsumer = {c1}
    CliConsumer = {c2}
    Tool = {k1}
    Server = Server
    RecoverOnStart = TRUE
    SettleRetries = 1
    MaxFaults = 0
    MaxCrashes = 1
    MaxStarts = 2
    MaxCommands = 0
CHECK_DEADLOCK FALSE
INVARIANTS
    IInv
