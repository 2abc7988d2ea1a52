SPECIFICATION Spec
CONSTANTS
    HeadLimit = 1
    TailLimit = 1
    Pipe <- Pipes
    MaxBytes <- Volume
    PipeSize = 2
    MaxTime = 1
    Timeouts = {0, 1}
    NoLimit = NoLimit
    Deadlines = {NoLimit, 0}
CHECK_DEADLOCK FALSE
INVARIANTS
    InterruptedIsUnfinished
