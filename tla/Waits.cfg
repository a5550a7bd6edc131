SPECIFICATION WaitsSpec
CONSTANTS
    RetryLimit = 3
    MaxStart = 2
    MaxStop = 3
    Ctx = {x1}
    MaxTurn = 1
    Impatient = {1}
    MaxEndCut = 1
    Corr = {c1}
    StopAll = {c1}
    PendingLimit = 1
    Retention = 2
    MaxConn = 2
    MaxCrash = 0
    Stopper = {s1, s2}
INVARIANTS
    StoppedIsQuiet
PROPERTIES
    ProcessIsOwned
    CallsReturn
    EndReturns
    LinkWaitsEnd
    EveryStopReturns
CHECK_DEADLOCK FALSE
