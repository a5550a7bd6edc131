SPECIFICATION EdgeSpec
CONSTANTS
    Corr = {c1, c2}
    StopAll = {c1}
    PendingLimit = 1
    Retention = 4
    MaxConn = 2
    MaxCrash = 1
    Gesture = {g1}
    MaxCommand = 2
    Call = {k1, k2, k3}
    Grant = {w1, w2}
    Reader = {r1, r2}
    QueueMax = 2
    MaxPut = 4
    MaxClose = 1
    Consumer = {p1, p2}
INVARIANTS
    ReceiverNeverAhead
    ExchangesAreAccounted
    
    
CHECK_DEADLOCK FALSE
