SPECIFICATION MCSpec
CONSTANTS
    Task = {k1, k2}
    Attempt = {a1}
    MaxTurn = 2
    RetryLimit = 2
    MaxTracked = 1
    MaxRecovery = 1
    MaxEvent = 1
    MaxFamily = 2
    Worker = {w1, w2}
    Lease = 2
    MaxBacklog = 1
    MaxFault = 1
INVARIANTS
    ReleasedTurnIsQuiet
PROPERTIES
    ImplementsHouseholdTurn
    RevocationsAreApplied
    BarrierEnds
    RevocationsComplete
CHECK_DEADLOCK FALSE
