CONSTANTS
    Ctx = {c1}
    MaxTurn = 2
    MaxDeferred = 1
    Disconnects = FALSE
    Impatient = {}
    MaxEndCut = 0
SPECIFICATION SMSpec
INVARIANTS
    PriorNeverOutlivesItsSession
CHECK_DEADLOCK FALSE
