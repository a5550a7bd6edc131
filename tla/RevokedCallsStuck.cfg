SPECIFICATION RevokedSpec
CONSTANTS
    MaxReservation = 3
    MaxMonth = 1
    Quotes = {2}
    Actuals = {1, 4, 9}
    MaxCharge = 8
    SoftLimit = 3
    HardLimit = 6
    BatchSize = 2
    OfSubject = {1, 2}
INVARIANT OpenRowsReconcile
CHECK_DEADLOCK FALSE
