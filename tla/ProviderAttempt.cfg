CONSTANTS
    MaxReservation = 2
    MaxMonth = 1
    Quotes = {2}
    Actuals = {1, 9}
    MaxCharge = 8
    SoftLimit = 90
    HardLimit = 100
    BatchSize = 1
    MaxTurn = 2
    MaxCrash = 1
    MaxAttempts = 2
SPECIFICATION FairAttemptSpec
PROPERTIES
    CallsAreAccounted
    
CHECK_DEADLOCK FALSE
