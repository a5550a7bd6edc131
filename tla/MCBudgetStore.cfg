SPECIFICATION Spec
CONSTANTS
    MaxReservation = 3
    MaxMonth = 2
    Quotes <- MCQuotes
    Actuals <- MCActuals
    MaxCharge = 8
    SoftLimit = 3
    HardLimit = 5
    BatchSize = 2
PROPERTIES
    BooksAreRight
    ImplementsPromise
CHECK_DEADLOCK FALSE
