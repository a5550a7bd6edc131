SPECIFICATION HouseholdSpec
CONSTANTS
    Ctx = {x1}
    MaxTurn = 2
    MaxDeferred = 1
    Disconnects = TRUE
    Impatient = {}
    MaxEndCut = 0
    Owner = owner
    Adults = {}
    Children = {kid}
    Modalities = {face}
    CloudPurposes = {stt}
    Personalization = personalization
    ChildMemory = memory
    Ceremonies = {c1}
    Routes = {r1}
    Nobody = nobody
    MaxReceipts = 3
    MaxVersion = 2
    Challenges = {g1, g2}
    SessionLife = 3
    AnswerTime = 2
    MaxInstant = 4
    MaxReservation = 3
    MaxMonth = 1
    Quotes = {2}
    Actuals <- MCActuals
    MaxCharge = 8
    SoftLimit = 3
    HardLimit = 6
    BatchSize = 2
    OfSubject = {1, 2}
INVARIANTS
    AuthorityIsConsented
    RevokedCallStaysClosed
PROPERTIES
    ContextsEnd
CHECK_DEADLOCK FALSE
