SPECIFICATION HostSpec
CONSTANTS
    Process = {p1, p2}
    MaxInstallFault = 3
    MaxPowerLoss = 2
    Task = {t1, t2, t3}
    QuarantineLimit = 0
    MaxTxFault = 2
    MaxCancel = 1
    Destination = {d1, d2}
    Write = {w1, w2}
    MaxMigFault = 2
    MaxDeath = 2
    Body = {b1, b2}
    HmacKey = {h1, h2}
    MaxOrdinal = 3
    MaxSegment = 1
    MaxDamage = 1
    Validation = {v1, v2}
    Authorization = {a1}
    AnswerText = {x1, x2}
    ReceiptKey = {r1, r2}
    Segments = 1
    MaxRaise = 1
    MaxRestart = 1
    Call = {c1, c2}
    Bounded = {e1, e2}
    MaxSpawnFault = 2
    MaxInterrupt = 1
SYMMETRY EdgeCalls
INVARIANTS
    ModelsAreKept
    TransactionsAreSound
    UpgradedHasBackup
    VerifierIsRight
    AnswersAreRecorded
PROPERTIES
    NothingLeaks
    CallsAreBounded
CHECK_DEADLOCK FALSE
