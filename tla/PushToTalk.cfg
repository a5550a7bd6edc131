SPECIFICATION MCSpec
CONSTANTS
    Turns <- MCTurns
INVARIANTS
    CrossingFramesAreAccepted
    OutcomesAreAgreed
    AudioIsWiped
    
CHECK_DEADLOCK FALSE
