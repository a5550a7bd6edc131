SPECIFICATION CommissioningSpec
CONSTANTS
    Code = {k1, k2, k3}
    MaxGeneration = 2
    MaxFault = 2
    MaxCrash = 1
    Variant = {v1}
    MaxStateGen = 3
    MaxTime = 1
    Life = 1
    MaxRootFault = 2
    MaxRootCrash = 1
    MaxUtc = 4
    ForwardStep = 2
    MaxStart = 3
    MaxTimeFault = 2
    MaxLoss = 1
    MaxBoot = 2
    MaxInputs = 2
    MaxFwFault = 2
    MaxKill = 1
    Bundle = {b1}
    Slot = {s1, s2}
    MaxStateGeneration = 4
    MaxDispatchFault = 2
    MaxRobotLoss = 1
    MaxKeyGeneration = 2
    MaxWrite = 2
    MaxKeyFault = 4
    MaxOutage = 3
SYMMETRY Slots
INVARIANTS
    CommissioningIsWhole
    
    TimeIsKept
    
    StoreIsWhole
    ResolvedIsCoherent
    
CHECK_DEADLOCK FALSE
