CONSTANTS
    NoUpdate = NoUpdate
    Proc = {api, worker}
    Update = {u1, u2, u3}
    MaxAttempts = 1
    MaxCrashes = 2
    MaxIoFaults = 1
    MaxTornWrites = 1
SPECIFICATION FairSpec
INVARIANTS
    MutualExclusion
    ThrownHaveNoEffect
PROPERTIES
    ImplementsAtomicStore
    CallsEnd
CHECK_DEADLOCK FALSE
