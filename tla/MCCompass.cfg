CONSTANTS
    c1 = c1
    c2 = c2
    w1 = w1
    k1 = k1
    v0 = v0
    v1 = v1
    Conns = {c1, c2}
    Keys = {k1}
    Values = {v0, v1}
    EmptyValue = v0
    Criteria <- MCCriteria
    WatcherIds = {w1}
    ExpiryDuration = 1
    StartTime = 2
    MaxTime = 3
    MaxVersion = 2
    MaxEntries = 2
SPECIFICATION Spec
SYMMETRY MCSymmetry
CHECK_DEADLOCK FALSE
INVARIANTS
    TypeOK
    LockExclusion
    HeldIsGranted
    LockStateIsBacked
    WatchersAreCurrent
    NoPartialCommit
PROPERTIES
    GrantsLostOnlyToExpiry
    ImplementsRegister
