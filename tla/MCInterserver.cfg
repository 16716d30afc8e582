\* One request from each end and a PING: every kind of message meets every other
\* one in both directions.
CONSTANTS
    ClientRequests = 1
    ServerRequests = 1
    MaxPings = 1
SPECIFICATION FairSpec
CHECK_DEADLOCK FALSE
INVARIANTS
    TypeOK
    EndsAgree
    ServesOnlyAuthenticated
    NoOrphanedPromise
PROPERTIES
    AtMostOnce
    NobodyWaitsForEver
