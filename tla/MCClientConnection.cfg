CONSTANTS
    MaxRequests = 2
    MaxMessages = 1
SPECIFICATION FairSpec
CHECK_DEADLOCK FALSE
INVARIANTS
    OwnCredentials
    NoMessageUnproven
PROPERTIES
    RequestsEnd
    ShadowIsClosed
