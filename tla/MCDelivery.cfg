SPECIFICATION FairSpec
CONSTANTS
    FromGate = 2
    FromBox = 1
    MaxPending = 1
    MaxMessages <- MCMaxMessages
INVARIANTS
    TypeOK
    NothingStranded
    InOrder
    ClosureComesLast
PROPERTIES
    AcceptedIsHandled
    ClosureIsReported
    ShutdownReachesGate
    ImplementsChannel
CHECK_DEADLOCK FALSE
