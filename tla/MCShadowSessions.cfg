SPECIFICATION FairSpec
CONSTANTS
    c1 = c1
    c2 = c2
    c3 = c3
    Clients = {c1, c2, c3}
    Pairs = {1, 2}
    PairOf <- MCPairOf
INVARIANTS
    OnlyGoneAreDetached
    ToldOnce
    NoneForgotten
PROPERTIES
    GoneAreClosed
CHECK_DEADLOCK FALSE
