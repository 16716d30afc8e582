CONSTANTS
    s1 = s1
    s2 = s2
    f1 = f1
    f2 = f2
    g1 = g1
    g2 = g2
    a = a
    b = b
    Sessions = {s1, s2}
    Foyers = {f1, f2}
    Gates = {g1, g2}
    Clients = {a, b}
    FoyerOf <- MCFoyerOf
    GateOf <- MCGateOf
    EntryOf <- MCEntryOf
    MaxBroadcasts = 1
SPECIFICATION FairSpec
CHECK_DEADLOCK FALSE
INVARIANTS
    BroadcastOnce
PROPERTIES
    BroadcastsArrive
