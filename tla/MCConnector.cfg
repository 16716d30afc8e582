CONSTANTS
    NoClient = NoClient
    c1 = c1
    c2 = c2
    c3 = c3
    Objects = {c1, c2, c3}
    NumHosts = 2
    Runs = {1, 2}
SPECIFICATION ConnectorFairSpec
INVARIANTS
    OneClientPerHost
PROPERTIES
    HostsAreConnected
