CONSTANTS
    ip1 = ip1
    ip2 = ip2
    http = http
    auth = auth
    Ips = {ip1, ip2}
    Counters = {http, auth}
    CounterMax <- MCCounterMax
    Window = 3
    BanDuration = 4
    MaxTime = 6
    MaxPerTick = 1
SPECIFICATION Spec
SYMMETRY MCSymmetry
CHECK_DEADLOCK FALSE
INVARIANTS
    BansExceedMaximum
