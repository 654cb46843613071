\* Two connections that dispute a token from two addresses, and two faults.
CONSTANTS
    k1 = k1
    k2 = k2
    a1 = a1
    a2 = a2
    r1 = r1
    None = None
    Conns = {k1, k2}
    Ips = {a1, a2}
    FailThreshold = 2
    Resets = {}
    MaxResets = 0
    MaxFaults = 2
SPECIFICATION FairSpec
PROPERTIES
    GoneIsOffline
    AgentGetsIn
CHECK_DEADLOCK FALSE
