\* Two connections of one address while the token is reset, and one fault.
CONSTANTS
    k1 = k1
    k2 = k2
    a1 = a1
    a2 = a2
    r1 = r1
    None = None
    Conns = {k1, k2}
    Ips = {a1}
    FailThreshold = 1
    Resets = {r1}
    MaxResets = 1
    MaxFaults = 1
SPECIFICATION SweepSpec
INVARIANTS
    TypeOK
    RegisteredUnderOwnToken
PROPERTIES
    NotifiedOnce
    DeadIsUnregistered
CHECK_DEADLOCK FALSE
