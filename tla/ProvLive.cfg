\* What the limit enforcer and the daily tasks owe, next to one request and one fault.
CONSTANTS
    u1 = u1
    p1 = p1
    i1 = i1
    c1 = c1
    c2 = c2
    r1 = r1
    None = None
    Users = {u1}
    Packages = {p1}
    Inbounds = {i1}
    UnderClients = {i1}
    Creds = {c1}
    Requests = {r1}
    Limits = {0, 1}
    MaxUsed = 1
    MaxRequests = 1
    MaxFaults = 1
SPECIFICATION FairSpec
VIEW Untouched
PROPERTIES
    ExpiredIsUnbound
    BelowLimitIsRestored
    MissingIsDelivered
    DeletedIsCleaned
