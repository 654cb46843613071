\* One followed node and four requests, failures, recoveries, tests or restarts.
CONSTANTS
    n1 = n1
    None = None
    Nodes = {n1}
    FailK = 2
    MaxEvents = 4
CHECK_DEADLOCK FALSE
SPECIFICATION FairSpec
INVARIANTS
    TypeOK
PROPERTIES
    RecoveryFollowsOutage
    DownAfterFailures
    OutageIsTold
    LeftoversGo
