\* One provider that changes between two contents, a refresh and a handler: liveness.
CONSTANTS
    c1 = c1
    v1 = v1
    v2 = v2
    w1 = w1
    h1 = h1
    None = None
    Ids = {c1}
    Versions = {v1, v2}
    Workers = {w1}
    Handlers = {h1}
    WorkerLimit = 1
    RetryMax = 1
SPECIFICATION FairSpec
PROPERTIES
    DueIsAttempted
    WorkerOrphansAreCleaned
    ShutdownCompletes
    OldContentDiesOut
