\* One provider with two contents, edited, deleted and refreshed by a handler
\* while two scheduled refreshes compete for one slot.
CONSTANTS
    c1 = c1
    c2 = c2
    v1 = v1
    v2 = v2
    w1 = w1
    w2 = w2
    h1 = h1
    None = None
    Ids = {c1}
    Versions = {v1, v2}
    Workers = {w1, w2}
    Handlers = {h1}
    WorkerLimit = 1
    RetryMax = 2
SPECIFICATION Spec
SYMMETRY Symmetry
INVARIANTS
    TypeOK
    NoLeakedMark
    WorkerEntryIsTracked
