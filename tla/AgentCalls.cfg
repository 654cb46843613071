\* A command, a stream and a probe on one connection that may be lost.
CONSTANTS
    c1 = c1
    s1 = s1
    p1 = p1
    None = None
    Commands = {c1}
    Streams = {s1}
    Probes = {p1}
    Addresses = 1
    Lines = 1
    Buffer = 1
    Leaving = {s1}
    Mixes = {{c1, s1}, {c1, p1}}
    MaxRequests = 2
    MaxDrops = 1
SPECIFICATION Spec
INVARIANTS
    TypeOK
    ProgressIsOneRun
PROPERTIES
    AnsweredIsNotRunAgain
    KeepsContract
    FramesAreRouted
CHECK_DEADLOCK FALSE
