\* Three commands at once, a window of two numbers, four sessions.
CONSTANTS
    c1 = c1
    c2 = c2
    c3 = c3
    None = None
    Calls = {c1, c2, c3}
    W = 2
    MaxSessions = 4
    MaxRepeats = 1
    MaxLost = 1
    MaxEnds = 2
SPECIFICATION Spec
SYMMETRY Symmetry
INVARIANTS
    TypeOK
    WindowIsTheSet
    OncePerEnvelope
    SentAgainOnlyIfOvertaken
    SessionsHeal
CHECK_DEADLOCK FALSE
