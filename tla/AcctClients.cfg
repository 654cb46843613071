\* One client: restarts of xray and of the panel, removals and failures between orderly
\* reports; and two reports that overlap while multipliers and nodes change and cycles
\* are reset.
CONSTANTS
    e1 = e1
    e2 = e2
    u1 = u1
    t1 = t1
    t2 = t2
    None = None
    Emails = {e1}
    Users = {u1}
    Ticks = {t1, t2}
    Weights = {1, 2}
    MaxBytes = 2
    MaxBoots = 3
    MaxClients = 1
    MaxChanges = 1
SPECIFICATION Spec
SYMMETRY Symmetry
VIEW ClientTable
CONSTRAINT LongOrMixed
INVARIANTS
    NeverOverbilled
    CountedOnce
PROPERTIES
    HistoryNeverShrinks
