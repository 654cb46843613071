\* Two clients, one of which is added to the sum of its user in one report and left out in the next.
CONSTANTS
    e1 = e1
    e2 = e2
    u1 = u1
    t1 = t1
    t2 = t2
    None = None
    Emails = {e1, e2}
    Users = {u1}
    Ticks = {t1}
    Weights = {1}
    MaxBytes = 1
    MaxBoots = 1
    MaxClients = 0
    MaxChanges = 0
SPECIFICATION Spec
SYMMETRY Symmetry
VIEW UserTable
CONSTRAINT WhileOrderly
INVARIANT
    SumIsCumulative
