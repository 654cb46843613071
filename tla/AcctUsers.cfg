\* Two clients, whose counters are added up for one user or for nobody.
CONSTANTS
    e1 = e1
    e2 = e2
    u1 = u1
    t1 = t1
    t2 = t2
    None = None
    Emails = {e1, e2}
    Users = {u1}
    Ticks = {t1}
    Weights = {1}
    MaxBytes = 1
    MaxBoots = 2
    MaxClients = 1
    MaxChanges = 0
SPECIFICATION Spec
SYMMETRY Symmetry
VIEW UserTable
CONSTRAINT WhileSteady
INVARIANTS
    TypeOK
    UserNeverOverbilled
