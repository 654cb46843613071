\* One user whose package is assigned, updated, renewed and removed while agents and replies are lost.
CONSTANTS
    u1 = u1
    p1 = p1
    i1 = i1
    c1 = c1
    c2 = c2
    r1 = r1
    None = None
    Users = {u1}
    Packages = {p1}
    Inbounds = {i1}
    UnderClients = {i1}
    Creds = {c1, c2}
    Requests = {r1}
    Limits = {0, 1}
    MaxUsed = 0
    MaxRequests = 2
    MaxFaults = 1
SPECIFICATION Spec
INVARIANTS
    TypeOK
    ExpiryForgetsNothing
PROPERTIES
    CredentialIsStable
