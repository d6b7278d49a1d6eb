SPECIFICATION Spec
CONSTANTS
    Client = {c1, c2}
    Secret = {s1, s2}
    Permission = {p1}
    Token = {t1}
    Request = {q1, q2}
    None = None
    Absent = Absent
    AccessTtl = 1
    QueryTime = 0
    MaxTime = 2
SYMMETRY Symmetry
INVARIANTS
    ClientsInv
    RetiredStaysRetired
    ServiceTokenIsHonest
PROPERTIES
    DeactivationHolds
    ClosedClientsGetNothing
