SPECIFICATION Spec
CONSTANTS
    User = {u1}
    App = {}
    Org = {o1}
    Role = {r1}
    Permission = {p1}
    Token = {t1, t2}
    Request = {q1, q2}
    None = None
    AccessTtl = 1
    CacheTtl = 1
    QueryTime = 0
    MaxTime = 1
SYMMETRY Symmetry
INVARIANTS
    AccessInv
    GuardIsHonest
    CheckIsHonest
    ContextIsKept
