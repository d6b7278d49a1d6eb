SPECIFICATION Spec
CONSTANTS
    User = {u1}
    App = {a1}
    Org = {o1, o2}
    Role = {r1}
    Permission = {p1}
    Token = {t1, t2}
    Request = {q1}
    None = None
    AccessTtl = 1
    CacheTtl = 1
    QueryTime = 0
    MaxTime = 1
SYMMETRY Symmetry
INVARIANTS
    ContextIsPreserved
