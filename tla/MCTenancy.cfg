SPECIFICATION Spec
CONSTANTS
    User = {u1}
    App = {a1, a2}
    Org = {o1}
    Role = {admin, r1}
    Permission = {p1}
    Row = {i1, i2}
    Request = {q1, q2}
    None = None
    SystemRole = {admin}
    SystemAdmin = admin
    OrgAdmin = admin
SYMMETRY Symmetry
INVARIANTS
    TenancyInv
    AdmittedRolesFit
PROPERTIES
    ImplementsMemberships
