SPECIFICATION Spec
CONSTANTS
    User = {u1, u2}
    Email = {e1, e2}
    Password = {p1, p2}
    Worker = {w1, w2}
    None = None
    SystemAdmin = {u1}
    Limit = 1
    MaxLeft = 2
SYMMETRY Symmetry
INVARIANTS
    UsersInv
    EmailsAreUnique
    OverwriteIsEarned
    FewAreSkipped
