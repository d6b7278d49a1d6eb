SPECIFICATION Spec
CONSTANTS
    User = {u1}
    Token = {t1, t2, t3}
    Request = {r1, r2}
    None = None
    AccessTtl = 1
    RefreshTtl = 1
    MaxTime = 2
SYMMETRY Symmetry
INVARIANTS
    SessionInv
    RotationInvalidatesParent
    TerminationIsEarned
PROPERTIES
    RevocationIsFinal
    DeactivationStopsIssuing
    RedemptionsClose
    ImplementsLineage
