SPECIFICATION RecoverySpec
CONSTANTS
    User = {u1}
    Token = {t1, t2}
    Request = {r1}
    None = None
    AccessTtl = 1
    RefreshTtl = 1
    MaxTime = 1
    Link = {x1, x2}
    Worker = {w1, w2}
    LinkTtl = 2
    ResetWindow = 1
SYMMETRY Symmetry
INVARIANTS
    RecoveryInv
    LatestLinkIsFound
    ResetRevokes
PROPERTIES
    LinksClose
    ExpulsionIsFinal
