SPECIFICATION FairSpec
CONSTANTS
    User = {u1, u2}
    Token = {t1, t2}
    Request = {r1}
    None = None
    AccessTtl = 1
    RefreshTtl = 1
    MaxTime = 2
PROPERTIES
    CleanupReclaims
    OneAccountAtATime
