SPECIFICATION DeliverySpec
CONSTANTS
    User = {u1}
    App = {}
    Org = {o1}
    Role = {r1}
    Permission = {}
    Token = {t1, t2}
    Request = {q1}
    None = None
    AccessTtl = 1
    CacheTtl = 1
    QueryTime = 0
    MaxTime = 1
    Socket = {k1}

    
    
    
PROPERTIES
    EveryoneIsGreeted
