SPECIFICATION Spec
CONSTANTS
    Email = {e1, e2}
    Attempt = {a1, a2, a3}
    None = None
    MaxFailures = 2
    LockTime = 2
    MaxOpenings = 1
    MaxTime = 5
SYMMETRY Symmetry
INVARIANTS
    LockoutInv
    GuessesAreBounded
    GuessRateIsBounded
PROPERTIES
    LockNeverShortened
