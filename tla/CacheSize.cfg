SPECIFICATION Spec
CONSTANTS
    Callers = {c1, c2}
    Keys = {k1, k2, k3}
    NoKey = NoKey
    Expiry = 2
    TimeOut = 1
    MaxSize = 1
    MaxTime = 5
INVARIANTS
    CacheWithinMaximum
