\* A log may stay down for good once it has been started often enough.
CHECK_DEADLOCK FALSE
SPECIFICATION Spec
CONSTANTS
    Keys = {k1, k2, Blank}
    EmptyKey = Blank
    Values = {0, 1, 2}
    MaxFactor = 3
    N = 3
    MaxWrites = 4
    Messages = {m1, m2, m3}
    NoMessage = NoMessage
    MaxStarts = 3
INVARIANTS
    TypeOK
    HoldsLastReaching
    ReachedReadIsLatest
    FileKeepsWritten
    MemoryMirrorsFile
PROPERTIES
    ImplementsRegister
