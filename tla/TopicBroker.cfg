SPECIFICATION FairSpec
CONSTANTS
    N = 2
    Publishers = {p1, p2}
    Consumers = {c1, c2}
    Messages = {m1, m2}
    NoMessage = NoMessage
    MaxChanges = 1
INVARIANTS
    TypeOK
    PublisherOrder
    WakeupsCoverQueue
    OnlyRivalsBlock
PROPERTIES
    SleepersAreServed
