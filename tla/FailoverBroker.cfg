SPECIFICATION FairSpec
CONSTANTS
    Messages = {m1, m2, m3}
    Consumers = {c1, c2}
    Replicator = Replicator
INVARIANTS
    TypeOK
    ChannelOrder
    OnlyConsumersStealWakeups
    MainDrainsLeader
PROPERTIES
    MainReplicates
