SPECIFICATION FairSpec
CONSTANTS
    Messages = {m1, m2}
    Consumers = {c1}
    Replicator = Replicator
PROPERTIES
    MainTerminates
