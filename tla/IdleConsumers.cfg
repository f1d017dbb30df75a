SPECIFICATION SharesSpec
CONSTANTS
  Services = {"s1"}
  StartLoads = {0}
  MaxServices = 1
  MaxLoad = 1
  MaxHeld = 1
  Topics = {"t1"}
  MaxSubscribers = 1
  NumPartitions = 1
  MaxGroup = 3
INVARIANT
  EveryConsumerHasPartition
