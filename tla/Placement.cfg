SPECIFICATION Spec
CONSTANTS
  Keys = {"key1", "other"}
  Datas = {"a", "b"}
  Absent = "absent"
  Void = "void"
  Nodes = {"n1", "n2", "n3"}
  NumVirtual = 2
  NumHashes = 4
  Services = {"s1", "s2"}
  StartLoads = {0, 2}
  MaxServices = 3
  MaxLoad = 3
  MaxHeld = 2
  Topics = {"t1", "t2", "t3"}
  MaxSubscribers = 2
  NumPartitions = 2
  MaxGroup = 6
  MaxInput = 3
  NumWords = 3
  Reducers = {"r1", "r2"}
  InstanceNames <- SomeInstances
  EventTypes <- SomeEventTypes
  Stamps = {1, 3, 5, 7}
  Series = {"cpu", "disk"}
  Minute = 2
  Hour = 4
  Month = 3
  Year = 6
  MaxPasses = 2
  WindowSize = 3
  SlidingInterval = 2
  SizeModulus = 16
INVARIANTS
  TypeOK
  EvenShares
  PipelinesAgree
PROPERTIES
  ImplementsDictionary
  OnlyItsKeysMove
CHECK_DEADLOCK FALSE
