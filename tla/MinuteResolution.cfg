SPECIFICATION Spec
CONSTANTS
  Keys = {"key1"}
  Datas = {"a"}
  Absent = "absent"
  Void = "void"
  Nodes = {"n1"}
  NumVirtual = 1
  NumHashes = 2
  Services = {"s1"}
  StartLoads = {0}
  MaxServices = 1
  MaxLoad = 1
  MaxHeld = 1
  Topics = {"t1"}
  MaxSubscribers = 1
  NumPartitions = 1
  MaxGroup = 1
  MaxInput = 3
  NumWords = 1
  Reducers = {"r1"}
  InstanceNames <- SomeInstances
  EventTypes <- SomeEventTypes
  Stamps = {1, 3, 7}
  Series = {"cpu"}
  Minute = 2
  Hour = 4
  Month = 3
  Year = 6
  MaxPasses = 1
  WindowSize = 1
  SlidingInterval = 1
  SizeModulus = 4
INVARIANT
  OneDatumPerMinute
CHECK_DEADLOCK FALSE
