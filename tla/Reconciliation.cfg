SPECIFICATION Spec
CONSTANTS
  Procs = {"p1", "p2", "p3"}
  Stranger = "other"
  MaxEvents = 5
  Clients = {"c1", "c2"}
  Sites = {0, 1, 2}
  MaxUpdates = 4
  RepairKeys <- SomeKeys
  RepairValues <- SomeValues
  NoString <- NoCharacters
  Resorts = {"r1", "r2", "r3", "r4"}
  CacheSize = 2
  Lifetime = 2
  MaxDelay = 1
  MaxTime = 6
INVARIANTS
  TypeOK
  ClocksOrderHistory
  ConflictsAreCaught
  ReadsSeeRepair
  KeepsRecentlyUsed
CHECK_DEADLOCK FALSE
