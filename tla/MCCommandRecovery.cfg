SPECIFICATION Spec
CONSTANTS
  Runs = {r1}
  r1 = r1
  Absent = Absent
  Workloads = {"exited"}
  Clocks = {"steady", "beforeStart"}
  Terminals = {"failed"}
  StorageFaults = {"transient", "corrupt"}
  InvocationFaults = {"transient", "lagging"}
  Endless = TRUE
  MaxFaults = 0
INVARIANTS NothingStoredIsOverlooked NoFalseCorruption
PROPERTIES RetrievalEnds
CHECK_DEADLOCK FALSE
