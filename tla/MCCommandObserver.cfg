SPECIFICATION Spec
CONSTANTS
  Runs = {r1}
  r1 = r1
  Absent = Absent
  Workloads = {"exited", "execution_timeout"}
  Clocks = {"steady", "beforeStart"}
  Terminals = {"failed", "cancelled"}
  StorageFaults = {"transient", "denied", "corrupt"}
  InvocationFaults = {"transient", "denied", "lagging", "unrecognised"}
  Endless = FALSE
  MaxFaults = 2
  MaxFailures = 2
INVARIANTS NoFalseCorruption VerdictIsTrue
PROPERTIES SettledIsReported
CHECK_DEADLOCK FALSE
