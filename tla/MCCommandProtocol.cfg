SPECIFICATION Spec
CONSTANTS
  Client = client
  Runs = {r1, r2}
  Workloads = {"exit_zero", "unknown"}
  ClockFaults = {"steady", "beforeSubmit", "beforeFinish"}
  Absent = Absent
SYMMETRY MCSymmetry
INVARIANTS ProtocolInv AtMostOneExecution EvidenceIsGenuine CompletePublicationIsBacked UnsubmittedNeverExecutes
PROPERTIES ImplementsCommandLife
CHECK_DEADLOCK FALSE
