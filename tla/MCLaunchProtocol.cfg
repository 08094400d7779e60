SPECIFICATION Spec
CONSTANTS
  c1 = c1  c2 = c2  m1 = m1  m2 = m2  noon = noon
  Client = {c1, c2}
  Machine = {m1, m2}
  Placements <- Either
  Creator = c1
  Target = 2
  MaxAttempts = 2
  MaxRecoveries = 1
  Stamps = {noon}
  Absent = Absent
INVARIANTS AtMostOneSend NeverOverAllocated RecordsAreTrue
PROPERTIES ImplementsCapacityRequest
CHECK_DEADLOCK FALSE
