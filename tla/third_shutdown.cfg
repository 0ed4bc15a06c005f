SPECIFICATION Spec
CONSTANTS
  NumLanes = 2
  MaxEpoch = 3
  RngMayFail = FALSE
  Clients = {c1, c2, c3}
  None = none
  AssignmentLimit = 0
  HasTtl = FALSE
  StopMayFail = FALSE
  StartMayFail = FALSE
  Ops = {"shutdown"}
  MaxRuns = 2
  MaxQueue = 2
SYMMETRY Symmetry
INVARIANTS ShutdownStopsAll
CHECK_DEADLOCK FALSE
