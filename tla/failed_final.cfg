SPECIFICATION Spec
CONSTANTS
  NumLanes = 2
  MaxEpoch = 3
  RngMayFail = TRUE
  Clients = {c1, c2}
  None = none
  AssignmentLimit = 0
  HasTtl = FALSE
  StopMayFail = FALSE
  StartMayFail = FALSE
  Ops = {"rotate"}
  MaxRuns = 2
  MaxQueue = 2
PROPERTIES FailedIsFinal
