SPECIFICATION HSpec
CONSTANTS
  NumLanes = 2
  MaxEpoch = 2
  RngMayFail = TRUE
  Clients = {c1, c2}
  None = none
  AssignmentLimit = 2
  HasTtl = TRUE
  StopMayFail = FALSE
  StartMayFail = FALSE
  Ops = {"next", "key", "rotate"}
  MaxRuns = 2
  MaxQueue = 1
SYMMETRY Symmetry
INVARIANTS AssignmentsCounted
