SPECIFICATION Spec
CONSTANTS
  NumLanes = 2
  MaxEpoch = 3
  RngMayFail = FALSE
  Clients = {c1, c2}
  None = none
  AssignmentLimit = 0
  HasTtl = FALSE
  StopMayFail = FALSE
  StartMayFail = FALSE
  Ops = {"rotate"}
  MaxRuns = 2
  MaxQueue = 2
SYMMETRY Symmetry
INVARIANTS OldCredentialsGone
