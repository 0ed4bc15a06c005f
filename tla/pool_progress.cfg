SPECIFICATION FairSpec
CONSTANTS
  NumLanes = 2
  MaxEpoch = 2
  RngMayFail = FALSE
  Clients = {c1, c2}
  None = none
  AssignmentLimit = 0
  HasTtl = TRUE
  StopMayFail = FALSE
  StartMayFail = FALSE
  Ops = {"next", "rotate"}
  MaxRuns = 2
  MaxQueue = 1
PROPERTIES ExpiredRotated LaneComesBack
