SPECIFICATION FairSpec
CONSTANTS
  NumLanes = 1
  MaxEpoch = 2
  RngMayFail = FALSE
  Clients = {c1, c2}
  None = none
  AssignmentLimit = 2
  HasTtl = FALSE
  StopMayFail = TRUE
  StartMayFail = FALSE
  Ops = {"next", "rotate", "restart", "shutdown", "cancel", "drop"}
  MaxRuns = 2
  MaxQueue = 1
INVARIANTS AnswersMatch ShutdownComplete
PROPERTIES CallsReturn Stops PoolServed
CHECK_DEADLOCK FALSE
