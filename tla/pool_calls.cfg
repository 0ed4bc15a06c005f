SPECIFICATION Spec
CONSTANTS
  NumLanes = 2
  MaxEpoch = 3
  RngMayFail = TRUE
  Clients = {c1, c2}
  None = none
  AssignmentLimit = 0
  HasTtl = FALSE
  StopMayFail = TRUE
  StartMayFail = TRUE
  Ops = {"rotate", "restart", "cancel"}
  MaxRuns = 2
  MaxQueue = 1
SYMMETRY Symmetry
INVARIANTS TypeOK GenerationsUnique NoLaneLeaked ReadyRepaired AddressesLive AnswersMatch
PROPERTIES RotateAnswered RestartAnswered PoolServed
