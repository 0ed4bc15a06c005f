SPECIFICATION FairSpec
CONSTANTS
  Callers = {c1, c2}
  None = none
  Buffer = 1
  Authenticated = TRUE
  Ops = {"bootstrap", "listener", "giveup", "drop"}
  MaxCommands = 2
  MaxUnread = 1
PROPERTIES CallsReturn ConnectionEnds
CHECK_DEADLOCK FALSE
