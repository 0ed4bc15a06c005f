SPECIFICATION Spec
CONSTANTS
  Callers = {c1, c2}
  None = none
  Buffer = 1
  Authenticated = FALSE
  Ops = {"own", "bootstrap", "listener", "raw", "events", "giveup", "drop"}
  MaxCommands = 2
  MaxUnread = 1
INVARIANTS TypeOK OwnReply NeverOrphaned TakenWhenOk
PROPERTIES ServiceSpec
CHECK_DEADLOCK FALSE
