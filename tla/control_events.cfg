SPECIFICATION Spec
CONSTANTS
  Callers = {c1}
  None = none
  Buffer = 1
  Authenticated = TRUE
  Ops = {"raw", "events"}
  MaxCommands = 3
  MaxUnread = 1
INVARIANT RepliesOwn
CHECK_DEADLOCK FALSE
