SPECIFICATION FairSpec
CONSTANTS
  MaxRuns = 2
  Levels = {"instance", "process"}
INVARIANTS TypeOK OwnTor OwnConfig Drained
PROPERTIES PromiseKept StartReturns ShutdownReturns OrphansEnd
CHECK_DEADLOCK FALSE
