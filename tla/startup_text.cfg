SPECIFICATION Spec
CONSTANTS
  MaxPort = 2
  MaxLanes = 2
  MaxQuiet = 1
  MaxConns = 0
  Second = 10
  MaxCalls = 2
  Listeners <- MCListeners
  Ranges <- MCRanges
  Controls <- MCControls
  Bridges <- MCBridges
  RawOptions <- MCRawOptions
  Pools <- MCPools
  Paths <- MCPaths
  Bodies <- MCBodies
INVARIANTS TypeOK BuiltSound ReadBack ReplyFramed ServerProved FailuresExplained ManagedBuilds ManagedComesUp
CHECK_DEADLOCK FALSE
