SPECIFICATION SetupFairSpec
CONSTANTS
  Callers = {c1, c2}
  Sources <- MCSources
  Server <- MCServer
  LibpqDefault <- MCLibpqDefault
  Capacity = 8
  MaxFailures = 1
INVARIANTS SetupTypeOK SchemaReady LeaksBounded BuiltAsConfigured
PROPERTY EveryCallerServed
CHECK_DEADLOCK FALSE
