SPECIFICATION ThreadsSpec
CONSTANTS
  Calls = {1, 2, 3}
  Instances = {i1, i2}
  Documents <- MCDocuments
INVARIANTS StartedProcessKept TerminatedAtMostOnce TerminatedIsGone BodyUndisturbed
PROPERTIES ImplementsEngine EveryMethodEnds
CHECK_DEADLOCK FALSE
