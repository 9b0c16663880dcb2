SPECIFICATION Spec
CONSTANTS
  Calls = {1, 2, 3}
  Conns = {c1, c2}
  Kinds = {"process"}
  x = x
  y = y
  Ids <- MCIds
  Batches <- MCBatches
  columns <- MCColumns
SYMMETRY MCSymmetry
INVARIANTS TypeOK BatchUpdatesDoNotMix FailedCallStoresNothing
  ConnectionLeftIdle
PROPERTIES BatchCreateIsAtomic ResultIsTrue
CHECK_DEADLOCK FALSE
