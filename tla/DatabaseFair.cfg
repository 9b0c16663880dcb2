SPECIFICATION HistoryFairSpec
CONSTANTS
  Calls = {1, 2, 3}
  Conns = {c1, c2}
  Instances = {i1}
  t1 = t1
  Tasks <- MCTasks
  Names <- MCNames
  TooLong <- MCTooLong
  taskKey <- MCTaskKey
  Inputs <- MCWaitInputs
  Ops = {"save", "task"}
  Serial = TRUE
INVARIANTS SaveReplacesEarlierCalls
PROPERTIES EveryCallEnds
CHECK_DEADLOCK FALSE
