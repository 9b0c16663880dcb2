SPECIFICATION Spec
CONSTANTS
  Calls = {1, 2, 3}
  Conns = {c1}
  Instances = {i1}
  t1 = t1
  Tasks <- MCTasks
  Names <- MCNames
  TooLong <- MCTooLong
  taskKey <- MCTaskKey
  Inputs <- MCInputs
  Ops = {"save", "task", "load", "complete", "error"}
  Serial = FALSE
INVARIANTS SaveIsAtomic
CHECK_DEADLOCK FALSE
