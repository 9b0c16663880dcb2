SPECIFICATION Spec
CONSTANTS
  Calls = {1, 2, 3}
  Conns = {c1, c2}
  Instances = {i1}
  t1 = t1
  Tasks <- MCTasks
  Names <- MCNames
  TooLong <- MCTooLong
  taskKey <- MCTaskKey
  Inputs <- MCInputs
  Ops = {"save", "task", "load", "complete", "error"}
  Serial = TRUE
SYMMETRY MCSymmetry
INVARIANTS TypeOK SaveIsAtomic TaskIsAtomic FailedCallStoresNothing
  LoadSeesWholeCalls IdleOutsideTransaction
PROPERTIES ReturnMeansStored ImplementsStore
CHECK_DEADLOCK FALSE
