SPECIFICATION ExecSpec
CONSTANTS
  Calls = {1, 2, 3, 4, 5}
  Instances = {i1, i2}
  Executors = {e1, e2}
  p1 = p1
  p2 = p2
  Processes <- MCProcesses
  startEvent <- MCStartEvent
  Tasks <- MCTasks
  Names <- MCNames
  TooLong <- MCTooLong
  taskKey <- MCTaskKey
  Ops = {"save", "load"}
  Inputs <- MCInputs
SYMMETRY MCSymmetry
INVARIANTS ExecTypeOK StartDataSurvives ResumeNeverCreates
CHECK_DEADLOCK FALSE
