SPECIFICATION Spec
CONSTANTS
  Calls = {1, 2, 3}
  Conns = {c1, c2}
  Kinds = {"process", "form"}
  x = x
  y = y
  Ids <- MCIds
  Batches <- MCBatches
  columns <- SchemaColumns
SYMMETRY MCSymmetry
INVARIANTS NewRecordAccepted
CHECK_DEADLOCK FALSE
