SPECIFICATION Spec
CONSTANTS
  Order <- PositionThenVelocity
  BufferSizes <- NoneBothOrSeries
  MaxStep = 1
  MaxRecords = 3
  MaxRows = 3
INVARIANTS
  AcceptedRowsAreKept
  FirstBatchIsFaithful
  RowsFollowNodeOutputs
PROPERTIES
  KeepsOutputPromise
CHECK_DEADLOCK FALSE
