SPECIFICATION Spec
CONSTANTS
  BufferSizes = {0, 1, 2}
  MaxRow = 3
  MaxWrites = 5
INVARIANTS
  FileHoldsGivenValues
CHECK_DEADLOCK FALSE
