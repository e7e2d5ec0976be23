SPECIFICATION Spec
CONSTANTS
  Retries = 5
  InvTol = 16
  MaxCalls = 2
INVARIANTS
  SnapshotHoldsLowerBound
  FailureKeepsConvergedState
PROPERTIES
  KeepsLoadPromise
CHECK_DEADLOCK FALSE
