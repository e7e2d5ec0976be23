SPECIFICATION CreateSolver
CONSTANTS
  NumNodes = 3
  NumElements = 2
  NumConstraints = 1
  Block = 2
  UsedTypes = {"FixedBC", "FixedBC3DOFs", "RigidJoint", "RevoluteJoint", "RigidJoint6DOFsTo3DOFs"}
INVARIANTS
  NumberingIsExact
  RowsFilledExactly
  TermsLandInTheirColumn
CHECK_DEADLOCK FALSE
