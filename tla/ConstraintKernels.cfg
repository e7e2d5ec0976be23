SPECIFICATION Spec
CONSTANTS
  Types <- MCTypes
  Orientations <- MCOrientations
  Shifts <- MCShifts
  BasePosition <- MCBasePosition
  Offsets <- MCOffsets
  HingeAxes <- MCHingeAxes
  ControlAxes <- MCControlAxes
  Angles <- MCAngles
  Torques <- MCTorques
  Multipliers <- MCMultipliers
  Tangent <- MCTangent
  Garbage = Garbage
INVARIANTS
  NothingUnwrittenIsTaken
  ResidualIsConstraintFunction
  GradientIsExactAtSolutions
  ZeroResidualMeansHeld
  ReactionsBalance
