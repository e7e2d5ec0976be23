SPECIFICATION Spec
CONSTANTS
  BladeCounts = {1, 3}
  Orders = {1}
  Priors = {0}
  Angles = {0, 1}
INVARIANTS
  BladesStartAtCommandedPitch
CHECK_DEADLOCK FALSE
