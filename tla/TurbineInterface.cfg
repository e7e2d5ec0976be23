SPECIFICATION InterfaceSpec
CONSTANTS
  BladeCounts = {1, 2, 3}
  Orders = {0, 1, 2}
  Priors = {0, 2}
  Angles = {0, 1}
  AirfoilMaps <- Maps
  Airfoils <- BladeAndTower
  Turns <- UnturnedAndTurned
  Samples = {1}
INVARIANTS
  HeldOnce
  StartSatisfiesConstraints
  RotorTurnsAsOneBody
  PitchTurnsItsBlade
  ChannelsHoldTheirValue
  AppliedLoadsDoSectionWork
CHECK_DEADLOCK FALSE
