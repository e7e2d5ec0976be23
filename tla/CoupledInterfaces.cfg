SPECIFICATION Spec
CONSTANTS
    Kinds = {"cfd", "turbine", "blade"}
    Builds = {TRUE, FALSE}
    Loads = {l1, l2}
    Broken = Broken
    Unset = Unset
    Unreadable = Unreadable
    MaxSteps = 2
    MaxTime <- MCMaxTime
    Cuts = {0, 2, 6}
SYMMETRY MCSymmetry
INVARIANTS
    MotionMatchesState
    FeedbackIsOfOneStep
    RowsFollowPath
PROPERTIES
    KeepsCouplingPromise
