CONSTANTS
    Turbines = {a, b}
    NaN = NaN
    DT = 2
    Drift = 2
    StartTimes = {1}
    MaxTime = 4
    Speeds = {0, 3}
    SpeedFloor <- MCSpeedFloor
    SpeedCeiling = 3
    CtInSp = 0
    Rgn2Sp = 1
    TransSp = 2
    SyncSp = 1
    RtGnSp = 3
    RefSpd = 2
    Rgn2K = 1
    Slope15 = 1
    Slope25 = 1
    RtPwr = 9
    MaxTq = 3
    VSMaxRat = 1
    TorqueUnit = 4
    KK = 2
    KP = 1
    KI = 2
    MaxPit = 3
    PCMaxRat = 1
    Rgn3MP = 1
    NacelleYaw = 1
    PitchUlp = 2
    TorqueUlp = 2
    Checkpoints <- MCCheckpoints
    Inputs <- MCInputs
SYMMETRY MCSymmetry
SPECIFICATION Spec
INVARIANTS WithinLimits FailedControllerStaysOut
PROPERTIES CommandsAreRateLimited RepeatsChangeNothing
CHECK_DEADLOCK FALSE
