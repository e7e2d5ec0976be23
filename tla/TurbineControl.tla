--------------------------- MODULE TurbineControl ---------------------------
(***************************************************************************)
(* The control loop of TurbineInterface: the constructor makes a           *)
(* Controller (interfaces/components/controller.cpp) and calls it once,    *)
(* ApplyController(t) calls it again with the measured speed and the blade *)
(* pitch in force, and both pass its commands on to the turbine's          *)
(* actuator constraints.  The controller is the shared library DISCON      *)
(* (utilities/controllers/discon.cpp), whose InternalState is a function-  *)
(* local static: every turbine of the process shares the variable disc.    *)
(* A controller may start by reading a checkpoint, which replaces that     *)
(* state by whatever the numbers of a file are.                            *)
(*                                                                         *)
(* Times are integer ticks, DT of them to the communication interval.      *)
(* Angles, speeds and torques are integers; those that go through the      *)
(* floats of the swap array and back are rounded (Float), except the time  *)
(* and the speed, which may be any and stand for the rounded ones.         *)
(* Torques are on the generator side.  Quotients round down.  NaN is a     *)
(* model value that every later operation keeps.                           *)
(*                                                                         *)
(* A definition whose name ends in an underscore and a word is a seeded    *)
(* fault (see module SolveStep).                                           *)
(***************************************************************************)
EXTENDS Integers

CONSTANTS Turbines,      \* the turbines of the process
          NaN,           \* not a number
          DT,            \* kVS_DT = kPC_DT
          Drift,         \* time * kOnePlusEps = time + time \div Drift
          StartTimes,    \* what TurbineInput::start_time may be
          MaxTime,       \* bound on the times passed to ApplyController
          Speeds,        \* generator speeds the structure can measure
          SpeedFloor, SpeedCeiling,   \* bounds on the extrapolated filter
          CtInSp, Rgn2Sp, TransSp, SyncSp, RtGnSp, RefSpd,
          Rgn2K, Slope15, Slope25, RtPwr, MaxTq, VSMaxRat, TorqueUnit,
          KK, KP, KI, MaxPit, PCMaxRat, Rgn3MP,
          PitchUlp, TorqueUlp,   \* the distance of floats near MaxPit, near MaxTq
          Checkpoints,   \* what the numbers of a checkpoint file may be
          NacelleYaw,    \* TurbineInput::nacelle_yaw_angle
          Inputs         \* the configurations a turbine may be built with

Blades == 1..3           \* DISCON and ControllerIO know three blades

Num(x) == x # NaN
Clamp(x, lo, hi) == IF x < lo THEN lo ELSE IF x > hi THEN hi ELSE x
Abs(x) == IF x < 0 THEN -x ELSE x

(***************************************************************************)
(* A number copied to the swap array and back: the nearest float.          *)
(***************************************************************************)
Float(x, ulp) == IF Num(x) THEN ulp * ((2 * x + ulp) \div (2 * ulp)) ELSE NaN

(***************************************************************************)
(* What SetupFirstCall checks of the constants of the library, and MinPit  *)
(* is zero; then what it computes from them: the torque slopes, and the    *)
(* speed TransSp, where the parabola of region 2 meets the line of slope   *)
(* Slope25 through SyncSp.  The float of the largest pitch lies above it.  *)
(* An input of a turbine is its initial pitch and the fields of            *)
(* ControllerInput the calls depend on.                                    *)
(***************************************************************************)
ASSUME ControllerNumbers ==
    /\ {SpeedFloor, SpeedCeiling, CtInSp, Rgn2Sp, TransSp, SyncSp, RtGnSp,
        Rgn2K, RtPwr, MaxTq, KP, Rgn3MP, NacelleYaw} \subseteq Int
    /\ {MaxTime, MaxPit} \subseteq Nat
    /\ StartTimes \subseteq 0..MaxTime
    /\ NaN \notin Int

ASSUME ControllerConstants ==
    /\ {DT, Drift, TorqueUnit, VSMaxRat, PCMaxRat, KI, KK, RefSpd} \subseteq Nat \ {0}
    /\ 0 <= CtInSp /\ CtInSp < Rgn2Sp /\ Rgn2Sp <= TransSp /\ TransSp <= RtGnSp
    /\ RtPwr >= 0 /\ Rgn2K >= 0
    /\ Rgn2K * RtGnSp * RtGnSp * RtGnSp <= RtPwr * TorqueUnit
    /\ RtPwr \div RtGnSp <= MaxTq
    /\ {Slope15, Slope25} \subseteq Nat /\ SyncSp <= TransSp
    /\ Speeds \subseteq SpeedFloor..SpeedCeiling
    /\ {PitchUlp, TorqueUlp} \subseteq Nat \ {0}
    /\ MaxPit <= Float(MaxPit, PitchUlp)

ASSUME CheckpointsAssumption ==
    Checkpoints \subseteq
        [filtered : SpeedFloor..SpeedCeiling, integral : Int, torque : Int, time : Int,
         pitchTime : Int, torqueTime : Int, pitch : [Blades -> Nat],
         curve : [slope15 : Int, slope25 : Int, sync : Int, trans : Int]]

ASSUME InputsAssumption ==
    Inputs \subseteq [library : BOOLEAN, actuator : {"position", "velocity"},
                      checkpoint : BOOLEAN, pitchOn : BOOLEAN, torqueOn : BOOLEAN,
                      pitch : 0..MaxPit, controllerPitch : 0..MaxPit,
                      controllerYaw : Int]

VARIABLES disc,      \* the static InternalState of DISCON
          turbines,  \* per turbine: its controller and the controls in force
          caller,    \* history: the turbine whose call DISCON served last
          late,      \* history: a call came at Horizon or later
          rewound,   \* history: a call came before an earlier call's time
          unpacked   \* history: disc may hold numbers of a checkpoint

vars == <<disc, turbines, caller, late, rewound, unpacked>>

(***************************************************************************)
(* A control law runs again when the scaled time is an interval past its   *)
(* last run.  From Horizon on the scaling alone makes up an interval.      *)
(***************************************************************************)
Scaled(time) == time + time \div Drift

\* A seeded fault: the interval is not asked for.
Due_NoInterval(time, latest) == Scaled(time) >= latest

Due(time, latest) == Scaled(time) - latest >= DT
Horizon == DT * Drift

(***************************************************************************)
(* from + clamp((to - from) / elapsed, -rate, rate) * elapsed.             *)
(***************************************************************************)
RateLimited(from, to, elapsed, rate) ==
    IF ~Num(from) \/ ~Num(to) \/ (elapsed = 0 /\ from = to)
    THEN NaN
    ELSE from + Clamp(to - from, -rate * Abs(elapsed), rate * Abs(elapsed))

(***************************************************************************)
(* x / (1 + pitch / KK): the gain scheduling of the pitch control.         *)
(***************************************************************************)
Scheduled(x, pitch) == IF Num(pitch) THEN (x * KK) \div (KK + pitch) ELSE NaN

(***************************************************************************)
(* The low-pass filter with alpha = exp((last - time) * CornerFreq): it    *)
(* stays between the old value and the measured one when time advances,    *)
(* stays put when time stands, and moves away from the measured one when   *)
(* time went back.                                                         *)
(***************************************************************************)
FilterGeneratorSpeed(old, measured, elapsed) ==
    CASE elapsed = 0 \/ old = measured -> {old}
      [] elapsed > 0 /\ old < measured -> old..measured
      [] elapsed > 0 /\ old > measured -> measured..old
      [] elapsed < 0 /\ old < measured -> SpeedFloor..old
      [] OTHER                         -> old..SpeedCeiling

ConstantPower(w) == CASE w = 0 -> MaxTq
                      [] w > 0 -> RtPwr \div w
                      [] w < 0 -> -(RtPwr \div (-w))

(***************************************************************************)
(* The torque curve SetupFirstCall computes, and that of the static state  *)
(* before any first call.                                                  *)
(***************************************************************************)
Curve == [slope15 |-> Slope15, slope25 |-> Slope25, sync |-> SyncSp, trans |-> TransSp]
NoCurve == [slope15 |-> 0, slope25 |-> 0, sync |-> 0, trans |-> 0]

(***************************************************************************)
(* The torque the filtered speed asks for: region 3 is entered by speed or *)
(* by pitch, so a low speed can ask for a torque far above MaxTq.          *)
(***************************************************************************)
RegionTorque(w, pitch, curve) ==
    CASE w >= RtGnSp \/ (Num(pitch) /\ pitch >= Rgn3MP) -> ConstantPower(w)
      [] OTHER -> CASE w <= CtInSp                    -> 0
                    [] w > CtInSp /\ w < Rgn2Sp       -> curve.slope15 * (w - CtInSp)
                    [] w >= Rgn2Sp /\ w < curve.trans -> (Rgn2K * w * w) \div TorqueUnit
                    [] OTHER                          -> curve.slope25 * (w - curve.sync)

\* A seeded fault: the torque asked for is not cut.
Saturated_Not(torque) == torque

Saturated(torque) == IF torque > MaxTq THEN MaxTq ELSE torque

(***************************************************************************)
(* The first pass starts from the torque asked for, later ones approach it *)
(* within the rate limit.                                                  *)
(***************************************************************************)
\* A seeded fault: every pass is taken for the first.
TorqueBefore_EveryPass(d, status, target) == target

TorqueBefore(d, status, target) == IF status = 0 THEN target ELSE d.torque

VariableSpeedTorqueControl(d, swap) ==
    LET target == Saturated(RegionTorque(d.filtered, d.pitch[1], d.curve))
        before == TorqueBefore(d, swap.status, target)
    IN  IF Due(swap.time, d.torqueTime)
        THEN [d EXCEPT !.torque = RateLimited(before, target,
                                              swap.time - d.torqueTime, VSMaxRat),
                       !.torqueTime = swap.time]
        ELSE d

PitchControl(d, swap) ==
    LET elapsed  == swap.time - d.pitchTime
        error    == d.filtered - RefSpd
        integral == Clamp(d.integral + error * elapsed, 0, MaxPit \div KI)
        asked    == Scheduled(KP * error + KI * integral, d.pitch[1])
        total    == IF Num(asked) THEN Clamp(asked, 0, MaxPit) ELSE NaN
        command(b) == LET p == RateLimited(swap.pitch[b], total, elapsed, PCMaxRat)
                      IN  IF Num(p) THEN Clamp(p, 0, MaxPit) ELSE NaN
    IN  IF Due(swap.time, d.pitchTime)
        THEN [d EXCEPT !.integral = integral,
                       !.pitch = [b \in Blades |-> command(b)],
                       !.pitchTime = swap.time]
        ELSE d

(***************************************************************************)
(* SetupFirstCall leaves the torque of an earlier controller in place.     *)
(***************************************************************************)
SetupFirstCall(d, swap) ==
    [d EXCEPT !.filtered = swap.speed, !.pitch = swap.pitch,
              !.integral = (swap.pitch[2] * (KK + swap.pitch[1])) \div (KK * KI),
              !.time = swap.time, !.curve = Curve,
              !.pitchTime = swap.time - DT, !.torqueTime = swap.time - DT]

(***************************************************************************)
(* The control laws: the internal states they may leave.  An actuator      *)
(* other than position makes them report an error, after they ran all the  *)
(* same.                                                                   *)
(***************************************************************************)
ComputeControl(d, swap) ==
    { [PitchControl(VariableSpeedTorqueControl([d EXCEPT !.filtered = w], swap), swap)
          EXCEPT !.time = swap.time] :
        w \in FilterGeneratorSpeed(d.filtered, swap.speed, swap.time - d.time) }

(***************************************************************************)
(* A checkpoint is the numbers of the state written one after the other    *)
(* without anything between them, so what is read back are other numbers,  *)
(* and fewer: the fields after those keep what they had (bound: a read     *)
(* ends at one of three places).  A file that does not open changes nothing.*)
(***************************************************************************)
FieldsRead ==
    LET numbers == {"filtered", "integral", "torque", "time", "pitchTime", "torqueTime"}
    IN  {{}, numbers, numbers \cup {"pitch", "curve"}}

UnpackInternalStateFromFile(d) ==
    { [f \in DOMAIN d |-> IF f \in read THEN file[f] ELSE d[f]] :
        read \in FieldsRead, file \in Checkpoints }

(***************************************************************************)
(* One call of DISCON.  With status -9 neither of the others runs and      *)
(* nothing is checked.                                                     *)
(***************************************************************************)
DISCON(swap) ==
    CASE swap.status = -9 -> UnpackInternalStateFromFile(disc)
      [] swap.status = 0  -> ComputeControl(SetupFirstCall(disc, swap), swap)
      [] OTHER            -> ComputeControl(disc, swap)

\* A seeded fault: the actuator is checked by the first call only.
Fails_FirstCall(swap) == swap.status = 0 /\ swap.actuator # "position"

Fails(swap) == swap.status # -9 /\ swap.actuator # "position"

(***************************************************************************)
(* The commands in the swap array after a call that left d; a call with    *)
(* status -9 leaves those it was given, which are zero before any other.   *)
(***************************************************************************)
Outputs(d, status) ==
    IF status = -9
    THEN [pitch |-> [b \in Blades |-> 0], torque |-> 0]
    ELSE [pitch |-> [b \in Blades |-> Float(d.pitch[b], PitchUlp)],
          torque |-> Float(d.torque, TorqueUlp)]

(***************************************************************************)
(* A turbine whose interface is not built yet, and one just assembled.     *)
(***************************************************************************)
Unbuilt == [controller |-> "unbuilt"]

Assembled(in, controller) ==
    [controller |-> controller, in |-> in,
     unpacked |-> FALSE,   \* history: its controls may come from a checkpoint
     pitchOut |-> [b \in Blades |-> 0],
     pitchCommand |-> in.controllerPitch, torqueCommand |-> 0,
     bladePitch |-> [b \in Blades |-> in.pitch], torque |-> 0, yaw |-> NacelleYaw]

Init ==
    /\ disc = [filtered |-> 0, integral |-> 0, torque |-> 0, time |-> 0,
               pitchTime |-> 0, torqueTime |-> 0, pitch |-> [b \in Blades |-> 0],
               curve |-> NoCurve]
    /\ turbines = [t \in Turbines |-> Unbuilt]
    /\ caller \in Turbines
    /\ late = FALSE
    /\ rewound = FALSE
    /\ unpacked = FALSE

\* The status of the first call, set by the constructor of Controller.
StartStatus(in) == IF in.checkpoint THEN -9 ELSE 0

Swap(r, status, time, speed) ==
    [status |-> status, time |-> time, speed |-> speed,
     pitch |-> [b \in Blades |-> Float(r.bladePitch[b], PitchUlp)],
     actuator |-> r.in.actuator]

(***************************************************************************)
(* Controller::CallController of turbine record r, when DISCON left d: the *)
(* outputs are taken over first, then an error is thrown, and only without *)
(* one the enabled commands are updated.  The yaw rate of DISCON is zero.  *)
(***************************************************************************)
CallController(r, swap, d) ==
    LET out == Outputs(d, swap.status)
        read == [r EXCEPT !.pitchOut = out.pitch, !.unpacked = unpacked']
    IN  IF Fails(swap)
        THEN [read EXCEPT !.controller = "threw"]
        ELSE [read EXCEPT
                 !.controller = "called",
                 !.pitchCommand = IF r.in.pitchOn THEN out.pitch[1] ELSE @,
                 !.torqueCommand = IF r.in.torqueOn THEN out.torque ELSE @]

Served(t, time, isFirst) ==
    /\ ~late            \* bound: a behaviour ends with its first call past Horizon
    /\ caller' = t
    /\ late' = (late \/ time >= Horizon)
    /\ rewound' = (rewound \/ (~isFirst /\ time < disc.time))

(***************************************************************************)
(* The constructor of TurbineInterface.  A library that cannot be loaded   *)
(* leaves no controller; a first call that throws leaves the controller in *)
(* place and the controls as assembled.  Both are reported and ignored.    *)
(***************************************************************************)
BuildWithoutLibrary(t) ==
    \E in \in {i \in Inputs : ~i.library} :
        /\ turbines[t].controller = "unbuilt"
        /\ turbines' = [turbines EXCEPT ![t] = Assembled(in, "none")]
        /\ UNCHANGED <<disc, caller, late, rewound, unpacked>>

InitializeController(t) ==
    \E in \in {i \in Inputs : i.library}, time \in StartTimes, speed \in Speeds :
        LET r == Assembled(in, "called")
            swap == Swap(r, StartStatus(in), time, speed)
        IN  /\ turbines[t].controller = "unbuilt"
            /\ Served(t, time, TRUE)
            /\ unpacked' = in.checkpoint
            /\ \E d \in DISCON(swap) :
                 LET c == CallController(r, swap, d)
                 IN  /\ disc' = d
                     /\ turbines' = [turbines EXCEPT ![t] =
                          IF c.controller = "threw" THEN c
                          ELSE [c EXCEPT !.torque = c.torqueCommand,
                                         !.bladePitch = [b \in Blades |-> c.pitchCommand],
                                         !.yaw = in.controllerYaw]]

(***************************************************************************)
(* The blade pitches of a call: the collective command when the outputs of *)
(* blades 2 and 3 are zero and that of blade 1 agrees with it, the outputs *)
(* of the blades otherwise, whether or not pitch control is enabled.       *)
(***************************************************************************)
PitchInForce(c) ==
    IF c.pitchOut[1] = c.pitchCommand /\ c.pitchOut[2] = 0 /\ c.pitchOut[3] = 0
    THEN [b \in Blades |-> c.pitchCommand]
    ELSE c.pitchOut

ApplyController(t) ==
    \E time \in 0..MaxTime, speed \in Speeds :
        /\ turbines[t].controller \in {"called", "threw"}
        /\ Served(t, time, FALSE)
        /\ unpacked' = (unpacked \/ turbines[t].unpacked)
        /\ LET swap == Swap(turbines[t], 1, time, speed)
           IN  \E d \in DISCON(swap) :
                 LET c == CallController(turbines[t], swap, d)
                 IN  /\ disc' = d
                     /\ turbines' = [turbines EXCEPT ![t] =
                          IF c.controller = "threw" THEN c
                          ELSE [c EXCEPT !.torque = c.torqueCommand,
                                         !.bladePitch = PitchInForce(c),
                                         !.yaw = c.in.controllerYaw]]

Next == \E t \in Turbines : \/ BuildWithoutLibrary(t)
                            \/ InitializeController(t)
                            \/ ApplyController(t)

Spec == Init /\ [][Next]_vars

-----------------------------------------------------------------------------
Controlled(t) == turbines[t].controller = "called"

(***************************************************************************)
(* A first call sets the whole internal state anew, a checkpoint replaces  *)
(* it by numbers nobody checks.  Until the next first call these are in    *)
(* the commands, and through them in the controls in force.                *)
(***************************************************************************)
Fresh(t) == Controlled(t) /\ ~turbines[t].unpacked

(***************************************************************************)
(* However calls of several turbines, repeats and rewinds interleave on    *)
(* the shared state, the torque in force never exceeds MaxTq and every     *)
(* blade pitch stays within its range, both up to the float next to the    *)
(* limit; without rewinds (which extrapolate the speed filter) and without *)
(* a rotor that turns backwards the torque is not negative either.  Past   *)
(* Horizon the controls may be NaN, after a checkpoint anything.           *)
(***************************************************************************)
WithinLimits ==
    ~late => \A t \in Turbines : Fresh(t) =>
        /\ Num(turbines[t].torque)
        /\ turbines[t].torque <= Float(MaxTq, TorqueUlp)
        /\ Speeds \subseteq Nat /\ ~rewound => turbines[t].torque >= 0
        /\ \A b \in Blades : /\ Num(turbines[t].bladePitch[b])
                             /\ turbines[t].bladePitch[b] \in 0..Float(MaxPit, PitchUlp)

(***************************************************************************)
(* A call of the turbine that DISCON also served last moves the controls   *)
(* in force no faster than the rate limits, counted from the last run of   *)
(* the control laws, and the rounding allow.                               *)
(***************************************************************************)
Serves(t) == Fresh(t) /\ caller = t /\ turbines[t].in.pitchOn /\ turbines' # turbines

CommandsAreRateLimited ==
    [][\A t \in Turbines : (Serves(t) /\ caller' = t /\ ~late') =>
          LET before == turbines[t]
              after == turbines'[t]
          IN  /\ Abs(after.torque - before.torque) <=
                     VSMaxRat * Abs(disc'.time - disc.torqueTime) + TorqueUlp
              /\ \A b \in Blades : 2 * Abs(after.bladePitch[b] - before.bladePitch[b]) <=
                     2 * PCMaxRat * Abs(disc'.time - disc.pitchTime) + PitchUlp]_vars

(***************************************************************************)
(* Before Horizon, a call at the time of the last run of the control laws  *)
(* or earlier (a step repeated after RestoreState) leaves the controls in  *)
(* force and the integral of the speed error as they are.                  *)
(***************************************************************************)
RepeatsChangeNothing ==
    [][\A t \in Turbines :
          (Fresh(t) /\ caller = t /\ caller' = t /\ turbines[t].in.pitchOn
             /\ ~late' /\ disc'.time <= disc.torqueTime) =>
          /\ disc'.integral = disc.integral
          /\ turbines'[t].bladePitch = turbines[t].bladePitch
          /\ turbines'[t].torque = turbines[t].torque]_vars

(***************************************************************************)
(* A controller whose calls fail ("Continuing without controller") never   *)
(* reaches the actuators: their controls stay as the turbine was built,    *)
(* while later calls go on failing.  The call that reads a checkpoint does *)
(* not check the actuator: a turbine built with one has its zero commands  *)
(* in force, or the pitch of its input, before the calls begin to fail.    *)
(***************************************************************************)
Accepted(in) == in.library /\ in.checkpoint

FailedControllerStaysOut ==
    \A t \in Turbines : turbines[t].controller # "unbuilt" =>
        (turbines[t].in.actuator = "velocity" =>
            LET in == turbines[t].in
            IN  /\ turbines[t].torque = 0
                /\ turbines[t].yaw = IF Accepted(in) THEN in.controllerYaw ELSE NacelleYaw
                /\ \A b \in Blades : turbines[t].bladePitch[b] =
                      IF ~Accepted(in) THEN in.pitch
                      ELSE IF in.pitchOn THEN 0 ELSE in.controllerPitch)
=============================================================================
