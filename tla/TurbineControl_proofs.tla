------------------------ MODULE TurbineControl_proofs ------------------------
(***************************************************************************)
(* Proofs about TurbineControl, for any number of turbines, any constants  *)
(* SetupFirstCall accepts, any spacing of the floats, any checkpoint file  *)
(* and any sequence of calls.                                              *)
(***************************************************************************)
EXTENDS TurbineControl, TLAPS

Number == Int \cup {NaN}
Angle == Nat \cup {NaN}

InternalState ==
    [filtered : Int, integral : Int, torque : Number, time : Int,
     pitchTime : Int, torqueTime : Int, pitch : [Blades -> Angle],
     curve : [slope15 : Int, slope25 : Int, sync : Int, trans : Int]]

Built ==
    [controller : {"none", "called", "threw"}, in : Inputs, unpacked : BOOLEAN,
     pitchOut : [Blades -> Angle], pitchCommand : Angle, torqueCommand : Number,
     bladePitch : [Blades -> Angle], torque : Number, yaw : Int]

SwapArray ==
    [status : {0, 1, -9}, time : Nat, speed : Speeds, pitch : [Blades -> Angle],
     actuator : {"position", "velocity"}]

\* Every variable has its type; only torques and angles may be NaN.
TypeOK ==
    /\ disc \in InternalState
    /\ turbines \in [Turbines -> {Unbuilt} \cup Built]
    /\ late \in BOOLEAN
    /\ rewound \in BOOLEAN
    /\ unpacked \in BOOLEAN

-----------------------------------------------------------------------------
(* The invariant.  As long as no call came at Horizon or later, and but for  *)
(* what comes from a checkpoint, the internal state is sound whichever       *)
(* turbines it served, the controls in force are sound, and those of the     *)
(* turbine served last are the ones DISCON holds, rounded.                   *)

Forward == Speeds \subseteq Nat /\ ~rewound

PitchTop == Float(MaxPit, PitchUlp)
TorqueTop == Float(MaxTq, TorqueUlp)

RoundedPitch(pitch) == [b \in Blades |-> Float(pitch[b], PitchUlp)]

Uniform(p, top) == p \in [Blades -> 0..top] /\ \A b \in Blades : p[b] = p[1]

TorqueSound(x, forward, top) == x \in Int /\ x <= top /\ (forward => x >= 0)

CurveSound(curve) ==
    /\ curve.slope15 \in Nat /\ curve.slope25 \in Nat
    /\ curve.sync \in Int /\ curve.trans \in Int /\ curve.sync <= curve.trans

StateSound(d, forward) ==
    /\ TorqueSound(d.torque, forward, MaxTq)
    /\ forward => d.filtered >= 0
    /\ Uniform(d.pitch, MaxPit)
    /\ d.pitchTime = d.torqueTime
    /\ CurveSound(d.curve)

ControlsSound(r, forward) ==
    /\ TorqueSound(r.torque, forward, TorqueTop) /\ r.torqueCommand = r.torque
    /\ r.pitchCommand \in 0..PitchTop
    /\ Uniform(r.bladePitch, PitchTop)

InStepWith(r, d) ==
    /\ r.in.torqueOn => r.torque = Float(d.torque, TorqueUlp)
    /\ r.in.pitchOn => r.bladePitch = RoundedPitch(d.pitch)

Sound ==
    ~late =>
        /\ ~unpacked => StateSound(disc, Forward)
        /\ \A t \in Turbines : turbines[t] # Unbuilt /\ ~turbines[t].unpacked =>
              ControlsSound(turbines[t], Forward)
        /\ \A t \in Turbines : Fresh(t) /\ caller = t =>
              ~unpacked /\ InStepWith(turbines[t], disc)

\* A failing controller is one without the position actuator.
OnlyPositionIsServed ==
    \A t \in Turbines :
        /\ Fresh(t) => turbines[t].in.actuator = "position"
        /\ turbines[t].controller = "threw" => turbines[t].in.actuator = "velocity"

\* What FailedControllerStaysOut says of a turbine.
StaysOut(r) ==
    r.in.actuator = "velocity" =>
        /\ r.torque = 0
        /\ r.yaw = IF Accepted(r.in) THEN r.in.controllerYaw ELSE NacelleYaw
        /\ \A b \in Blades : r.bladePitch[b] =
              IF ~Accepted(r.in) THEN r.in.pitch
              ELSE IF r.in.pitchOn THEN 0 ELSE r.in.controllerPitch

ControlInv == TypeOK /\ Sound /\ OnlyPositionIsServed /\ FailedControllerStaysOut

-----------------------------------------------------------------------------
(* The operators of the controller. *)

LEMMA QuotientIsInt ==
    ASSUME NEW a \in Int, NEW b \in Nat \ {0} PROVE a \div b \in Int
BY SMT

LEMMA QuotientIsNat ==
    ASSUME NEW a \in Nat, NEW b \in Nat \ {0} PROVE a \div b \in Nat
BY SMT

LEMMA ProductIsInt == ASSUME NEW a \in Int, NEW b \in Int PROVE a * b \in Int
BY SMT

LEMMA ProductIsNat == ASSUME NEW a \in Nat, NEW b \in Nat PROVE a * b \in Nat
BY SMT

LEMMA Constants ==
    ASSUME ControllerNumbers, ControllerConstants
    PROVE  /\ SpeedFloor \in Int /\ SpeedCeiling \in Int /\ CtInSp \in Int /\ Rgn2Sp \in Int
           /\ TransSp \in Int /\ SyncSp \in Int /\ RtGnSp \in Nat \ {0} /\ Rgn2K \in Nat
           /\ RtPwr \in Nat /\ MaxTq \in Int /\ KP \in Int /\ Rgn3MP \in Int /\ NacelleYaw \in Int
           /\ MaxTime \in Nat /\ MaxPit \in Nat /\ NaN \notin Int
           /\ DT \in Nat \ {0} /\ Drift \in Nat \ {0} /\ TorqueUnit \in Nat \ {0}
           /\ VSMaxRat \in Nat \ {0} /\ PCMaxRat \in Nat \ {0} /\ KI \in Nat \ {0}
           /\ KK \in Nat \ {0} /\ RefSpd \in Nat \ {0}
           /\ Slope15 \in Nat /\ Slope25 \in Nat /\ SyncSp <= TransSp
           /\ 0 <= CtInSp /\ CtInSp < Rgn2Sp /\ Rgn2Sp <= TransSp /\ TransSp <= RtGnSp
           /\ Speeds \subseteq Int
           /\ PitchUlp \in Nat \ {0} /\ TorqueUlp \in Nat \ {0}
<1>1. /\ SpeedFloor \in Int /\ SpeedCeiling \in Int /\ CtInSp \in Int /\ Rgn2Sp \in Int
      /\ TransSp \in Int /\ SyncSp \in Int /\ RtGnSp \in Int /\ Rgn2K \in Int
      /\ RtPwr \in Int /\ MaxTq \in Int /\ KP \in Int /\ Rgn3MP \in Int /\ NacelleYaw \in Int
      /\ MaxTime \in Nat /\ MaxPit \in Nat /\ NaN \notin Int
  BY DEF ControllerNumbers
<1>2. /\ DT \in Nat \ {0} /\ Drift \in Nat \ {0} /\ TorqueUnit \in Nat \ {0}
      /\ VSMaxRat \in Nat \ {0} /\ PCMaxRat \in Nat \ {0} /\ KI \in Nat \ {0}
      /\ KK \in Nat \ {0} /\ RefSpd \in Nat \ {0}
      /\ Slope15 \in Nat /\ Slope25 \in Nat /\ SyncSp <= TransSp
      /\ 0 <= CtInSp /\ CtInSp < Rgn2Sp /\ Rgn2Sp <= TransSp /\ TransSp <= RtGnSp
      /\ RtPwr >= 0 /\ Rgn2K >= 0
      /\ Speeds \subseteq SpeedFloor..SpeedCeiling
      /\ PitchUlp \in Nat \ {0} /\ TorqueUlp \in Nat \ {0}
  BY DEF ControllerConstants
<1>3. RtGnSp \in Nat \ {0} /\ Rgn2K \in Nat /\ RtPwr \in Nat BY <1>1, <1>2
<1>4. Speeds \subseteq Int BY <1>1, <1>2
<1>5. QED BY <1>1, <1>2, <1>3, <1>4

LEMMA Division ==
    ASSUME NEW a \in Int, NEW b \in Nat \ {0}
    PROVE  /\ a \div b \in Int
           /\ b * (a \div b) <= a /\ a < b * (a \div b) + b
BY SMT

LEMMA Multiples ==
    ASSUME NEW u \in Nat \ {0}, NEW j \in Int, NEW k \in Int, j < k
    PROVE  u * j + u <= u * k
<1>1. k - j - 1 \in Nat BY SMT
<1>2. u * (k - j - 1) \in Nat BY <1>1, ProductIsNat
<1>3. u * (k - j - 1) = u * k - u * j - u BY SMT
<1>4. u * k \in Int /\ u * j \in Int BY ProductIsInt
<1>5. QED BY <1>2, <1>3, <1>4

\* A float next to a number lies within half a step of it.
LEMMA FloatNear ==
    ASSUME NEW x \in Int, NEW ulp \in Nat \ {0}, NaN \notin Int
    PROVE  /\ Float(x, ulp) \in Int
           /\ 2 * Float(x, ulp) <= 2 * x + ulp
           /\ 2 * x < 2 * Float(x, ulp) + ulp
<1> DEFINE q == (2 * x + ulp) \div (2 * ulp)
<1>1. 2 * x + ulp \in Int /\ 2 * ulp \in Nat \ {0} OBVIOUS
<1>2. q \in Int /\ (2 * ulp) * q <= 2 * x + ulp /\ 2 * x + ulp < (2 * ulp) * q + 2 * ulp
  BY <1>1, Division
<1>3. Float(x, ulp) = ulp * q BY DEF Float, Num
<1> HIDE DEF q
<1>4. ulp * q \in Int BY <1>2, ProductIsInt
<1>5. (2 * ulp) * q = 2 * (ulp * q) BY <1>2, SMT
<1> DEFINE f == ulp * q
<1>6. f \in Int /\ 2 * f <= 2 * x + ulp /\ 2 * x + ulp < 2 * f + 2 * ulp
  BY <1>2, <1>4, <1>5
<1> HIDE DEF f
<1>7. 2 * x < 2 * f + ulp BY <1>6
<1>8. QED BY <1>3, <1>6, <1>7 DEF f

\* A larger number has no smaller float, and a float is its own.
LEMMA FloatMonotone ==
    ASSUME NEW x \in Int, NEW y \in Int, NEW ulp \in Nat \ {0}, NaN \notin Int, x <= y
    PROVE  Float(x, ulp) <= Float(y, ulp)
<1> DEFINE p == (2 * x + ulp) \div (2 * ulp)
           q == (2 * y + ulp) \div (2 * ulp)
<1>1. 2 * x + ulp \in Int /\ 2 * y + ulp \in Int /\ 2 * ulp \in Nat \ {0} OBVIOUS
<1>2. p \in Int /\ (2 * ulp) * p <= 2 * x + ulp BY <1>1, Division
<1>3. q \in Int /\ 2 * y + ulp < (2 * ulp) * q + 2 * ulp BY <1>1, Division
<1>4. Float(x, ulp) = ulp * p /\ Float(y, ulp) = ulp * q BY DEF Float, Num
<1> HIDE DEF p, q
<1>5. (2 * ulp) * p \in Int /\ (2 * ulp) * q \in Int BY <1>1, <1>2, <1>3, ProductIsInt
<1>6. ~ (q < p)
  <2> SUFFICES ASSUME q < p PROVE FALSE OBVIOUS
  <2>1. (2 * ulp) * q + 2 * ulp <= (2 * ulp) * p BY <1>1, <1>2, <1>3, Multiples
  <2>2. QED BY <1>1, <1>2, <1>3, <1>5, <2>1
<1>7. CASE p = q BY <1>2, <1>4, <1>7, ProductIsInt
<1>8. CASE p < q
  <2>1. ulp * p + ulp <= ulp * q BY <1>2, <1>3, <1>8, Multiples
  <2>2. ulp * p \in Int /\ ulp * q \in Int BY <1>2, <1>3, ProductIsInt
  <2>3. QED BY <1>4, <2>1, <2>2
<1>9. QED BY <1>2, <1>3, <1>6, <1>7, <1>8

LEMMA FloatOfFloat ==
    ASSUME NEW x \in Int, NEW ulp \in Nat \ {0}, NaN \notin Int
    PROVE  Float(Float(x, ulp), ulp) = Float(x, ulp)
<1> DEFINE q == (2 * x + ulp) \div (2 * ulp)
           f == ulp * q
           k == (2 * f + ulp) \div (2 * ulp)
<1>1. 2 * x + ulp \in Int /\ 2 * ulp \in Nat \ {0} OBVIOUS
<1>2. q \in Int BY <1>1, Division
<1>3. Float(x, ulp) = f BY DEF Float, Num
<1> HIDE DEF q
<1>4. f \in Int BY <1>2, ProductIsInt
<1>5. 2 * f = (2 * ulp) * q BY <1>2, SMT
<1> HIDE DEF f
<1>6. Float(f, ulp) = ulp * k BY <1>4 DEF Float, Num
<1>7. k \in Int /\ (2 * ulp) * k <= 2 * f + ulp /\ 2 * f + ulp < (2 * ulp) * k + 2 * ulp
  <2>1. 2 * f + ulp \in Int BY <1>4
  <2>2. QED BY <1>1, <2>1, Division
<1> HIDE DEF k
<1>8. (2 * ulp) * k \in Int BY <1>1, <1>7, ProductIsInt
<1>9. ~ (q < k)
  <2> SUFFICES ASSUME q < k PROVE FALSE OBVIOUS
  <2>1. (2 * ulp) * q + 2 * ulp <= (2 * ulp) * k BY <1>1, <1>2, <1>7, Multiples
  <2>2. QED BY <1>4, <1>5, <1>7, <1>8, <2>1
<1>10. ~ (k < q)
  <2> SUFFICES ASSUME k < q PROVE FALSE OBVIOUS
  <2>1. (2 * ulp) * k + 2 * ulp <= (2 * ulp) * q BY <1>1, <1>2, <1>7, Multiples
  <2>2. QED BY <1>4, <1>5, <1>7, <1>8, <2>1
<1>11. k = q BY <1>2, <1>7, <1>9, <1>10
<1>12. QED BY <1>3, <1>6, <1>11 DEF f

LEMMA FloatOfZero ==
    ASSUME NEW ulp \in Nat \ {0}, NaN \notin Int PROVE Float(0, ulp) = 0
<1> DEFINE q == (2 * 0 + ulp) \div (2 * ulp)
<1>1. 2 * 0 + ulp \in Int /\ 2 * ulp \in Nat \ {0} OBVIOUS
<1>2. q \in Int /\ (2 * ulp) * q <= 2 * 0 + ulp /\ 2 * 0 + ulp < (2 * ulp) * q + 2 * ulp
  BY <1>1, Division
<1>3. Float(0, ulp) = ulp * q BY DEF Float, Num
<1> HIDE DEF q
<1>4. (2 * ulp) * q \in Int BY <1>1, <1>2, ProductIsInt
<1>5. (2 * ulp) * 0 = 0 OBVIOUS
<1>6. ~ (0 < q)
  <2> SUFFICES ASSUME 0 < q PROVE FALSE OBVIOUS
  <2>1. (2 * ulp) * 0 + 2 * ulp <= (2 * ulp) * q BY <1>1, <1>2, Multiples
  <2>2. QED BY <1>2, <1>4, <1>5, <2>1
<1>7. ~ (q < 0)
  <2> SUFFICES ASSUME q < 0 PROVE FALSE OBVIOUS
  <2>1. (2 * ulp) * q + 2 * ulp <= (2 * ulp) * 0 BY <1>1, <1>2, Multiples
  <2>2. QED BY <1>2, <1>4, <1>5, <2>1
<1>8. q = 0 BY <1>2, <1>6, <1>7
<1>9. QED BY <1>3, <1>8

LEMMA FloatIsNat ==
    ASSUME NEW x \in Nat, NEW ulp \in Nat \ {0}, NaN \notin Int
    PROVE  Float(x, ulp) \in Nat
<1>1. Float(x, ulp) \in Int BY FloatNear
<1>2. Float(0, ulp) <= Float(x, ulp) BY FloatMonotone
<1>3. QED BY <1>1, <1>2, FloatOfZero

LEMMA FloatOfNaN == ASSUME NEW ulp PROVE Float(NaN, ulp) = NaN
BY DEF Float, Num

\* The floats of a pitch, of the pitches in their range and of a torque.
LEMMA FloatOfAngle ==
    ASSUME ControllerNumbers, ControllerConstants, NEW x \in Angle
    PROVE  Float(x, PitchUlp) \in Angle
BY Constants, FloatIsNat, FloatOfNaN DEF Angle

LEMMA FloatOfPitch ==
    ASSUME ControllerNumbers, ControllerConstants
    PROVE  /\ PitchTop \in Nat /\ MaxPit <= PitchTop
           /\ \A x \in 0..PitchTop :
                 /\ Float(x, PitchUlp) \in 0..PitchTop
                 /\ Float(Float(x, PitchUlp), PitchUlp) = Float(x, PitchUlp)
<1>1. MaxPit \in Nat /\ PitchUlp \in Nat \ {0} /\ NaN \notin Int BY Constants
<1>2. PitchTop \in Nat BY <1>1, FloatIsNat DEF PitchTop
<1>3. MaxPit <= PitchTop BY DEF PitchTop, ControllerConstants
<1>4. Float(PitchTop, PitchUlp) = PitchTop BY <1>1, FloatOfFloat DEF PitchTop
<1>5. ASSUME NEW x \in 0..PitchTop
      PROVE  /\ Float(x, PitchUlp) \in 0..PitchTop
             /\ Float(Float(x, PitchUlp), PitchUlp) = Float(x, PitchUlp)
  <2>1. x \in Nat /\ x <= PitchTop BY <1>2
  <2>2. Float(x, PitchUlp) \in Nat BY <1>1, <2>1, FloatIsNat
  <2>3. Float(x, PitchUlp) <= PitchTop BY <1>1, <1>2, <1>4, <2>1, FloatMonotone
  <2>4. Float(Float(x, PitchUlp), PitchUlp) = Float(x, PitchUlp) BY <1>1, <2>1, FloatOfFloat
  <2>5. QED BY <1>2, <2>2, <2>3, <2>4
<1>6. QED BY <1>2, <1>3, <1>5

LEMMA FloatOfTorque ==
    ASSUME ControllerNumbers, ControllerConstants, NEW x, NEW forward,
           TorqueSound(x, forward, MaxTq)
    PROVE  TorqueSound(Float(x, TorqueUlp), forward, TorqueTop)
<1>1. MaxTq \in Int /\ TorqueUlp \in Nat \ {0} /\ NaN \notin Int BY Constants
<1>2. x \in Int /\ x <= MaxTq /\ (forward => x >= 0) BY DEF TorqueSound
<1>3. Float(x, TorqueUlp) \in Int /\ TorqueTop \in Int BY <1>1, <1>2, FloatNear DEF TorqueTop
<1>4. Float(x, TorqueUlp) <= TorqueTop BY <1>1, <1>2, FloatMonotone DEF TorqueTop
<1>5. forward => Float(x, TorqueUlp) >= 0
  <2> SUFFICES ASSUME forward PROVE Float(x, TorqueUlp) >= 0 OBVIOUS
  <2>1. x \in Nat BY <1>2
  <2>2. QED BY <1>1, <2>1, FloatIsNat
<1>6. QED BY <1>3, <1>4, <1>5 DEF TorqueSound

LEMMA RoundedPitchIsUniform ==
    ASSUME ControllerNumbers, ControllerConstants, NEW p, Uniform(p, PitchTop)
    PROVE  /\ Uniform(RoundedPitch(p), PitchTop)
           /\ RoundedPitch(RoundedPitch(p)) = RoundedPitch(p)
<1>1. \A b \in Blades : p[b] \in 0..PitchTop /\ p[b] = p[1] BY DEF Uniform
<1>2. 1 \in Blades BY DEF Blades
<1>3. QED BY <1>1, <1>2, FloatOfPitch, Zenon DEF RoundedPitch, Uniform

LEMMA UniformWidens ==
    ASSUME ControllerNumbers, ControllerConstants, NEW p, Uniform(p, MaxPit)
    PROVE  Uniform(p, PitchTop)
<1>1. MaxPit \in Nat /\ PitchTop \in Nat /\ MaxPit <= PitchTop BY Constants, FloatOfPitch
<1>2. 0..MaxPit \subseteq 0..PitchTop BY <1>1
<1>3. QED BY <1>2 DEF Uniform

LEMMA ClampBetween ==
    ASSUME NEW x \in Int, NEW lo \in Int, NEW hi \in Int, lo <= hi
    PROVE  Clamp(x, lo, hi) \in Int /\ lo <= Clamp(x, lo, hi) /\ Clamp(x, lo, hi) <= hi
BY DEF Clamp

LEMMA ClampIsInt ==
    ASSUME NEW x \in Int, NEW lo \in Int, NEW hi \in Int PROVE Clamp(x, lo, hi) \in Int
BY DEF Clamp

\* Before Horizon a control law that runs, runs later than it last did.
LEMMA DueMeansLater ==
    ASSUME ControllerNumbers, ControllerConstants, NEW time \in Nat, NEW latest \in Int,
           time < Horizon, Due(time, latest)
    PROVE  time > latest
<1> DEFINE q == time \div Drift
<1>1. DT \in Nat /\ Drift \in Nat \ {0} BY Constants
<1>2. time < Drift * DT
  <2>1. DT * Drift = Drift * DT /\ DT * Drift \in Nat BY <1>1, SMT
  <2>2. QED BY <2>1 DEF Horizon
<1>3. q < DT /\ q \in Nat
  <2>1. \A r \in 0..(Drift - 1), p \in Nat : Drift * p + r < Drift * DT => p < DT
    BY <1>1, SMT
  <2>2. /\ q \in Nat /\ time % Drift \in 0..(Drift - 1)
        /\ time = Drift * q + (time % Drift)
    BY <1>1, SMT
  <2>3. QED BY <1>2, <2>1, <2>2
<1>4. time + q - latest >= DT BY DEF Due, Scaled
<1> HIDE DEF q
<1>5. QED BY <1>1, <1>3, <1>4

LEMMA RateLimitedType ==
    ASSUME ControllerNumbers, ControllerConstants, NEW from \in Number, NEW to \in Number,
           NEW elapsed \in Int, NEW rate \in Nat
    PROVE  RateLimited(from, to, elapsed, rate) \in Number
<1>1. CASE from \in Int /\ to \in Int
  <2> DEFINE b == rate * Abs(elapsed)
  <2>1. Abs(elapsed) \in Nat BY DEF Abs
  <2>2. b \in Nat BY <2>1, ProductIsNat
  <2>3. -rate * Abs(elapsed) \in Int BY <2>1, SMT
  <2>4. Clamp(to - from, -rate * Abs(elapsed), b) \in Int BY <1>1, <2>2, <2>3, ClampIsInt
  <2>5. from + Clamp(to - from, -rate * Abs(elapsed), b) \in Int BY <1>1, <2>4
  <2>6. QED BY <2>5 DEF RateLimited, Number
<1>2. CASE from = NaN \/ to = NaN BY <1>2 DEF RateLimited, Number, Num
<1>3. QED BY <1>1, <1>2 DEF Number

\* With time elapsed the result lies on the way from "from" to "to", and no
\* further from "from" than the rate allows.
LEMMA RateLimitedBetween ==
    ASSUME ControllerNumbers, ControllerConstants, NEW from \in Int, NEW to \in Int,
           NEW elapsed \in Nat \ {0}, NEW rate \in Nat
    PROVE  /\ RateLimited(from, to, elapsed, rate) \in Int
           /\ \/ from <= RateLimited(from, to, elapsed, rate)
                   /\ RateLimited(from, to, elapsed, rate) <= to
              \/ to <= RateLimited(from, to, elapsed, rate)
                   /\ RateLimited(from, to, elapsed, rate) <= from
           /\ Abs(RateLimited(from, to, elapsed, rate) - from) <= rate * Abs(elapsed)
           /\ from = to => RateLimited(from, to, elapsed, rate) = from
<1> DEFINE b == rate * Abs(elapsed)
<1>1. Abs(elapsed) = elapsed BY DEF Abs
<1>2. b \in Nat /\ -rate * Abs(elapsed) = -b BY <1>1, SMT
<1>3. RateLimited(from, to, elapsed, rate) = from + Clamp(to - from, -b, b)
  <2>1. Num(from) /\ Num(to) BY Constants DEF Num
  <2>2. RateLimited(from, to, elapsed, rate)
          = from + Clamp(to - from, -rate * Abs(elapsed), rate * Abs(elapsed))
    BY <2>1 DEF RateLimited
  <2>3. QED BY <1>2, <2>2
<1> DEFINE x == RateLimited(from, to, elapsed, rate)
<1>4. x = from + Clamp(to - from, -b, b) /\ b \in Nat BY <1>2, <1>3
<1> HIDE DEF b, x
<1>5. /\ x \in Int
      /\ (from <= x /\ x <= to) \/ (to <= x /\ x <= from)
      /\ Abs(x - from) <= b
      /\ from = to => x = from
  <2> DEFINE c == Clamp(to - from, -b, b)
  <2>1. c \in Int /\ -b <= c /\ c <= b BY <1>4, ClampBetween
  <2>2. (0 <= c /\ c <= to - from) \/ (to - from <= c /\ c <= 0) BY <1>4 DEF Clamp
  <2>3. x = from + c BY <1>4
  <2> HIDE DEF c
  <2>4. x - from = c BY <2>1, <2>3
  <2>5. Abs(x - from) <= b BY <1>4, <2>1, <2>4 DEF Abs
  <2>6. QED BY <2>1, <2>2, <2>3, <2>5
<1>6. QED BY <1>5 DEF b, x

\* Torque asked for is not negative while the generator turns forward on a sound
\* torque curve.
LEMMA RegionTorqueIsInt ==
    ASSUME ControllerNumbers, ControllerConstants, NEW w \in Int, NEW pitch,
           NEW curve \in [slope15 : Int, slope25 : Int, sync : Int, trans : Int]
    PROVE  /\ RegionTorque(w, pitch, curve) \in Int
           /\ w >= 0 /\ CurveSound(curve) => RegionTorque(w, pitch, curve) >= 0
<1> DEFINE constant == w >= RtGnSp \/ (Num(pitch) /\ pitch >= Rgn3MP)
<1>1. ConstantPower(w) \in Int /\ (w >= 0 => ConstantPower(w) >= 0)
  <2>1. CASE w = 0
    <3>1. MaxTq \in Int /\ MaxTq >= 0
      <4>1. RtPwr \div RtGnSp \in Nat BY Constants, QuotientIsNat
      <4>2. RtPwr \div RtGnSp <= MaxTq BY DEF ControllerConstants
      <4>3. QED BY <4>1, <4>2, Constants
    <3>2. ConstantPower(w) = MaxTq BY <2>1 DEF ConstantPower
    <3>3. QED BY <3>1, <3>2
  <2>2. CASE w > 0
    <3>1. w \in Nat \ {0} BY <2>2
    <3>2. RtPwr \div w \in Nat BY <3>1, Constants, QuotientIsNat
    <3>3. ConstantPower(w) = RtPwr \div w BY <2>2 DEF ConstantPower
    <3>4. QED BY <3>2, <3>3
  <2>3. CASE w < 0
    <3>1. -w \in Nat \ {0} BY <2>3
    <3>2. RtPwr \div (-w) \in Nat BY <3>1, Constants, QuotientIsNat
    <3>3. ConstantPower(w) = -(RtPwr \div (-w)) BY <2>3 DEF ConstantPower
    <3>4. QED BY <2>3, <3>2, <3>3
  <2>4. QED BY <2>1, <2>2, <2>3
<1>2. CASE constant
  <2>1. RegionTorque(w, pitch, curve) = ConstantPower(w) BY <1>2 DEF RegionTorque
  <2>2. QED BY <1>1, <2>1
<1>3. CASE ~constant
  <2> DEFINE below == CASE w <= CtInSp                    -> 0
                        [] w > CtInSp /\ w < Rgn2Sp       -> curve.slope15 * (w - CtInSp)
                        [] w >= Rgn2Sp /\ w < curve.trans -> (Rgn2K * w * w) \div TorqueUnit
                        [] OTHER                          -> curve.slope25 * (w - curve.sync)
  <2>1. RegionTorque(w, pitch, curve) = below BY <1>3 DEF RegionTorque
  <2>2. /\ CtInSp \in Int /\ Rgn2Sp \in Int /\ 0 <= CtInSp /\ CtInSp < Rgn2Sp
        /\ curve.slope15 \in Int /\ curve.slope25 \in Int
        /\ curve.sync \in Int /\ curve.trans \in Int
    BY Constants
  <2>3. CASE w <= CtInSp
    <3>1. below = 0 BY <2>3
    <3>2. QED BY <2>1, <3>1
  <2>4. CASE w > CtInSp /\ w < Rgn2Sp
    <3>1. below = curve.slope15 * (w - CtInSp) BY <2>2, <2>4
    <3>2. w - CtInSp \in Nat BY <2>2, <2>4
    <3>3. curve.slope15 * (w - CtInSp) \in Int BY <2>2, <3>2, ProductIsInt
    <3>4. CurveSound(curve) => curve.slope15 * (w - CtInSp) \in Nat
      BY <3>2, ProductIsNat DEF CurveSound
    <3> HIDE DEF below
    <3>5. QED BY <2>1, <3>1, <3>3, <3>4
  <2>5. CASE w >= Rgn2Sp /\ w < curve.trans
    <3>1. below = (Rgn2K * w * w) \div TorqueUnit BY <2>2, <2>5
    <3>2. w \in Nat BY <2>2, <2>5
    <3>3. Rgn2K * w \in Nat BY <3>2, Constants, ProductIsNat
    <3>4. Rgn2K * w * w \in Nat BY <3>2, <3>3, ProductIsNat
    <3>5. (Rgn2K * w * w) \div TorqueUnit \in Nat BY <3>4, Constants, QuotientIsNat
    <3> HIDE DEF below
    <3>6. QED BY <2>1, <3>1, <3>5
  <2>6. CASE w >= Rgn2Sp /\ ~ (w < curve.trans)
    <3>1. below = curve.slope25 * (w - curve.sync) BY <2>2, <2>6
    <3>2. w - curve.sync \in Int /\ w >= curve.trans BY <2>2, <2>6
    <3>3. curve.slope25 * (w - curve.sync) \in Int BY <2>2, <3>2, ProductIsInt
    <3>4. ASSUME CurveSound(curve) PROVE curve.slope25 * (w - curve.sync) \in Nat
      <4>1. curve.slope25 \in Nat /\ curve.sync <= curve.trans BY <3>4 DEF CurveSound
      <4>2. w - curve.sync \in Nat BY <2>2, <3>2, <4>1
      <4>3. QED BY <4>1, <4>2, ProductIsNat
    <3> HIDE DEF below
    <3>5. QED BY <2>1, <3>1, <3>3, <3>4
  <2> HIDE DEF below
  <2>7. QED BY <2>2, <2>3, <2>4, <2>5, <2>6
<1>4. QED BY <1>2, <1>3

LEMMA SaturatedBelow ==
    ASSUME ControllerNumbers, NEW x \in Int, NEW forward, forward => x >= 0,
           ControllerConstants
    PROVE  TorqueSound(Saturated(x), forward, MaxTq)
<1>1. MaxTq \in Int /\ MaxTq >= 0
  <2>1. RtPwr \div RtGnSp \in Nat BY Constants, QuotientIsNat
  <2>2. RtPwr \div RtGnSp <= MaxTq BY DEF ControllerConstants
  <2>3. QED BY <2>1, <2>2, Constants
<1>2. QED BY <1>1 DEF TorqueSound, Saturated

\* The filtered speed is a number, and moves towards the measured one unless
\* time went back.
LEMMA FilterIsInt ==
    ASSUME ControllerNumbers, ControllerConstants, NEW old \in Int, NEW measured \in Speeds,
           NEW elapsed \in Int, NEW w \in FilterGeneratorSpeed(old, measured, elapsed)
    PROVE  /\ w \in Int
           /\ elapsed >= 0 /\ old >= 0 /\ measured >= 0 => w >= 0
<1>1. measured \in Int /\ SpeedFloor \in Int /\ SpeedCeiling \in Int BY Constants
<1>2. /\ (elapsed = 0 \/ old = measured)   => w = old
      /\ (elapsed > 0 /\ old < measured) => w \in old..measured
      /\ (elapsed > 0 /\ old > measured) => w \in measured..old
      /\ (elapsed < 0 /\ old < measured) => w \in SpeedFloor..old
      /\ (elapsed < 0 /\ old > measured) => w \in old..SpeedCeiling
  BY <1>1 DEF FilterGeneratorSpeed
<1>3. QED BY <1>1, <1>2

-----------------------------------------------------------------------------
(* The control laws. *)

TorqueAskedFor(d) == Saturated(RegionTorque(d.filtered, d.pitch[1], d.curve))

LEMMA TorqueAskedForIsInt ==
    ASSUME ControllerNumbers, ControllerConstants, NEW d \in InternalState
    PROVE  TorqueAskedFor(d) \in Int
<1>1. /\ d.filtered \in Int
      /\ d.curve \in [slope15 : Int, slope25 : Int, sync : Int, trans : Int]
  BY DEF InternalState
<1>2. RegionTorque(d.filtered, d.pitch[1], d.curve) \in Int BY <1>1, RegionTorqueIsInt
<1>3. QED BY <1>2, Constants DEF TorqueAskedFor, Saturated

LEMMA TorqueControl ==
    ASSUME ControllerNumbers, ControllerConstants,
           NEW d \in InternalState, NEW swap \in SwapArray
    PROVE  LET e == VariableSpeedTorqueControl(d, swap)
               target == TorqueAskedFor(d)
           IN  /\ e \in InternalState
               /\ e.filtered = d.filtered /\ e.integral = d.integral /\ e.time = d.time
               /\ e.pitchTime = d.pitchTime /\ e.pitch = d.pitch /\ e.curve = d.curve
               /\ IF Due(swap.time, d.torqueTime)
                  THEN /\ e.torqueTime = swap.time
                       /\ e.torque = RateLimited(TorqueBefore(d, swap.status, target), target,
                                                 swap.time - d.torqueTime, VSMaxRat)
                  ELSE e.torqueTime = d.torqueTime /\ e.torque = d.torque
<1> DEFINE target == TorqueAskedFor(d)
           x == RateLimited(TorqueBefore(d, swap.status, target), target,
                            swap.time - d.torqueTime, VSMaxRat)
           e == VariableSpeedTorqueControl(d, swap)
<1>1. target \in Int BY TorqueAskedForIsInt
<1>2. swap.time \in Int /\ d.torqueTime \in Int /\ d.torque \in Number
  BY DEF SwapArray, InternalState
<1>3. x \in Number
  <2>1. TorqueBefore(d, swap.status, target) \in Number
    BY <1>1, <1>2 DEF TorqueBefore, Number
  <2>2. target \in Number BY <1>1 DEF Number
  <2>3. swap.time - d.torqueTime \in Int BY <1>2
  <2>4. VSMaxRat \in Nat BY Constants
  <2> HIDE DEF target
  <2>5. QED BY <2>1, <2>2, <2>3, <2>4, RateLimitedType
<1>4. e = IF Due(swap.time, d.torqueTime)
          THEN [d EXCEPT !.torque = x, !.torqueTime = swap.time] ELSE d
  BY DEF VariableSpeedTorqueControl, TorqueAskedFor
<1> HIDE DEF x, e
<1>5. CASE Due(swap.time, d.torqueTime)
  <2>1. e = [d EXCEPT !.torque = x, !.torqueTime = swap.time] BY <1>4, <1>5
  <2>2. e \in InternalState
    <3>1. [d EXCEPT !.torque = x] \in InternalState BY <1>3 DEF InternalState
    <3>2. [[d EXCEPT !.torque = x] EXCEPT !.torqueTime = swap.time] \in InternalState
      BY <1>2, <3>1 DEF InternalState
    <3>3. e = [[d EXCEPT !.torque = x] EXCEPT !.torqueTime = swap.time] BY <2>1
    <3>4. QED BY <3>2, <3>3
  <2>3. e.torqueTime = swap.time /\ e.torque = x BY <2>1 DEF InternalState
  <2>4. /\ e.filtered = d.filtered /\ e.integral = d.integral /\ e.time = d.time
        /\ e.pitchTime = d.pitchTime /\ e.pitch = d.pitch /\ e.curve = d.curve
    BY <2>1 DEF InternalState
  <2>5. QED BY <1>5, <2>2, <2>3, <2>4 DEF e, x
<1>6. CASE ~Due(swap.time, d.torqueTime)
  <2>1. e = d BY <1>4, <1>6
  <2>2. QED BY <1>6, <2>1 DEF e
<1>7. QED BY <1>5, <1>6

PitchAskedFor(d, integral) ==
    LET asked == Scheduled(KP * (d.filtered - RefSpd) + KI * integral, d.pitch[1])
    IN  IF Num(asked) THEN Clamp(asked, 0, MaxPit) ELSE NaN

IntegralAfter(d, swap) ==
    Clamp(d.integral + (d.filtered - RefSpd) * (swap.time - d.pitchTime), 0, MaxPit \div KI)

PitchCommand(pitch, asked, elapsed) ==
    LET p == RateLimited(pitch, asked, elapsed, PCMaxRat)
    IN  IF Num(p) THEN Clamp(p, 0, MaxPit) ELSE NaN

LEMMA IntegralIsInt ==
    ASSUME ControllerNumbers, ControllerConstants,
           NEW d \in InternalState, NEW swap \in SwapArray
    PROVE  IntegralAfter(d, swap) \in Int
<1>1. /\ d.integral \in Int /\ d.filtered - RefSpd \in Int /\ swap.time - d.pitchTime \in Int
  BY Constants DEF InternalState, SwapArray
<1>2. (d.filtered - RefSpd) * (swap.time - d.pitchTime) \in Int BY <1>1, ProductIsInt
<1>3. MaxPit \div KI \in Int BY Constants, QuotientIsNat
<1>4. d.integral + (d.filtered - RefSpd) * (swap.time - d.pitchTime) \in Int BY <1>1, <1>2
<1>5. QED BY <1>3, <1>4, ClampIsInt DEF IntegralAfter

LEMMA PitchAskedForRange ==
    ASSUME ControllerNumbers, ControllerConstants, NEW d \in InternalState, NEW integral \in Int
    PROVE  /\ PitchAskedFor(d, integral) \in Angle
           /\ d.pitch[1] \in Nat => PitchAskedFor(d, integral) \in 0..MaxPit
<1> DEFINE x == KP * (d.filtered - RefSpd) + KI * integral
           asked == Scheduled(x, d.pitch[1])
<1>1. MaxPit \in Nat BY Constants
<1>2. Num(asked) /\ asked \in Int => PitchAskedFor(d, integral) \in 0..MaxPit
  <2> SUFFICES ASSUME Num(asked), asked \in Int PROVE PitchAskedFor(d, integral) \in 0..MaxPit
    OBVIOUS
  <2>1. PitchAskedFor(d, integral) = Clamp(asked, 0, MaxPit) BY DEF PitchAskedFor
  <2> HIDE DEF asked
  <2>2. Clamp(asked, 0, MaxPit) \in 0..MaxPit BY <1>1 DEF Clamp
  <2>3. QED BY <2>1, <2>2
<1>3. d.filtered - RefSpd \in Int BY Constants DEF InternalState
<1>4. x \in Int
  <2>1. KP * (d.filtered - RefSpd) \in Int /\ KI * integral \in Int
    BY <1>3, Constants, ProductIsInt
  <2>2. QED BY <2>1
<1> HIDE DEF x
<1>5. ~ Num(asked) => PitchAskedFor(d, integral) = NaN BY DEF PitchAskedFor, x
<1>6. d.pitch[1] \in Nat => asked \in Int
  <2> SUFFICES ASSUME d.pitch[1] \in Nat PROVE asked \in Int OBVIOUS
  <2>1. KK + d.pitch[1] \in Nat \ {0} /\ KK \in Int BY Constants
  <2>2. x * KK \in Int BY <1>4, <2>1, ProductIsInt
  <2>3. (x * KK) \div (KK + d.pitch[1]) \in Int BY <2>1, <2>2, QuotientIsInt
  <2>4. Num(d.pitch[1]) BY Constants DEF Num
  <2>5. QED BY <2>3, <2>4 DEF Scheduled
<1>7. d.pitch[1] \in Nat => PitchAskedFor(d, integral) \in 0..MaxPit
  BY <1>2, <1>6, Constants DEF Num
<1>8. d.pitch[1] \in Nat \/ d.pitch[1] = NaN BY <1>1 DEF InternalState, Blades, Angle
<1>9. d.pitch[1] = NaN => ~ Num(asked) BY DEF Scheduled, Num
<1>10. 0..MaxPit \subseteq Angle BY <1>1 DEF Angle
<1>11. QED BY <1>5, <1>7, <1>8, <1>9, <1>10 DEF Angle

LEMMA PitchCommandIsAngle ==
    ASSUME ControllerNumbers, ControllerConstants, NEW pitch \in Angle, NEW asked \in Angle,
           NEW elapsed \in Int
    PROVE  PitchCommand(pitch, asked, elapsed) \in Angle
<1> DEFINE p == RateLimited(pitch, asked, elapsed, PCMaxRat)
<1>1. MaxPit \in Nat /\ PCMaxRat \in Nat BY Constants
<1>2. pitch \in Number /\ asked \in Number BY <1>1 DEF Angle, Number
<1>3. p \in Number BY <1>1, <1>2, RateLimitedType
<1>4. PitchCommand(pitch, asked, elapsed) = IF Num(p) THEN Clamp(p, 0, MaxPit) ELSE NaN
  BY DEF PitchCommand
<1> HIDE DEF p
<1>5. p \in Int => Clamp(p, 0, MaxPit) \in Nat BY <1>1 DEF Clamp
<1>6. QED BY <1>3, <1>4, <1>5 DEF Angle, Number, Num

\* A command on the way from a pitch that is a float to one in range is cut only
\* when it started from the float above MaxPit, which is its float again.
LEMMA PitchCommandIsLimited ==
    ASSUME ControllerNumbers, ControllerConstants, NEW pitch \in 0..PitchTop,
           Float(pitch, PitchUlp) = pitch, NEW asked \in 0..MaxPit, NEW elapsed \in Nat \ {0}
    PROVE  LET c == PitchCommand(pitch, asked, elapsed)
           IN  /\ c \in 0..MaxPit
               /\ 2 * Abs(Float(c, PitchUlp) - pitch)
                     <= 2 * PCMaxRat * Abs(elapsed) + PitchUlp
<1> DEFINE p == RateLimited(pitch, asked, elapsed, PCMaxRat)
           c == PitchCommand(pitch, asked, elapsed)
           b == PCMaxRat * Abs(elapsed)
<1>1. /\ MaxPit \in Nat /\ PCMaxRat \in Nat /\ PitchTop \in Nat /\ MaxPit <= PitchTop
      /\ PitchUlp \in Nat \ {0} /\ NaN \notin Int
  BY Constants, FloatOfPitch
<1>2. /\ pitch \in Int /\ asked \in Int /\ 0 <= pitch /\ pitch <= PitchTop
      /\ 0 <= asked /\ asked <= MaxPit
  BY <1>1
<1>3. /\ p \in Int
      /\ (pitch <= p /\ p <= asked) \/ (asked <= p /\ p <= pitch)
      /\ Abs(p - pitch) <= b
  BY <1>1, <1>2, RateLimitedBetween
<1>4. Abs(elapsed) \in Nat BY DEF Abs
<1>5. b \in Nat /\ 2 * PCMaxRat * Abs(elapsed) = 2 * b
  <2>1. b \in Nat BY <1>1, <1>4, ProductIsNat
  <2>2. 2 * PCMaxRat * Abs(elapsed) = 2 * (PCMaxRat * Abs(elapsed)) BY <1>1, <1>4, SMT
  <2>3. QED BY <2>1, <2>2
<1>6. c = IF Num(p) THEN Clamp(p, 0, MaxPit) ELSE NaN BY DEF PitchCommand
<1> HIDE DEF p, c, b
<1>7. c = Clamp(p, 0, MaxPit) BY <1>3, <1>6, Constants DEF Num
<1>8. 0 <= p BY <1>2, <1>3
<1>9. CASE p <= MaxPit
  <2>1. c = p BY <1>1, <1>3, <1>7, <1>8, <1>9 DEF Clamp
  <2>2. p \in 0..MaxPit BY <1>1, <1>3, <1>8, <1>9
  <2> DEFINE f == Float(p, PitchUlp)
  <2>3. f \in Int /\ 2 * f <= 2 * p + PitchUlp /\ 2 * p < 2 * f + PitchUlp
    BY <1>1, <1>3, FloatNear
  <2> HIDE DEF f
  <2>4. p - pitch <= b /\ pitch - p <= b BY <1>2, <1>3, <1>5 DEF Abs
  <2>5. 2 * Abs(f - pitch) <= 2 * b + PitchUlp BY <1>1, <1>2, <1>3, <1>5, <2>3, <2>4 DEF Abs
  <2>6. QED BY <1>5, <2>1, <2>2, <2>5 DEF f, c
<1>10. CASE MaxPit < p
  <2>1. c = MaxPit BY <1>1, <1>3, <1>7, <1>8, <1>10 DEF Clamp
  <2>2. MaxPit <= pitch BY <1>1, <1>2, <1>3, <1>10
  <2>3. PitchTop <= pitch
    <3>1. Float(MaxPit, PitchUlp) <= Float(pitch, PitchUlp) BY <1>1, <1>2, <2>2, FloatMonotone
    <3>2. QED BY <3>1 DEF PitchTop
  <2>4. pitch = PitchTop BY <1>1, <1>2, <2>3
  <2>5. Float(c, PitchUlp) = pitch BY <2>1, <2>4 DEF PitchTop
  <2>6. 2 * Abs(Float(c, PitchUlp) - pitch) <= 2 * b + PitchUlp
    BY <1>1, <1>2, <1>5, <2>5 DEF Abs
  <2>7. MaxPit \in 0..MaxPit BY <1>1
  <2>8. QED BY <1>5, <2>1, <2>6, <2>7 DEF c
<1>11. QED BY <1>1, <1>3, <1>9, <1>10

LEMMA PitchLaw ==
    ASSUME ControllerNumbers, ControllerConstants,
           NEW d \in InternalState, NEW swap \in SwapArray
    PROVE  LET e == PitchControl(d, swap)
               asked == PitchAskedFor(d, IntegralAfter(d, swap))
           IN  /\ e \in InternalState
               /\ e.filtered = d.filtered /\ e.torque = d.torque /\ e.time = d.time
               /\ e.torqueTime = d.torqueTime /\ e.curve = d.curve
               /\ IF Due(swap.time, d.pitchTime)
                  THEN /\ e.pitchTime = swap.time
                       /\ e.pitch = [b \in Blades |->
                            PitchCommand(swap.pitch[b], asked, swap.time - d.pitchTime)]
                  ELSE /\ e.pitchTime = d.pitchTime /\ e.pitch = d.pitch
                       /\ e.integral = d.integral
<1> DEFINE integral == IntegralAfter(d, swap)
           asked == PitchAskedFor(d, integral)
           elapsed == swap.time - d.pitchTime
           commands == [b \in Blades |-> PitchCommand(swap.pitch[b], asked, elapsed)]
           e == PitchControl(d, swap)
<1>1. swap.time \in Int /\ elapsed \in Int /\ swap.pitch \in [Blades -> Angle]
  BY DEF SwapArray, InternalState
<1>2. integral \in Int BY IntegralIsInt
<1>3. asked \in Angle BY <1>2, PitchAskedForRange
<1>4. commands \in [Blades -> Angle]
  <2> HIDE DEF asked, elapsed
  <2>1. \A b \in Blades : PitchCommand(swap.pitch[b], asked, elapsed) \in Angle
    BY <1>1, <1>3, PitchCommandIsAngle
  <2>2. QED BY <2>1
<1>5. e = IF Due(swap.time, d.pitchTime)
          THEN [d EXCEPT !.integral = integral, !.pitch = commands, !.pitchTime = swap.time]
          ELSE d
  BY Zenon DEF PitchControl, IntegralAfter, PitchAskedFor, PitchCommand
<1> HIDE DEF integral, commands, e, asked
<1>6. CASE Due(swap.time, d.pitchTime)
  <2>1. e = [d EXCEPT !.integral = integral, !.pitch = commands, !.pitchTime = swap.time]
    BY <1>5, <1>6
  <2>2. e \in InternalState
    <3>1. [d EXCEPT !.integral = integral] \in InternalState BY <1>2 DEF InternalState
    <3>2. [[d EXCEPT !.integral = integral] EXCEPT !.pitch = commands] \in InternalState
      BY <1>4, <3>1 DEF InternalState
    <3>3. [[[d EXCEPT !.integral = integral] EXCEPT !.pitch = commands]
             EXCEPT !.pitchTime = swap.time] \in InternalState
      BY <1>1, <3>2 DEF InternalState
    <3>4. e = [[[d EXCEPT !.integral = integral] EXCEPT !.pitch = commands]
                 EXCEPT !.pitchTime = swap.time]
      BY <2>1
    <3>5. QED BY <3>3, <3>4
  <2>3. e.pitchTime = swap.time /\ e.pitch = commands BY <2>1 DEF InternalState
  <2>4. /\ e.filtered = d.filtered /\ e.torque = d.torque /\ e.time = d.time
        /\ e.torqueTime = d.torqueTime /\ e.curve = d.curve
    BY <2>1 DEF InternalState
  <2>5. QED BY <1>6, <2>2, <2>3, <2>4 DEF e, commands, asked, integral
<1>7. CASE ~Due(swap.time, d.pitchTime)
  <2>1. e = d BY <1>5, <1>7
  <2>2. QED BY <1>7, <2>1 DEF e
<1>8. QED BY <1>6, <1>7

\* What one pass through the control laws does with the internal state.
TorqueMoves(d, swap, e, target) ==
    IF Due(swap.time, d.torqueTime)
    THEN /\ e.torqueTime = swap.time
         /\ e.torque = RateLimited(TorqueBefore(d, swap.status, target), target,
                                   swap.time - d.torqueTime, VSMaxRat)
    ELSE e.torqueTime = d.torqueTime /\ e.torque = d.torque

PitchMoves(d, swap, e, asked) ==
    IF Due(swap.time, d.pitchTime)
    THEN /\ e.pitchTime = swap.time
         /\ e.pitch = [b \in Blades |->
                         PitchCommand(swap.pitch[b], asked, swap.time - d.pitchTime)]
    ELSE /\ e.pitchTime = d.pitchTime /\ e.pitch = d.pitch
         /\ e.integral = d.integral

LEMMA OnePass ==
    ASSUME ControllerNumbers, ControllerConstants, NEW d \in InternalState,
           NEW swap \in SwapArray, NEW e \in ComputeControl(d, swap)
    PROVE  /\ e \in InternalState
           /\ e.time = swap.time /\ e.curve = d.curve
           /\ e.filtered \in FilterGeneratorSpeed(d.filtered, swap.speed, swap.time - d.time)
           /\ \E target \in Int : /\ TorqueSound(target, e.filtered >= 0 /\ CurveSound(d.curve),
                                                 MaxTq)
                                  /\ TorqueMoves(d, swap, e, target)
           /\ \E asked \in Angle : /\ d.pitch[1] \in Nat => asked \in 0..MaxPit
                                   /\ PitchMoves(d, swap, e, asked)
<1>1. PICK w \in FilterGeneratorSpeed(d.filtered, swap.speed, swap.time - d.time) :
        e = [PitchControl(VariableSpeedTorqueControl([d EXCEPT !.filtered = w], swap), swap)
               EXCEPT !.time = swap.time]
  BY DEF ComputeControl
<1>2. w \in Int
  <2> DEFINE elapsed == swap.time - d.time
             old == d.filtered
             measured == swap.speed
  <2>1. old \in Int /\ measured \in Speeds /\ elapsed \in Int
    BY DEF InternalState, SwapArray
  <2>2. w \in FilterGeneratorSpeed(old, measured, elapsed) BY <1>1
  <2> HIDE DEF elapsed, old, measured
  <2>3. QED BY <2>1, <2>2, FilterIsInt
<1> DEFINE c == [d EXCEPT !.filtered = w]
           m == VariableSpeedTorqueControl(c, swap)
           p == PitchControl(m, swap)
           target == TorqueAskedFor(c)
           asked == PitchAskedFor(m, IntegralAfter(m, swap))
<1>3. c \in InternalState BY <1>2 DEF InternalState
<1>4. /\ c.filtered = w /\ c.integral = d.integral /\ c.torque = d.torque /\ c.time = d.time
      /\ c.pitchTime = d.pitchTime /\ c.torqueTime = d.torqueTime /\ c.pitch = d.pitch
      /\ c.curve = d.curve
  BY DEF InternalState
<1> HIDE DEF c
<1>5. /\ m \in InternalState
      /\ m.filtered = c.filtered /\ m.integral = c.integral /\ m.time = c.time
      /\ m.pitchTime = c.pitchTime /\ m.pitch = c.pitch /\ m.curve = c.curve
      /\ TorqueMoves(c, swap, m, target)
  BY <1>3, TorqueControl DEF TorqueMoves
<1> HIDE DEF m
<1>6. /\ p \in InternalState
      /\ p.filtered = m.filtered /\ p.torque = m.torque /\ p.torqueTime = m.torqueTime
      /\ p.curve = m.curve
      /\ PitchMoves(m, swap, p, asked)
  BY <1>5, PitchLaw DEF PitchMoves
<1> HIDE DEF p
<1>7. e = [p EXCEPT !.time = swap.time] BY <1>1 DEF p, m, c
<1>8. swap.time \in Int BY DEF SwapArray
<1>9. e \in InternalState /\ e.time = swap.time BY <1>6, <1>7, <1>8 DEF InternalState
<1>10. /\ e.filtered = w /\ e.integral = p.integral /\ e.torque = m.torque
       /\ e.torqueTime = m.torqueTime /\ e.pitchTime = p.pitchTime /\ e.pitch = p.pitch
       /\ e.curve = d.curve
  BY <1>4, <1>5, <1>6, <1>7 DEF InternalState
<1>11. target \in Int /\ TorqueSound(target, e.filtered >= 0 /\ CurveSound(d.curve), MaxTq)
  <2> DEFINE x == RegionTorque(c.filtered, c.pitch[1], c.curve)
             forward == w >= 0 /\ CurveSound(d.curve)
  <2>1. d.curve \in [slope15 : Int, slope25 : Int, sync : Int, trans : Int]
    BY DEF InternalState
  <2>2. x \in Int /\ (forward => x >= 0) BY <1>2, <1>4, <2>1, RegionTorqueIsInt
  <2>3. target = Saturated(x) BY DEF TorqueAskedFor
  <2> HIDE DEF x, target, forward
  <2>4. TorqueSound(Saturated(x), forward, MaxTq) BY <2>2, SaturatedBelow
  <2>5. QED BY <2>3, <2>4, <1>10 DEF TorqueSound, forward
<1> HIDE DEF target
<1>12. TorqueMoves(d, swap, e, target)
  BY <1>4, <1>5, <1>10 DEF TorqueMoves, TorqueBefore
<1>13. asked \in Angle /\ (d.pitch[1] \in Nat => asked \in 0..MaxPit)
  BY <1>4, <1>5, IntegralIsInt, PitchAskedForRange
<1> HIDE DEF asked
<1>14. PitchMoves(d, swap, e, asked)
  BY <1>4, <1>5, <1>6, <1>10 DEF PitchMoves
<1>15. QED BY <1>9, <1>10, <1>11, <1>12, <1>13, <1>14

\* What a first call sets up: a state whose torque is that of an earlier
\* controller, and whose control laws are due.
Ready(d, forward) ==
    /\ forward => d.filtered >= 0
    /\ d.pitch[1] \in Nat
    /\ d.pitchTime = d.torqueTime
    /\ CurveSound(d.curve)

\* A pass before Horizon, from the state a first call sets up or from a sound
\* one, leaves a sound state, and moves the commands within the rate limits.
LEMMA PassIsSound ==
    ASSUME ControllerNumbers, ControllerConstants, NEW d \in InternalState,
           NEW swap \in SwapArray, NEW e \in ComputeControl(d, swap),
           NEW forward \in BOOLEAN, swap.time < Horizon,
           \/ swap.status = 0 /\ Due(swap.time, d.torqueTime) /\ Ready(d, forward)
           \/ swap.status # 0 /\ StateSound(d, forward),
           Uniform(swap.pitch, PitchTop), RoundedPitch(swap.pitch) = swap.pitch,
           forward => swap.speed >= 0 /\ d.time <= swap.time
    PROVE  /\ StateSound(e, forward)
           /\ swap.status # 0 =>
                 Abs(e.torque - d.torque) <= VSMaxRat * Abs(swap.time - d.torqueTime)
           /\ swap.pitch = RoundedPitch(d.pitch) => \A b \in Blades :
                 2 * Abs(Float(e.pitch[b], PitchUlp) - swap.pitch[b])
                    <= 2 * PCMaxRat * Abs(swap.time - d.pitchTime) + PitchUlp
           /\ swap.status # 0 /\ swap.time <= d.torqueTime =>
                 e.torque = d.torque /\ e.pitch = d.pitch /\ e.integral = d.integral
<1>1. /\ swap.time \in Nat /\ d.torqueTime \in Int /\ d.pitchTime \in Int /\ d.time \in Int
      /\ d.filtered \in Int /\ swap.speed \in Speeds /\ e.filtered \in Int
      /\ e.curve = d.curve
  <2>1. e \in InternalState /\ e.curve = d.curve BY OnePass
  <2>2. QED BY <2>1 DEF SwapArray, InternalState
<1>2. PICK target \in Int : /\ TorqueSound(target, e.filtered >= 0 /\ CurveSound(d.curve), MaxTq)
                            /\ TorqueMoves(d, swap, e, target)
  BY OnePass
<1>3. PICK asked \in Angle : /\ d.pitch[1] \in Nat => asked \in 0..MaxPit
                             /\ PitchMoves(d, swap, e, asked)
  BY OnePass
<1>4. Ready(d, forward)
  <2>1. StateSound(d, forward) => d.pitch[1] \in Nat
    BY Constants DEF StateSound, Uniform, Blades
  <2>2. QED BY <2>1 DEF Ready, StateSound
<1>5. /\ asked \in 0..MaxPit /\ d.pitchTime = d.torqueTime /\ CurveSound(d.curve)
      /\ forward => d.filtered >= 0
  BY <1>3, <1>4 DEF Ready
<1>6. forward => e.filtered >= 0
  <2> DEFINE elapsed == swap.time - d.time
             old == d.filtered
             measured == swap.speed
             w == e.filtered
  <2>1. w \in FilterGeneratorSpeed(old, measured, elapsed) BY OnePass
  <2>2. /\ old \in Int /\ measured \in Speeds /\ elapsed \in Int
        /\ forward => elapsed >= 0 /\ old >= 0 /\ measured >= 0
    BY <1>1, <1>5
  <2> HIDE DEF elapsed, old, measured, w
  <2>3. forward => w >= 0 BY <2>1, <2>2, FilterIsInt
  <2>4. QED BY <2>3 DEF w
<1>7. TorqueSound(target, forward, MaxTq) BY <1>2, <1>5, <1>6 DEF TorqueSound
<1>8. CASE Due(swap.time, d.torqueTime)
  <2> DEFINE elapsed == swap.time - d.torqueTime
             before == TorqueBefore(d, swap.status, target)
  <2>1. elapsed \in Nat \ {0} /\ swap.time > d.torqueTime
    <3>1. swap.time > d.torqueTime BY <1>1, <1>8, DueMeansLater
    <3>2. QED BY <1>1, <3>1
  <2>2. TorqueSound(before, forward, MaxTq) /\ (swap.status # 0 => before = d.torque)
    BY <1>7 DEF TorqueBefore, StateSound
  <2>3. e.torque = RateLimited(before, target, elapsed, VSMaxRat) /\ e.torqueTime = swap.time
    BY <1>2, <1>8 DEF TorqueMoves
  <2> HIDE DEF elapsed, before
  <2>4. /\ e.torque \in Int
        /\ (before <= e.torque /\ e.torque <= target) \/ (target <= e.torque /\ e.torque <= before)
        /\ Abs(e.torque - before) <= VSMaxRat * Abs(elapsed)
    <3> DEFINE x == RateLimited(before, target, elapsed, VSMaxRat)
    <3>1. before \in Int /\ VSMaxRat \in Nat BY <2>2, Constants DEF TorqueSound
    <3>2. elapsed \in Nat \ {0} BY <2>1
    <3>3. /\ x \in Int
          /\ (before <= x /\ x <= target) \/ (target <= x /\ x <= before)
          /\ Abs(x - before) <= VSMaxRat * Abs(elapsed)
      BY <3>1, <3>2, RateLimitedBetween
    <3>4. e.torque = x BY <2>3
    <3> HIDE DEF x
    <3>5. QED BY <3>3, <3>4
  <2>5. TorqueSound(e.torque, forward, MaxTq)
    BY <1>7, <2>2, <2>4, Constants DEF TorqueSound
  <2>6. e.pitchTime = swap.time
        /\ e.pitch = [b \in Blades |-> PitchCommand(swap.pitch[b], asked, elapsed)]
    BY <1>3, <1>5, <1>8 DEF PitchMoves, elapsed
  <2>7. \A b \in Blades :
          /\ PitchCommand(swap.pitch[b], asked, elapsed) \in 0..MaxPit
          /\ 2 * Abs(Float(PitchCommand(swap.pitch[b], asked, elapsed), PitchUlp) - swap.pitch[b])
               <= 2 * PCMaxRat * Abs(elapsed) + PitchUlp
    <3>1. \A b \in Blades : swap.pitch[b] \in 0..PitchTop
                            /\ Float(swap.pitch[b], PitchUlp) = swap.pitch[b]
      <4>1. \A b \in Blades : swap.pitch[b] \in 0..PitchTop BY DEF Uniform
      <4>2. \A b \in Blades : RoundedPitch(swap.pitch)[b] = Float(swap.pitch[b], PitchUlp)
        BY DEF RoundedPitch
      <4>3. QED BY <4>1, <4>2
    <3>2. QED BY <1>5, <2>1, <3>1, PitchCommandIsLimited
  <2>8. Uniform(e.pitch, MaxPit)
    <3>1. \A b \in Blades : swap.pitch[b] = swap.pitch[1] BY DEF Uniform
    <3>2. 1 \in Blades BY DEF Blades
    <3>3. \A b \in Blades : e.pitch[b] = e.pitch[1] BY <2>6, <3>1, <3>2
    <3>4. e.pitch \in [Blades -> 0..MaxPit] BY <2>6, <2>7
    <3>5. QED BY <3>3, <3>4 DEF Uniform
  <2>9. StateSound(e, forward)
    BY <1>1, <1>5, <1>6, <2>3, <2>5, <2>6, <2>8 DEF StateSound
  <2>10. ~ (swap.time <= d.torqueTime) BY <1>1, <2>1
  <2>11. swap.status # 0 =>
           Abs(e.torque - d.torque) <= VSMaxRat * Abs(swap.time - d.torqueTime)
    BY <2>2, <2>4 DEF elapsed
  <2>12. \A b \in Blades : 2 * Abs(Float(e.pitch[b], PitchUlp) - swap.pitch[b])
           <= 2 * PCMaxRat * Abs(swap.time - d.pitchTime) + PitchUlp
    <3> SUFFICES ASSUME NEW b \in Blades
                 PROVE  2 * Abs(Float(e.pitch[b], PitchUlp) - swap.pitch[b])
                           <= 2 * PCMaxRat * Abs(swap.time - d.pitchTime) + PitchUlp
      OBVIOUS
    <3>1. e.pitch[b] = PitchCommand(swap.pitch[b], asked, elapsed) BY <2>6
    <3>2. swap.time - d.pitchTime = elapsed BY <1>5 DEF elapsed
    <3>3. 2 * Abs(Float(PitchCommand(swap.pitch[b], asked, elapsed), PitchUlp) - swap.pitch[b])
            <= 2 * PCMaxRat * Abs(elapsed) + PitchUlp
      BY <2>7
    <3>4. QED BY <3>1, <3>2, <3>3
  <2>13. QED BY <2>9, <2>10, <2>11, <2>12
<1>9. CASE ~Due(swap.time, d.torqueTime)
  <2>1. StateSound(d, forward) /\ swap.status # 0 BY <1>9
  <2>2. /\ e.torque = d.torque /\ e.torqueTime = d.torqueTime
        /\ e.pitch = d.pitch /\ e.pitchTime = d.pitchTime /\ e.integral = d.integral
    BY <1>2, <1>3, <1>5, <1>9 DEF TorqueMoves, PitchMoves
  <2>3. StateSound(e, forward) BY <1>1, <1>6, <2>1, <2>2 DEF StateSound
  <2>4. Abs(e.torque - d.torque) <= VSMaxRat * Abs(swap.time - d.torqueTime)
    <3>1. d.torque \in Int /\ VSMaxRat \in Nat BY <2>1, Constants DEF StateSound, TorqueSound
    <3>2. Abs(swap.time - d.torqueTime) \in Nat /\ Abs(d.torque - d.torque) = 0
      BY <1>1, <3>1 DEF Abs
    <3>3. VSMaxRat * Abs(swap.time - d.torqueTime) \in Nat BY <3>1, <3>2, ProductIsNat
    <3>4. QED BY <2>2, <3>2, <3>3
  <2>5. swap.pitch = RoundedPitch(d.pitch) => \A b \in Blades :
           2 * Abs(Float(e.pitch[b], PitchUlp) - swap.pitch[b])
              <= 2 * PCMaxRat * Abs(swap.time - d.pitchTime) + PitchUlp
    <3> SUFFICES ASSUME swap.pitch = RoundedPitch(d.pitch), NEW b \in Blades
                 PROVE  2 * Abs(Float(e.pitch[b], PitchUlp) - swap.pitch[b])
                           <= 2 * PCMaxRat * Abs(swap.time - d.pitchTime) + PitchUlp
      OBVIOUS
    <3>1. Float(e.pitch[b], PitchUlp) = swap.pitch[b] BY <2>2 DEF RoundedPitch
    <3>2. swap.pitch[b] \in Int BY FloatOfPitch DEF Uniform
    <3>3. /\ Abs(swap.pitch[b] - swap.pitch[b]) = 0
          /\ Abs(swap.time - d.pitchTime) \in Nat
      BY <1>1, <3>2 DEF Abs
    <3>4. 2 * PCMaxRat \in Nat /\ PitchUlp \in Nat BY Constants
    <3>5. 2 * PCMaxRat * Abs(swap.time - d.pitchTime) \in Nat BY <3>3, <3>4, ProductIsNat
    <3>6. QED BY <3>1, <3>3, <3>4, <3>5
  <2>6. QED BY <2>1, <2>2, <2>3, <2>4, <2>5
<1>10. QED BY <1>8, <1>9

-----------------------------------------------------------------------------
(* The calls of the turbines. *)

LEMMA InputFields ==
    ASSUME InputsAssumption, ControllerNumbers, ControllerConstants, NEW in \in Inputs
    PROVE  /\ in.actuator \in {"position", "velocity"}
           /\ in.pitch \in 0..MaxPit /\ in.controllerPitch \in 0..MaxPit
           /\ in.pitch \in Angle /\ in.controllerPitch \in Angle
           /\ in.controllerYaw \in Int
           /\ in.pitchOn \in BOOLEAN /\ in.torqueOn \in BOOLEAN
           /\ in.library \in BOOLEAN /\ in.checkpoint \in BOOLEAN
BY Constants DEF InputsAssumption, ControllerNumbers, Angle

LEMMA AssembledIsBuilt ==
    ASSUME InputsAssumption, ControllerNumbers, ControllerConstants, NEW in \in Inputs,
           NEW controller \in {"none", "called", "threw"}
    PROVE  LET r == Assembled(in, controller)
           IN  /\ r \in Built /\ r.controller = controller /\ r.in = in
               /\ r.unpacked = FALSE
               /\ r.bladePitch = [b \in Blades |-> in.pitch]
               /\ r.torque = 0 /\ r.torqueCommand = 0 /\ r.yaw = NacelleYaw
               /\ r.pitchCommand = in.controllerPitch
<1>1. NacelleYaw \in Int /\ 0 \in Number /\ 0 \in Angle BY Constants DEF Number, Angle
<1>2. QED BY <1>1, InputFields DEF Assembled, Built

LEMMA RoundedPitchType ==
    ASSUME ControllerNumbers, ControllerConstants, NEW p \in [Blades -> Angle]
    PROVE  RoundedPitch(p) \in [Blades -> Angle]
BY FloatOfAngle DEF RoundedPitch

LEMMA FloatOfNumber ==
    ASSUME ControllerNumbers, ControllerConstants, NEW x \in Number
    PROVE  Float(x, TorqueUlp) \in Number
BY Constants, FloatNear, FloatOfNaN DEF Number

LEMMA SwapIsSwapArray ==
    ASSUME InputsAssumption, ControllerNumbers, ControllerConstants, NEW r \in Built,
           NEW status \in {0, 1, -9}, NEW time \in 0..MaxTime, NEW speed \in Speeds
    PROVE  LET swap == Swap(r, status, time, speed)
           IN  /\ swap \in SwapArray
               /\ swap.status = status /\ swap.time = time /\ swap.speed = speed
               /\ swap.pitch = RoundedPitch(r.bladePitch) /\ swap.actuator = r.in.actuator
<1>1. MaxTime \in Nat BY DEF ControllerNumbers
<1>2. time \in Nat BY <1>1
<1>3. r.in \in Inputs /\ RoundedPitch(r.bladePitch) \in [Blades -> Angle]
  BY RoundedPitchType DEF Built
<1>4. r.in.actuator \in {"position", "velocity"} BY <1>3, InputFields
<1> DEFINE swap == Swap(r, status, time, speed)
<1>5. swap = [status |-> status, time |-> time, speed |-> speed,
              pitch |-> RoundedPitch(r.bladePitch), actuator |-> r.in.actuator]
  BY DEF Swap, RoundedPitch
<1> HIDE DEF swap
<1>6. QED BY <1>2, <1>3, <1>4, <1>5 DEF SwapArray, swap

\* Reading a checkpoint leaves numbers.
LEMMA UnpackedIsState ==
    ASSUME ControllerNumbers, ControllerConstants, CheckpointsAssumption,
           NEW d \in InternalState, NEW e \in UnpackInternalStateFromFile(d)
    PROVE  e \in InternalState
<1>1. PICK read \in FieldsRead, file \in Checkpoints :
        e = [f \in DOMAIN d |-> IF f \in read THEN file[f] ELSE d[f]]
  BY DEF UnpackInternalStateFromFile
<1> DEFINE Field(f) == IF f \in read THEN file[f] ELSE d[f]
<1>2. DOMAIN d = {"filtered", "integral", "torque", "time", "pitchTime", "torqueTime",
                  "pitch", "curve"}
  BY DEF InternalState
<1>3. e = [filtered |-> Field("filtered"), integral |-> Field("integral"),
           torque |-> Field("torque"), time |-> Field("time"),
           pitchTime |-> Field("pitchTime"), torqueTime |-> Field("torqueTime"),
           pitch |-> Field("pitch"), curve |-> Field("curve")]
  BY <1>1, <1>2
<1>4. file \in [filtered : SpeedFloor..SpeedCeiling, integral : Int, torque : Int,
                time : Int, pitchTime : Int, torqueTime : Int, pitch : [Blades -> Nat],
                curve : [slope15 : Int, slope25 : Int, sync : Int, trans : Int]]
  BY DEF CheckpointsAssumption
<1>5. file.filtered \in Int /\ file.pitch \in [Blades -> Angle] BY <1>4, Constants DEF Angle
<1>6. file.curve \in [slope15 : Int, slope25 : Int, sync : Int, trans : Int] BY <1>4
<1>7. QED
  <2>1. Field("filtered") \in Int BY <1>5 DEF InternalState
  <2>2. Field("integral") \in Int BY <1>4 DEF InternalState
  <2>3. Field("torque") \in Number BY <1>4 DEF InternalState, Number
  <2>4. Field("time") \in Int BY <1>4 DEF InternalState
  <2>5. Field("pitchTime") \in Int BY <1>4 DEF InternalState
  <2>6. Field("torqueTime") \in Int BY <1>4 DEF InternalState
  <2>7. Field("pitch") \in [Blades -> Angle] BY <1>5 DEF InternalState
  <2>8. Field("curve") \in [slope15 : Int, slope25 : Int, sync : Int, trans : Int]
    BY <1>6 DEF InternalState
  <2> HIDE DEF Field
  <2>9. QED
    BY <1>3, <2>1, <2>2, <2>3, <2>4, <2>5, <2>6, <2>7, <2>8 DEF InternalState

LEMMA OutputsType ==
    ASSUME ControllerNumbers, ControllerConstants, NEW d \in InternalState, NEW status
    PROVE  LET out == Outputs(d, status)
           IN  /\ out.pitch \in [Blades -> Angle] /\ out.torque \in Number
               /\ status # -9 => /\ out.pitch = RoundedPitch(d.pitch)
                                 /\ out.torque = Float(d.torque, TorqueUlp)
               /\ status = -9 => out.pitch = [b \in Blades |-> 0] /\ out.torque = 0
<1>1. 0 \in Angle /\ 0 \in Number BY DEF Angle, Number
<1>2. d.pitch \in [Blades -> Angle] /\ d.torque \in Number BY DEF InternalState
<1>3. RoundedPitch(d.pitch) \in [Blades -> Angle] BY <1>2, RoundedPitchType
<1>4. Float(d.torque, TorqueUlp) \in Number BY <1>2, FloatOfNumber
<1>5. QED BY <1>1, <1>3, <1>4 DEF Outputs, RoundedPitch

LEMMA CallsController ==
    ASSUME ControllerNumbers, ControllerConstants, NEW r \in Built, NEW swap \in SwapArray,
           NEW d \in InternalState, unpacked' \in BOOLEAN
    PROVE  LET c == CallController(r, swap, d)
               out == Outputs(d, swap.status)
           IN  /\ c \in Built
               /\ c.in = r.in /\ c.bladePitch = r.bladePitch /\ c.torque = r.torque
               /\ c.yaw = r.yaw /\ c.pitchOut = out.pitch /\ c.unpacked = unpacked'
               /\ c.controller = IF Fails(swap) THEN "threw" ELSE "called"
               /\ c.pitchCommand = IF ~Fails(swap) /\ r.in.pitchOn THEN out.pitch[1]
                                   ELSE r.pitchCommand
               /\ c.torqueCommand = IF ~Fails(swap) /\ r.in.torqueOn THEN out.torque
                                    ELSE r.torqueCommand
<1> DEFINE out == Outputs(d, swap.status)
           read == [r EXCEPT !.pitchOut = out.pitch, !.unpacked = unpacked']
           c == CallController(r, swap, d)
<1>1. /\ out.pitch \in [Blades -> Angle] /\ out.torque \in Number /\ 1 \in Blades
      /\ out.pitch[1] \in Angle
  BY OutputsType DEF Blades
<1>2. c = IF Fails(swap)
          THEN [read EXCEPT !.controller = "threw"]
          ELSE [read EXCEPT
                   !.controller = "called",
                   !.pitchCommand = IF r.in.pitchOn THEN out.pitch[1] ELSE @,
                   !.torqueCommand = IF r.in.torqueOn THEN out.torque ELSE @]
  BY Zenon DEF CallController
<1> HIDE DEF out, c
<1>3. /\ read \in Built /\ read.pitchOut = out.pitch /\ read.unpacked = unpacked'
      /\ read.in = r.in
      /\ read.bladePitch = r.bladePitch /\ read.torque = r.torque /\ read.yaw = r.yaw
      /\ read.pitchCommand = r.pitchCommand /\ read.torqueCommand = r.torqueCommand
  <2>1. [r EXCEPT !.pitchOut = out.pitch] \in Built BY <1>1 DEF Built
  <2>2. [[r EXCEPT !.pitchOut = out.pitch] EXCEPT !.unpacked = unpacked'] \in Built
    BY <2>1 DEF Built
  <2>3. read = [[r EXCEPT !.pitchOut = out.pitch] EXCEPT !.unpacked = unpacked'] OBVIOUS
  <2>4. QED BY <2>2, <2>3 DEF Built
<1> HIDE DEF read
<1>4. CASE Fails(swap)
  <2>1. c = [read EXCEPT !.controller = "threw"] BY <1>2, <1>4
  <2>2. /\ c \in Built /\ c.controller = "threw" /\ c.pitchOut = read.pitchOut
        /\ c.in = read.in /\ c.unpacked = read.unpacked
        /\ c.bladePitch = read.bladePitch /\ c.torque = read.torque /\ c.yaw = read.yaw
        /\ c.pitchCommand = read.pitchCommand /\ c.torqueCommand = read.torqueCommand
    BY <1>3, <2>1 DEF Built
  <2>3. QED BY <1>3, <1>4, <2>2 DEF c, out
<1>5. CASE ~Fails(swap)
  <2> DEFINE p == IF r.in.pitchOn THEN out.pitch[1] ELSE r.pitchCommand
             q == IF r.in.torqueOn THEN out.torque ELSE r.torqueCommand
  <2>1. c = [read EXCEPT !.controller = "called", !.pitchCommand = p, !.torqueCommand = q]
    <3>1. c = [read EXCEPT !.controller = "called",
                           !.pitchCommand = IF r.in.pitchOn THEN out.pitch[1]
                                            ELSE read.pitchCommand,
                           !.torqueCommand = IF r.in.torqueOn THEN out.torque
                                             ELSE read.torqueCommand]
      BY <1>2, <1>3, <1>5 DEF Built
    <3>2. QED BY <1>3, <3>1
  <2>2. p \in Angle /\ q \in Number BY <1>1 DEF Built
  <2> HIDE DEF p, q
  <2>3. [read EXCEPT !.controller = "called"] \in Built BY <1>3 DEF Built
  <2>4. [[read EXCEPT !.controller = "called"] EXCEPT !.pitchCommand = p] \in Built
    BY <2>2, <2>3 DEF Built
  <2>5. [[[read EXCEPT !.controller = "called"] EXCEPT !.pitchCommand = p]
           EXCEPT !.torqueCommand = q] \in Built
    BY <2>2, <2>4 DEF Built
  <2>6. c \in Built BY <2>1, <2>5
  <2>7. /\ c.controller = "called" /\ c.pitchOut = read.pitchOut /\ c.in = read.in
        /\ c.unpacked = read.unpacked
        /\ c.bladePitch = read.bladePitch /\ c.torque = read.torque /\ c.yaw = read.yaw
        /\ c.pitchCommand = p /\ c.torqueCommand = q
    BY <1>3, <2>1 DEF Built
  <2>8. QED BY <1>3, <1>5, <2>6, <2>7 DEF c, p, q, out
<1>6. QED BY <1>4, <1>5

\* The first call leaves the torque of an earlier controller; all else is set
\* from the turbine, and the control laws are due.
LEMMA FirstCallSetsUp ==
    ASSUME ControllerNumbers, ControllerConstants, NEW d \in InternalState,
           NEW swap \in SwapArray, Uniform(swap.pitch, PitchTop)
    PROVE  LET e == SetupFirstCall(d, swap)
           IN  /\ e \in InternalState /\ e.time = swap.time
               /\ Due(swap.time, e.torqueTime)
               /\ \A forward \in BOOLEAN : (forward => swap.speed >= 0) => Ready(e, forward)
<1> DEFINE e == SetupFirstCall(d, swap)
           integral == (swap.pitch[2] * (KK + swap.pitch[1])) \div (KK * KI)
           latest == swap.time - DT
<1>1. swap.pitch[1] \in Nat /\ swap.pitch[2] \in Nat BY FloatOfPitch DEF Uniform, Blades
<1>2. integral \in Int
  <2>1. KK + swap.pitch[1] \in Nat BY <1>1, Constants
  <2>2. swap.pitch[2] * (KK + swap.pitch[1]) \in Nat BY <1>1, <2>1, ProductIsNat
  <2>3. KK * KI \in Nat \ {0} BY Constants, SMT
  <2>4. QED BY <2>2, <2>3, QuotientIsNat
<1>3. /\ swap.speed \in Int /\ swap.time \in Nat /\ latest \in Int
      /\ swap.pitch \in [Blades -> Angle]
  <2>1. Speeds \subseteq Int /\ DT \in Int BY Constants
  <2>2. swap.speed \in Speeds /\ swap.time \in Nat /\ swap.pitch \in [Blades -> Angle]
    BY DEF SwapArray
  <2>3. swap.speed \in Int BY <2>1, <2>2
  <2>4. QED BY <2>1, <2>2, <2>3
<1>4. Due(swap.time, latest)
  <2>1. swap.time \div Drift \in Nat /\ DT \in Int BY <1>3, Constants, QuotientIsNat
  <2>2. QED BY <1>3, <2>1 DEF Due, Scaled
<1>5. /\ CurveSound(Curve)
      /\ Curve \in [slope15 : Int, slope25 : Int, sync : Int, trans : Int]
  BY Constants DEF CurveSound, Curve
<1> HIDE DEF integral, latest
<1>6. e = [d EXCEPT !.filtered = swap.speed, !.pitch = swap.pitch, !.integral = integral,
                    !.time = swap.time, !.curve = Curve,
                    !.pitchTime = latest, !.torqueTime = latest]
  BY DEF SetupFirstCall, integral, latest
<1> HIDE DEF e
<1>7. e = [filtered |-> swap.speed, integral |-> integral, torque |-> d.torque,
           time |-> swap.time, pitchTime |-> latest, torqueTime |-> latest,
           pitch |-> swap.pitch, curve |-> Curve]
  <2>1. DOMAIN d = {"filtered", "integral", "torque", "time", "pitchTime", "torqueTime",
                    "pitch", "curve"}
    BY DEF InternalState
  <2>2. QED BY <1>6, <2>1
<1>8. d.torque \in Number BY DEF InternalState
<1>9. e \in InternalState
  BY <1>2, <1>3, <1>5, <1>7, <1>8 DEF InternalState
<1>10. /\ e.time = swap.time /\ e.filtered = swap.speed /\ e.pitchTime = e.torqueTime
       /\ e.torqueTime = latest /\ e.pitch = swap.pitch /\ e.curve = Curve
  BY <1>7
<1>11. QED BY <1>1, <1>4, <1>5, <1>9, <1>10 DEF Ready, e

LEMMA MaxTqIsNat == ASSUME ControllerNumbers, ControllerConstants PROVE MaxTq \in Nat
<1>1. RtPwr \div RtGnSp \in Nat BY Constants, QuotientIsNat
<1>2. RtPwr \div RtGnSp <= MaxTq BY DEF ControllerConstants
<1>3. QED BY <1>1, <1>2, Constants

LEMMA BuiltOrNot ==
    ASSUME TypeOK, NEW t \in Turbines
    PROVE  /\ turbines[t].controller = "unbuilt" <=> turbines[t] = Unbuilt
           /\ turbines[t] # Unbuilt => turbines[t] \in Built
           /\ Unbuilt \notin Built
BY DEF TypeOK, Built, Unbuilt

\* What is left to show of a call: the new internal state and the controls of
\* the turbine that called.
LEMMA CallKeepsInv ==
    ASSUME ControlInv, NEW t \in Turbines, NEW d \in InternalState, NEW r \in Built,
           disc' = d, turbines' = [turbines EXCEPT ![t] = r], caller' = t,
           ~late, late' \in BOOLEAN, rewound' \in BOOLEAN, rewound => rewound',
           unpacked' \in BOOLEAN, r.unpacked = unpacked',
           ~late' /\ ~unpacked' => /\ StateSound(d, Forward')
                                   /\ ControlsSound(r, Forward')
                                   /\ r.controller = "called" => InStepWith(r, d),
           r.controller = "called" /\ ~unpacked' => r.in.actuator = "position",
           r.controller = "threw" => r.in.actuator = "velocity",
           StaysOut(r)
    PROVE  ControlInv'
<1>1. \A u \in Turbines : turbines'[u] = IF u = t THEN r ELSE turbines[u]
  BY DEF ControlInv, TypeOK
<1>2. TypeOK'
  <2>1. turbines' \in [Turbines -> {Unbuilt} \cup Built] BY DEF ControlInv, TypeOK
  <2>2. QED BY <2>1 DEF TypeOK
<1>3. OnlyPositionIsServed'
  BY <1>1 DEF ControlInv, OnlyPositionIsServed, Fresh, Controlled
<1>4. FailedControllerStaysOut'
  BY <1>1 DEF ControlInv, FailedControllerStaysOut, StaysOut
<1>5. Sound'
  <2> SUFFICES ASSUME ~late'
               PROVE  /\ ~unpacked' => StateSound(disc', Forward')
                      /\ \A u \in Turbines : turbines'[u] # Unbuilt /\ ~turbines'[u].unpacked
                            => ControlsSound(turbines'[u], Forward')
                      /\ \A u \in Turbines :
                            (turbines'[u].controller = "called" /\ ~turbines'[u].unpacked
                               /\ caller' = u)
                            => ~unpacked' /\ InStepWith(turbines'[u], disc')
    BY DEF Sound, Controlled, Fresh
  <2>1. Forward' => Forward BY DEF Forward
  <2>2. ASSUME NEW u \in Turbines, turbines'[u] # Unbuilt, ~turbines'[u].unpacked
        PROVE  ControlsSound(turbines'[u], Forward')
    <3>1. CASE u = t BY <1>1, <2>2, <3>1
    <3>2. CASE u # t
      <4>1. ControlsSound(turbines[u], Forward) BY <1>1, <2>2, <3>2 DEF ControlInv, Sound
      <4>2. QED BY <1>1, <2>1, <3>2, <4>1 DEF ControlsSound, TorqueSound
    <3>3. QED BY <3>1, <3>2
  <2>3. ASSUME NEW u \in Turbines, turbines'[u].controller = "called",
               ~turbines'[u].unpacked, caller' = u
        PROVE  ~unpacked' /\ InStepWith(turbines'[u], disc')
    <3>1. u = t /\ turbines'[u] = r BY <1>1, <2>3
    <3>2. QED BY <2>3, <3>1
  <2>4. QED BY <2>2, <2>3
<1>6. QED BY <1>2, <1>3, <1>4, <1>5 DEF ControlInv

LEMMA InitControlInv ==
    ASSUME ControllerNumbers, ControllerConstants, Init PROVE ControlInv
<1>1. 0 \in 0..MaxPit /\ 0 \in Number /\ 0 \in Angle /\ 0 <= MaxTq
  BY Constants, MaxTqIsNat DEF Number, Angle
<1>2. TypeOK
  <2>1. [b \in Blades |-> 0] \in [Blades -> Angle] BY <1>1
  <2>2. NoCurve \in [slope15 : Int, slope25 : Int, sync : Int, trans : Int] BY DEF NoCurve
  <2>3. disc \in InternalState BY <1>1, <2>1, <2>2 DEF Init, InternalState
  <2>4. turbines \in [Turbines -> {Unbuilt} \cup Built] BY DEF Init
  <2>5. QED BY <2>3, <2>4 DEF Init, TypeOK
<1>3. \A t \in Turbines : turbines[t] = Unbuilt /\ turbines[t].controller = "unbuilt"
  BY DEF Init, Unbuilt
<1>4. OnlyPositionIsServed /\ FailedControllerStaysOut
  BY <1>3 DEF OnlyPositionIsServed, FailedControllerStaysOut, Fresh, Controlled
<1>5. StateSound(disc, Forward)
  <2>1. CurveSound(NoCurve) BY DEF CurveSound, NoCurve
  <2>2. QED BY <1>1, <2>1 DEF Init, StateSound, TorqueSound, Uniform, Blades
<1>6. Sound BY <1>3, <1>5 DEF Sound, Controlled, Fresh
<1>7. QED BY <1>2, <1>4, <1>6 DEF ControlInv

LEMMA BuildKeepsInv ==
    ASSUME ControllerNumbers, ControllerConstants, InputsAssumption, ControlInv,
           NEW t \in Turbines, BuildWithoutLibrary(t)
    PROVE  ControlInv'
<1>1. PICK in \in {i \in Inputs : ~i.library} :
        turbines' = [turbines EXCEPT ![t] = Assembled(in, "none")]
  BY DEF BuildWithoutLibrary
<1> DEFINE r == Assembled(in, "none")
<1>2. /\ r \in Built /\ r.controller = "none" /\ r.in = in /\ r.unpacked = FALSE
      /\ r.bladePitch = [b \in Blades |-> in.pitch]
      /\ r.torque = 0 /\ r.torqueCommand = 0 /\ r.yaw = NacelleYaw
      /\ r.pitchCommand = in.controllerPitch
  BY AssembledIsBuilt
<1>3. turbines' = [turbines EXCEPT ![t] = r] BY <1>1
<1> HIDE DEF r
<1>4. \A u \in Turbines : turbines'[u] = IF u = t THEN r ELSE turbines[u]
  BY <1>3 DEF ControlInv, TypeOK
<1>5. disc' = disc /\ caller' = caller /\ late' = late /\ rewound' = rewound
      /\ unpacked' = unpacked
  BY DEF BuildWithoutLibrary
<1>6. TypeOK'
  <2>1. turbines' \in [Turbines -> {Unbuilt} \cup Built] BY <1>2, <1>3 DEF ControlInv, TypeOK
  <2>2. QED BY <1>5, <2>1 DEF ControlInv, TypeOK
<1>7. OnlyPositionIsServed'
  BY <1>2, <1>4 DEF ControlInv, OnlyPositionIsServed, Fresh, Controlled
<1>8. FailedControllerStaysOut'
  <2>1. ~ Accepted(in) BY DEF Accepted
  <2>2. StaysOut(r) BY <1>2, <2>1 DEF StaysOut
  <2>3. QED BY <1>4, <2>2 DEF ControlInv, FailedControllerStaysOut, StaysOut
<1>9. Sound'
  <2> SUFFICES ASSUME ~late'
               PROVE  /\ ~unpacked' => StateSound(disc', Forward')
                      /\ \A u \in Turbines : turbines'[u] # Unbuilt /\ ~turbines'[u].unpacked
                            => ControlsSound(turbines'[u], Forward')
                      /\ \A u \in Turbines :
                            (turbines'[u].controller = "called" /\ ~turbines'[u].unpacked
                               /\ caller' = u)
                            => ~unpacked' /\ InStepWith(turbines'[u], disc')
    BY DEF Sound, Controlled, Fresh
  <2>1. Forward' = Forward BY <1>5 DEF Forward
  <2>2. ~unpacked' => StateSound(disc', Forward') BY <1>5, <2>1 DEF ControlInv, Sound
  <2>3. ControlsSound(r, Forward)
    <3>1. TorqueSound(0, Forward, TorqueTop)
      <4>1. TorqueSound(0, Forward, MaxTq) BY MaxTqIsNat DEF TorqueSound
      <4>2. Float(0, TorqueUlp) = 0 BY Constants, FloatOfZero
      <4>3. QED BY <4>1, <4>2, FloatOfTorque
    <3>2. Uniform(r.bladePitch, PitchTop)
      <4>1. Uniform(r.bladePitch, MaxPit) BY <1>2, InputFields DEF Uniform, Blades
      <4>2. QED BY <4>1, UniformWidens
    <3>3. r.pitchCommand \in 0..PitchTop
      <4>1. in.controllerPitch \in 0..MaxPit BY InputFields
      <4>2. MaxPit \in Nat BY Constants
      <4>3. QED BY <1>2, <4>1, <4>2, FloatOfPitch
    <3>4. QED BY <1>2, <3>1, <3>2, <3>3 DEF ControlsSound
  <2>4. ASSUME NEW u \in Turbines, turbines'[u] # Unbuilt, ~turbines'[u].unpacked
        PROVE  ControlsSound(turbines'[u], Forward')
    BY <1>4, <1>5, <2>1, <2>3, <2>4 DEF ControlInv, Sound
  <2>5. ASSUME NEW u \in Turbines, turbines'[u].controller = "called",
               ~turbines'[u].unpacked, caller' = u
        PROVE  ~unpacked' /\ InStepWith(turbines'[u], disc')
    <3>1. u # t BY <1>2, <1>4, <2>5
    <3>2. turbines'[u] = turbines[u] BY <1>4, <3>1
    <3>3. ~unpacked /\ InStepWith(turbines[u], disc)
      BY <1>5, <2>5, <3>2 DEF ControlInv, Sound, Controlled, Fresh
    <3>4. QED BY <1>5, <3>2, <3>3
  <2>6. QED BY <2>2, <2>4, <2>5
<1>10. QED BY <1>6, <1>7, <1>8, <1>9 DEF ControlInv

\* The controls a successful call puts in force.
InForce(c, pitches) ==
    [c EXCEPT !.torque = c.torqueCommand, !.bladePitch = pitches,
              !.yaw = c.in.controllerYaw]

LEMMA ControlsTakenOver ==
    ASSUME InputsAssumption, ControllerNumbers, ControllerConstants, NEW c \in Built,
           NEW pitches \in [Blades -> Angle]
    PROVE  LET r == InForce(c, pitches)
           IN  /\ r \in Built
               /\ r.torque = c.torqueCommand /\ r.torqueCommand = c.torqueCommand
               /\ r.bladePitch = pitches /\ r.pitchCommand = c.pitchCommand
               /\ r.in = c.in /\ r.controller = c.controller /\ r.unpacked = c.unpacked
               /\ r.yaw = c.in.controllerYaw
<1> DEFINE r == InForce(c, pitches)
           yaw == c.in.controllerYaw
<1>1. yaw \in Int BY InputFields DEF Built
<1>2. r = [c EXCEPT !.torque = c.torqueCommand, !.bladePitch = pitches, !.yaw = yaw]
  BY DEF InForce
<1> HIDE DEF r
<1>3. [c EXCEPT !.torque = c.torqueCommand] \in Built BY DEF Built
<1>4. [[c EXCEPT !.torque = c.torqueCommand] EXCEPT !.bladePitch = pitches] \in Built
  BY <1>3 DEF Built
<1>5. [[[c EXCEPT !.torque = c.torqueCommand] EXCEPT !.bladePitch = pitches]
         EXCEPT !.yaw = yaw] \in Built
  BY <1>1, <1>4 DEF Built
<1>6. r \in Built BY <1>2, <1>5
<1>7. DOMAIN c = {"controller", "in", "unpacked", "pitchOut", "pitchCommand",
                  "torqueCommand", "bladePitch", "torque", "yaw"}
  BY DEF Built
<1>8. /\ r.torque = c.torqueCommand /\ r.torqueCommand = c.torqueCommand
      /\ r.bladePitch = pitches /\ r.pitchCommand = c.pitchCommand
      /\ r.in = c.in /\ r.controller = c.controller /\ r.unpacked = c.unpacked
      /\ r.yaw = c.in.controllerYaw
  BY <1>2, <1>7
<1>9. QED BY <1>6, <1>8 DEF r

\* The first call of a turbine: r as assembled, n what the call leaves of it.
FirstCall(in, time, speed) == Swap(Assembled(in, "called"), StartStatus(in), time, speed)

LEMMA InitializeStep ==
    ASSUME ControllerNumbers, ControllerConstants, InputsAssumption, CheckpointsAssumption,
           ControlInv, NEW t \in Turbines, InitializeController(t)
    PROVE  \E in \in Inputs, time \in 0..MaxTime, speed \in Speeds, d \in InternalState,
              n \in Built :
              LET swap == FirstCall(in, time, speed)
                  out == Outputs(d, swap.status)
              IN  /\ in.library /\ Served(t, time, TRUE) /\ unpacked' = in.checkpoint
                  /\ d \in DISCON(swap) /\ disc' = d
                  /\ turbines' = [turbines EXCEPT ![t] = n]
                  /\ n.in = in /\ n.unpacked = unpacked'
                  /\ n.controller = IF Fails(swap) THEN "threw" ELSE "called"
                  /\ n.pitchCommand = IF ~Fails(swap) /\ in.pitchOn THEN out.pitch[1]
                                      ELSE in.controllerPitch
                  /\ n.torqueCommand = IF ~Fails(swap) /\ in.torqueOn THEN out.torque ELSE 0
                  /\ n.torque = n.torqueCommand
                  /\ n.bladePitch = [b \in Blades |-> IF Fails(swap) THEN in.pitch
                                                      ELSE n.pitchCommand]
                  /\ n.yaw = IF Fails(swap) THEN NacelleYaw ELSE in.controllerYaw
<1>1. PICK in \in {i \in Inputs : i.library}, time \in StartTimes, speed \in Speeds :
        LET r == Assembled(in, "called")
            swap == Swap(r, StartStatus(in), time, speed)
        IN  /\ turbines[t].controller = "unbuilt"
            /\ Served(t, time, TRUE)
            /\ unpacked' = in.checkpoint
            /\ \E d \in DISCON(swap) :
                 LET c == CallController(r, swap, d)
                 IN  /\ disc' = d
                     /\ turbines' = [turbines EXCEPT ![t] =
                          IF c.controller = "threw" THEN c
                          ELSE [c EXCEPT !.torque = c.torqueCommand,
                                         !.bladePitch = [b \in Blades |-> c.pitchCommand],
                                         !.yaw = in.controllerYaw]]
  BY Zenon DEF InitializeController
<1> DEFINE r == Assembled(in, "called")
           swap == FirstCall(in, time, speed)
<1>2. in \in Inputs /\ in.library /\ time \in 0..MaxTime /\ speed \in Speeds
      /\ Served(t, time, TRUE) /\ unpacked' = in.checkpoint /\ unpacked' \in BOOLEAN
  <2>1. time \in 0..MaxTime BY DEF ControllerNumbers
  <2>2. in.checkpoint \in BOOLEAN BY InputFields
  <2>3. QED BY <1>1, <2>1, <2>2
<1>3. /\ r \in Built /\ r.in = in /\ r.bladePitch = [b \in Blades |-> in.pitch]
      /\ r.torque = 0 /\ r.torqueCommand = 0 /\ r.yaw = NacelleYaw
      /\ r.pitchCommand = in.controllerPitch
  BY <1>2, AssembledIsBuilt
<1>4. PICK d \in DISCON(swap) :
        LET c == CallController(r, swap, d)
        IN  /\ disc' = d
            /\ turbines' = [turbines EXCEPT ![t] =
                 IF c.controller = "threw" THEN c
                 ELSE [c EXCEPT !.torque = c.torqueCommand,
                                !.bladePitch = [b \in Blades |-> c.pitchCommand],
                                !.yaw = in.controllerYaw]]
  BY <1>1 DEF FirstCall
<1>5. /\ swap \in SwapArray /\ swap.status \in {0, -9}
      /\ Uniform(swap.pitch, PitchTop)
  <2>1. StartStatus(in) \in {0, -9} BY DEF StartStatus
  <2>2. /\ swap \in SwapArray /\ swap.status = StartStatus(in)
        /\ swap.pitch = RoundedPitch(r.bladePitch)
    BY <1>2, <1>3, <2>1, SwapIsSwapArray DEF FirstCall
  <2>3. Uniform(r.bladePitch, PitchTop)
    <3>1. Uniform(r.bladePitch, MaxPit) BY <1>2, <1>3, InputFields DEF Uniform, Blades
    <3>2. QED BY <3>1, UniformWidens
  <2>4. QED BY <2>1, <2>2, <2>3, RoundedPitchIsUniform
<1> HIDE DEF r, swap
<1>6. d \in InternalState
  <2>1. disc \in InternalState BY DEF ControlInv, TypeOK
  <2>2. CASE swap.status = -9
    <3>1. d \in UnpackInternalStateFromFile(disc) BY <2>2 DEF DISCON
    <3>2. QED BY <2>1, <3>1, UnpackedIsState
  <2>3. CASE swap.status = 0
    <3> DEFINE start == SetupFirstCall(disc, swap)
    <3>1. d \in ComputeControl(start, swap) BY <2>3 DEF DISCON
    <3>2. start \in InternalState BY <1>5, <2>1, FirstCallSetsUp
    <3> HIDE DEF start
    <3>3. QED BY <1>5, <3>1, <3>2, OnePass
  <2>4. QED BY <1>5, <2>2, <2>3
<1> DEFINE c == CallController(r, swap, d)
           pitches == [b \in Blades |-> c.pitchCommand]
           n == IF c.controller = "threw" THEN c ELSE InForce(c, pitches)
           out == Outputs(d, swap.status)
<1>7. /\ c \in Built
      /\ c.in = in /\ c.bladePitch = [b \in Blades |-> in.pitch] /\ c.torque = 0
      /\ c.yaw = NacelleYaw /\ c.unpacked = unpacked'
      /\ c.controller = IF Fails(swap) THEN "threw" ELSE "called"
      /\ c.pitchCommand = IF ~Fails(swap) /\ in.pitchOn THEN out.pitch[1] ELSE in.controllerPitch
      /\ c.torqueCommand = IF ~Fails(swap) /\ in.torqueOn THEN out.torque ELSE 0
  BY <1>2, <1>3, <1>5, <1>6, CallsController
<1>8. disc' = d /\ turbines' = [turbines EXCEPT ![t] = n] BY <1>4, <1>7, Zenon DEF InForce
<1> HIDE DEF c, out
<1>9. pitches \in [Blades -> Angle] BY <1>7 DEF Built
<1>10. /\ n \in Built /\ n.in = in /\ n.unpacked = unpacked'
       /\ n.controller = IF Fails(swap) THEN "threw" ELSE "called"
       /\ n.pitchCommand = c.pitchCommand /\ n.torqueCommand = c.torqueCommand
       /\ n.torque = n.torqueCommand
       /\ n.bladePitch = [b \in Blades |-> IF Fails(swap) THEN in.pitch ELSE n.pitchCommand]
       /\ n.yaw = IF Fails(swap) THEN NacelleYaw ELSE in.controllerYaw
  <2>1. CASE Fails(swap)
    <3>1. n = c BY <1>7, <2>1
    <3> HIDE DEF n
    <3>2. QED BY <1>7, <2>1, <3>1
  <2>2. CASE ~Fails(swap)
    <3> DEFINE m == InForce(c, pitches)
    <3>1. n = m BY <1>7, <2>2
    <3>2. /\ m \in Built
          /\ m.torque = c.torqueCommand /\ m.torqueCommand = c.torqueCommand
          /\ m.bladePitch = pitches /\ m.pitchCommand = c.pitchCommand
          /\ m.in = c.in /\ m.controller = c.controller /\ m.unpacked = c.unpacked
          /\ m.yaw = c.in.controllerYaw
      BY <1>7, <1>9, ControlsTakenOver
    <3> HIDE DEF n, m
    <3>3. n.bladePitch = [b \in Blades |-> n.pitchCommand] BY <3>1, <3>2
    <3>4. QED BY <1>7, <2>2, <3>1, <3>2, <3>3
  <2>3. QED BY <2>1, <2>2
<1> HIDE DEF n
<1>11. /\ n.pitchCommand = IF ~Fails(swap) /\ in.pitchOn THEN out.pitch[1]
                           ELSE in.controllerPitch
       /\ n.torqueCommand = IF ~Fails(swap) /\ in.torqueOn THEN out.torque ELSE 0
  BY <1>7, <1>10
<1>12. QED BY <1>2, <1>4, <1>6, <1>8, <1>10, <1>11 DEF swap, out

\* A start from a checkpoint: numbers nobody vouches for, zero commands.
LEMMA CheckpointKeepsInv ==
    ASSUME ControllerNumbers, ControllerConstants, InputsAssumption, ControlInv,
           NEW t \in Turbines, NEW in \in Inputs, NEW time \in 0..MaxTime,
           NEW speed \in Speeds, NEW d \in InternalState, NEW n \in Built,
           in.library, in.checkpoint, Served(t, time, TRUE), unpacked' = TRUE,
           disc' = d, turbines' = [turbines EXCEPT ![t] = n],
           n.in = in, n.unpacked = TRUE, n.controller = "called",
           n.pitchCommand = IF in.pitchOn THEN 0 ELSE in.controllerPitch,
           n.torque = 0, n.bladePitch = [b \in Blades |-> n.pitchCommand],
           n.yaw = in.controllerYaw
    PROVE  ControlInv'
<1>1. /\ ~late /\ caller' = t /\ late' \in BOOLEAN
      /\ rewound' \in BOOLEAN /\ (rewound => rewound')
  BY DEF Served, ControlInv, TypeOK
<1>2. StaysOut(n) BY DEF StaysOut, Accepted
<1>3. QED BY <1>1, <1>2, CallKeepsInv

\* Any other first call leaves a sound internal state, whatever there was.
LEMMA FirstPassIsSound ==
    ASSUME ControllerNumbers, ControllerConstants, InputsAssumption, ControlInv,
           NEW t \in Turbines, NEW in \in Inputs, NEW time \in 0..MaxTime,
           NEW speed \in Speeds, ~in.checkpoint, Served(t, time, TRUE), ~late',
           NEW d \in DISCON(FirstCall(in, time, speed))
    PROVE  StateSound(d, Forward')
<1> DEFINE r == Assembled(in, "called")
           swap == FirstCall(in, time, speed)
           start == SetupFirstCall(disc, swap)
           forward == Forward'
<1>1. r \in Built /\ r.bladePitch = [b \in Blades |-> in.pitch] BY AssembledIsBuilt
<1>2. /\ swap \in SwapArray /\ swap.status = 0 /\ swap.time = time /\ swap.speed = speed
      /\ swap.pitch = RoundedPitch(r.bladePitch)
  BY <1>1, SwapIsSwapArray DEF FirstCall, StartStatus
<1>3. Uniform(swap.pitch, PitchTop) /\ RoundedPitch(swap.pitch) = swap.pitch
  <2>1. Uniform(r.bladePitch, MaxPit) BY <1>1, InputFields DEF Uniform, Blades
  <2>2. Uniform(r.bladePitch, PitchTop) BY <2>1, UniformWidens
  <2>3. QED BY <1>2, <2>2, RoundedPitchIsUniform
<1>4. disc \in InternalState BY DEF ControlInv, TypeOK
<1> HIDE DEF r, swap
<1>5. d \in ComputeControl(start, swap) BY <1>2 DEF DISCON, swap
<1>6. /\ start \in InternalState /\ start.time = swap.time
      /\ Due(swap.time, start.torqueTime)
      /\ \A f \in BOOLEAN : (f => swap.speed >= 0) => Ready(start, f)
  BY <1>2, <1>3, <1>4, FirstCallSetsUp
<1> HIDE DEF start
<1>7. forward \in BOOLEAN /\ (forward => swap.speed >= 0)
  BY <1>2 DEF Forward, TypeOK, Served
<1> HIDE DEF forward
<1>8. swap.time < Horizon /\ start.time <= swap.time
  <2>1. time \in Nat /\ Horizon \in Nat
    <3>1. MaxTime \in Nat /\ DT \in Nat /\ Drift \in Nat BY Constants
    <3>2. QED BY <3>1, ProductIsNat DEF Horizon
  <2>2. ~ (time >= Horizon) BY DEF Served
  <2>3. QED BY <1>2, <1>6, <2>1, <2>2
<1>9. StateSound(d, forward)
  BY <1>2, <1>3, <1>5, <1>6, <1>7, <1>8, PassIsSound
<1>10. QED BY <1>9 DEF forward

LEMMA InitializeKeepsInv ==
    ASSUME ControllerNumbers, ControllerConstants, InputsAssumption, CheckpointsAssumption,
           ControlInv, NEW t \in Turbines, InitializeController(t)
    PROVE  ControlInv'
<1>1. PICK in \in Inputs, time \in 0..MaxTime, speed \in Speeds, d \in InternalState,
           n \in Built :
              LET swap == FirstCall(in, time, speed)
                  out == Outputs(d, swap.status)
              IN  /\ in.library /\ Served(t, time, TRUE) /\ unpacked' = in.checkpoint
                  /\ d \in DISCON(swap) /\ disc' = d
                  /\ turbines' = [turbines EXCEPT ![t] = n]
                  /\ n.in = in /\ n.unpacked = unpacked'
                  /\ n.controller = IF Fails(swap) THEN "threw" ELSE "called"
                  /\ n.pitchCommand = IF ~Fails(swap) /\ in.pitchOn THEN out.pitch[1]
                                      ELSE in.controllerPitch
                  /\ n.torqueCommand = IF ~Fails(swap) /\ in.torqueOn THEN out.torque ELSE 0
                  /\ n.torque = n.torqueCommand
                  /\ n.bladePitch = [b \in Blades |-> IF Fails(swap) THEN in.pitch
                                                      ELSE n.pitchCommand]
                  /\ n.yaw = IF Fails(swap) THEN NacelleYaw ELSE in.controllerYaw
  BY InitializeStep
<1> DEFINE swap == FirstCall(in, time, speed)
           out == Outputs(d, swap.status)
<1>2. /\ swap.status = StartStatus(in) /\ swap.actuator = in.actuator
  <2>1. Assembled(in, "called") \in Built /\ Assembled(in, "called").in = in
    BY AssembledIsBuilt
  <2>2. StartStatus(in) \in {0, -9} BY DEF StartStatus
  <2>3. QED BY <2>1, <2>2, SwapIsSwapArray DEF FirstCall
<1>3. /\ swap.status # -9 => /\ out.pitch = RoundedPitch(d.pitch)
                             /\ out.torque = Float(d.torque, TorqueUlp)
      /\ swap.status = -9 => out.pitch = [b \in Blades |-> 0] /\ out.torque = 0
  BY OutputsType
<1>4. /\ in.actuator \in {"position", "velocity"} /\ in.pitch \in 0..MaxPit
      /\ in.controllerPitch \in 0..MaxPit /\ in.checkpoint \in BOOLEAN
  BY InputFields
<1>5. /\ ~late /\ caller' = t /\ late' \in BOOLEAN
      /\ rewound' \in BOOLEAN /\ (rewound => rewound')
  BY <1>1 DEF Served, ControlInv, TypeOK
<1>6. 1 \in Blades BY DEF Blades
<1> HIDE DEF swap, out
<1>7. CASE in.checkpoint
  <2>1. swap.status = -9 /\ ~Fails(swap) BY <1>2, <1>7 DEF StartStatus, Fails
  <2>2. out.pitch[1] = 0 /\ out.torque = 0 BY <1>3, <1>6, <2>1
  <2>3. n.pitchCommand = IF in.pitchOn THEN 0 ELSE in.controllerPitch
    BY <1>1, <2>1, <2>2 DEF swap, out
  <2>4. n.torque = 0 BY <1>1, <2>1, <2>2 DEF swap, out
  <2>5. n.bladePitch = [b \in Blades |-> n.pitchCommand] BY <1>1, <2>1 DEF swap
  <2>6. n.yaw = in.controllerYaw /\ n.controller = "called" BY <1>1, <2>1 DEF swap
  <2>7. unpacked' = TRUE /\ n.unpacked = TRUE BY <1>1, <1>4, <1>7
  <2>8. /\ in.library /\ Served(t, time, TRUE)
        /\ disc' = d /\ turbines' = [turbines EXCEPT ![t] = n] /\ n.in = in
    BY <1>1
  <2>9. QED BY <1>7, <2>3, <2>4, <2>5, <2>6, <2>7, <2>8, CheckpointKeepsInv
<1>8. CASE ~in.checkpoint
  <2>1. swap.status # -9 /\ (Fails(swap) <=> in.actuator = "velocity")
    BY <1>2, <1>4, <1>8 DEF StartStatus, Fails
  <2>2. out.pitch = RoundedPitch(d.pitch) /\ out.torque = Float(d.torque, TorqueUlp)
    BY <1>3, <2>1
  <2>3. ~late' => StateSound(d, Forward') BY <1>1, <1>8, FirstPassIsSound
  <2>4. unpacked' = FALSE /\ n.unpacked = unpacked' BY <1>1, <1>4, <1>8
  <2>5. /\ n.in = in /\ n.torque = n.torqueCommand
        /\ n.controller = IF Fails(swap) THEN "threw" ELSE "called"
        /\ n.pitchCommand = IF ~Fails(swap) /\ in.pitchOn THEN out.pitch[1]
                            ELSE in.controllerPitch
        /\ n.torqueCommand = IF ~Fails(swap) /\ in.torqueOn THEN out.torque ELSE 0
        /\ n.bladePitch = [b \in Blades |-> IF Fails(swap) THEN in.pitch ELSE n.pitchCommand]
        /\ n.yaw = IF Fails(swap) THEN NacelleYaw ELSE in.controllerYaw
    BY <1>1 DEF swap, out
  <2>6. ~late' => ControlsSound(n, Forward')
    <3> SUFFICES ASSUME ~late' PROVE ControlsSound(n, Forward') OBVIOUS
    <3>1. /\ TorqueSound(d.torque, Forward', MaxTq) /\ Uniform(d.pitch, MaxPit)
      BY <2>3 DEF StateSound
    <3>2. TorqueSound(out.torque, Forward', TorqueTop) BY <2>2, <3>1, FloatOfTorque
    <3>3. TorqueSound(0, Forward', TorqueTop)
      <4>1. TorqueSound(0, Forward', MaxTq) BY MaxTqIsNat DEF TorqueSound
      <4>2. Float(0, TorqueUlp) = 0 BY Constants, FloatOfZero
      <4>3. QED BY <4>1, <4>2, FloatOfTorque
    <3>4. TorqueSound(n.torque, Forward', TorqueTop) BY <2>5, <3>2, <3>3
    <3>5. out.pitch[1] \in 0..PitchTop
      <4>1. Uniform(RoundedPitch(d.pitch), PitchTop)
        BY <3>1, UniformWidens, RoundedPitchIsUniform
      <4>2. QED BY <1>6, <2>2, <4>1 DEF Uniform
    <3>6. in.controllerPitch \in 0..PitchTop /\ in.pitch \in 0..PitchTop
      <4>1. MaxPit \in Nat BY Constants
      <4>2. QED BY <1>4, <4>1, FloatOfPitch
    <3>7. n.pitchCommand \in 0..PitchTop BY <2>5, <3>5, <3>6
    <3>8. Uniform(n.bladePitch, PitchTop) BY <1>6, <2>5, <3>6, <3>7 DEF Uniform
    <3>9. QED BY <2>5, <3>4, <3>7, <3>8 DEF ControlsSound
  <2>7. ~late' /\ n.controller = "called" => InStepWith(n, d)
    <3> SUFFICES ASSUME ~late', n.controller = "called" PROVE InStepWith(n, d) OBVIOUS
    <3>1. ~Fails(swap) BY <2>5
    <3>2. in.torqueOn => n.torque = Float(d.torque, TorqueUlp) BY <2>2, <2>5, <3>1
    <3>3. ASSUME in.pitchOn PROVE n.bladePitch = RoundedPitch(d.pitch)
      <4>1. n.pitchCommand = Float(d.pitch[1], PitchUlp)
        BY <1>6, <2>2, <2>5, <3>1, <3>3 DEF RoundedPitch
      <4>2. \A b \in Blades : d.pitch[b] = d.pitch[1] BY <2>3 DEF StateSound, Uniform
      <4>3. n.bladePitch = [b \in Blades |-> n.pitchCommand] BY <2>5, <3>1
      <4>4. QED BY <4>1, <4>2, <4>3 DEF RoundedPitch
    <3>4. QED BY <2>5, <3>2, <3>3 DEF InStepWith
  <2>8. StaysOut(n)
    <3>1. ~ Accepted(in) BY <1>8 DEF Accepted
    <3>2. QED BY <2>1, <2>5, <3>1 DEF StaysOut
  <2>9. /\ n.controller = "called" => n.in.actuator = "position"
        /\ n.controller = "threw" => n.in.actuator = "velocity"
    BY <1>4, <2>1, <2>5
  <2>10. disc' = d /\ turbines' = [turbines EXCEPT ![t] = n] BY <1>1
  <2>11. QED BY <1>5, <2>3, <2>4, <2>6, <2>7, <2>8, <2>9, <2>10, CallKeepsInv
<1>9. QED BY <1>7, <1>8

\* A later call: DISCON makes one pass over the shared state with the pitches
\* in force, and hands its commands to a turbine whose actuator is positional.
Pass(t, time, d) ==
    \E speed \in Speeds : d \in ComputeControl(disc, Swap(turbines[t], 1, time, speed))

TakenOver(old, d, n) ==
    /\ n.in = old.in
    /\ n.controller = IF old.in.actuator = "position" THEN "called" ELSE "threw"
    /\ old.in.actuator = "velocity" =>
          /\ n.torque = old.torque /\ n.torqueCommand = old.torqueCommand
          /\ n.pitchCommand = old.pitchCommand
          /\ n.bladePitch = old.bladePitch /\ n.yaw = old.yaw
    /\ old.in.actuator = "position" =>
          /\ n.torqueCommand = IF old.in.torqueOn THEN Float(d.torque, TorqueUlp)
                               ELSE old.torqueCommand
          /\ n.pitchCommand = IF old.in.pitchOn THEN RoundedPitch(d.pitch)[1]
                              ELSE old.pitchCommand
          /\ n.torque = n.torqueCommand
          /\ n.bladePitch \in {[b \in Blades |-> n.pitchCommand], RoundedPitch(d.pitch)}

LEMMA ApplyStep ==
    ASSUME ControllerNumbers, ControllerConstants, InputsAssumption, ControlInv,
           NEW t \in Turbines, ApplyController(t)
    PROVE  \E time \in 0..MaxTime, d \in InternalState, n \in Built :
              /\ disc' = d /\ turbines' = [turbines EXCEPT ![t] = n]
              /\ Served(t, time, FALSE) /\ Pass(t, time, d)
              /\ unpacked' = (unpacked \/ turbines[t].unpacked) /\ n.unpacked = unpacked'
              /\ turbines[t] \in Built /\ TakenOver(turbines[t], d, n)
<1>1. PICK time \in 0..MaxTime, speed \in Speeds :
        /\ turbines[t].controller \in {"called", "threw"}
        /\ Served(t, time, FALSE)
        /\ unpacked' = (unpacked \/ turbines[t].unpacked)
        /\ LET swap == Swap(turbines[t], 1, time, speed)
           IN  \E d \in DISCON(swap) :
                 LET c == CallController(turbines[t], swap, d)
                 IN  /\ disc' = d
                     /\ turbines' = [turbines EXCEPT ![t] =
                          IF c.controller = "threw" THEN c
                          ELSE [c EXCEPT !.torque = c.torqueCommand,
                                         !.bladePitch = PitchInForce(c),
                                         !.yaw = c.in.controllerYaw]]
  BY Zenon DEF ApplyController
<1> DEFINE old == turbines[t]
           swap == Swap(old, 1, time, speed)
<1>2. PICK d \in DISCON(swap) :
        LET c == CallController(turbines[t], swap, d)
        IN  /\ disc' = d
            /\ turbines' = [turbines EXCEPT ![t] =
                 IF c.controller = "threw" THEN c
                 ELSE [c EXCEPT !.torque = c.torqueCommand,
                                !.bladePitch = PitchInForce(c),
                                !.yaw = c.in.controllerYaw]]
  BY <1>1
<1>3. old \in Built
  <2>1. old # Unbuilt BY <1>1 DEF Unbuilt
  <2>2. QED BY <2>1, BuiltOrNot DEF ControlInv
<1>4. old.in \in Inputs /\ old.in.actuator \in {"position", "velocity"}
  <2>1. old.in \in Inputs BY <1>3 DEF Built
  <2>2. QED BY <2>1, InputFields
<1>5. unpacked' \in BOOLEAN
  <2>1. unpacked \in BOOLEAN /\ old.unpacked \in BOOLEAN BY <1>3 DEF ControlInv, TypeOK, Built
  <2>2. QED BY <1>1, <2>1
<1> DEFINE c == CallController(old, swap, d)
           pitches == PitchInForce(c)
           n == IF c.controller = "threw" THEN c ELSE InForce(c, pitches)
<1>6. disc' = d /\ turbines' = [turbines EXCEPT ![t] = n] BY <1>2, Zenon DEF InForce
<1> HIDE DEF old
<1>7. /\ swap \in SwapArray /\ swap.status = 1 /\ swap.actuator = old.in.actuator
  BY <1>3, SwapIsSwapArray
<1>8. d \in ComputeControl(disc, swap) BY <1>7 DEF DISCON
<1>9. Pass(t, time, d) BY <1>8 DEF Pass, old
<1> HIDE DEF swap
<1>10. d \in InternalState BY <1>7, <1>8, OnePass DEF ControlInv, TypeOK
<1>11. /\ c \in Built
       /\ c.in = old.in /\ c.bladePitch = old.bladePitch /\ c.torque = old.torque
       /\ c.yaw = old.yaw /\ c.pitchOut = RoundedPitch(d.pitch) /\ c.unpacked = unpacked'
       /\ c.controller = IF Fails(swap) THEN "threw" ELSE "called"
       /\ c.pitchCommand = IF ~Fails(swap) /\ old.in.pitchOn THEN RoundedPitch(d.pitch)[1]
                           ELSE old.pitchCommand
       /\ c.torqueCommand = IF ~Fails(swap) /\ old.in.torqueOn THEN Float(d.torque, TorqueUlp)
                            ELSE old.torqueCommand
  <2> DEFINE out == Outputs(d, swap.status)
  <2>1. swap.status # -9 BY <1>7
  <2>2. out.pitch = RoundedPitch(d.pitch) /\ out.torque = Float(d.torque, TorqueUlp)
    BY <1>10, <2>1, OutputsType
  <2>3. /\ c \in Built
        /\ c.in = old.in /\ c.bladePitch = old.bladePitch /\ c.torque = old.torque
        /\ c.yaw = old.yaw /\ c.pitchOut = out.pitch /\ c.unpacked = unpacked'
        /\ c.controller = IF Fails(swap) THEN "threw" ELSE "called"
        /\ c.pitchCommand = IF ~Fails(swap) /\ old.in.pitchOn THEN out.pitch[1]
                            ELSE old.pitchCommand
        /\ c.torqueCommand = IF ~Fails(swap) /\ old.in.torqueOn THEN out.torque
                             ELSE old.torqueCommand
    BY <1>3, <1>5, <1>7, <1>10, CallsController
  <2> HIDE DEF out, c
  <2>4. QED BY <2>2, <2>3
<1> HIDE DEF c
<1>12. Fails(swap) <=> old.in.actuator = "velocity" BY <1>4, <1>7 DEF Fails
<1>13. pitches \in {[b \in Blades |-> c.pitchCommand], RoundedPitch(d.pitch)}
  BY <1>11 DEF PitchInForce
<1>14. pitches \in [Blades -> Angle]
  <2>1. c.pitchCommand \in Angle BY <1>11 DEF Built
  <2>2. RoundedPitch(d.pitch) \in [Blades -> Angle]
    BY <1>10, RoundedPitchType DEF InternalState
  <2>3. QED BY <1>13, <2>1, <2>2
<1> HIDE DEF pitches
<1>15. n \in Built /\ TakenOver(old, d, n) /\ n.unpacked = unpacked'
  <2>1. CASE old.in.actuator = "velocity"
    <3>1. c.controller = "threw" BY <1>11, <1>12, <2>1
    <3>2. n = c BY <3>1
    <3> HIDE DEF n
    <3>3. QED BY <1>11, <1>12, <2>1, <3>1, <3>2 DEF TakenOver
  <2>2. CASE old.in.actuator = "position"
    <3>1. c.controller = "called" BY <1>11, <1>12, <2>2
    <3>2. n = InForce(c, pitches) BY <3>1
    <3>3. c \in Built BY <1>11
    <3> DEFINE m == InForce(c, pitches)
    <3>4. /\ m \in Built
          /\ m.torque = c.torqueCommand /\ m.torqueCommand = c.torqueCommand
          /\ m.bladePitch = pitches /\ m.pitchCommand = c.pitchCommand
          /\ m.in = c.in /\ m.controller = c.controller /\ m.unpacked = c.unpacked
      BY <1>14, <3>3, ControlsTakenOver
    <3> HIDE DEF n, m
    <3>5. n = m BY <3>2 DEF m
    <3>6. /\ n.torqueCommand = IF old.in.torqueOn THEN Float(d.torque, TorqueUlp)
                               ELSE old.torqueCommand
          /\ n.pitchCommand = IF old.in.pitchOn THEN RoundedPitch(d.pitch)[1]
                              ELSE old.pitchCommand
      BY <1>11, <1>12, <2>2, <3>4, <3>5
    <3>7. n.in = old.in /\ n.controller = "called" /\ n.unpacked = unpacked'
      BY <1>11, <3>1, <3>4, <3>5
    <3>8. QED BY <1>13, <2>2, <3>4, <3>5, <3>6, <3>7 DEF TakenOver
  <2>3. QED BY <1>4, <2>1, <2>2
<1> HIDE DEF n
<1>16. QED BY <1>1, <1>3, <1>6, <1>9, <1>10, <1>15 DEF old

\* Before Horizon that pass starts from a sound state with sound pitches.
LEMMA SharedPassIsSound ==
    ASSUME ControllerNumbers, ControllerConstants, InputsAssumption, ControlInv,
           NEW t \in Turbines, NEW time \in 0..MaxTime, NEW d \in InternalState,
           Served(t, time, FALSE), Pass(t, time, d), turbines[t] \in Built, ~late',
           ~unpacked, ~turbines[t].unpacked
    PROVE  /\ StateSound(d, Forward') /\ d.time = time
           /\ Abs(d.torque - disc.torque) <= VSMaxRat * Abs(time - disc.torqueTime)
           /\ turbines[t].bladePitch = RoundedPitch(disc.pitch) => \A b \in Blades :
                 2 * Abs(RoundedPitch(d.pitch)[b] - turbines[t].bladePitch[b])
                    <= 2 * PCMaxRat * Abs(time - disc.pitchTime) + PitchUlp
           /\ time <= disc.torqueTime =>
                 d.torque = disc.torque /\ d.pitch = disc.pitch /\ d.integral = disc.integral
<1> DEFINE old == turbines[t]
           forward == Forward'
<1>1. PICK speed \in Speeds : d \in ComputeControl(disc, Swap(old, 1, time, speed))
  BY DEF Pass
<1> DEFINE swap == Swap(old, 1, time, speed)
<1>2. /\ swap \in SwapArray /\ swap.status = 1 /\ swap.time = time /\ swap.speed = speed
      /\ swap.pitch = RoundedPitch(old.bladePitch)
  BY SwapIsSwapArray
<1>3. d \in ComputeControl(disc, swap) BY <1>1
<1> HIDE DEF swap
<1>4. disc \in InternalState BY DEF ControlInv, TypeOK
<1>5. /\ ~late /\ ~ (time >= Horizon)
      /\ rewound' = (rewound \/ time < disc.time) /\ rewound \in BOOLEAN
  BY DEF Served, ControlInv, TypeOK
<1>6. forward \in BOOLEAN /\ (forward => Forward /\ Speeds \subseteq Nat /\ ~ (time < disc.time))
  BY <1>5 DEF Forward
<1>7. StateSound(disc, forward)
  <2>1. StateSound(disc, Forward) BY <1>5 DEF ControlInv, Sound
  <2>2. QED BY <1>6, <2>1 DEF StateSound, TorqueSound
<1>8. /\ Uniform(old.bladePitch, PitchTop)
      /\ Uniform(swap.pitch, PitchTop) /\ RoundedPitch(swap.pitch) = swap.pitch
  <2>1. old # Unbuilt BY BuiltOrNot DEF ControlInv
  <2>2. ControlsSound(old, Forward) BY <1>5, <2>1 DEF ControlInv, Sound
  <2>3. Uniform(old.bladePitch, PitchTop) BY <2>2 DEF ControlsSound
  <2>4. QED BY <1>2, <2>3, RoundedPitchIsUniform
<1> HIDE DEF forward
<1>9. /\ time \in Nat /\ Horizon \in Nat /\ disc.time \in Int
  <2>1. MaxTime \in Nat /\ DT \in Nat /\ Drift \in Nat BY Constants
  <2>2. QED BY <1>4, <2>1, ProductIsNat DEF Horizon, InternalState
<1>10. swap.time < Horizon /\ (forward => swap.speed >= 0 /\ disc.time <= swap.time)
  BY <1>2, <1>5, <1>6, <1>9
<1>11. /\ StateSound(d, forward)
       /\ swap.status # 0 =>
             Abs(d.torque - disc.torque) <= VSMaxRat * Abs(swap.time - disc.torqueTime)
       /\ swap.pitch = RoundedPitch(disc.pitch) => \A b \in Blades :
             2 * Abs(Float(d.pitch[b], PitchUlp) - swap.pitch[b])
                <= 2 * PCMaxRat * Abs(swap.time - disc.pitchTime) + PitchUlp
       /\ swap.status # 0 /\ swap.time <= disc.torqueTime =>
             d.torque = disc.torque /\ d.pitch = disc.pitch /\ d.integral = disc.integral
  BY <1>2, <1>3, <1>4, <1>6, <1>7, <1>8, <1>10, PassIsSound
<1>12. d.time = time BY <1>2, <1>3, <1>4, OnePass
<1>13. old.bladePitch = RoundedPitch(disc.pitch) => \A b \in Blades :
         2 * Abs(RoundedPitch(d.pitch)[b] - old.bladePitch[b])
            <= 2 * PCMaxRat * Abs(time - disc.pitchTime) + PitchUlp
  <2> SUFFICES ASSUME old.bladePitch = RoundedPitch(disc.pitch), NEW b \in Blades
               PROVE  2 * Abs(RoundedPitch(d.pitch)[b] - old.bladePitch[b])
                         <= 2 * PCMaxRat * Abs(time - disc.pitchTime) + PitchUlp
    OBVIOUS
  <2>1. Uniform(disc.pitch, PitchTop)
    <3>1. Uniform(disc.pitch, MaxPit) BY <1>7 DEF StateSound
    <3>2. QED BY <3>1, UniformWidens
  <2>2. swap.pitch = old.bladePitch BY <1>2, <2>1, RoundedPitchIsUniform
  <2>3. RoundedPitch(d.pitch)[b] = Float(d.pitch[b], PitchUlp) BY DEF RoundedPitch
  <2>4. QED BY <1>2, <1>11, <2>2, <2>3
<1>14. QED BY <1>2, <1>11, <1>12, <1>13 DEF forward

LEMMA ApplyKeepsInv ==
    ASSUME ControllerNumbers, ControllerConstants, InputsAssumption, ControlInv,
           NEW t \in Turbines, ApplyController(t)
    PROVE  ControlInv'
<1> DEFINE old == turbines[t]
<1>1. PICK time \in 0..MaxTime, d \in InternalState, n \in Built :
        /\ disc' = d /\ turbines' = [turbines EXCEPT ![t] = n]
        /\ Served(t, time, FALSE) /\ Pass(t, time, d)
        /\ unpacked' = (unpacked \/ old.unpacked) /\ n.unpacked = unpacked'
        /\ old \in Built /\ TakenOver(old, d, n)
  BY ApplyStep
<1>2. /\ ~late /\ caller' = t /\ late' \in BOOLEAN /\ rewound' \in BOOLEAN
      /\ rewound => rewound'
  BY <1>1 DEF Served, ControlInv, TypeOK
<1>3. unpacked' \in BOOLEAN /\ (~unpacked' => ~unpacked /\ ~old.unpacked)
  <2>1. unpacked \in BOOLEAN /\ old.unpacked \in BOOLEAN BY <1>1 DEF ControlInv, TypeOK, Built
  <2>2. QED BY <1>1, <2>1
<1>4. ~late' /\ ~unpacked' => StateSound(d, Forward') BY <1>1, <1>3, SharedPassIsSound
<1>5. old.in.actuator \in {"position", "velocity"}
  <2>1. old.in \in Inputs BY <1>1 DEF Built
  <2>2. QED BY <2>1, InputFields
<1>6. /\ ~old.unpacked => ControlsSound(old, Forward)
      /\ Forward' => Forward
  <2>1. old # Unbuilt BY <1>1, BuiltOrNot DEF ControlInv
  <2>2. ~old.unpacked => ControlsSound(old, Forward) BY <1>2, <2>1 DEF ControlInv, Sound
  <2>3. QED BY <1>2, <2>2 DEF Forward
<1>7. StaysOut(old)
  <2>1. old.controller # "unbuilt" BY <1>1 DEF Built
  <2>2. QED BY <2>1 DEF ControlInv, FailedControllerStaysOut, StaysOut
<1> HIDE DEF old
<1>8. ~late' /\ ~unpacked' => ControlsSound(n, Forward')
  <2> SUFFICES ASSUME ~late', ~unpacked' PROVE ControlsSound(n, Forward') OBVIOUS
  <2>1. ControlsSound(old, Forward) BY <1>3, <1>6
  <2>2. CASE old.in.actuator = "velocity"
    BY <1>1, <1>6, <2>1, <2>2 DEF TakenOver, ControlsSound, TorqueSound
  <2>3. CASE old.in.actuator = "position"
    <3>1. TorqueSound(d.torque, Forward', MaxTq) /\ Uniform(d.pitch, MaxPit)
      BY <1>4 DEF StateSound
    <3>2. TorqueSound(Float(d.torque, TorqueUlp), Forward', TorqueTop)
      BY <3>1, FloatOfTorque
    <3>3. TorqueSound(old.torqueCommand, Forward', TorqueTop)
      BY <1>6, <2>1 DEF ControlsSound, TorqueSound
    <3>4. n.torque = n.torqueCommand /\ TorqueSound(n.torque, Forward', TorqueTop)
      BY <1>1, <2>3, <3>2, <3>3 DEF TakenOver
    <3>5. Uniform(RoundedPitch(d.pitch), PitchTop)
      BY <3>1, UniformWidens, RoundedPitchIsUniform
    <3>6. n.pitchCommand \in 0..PitchTop
      <4>1. RoundedPitch(d.pitch)[1] \in 0..PitchTop BY <3>5 DEF Uniform, Blades
      <4>2. QED BY <1>1, <2>1, <2>3, <4>1 DEF TakenOver, ControlsSound
    <3>7. Uniform([b \in Blades |-> n.pitchCommand], PitchTop) BY <3>6 DEF Uniform, Blades
    <3>8. Uniform(n.bladePitch, PitchTop) BY <1>1, <2>3, <3>5, <3>7 DEF TakenOver
    <3>9. QED BY <3>4, <3>6, <3>8 DEF ControlsSound
  <2>4. QED BY <1>5, <2>2, <2>3
<1>9. ~late' /\ ~unpacked' /\ n.controller = "called" => InStepWith(n, d)
  <2> SUFFICES ASSUME n.controller = "called", ~late', ~unpacked' PROVE InStepWith(n, d)
    OBVIOUS
  <2>1. n.in = old.in /\ old.in.actuator = "position" BY <1>1, <1>5 DEF TakenOver
  <2>2. n.in.torqueOn => n.torque = Float(d.torque, TorqueUlp) BY <1>1, <2>1 DEF TakenOver
  <2>3. ASSUME n.in.pitchOn PROVE n.bladePitch = RoundedPitch(d.pitch)
    <3>1. n.pitchCommand = RoundedPitch(d.pitch)[1] BY <1>1, <2>1, <2>3 DEF TakenOver
    <3>2. [b \in Blades |-> n.pitchCommand] = RoundedPitch(d.pitch)
      <4>1. \A b \in Blades : d.pitch[b] = d.pitch[1] BY <1>4 DEF StateSound, Uniform
      <4>2. 1 \in Blades BY DEF Blades
      <4>3. QED BY <3>1, <4>1, <4>2 DEF RoundedPitch
    <3>3. QED BY <1>1, <2>1, <3>2 DEF TakenOver
  <2>4. QED BY <2>2, <2>3 DEF InStepWith
<1>10. /\ n.controller = "called" => n.in.actuator = "position"
       /\ n.controller = "threw" => n.in.actuator = "velocity"
  BY <1>1, <1>5 DEF TakenOver
<1>11. StaysOut(n) BY <1>1, <1>7 DEF TakenOver, StaysOut
<1>12. QED BY <1>1, <1>2, <1>3, <1>4, <1>8, <1>9, <1>10, <1>11, CallKeepsInv

LEMMA NextControlInv ==
    ASSUME ControllerNumbers, ControllerConstants, InputsAssumption, CheckpointsAssumption,
           ControlInv, [Next]_vars
    PROVE  ControlInv'
<1>1. ASSUME NEW t \in Turbines, BuildWithoutLibrary(t) PROVE ControlInv'
  BY <1>1, BuildKeepsInv
<1>2. ASSUME NEW t \in Turbines, InitializeController(t) PROVE ControlInv'
  BY <1>2, InitializeKeepsInv
<1>3. ASSUME NEW t \in Turbines, ApplyController(t) PROVE ControlInv'
  BY <1>3, ApplyKeepsInv
<1>4. CASE UNCHANGED vars
  BY <1>4 DEF vars, ControlInv, TypeOK, Sound, Forward, Controlled, Fresh,
              OnlyPositionIsServed, FailedControllerStaysOut
<1>5. QED BY <1>1, <1>2, <1>3, <1>4 DEF Next

-----------------------------------------------------------------------------
(* The theorems. *)

\* The invariant holds of every reachable state.
THEOREM SharedStateStaysSound == Spec => []ControlInv
<1>1. Init => ControlInv
  BY InitControlInv, ControllerNumbers, ControllerConstants
<1>2. ControlInv /\ [Next]_vars => ControlInv'
  BY NextControlInv, ControllerNumbers, ControllerConstants, InputsAssumption,
     CheckpointsAssumption
<1>3. QED BY <1>1, <1>2, PTL DEF Spec

\* However the calls of the turbines interleave on the one internal state, and
\* whatever a checkpoint left there before, the controls in force of a turbine no
\* such number reached stay within their limits, up to the float next to them.
THEOREM ControlsStayWithinLimits == Spec => []WithinLimits
<1>1. ControlInv => WithinLimits
  <2> SUFFICES ASSUME ControlInv, ~late, NEW t \in Turbines, Fresh(t)
               PROVE  /\ Num(turbines[t].torque)
                      /\ turbines[t].torque <= TorqueTop
                      /\ Speeds \subseteq Nat /\ ~rewound => turbines[t].torque >= 0
                      /\ \A b \in Blades : /\ Num(turbines[t].bladePitch[b])
                                           /\ turbines[t].bladePitch[b] \in 0..PitchTop
    BY Zenon DEF WithinLimits, TorqueTop, PitchTop
  <2>1. turbines[t] # Unbuilt /\ ~turbines[t].unpacked BY DEF Fresh, Controlled, Unbuilt
  <2>2. ControlsSound(turbines[t], Forward) BY <2>1 DEF ControlInv, Sound
  <2>3. /\ turbines[t].torque \in Int /\ turbines[t].torque <= TorqueTop
        /\ Forward => turbines[t].torque >= 0
        /\ \A b \in Blades : turbines[t].bladePitch[b] \in 0..PitchTop
    BY <2>2 DEF ControlsSound, TorqueSound, Uniform
  <2>4. NaN \notin Int /\ PitchTop \in Nat
    BY FloatOfPitch, ControllerNumbers, ControllerConstants DEF ControllerNumbers
  <2>5. QED BY <2>3, <2>4 DEF Num, Forward
<1>2. QED BY <1>1, SharedStateStaysSound, PTL

\* A controller that fails never reaches the actuators; one that was accepted
\* with a checkpoint has only put its zero commands in force.
THEOREM FailureIsContained == Spec => []FailedControllerStaysOut
<1>1. ControlInv => FailedControllerStaysOut BY DEF ControlInv
<1>2. QED BY <1>1, SharedStateStaysSound, PTL

\* Two calls in a row for one turbine: its controls were those DISCON held, and
\* follow the internal state.
LEMMA SettledCall ==
    ASSUME ControllerNumbers, ControllerConstants, InputsAssumption, ControlInv,
           NEW t \in Turbines, ApplyController(t),
           Fresh(t), caller = t, turbines[t].in.pitchOn, ~late'
    PROVE  LET before == turbines[t]
               after == turbines'[t]
           IN  /\ before.torque \in Int /\ disc.torque \in Int /\ disc'.torque \in Int
               /\ \/ after.torque = before.torque
                  \/ /\ before.torque = Float(disc.torque, TorqueUlp)
                     /\ after.torque = Float(disc'.torque, TorqueUlp)
               /\ before.bladePitch = RoundedPitch(disc.pitch)
               /\ after.bladePitch = RoundedPitch(disc'.pitch)
               /\ Abs(disc'.torque - disc.torque) <= VSMaxRat * Abs(disc'.time - disc.torqueTime)
               /\ \A b \in Blades : 2 * Abs(after.bladePitch[b] - before.bladePitch[b]) <=
                     2 * PCMaxRat * Abs(disc'.time - disc.pitchTime) + PitchUlp
               /\ disc'.time <= disc.torqueTime =>
                     /\ disc'.torque = disc.torque /\ disc'.pitch = disc.pitch
                     /\ disc'.integral = disc.integral
<1> DEFINE old == turbines[t]
<1>1. PICK time \in 0..MaxTime, d \in InternalState, n \in Built :
        /\ disc' = d /\ turbines' = [turbines EXCEPT ![t] = n]
        /\ Served(t, time, FALSE) /\ Pass(t, time, d)
        /\ unpacked' = (unpacked \/ old.unpacked) /\ n.unpacked = unpacked'
        /\ old \in Built /\ TakenOver(old, d, n)
  BY ApplyStep
<1>2. turbines'[t] = n BY <1>1 DEF ControlInv, TypeOK
<1>3. ~late /\ caller' = t BY <1>1 DEF Served
<1>4. /\ ~unpacked /\ ~old.unpacked
      /\ InStepWith(old, disc) /\ ControlsSound(old, Forward) /\ StateSound(disc, Forward)
  <2>1. old # Unbuilt /\ ~old.unpacked BY <1>1, BuiltOrNot DEF ControlInv, Fresh
  <2>2. QED BY <1>3, <2>1 DEF ControlInv, Sound
<1>5. /\ StateSound(d, Forward') /\ d.time = time
      /\ Abs(d.torque - disc.torque) <= VSMaxRat * Abs(time - disc.torqueTime)
      /\ old.bladePitch = RoundedPitch(disc.pitch) => \A b \in Blades :
            2 * Abs(RoundedPitch(d.pitch)[b] - old.bladePitch[b])
               <= 2 * PCMaxRat * Abs(time - disc.pitchTime) + PitchUlp
      /\ time <= disc.torqueTime =>
            d.torque = disc.torque /\ d.pitch = disc.pitch /\ d.integral = disc.integral
  BY <1>1, <1>4, SharedPassIsSound
<1>6. /\ old.torque \in Int /\ disc.torque \in Int /\ d.torque \in Int
      /\ old.torqueCommand = old.torque
  BY <1>4, <1>5 DEF ControlsSound, StateSound, TorqueSound
<1>7. /\ old.bladePitch = RoundedPitch(disc.pitch)
      /\ old.in.torqueOn => old.torque = Float(disc.torque, TorqueUlp)
  BY <1>4 DEF InStepWith
<1>8. old.in.actuator = "position" BY DEF ControlInv, OnlyPositionIsServed
<1>9. n.torque = IF old.in.torqueOn THEN Float(d.torque, TorqueUlp) ELSE old.torqueCommand
  BY <1>1, <1>8 DEF TakenOver
<1>10. n.bladePitch = RoundedPitch(d.pitch)
  <2>1. n.pitchCommand = RoundedPitch(d.pitch)[1] BY <1>1, <1>8 DEF TakenOver
  <2>2. [b \in Blades |-> n.pitchCommand] = RoundedPitch(d.pitch)
    <3>1. \A b \in Blades : d.pitch[b] = d.pitch[1] BY <1>5 DEF StateSound, Uniform
    <3>2. 1 \in Blades BY DEF Blades
    <3>3. QED BY <2>1, <3>1, <3>2 DEF RoundedPitch
  <2>3. QED BY <1>1, <1>8, <2>2 DEF TakenOver
<1> HIDE DEF old
<1>11. disc' = d BY <1>1
<1>12. QED BY <1>2, <1>5, <1>6, <1>7, <1>9, <1>10, <1>11 DEF old

\* Which steps a turbine that is controlled and was served last can see: calls
\* of its own, and turbines built without a library.
LEMMA StepsSeen ==
    ASSUME ControlInv, Next, NEW t \in Turbines, Controlled(t), caller = t, caller' = t
    PROVE  ApplyController(t) \/ (disc' = disc /\ turbines'[t] = turbines[t])
<1>1. ASSUME NEW u \in Turbines, BuildWithoutLibrary(u)
      PROVE  disc' = disc /\ turbines'[t] = turbines[t]
  <2>1. u # t BY <1>1 DEF BuildWithoutLibrary, Controlled
  <2>2. QED BY <1>1, <2>1 DEF BuildWithoutLibrary, ControlInv, TypeOK
<1>2. ASSUME NEW u \in Turbines, InitializeController(u) PROVE FALSE
  <2>1. caller' = u /\ turbines[u].controller = "unbuilt"
    BY <1>2 DEF InitializeController, Served
  <2>2. QED BY <2>1 DEF Controlled
<1>3. ASSUME NEW u \in Turbines, ApplyController(u) PROVE u = t
  BY <1>3 DEF ApplyController, Served
<1>4. QED BY <1>1, <1>2, <1>3 DEF Next

\* Floats are no further apart than the numbers they stand for, and a step.
LEMMA FloatsApart ==
    ASSUME NEW x \in Int, NEW y \in Int, NEW ulp \in Nat \ {0}, NEW rate \in Int,
           NaN \notin Int, Abs(x - y) <= rate
    PROVE  Abs(Float(x, ulp) - Float(y, ulp)) <= rate + ulp
<1> DEFINE f == Float(x, ulp)
           g == Float(y, ulp)
<1>1. f \in Int /\ 2 * f <= 2 * x + ulp /\ 2 * x < 2 * f + ulp BY FloatNear
<1>2. g \in Int /\ 2 * g <= 2 * y + ulp /\ 2 * y < 2 * g + ulp BY FloatNear
<1>3. x - y <= rate /\ y - x <= rate BY DEF Abs
<1> HIDE DEF f, g
<1>4. f - g <= rate + ulp /\ g - f <= rate + ulp BY <1>1, <1>2, <1>3
<1>5. Abs(f - g) <= rate + ulp BY <1>1, <1>2, <1>4 DEF Abs
<1>6. QED BY <1>5 DEF f, g

\* A call for the turbine served last moves its controls no faster than allowed.
THEOREM CallsAreRateLimited == Spec => CommandsAreRateLimited
<1> DEFINE Limited(t) == (Serves(t) /\ caller' = t /\ ~late') =>
             LET before == turbines[t]
                 after == turbines'[t]
             IN  /\ Abs(after.torque - before.torque) <=
                        VSMaxRat * Abs(disc'.time - disc.torqueTime) + TorqueUlp
                 /\ \A b \in Blades : 2 * Abs(after.bladePitch[b] - before.bladePitch[b]) <=
                        2 * PCMaxRat * Abs(disc'.time - disc.pitchTime) + PitchUlp
<1>1. ASSUME ControlInv, ControlInv', Next, NEW t \in Turbines PROVE Limited(t)
  <2> SUFFICES ASSUME Fresh(t), caller = t, turbines[t].in.pitchOn, caller' = t, ~late'
               PROVE  /\ Abs(turbines'[t].torque - turbines[t].torque) <=
                             VSMaxRat * Abs(disc'.time - disc.torqueTime) + TorqueUlp
                      /\ \A b \in Blades :
                           2 * Abs(turbines'[t].bladePitch[b] - turbines[t].bladePitch[b]) <=
                             2 * PCMaxRat * Abs(disc'.time - disc.pitchTime) + PitchUlp
    BY DEF Serves
  <2>1. /\ VSMaxRat * Abs(disc'.time - disc.torqueTime) \in Nat
        /\ 2 * PCMaxRat * Abs(disc'.time - disc.pitchTime) \in Nat
        /\ TorqueUlp \in Nat \ {0} /\ PitchUlp \in Nat \ {0} /\ NaN \notin Int
    <3>1. /\ VSMaxRat \in Nat /\ 2 * PCMaxRat \in Nat /\ TorqueUlp \in Nat \ {0}
          /\ PitchUlp \in Nat \ {0} /\ NaN \notin Int
      BY Constants, ControllerNumbers, ControllerConstants
    <3>2. disc \in InternalState /\ disc' \in InternalState BY <1>1 DEF ControlInv, TypeOK
    <3>3. disc'.time \in Int /\ disc.torqueTime \in Int /\ disc.pitchTime \in Int
      BY <3>2 DEF InternalState
    <3>4. /\ Abs(disc'.time - disc.torqueTime) \in Nat
          /\ Abs(disc'.time - disc.pitchTime) \in Nat
      BY <3>3 DEF Abs
    <3>5. QED BY <3>1, <3>4, ProductIsNat
  <2>2. ~late
    <3>1. ASSUME NEW u \in Turbines, BuildWithoutLibrary(u) PROVE ~late
      BY <3>1 DEF BuildWithoutLibrary
    <3>2. ASSUME NEW u \in Turbines, InitializeController(u) PROVE ~late
      BY <3>2 DEF InitializeController, Served
    <3>3. ASSUME NEW u \in Turbines, ApplyController(u) PROVE ~late
      BY <3>3 DEF ApplyController, Served
    <3>4. QED BY <1>1, <3>1, <3>2, <3>3 DEF Next
  <2>3. turbines[t].torque \in Int /\ \A b \in Blades : turbines[t].bladePitch[b] \in Int
    <3>1. turbines[t] # Unbuilt /\ ~turbines[t].unpacked BY DEF Fresh, Controlled, Unbuilt
    <3>2. ControlsSound(turbines[t], Forward) BY <1>1, <2>2, <3>1 DEF ControlInv, Sound
    <3>3. PitchTop \in Nat BY FloatOfPitch, ControllerNumbers, ControllerConstants
    <3>4. QED BY <3>2, <3>3 DEF ControlsSound, TorqueSound, Uniform
  <2>4. ASSUME NEW x \in Int PROVE Abs(x - x) = 0 BY DEF Abs
  <2>5. CASE ApplyController(t)
    <3> DEFINE before == turbines[t]
               after == turbines'[t]
               rate == VSMaxRat * Abs(disc'.time - disc.torqueTime)
    <3>1. /\ before.torque \in Int /\ disc.torque \in Int /\ disc'.torque \in Int
          /\ \/ after.torque = before.torque
             \/ /\ before.torque = Float(disc.torque, TorqueUlp)
                /\ after.torque = Float(disc'.torque, TorqueUlp)
          /\ Abs(disc'.torque - disc.torque) <= rate
          /\ \A b \in Blades : 2 * Abs(after.bladePitch[b] - before.bladePitch[b]) <=
                2 * PCMaxRat * Abs(disc'.time - disc.pitchTime) + PitchUlp
      BY <1>1, <2>5, SettledCall, ControllerNumbers, ControllerConstants, InputsAssumption
    <3>2. rate \in Nat BY <2>1
    <3> HIDE DEF before, after, rate
    <3>3. CASE after.torque = before.torque
      <4>1. Abs(after.torque - before.torque) = 0 BY <2>4, <3>1, <3>3
      <4>2. Abs(after.torque - before.torque) <= rate + TorqueUlp BY <2>1, <3>2, <4>1
      <4>3. QED BY <3>1, <4>2 DEF before, after, rate
    <3>4. CASE /\ before.torque = Float(disc.torque, TorqueUlp)
               /\ after.torque = Float(disc'.torque, TorqueUlp)
      <4>1. Abs(after.torque - before.torque) <= rate + TorqueUlp
        BY <2>1, <3>1, <3>2, <3>4, FloatsApart
      <4>2. QED BY <3>1, <4>1 DEF before, after, rate
    <3>5. QED BY <3>1, <3>3, <3>4
  <2>6. CASE disc' = disc /\ turbines'[t] = turbines[t]
    <3>1. Abs(turbines'[t].torque - turbines[t].torque) = 0 BY <2>3, <2>4, <2>6
    <3>2. \A b \in Blades : Abs(turbines'[t].bladePitch[b] - turbines[t].bladePitch[b]) = 0
      BY <2>3, <2>4, <2>6
    <3> DEFINE rate == VSMaxRat * Abs(disc'.time - disc.torqueTime)
               twice == 2 * PCMaxRat * Abs(disc'.time - disc.pitchTime)
    <3>3. rate \in Nat /\ twice \in Nat BY <2>1
    <3> HIDE DEF rate, twice
    <3>4. 0 <= rate + TorqueUlp /\ 2 * 0 <= twice + PitchUlp BY <2>1, <3>3
    <3>5. QED BY <3>1, <3>2, <3>4 DEF rate, twice
  <2>7. QED BY <1>1, <2>5, <2>6, StepsSeen DEF Fresh
<1>2. ControlInv /\ ControlInv' /\ [Next]_vars => [\A t \in Turbines : Limited(t)]_vars
  BY <1>1
<1>3. QED BY <1>2, SharedStateStaysSound, PTL DEF Spec, CommandsAreRateLimited

\* A repeated step leaves the controls in force and the integral as they are.
THEOREM RepeatedCallsAreHarmless == Spec => RepeatsChangeNothing
<1> DEFINE Unmoved(t) ==
             (Fresh(t) /\ caller = t /\ caller' = t /\ turbines[t].in.pitchOn
                /\ ~late' /\ disc'.time <= disc.torqueTime) =>
             /\ disc'.integral = disc.integral
             /\ turbines'[t].bladePitch = turbines[t].bladePitch
             /\ turbines'[t].torque = turbines[t].torque
<1>1. ASSUME ControlInv, Next, NEW t \in Turbines PROVE Unmoved(t)
  <2> SUFFICES ASSUME Fresh(t), caller = t, caller' = t, turbines[t].in.pitchOn,
                      ~late', disc'.time <= disc.torqueTime
               PROVE  /\ disc'.integral = disc.integral
                      /\ turbines'[t].bladePitch = turbines[t].bladePitch
                      /\ turbines'[t].torque = turbines[t].torque
    OBVIOUS
  <2>1. CASE ApplyController(t)
    <3>1. /\ \/ turbines'[t].torque = turbines[t].torque
             \/ /\ turbines[t].torque = Float(disc.torque, TorqueUlp)
                /\ turbines'[t].torque = Float(disc'.torque, TorqueUlp)
          /\ turbines[t].bladePitch = RoundedPitch(disc.pitch)
          /\ turbines'[t].bladePitch = RoundedPitch(disc'.pitch)
          /\ disc'.torque = disc.torque /\ disc'.pitch = disc.pitch
          /\ disc'.integral = disc.integral
      BY <1>1, <2>1, SettledCall, ControllerNumbers, ControllerConstants, InputsAssumption
    <3>2. QED BY <3>1
  <2>2. CASE disc' = disc /\ turbines'[t] = turbines[t] BY <2>2
  <2>3. QED BY <1>1, <2>1, <2>2, StepsSeen DEF Fresh
<1>2. ControlInv /\ [Next]_vars => [\A t \in Turbines : Unmoved(t)]_vars
  BY <1>1
<1>3. QED BY <1>2, SharedStateStaysSound, PTL DEF Spec, RepeatsChangeNothing
=============================================================================
