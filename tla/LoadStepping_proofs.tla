------------------------ MODULE LoadStepping_proofs ------------------------
(***************************************************************************)
(* Type correctness of LoadStepping, its three safety properties about     *)
(* the snapshot, and that it implements LoadPromise, for every number of   *)
(* retries and every tolerance.                                            *)
(***************************************************************************)
EXTENDS LoadStepping, TLAPS

----------------------------------------------------------------------------
(* The inductive invariant.                                                *)

\* The state handed back so far, s, in terms of the factor low / den.
Climbs(s) ==
  /\ low = 0 => s = entry
  /\ low > 0 => HoldsFraction(s, entry.f, low, den) /\ s.x = s.q

\* Between two attempts the state is the snapshot, but for its loads, which
\* the next attempt overwrites.
BetweenAttempts ==
  pc = "attempt" =>
    /\ ~dynamic
    /\ result = "none"
    /\ attempts < Retries
    /\ low < cur
    /\ cur <= den
    /\ Climbs(saved)
    /\ saved.timeStep = entry.timeStep + commits
    /\ state.timeStep = entry.timeStep + commits

AfterCall ==
  pc = "idle" /\ ~dynamic =>
    /\ result # "none" => state.timeStep = entry.timeStep + commits
    /\ result = "false" =>
         \/ state = entry
         \/ /\ state.q = [kind |-> "equilibrium", load |-> state.f]
            /\ state.x = state.q
            /\ state.f.num * entry.f.den < entry.f.num * state.f.den

Inv == TypeOK /\ BetweenAttempts /\ AfterCall

----------------------------------------------------------------------------
(* Arithmetic of fractions.                                                *)

(* Scaling positive loads by a positive fraction gives positive loads.     *)
LEMMA ScaledType ==
  ASSUME NEW f \in Loads, NEW n \in Nat \ {0}, NEW d \in Nat \ {0}
  PROVE  Scaled(f, n, d) \in Loads
  <1>1. f.num * n \in Nat \ {0} /\ f.den * d \in Nat \ {0}
    BY DEF Loads
  <1> QED
    BY <1>1 DEF Loads, Scaled

(* Every load is the fraction it was scaled by.                            *)
LEMMA SameReflexive ==
  ASSUME NEW f \in Loads
  PROVE  SameLoads(f, f)
  BY DEF SameLoads, Loads

(* Doubling numerator and denominator leaves a fraction what it was.       *)
LEMMA SameDoubled ==
  ASSUME NEW f \in Loads, NEW g \in Loads, NEW n \in Nat, NEW d \in Nat \ {0},
         SameLoads(f, Scaled(g, n, d))
  PROVE  SameLoads(f, Scaled(g, 2 * n, 2 * d))
  <1> DEFINE s == f.num  t == f.den  u == g.num  v == g.den
  <1>1. s \in Nat /\ t \in Nat /\ u \in Nat /\ v \in Nat
    BY DEF Loads
  <1>2. s * (v * d) = (u * n) * t
    BY DEF SameLoads, Scaled
  <1>3. s * (v * (2 * d)) = 2 * (s * (v * d))
    BY <1>1
  <1>4. (u * (2 * n)) * t = 2 * ((u * n) * t)
    BY <1>1
  <1>5. s * (v * (2 * d)) = (u * (2 * n)) * t
    BY <1>2, <1>3, <1>4
  <1> QED
    BY <1>5 DEF SameLoads, Scaled

(* Cancelling a positive factor from a strict inequality.                  *)
LEMMA Cancel ==
  ASSUME NEW a \in Nat, NEW c \in Nat, NEW d \in Nat \ {0}, a * d < c * d
  PROVE  a < c
  <1> SUFFICES ASSUME a >= c PROVE FALSE
    OBVIOUS
  <1>1. a * d >= c * d
    OBVIOUS
  <1> QED
    BY <1>1

(* A proper fraction of the loads is less than all of them.                *)
LEMMA ProperFraction ==
  ASSUME NEW f \in Loads, NEW g \in Loads, NEW n \in Nat, NEW d \in Nat \ {0},
         n < d, SameLoads(f, Scaled(g, n, d))
  PROVE  f.num * g.den < g.num * f.den
  <1> DEFINE s == f.num  t == f.den  u == g.num  v == g.den
  <1>1. s \in Nat /\ t \in Nat \ {0} /\ u \in Nat \ {0} /\ v \in Nat
    BY DEF Loads
  <1>2. s * (v * d) = (u * n) * t
    BY DEF SameLoads, Scaled
  <1>3. s * v \in Nat /\ u * t \in Nat \ {0}
    BY <1>1
  <1> HIDE DEF s, t, u, v
  <1>4. (s * v) * d = (u * t) * n
    BY <1>1, <1>2
  <1>5. (u * t) * n < (u * t) * d
    BY <1>3
  <1>6. s * v < u * t
    BY <1>3, <1>4, <1>5, Cancel
  <1> QED
    BY <1>6 DEF s, t, u, v

----------------------------------------------------------------------------
(* What a solve leaves.                                                    *)

(* A solve of a well-formed state gives a well-formed state.               *)
LEMMA SolvedType ==
  ASSUME NEW s \in StateData, NEW outcome \in Outcomes
  PROVE  /\ Solved(s, outcome) \in StateData
         /\ Solution(outcome, s.f) \in Content
         /\ Solved(s, outcome).f = s.f
         /\ Solved(s, outcome).timeStep = s.timeStep + 1
  <1>1. s.f \in Loads /\ s.x \in Content /\ s.timeStep \in Nat
    BY DEF StateData
  <1>2. Solution(outcome, s.f) \in Content
    BY <1>1 DEF Solution, Outcomes, Content
  <1> QED
    BY <1>1, <1>2 DEF Solved, StateData

(* The state an attempt starts from carries the scaled baseline loads.     *)
LEMMA ScaledStateType ==
  ASSUME TypeOK, BetweenAttempts, pc = "attempt"
  PROVE  /\ ScaledState \in StateData
         /\ ScaledState.f = Scaled(entry.f, cur, den)
         /\ ScaledState.timeStep = state.timeStep
         /\ cur \in Nat \ {0}
  <1>1. cur \in Nat \ {0} /\ den \in Nat \ {0}
    BY DEF TypeOK, BetweenAttempts
  <1>2. Scaled(entry.f, cur, den) \in Loads
    BY <1>1, ScaledType DEF TypeOK, StateData
  <1> QED
    BY <1>1, <1>2 DEF ScaledState, TypeOK, StateData

----------------------------------------------------------------------------
(* The invariant holds initially and is preserved, action by action.       *)

LEMMA InvInit == Init => Inv
  <1> SUFFICES ASSUME Init PROVE Inv
    OBVIOUS
  <1>1. InitialState \in StateData
    BY DEF InitialState, NoLoads, StateData, Content, Loads
  <1>2. hostOutput \in Content
    BY DEF Init, Content
  <1>3. TypeOK
    BY <1>1, <1>2, LoadSteppingAssumption DEF Init, TypeOK
  <1>4. BetweenAttempts /\ AfterCall
    BY DEF Init, BetweenAttempts, AfterCall
  <1> QED
    BY <1>3, <1>4 DEF Inv

LEMMA SetLoadsStep == Inv /\ SetLoads => Inv'
  <1> SUFFICES ASSUME Inv, SetLoads PROVE Inv'
    OBVIOUS
  <1>1. [id |-> calls + 1, num |-> 1, den |-> 1] \in Loads
    BY DEF Inv, TypeOK, Loads
  <1>2. state' \in StateData
    BY <1>1 DEF Inv, TypeOK, StateData, SetLoads
  <1>3. TypeOK'
    BY <1>2 DEF Inv, TypeOK, SetLoads, factorVars
  <1>4. BetweenAttempts' /\ AfterCall'
    BY DEF SetLoads, BetweenAttempts, AfterCall
  <1> QED
    BY <1>3, <1>4 DEF Inv

LEMMA DynamicPreserves ==
  ASSUME NEW outcome \in Outcomes, Inv, DynamicStep(outcome)
  PROVE  Inv'
  <1>1. /\ state' \in StateData
        /\ hostOutput' \in Content
    BY SolvedType DEF Inv, TypeOK, DynamicStep, OutputAfter
  <1>2. TypeOK'
    BY <1>1 DEF Inv, TypeOK, DynamicStep, factorVars
  <1>3. BetweenAttempts' /\ AfterCall'
    BY DEF DynamicStep, BetweenAttempts, AfterCall
  <1> QED
    BY <1>2, <1>3 DEF Inv

LEMMA BeginPreserves == Inv /\ BeginStatic => Inv'
  <1> SUFFICES ASSUME Inv, BeginStatic PROVE Inv'
    OBVIOUS
  <1>1. TypeOK'
    BY LoadSteppingAssumption DEF Inv, TypeOK, BeginStatic
  <1>2. state.timeStep \in Nat
    BY DEF Inv, TypeOK, StateData
  <1>3. BetweenAttempts'
    BY <1>2, LoadSteppingAssumption DEF BeginStatic, BetweenAttempts, Climbs
  <1>4. AfterCall'
    BY <1>2 DEF BeginStatic, AfterCall
  <1> QED
    BY <1>1, <1>3, <1>4 DEF Inv

(* A converged attempt: the new snapshot holds the factor just tried.      *)
LEMMA ConvergedPreserves == Inv /\ AttemptConverged => Inv'
  <1> SUFFICES ASSUME Inv, AttemptConverged PROVE Inv'
    OBVIOUS
  <1> DEFINE F == Scaled(entry.f, cur, den)
  <1>1. /\ pc = "attempt" /\ ~dynamic
        /\ attempts < Retries /\ low < cur /\ cur <= den
        /\ state.timeStep = entry.timeStep + commits
    BY DEF Inv, AttemptConverged, BetweenAttempts
  <1>2. /\ ScaledState \in StateData
        /\ ScaledState.f = F
        /\ ScaledState.timeStep = state.timeStep
        /\ cur \in Nat \ {0}
    BY <1>1, ScaledStateType DEF Inv
  <1>3. /\ state' \in StateData
        /\ hostOutput' \in Content
        /\ state'.f = F
        /\ state'.timeStep = state.timeStep + 1
    BY <1>2, SolvedType DEF AttemptConverged, OutputAfter, Outcomes
  <1>4. /\ state'.q = [kind |-> "equilibrium", load |-> state'.f]
        /\ state'.x = state'.q
    BY <1>2 DEF AttemptConverged, Solved, Solution
  <1>5. /\ F \in Loads /\ entry.f \in Loads
        /\ entry.timeStep \in Nat /\ commits \in Nat /\ attempts \in Nat
        /\ low \in Nat /\ cur \in Nat /\ den \in Nat \ {0} /\ Retries \in Nat
        /\ commits <= attempts
    BY <1>3, LoadSteppingAssumption DEF Inv, TypeOK, StateData
  <1>6. TypeOK'
    <2>1. /\ attempts' \in 0 .. Retries
          /\ commits' \in 0 .. attempts'
      BY <1>1, <1>5 DEF AttemptConverged
    <2>2. /\ low' \in Nat /\ cur' \in Nat /\ high' \in Nat /\ den' \in Nat \ {0}
          /\ pc' \in {"idle", "attempt"}
          /\ result' \in {"none", "true", "false"}
      BY DEF AttemptConverged, factorVars, LoopOrGiveUp, Inv, TypeOK
    <2> QED
      BY <1>3, <2>1, <2>2 DEF Inv, TypeOK, AttemptConverged
  <1>7. state'.timeStep = entry'.timeStep + commits'
    BY <1>1, <1>3, <1>5 DEF AttemptConverged
  <1>8. BetweenAttempts'
    <2> SUFFICES ASSUME pc' = "attempt" PROVE BetweenAttempts'
      BY DEF BetweenAttempts
    <2>1. /\ ~FullLoad(cur, den)
          /\ low' = cur /\ cur' = den /\ den' = den
          /\ attempts + 1 < Retries /\ result' = "none"
      BY DEF AttemptConverged, LoopOrGiveUp
    <2>2. cur < den
      BY <2>1, <1>1, <1>5, LoadSteppingAssumption DEF FullLoad
    <2>3. SameLoads(state'.f, F)
      BY <1>3, <1>5, SameReflexive
    <2>4. Climbs(saved)'
      BY <1>2, <1>4, <2>1, <2>3 DEF Climbs, HoldsFraction, AttemptConverged
    <2> QED
      BY <1>1, <1>5, <1>7, <2>1, <2>2, <2>4 DEF BetweenAttempts, AttemptConverged
  <1>9. AfterCall'
    <2> SUFFICES ASSUME pc' = "idle", result' = "false"
                 PROVE  state'.f.num * entry'.f.den < entry'.f.num * state'.f.den
      BY <1>4, <1>7 DEF AfterCall
    <2>1. ~FullLoad(cur, den)
      BY DEF AttemptConverged
    <2>2. cur < den
      BY <2>1, <1>1, <1>5, LoadSteppingAssumption DEF FullLoad
    <2>3. F.num * entry.f.den < entry.f.num * F.den
      BY <1>5, <2>2, SameReflexive, ProperFraction
    <2> QED
      BY <1>3, <2>3 DEF AttemptConverged
  <1> QED
    BY <1>6, <1>8, <1>9 DEF Inv

(* A failed attempt: the interval is halved and the snapshot restored.     *)
LEMMA FailedPreserves ==
  ASSUME NEW outcome \in Outcomes, Inv, AttemptFailed(outcome)
  PROVE  Inv'
  <1>1. /\ pc = "attempt" /\ ~dynamic
        /\ attempts < Retries /\ low < cur /\ cur <= den
        /\ Climbs(saved)
        /\ saved.timeStep = entry.timeStep + commits
    BY DEF Inv, AttemptFailed, BetweenAttempts
  <1>2. /\ ScaledState \in StateData /\ cur \in Nat \ {0}
    BY <1>1, ScaledStateType DEF Inv
  <1>3. hostOutput' \in Content
    BY <1>2, SolvedType DEF AttemptFailed, OutputAfter, Inv, TypeOK
  <1>4. /\ saved.f \in Loads /\ entry.f \in Loads
        /\ commits \in Nat /\ attempts \in Nat /\ commits <= attempts
        /\ low \in Nat /\ den \in Nat \ {0} /\ Retries \in Nat
    BY LoadSteppingAssumption DEF Inv, TypeOK, StateData
  <1>5. /\ low' = 2 * low /\ cur' = low + cur /\ den' = 2 * den
        /\ high' = 2 * cur
    BY DEF AttemptFailed, Midpoint
  <1>6. TypeOK'
    <2>1. /\ attempts' \in 0 .. Retries
          /\ commits' \in 0 .. attempts'
      BY <1>1, <1>4 DEF AttemptFailed
    <2>2. /\ low' \in Nat /\ cur' \in Nat /\ high' \in Nat /\ den' \in Nat \ {0}
          /\ pc' \in {"idle", "attempt"}
          /\ result' \in {"none", "true", "false"}
      BY <1>2, <1>4, <1>5 DEF AttemptFailed, LoopOrGiveUp
    <2> QED
      BY <1>3, <2>1, <2>2 DEF Inv, TypeOK, AttemptFailed
  <1>7. low > 0 => /\ HoldsFraction(saved, entry.f, low, den)
                   /\ HoldsFraction(saved, entry.f, 2 * low, 2 * den)
                   /\ saved.x = saved.q
    BY <1>1, <1>4, SameDoubled DEF Climbs, HoldsFraction
  <1>8. low = 0 => saved = entry
    BY <1>1 DEF Climbs
  <1>9. BetweenAttempts'
    <2> SUFFICES ASSUME pc' = "attempt" PROVE BetweenAttempts'
      BY DEF BetweenAttempts
    <2>1. attempts' < Retries /\ result' = "none"
      BY DEF AttemptFailed, LoopOrGiveUp
    <2>2. low' < cur' /\ cur' <= den'
      BY <1>1, <1>2, <1>4, <1>5
    <2>3. Climbs(saved)'
      BY <1>4, <1>5, <1>7, <1>8 DEF Climbs, HoldsFraction, AttemptFailed
    <2> QED
      BY <1>1, <2>1, <2>2, <2>3 DEF BetweenAttempts, AttemptFailed
  <1>10. AfterCall'
    <2>1. low = 0 => state' = entry'
      BY <1>8 DEF AttemptFailed
    <2>2. low > 0 => /\ state'.q = [kind |-> "equilibrium", load |-> state'.f]
                     /\ state'.x = state'.q
                     /\ state'.f.num * entry'.f.den < entry'.f.num * state'.f.den
      <3> SUFFICES ASSUME low > 0
                   PROVE  /\ saved.q = [kind |-> "equilibrium", load |-> saved.f]
                          /\ saved.x = saved.q
                          /\ saved.f.num * entry.f.den < entry.f.num * saved.f.den
        BY DEF AttemptFailed
      <3>1. low < den
        BY <1>1, <1>2, <1>4
      <3> QED
        BY <1>4, <1>7, <3>1, ProperFraction DEF HoldsFraction
    <2> QED
      BY <1>1, <1>4, <2>1, <2>2 DEF AfterCall, AttemptFailed
  <1> QED
    BY <1>6, <1>9, <1>10 DEF Inv

(* The inductive invariant is one.                                         *)
THEOREM Invariance == Spec => []Inv
  <1>1. Inv /\ [Next]_vars => Inv'
    <2> SUFFICES ASSUME Inv, [Next]_vars PROVE Inv'
      OBVIOUS
    <2>1. CASE SetLoads
      BY <2>1, SetLoadsStep
    <2>2. CASE \E o \in Outcomes : DynamicStep(o)
      BY <2>2, DynamicPreserves
    <2>3. CASE BeginStatic
      BY <2>3, BeginPreserves
    <2>4. CASE AttemptConverged
      BY <2>4, ConvergedPreserves
    <2>5. CASE \E o \in Outcomes \ {"converged"} : AttemptFailed(o)
      BY <2>5, FailedPreserves
    <2>6. CASE UNCHANGED vars
      BY <2>6 DEF vars, factorVars, Inv, TypeOK, BetweenAttempts, AfterCall,
           Climbs, HoldsFraction
    <2> QED
      BY <2>1, <2>2, <2>3, <2>4, <2>5, <2>6 DEF Next, Attempt
  <1> QED
    BY InvInit, <1>1, PTL DEF Spec

----------------------------------------------------------------------------
(* The properties.                                                         *)

(* Every variable keeps its type; the number of attempts stays within the  *)
(* retries the caller allows.                                              *)
THEOREM TypeCorrect == Spec => []TypeOK
  <1>1. Inv => TypeOK
    BY DEF Inv
  <1> QED
    BY <1>1, Invariance, PTL

(* The bisection: the next factor is above the largest that converged, and *)
(* the snapshot holds exactly that one.                                    *)
THEOREM SnapshotHolds == Spec => []SnapshotHoldsLowerBound
  <1>1. Inv => SnapshotHoldsLowerBound
    BY DEF Inv, TypeOK, BetweenAttempts, Climbs, SnapshotHoldsLowerBound
  <1> QED
    BY <1>1, Invariance, PTL

(* A static Step that fails hands back a converged state.                  *)
THEOREM FailureKeepsConverged == Spec => []FailureKeepsConvergedState
  <1>1. Inv => FailureKeepsConvergedState
    BY DEF Inv, AfterCall, FailureKeepsConvergedState
  <1> QED
    BY <1>1, Invariance, PTL

(* The time step advances once for every attempt kept.                     *)
THEOREM TimeStepCounts == Spec => []TimeStepCountsCommits
  <1>1. Inv => TimeStepCountsCommits
    BY DEF Inv, TypeOK, BetweenAttempts, AfterCall, TimeStepCountsCommits
  <1> QED
    BY <1>1, Invariance, PTL

----------------------------------------------------------------------------
(* LoadStepping implements LoadPromise.                                    *)

(* Multiplying a strict inequality by positive numbers.                    *)
LEMMA StrictlyMore ==
  ASSUME NEW a \in Nat \ {0}, NEW m \in Int, NEW n \in Int, NEW b \in Nat \ {0}
  PROVE  a * m * b < a * n * b <=> m < n
  <1>1. a * b \in Nat \ {0}
    OBVIOUS
  <1> DEFINE p == a * b
  <1>2. a * m * b = p * m /\ a * n * b = p * n
    OBVIOUS
  <1>3. p \in Nat \ {0}
    BY <1>1
  <1> HIDE DEF p
  <1>4. p * m < p * n <=> m < n
    BY <1>3
  <1> QED
    BY <1>2, <1>4

(* A smaller part of the loads is less than a larger one.                  *)
LEMMA LargerPart ==
  ASSUME NEW f \in Loads, NEW g \in Loads, NEW m \in Nat, NEW n \in Nat,
         NEW d \in Nat \ {0}, m < n, SameLoads(f, Scaled(g, m, d))
  PROVE  Promise!Less(f, Scaled(g, n, d))
  <1> DEFINE s == f.num  t == f.den  u == g.num  v == g.den
  <1>1. s \in Nat /\ t \in Nat \ {0} /\ u \in Nat \ {0} /\ v \in Nat \ {0}
    BY DEF Loads
  <1>2. s * (v * d) = (u * m) * t /\ f.id = g.id
    BY DEF SameLoads, Scaled
  <1> HIDE DEF s, t, u, v
  <1>3. u * m * t < u * n * t
    BY <1>1, StrictlyMore
  <1>4. s * (v * d) < (u * n) * t
    BY <1>2, <1>3
  <1> QED
    BY <1>2, <1>4 DEF Promise!Less, Scaled, s, t, u, v

(* Being all of the loads is what the test of the load factor decides.     *)
LEMMA AllOfLoads ==
  ASSUME NEW g \in Loads, NEW n \in Nat, NEW d \in Nat \ {0}, n <= d
  PROVE  Promise!All(Scaled(g, n, d), g) <=> FullLoad(n, d)
  <1> DEFINE u == g.num  v == g.den
             k == (d - n) * InvTol
  <1>1. u \in Nat \ {0} /\ v \in Nat \ {0} /\ InvTol \in Nat
    BY LoadSteppingAssumption DEF Loads
  <1>2. k \in Int /\ FullLoad(n, d) = (k < d)
    BY <1>1 DEF FullLoad
  <1>3. /\ Scaled(g, n, d).id = g.id
        /\ Scaled(g, n, d).num = u * n /\ Scaled(g, n, d).den = v * d
    BY DEF Scaled
  <1> HIDE DEF u, v
  <1>4. (u * n) * v <= u * (v * d)
    <2>1. u * n * v < u * d * v <=> n < d
      BY <1>1, StrictlyMore
    <2>2. n = d => u * n * v = u * d * v
      OBVIOUS
    <2>3. u * d * v = u * (v * d) /\ (u * n) * v = u * n * v
      BY <1>1
    <2>4. u * n * v \in Int /\ u * d * v \in Int
      BY <1>1
    <2> QED
      BY <2>1, <2>2, <2>3, <2>4
  <1>5. (u * (v * d) - (u * n) * v) * InvTol = u * k * v
    BY <1>1
  <1> HIDE DEF k
  <1>6. u * k * v < u * d * v <=> k < d
    BY <1>1, <1>2, StrictlyMore
  <1>7. u * d * v = u * (v * d)
    BY <1>1
  <1> QED
    BY <1>2, <1>3, <1>4, <1>5, <1>6, <1>7 DEF Promise!All, u, v


(* The steps of LoadStepping, one by one.                                  *)

LEMMA IdleStepsArePromised ==
  ASSUME Inv, SetLoads \/ BeginStatic \/ (\E o \in Outcomes : DynamicStep(o))
  PROVE  Promise!Next
  <1>1. CASE SetLoads
    <2>1. Promise!SetLoads
      BY <1>1 DEF SetLoads, factorVars, Visible, Promise!SetLoads, Inv, TypeOK, StateData
    <2> QED
      BY <2>1 DEF Promise!Next
  <1>2. CASE BeginStatic
    <2>1. Promise!Begin
      BY <1>2 DEF BeginStatic, Visible, Promise!Begin
    <2> QED
      BY <2>1 DEF Promise!Next
  <1>3. ASSUME NEW o \in Outcomes, DynamicStep(o)
        PROVE  Promise!Next
    <2>1. state'.f = state.f
      BY <1>3 DEF DynamicStep, Solved
    <2>2. o = "converged" => state'.q = [kind |-> "equilibrium", load |-> state'.f]
      BY <1>3 DEF DynamicStep, Solved, Solution
    <2>3. Promise!SolveOnce
      BY <1>3, <2>1, <2>2 DEF DynamicStep, Visible, factorVars, Promise!SolveOnce, Promise!Holds
    <2> QED
      BY <2>3 DEF Promise!Next
  <1> QED
    BY <1>1, <1>2, <1>3

LEMMA ConvergedIsPromised ==
  ASSUME Inv, AttemptConverged
  PROVE  Promise!Next
  <1> DEFINE F == Scaled(entry.f, cur, den)
  <1>1. /\ pc = "attempt" /\ low < cur /\ cur <= den /\ Climbs(saved)
    BY DEF Inv, AttemptConverged, BetweenAttempts
  <1>2. /\ entry.f \in Loads /\ saved.f \in Loads
        /\ low \in Nat /\ cur \in Nat \ {0} /\ den \in Nat \ {0}
    BY <1>1 DEF Inv, TypeOK, StateData
  <1>3. ScaledState.f = F
    BY <1>1, ScaledStateType DEF Inv
  <1>4. /\ state'.f = F
        /\ state'.q = [kind |-> "equilibrium", load |-> F]
        /\ Visible' = state' /\ Visible = saved
        /\ entry' = entry
    BY <1>1, <1>3 DEF AttemptConverged, Solved, Solution, Visible
  <1>5. low > 0 => Promise!Less(saved.f, F)
    BY <1>1, <1>2, LargerPart DEF Climbs, HoldsFraction
  <1>6. Promise!Climb
    BY <1>1, <1>4, <1>5 DEF Promise!Climb, Promise!Holds
  <1>7. Promise!All(F, entry.f) <=> FullLoad(cur, den)
    BY <1>1, <1>2, AllOfLoads
  <1>8. CASE FullLoad(cur, den)
    <2>1. pc' = "idle" /\ result' = "true" /\ low' = low
      BY <1>8 DEF AttemptConverged, factorVars
    <2>2. Promise!HoldAll
      BY <1>4, <1>6, <1>7, <1>8, <2>1 DEF Promise!HoldAll
    <2> QED
      BY <2>2 DEF Promise!Next
  <1>9. CASE ~FullLoad(cur, den)
    <2>1. /\ low' = cur
          /\ \/ pc' = "attempt" /\ result' = "none"
             \/ pc' = "idle" /\ result' = "false"
      BY <1>9 DEF AttemptConverged, LoopOrGiveUp
    <2>2. cur < den
      BY <1>1, <1>2, <1>9, LoadSteppingAssumption DEF FullLoad
    <2>3. F.num * entry.f.den < entry.f.num * F.den /\ F.id = entry.f.id
      BY <1>2, <2>2, ScaledType, SameReflexive, ProperFraction DEF Scaled
    <2>4. Promise!Less(F, entry.f)
      BY <2>3 DEF Promise!Less
    <2>5. low' > 0
      BY <1>2, <2>1
    <2>6. Promise!HoldMore
      BY <1>4, <1>6, <1>7, <1>9, <2>1, <2>4, <2>5 DEF Promise!HoldMore
    <2> QED
      BY <2>6 DEF Promise!Next
  <1> QED
    BY <1>8, <1>9

LEMMA FailedIsPromised ==
  ASSUME NEW o \in Outcomes, Inv, AttemptFailed(o)
  PROVE  [Promise!Next]_(Promise!vars)
  <1>1. pc = "attempt" /\ result = "none" /\ low \in Nat
    BY DEF AttemptFailed, Inv, BetweenAttempts, TypeOK
  <1>2. Visible' = Visible /\ entry' = entry /\ low' = 2 * low
    BY <1>1 DEF AttemptFailed, Visible
  <1>3. low' > 0 <=> low > 0
    BY <1>1, <1>2
  <1>4. CASE attempts + 1 < Retries
    <2>1. pc' = "attempt" /\ result' = "none"
      BY <1>4 DEF AttemptFailed, LoopOrGiveUp
    <2> QED
      BY <1>1, <1>2, <1>3, <2>1 DEF Promise!vars
  <1>5. CASE ~(attempts + 1 < Retries)
    <2>1. pc' = "idle" /\ result' = "false"
      BY <1>5 DEF AttemptFailed, LoopOrGiveUp
    <2>2. Promise!GiveUp
      BY <1>1, <1>2, <1>3, <2>1 DEF Promise!GiveUp
    <2> QED
      BY <2>2 DEF Promise!Next
  <1> QED
    BY <1>4, <1>5

(* Step implements LoadPromise: through any sequence of outcomes a call    *)
(* only ever replaces the state it will hand back by an equilibrium under  *)
(* a larger part of its loads, and returns true exactly when that part is  *)
(* all of them up to the tolerance.                                        *)
THEOREM KeepsPromise == Spec => KeepsLoadPromise
  <1>1. Init => Promise!Init
    BY DEF Init, Promise!Init, InitialState, Visible
  <1>2. Inv /\ [Next]_vars => [Promise!Next]_(Promise!vars)
    <2> SUFFICES ASSUME Inv, [Next]_vars PROVE [Promise!Next]_(Promise!vars)
      OBVIOUS
    <2>1. CASE SetLoads \/ BeginStatic \/ \E o \in Outcomes : DynamicStep(o)
      BY <2>1, IdleStepsArePromised
    <2>2. CASE AttemptConverged
      BY <2>2, ConvergedIsPromised
    <2>3. CASE \E o \in Outcomes \ {"converged"} : AttemptFailed(o)
      BY <2>3, FailedIsPromised
    <2>4. CASE UNCHANGED vars
      BY <2>4 DEF vars, factorVars, Promise!vars, Visible
    <2> QED
      BY <2>1, <2>2, <2>3, <2>4 DEF Next, Attempt
  <1> QED
    BY <1>1, <1>2, Invariance, PTL DEF Spec, KeepsLoadPromise, Promise!Spec
=============================================================================
