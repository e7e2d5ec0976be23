---------------------------- MODULE LoadStepping ----------------------------
(***************************************************************************)
(* Step of src/src/step/step.hpp: one dynamic solve, or the static load    *)
(* reduction that bisects a load factor, with the snapshot it rolls back   *)
(* to (CloneState, CopyStateData of src/src/state).  The nonlinear solve   *)
(* itself is module SolveStep; here it is one action with three outcomes.  *)
(*                                                                         *)
(* The code halves a double at each failed attempt, which is exact for as  *)
(* many halvings as it makes.  Here the factors low, cur and high are      *)
(* integers over a common denominator den, and a failure doubles den       *)
(* instead: the arithmetic stays exact and linear.                         *)
(*                                                                         *)
(* The numbers in a state are abstracted to what they solve: q (with v,    *)
(* vd, a, q_delta) is "initial", in "equilibrium" with some loads, an      *)
(* unconverged "iterate", or "nan"; x is the content q had when the global *)
(* positions were last computed.  Loads are a fraction of what the caller  *)
(* applied.  A definition whose name ends in an underscore and a word is a *)
(* seeded fault (see module SolveStep).                                    *)
(***************************************************************************)
EXTENDS Integers, FiniteSets

CONSTANTS
  Retries,   \* parameters.static_load_retries
  InvTol,    \* inverse of the tolerance on the load factor, 1e-10 in the code
  MaxCalls   \* bound: calls of Step, and of the caller's load changes

ASSUME LoadSteppingAssumption ==
  /\ Retries \in Nat
  /\ InvTol \in Nat \ {0}
  /\ MaxCalls \in Nat

VARIABLES
  pc,          \* "idle", or "attempt" inside the load reduction loop
  dynamic,     \* parameters.is_dynamic_solve
  calls,       \* calls of Step so far (bound), which also numbers the loads
  state,       \* the State: [q, x, f, timeStep]
  saved,       \* state_last_converged
  hostOutput,  \* content constraints.host_output was computed from
  entry,       \* the State as Step found it; entry.f is loads_baseline
  attempts,    \* j
  commits,     \* attempts of this call that converged
  low, cur, high, den,
  result       \* what the last call returned

factorVars == <<low, cur, high, den>>
vars == <<pc, dynamic, calls, state, saved, hostOutput, entry, attempts,
          commits, factorVars, result>>

----------------------------------------------------------------------------
Loads == [id : Nat, num : Nat \ {0}, den : Nat \ {0}]
Content == [kind : {"initial", "iterate", "nan"}]
             \cup [kind : {"equilibrium"}, load : Loads]
StateData == [q : Content, x : Content, f : Loads, timeStep : Nat]

Outcomes == {"converged", "stopped", "nan"}

\* The ScaleLoads kernel: state.f = loads_baseline * load_factor_current.
Scaled_FromCurrent(base, n, d) ==
  [id |-> base.id, num |-> state.f.num * n, den |-> state.f.den * d]
Scaled(base, n, d) == [id |-> base.id, num |-> base.num * n, den |-> base.den * d]

\* Two fractions of the same loads are equal.
SameLoads(f, g) == f.id = g.id /\ f.num * g.den = g.num * f.den

Solution(outcome, f) ==
  CASE outcome = "converged" -> [kind |-> "equilibrium", load |-> f]
    [] outcome = "stopped"   -> [kind |-> "iterate"]
    [] outcome = "nan"       -> [kind |-> "nan"]

\* The effect of SolveStep on the State: the time step is counted and q is
\* overwritten whatever happens; the positions only if the loop ended by its
\* error, which a NaN also does.
Solved(s, outcome) ==
  [q        |-> Solution(outcome, s.f),
   x        |-> IF outcome = "stopped" THEN s.x ELSE Solution(outcome, s.f),
   f        |-> s.f,
   timeStep |-> s.timeStep + 1]

\* constraints.host_output is written on the same condition as x.
OutputAfter(outcome, f) ==
  IF outcome = "stopped" THEN hostOutput ELSE Solution(outcome, f)

\* std::abs(load_factor_current - 1.) < 1e-10
FullLoad(n, d) == (d - n) * InvTol < d

\* load_factor_current = 0.5 * (low + high) once high is the factor that
\* failed, over the doubled denominator.
Midpoint_IgnoresLow == cur
Midpoint == low + cur

----------------------------------------------------------------------------
NoLoads == [id |-> 0, num |-> 1, den |-> 1]
InitialState == [q |-> [kind |-> "initial"], x |-> [kind |-> "initial"],
                 f |-> NoLoads, timeStep |-> 0]

Init ==
  /\ pc = "idle"
  /\ dynamic \in BOOLEAN
  /\ calls = 0
  /\ state = InitialState
  /\ saved = InitialState
  /\ hostOutput = [kind |-> "initial"]
  /\ entry = InitialState
  /\ attempts = 0
  /\ commits = 0
  /\ low = 0 /\ cur = 1 /\ high = 1 /\ den = 1
  /\ result = "none"

\* The caller writes new loads into state.f between two steps.
SetLoads ==
  /\ pc = "idle"
  /\ calls < MaxCalls
  /\ state.f.id # calls + 1
  /\ state' = [state EXCEPT !.f = [id |-> calls + 1, num |-> 1, den |-> 1]]
  /\ result' = "none"
  /\ UNCHANGED <<pc, dynamic, calls, saved, hostOutput, entry, attempts,
                 commits, factorVars>>

\* Dynamic analysis: a single solve, and nothing is rolled back.
DynamicStep(outcome) ==
  /\ pc = "idle"
  /\ dynamic
  /\ calls < MaxCalls
  /\ calls' = calls + 1
  /\ entry' = state
  /\ state' = Solved(state, outcome)
  /\ hostOutput' = OutputAfter(outcome, state.f)
  /\ result' = IF outcome = "converged" THEN "true" ELSE "false"
  /\ UNCHANGED <<pc, dynamic, saved, attempts, commits, factorVars>>

\* Static analysis: record the baseline loads, clone the state.
BeginStatic ==
  /\ pc = "idle"
  /\ ~dynamic
  /\ calls < MaxCalls
  /\ calls' = calls + 1
  /\ entry' = state
  /\ saved' = state
  /\ attempts' = 0
  /\ commits' = 0
  /\ low' = 0 /\ cur' = 1 /\ high' = 1 /\ den' = 1
  /\ result' = IF Retries = 0 THEN "false" ELSE "none"
  /\ pc' = IF Retries = 0 THEN "idle" ELSE "attempt"
  /\ UNCHANGED <<dynamic, state, hostOutput>>

ScaledState == [state EXCEPT !.f = Scaled(entry.f, cur, den)]

\* The loop goes round until the retries are used up, then returns solved,
\* which is still false.
LoopOrGiveUp ==
  IF attempts + 1 < Retries
  THEN pc' = "attempt" /\ result' = "none"
  ELSE pc' = "idle" /\ result' = "false"

\* A converged attempt becomes the new snapshot.  At full load the call
\* returns true; below it, full load is tried next.
AttemptConverged ==
  /\ pc = "attempt"
  /\ state' = Solved(ScaledState, "converged")
  /\ saved' = state'
  /\ hostOutput' = OutputAfter("converged", ScaledState.f)
  /\ attempts' = attempts + 1
  /\ commits' = commits + 1
  /\ IF FullLoad(cur, den)
     THEN pc' = "idle" /\ result' = "true" /\ UNCHANGED factorVars
     ELSE /\ low' = cur
          /\ cur' = den
          /\ UNCHANGED <<high, den>>
          /\ LoopOrGiveUp
  /\ UNCHANGED <<dynamic, calls, entry>>

\* A failed attempt: the present factor is the new upper bound, the midpoint
\* is tried next, and the state is rolled back to the snapshot.  The
\* constraint outputs are not part of the State and stay as they are.
AttemptFailed_NoRollback(outcome) ==
  /\ pc = "attempt"
  /\ state' = Solved(ScaledState, outcome)
  /\ hostOutput' = OutputAfter(outcome, ScaledState.f)
  /\ attempts' = attempts + 1
  /\ den' = 2 * den
  /\ low' = 2 * low
  /\ high' = 2 * cur
  /\ cur' = Midpoint
  /\ LoopOrGiveUp
  /\ UNCHANGED <<dynamic, calls, saved, entry, commits>>
AttemptFailed(outcome) ==
  /\ pc = "attempt"
  /\ state' = saved
  /\ hostOutput' = OutputAfter(outcome, ScaledState.f)
  /\ attempts' = attempts + 1
  /\ den' = 2 * den
  /\ low' = 2 * low
  /\ high' = 2 * cur
  /\ cur' = Midpoint
  /\ LoopOrGiveUp
  /\ UNCHANGED <<dynamic, calls, saved, entry, commits>>

Attempt == AttemptConverged \/ \E o \in Outcomes \ {"converged"} : AttemptFailed(o)

Next ==
  \/ SetLoads
  \/ \E o \in Outcomes : DynamicStep(o)
  \/ BeginStatic
  \/ Attempt

Spec == Init /\ [][Next]_vars

----------------------------------------------------------------------------
(* Properties.                                                             *)

TypeOK ==
  /\ pc \in {"idle", "attempt"}
  /\ dynamic \in BOOLEAN
  /\ calls \in Nat
  /\ state \in StateData /\ saved \in StateData /\ entry \in StateData
  /\ hostOutput \in Content
  /\ attempts \in 0 .. Retries
  /\ commits \in 0 .. attempts
  /\ low \in Nat /\ cur \in Nat /\ high \in Nat /\ den \in Nat \ {0}
  /\ result \in {"none", "true", "false"}

\* s is in equilibrium with the fraction n/d of the loads base, and its own
\* loads are that fraction.
HoldsFraction(s, base, n, d) ==
  /\ s.q = [kind |-> "equilibrium", load |-> s.f]
  /\ SameLoads(s.f, Scaled(base, n, d))

(* Inside the load reduction loop the factor to try lies strictly above    *)
(* the largest factor that converged and never above full load; the        *)
(* snapshot is in equilibrium with exactly that largest factor of the      *)
(* baseline loads, or is the untouched state of the call if none did.      *)
SnapshotHoldsLowerBound ==
  pc = "attempt" =>
    /\ 0 <= low /\ low < cur /\ cur <= den
    /\ low = 0 => saved = entry
    /\ low > 0 => HoldsFraction(saved, entry.f, low, den)

(* A static Step that fails hands back a converged state: the one it was   *)
(* given, or one in equilibrium with the part of the loads left in state.f *)
(* and with positions that match.  An unconverged or NaN iterate is never  *)
(* left behind.                                                            *)
FailureKeepsConvergedState ==
  pc = "idle" /\ result = "false" /\ ~dynamic =>
    \/ state = entry
    \/ /\ state.q = [kind |-> "equilibrium", load |-> state.f]
       /\ state.x = state.q
       /\ state.f.num * entry.f.den < entry.f.num * state.f.den

(* A static Step advances time_step once for every attempt it keeps, and a *)
(* rolled-back attempt not at all.                                         *)
TimeStepCountsCommits ==
  ~dynamic /\ (pc = "attempt" \/ result # "none") =>
    state.timeStep = entry.timeStep + commits

\* The state a call would hand back now.
Visible == IF pc = "attempt" THEN saved ELSE state

Promise == INSTANCE LoadPromise WITH
  busy   <- pc = "attempt",
  shown  <- [q |-> Visible.q, f |-> Visible.f],
  goal   <- entry.f,
  held   <- low > 0

(* Step implements LoadPromise: whatever the outcomes of the solves, a     *)
(* call climbs through equilibria with ever larger parts of its loads and  *)
(* returns true only with all of them, up to the tolerance.                *)
KeepsLoadPromise == Promise!Spec
============================================================================
