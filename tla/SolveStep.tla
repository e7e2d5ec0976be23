----------------------------- MODULE SolveStep -----------------------------
(***************************************************************************)
(* One nonlinear solve of kynema-fmb: the Newton loop SolveStep of         *)
(* src/src/step/step.hpp, phase by phase, and ExtractSystemMatrices of     *)
(* src/src/step/extract_system_matrices.hpp, which runs some of the same   *)
(* phases on the same storage.                                             *)
(*                                                                         *)
(* Numbers are abstracted to where they come from.  The iterate (q,        *)
(* q_delta, v, vd: always updated together) is a version number; every     *)
(* quantity computed from it remembers the version it was computed at; the *)
(* matrix A and the right-hand side b are the sets of contributions summed *)
(* into them since they were last zeroed.  A forgotten reset, a phase in   *)
(* the wrong order or a stale element buffer shows up as a contribution    *)
(* that should not be there.                                               *)
(*                                                                         *)
(* A definition whose name ends in an underscore and a word, such as       *)
(* ResetSolver_KeepsMatrix, is a seeded fault: a form the code might       *)
(* wrongly have had.  No specification uses it; it shows that a property   *)
(* of this module can fail.                                                *)
(***************************************************************************)
EXTENDS Integers, Sequences

CONSTANTS
  MaxIter,    \* parameters.max_iter
  MaxCalls    \* bound: calls of SolveStep and of ExtractSystemMatrices

ASSUME SolveStepAssumption == MaxIter \in Nat /\ MaxCalls \in Nat

VARIABLES
  pc,          \* the phase about to run; "idle" between two calls
  mesh,        \* the kinds of element with num_elems > 0
  constrained, \* constraints.num_constraints > 0
  calls,       \* calls made so far (bound only)
  iter,        \* the loop counter
  err,         \* the last convergence error: "large" (> 1), "small" or "nan"
  history,     \* solver.convergence_err
  result,      \* what the last call returned
  timeStep,    \* state.time_step
  q,           \* version of the iterate
  lam,         \* updates added to constraints.lambda since it was zeroed
  accel,       \* state.a: "predicted" or "corrected" for the present step
  tangent,     \* version state.tangent was computed at
  elem,        \* element storage: [at: version, pass: which parameters]
  cons,        \* constraint storage: [at, lam, tangent: include_tangent]
  A,           \* contributions summed into solver.A
  b,           \* contributions summed into solver.b
  x,           \* version state.x (global positions) was computed at
  hostOutput,  \* version constraints.host_output was computed at
  pass,        \* the pass ExtractSystemMatrices is in, "none" outside of it
  extracted    \* the matrices ExtractSystemMatrices last returned

solverVars == <<A, b>>
stateVars  == <<timeStep, q, accel, tangent, x>>
consVars   == <<lam, cons, hostOutput>>
loopVars   == <<iter, err, history, result>>
callVars   == <<mesh, constrained, calls, pass, extracted>>
vars == <<pc, solverVars, stateVars, consVars, loopVars, callVars, elem>>

----------------------------------------------------------------------------
(* What each kind of storage holds and what it contributes.                *)

ElementKinds == {"beams", "masses", "springs"}

\* A spring's terms do not depend on the integrator parameters or on the
\* pass: UpdateSystemVariablesSprings takes no parameters.
TermsPass(kind, params) == IF kind = "springs" THEN "any" ELSE params

ElementMatrix(kinds, at, params) ==
  {[kind |-> k, at |-> at, pass |-> TermsPass(k, params)] : k \in kinds}

ElementResidual(kinds, at) ==
  {[kind |-> k, at |-> at] : k \in kinds \cup {"forces"}}

ConstraintMatrix(c) ==
  {[kind |-> k, at |-> c.at, tangent |-> c.tangent] :
      k \in {"gradient", "gradientTranspose"}}

ConstraintResidual(c) ==
  {[kind |-> k, at |-> c.at, lam |-> c.lam] :
      k \in {"systemResidual", "lambda", "residual"}}

\* AssembleSystemMatrix skips the springs unless include_stiffness is set.
Stiff(params) == params \in {"step", "stiffness"}
MatrixKinds(params) == IF Stiff(params) THEN mesh ELSE mesh \ {"springs"}

\* The loop condition err > 1.: false for a NaN.
LoopEnds == err # "large"

IterationsLeft_OffByOne == iter <= MaxIter
IterationsLeft == iter < MaxIter

NextIter_NotCounted == iter
NextIter == iter + 1

\* UpdateLambdaPrediction adds the solution to lambda.
UpdatedLambda_SkipsLast == IF constrained /\ ~LoopEnds THEN lam + 1 ELSE lam
UpdatedLambda == IF constrained THEN lam + 1 ELSE lam

Never == [at |-> 0, lam |-> 0, tangent |-> TRUE]
NoMatrices == [mass |-> {}, stiffness |-> {}, damping |-> {}, constraint |-> {}]

----------------------------------------------------------------------------
Init ==
  /\ pc = "idle"
  /\ mesh \in SUBSET ElementKinds
  /\ constrained \in BOOLEAN
  /\ calls = 0
  /\ iter = 0
  /\ err = "large"
  /\ history = <<>>
  /\ result = "none"
  /\ timeStep = 0
  /\ q = 1
  /\ lam = 0
  /\ accel = "corrected"
  /\ tangent = 0
  /\ elem = [at |-> 0, pass |-> "none"]
  /\ cons = Never
  /\ A = {}
  /\ b = {}
  /\ pass = "none"
  /\ x = 1
  /\ hostOutput = 0
  /\ extracted = NoMatrices

\* A call: PredictNextState moves the state to the next time step and writes
\* a first guess; ResetConstraints zeroes lambda; the history is cleared.
PredictNextState ==
  /\ pc = "idle"
  /\ calls < MaxCalls
  /\ calls' = calls + 1
  /\ q' = q + 1
  /\ accel' = "predicted"
  /\ timeStep' = timeStep + 1
  /\ lam' = 0
  /\ history' = <<>>
  /\ err' = "large"
  /\ iter' = 0
  /\ result' = "none"
  /\ pc' = "loop"
  /\ UNCHANGED <<solverVars, tangent, x, cons, hostOutput, elem,
                 mesh, constrained, pass, extracted>>

\* The head of the loop when the error is still above one and iterations are
\* left: ResetSolver zeroes A and b.
ResetSolver_KeepsMatrix ==
  /\ pc = "loop"
  /\ ~LoopEnds
  /\ IterationsLeft
  /\ b' = {}
  /\ pc' = "tangent"
  /\ UNCHANGED <<A, stateVars, consVars, loopVars, callVars, elem>>
ResetSolver ==
  /\ pc = "loop"
  /\ ~LoopEnds
  /\ IterationsLeft
  /\ A' = {}
  /\ b' = {}
  /\ pc' = "tangent"
  /\ UNCHANGED <<stateVars, consVars, loopVars, callVars, elem>>

\* The early return of a solve that did not converge: nothing after the loop
\* runs, so x, a and the constraint outputs keep what they had.
ReturnNotConverged_Publishes ==
  /\ pc = "loop"
  /\ ~LoopEnds
  /\ ~IterationsLeft
  /\ result' = "false"
  /\ x' = q
  /\ pc' = "idle"
  /\ UNCHANGED <<solverVars, timeStep, q, accel, tangent, consVars, iter,
                 err, history, callVars, elem>>
ReturnNotConverged ==
  /\ pc = "loop"
  /\ ~LoopEnds
  /\ ~IterationsLeft
  /\ result' = "false"
  /\ pc' = "idle"
  /\ UNCHANGED <<solverVars, stateVars, consVars, iter, err, history,
                 callVars, elem>>

UpdateTangentOperator ==
  /\ pc = "tangent"
  /\ tangent' = q
  /\ pc' = "elements"
  /\ UNCHANGED <<solverVars, timeStep, q, accel, x, consVars, loopVars,
                 callVars, elem>>

UpdateSystemVariables ==
  /\ pc = "elements"
  /\ elem' = [at |-> q, pass |-> "step"]
  /\ pc' = "residual"
  /\ UNCHANGED <<solverVars, stateVars, consVars, loopVars, callVars>>

AssembleSystemResidual ==
  /\ pc = "residual"
  /\ b' = b \cup ElementResidual(mesh, elem.at)
  /\ pc' = "matrix"
  /\ UNCHANGED <<A, stateVars, consVars, loopVars, callVars, elem>>

AssembleSystemMatrix ==
  /\ pc = "matrix"
  /\ A' = A \cup ElementMatrix(MatrixKinds("step"), elem.at, elem.pass)
  /\ pc' = "constraints"
  /\ UNCHANGED <<b, stateVars, consVars, loopVars, callVars, elem>>

\* UpdateConstraintVariables returns at once when there are no constraints.
UpdateConstraintVariables ==
  /\ pc = "constraints"
  /\ cons' = IF constrained
             THEN [at |-> q, lam |-> lam, tangent |-> TRUE]
             ELSE cons
  /\ pc' = "constraintMatrix"
  /\ UNCHANGED <<solverVars, stateVars, lam, hostOutput, loopVars, callVars,
                 elem>>

AssembleConstraintsMatrix ==
  /\ pc = "constraintMatrix"
  /\ A' = A \cup (IF constrained THEN ConstraintMatrix(cons) ELSE {})
  /\ pc' = "constraintResidual"
  /\ UNCHANGED <<b, stateVars, consVars, loopVars, callVars, elem>>

AssembleConstraintsResidual ==
  /\ pc = "constraintResidual"
  /\ b' = b \cup (IF constrained THEN ConstraintResidual(cons) ELSE {})
  /\ pc' = "solve"
  /\ UNCHANGED <<A, stateVars, consVars, loopVars, callVars, elem>>

\* SolveSystem and CalculateConvergenceError: the size of the update, and so
\* the error, depends on the data; a singular system or overflow gives NaN.
SolveSystem ==
  /\ pc = "solve"
  /\ \E e \in {"large", "small", "nan"} :
       /\ err' = e
       /\ history' = Append(history, e)
  /\ pc' = "update"
  /\ UNCHANGED <<solverVars, stateVars, consVars, iter, result, callVars,
                 elem>>

\* UpdateStatePrediction and UpdateConstraintPrediction: the solution is
\* added to the iterate and to lambda, whatever the error was; then ++iter.
UpdatePrediction ==
  /\ pc = "update"
  /\ q' = q + 1
  /\ lam' = UpdatedLambda
  /\ iter' = NextIter
  /\ pc' = "loop"
  /\ UNCHANGED <<solverVars, timeStep, accel, tangent, x, cons, hostOutput,
                 err, history, result, callVars, elem>>

\* The loop ends because err > 1 is false, which a NaN also makes it: the
\* acceleration, the global positions and the constraint outputs are updated
\* in both cases, and only the returned value tells them apart.
AcceptStep ==
  /\ pc = "loop"
  /\ LoopEnds
  /\ accel' = "corrected"
  /\ x' = q
  /\ hostOutput' = q
  /\ result' = IF err = "nan" THEN "false" ELSE "true"
  /\ pc' = "idle"
  /\ UNCHANGED <<solverVars, timeStep, q, tangent, lam, cons, iter, err,
                 history, callVars, elem>>

----------------------------------------------------------------------------
(* ExtractSystemMatrices: four passes over the same storage, each with its *)
(* own parameters, and a restoring pass with those of the caller.  Every   *)
(* pass adds to what A holds; only ResetSolver empties it.                 *)

NextPass == [mass       |-> "stiffness",
             stiffness  |-> "damping",
             damping    |-> "constraint",
             constraint |-> "restore"]

\* The parameters the element terms of a pass are computed with.
Parameters == IF pass = "restore" THEN "step" ELSE pass

\* The tangent operator is computed once, before the passes.
BeginExtract ==
  /\ pc = "idle"
  /\ calls < MaxCalls
  /\ calls' = calls + 1
  /\ tangent' = q
  /\ pass' = "mass"
  /\ pc' = "reset"
  /\ UNCHANGED <<solverVars, timeStep, q, accel, x, consVars, loopVars,
                 mesh, constrained, extracted, elem>>

\* ResetSolver at the head of a pass.
ExtractReset_FirstOnly ==
  /\ pc = "reset"
  /\ A' = IF pass = "mass" THEN {} ELSE A
  /\ b' = {}
  /\ pc' = IF pass = "constraint" THEN "gradients" ELSE "terms"
  /\ UNCHANGED <<stateVars, consVars, loopVars, callVars, elem>>
ExtractReset ==
  /\ pc = "reset"
  /\ A' = {}
  /\ b' = {}
  /\ pc' = IF pass = "constraint" THEN "gradients" ELSE "terms"
  /\ UNCHANGED <<stateVars, consVars, loopVars, callVars, elem>>

\* UpdateSystemVariables with the parameters of the pass; the restoring pass
\* computes the tangent operator once more.
ExtractElements ==
  /\ pc = "terms"
  /\ elem' = [at |-> q, pass |-> Parameters]
  /\ tangent' = IF pass = "restore" THEN q ELSE tangent
  /\ pc' = "assemble"
  /\ UNCHANGED <<solverVars, timeStep, q, accel, x, consVars, loopVars,
                 callVars>>

\* AssembleSystemMatrix: the call ends with that of the restoring pass, which
\* leaves A without the constraint terms.
ExtractAssembleElements ==
  /\ pc = "assemble"
  /\ A' = A \cup ElementMatrix(MatrixKinds(Parameters), elem.at, elem.pass)
  /\ pc' = IF pass = "restore" THEN "idle" ELSE "copy"
  /\ pass' = IF pass = "restore" THEN "none" ELSE pass
  /\ UNCHANGED <<b, stateVars, consVars, loopVars, mesh, constrained, calls,
                 extracted, elem>>

\* The constraint pass: gradients without the tangent operator.
ExtractGradients ==
  /\ pc = "gradients"
  /\ cons' = IF constrained
             THEN [at |-> q, lam |-> lam, tangent |-> FALSE]
             ELSE cons
  /\ pc' = "assembleGradients"
  /\ UNCHANGED <<solverVars, stateVars, lam, hostOutput, loopVars, callVars,
                 elem>>

ExtractAssembleGradients ==
  /\ pc = "assembleGradients"
  /\ A' = A \cup (IF constrained THEN ConstraintMatrix(cons) ELSE {})
  /\ pc' = "copy"
  /\ UNCHANGED <<b, stateVars, consVars, loopVars, callVars, elem>>

\* A.values is copied out.
ExtractCopy ==
  /\ pc = "copy"
  /\ extracted' = [extracted EXCEPT ![pass] = A]
  /\ pass' = NextPass[pass]
  /\ pc' = "reset"
  /\ UNCHANGED <<solverVars, stateVars, consVars, loopVars, mesh, constrained,
                 calls, elem>>

----------------------------------------------------------------------------
SolvePhase ==
  \/ ResetSolver
  \/ ReturnNotConverged
  \/ UpdateTangentOperator
  \/ UpdateSystemVariables
  \/ AssembleSystemResidual
  \/ AssembleSystemMatrix
  \/ UpdateConstraintVariables
  \/ AssembleConstraintsMatrix
  \/ AssembleConstraintsResidual
  \/ SolveSystem
  \/ UpdatePrediction
  \/ AcceptStep

ExtractPhase ==
  \/ ExtractReset
  \/ ExtractElements
  \/ ExtractAssembleElements
  \/ ExtractGradients
  \/ ExtractAssembleGradients
  \/ ExtractCopy

Next ==
  \/ PredictNextState
  \/ BeginExtract
  \/ SolvePhase
  \/ ExtractPhase

Spec == Init /\ [][Next]_vars

----------------------------------------------------------------------------
(* Properties.                                                             *)

Contribution ==
  [kind : ElementKinds, at : Nat, pass : {"none", "any", "step", "mass", "stiffness", "damping"}]
  \cup [kind : {"gradient", "gradientTranspose"}, at : Nat, tangent : BOOLEAN]
ResidualContribution ==
  [kind : ElementKinds \cup {"forces"}, at : Nat]
  \cup [kind : {"systemResidual", "lambda", "residual"}, at : Nat, lam : Nat]

Phases == {"idle", "loop", "tangent", "elements", "residual", "matrix",
           "constraints", "constraintMatrix", "constraintResidual", "solve",
           "update", "reset", "terms", "assemble", "gradients",
           "assembleGradients", "copy"}

TypeOK ==
  /\ pc \in Phases
  /\ pass \in {"none", "mass", "stiffness", "damping", "constraint", "restore"}
  /\ mesh \in SUBSET ElementKinds
  /\ constrained \in BOOLEAN
  /\ calls \in Nat
  /\ iter \in Nat
  /\ err \in {"large", "small", "nan"}
  /\ history \in Seq({"large", "small", "nan"})
  /\ result \in {"none", "true", "false"}
  /\ timeStep \in Nat /\ q \in Nat /\ lam \in Nat
  /\ accel \in {"predicted", "corrected"}
  /\ tangent \in Nat /\ x \in Nat /\ hostOutput \in Nat
  /\ elem \in [at : Nat, pass : {"none", "step", "mass", "stiffness", "damping"}]
  /\ cons \in [at : Nat, lam : Nat, tangent : BOOLEAN]
  /\ A \in SUBSET Contribution
  /\ b \in SUBSET ResidualContribution
  /\ extracted \in [{"mass", "stiffness", "damping", "constraint"} ->
                      SUBSET Contribution]

\* The linear system of this iteration, all of it and nothing else, as a
\* function of the present iterate.
NewtonMatrix ==
  ElementMatrix(mesh, q, "step")
    \cup (IF constrained
          THEN ConstraintMatrix([at |-> q, lam |-> lam, tangent |-> TRUE])
          ELSE {})
NewtonResidual ==
  ElementResidual(mesh, q)
    \cup (IF constrained
          THEN ConstraintResidual([at |-> q, lam |-> lam, tangent |-> TRUE])
          ELSE {})

(* Whenever the linear system is solved, A and b hold exactly the terms of *)
(* the present iterate and multipliers: nothing of an earlier iteration,   *)
(* an earlier call or a pass of ExtractSystemMatrices, and nothing missing.*)
SolvesPresentIterate ==
  pc = "solve" =>
    /\ A = NewtonMatrix
    /\ b = NewtonResidual
    /\ tangent = q

(* A call that returned true leaves the global positions, the acceleration *)
(* and the constraint outputs consistent with the iterate it converged to, *)
(* and lambda holds one increment per linear solve of this call.           *)
ConvergedStateIsConsistent ==
  pc = "idle" /\ result = "true" =>
    /\ x = q
    /\ hostOutput = q
    /\ accel = "corrected"
    /\ constrained => lam = Len(history)

(* convergence_err is the history of one call and accounts for what it     *)
(* returned: every entry but the last is above one; the last is within     *)
(* tolerance exactly if the call returned true; a call that gave up used   *)
(* all its iterations.                                                     *)
HistoryExplainsResult ==
  pc = "idle" /\ result # "none" =>
    /\ Len(history) <= MaxIter
    /\ \A i \in 1 .. Len(history) - 1 : history[i] = "large"
    /\ result = "true" <=>
         /\ Len(history) > 0
         /\ history[Len(history)] = "small"
    /\ Len(history) = 0 \/ history[Len(history)] = "large" =>
         Len(history) = MaxIter

(* A step that runs out of iterations publishes nothing: positions and     *)
(* constraint outputs change only when the loop ended by its error, so     *)
(* after an unsuccessful return they are those of an earlier step, unless  *)
(* the error was NaN.                                                      *)
OnlyFinishedLoopsPublish ==
  [][ \/ x' # x
      \/ hostOutput' # hostOutput
      \/ accel = "predicted" /\ accel' = "corrected"
      => history # <<>> /\ history[Len(history)] # "large" ]_vars

(* Each extracted matrix holds the terms of its own pass only, though all  *)
(* are summed up in the A of the solver, which a solve or another pass has *)
(* filled before: no springs in the mass and damping matrices, no element  *)
(* terms in the constraint matrix, no tangent operator in the constraint   *)
(* gradients.  The call hands the element storage back as a step leaves it.*)
ExtractedMatricesArePure ==
  /\ pass = "restore" =>
       /\ \A p \in {"mass", "damping"} :
            extracted[p] = ElementMatrix(mesh \ {"springs"}, q, p)
       /\ extracted.stiffness = ElementMatrix(mesh, q, "stiffness")
       /\ extracted.constraint =
            IF constrained
            THEN ConstraintMatrix([at |-> q, lam |-> lam, tangent |-> FALSE])
            ELSE {}
  /\ pc = "idle" => elem.pass \in {"none", "step"}

(* How far a call is from its return: the phases left in this iteration or *)
(* pass, and the iterations or passes left after it.                       *)
PhasesLeft ==
  [loop |-> 11, tangent |-> 10, elements |-> 9, residual |-> 8, matrix |-> 7,
   constraints |-> 6, constraintMatrix |-> 5, constraintResidual |-> 4,
   solve |-> 3, update |-> 2,
   reset |-> 4, terms |-> 3, gradients |-> 3, assemble |-> 2,
   assembleGradients |-> 2, copy |-> 1]
PassesLeft ==
  [mass |-> 4, stiffness |-> 3, damping |-> 2, constraint |-> 1, restore |-> 0]
RoundsLeft == IF pass = "none" THEN MaxIter - iter ELSE PassesLeft[pass]
Distance == IF pc = "idle" THEN 0 ELSE PhasesLeft[pc] + 11 * RoundsLeft

(* Every call returns: each phase brings it closer to its return, whatever *)
(* the errors of the linear solves are, and the way is never longer than   *)
(* max_iter iterations.                                                    *)
EveryCallCountsDown == [][pc # "idle" => 0 <= Distance' /\ Distance' < Distance]_vars
============================================================================
