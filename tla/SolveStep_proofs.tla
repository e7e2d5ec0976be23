-------------------------- MODULE SolveStep_proofs --------------------------
(***************************************************************************)
(* Proofs about module SolveStep, for every number of iterations and       *)
(* calls.  The argument is one inductive invariant in four parts: which    *)
(* pass a phase belongs to (PassInv), what the solver, the element and the *)
(* constraint storage hold in each phase (StorageInv), what has been       *)
(* copied out before each pass of ExtractSystemMatrices (ExtractInv), and  *)
(* how the loop counter, the error and its history are related (LoopInv).  *)
(* None of the properties is inductive by itself: each speaks of one phase *)
(* only.                                                                   *)
(***************************************************************************)
EXTENDS SolveStep, SequenceTheorems, TLAPS

Solving == {"loop", "tangent", "elements", "residual", "matrix",
            "constraints", "constraintMatrix", "constraintResidual", "solve",
            "update"}
Iterating == Solving \ {"loop", "update"}

ElementsReady == {"residual", "matrix", "constraints", "constraintMatrix",
                  "constraintResidual", "solve"}
ConstraintsReady == {"constraintMatrix", "constraintResidual"}

\* The passes that compute element terms, and those that copy a matrix out.
ElementPasses == {"mass", "stiffness", "damping", "restore"}
CopyPasses    == {"mass", "stiffness", "damping", "constraint"}

Present == [at |-> q, lam |-> lam, tangent |-> TRUE]

\* The matrix of the present pass, as a function of the present iterate.
PassMatrix ==
  IF pass = "constraint"
  THEN IF constrained
       THEN ConstraintMatrix([at |-> q, lam |-> lam, tangent |-> FALSE])
       ELSE {}
  ELSE ElementMatrix(MatrixKinds(pass), q, pass)

\* The phases a pass goes through.
PassInv ==
  /\ pc \in Solving \cup {"idle"} <=> pass = "none"
  /\ pc \in {"terms", "assemble"} => pass \in ElementPasses
  /\ pc \in {"gradients", "assembleGradients"} => pass = "constraint"
  /\ pc = "copy" => pass \in CopyPasses

\* What the storage holds in each phase of an iteration or a pass.
StorageInv ==
  /\ pc \in ElementsReady \cup {"elements"} => tangent = q
  /\ pc \in ElementsReady => elem = [at |-> q, pass |-> "step"]
  /\ pc \in ConstraintsReady => (constrained => cons = Present)
  /\ pc \in {"tangent", "elements", "residual", "matrix"} => A = {}
  /\ pc \in {"tangent", "elements", "residual"} => b = {}
  /\ pc \in {"constraints", "constraintMatrix"} => A = ElementMatrix(mesh, q, "step")
  /\ pc \in {"matrix", "constraints", "constraintMatrix", "constraintResidual"} =>
       b = ElementResidual(mesh, q)
  /\ pc \in {"constraintResidual", "solve"} => A = NewtonMatrix
  /\ pc = "solve" => b = NewtonResidual
  /\ pc \in {"terms", "assemble", "gradients", "assembleGradients"} => A = {}
  /\ pc = "assemble" => elem = [at |-> q, pass |-> Parameters]
  /\ pc = "assembleGradients" =>
       (constrained => cons = [at |-> q, lam |-> lam, tangent |-> FALSE])
  /\ pc = "copy" => A = PassMatrix
  /\ pass = "none" => elem.pass \in {"none", "step"}

\* What has been extracted before each pass.
ExtractInv ==
  /\ pass \in {"stiffness", "damping", "constraint", "restore"} =>
       extracted["mass"] = ElementMatrix(mesh \ {"springs"}, q, "mass")
  /\ pass \in {"damping", "constraint", "restore"} =>
       extracted["stiffness"] = ElementMatrix(mesh, q, "stiffness")
  /\ pass \in {"constraint", "restore"} =>
       extracted["damping"] = ElementMatrix(mesh \ {"springs"}, q, "damping")
  /\ pass = "restore" =>
       extracted["constraint"] =
         IF constrained
         THEN ConstraintMatrix([at |-> q, lam |-> lam, tangent |-> FALSE])
         ELSE {}

\* The counter, the error and the history; lambda has one increment per
\* entry of the history.
LoopInv ==
  /\ history = <<>> => err = "large"
  /\ history # <<>> => history[Len(history)] = err
  /\ \A i \in 1 .. Len(history) - 1 : history[i] = "large"
  /\ Len(history) <= MaxIter
  /\ pc \in Solving => result = "none"
  /\ pc \in Solving \ {"update"} =>
       iter = Len(history) /\ (constrained => lam = Len(history))
  /\ pc = "update" =>
       iter + 1 = Len(history) /\ (constrained => lam + 1 = Len(history))
  /\ pc \in Iterating => err = "large" /\ iter < MaxIter
  /\ result = "true" =>
       /\ err = "small"
       /\ history # <<>>
       /\ x = q /\ hostOutput = q /\ accel = "corrected"
       /\ constrained => lam = Len(history)
  /\ result = "false" =>
       /\ err # "small"
       /\ err = "large" => Len(history) = MaxIter

Inv == TypeOK /\ PassInv /\ StorageInv /\ ExtractInv /\ LoopInv

----------------------------------------------------------------------------
(* Type correctness.                                                       *)

Passes == {"none", "step", "mass", "stiffness", "damping"}

(* The terms of elements and constraints are contributions to the matrix   *)
(* and to the right-hand side.                                             *)
LEMMA ElementMatrixType ==
  ASSUME NEW kinds \in SUBSET ElementKinds, NEW at \in Nat, NEW params \in Passes
  PROVE  ElementMatrix(kinds, at, params) \in SUBSET Contribution
  BY DEF ElementMatrix, Contribution, TermsPass, ElementKinds, Passes

LEMMA ElementResidualType ==
  ASSUME NEW kinds \in SUBSET ElementKinds, NEW at \in Nat
  PROVE  ElementResidual(kinds, at) \in SUBSET ResidualContribution
  BY DEF ElementResidual, ResidualContribution, ElementKinds

LEMMA ConstraintType ==
  ASSUME NEW c \in [at : Nat, lam : Nat, tangent : BOOLEAN]
  PROVE  /\ ConstraintMatrix(c) \in SUBSET Contribution
         /\ ConstraintResidual(c) \in SUBSET ResidualContribution
  BY DEF ConstraintMatrix, ConstraintResidual, Contribution, ResidualContribution

LEMMA MatrixKindsType ==
  ASSUME mesh \in SUBSET ElementKinds, NEW params
  PROVE  MatrixKinds(params) \in SUBSET ElementKinds
  BY DEF MatrixKinds

(* Every variable of the solve stays in its type.                          *)
LEMMA TypeInit == Init => TypeOK
  <1> SUFFICES ASSUME Init PROVE TypeOK
    OBVIOUS
  <1>1. history \in Seq({"large", "small", "nan"})
    BY DEF Init
  <1> QED
    BY <1>1 DEF Init, TypeOK, Phases, Never, NoMatrices

LEMMA TypeStep == TypeOK /\ PassInv /\ [Next]_vars => TypeOK'
  <1> SUFFICES ASSUME TypeOK, PassInv, [Next]_vars PROVE TypeOK'
    OBVIOUS
  <1> USE DEF TypeOK, Phases, stateVars, solverVars, consVars, loopVars, callVars
  <1>1. CASE PredictNextState
    BY <1>1 DEF PredictNextState
  <1>2. CASE BeginExtract
    BY <1>2 DEF BeginExtract
  <1>3. CASE ResetSolver
    BY <1>3 DEF ResetSolver
  <1>4. CASE ReturnNotConverged
    BY <1>4 DEF ReturnNotConverged
  <1>5. CASE UpdateTangentOperator
    BY <1>5 DEF UpdateTangentOperator
  <1>6. CASE UpdateSystemVariables
    BY <1>6 DEF UpdateSystemVariables
  <1>7. CASE AssembleSystemResidual
    BY <1>7, ElementResidualType DEF AssembleSystemResidual
  <1>8. CASE AssembleSystemMatrix
    <2>1. ElementMatrix(MatrixKinds("step"), elem.at, elem.pass) \in SUBSET Contribution
      BY MatrixKindsType, ElementMatrixType DEF Passes
    <2> QED
      BY <1>8, <2>1 DEF AssembleSystemMatrix
  <1>9. CASE UpdateConstraintVariables
    BY <1>9 DEF UpdateConstraintVariables
  <1>10. CASE AssembleConstraintsMatrix
    BY <1>10, ConstraintType DEF AssembleConstraintsMatrix
  <1>11. CASE AssembleConstraintsResidual
    BY <1>11, ConstraintType DEF AssembleConstraintsResidual
  <1>12. CASE SolveSystem
    BY <1>12 DEF SolveSystem
  <1>13. CASE UpdatePrediction
    BY <1>13 DEF UpdatePrediction, UpdatedLambda, NextIter
  <1>14. CASE AcceptStep
    BY <1>14 DEF AcceptStep
  <1>15. CASE ExtractReset
    BY <1>15 DEF ExtractReset
  <1>16. CASE ExtractElements
    <2>1. Parameters \in Passes
      BY <1>16 DEF ExtractElements, PassInv, ElementPasses, Parameters, Passes
    <2> QED
      BY <1>16, <2>1 DEF ExtractElements, Passes
  <1>17. CASE ExtractAssembleElements
    <2>1. ElementMatrix(MatrixKinds(Parameters), elem.at, elem.pass) \in SUBSET Contribution
      BY MatrixKindsType, ElementMatrixType DEF Passes
    <2> QED
      BY <1>17, <2>1 DEF ExtractAssembleElements
  <1>18. CASE ExtractGradients
    BY <1>18 DEF ExtractGradients
  <1>19. CASE ExtractAssembleGradients
    BY <1>19, ConstraintType DEF ExtractAssembleGradients
  <1>20. CASE ExtractCopy
    <2>1. pass \in CopyPasses
      BY <1>20 DEF ExtractCopy, PassInv
    <2>2. NextPass[pass] \in {"stiffness", "damping", "constraint", "restore"}
      BY <2>1 DEF CopyPasses, NextPass
    <2> QED
      BY <1>20, <2>1, <2>2 DEF ExtractCopy, CopyPasses
  <1>21. CASE UNCHANGED vars
    BY <1>21 DEF vars
  <1> QED
    BY <1>1, <1>2, <1>3, <1>4, <1>5, <1>6, <1>7, <1>8, <1>9, <1>10, <1>11,
       <1>12, <1>13, <1>14, <1>15, <1>16, <1>17, <1>18, <1>19, <1>20, <1>21
       DEF Next, SolvePhase, ExtractPhase

(* Each phase is one of the pass it belongs to.                            *)
LEMMA PassStep == TypeOK /\ PassInv /\ [Next]_vars => PassInv'
  <1> SUFFICES ASSUME TypeOK, PassInv, [Next]_vars PROVE PassInv'
    OBVIOUS
  <1> USE DEF PassInv, Solving, ElementPasses, CopyPasses, solverVars, stateVars,
              consVars, loopVars, callVars
  <1>1. CASE PredictNextState
    BY <1>1 DEF PredictNextState
  <1>2. CASE BeginExtract
    BY <1>2 DEF BeginExtract
  <1>3. CASE SolvePhase
    BY <1>3 DEF SolvePhase, ResetSolver, ReturnNotConverged,
       UpdateTangentOperator, UpdateSystemVariables, AssembleSystemResidual,
       AssembleSystemMatrix, UpdateConstraintVariables,
       AssembleConstraintsMatrix, AssembleConstraintsResidual, SolveSystem,
       UpdatePrediction, AcceptStep
  <1>4. CASE ExtractReset
    BY <1>4 DEF ExtractReset, TypeOK
  <1>5. CASE ExtractElements
    BY <1>5 DEF ExtractElements
  <1>6. CASE ExtractAssembleElements
    BY <1>6 DEF ExtractAssembleElements
  <1>7. CASE ExtractGradients
    BY <1>7 DEF ExtractGradients
  <1>8. CASE ExtractAssembleGradients
    BY <1>8 DEF ExtractAssembleGradients
  <1>9. CASE ExtractCopy
    <2>1. NextPass[pass] # "none"
      BY <1>9 DEF ExtractCopy, NextPass
    <2> QED
      BY <1>9, <2>1 DEF ExtractCopy
  <1>10. CASE UNCHANGED vars
    BY <1>10 DEF vars
  <1> QED
    BY <1>1, <1>2, <1>3, <1>4, <1>5, <1>6, <1>7, <1>8, <1>9, <1>10
       DEF Next, ExtractPhase

----------------------------------------------------------------------------
(* The inductive invariant.                                                *)

LEMMA MatrixKindsOfPass ==
  ASSUME mesh \in SUBSET ElementKinds
  PROVE  /\ MatrixKinds("step") = mesh
         /\ MatrixKinds("stiffness") = mesh
         /\ MatrixKinds("mass") = mesh \ {"springs"}
         /\ MatrixKinds("damping") = mesh \ {"springs"}
  BY DEF MatrixKinds, Stiff

LEMMA InvInit == Init => Inv
  <1> SUFFICES ASSUME Init PROVE Inv
    OBVIOUS
  <1>1. TypeOK
    BY TypeInit
  <1>2. PassInv /\ StorageInv /\ ExtractInv
    BY DEF Init, PassInv, StorageInv, ExtractInv, ElementsReady, ConstraintsReady
  <1>3. LoopInv
    <2>1. history = <<>> /\ Len(history) = 0
      BY DEF Init
    <2> QED
      BY <2>1, SolveStepAssumption DEF Init, LoopInv, Solving, Iterating
  <1> QED
    BY <1>1, <1>2, <1>3 DEF Inv

(* Each phase leaves in the storage what the next one expects.             *)
LEMMA StorageStep == Inv /\ [Next]_vars => StorageInv'
  <1> SUFFICES ASSUME Inv, [Next]_vars PROVE StorageInv'
    OBVIOUS
  <1> USE DEF Inv, PassInv, StorageInv, Solving, ElementPasses, CopyPasses,
              ElementsReady, ConstraintsReady, Present,
              stateVars, solverVars, consVars, loopVars, callVars
  <1>1. CASE PredictNextState
    BY <1>1 DEF PredictNextState
  <1>2. CASE BeginExtract
    BY <1>2 DEF BeginExtract
  <1>3. CASE ResetSolver
    BY <1>3 DEF ResetSolver
  <1>4. CASE ReturnNotConverged
    BY <1>4 DEF ReturnNotConverged
  <1>5. CASE UpdateTangentOperator
    BY <1>5 DEF UpdateTangentOperator
  <1>6. CASE UpdateSystemVariables
    BY <1>6 DEF UpdateSystemVariables
  <1>7. CASE AssembleSystemResidual
    <2>1. b' = ElementResidual(mesh, q)
      BY <1>7 DEF AssembleSystemResidual
    <2> QED
      BY <1>7, <2>1 DEF AssembleSystemResidual
  <1>8. CASE AssembleSystemMatrix
    <2>1. A' = ElementMatrix(mesh, q, "step")
      BY <1>8, MatrixKindsOfPass DEF AssembleSystemMatrix, TypeOK
    <2> QED
      BY <1>8, <2>1 DEF AssembleSystemMatrix
  <1>9. CASE UpdateConstraintVariables
    BY <1>9 DEF UpdateConstraintVariables
  <1>10. CASE AssembleConstraintsMatrix
    <2>1. A' = NewtonMatrix
      BY <1>10 DEF AssembleConstraintsMatrix, NewtonMatrix
    <2>2. NewtonMatrix' = NewtonMatrix
      BY <1>10 DEF AssembleConstraintsMatrix, NewtonMatrix
    <2> QED
      BY <1>10, <2>1, <2>2 DEF AssembleConstraintsMatrix
  <1>11. CASE AssembleConstraintsResidual
    <2>1. b' = NewtonResidual
      BY <1>11 DEF AssembleConstraintsResidual, NewtonResidual
    <2>2. NewtonResidual' = NewtonResidual /\ NewtonMatrix' = NewtonMatrix
      BY <1>11 DEF AssembleConstraintsResidual, NewtonResidual, NewtonMatrix
    <2> QED
      BY <1>11, <2>1, <2>2 DEF AssembleConstraintsResidual
  <1>12. CASE SolveSystem
    BY <1>12 DEF SolveSystem
  <1>13. CASE UpdatePrediction
    BY <1>13 DEF UpdatePrediction
  <1>14. CASE AcceptStep
    BY <1>14 DEF AcceptStep
  <1>15. CASE ExtractReset
    BY <1>15 DEF ExtractReset
  <1>16. CASE ExtractElements
    <2>1. Parameters' = Parameters
      BY <1>16 DEF ExtractElements, Parameters
    <2> QED
      BY <1>16, <2>1 DEF ExtractElements
  <1>17. CASE ExtractAssembleElements
    <2>1. CASE pass = "restore"
      BY <1>17, <2>1 DEF ExtractAssembleElements, Parameters
    <2>2. CASE pass # "restore"
      <3>1. A' = ElementMatrix(MatrixKinds(pass), q, pass) /\ pass # "constraint"
        BY <1>17, <2>2 DEF ExtractAssembleElements, Parameters
      <3>2. PassMatrix' = PassMatrix
        BY <1>17, <2>2 DEF ExtractAssembleElements, PassMatrix, MatrixKinds
      <3> QED
        BY <1>17, <2>2, <3>1, <3>2 DEF ExtractAssembleElements, PassMatrix
    <2> QED
      BY <2>1, <2>2
  <1>18. CASE ExtractGradients
    BY <1>18 DEF ExtractGradients
  <1>19. CASE ExtractAssembleGradients
    <2>1. A' = PassMatrix
      BY <1>19 DEF ExtractAssembleGradients, PassMatrix
    <2>2. PassMatrix' = PassMatrix
      BY <1>19 DEF ExtractAssembleGradients, PassMatrix, MatrixKinds
    <2> QED
      BY <1>19, <2>1, <2>2 DEF ExtractAssembleGradients
  <1>20. CASE ExtractCopy
    <2>1. NextPass[pass] # "none"
      BY <1>20 DEF ExtractCopy, NextPass
    <2> QED
      BY <1>20, <2>1 DEF ExtractCopy
  <1>21. CASE UNCHANGED vars
    BY <1>21 DEF vars, NewtonMatrix, NewtonResidual, PassMatrix, Parameters, MatrixKinds
  <1> QED
    BY <1>1, <1>2, <1>3, <1>4, <1>5, <1>6, <1>7, <1>8, <1>9, <1>10, <1>11,
       <1>12, <1>13, <1>14, <1>15, <1>16, <1>17, <1>18, <1>19, <1>20, <1>21
       DEF Next, SolvePhase, ExtractPhase

(* Only the passes of ExtractSystemMatrices change what was extracted, and *)
(* nothing they depend on changes before the last one is done.             *)
LEMMA ExtractStep == Inv /\ [Next]_vars => ExtractInv'
  <1> SUFFICES ASSUME Inv, [Next]_vars PROVE ExtractInv'
    OBVIOUS
  <1> USE DEF Inv, ExtractInv, stateVars, solverVars, consVars, loopVars, callVars
  <1>1. CASE PredictNextState \/ BeginExtract
    BY <1>1 DEF PredictNextState, BeginExtract, PassInv
  <1>2. CASE SolvePhase
    <2>1. pass' = "none"
      BY <1>2 DEF SolvePhase, ResetSolver, ReturnNotConverged,
           UpdateTangentOperator, UpdateSystemVariables, AssembleSystemResidual,
           AssembleSystemMatrix, UpdateConstraintVariables,
           AssembleConstraintsMatrix, AssembleConstraintsResidual, SolveSystem,
           UpdatePrediction, AcceptStep, PassInv, Solving
    <2> QED
      BY <2>1
  <1>3. CASE ExtractReset \/ ExtractElements \/ ExtractGradients \/ ExtractAssembleGradients
    <2>1. UNCHANGED <<pass, extracted, mesh, constrained, q, lam>>
      BY <1>3 DEF ExtractReset, ExtractElements, ExtractGradients, ExtractAssembleGradients
    <2> QED
      BY <2>1
  <1>4. CASE ExtractAssembleElements
    BY <1>4 DEF ExtractAssembleElements
  <1>5. CASE ExtractCopy
    <2>1. pass \in CopyPasses /\ A = PassMatrix
      BY <1>5 DEF ExtractCopy, PassInv, StorageInv
    <2>2. extracted' = [extracted EXCEPT ![pass] = PassMatrix] /\ pass' = NextPass[pass]
      BY <1>5, <2>1 DEF ExtractCopy
    <2>3. UNCHANGED <<mesh, constrained, q, lam>>
      BY <1>5 DEF ExtractCopy
    <2>4. CASE pass = "constraint"
      BY <2>2, <2>3, <2>4 DEF NextPass, PassMatrix, TypeOK
    <2>5. CASE pass \in {"mass", "stiffness", "damping"}
      <3>1. PassMatrix = ElementMatrix(MatrixKinds(pass), q, pass)
        BY <2>5 DEF PassMatrix
      <3>2. CASE pass = "mass"
        BY <2>2, <2>3, <3>1, <3>2, MatrixKindsOfPass DEF NextPass, TypeOK
      <3>3. CASE pass = "stiffness"
        BY <2>2, <2>3, <3>1, <3>3, MatrixKindsOfPass DEF NextPass, TypeOK
      <3>4. CASE pass = "damping"
        BY <2>2, <2>3, <3>1, <3>4, MatrixKindsOfPass DEF NextPass, TypeOK
      <3> QED
        BY <2>5, <3>2, <3>3, <3>4
    <2> QED
      BY <2>1, <2>4, <2>5 DEF CopyPasses
  <1>6. CASE UNCHANGED vars
    BY <1>6 DEF vars
  <1> QED
    BY <1>1, <1>2, <1>3, <1>4, <1>5, <1>6 DEF Next, ExtractPhase

(* The history after one more solve.                                       *)
LEMMA AppendedHistory ==
  ASSUME history \in Seq({"large", "small", "nan"}),
         NEW e \in {"large", "small", "nan"},
         \A i \in 1 .. Len(history) : history[i] = "large"
  PROVE  LET h == Append(history, e)
         IN /\ Len(h) = Len(history) + 1
            /\ h # <<>>
            /\ h[Len(h)] = e
            /\ \A i \in 1 .. Len(h) - 1 : h[i] = "large"
  OBVIOUS

(* The counter, the history and lambda advance together.                   *)
LEMMA LoopStep == Inv /\ [Next]_vars => LoopInv'
  <1> SUFFICES ASSUME Inv, [Next]_vars PROVE LoopInv'
    OBVIOUS
  <1>a. history \in Seq({"large", "small", "nan"}) /\ Len(history) \in Nat
    BY DEF Inv, TypeOK
  <1>b. iter \in Nat /\ lam \in Nat /\ MaxIter \in Nat
    BY SolveStepAssumption DEF Inv, TypeOK
  <1> USE <1>b DEF Inv, LoopInv, Solving, Iterating, LoopEnds, IterationsLeft,
              stateVars, solverVars, consVars, loopVars, callVars
  <1>1. CASE PredictNextState
    <2>1. history' = <<>> /\ Len(history') = 0
      BY <1>1 DEF PredictNextState
    <2> QED
      BY <1>1, <2>1 DEF PredictNextState
  <1>2. CASE BeginExtract
    BY <1>2 DEF BeginExtract
  <1>3. CASE ResetSolver
    BY <1>3, <1>a DEF ResetSolver, TypeOK
  <1>4. CASE ReturnNotConverged
    BY <1>4, <1>a DEF ReturnNotConverged, TypeOK
  <1>5. CASE UpdateTangentOperator
    BY <1>5 DEF UpdateTangentOperator
  <1>6. CASE UpdateSystemVariables
    BY <1>6 DEF UpdateSystemVariables
  <1>7. CASE AssembleSystemResidual
    BY <1>7 DEF AssembleSystemResidual
  <1>8. CASE AssembleSystemMatrix
    BY <1>8 DEF AssembleSystemMatrix
  <1>9. CASE UpdateConstraintVariables
    BY <1>9 DEF UpdateConstraintVariables
  <1>10. CASE AssembleConstraintsMatrix
    BY <1>10 DEF AssembleConstraintsMatrix
  <1>11. CASE AssembleConstraintsResidual
    BY <1>11 DEF AssembleConstraintsResidual
  <1>12. CASE SolveSystem
    <2>1. PICK e \in {"large", "small", "nan"} : err' = e /\ history' = Append(history, e)
      BY <1>12 DEF SolveSystem
    <2>2. \A i \in 1 .. Len(history) : history[i] = "large"
      BY <1>12, <1>a DEF SolveSystem
    <2>3. /\ Len(history') = Len(history) + 1
          /\ history' # <<>>
          /\ history'[Len(history')] = e
          /\ \A i \in 1 .. Len(history') - 1 : history'[i] = "large"
      BY <2>1, <2>2, <1>a, AppendedHistory
    <2>4. /\ pc = "solve" /\ pc' = "update"
          /\ iter' = iter /\ lam' = lam /\ constrained' = constrained
          /\ result' = result /\ result = "none"
          /\ iter = Len(history) /\ iter < MaxIter
          /\ constrained => lam = Len(history)
      BY <1>12 DEF SolveSystem
    <2> QED
      BY <2>1, <2>3, <2>4, <1>a
  <1>13. CASE UpdatePrediction
    BY <1>13, <1>a DEF UpdatePrediction, UpdatedLambda, NextIter
  <1>14. CASE AcceptStep
    BY <1>14, <1>a DEF AcceptStep, TypeOK
  <1>15. CASE ExtractReset
    BY <1>15 DEF ExtractReset
  <1>16. CASE ExtractElements
    BY <1>16 DEF ExtractElements
  <1>17. CASE ExtractAssembleElements
    BY <1>17 DEF ExtractAssembleElements
  <1>18. CASE ExtractGradients
    BY <1>18 DEF ExtractGradients
  <1>19. CASE ExtractAssembleGradients
    BY <1>19 DEF ExtractAssembleGradients
  <1>20. CASE ExtractCopy
    BY <1>20 DEF ExtractCopy
  <1>21. CASE UNCHANGED vars
    BY <1>21 DEF vars
  <1> QED
    BY <1>1, <1>2, <1>3, <1>4, <1>5, <1>6, <1>7, <1>8, <1>9, <1>10, <1>11,
       <1>12, <1>13, <1>14, <1>15, <1>16, <1>17, <1>18, <1>19, <1>20, <1>21
       DEF Next, SolvePhase, ExtractPhase

(* The inductive invariant holds throughout.                               *)
THEOREM Invariance == Spec => []Inv
  <1>1. Inv /\ [Next]_vars => Inv'
    BY TypeStep, PassStep, StorageStep, ExtractStep, LoopStep DEF Inv
  <1> QED
    BY InvInit, <1>1, PTL DEF Spec

(* TypeOK is an invariant of every solve.                                  *)
THEOREM TypeCorrect == Spec => []TypeOK
  <1>1. Inv => TypeOK
    BY DEF Inv
  <1> QED
    BY <1>1, Invariance, PTL

----------------------------------------------------------------------------
(* The properties.                                                         *)

(* The system that is solved in an iteration holds the terms of the        *)
(* present iterate, all of them and no others.                             *)
THEOREM SolvesPresent == Spec => []SolvesPresentIterate
  <1>1. Inv => SolvesPresentIterate
    BY DEF Inv, StorageInv, ElementsReady, SolvesPresentIterate
  <1> QED
    BY <1>1, Invariance, PTL

(* After a call that returned true the published state is the converged    *)
(* one.                                                                    *)
THEOREM ConvergedConsistent == Spec => []ConvergedStateIsConsistent
  <1>1. Inv => ConvergedStateIsConsistent
    BY DEF Inv, LoopInv, ConvergedStateIsConsistent
  <1> QED
    BY <1>1, Invariance, PTL

(* The convergence history accounts for what a call returned.              *)
THEOREM HistoryExplains == Spec => []HistoryExplainsResult
  <1>1. Inv => HistoryExplainsResult
    <2> SUFFICES ASSUME Inv, pc = "idle", result # "none"
                 PROVE  /\ Len(history) <= MaxIter
                        /\ \A i \in 1 .. Len(history) - 1 : history[i] = "large"
                        /\ result = "true" <=>
                             Len(history) > 0 /\ history[Len(history)] = "small"
                        /\ Len(history) = 0 \/ history[Len(history)] = "large" =>
                             Len(history) = MaxIter
      BY DEF HistoryExplainsResult
    <2>1. history = <<>> <=> Len(history) = 0
      BY DEF Inv, TypeOK
    <2>2. Len(history) \in Nat
      BY DEF Inv, TypeOK
    <2>3. result \in {"true", "false"}
      BY DEF Inv, TypeOK
    <2> QED
      BY <2>1, <2>2, <2>3 DEF Inv, LoopInv
  <1> QED
    BY <1>1, Invariance, PTL

(* Each matrix copied out holds the terms of its own pass only, and the    *)
(* call hands the element storage back as a step leaves it.                *)
THEOREM ExtractedPure == Spec => []ExtractedMatricesArePure
  <1>1. Inv => ExtractedMatricesArePure
    <2> SUFFICES ASSUME Inv PROVE ExtractedMatricesArePure
      OBVIOUS
    <2>1. ASSUME pass = "restore"
          PROVE  /\ \A p \in {"mass", "damping"} :
                      extracted[p] = ElementMatrix(mesh \ {"springs"}, q, p)
                 /\ extracted.stiffness = ElementMatrix(mesh, q, "stiffness")
                 /\ extracted.constraint =
                      IF constrained
                      THEN ConstraintMatrix([at |-> q, lam |-> lam, tangent |-> FALSE])
                      ELSE {}
      BY <2>1 DEF Inv, ExtractInv
    <2>2. pc = "idle" => elem.pass \in {"none", "step"}
      BY DEF Inv, PassInv, StorageInv
    <2> QED
      BY <2>1, <2>2 DEF ExtractedMatricesArePure
  <1> QED
    BY <1>1, Invariance, PTL

(* Positions and constraint outputs are published only by a loop that      *)
(* ended by its error.                                                     *)
THEOREM OnlyFinishedPublish == Spec => OnlyFinishedLoopsPublish
  <1>1. Inv /\ [Next]_vars =>
          [ \/ x' # x
            \/ hostOutput' # hostOutput
            \/ accel = "predicted" /\ accel' = "corrected"
            => history # <<>> /\ history[Len(history)] # "large" ]_vars
    <2> SUFFICES ASSUME Inv, [Next]_vars,
                        \/ x' # x
                        \/ hostOutput' # hostOutput
                        \/ accel = "predicted" /\ accel' = "corrected"
                 PROVE  history # <<>> /\ history[Len(history)] # "large"
      OBVIOUS
    <2>1. CASE AcceptStep
      BY <2>1 DEF AcceptStep, Inv, LoopInv, LoopEnds
    <2>2. CASE ~AcceptStep
      BY <2>2 DEF Next, SolvePhase, ExtractPhase, vars, stateVars, solverVars,
           consVars, loopVars, callVars, PredictNextState, BeginExtract,
           ResetSolver, ReturnNotConverged, UpdateTangentOperator,
           UpdateSystemVariables, AssembleSystemResidual, AssembleSystemMatrix,
           UpdateConstraintVariables, AssembleConstraintsMatrix,
           AssembleConstraintsResidual, SolveSystem, UpdatePrediction,
           ExtractReset, ExtractElements, ExtractAssembleElements,
           ExtractGradients, ExtractAssembleGradients, ExtractCopy
    <2> QED
      BY <2>1, <2>2
  <1> QED
    BY <1>1, Invariance, PTL DEF Spec, OnlyFinishedLoopsPublish

(* The phases and passes that are left, as numbers.                        *)
LEMMA LeftValues ==
  /\ PhasesLeft["loop"] = 11 /\ PhasesLeft["tangent"] = 10
  /\ PhasesLeft["elements"] = 9 /\ PhasesLeft["residual"] = 8
  /\ PhasesLeft["matrix"] = 7 /\ PhasesLeft["constraints"] = 6
  /\ PhasesLeft["constraintMatrix"] = 5 /\ PhasesLeft["constraintResidual"] = 4
  /\ PhasesLeft["solve"] = 3 /\ PhasesLeft["update"] = 2
  /\ PhasesLeft["reset"] = 4 /\ PhasesLeft["terms"] = 3
  /\ PhasesLeft["gradients"] = 3 /\ PhasesLeft["assemble"] = 2
  /\ PhasesLeft["assembleGradients"] = 2 /\ PhasesLeft["copy"] = 1
  /\ PassesLeft["mass"] = 4 /\ PassesLeft["stiffness"] = 3
  /\ PassesLeft["damping"] = 2 /\ PassesLeft["constraint"] = 1
  /\ PassesLeft["restore"] = 0
  BY DEF PhasesLeft, PassesLeft

(* A call has iterations left while it iterates.                           *)
LEMMA RoundsLeftOfSolve ==
  ASSUME Inv, pc \in Solving
  PROVE  /\ RoundsLeft = MaxIter - iter
         /\ iter \in Nat /\ MaxIter \in Nat
         /\ iter <= MaxIter
         /\ pc = "update" => iter < MaxIter
  BY SolveStepAssumption DEF Inv, TypeOK, PassInv, LoopInv, Solving, RoundsLeft

(* Every phase brings a call closer to its return: the present iteration   *)
(* or pass gets shorter, or there is one less of them to come.             *)
THEOREM CallsCountDown == Spec => EveryCallCountsDown
  <1>1. Inv /\ [Next]_vars =>
          [pc # "idle" => 0 <= Distance' /\ Distance' < Distance]_vars
    <2> SUFFICES ASSUME Inv, Next, pc # "idle"
                 PROVE  0 <= Distance' /\ Distance' < Distance
      OBVIOUS
    <2>1. CASE SolvePhase
      <3>1. pc \in Solving
        BY <2>1 DEF SolvePhase, Solving, ResetSolver, ReturnNotConverged,
           UpdateTangentOperator, UpdateSystemVariables, AssembleSystemResidual,
           AssembleSystemMatrix, UpdateConstraintVariables,
           AssembleConstraintsMatrix, AssembleConstraintsResidual, SolveSystem,
           UpdatePrediction, AcceptStep
      <3>2. /\ RoundsLeft = MaxIter - iter
            /\ iter \in Nat /\ MaxIter \in Nat
            /\ iter <= MaxIter
            /\ pc = "update" => iter < MaxIter
        BY <3>1, RoundsLeftOfSolve
      <3>3. pass = "none"
        BY <3>1 DEF Inv, PassInv
      <3>4. Distance = PhasesLeft[pc] + 11 * (MaxIter - iter)
        BY <3>2 DEF Distance
      <3>5. CASE ReturnNotConverged \/ AcceptStep
        <4>1. Distance' = 0 /\ pc = "loop"
          BY <3>5 DEF Distance, ReturnNotConverged, AcceptStep
        <4> QED
          BY <3>2, <3>4, <4>1, LeftValues
      <3>6. CASE UpdatePrediction
        <4>1. pc = "update" /\ pc' = "loop" /\ pass' = "none" /\ iter' = iter + 1
          BY <3>3, <3>6 DEF UpdatePrediction, NextIter, callVars
        <4>2. Distance' = 11 + 11 * (MaxIter - (iter + 1))
          BY <4>1, LeftValues DEF Distance, RoundsLeft
        <4>3. Distance = 2 + 11 * (MaxIter - iter)
          BY <3>4, <4>1, LeftValues
        <4> QED
          BY <3>2, <4>1, <4>2, <4>3
      <3>7. CASE ~(ReturnNotConverged \/ AcceptStep \/ UpdatePrediction)
        <4>1. /\ iter' = iter /\ pass' = "none" /\ pc' # "idle"
              /\ PhasesLeft[pc'] = PhasesLeft[pc] - 1 /\ PhasesLeft[pc'] \in 1 .. 11
          BY <2>1, <3>3, <3>7, LeftValues
             DEF SolvePhase, ResetSolver, UpdateTangentOperator,
                 UpdateSystemVariables, AssembleSystemResidual,
                 AssembleSystemMatrix, UpdateConstraintVariables,
                 AssembleConstraintsMatrix, AssembleConstraintsResidual,
                 SolveSystem, loopVars, callVars
        <4>2. Distance' = PhasesLeft[pc'] + 11 * (MaxIter - iter)
          BY <4>1 DEF Distance, RoundsLeft
        <4> QED
          BY <3>2, <3>4, <4>1, <4>2
      <3> QED
        BY <3>5, <3>6, <3>7
    <2>2. CASE ExtractPhase
      <3>1. pass # "none"
        BY <2>2 DEF ExtractPhase, ExtractReset, ExtractElements,
           ExtractAssembleElements, ExtractGradients, ExtractAssembleGradients,
           ExtractCopy, Inv, PassInv, Solving
      <3>2. Distance = PhasesLeft[pc] + 11 * PassesLeft[pass]
        BY <3>1 DEF Distance, RoundsLeft
      <3>3. pass \in ElementPasses \cup CopyPasses /\ PassesLeft[pass] \in 0 .. 4
        BY <3>1, LeftValues DEF Inv, TypeOK, ElementPasses, CopyPasses
      <3>4. CASE ExtractCopy
        <4>1. pc = "copy" /\ pc' = "reset" /\ pass' = NextPass[pass] /\ pass \in CopyPasses
          BY <3>4 DEF ExtractCopy, Inv, PassInv
        <4>2. pass' # "none" /\ PassesLeft[pass'] = PassesLeft[pass] - 1 /\ PassesLeft[pass] \in 1 .. 4
          BY <4>1, LeftValues DEF NextPass, CopyPasses
        <4>3. Distance' = 4 + 11 * PassesLeft[pass']
          BY <4>1, <4>2, LeftValues DEF Distance, RoundsLeft
        <4> QED
          BY <3>2, <4>1, <4>2, <4>3, LeftValues
      <3>5. CASE ExtractAssembleElements /\ pass = "restore"
        <4>1. pc = "assemble" /\ pc' = "idle"
          BY <3>5 DEF ExtractAssembleElements
        <4>2. Distance' = 0
          BY <4>1 DEF Distance
        <4> QED
          BY <3>2, <3>3, <4>1, <4>2, LeftValues
      <3>6. CASE ~(ExtractCopy \/ (ExtractAssembleElements /\ pass = "restore"))
        <4>1. /\ pass' = pass /\ pc' # "idle"
              /\ PhasesLeft[pc'] = PhasesLeft[pc] - 1 /\ PhasesLeft[pc'] \in 1 .. 4
          BY <2>2, <3>6, LeftValues
             DEF ExtractPhase, ExtractReset, ExtractElements,
                 ExtractAssembleElements, ExtractGradients,
                 ExtractAssembleGradients, callVars
        <4>2. Distance' = PhasesLeft[pc'] + 11 * PassesLeft[pass]
          BY <3>1, <4>1 DEF Distance, RoundsLeft
        <4> QED
          BY <3>2, <3>3, <4>1, <4>2
      <3> QED
        BY <3>4, <3>5, <3>6
    <2>3. ~PredictNextState /\ ~BeginExtract
      BY DEF PredictNextState, BeginExtract
    <2> QED
      BY <2>1, <2>2, <2>3 DEF Next
  <1> QED
    BY <1>1, Invariance, PTL DEF Spec, EveryCallCountsDown
=============================================================================
