-------------------------- MODULE ConstraintKernels --------------------------
(***************************************************************************)
(* One constraint and its one or two nodes, from the constructor of        *)
(* Constraints (src/src/constraints) through the kernels that evaluate it  *)
(* in every iteration to what the assembly takes from it.                  *)
(*                                                                         *)
(* The views of a constraint are allocated without initialization and each *)
(* type writes some of them; Garbage is what was never written.  Residuals *)
(* and gradients are held doubled (see module Kinematics).  What a view    *)
(* held for an earlier iterate is Garbage too when the nodes have moved.   *)
(***************************************************************************)
EXTENDS Kinematics

CONSTANTS
  Types,         \* bound: the constraint types
  Orientations,  \* bound: rotational displacements of nodes, doubled quaternions
  Shifts,        \* bound: displacements of nodes
  BasePosition,  \* position of the base node
  Offsets,       \* bound: target positions relative to the base node
  HingeAxes,     \* bound: axes given for a revolute joint
  ControlAxes,   \* bound: axes given for a rotation control
  Angles,        \* bound: commanded angle about each control axis, in sixths of a turn
  Torques,       \* bound: commanded torques
  Multipliers,   \* bound: values of lambda
  Tangent,       \* the tangent operator of both nodes
  Garbage        \* the content of memory that was never written

VARIABLES
  pc,            \* what is done next
  con,           \* type, axis vector and node positions
  X0, axes,      \* views the constructor fills
  signal,        \* *control_signal
  hostInput,     \* host_input, the caller's displacement or the signal
  input,         \* its device copy
  base, target,  \* displacements of the nodes, [u |-> vector, R |-> quaternion]
  lambda,
  includeTangent,
  terms,         \* the views the kernels write
  taken          \* what the assembly read

vars == <<pc, con, X0, axes, signal, hostInput, input, base, target, lambda,
          includeTangent, terms, taken>>

----------------------------------------------------------------------------
(* Types of constraints (constraint_type.hpp, constraints.hpp).            *)

TwoNodes      == {"RigidJoint", "RevoluteJoint", "RotationControl", "RigidJoint6DOFsTo3DOFs"}
PositionOnly  == {"FixedBC3DOFs", "PrescribedBC3DOFs", "RigidJoint6DOFsTo3DOFs"}
Prescribed    == {"PrescribedBC", "PrescribedBC3DOFs"}
Controlled    == {"RevoluteJoint", "RotationControl"}
AngularBlock  == {"FixedBC", "PrescribedBC", "RigidJoint", "RotationControl"}

NumRowsForConstraint(type) ==
  IF type \in PositionOnly THEN 3 ELSE IF type = "RevoluteJoint" THEN 5 ELSE 6
BaseActiveDofs_All(type) == 6
BaseActiveDofs(type) == IF type \in TwoNodes THEN 6 ELSE 0
TargetActiveDofs(type) == IF type \in PositionOnly THEN 3 ELSE 6

Displacements == [u : Shifts, R : Orientations]
AtRest        == [u |-> ZeroVector(3), R |-> NoRotation]

----------------------------------------------------------------------------
(* The constructor.                                                        *)

\* The base of a one-node constraint is no node; FixedBC leaves axis_vector zero.
CalculateX0(c) ==
  CASE c.type \in Prescribed -> ZeroVector(3)
    [] c.type \in TwoNodes -> Minus(c.targetPosition, c.basePosition)
    [] OTHER -> c.targetPosition

\* A multiple of a coordinate axis, normalized.
Sign(n) == IF n > 0 THEN 1 ELSE IF n < 0 THEN -1 ELSE 0
Normalized(v) == [i \in Indices(v) |-> Sign(v[i])]

\* The rotation that takes the x axis to the hinge axis, by rows.  It divides by
\* 1 + dot_product, so the axis must not be opposite to x.
HingeFrame(x_hat) ==
  LET x == <<1, 0, 0>>
      cross == CrossProduct(x, x_hat)
      dot == DotProduct(x_hat, x)
      k(n) == n \div (1 + dot)
  IN << << k(cross[1] * cross[1]) + dot, k(cross[2] * cross[1]) + cross[3],
           k(cross[3] * cross[1]) - cross[2] >>,
        << k(cross[1] * cross[2]) - cross[3], k(cross[2] * cross[2]) + dot,
           k(cross[3] * cross[2]) + cross[1] >>,
        << k(cross[1] * cross[3]) + cross[2], k(cross[2] * cross[3]) - cross[1],
           k(cross[3] * cross[3]) + dot >> >>

\* The axis of a rotation control is kept unnormalized here; its length is
\* accounted for in RotationVectorToQuaternion.
CalculateAxes_OffsetFirst(c, x0) ==
  IF c.type = "RevoluteJoint"
  THEN HingeFrame(IF x0 # ZeroVector(3) THEN Normalized(x0) ELSE Normalized(c.axis))
  ELSE <<c.axis, ZeroVector(3), ZeroVector(3)>>
CalculateAxes(c, x0) ==
  IF c.type = "RevoluteJoint"
  THEN HingeFrame(IF c.axis # ZeroVector(3) THEN Normalized(c.axis) ELSE Normalized(x0))
  ELSE <<c.axis, ZeroVector(3), ZeroVector(3)>>

\* Views of the kernels as allocated.
Unwritten == [residual |-> Garbage, base |-> Garbage, target |-> Garbage,
              baseTranspose |-> Garbage, targetTranspose |-> Garbage,
              baseReaction |-> Garbage, targetReaction |-> Garbage, system |-> Garbage]

----------------------------------------------------------------------------
(* The specialized kernels (calculate_*_constraint.hpp): residual and      *)
(* gradients of one constraint, doubled.  b and t are the displacements of *)
(* the base and the target node.                                           *)

\* Phi(0:3) = u2 + X0 - u1 - R1*X0
PositionResidual(x0, b, t) ==
  Times(2, Minus(Minus(Plus(t.u, x0), b.u), RotateVectorByQuaternion(b.R, x0)))

TwiceI == MatrixTimes(2, Identity(3))
Zero3  == ZeroMatrix(3)

\* The six-component kernels share C, the rotation the target has beyond the
\* base and the commanded rotation.
AngularResidual(C) == AxialVectorOfMatrix(C)
TargetBlocks(C) == Blocks(TwiceI, Zero3, Zero3, Transposed(AX_Matrix(C)))
BaseBlocks(R1_X0, C) ==
  Blocks(MatrixTimes(-1, TwiceI), MatrixTimes(2, VecTilde(R1_X0)),
         Zero3, MatrixTimes(-1, AX_Matrix(C)))

Kernel(residual, baseGradient, targetGradient) ==
  [residual |-> residual, base |-> baseGradient, target |-> targetGradient]

CalculatePrescribedBCConstraint(x0, inputs, t) ==
  LET C == QuaternionToRotationMatrix(QuaternionCompose(t.R, QuaternionInverse(inputs.R)))
  IN Kernel(PositionResidual(x0, inputs, t) \o AngularResidual(C), Garbage, TargetBlocks(C))

CalculateFixedBCConstraint(x0, t) ==
  LET C == QuaternionToRotationMatrix(QuaternionCompose(t.R, QuaternionInverse(AtRest.R)))
  IN Kernel(PositionResidual(x0, AtRest, t) \o AngularResidual(C), Garbage, TargetBlocks(C))

CalculatePrescribedBC3DOFConstraint(x0, inputs, t) ==
  Kernel(PositionResidual(x0, inputs, t) \o ZeroVector(3), Garbage,
         Blocks(TwiceI, Zero3, Zero3, Zero3))

CalculateFixedBC3DOFConstraint(x0, t) ==
  Kernel(PositionResidual(x0, AtRest, t) \o ZeroVector(3), Garbage,
         Blocks(TwiceI, Zero3, Zero3, Zero3))

CalculateRigidJointConstraint(x0, b, t) ==
  LET C == QuaternionToRotationMatrix(QuaternionCompose(t.R, QuaternionInverse(b.R)))
  IN Kernel(PositionResidual(x0, b, t) \o AngularResidual(C),
            BaseBlocks(RotateVectorByQuaternion(b.R, x0), C), TargetBlocks(C))

CalculateRigidJoint3DOFConstraint(x0, b, t) ==
  Kernel(PositionResidual(x0, b, t) \o ZeroVector(3),
         Blocks(MatrixTimes(-1, TwiceI),
                MatrixTimes(2, VecTilde(RotateVectorByQuaternion(b.R, x0))), Zero3, Zero3),
         Blocks(TwiceI, Zero3, Zero3, Zero3))

CalculateRotationControlConstraint(x0, ax, inputs, b, t) ==
  LET Rc == RotationVectorToQuaternion(ax[1], inputs)
      Rt_RcT == QuaternionCompose(t.R, QuaternionInverse(Rc))
      C == QuaternionToRotationMatrix(QuaternionCompose(Rt_RcT, QuaternionInverse(b.R)))
  IN Kernel(PositionResidual(x0, b, t) \o AngularResidual(C),
            BaseBlocks(RotateVectorByQuaternion(b.R, x0), C), TargetBlocks(C))

\* Rows 3 and 4 keep the two axes normal to the hinge at right angles to it.
CalculateRevoluteJointConstraint(x0, ax, b, t) ==
  LET x == RotateVectorByQuaternion(b.R, ax[1])
      y == RotateVectorByQuaternion(t.R, ax[2])
      z == RotateVectorByQuaternion(t.R, ax[3])
      Rows(n) == <<Times(n, CrossProduct(x, z)), Times(n, CrossProduct(x, y)), ZeroVector(3)>>
  IN Kernel(PositionResidual(x0, b, t) \o <<2 * DotProduct(z, x), 2 * DotProduct(y, x), 0>>,
            Blocks(MatrixTimes(-1, TwiceI), Zero3, Zero3, Rows(2)),
            Blocks(TwiceI, Zero3, Zero3, Rows(-2)))

\* The torque about the hinge as the target carries it.
CalculateRevoluteJointForce(ax, inputs, t) ==
  ZeroVector(3) \o Times(inputs, RotateVectorByQuaternion(t.R, ax[1]))

----------------------------------------------------------------------------
(* The kernel of one constraint (calculate_constraint_residual_gradient):  *)
(* local results, times the tangent operators, into the views of its type. *)

WithTangent_Transposed(gradient) ==
  IF includeTangent THEN Product(gradient, Transposed(Tangent)) ELSE gradient
WithTangent(gradient) == IF includeTangent THEN Product(gradient, Tangent) ELSE gradient

OneNode(k) ==
  [terms EXCEPT !.residual = k.residual,
                !.target = WithTangent(k.target),
                !.targetTranspose = Transposed(k.target),
                !.targetReaction = Applied(Transposed(k.target), lambda)]

TwoNode(k) ==
  [OneNode(k) EXCEPT !.base = WithTangent(k.base),
                     !.baseTranspose = Transposed(k.base),
                     !.baseReaction = Applied(Transposed(k.base), lambda)]

FixedBC          == OneNode(CalculateFixedBCConstraint(X0, target))
FixedBC3DOF      == OneNode(CalculateFixedBC3DOFConstraint(X0, target))
PrescribedBC(inputs) == OneNode(CalculatePrescribedBCConstraint(X0, inputs, target))
PrescribedBC3DOF(inputs) == OneNode(CalculatePrescribedBC3DOFConstraint(X0, inputs, target))
RigidJoint       == TwoNode(CalculateRigidJointConstraint(X0, base, target))
RigidJoint3DOF   == TwoNode(CalculateRigidJoint3DOFConstraint(X0, base, target))
RevoluteJoint(inputs) == [TwoNode(CalculateRevoluteJointConstraint(X0, axes, base, target))
                       EXCEPT !.system = CalculateRevoluteJointForce(axes, inputs, target)]
RotationControl(inputs) == TwoNode(CalculateRotationControlConstraint(X0, axes, inputs, base, target))

CalculateConstraintResidualGradient(inputs) ==
  CASE con.type = "FixedBC" -> FixedBC
    [] con.type = "FixedBC3DOFs" -> FixedBC3DOF
    [] con.type = "PrescribedBC" -> PrescribedBC(inputs)
    [] con.type = "PrescribedBC3DOFs" -> PrescribedBC3DOF(inputs)
    [] con.type = "RigidJoint" -> RigidJoint
    [] con.type = "RigidJoint6DOFsTo3DOFs" -> RigidJoint3DOF
    [] con.type = "RevoluteJoint" -> RevoluteJoint(inputs)
    [] con.type = "RotationControl" -> RotationControl(inputs)

----------------------------------------------------------------------------
(* Steps.                                                                  *)

NotTaken == [rows |-> <<>>, base |-> <<>>, target |-> <<>>, system |-> <<>>,
             baseGradient |-> <<>>, targetGradient |-> <<>>]

Init ==
  /\ pc = "construct"
  /\ con = Garbage /\ X0 = Garbage /\ axes = Garbage /\ signal = Garbage
  /\ hostInput = Garbage /\ input = Garbage
  /\ base = Garbage /\ target = Garbage /\ includeTangent = FALSE
  /\ lambda = Garbage
  /\ terms = Unwritten
  /\ taken = NotTaken

AxesFor(type) ==
  CASE type = "RevoluteJoint" -> HingeAxes
    [] type = "RotationControl" -> ControlAxes
    [] OTHER -> {ZeroVector(3)}

SignalsFor(c) ==
  CASE c.type = "RevoluteJoint" -> Torques
    [] c.type = "RotationControl" -> Angles[c.axis]
    [] OTHER -> {Garbage}

\* Hinges whose frame is exact and defined.
HingeAxis(c) == Normalized(IF c.axis = ZeroVector(3) THEN Minus(c.targetPosition, c.basePosition)
                           ELSE c.axis)
HasFrame(c) ==
  LET v == HingeAxis(c)
  IN c.type = "RevoluteJoint" => DotProduct(v, v) = 1 /\ v # <<-1, 0, 0>>

\* Constraints::Constraints; a prescribed displacement starts as given.
Construct ==
  /\ pc = "construct"
  /\ \E type \in Types, offset \in Offsets : \E axis \in AxesFor(type) :
       /\ con' = [type |-> type, axis |-> axis, basePosition |-> BasePosition,
                  targetPosition |-> Plus(BasePosition, offset)]
       /\ HasFrame(con')
       /\ X0' = CalculateX0(con')
       /\ axes' = CalculateAxes(con', X0')
       /\ signal' \in SignalsFor(con')
       /\ hostInput' \in IF type \in Prescribed THEN Displacements ELSE {Garbage}
  /\ pc' = "ready"
  /\ UNCHANGED <<input, base, target, lambda, includeTangent, terms, taken>>

\* The caller sets the displacement (UpdateDisplacement) or its control variable.
Command ==
  /\ pc = "ready"
  /\ \/ con.type \in Prescribed /\ hostInput' \in Displacements /\ UNCHANGED signal
     \/ con.type \in Controlled /\ signal' \in SignalsFor(con) /\ UNCHANGED hostInput
  /\ UNCHANGED <<pc, con, X0, axes, input, base, target, lambda, includeTangent, terms, taken>>

\* A step begins (step/reset_constraints.hpp).
ResetConstraints ==
  /\ pc = "ready"
  /\ lambda' = ZeroVector(6)
  /\ terms' = [terms EXCEPT !.system = ZeroVector(6)]
  /\ pc' = "iterate"
  /\ UNCHANGED <<con, X0, axes, signal, hostInput, input, base, target, includeTangent, taken>>

\* A base that carries the target along leaves it here.
Carried(b, x0) == Minus(Plus(b.u, RotateVectorByQuaternion(b.R, x0)), x0)

\* The solve has moved the nodes and lambda, in the first iteration the prediction.
Iterate ==
  /\ pc = "iterate"
  /\ base' \in IF con.type \in TwoNodes THEN Displacements ELSE {AtRest}
  /\ target' \in [u : Shifts \cup {Carried(base', X0)}, R : Orientations]
  /\ lambda' \in Multipliers
  /\ includeTangent' \in BOOLEAN
  /\ pc' = "moved"
  /\ UNCHANGED <<con, X0, axes, signal, hostInput, input, terms, taken>>

\* Constraints::UpdateViews
UpdateViews ==
  /\ hostInput' = IF con.type \in Controlled THEN signal ELSE hostInput
  /\ input' = hostInput'

\* step/update_constraint_variables.hpp
UpdateConstraintVariables ==
  /\ pc = "moved"
  /\ UpdateViews
  /\ terms' = CalculateConstraintResidualGradient(input')
  /\ pc' = "updated"
  /\ UNCHANGED <<con, X0, axes, signal, base, target, lambda, includeTangent, taken>>

\* The first n entries of a view, or nothing at all.
Part(view, n) == IF n = 0 THEN <<>> ELSE IF view = Garbage THEN Garbage ELSE SubSeq(view, 1, n)
PartOfRows(view, rows, n) == IF n = 0 THEN <<>> ELSE Part(view, rows)

\* step/assemble_constraints_residual.hpp and assemble_constraints_matrix.hpp:
\* rows of the constraint, active degrees of freedom of its nodes.
Assemble ==
  LET rows == NumRowsForConstraint(con.type)
      baseDofs == BaseActiveDofs(con.type)
      targetDofs == TargetActiveDofs(con.type)
  IN
  /\ pc = "updated"
  /\ taken' = [rows |-> Part(terms.residual, rows),
               base |-> Part(terms.baseReaction, baseDofs),
               target |-> Part(terms.targetReaction, targetDofs),
               system |-> Part(terms.system, targetDofs),
               baseGradient |-> PartOfRows(terms.base, rows, baseDofs),
               targetGradient |-> Part(terms.target, rows)]
  /\ pc' = "assembled"
  /\ UNCHANGED <<con, X0, axes, signal, hostInput, input, base, target, lambda,
                 includeTangent, terms>>

\* The iteration ends, and perhaps the step: the caller may command something else.
\* The displacements of the nodes are chosen anew for every iteration and are not
\* tracked in between; nor are results for displacements they no longer have.
EndIteration ==
  /\ pc = "assembled"
  /\ base' = Garbage /\ target' = Garbage /\ lambda' = Garbage
  /\ includeTangent' = FALSE
  /\ terms' = [Unwritten EXCEPT !.system =
                 IF con.type = "RevoluteJoint" THEN Garbage ELSE terms.system]
  /\ taken' = NotTaken
  /\ pc' \in {"iterate", "ready"}
  /\ UNCHANGED <<con, X0, axes, signal, hostInput, input>>

Next ==
  \/ Construct \/ Command \/ ResetConstraints \/ Iterate
  \/ UpdateConstraintVariables \/ Assemble \/ EndIteration

Spec == Init /\ [][Next]_vars

----------------------------------------------------------------------------
(* What a constraint is, stated with rotation matrices and with positions  *)
(* of the nodes rather than with quaternions and displacements.            *)

\* A node with its rotation as a matrix, which may be changed to first order.
Pose(node) == [u |-> node.u, M |-> QuaternionToRotationMatrix(node.R)]
Moved(pose, d) ==
  [u |-> Plus(pose.u, SubSeq(d, 1, 3)),
   M |-> LET spin == Product(VecTilde(SubSeq(d, 4, 6)), pose.M)
         IN [i \in 1 .. 3 |-> Plus(pose.M[i], spin[i])]]

\* What the target is held to: the base node, a given displacement, or the ground.
Ground ==
  Pose(CASE con.type \in TwoNodes -> base
         [] con.type \in Prescribed -> input
         [] OTHER -> AtRest)
Commanded ==
  IF con.type = "RotationControl"
  THEN QuaternionToRotationMatrix(RotationVectorToQuaternion(con.axis, signal))
  ELSE Identity(3)

\* The constraint functions, doubled: two poses to NumRowsForConstraint numbers.
ConstraintFunction(b, t) ==
  LET offset == IF con.type \in Prescribed THEN ZeroVector(3)
                ELSE IF con.type \in TwoNodes
                     THEN Minus(con.targetPosition, con.basePosition)
                     ELSE con.targetPosition
      position == Times(2, Minus(Minus(Plus(t.u, offset), b.u), Applied(b.M, offset)))
      turn == Product(t.M, Transposed(Product(b.M, Commanded)))
  IN position \o
     (CASE con.type \in PositionOnly -> <<>>
        [] con.type = "RevoluteJoint" ->
             LET x == Applied(b.M, axes[1])
             IN <<2 * DotProduct(Applied(t.M, axes[3]), x), 2 * DotProduct(Applied(t.M, axes[2]), x)>>
        [] OTHER -> AxialVectorOfMatrix(turn))

\* Its change when the target or the base moves in direction d; the functions
\* are linear in each pose, so the difference is the derivative.
TargetDerivative(d) ==
  Minus(ConstraintFunction(Ground, Moved(Pose(target), d)), ConstraintFunction(Ground, Pose(target)))
BaseDerivative(d) ==
  Minus(ConstraintFunction(Moved(Ground, d), Pose(target)), ConstraintFunction(Ground, Pose(target)))

\* Columns of the tangent operator, or the unit vectors: what one unit of an
\* unknown of the solve does to the node.
Direction(j) == Transposed(IF includeTangent THEN Tangent ELSE Identity(6))[j]
UnitVector(j) == Identity(6)[j]

\* The rotation the target has beyond the ground and the commanded rotation.
ExcessTurn == Product(Pose(target).M, Transposed(Product(Ground.M, Commanded)))

\* Column j of a gradient and row j of a transposed one, as far as it has rows.
Column(gradient, j) == [i \in 1 .. NumRowsForConstraint(con.type) |-> gradient[i][j]]
Row(gradient, j) == [i \in 1 .. NumRowsForConstraint(con.type) |-> gradient[j][i]]

----------------------------------------------------------------------------
(* Properties.                                                             *)

\* The assembly takes nothing that was never written or that belongs to other
\* displacements: one-node constraints leave the base views alone, only revolute
\* joints write system_residual_terms, and a caller's command reaches the device.
NothingUnwrittenIsTaken ==
  pc = "assembled" => \A f \in DOMAIN taken : taken[f] # Garbage

\* The residual the kernels compute with quaternions and displacements is the
\* constraint function of the present nodes and of the present command.
ResidualIsConstraintFunction ==
  pc = "assembled" => taken.rows = ConstraintFunction(Ground, Pose(target))

\* What the theory manual says of the gradient: the target block is the derivative
\* of the residual along each unknown of the solve, and its transpose (which has
\* no tangent operator) the derivative along each component of motion.
TargetGradientIsDerivative ==
  pc = "updated" =>
    \A j \in 1 .. TargetActiveDofs(con.type) :
      /\ Column(terms.target, j) = TargetDerivative(Direction(j))
      /\ Row(terms.targetTranspose, j) = TargetDerivative(UnitVector(j))

\* The same for the base block of a constraint between two nodes.
BaseGradientIsDerivative ==
  pc = "updated" /\ con.type \in TwoNodes =>
    \A j \in 1 .. BaseActiveDofs(con.type) :
      /\ Column(terms.base, j) = BaseDerivative(Direction(j))
      /\ Row(terms.baseTranspose, j) = BaseDerivative(UnitVector(j))

\* A hinge whose nodes do not coincide.
OffsetHinge == pc # "construct" /\ con.type = "RevoluteJoint" /\ X0 # ZeroVector(3)

\* Newton's method converges quadratically on a constraint: wherever its angular
\* residual vanishes (anywhere, if it has none) both gradients are exact
\* derivatives, tangent operators included.  (Elsewhere the code transposes the
\* angular blocks; the base block of an offset hinge misses a term everywhere.)
GradientIsExactAtSolutions ==
  pc = "updated" /\ (con.type \in AngularBlock => Transposed(ExcessTurn) = ExcessTurn) =>
    TargetGradientIsDerivative /\ (OffsetHinge \/ BaseGradientIsDerivative)

\* A residual of zero means that the nodes are where the constraint holds them,
\* and only then; but the angular residual also vanishes half a turn away, and
\* a hinge may point backwards.
IsHalfTurn(M) == M # Identity(3) /\ Transposed(M) = M
Held ==
  LET b == Ground
      t == Pose(target)
      place(position, pose) == Plus(position, pose.u)
      x == HingeAxis(con)
  IN /\ CASE con.type \in TwoNodes ->
               place(con.targetPosition, t) =
                 Plus(place(con.basePosition, b),
                      Applied(b.M, Minus(con.targetPosition, con.basePosition)))
          [] OTHER -> t.u = b.u
     /\ CASE con.type \in PositionOnly -> TRUE
          [] con.type = "RevoluteJoint" -> Applied(t.M, x) \in {Applied(b.M, x), Times(-1, Applied(b.M, x))}
          [] OTHER -> ExcessTurn = Identity(3) \/ IsHalfTurn(ExcessTurn)

ZeroResidualMeansHeld ==
  pc = "assembled" => (taken.rows = ZeroVector(NumRowsForConstraint(con.type)) <=> Held)

\* Action and reaction: where a constraint is satisfied its multipliers load the
\* two nodes with opposite forces and with moments in balance about the base.
ReactionsBalance ==
  pc = "updated" /\ con.type \in TwoNodes /\ Held /\ ~OffsetHinge =>
    LET arm == Minus(Plus(con.targetPosition, target.u), Plus(con.basePosition, base.u))
        force(r) == SubSeq(r, 1, 3)
        moment(r) == SubSeq(r, 4, 6)
        b == terms.baseReaction
        t == terms.targetReaction
    IN /\ Plus(force(b), force(t)) = ZeroVector(3)
       /\ Plus(Plus(moment(b), moment(t)), CrossProduct(arm, force(t))) = ZeroVector(3)
=============================================================================
