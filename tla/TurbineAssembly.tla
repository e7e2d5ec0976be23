--------------------------- MODULE TurbineAssembly ---------------------------
(***************************************************************************)
(* The constructor of Turbine (interfaces/components/turbine.cpp) over a   *)
(* Model (model/model.hpp): the beams, the nodes between them, their       *)
(* reference positions, the constraints and the initial motion.            *)
(*                                                                         *)
(* A reference position is a point and the motions applied to it, a        *)
(* displacement the rigid motions applied to the displaced node; nothing   *)
(* is computed with numbers, and two positions are the same when they are  *)
(* built the same way.  A motion by nothing is not recorded.               *)
(* The beams are given at rest (bound).                                    *)
(*                                                                         *)
(* A definition whose name ends in an underscore and a word is a seeded    *)
(* fault (see module SolveStep).                                           *)
(***************************************************************************)
EXTENDS Integers, Sequences, FiniteSets, SequencesExt

CONSTANTS
  BladeCounts,  \* bound: numbers of blades
  Orders,       \* bound: element orders of the beams, 0 for an invalid one
  Priors,       \* bound: nodes the model has before
  Angles        \* bound: initial pitch and yaw angles

ASSUME AssemblyAssumption ==
  /\ BladeCounts \subseteq Nat \ {0}
  /\ Orders \subseteq Nat
  /\ Priors \subseteq Nat
  /\ Angles \subseteq Int

VARIABLES
  pc,      \* the function that runs next
  input,   \* TurbineInput
  nodes, beams, masses, constraints, mesh,  \* the Model
  blades, tower,     \* node ids of the beams
  part,              \* ids of the nodes between them
  apexes,            \* apex_nodes
  control            \* the control variables the constraints point to

vars == <<pc, input, nodes, beams, masses, constraints, mesh, blades, tower, part,
          apexes, control>>
model == <<nodes, beams, masses, constraints, mesh>>

Inputs ==
  [blades : BladeCounts, bladeOrder : Orders, towerOrder : Orders,
   prescribedRoots : BOOLEAN,      \* prescribe_root_motion of the beams
   validHub : BOOLEAN,             \* hub_diameter and rotor_speed pass ValidateInput
   nacelleMass : BOOLEAN, yawMass : BOOLEAN,
   pitch : Angles, yaw : Angles,
   baseMoved : BOOLEAN,            \* tower_base_position differs from the reference
   prior : Priors]                 \* nodes of the model before

----------------------------------------------------------------------------
(* Model: every id is the number of things that were there before.         *)

InvalidNodeID == 0
Node(ns, id) == ns[id + 1]
Fresh(x0) == [x0 |-> x0, u |-> <<>>, v |-> <<>>]

\* AddNode(), once for every position.
WithNodes(ns, positions) == ns \o [i \in DOMAIN positions |-> Fresh(positions[i])]
NewIds(ns, n) == [i \in 1 .. n |-> Len(ns) + i - 1]

At(point) == [point |-> point, moves |-> <<>>]
RotateAboutPoint(node, motions) == [node EXCEPT !.x0.moves = @ \o motions]
RotateDisplacementAboutPoint(node, motions) == [node EXCEPT !.u = @ \o motions]

\* The nodes of a list, moved in its order and as often as they are in it.
RotateBeamAboutPoint(ns, ids, motions) ==
  FoldLeft(LAMBDA s, id : [s EXCEPT ![id + 1] = RotateAboutPoint(@, motions)], ns, ids)
Displaced(ns, ids, motions) ==
  FoldLeft(LAMBDA s, id : [s EXCEPT ![id + 1] = RotateDisplacementAboutPoint(@, motions)], ns, ids)
DisplacedPosition(node) == <<node.x0, node.u>>

Constraint(type, base, target, axis, source, initial) ==
  [type |-> type, base |-> base, target |-> target, axis |-> axis,
   control |-> source, initial |-> initial]
None == <<>>
PrescribedBC(id, u) == Constraint("PrescribedBC", InvalidNodeID, id, None, None, u)
RigidJoint(base, target) == Constraint("RigidJoint", base, target, None, None, <<>>)
RevoluteJoint(base, target, axis, torque) ==
  Constraint("RevoluteJoint", base, target, axis, torque, <<>>)
RotationControl(base, target, axis, source) ==
  Constraint("RotationControl", base, target, axis, source, <<>>)

\* model/mesh_connectivity.hpp: one node for a boundary condition, else two.
Connectivity(c) ==
  IF c.type = "PrescribedBC" THEN <<c.target>> ELSE <<c.base, c.target>>

\* Add...Constraint, Add...BC and AddRotationControl for a sequence of constraints.
AddConstraintsInOrder(new) ==
  /\ constraints' = constraints \o new
  /\ mesh' = [mesh EXCEPT !.constraints = @ \o [i \in DOMAIN new |-> Connectivity(new[i])]]

\* std::vector: the storage of n nodes that were appended one at a time.
Capacity(n) == CHOOSE c \in {2 ^ k : k \in 0 .. n} : n <= c /\ \A k \in 0 .. n : n <= 2 ^ k => c <= 2 ^ k

\* What is read through a reference taken when there were `before` nodes: the
\* node, or the freed storage it was moved from.
Stray == At(<<"stray">>)
Referenced(node, before, now) ==
  IF Capacity(before) = Capacity(now) THEN {node.x0} ELSE {node.x0, Stray}

----------------------------------------------------------------------------
Init ==
  /\ pc = "blades"
  /\ input \in Inputs
  /\ nodes = WithNodes(<<>>, [i \in 1 .. input.prior |-> At(<<"other", i>>)])
  /\ beams = <<>> /\ masses = <<>> /\ constraints = <<>>
  /\ mesh = [beams |-> <<>>, masses |-> <<>>, constraints |-> <<>>]
  /\ blades = <<>> /\ tower = <<>>
  /\ part = [name \in {} |-> 0]
  /\ apexes = <<>>
  /\ control = [pitch |-> [i \in 1 .. input.blades |-> input.pitch], torque |-> 0, yaw |-> 0]

Throw ==
  /\ pc' = "thrown"
  /\ UNCHANGED <<input, model, blades, tower, part, apexes, control>>

\* Beam::Beam, after ValidateInput: the nodes along the reference axis, the element,
\* its placement in space (PositionBladeInSpace, as one motion) and the constraint at
\* its root (SetupRootNode).
CreateBeam(beam, order) ==
  LET ids == NewIds(nodes, order + 1)
  IN /\ nodes' = RotateBeamAboutPoint(
                  WithNodes(nodes, [i \in 1 .. order + 1 |-> At(<<"beam", beam, i>>)]),
                  ids, << <<"root">> >>)
     /\ beams' = Append(beams, ids)
     /\ constraints' = IF input.prescribedRoots
                       THEN Append(constraints, PrescribedBC(ids[1], <<>>)) ELSE constraints
     /\ mesh' = [mesh EXCEPT
                   !.beams = Append(@, ids),
                   !.constraints = IF input.prescribedRoots THEN Append(@, <<ids[1]>>) ELSE @]
     /\ UNCHANGED masses

\* Turbine::CreateBlades
CreateBlade ==
  /\ pc = "blades"
  /\ input.bladeOrder >= 1
  /\ CreateBeam(Len(blades) + 1, input.bladeOrder)
  /\ blades' = Append(blades, NewIds(nodes, input.bladeOrder + 1))
  /\ pc' = IF Len(blades') = input.blades THEN "tower" ELSE "blades"
  /\ UNCHANGED <<input, tower, part, apexes, control>>

CreateTower ==
  /\ pc = "tower"
  /\ input.towerOrder >= 1
  /\ CreateBeam(0, input.towerOrder)
  /\ tower' = NewIds(nodes, input.towerOrder + 1)
  /\ pc' = "validate"
  /\ UNCHANGED <<input, blades, part, apexes, control>>

\* Beam::ValidateInput refuses a beam before it adds anything to the model.
RefuseBeam ==
  /\ \/ pc = "blades" /\ input.bladeOrder < 1
     \/ pc = "tower" /\ input.towerOrder < 1
  /\ Throw

\* Turbine::ValidateInput runs when the beams are in the model already.
ValidateInput ==
  /\ pc = "validate"
  /\ IF input.validHub
     THEN pc' = "position" /\ UNCHANGED <<input, model, blades, tower, part, apexes, control>>
     ELSE Throw

----------------------------------------------------------------------------
(* Lists of node ids.                                                      *)

Root(beam) == Head(beam)
TowerTop == Last(tower)
\* The nacelle's node is invalid_id unless it has an inertia matrix.
NacelleIds == IF input.nacelleMass THEN <<part["nacelle_cm"]>> ELSE <<>>
DrivetrainIds ==
  <<part["yaw_bearing"], part["shaft_base"], part["azimuth"], part["hub"]>> \o NacelleIds
BladeIds_NoApex == FlattenSeq(blades)
BladeIds == FlattenSeq([i \in DOMAIN blades |-> Append(blades[i], apexes[i])])
RotorIds == <<part["hub"], part["azimuth"], part["shaft_base"]>> \o BladeIds
NacelleNodeIds == DrivetrainIds \o BladeIds
AllTurbineIds == tower \o NacelleNodeIds

\* Turbine::CreateIntermediateNodes: the rotor in a frame of its own, the nacelle
\* at the top of the tower, which is read through a reference taken at the start.
CreateIntermediateNodes(ns) ==
  LET n   == Len(ns)
      top == Node(ns, TowerTop)
      nacelle == IF input.nacelleMass THEN <<"nacelle_cm">> ELSE <<>>
      names == <<"hub", "azimuth", "shaft_base", "yaw_bearing">> \o nacelle
      first == Len(names)
  IN \E yaw \in Referenced(top, n, n + 3) :
       \E cm \in IF input.nacelleMass THEN Referenced(top, n, n + 4) ELSE {Stray} :
         LET place == [hub |-> At(<<"hub">>), azimuth |-> At(<<"shaft end">>),
                       shaft_base |-> At(<<"shaft end">>), yaw_bearing |-> yaw,
                       nacelle_cm |-> At(<<"cm offset from", cm>>)]
         IN /\ nodes' = WithNodes(ns, [i \in 1 .. first + input.blades |->
                               IF i <= first THEN place[names[i]] ELSE At(<<"origin">>)])
            /\ part' = [name \in ToSet(names) |->
                          n + (CHOOSE i \in DOMAIN names : names[i] = name) - 1]
            /\ apexes' = [i \in 1 .. input.blades |-> n + first + i - 1]

\* Turbine::PositionNodes, first part: the tower is turned upright, and the nodes
\* between tower and blades are created.
PositionTower ==
  /\ pc = "position"
  /\ CreateIntermediateNodes(RotateBeamAboutPoint(nodes, tower, << <<"x to z">> >>))
  /\ pc' = "rotor"
  /\ UNCHANGED <<input, beams, masses, constraints, mesh, blades, tower, control>>

\* Second part: every blade is turned upright and moved to the hub radius, then
\* turned with its apex to its cone and azimuth angle; then the rotor is tilted and
\* moved to the apex.
PositionBlade(ns, i) ==
  LET upright == << <<"x to z">>, <<"hub radius">> >>
      turned  == << <<"cone">>, <<"azimuth", i>> >>
  IN RotateBeamAboutPoint(RotateBeamAboutPoint(ns, blades[i], upright),
                          Append(blades[i], apexes[i]), turned)
PositionRotor ==
  /\ pc = "rotor"
  /\ nodes' = RotateBeamAboutPoint(
                FoldLeftDomain(LAMBDA ns, i : PositionBlade(ns, i), nodes, blades),
                RotorIds, << <<"tilt">>, <<"to apex">> >>)
  /\ pc' = "masses"
  /\ UNCHANGED <<input, beams, masses, constraints, mesh, blades, tower, part, apexes, control>>

\* Turbine::AddMassElements
AddMassElements ==
  LET new == (IF input.yawMass THEN <<part["yaw_bearing"]>> ELSE <<>>)
             \o NacelleIds \o <<part["hub"]>>
  IN /\ pc = "masses"
     /\ masses' = masses \o new
     /\ mesh' = [mesh EXCEPT !.masses = @ \o [i \in DOMAIN new |-> <<new[i]>>]]
     /\ pc' = "constraints"
     /\ UNCHANGED <<input, nodes, beams, constraints, blades, tower, part, apexes, control>>

----------------------------------------------------------------------------
(* Turbine::AddConstraints.                                                *)

\* A line through two nodes, from one to the other, in reference positions.
Line(from, to) == <<Node(nodes, from).x0, Node(nodes, to).x0>>
VerticalAxis == <<At(<<"down">>), At(<<"up">>)>>

BladeConstraints(i) ==
  << RotationControl(apexes[i], Root(blades[i]), Line(Root(blades[i]), apexes[i]), <<"pitch", i>>),
     RigidJoint(part["hub"], apexes[i]) >>

Between_TwiceHub ==
  << RigidJoint(part["azimuth"], part["hub"]), RigidJoint(part["shaft_base"], part["hub"]),
     RevoluteJoint(part["shaft_base"], part["azimuth"],
                   Line(part["hub"], part["shaft_base"]), <<"torque">>),
     RigidJoint(part["yaw_bearing"], part["shaft_base"]) >>
  \o [i \in DOMAIN NacelleIds |-> RigidJoint(part["yaw_bearing"], NacelleIds[i])]
  \o << RotationControl(TowerTop, part["yaw_bearing"], VerticalAxis, <<"yaw">>) >>
Between ==
  << RigidJoint(part["azimuth"], part["hub"]),
     RevoluteJoint(part["shaft_base"], part["azimuth"],
                   Line(part["hub"], part["shaft_base"]), <<"torque">>),
     RigidJoint(part["yaw_bearing"], part["shaft_base"]) >>
  \o [i \in DOMAIN NacelleIds |-> RigidJoint(part["yaw_bearing"], NacelleIds[i])]
  \o << RotationControl(TowerTop, part["yaw_bearing"], VerticalAxis, <<"yaw">>) >>

AddConstraints ==
  /\ pc = "constraints"
  /\ AddConstraintsInOrder(FlattenSeq([i \in DOMAIN blades |-> BladeConstraints(i)]) \o Between)
  /\ control' = [control EXCEPT !.yaw = input.yaw]
  /\ pc' = "pitch"
  /\ UNCHANGED <<input, nodes, beams, masses, blades, tower, part, apexes>>

----------------------------------------------------------------------------
(* Turbine::SetInitialConditions.                                          *)

Rotation(axis, angle) == [axis |-> axis, angle |-> angle]

Turned(ns, ids, rotation, center) ==
  Displaced(ns, ids, IF rotation.angle = 0 THEN <<>> ELSE << <<"turn", rotation, center>> >>)

\* SetInitialDisplacements: the pitch of every blade, about the line from its apex
\* to its root.
InitialPitch(ns, i) ==
  Turned(ns, blades[i], Rotation(Line(apexes[i], Root(blades[i])), input.pitch),
         Node(nodes, apexes[i]).x0)
SetInitialPitch ==
  /\ pc = "pitch"
  /\ nodes' = FoldLeftDomain(LAMBDA ns, i : InitialPitch(ns, i), nodes, blades)
  /\ pc' = "yaw"
  /\ UNCHANGED <<input, beams, masses, constraints, mesh, blades, tower, part, apexes, control>>

\* The yaw of the nacelle with the rotor, about the top of the tower.
SetInitialYaw ==
  /\ pc = "yaw"
  /\ nodes' = Turned(nodes, NacelleNodeIds, Rotation(VerticalAxis, input.yaw),
                     Node(nodes, TowerTop).x0)
  /\ pc' = "base"
  /\ UNCHANGED <<input, beams, masses, constraints, mesh, blades, tower, part, apexes, control>>

\* The displacement of everything with the base of the tower, and the constraint that
\* holds the base where it then is.
SetBaseDisplacement_HeldBefore ==
  /\ pc = "base"
  /\ nodes' = IF input.baseMoved
              THEN Displaced(nodes, AllTurbineIds, << <<"base">> >>)
              ELSE nodes
  /\ AddConstraintsInOrder(<<PrescribedBC(Root(tower), Node(nodes, Root(tower)).u)>>)
  /\ pc' = "velocity"
  /\ UNCHANGED <<input, beams, masses, blades, tower, part, apexes, control>>
SetBaseDisplacement ==
  /\ pc = "base"
  /\ nodes' = IF input.baseMoved
              THEN Displaced(nodes, AllTurbineIds, << <<"base">> >>)
              ELSE nodes
  /\ AddConstraintsInOrder(<<PrescribedBC(Root(tower), Node(nodes', Root(tower)).u)>>)
  /\ pc' = "velocity"
  /\ UNCHANGED <<input, beams, masses, blades, tower, part, apexes, control>>

\* SetInitialRotorVelocity: the rotor turns about the displaced shaft.
ShaftSpin(ns) ==
  [from |-> DisplacedPosition(Node(ns, part["hub"])),
   to |-> DisplacedPosition(Node(ns, part["shaft_base"]))]
SetVelocityAboutPoint(node, spin) ==
  [node EXCEPT !.v = <<spin, DisplacedPosition(node)>>]
SpinningIds_WithShaftBase == RotorIds
SpinningIds == <<part["hub"], part["azimuth"]>> \o BladeIds
SetInitialRotorVelocity ==
  /\ pc = "velocity"
  /\ nodes' = FoldLeft(LAMBDA ns, id :
                [ns EXCEPT ![id + 1] = SetVelocityAboutPoint(@, ShaftSpin(nodes))],
                nodes, SpinningIds)
  /\ pc' = "built"
  /\ UNCHANGED <<input, beams, masses, constraints, mesh, blades, tower, part, apexes, control>>

Next ==
  \/ CreateBlade \/ CreateTower \/ RefuseBeam \/ ValidateInput
  \/ PositionTower \/ PositionRotor \/ AddMassElements \/ AddConstraints
  \/ SetInitialPitch \/ SetInitialYaw \/ SetBaseDisplacement \/ SetInitialRotorVelocity

Spec == Init /\ [][Next]_vars

----------------------------------------------------------------------------
(* Properties.                                                             *)

\* The nodes the constructor has created.
TurbineIds == input.prior .. Len(nodes) - 1

\* What moves as one: a beam with its nodes, or a node by itself.
Ground == <<"ground">>
Body(id) ==
  IF \E b \in DOMAIN beams : id \in ToSet(beams[b])
  THEN <<"beam", CHOOSE b \in DOMAIN beams : id \in ToSet(beams[b])>> ELSE <<"node", id>>
Bodies == {Body(id) : id \in TurbineIds}
Holder(c) == IF c.type = "PrescribedBC" THEN Ground ELSE Body(c.base)
HoldersOf(body) == {i \in DOMAIN constraints : Body(constraints[i].target) = body}

\* The bodies a body is held by, directly or through others.
Chain(body) ==
  LET next(b) == IF b = Ground THEN Ground
                 ELSE Holder(constraints[CHOOSE i \in HoldersOf(b) : TRUE])
      up[n \in 0 .. Cardinality(Bodies)] == IF n = 0 THEN body ELSE next(up[n - 1])
  IN {up[n] : n \in DOMAIN up}

(* Every body of the turbine is held by one constraint, and through others *)
(* by the ground: none is loose, which would leave the system singular,    *)
(* and none is held twice, which would make its multipliers so.  A beam    *)
(* with a prescribed root of its own is held twice; nothing refuses it.    *)
HeldOnce ==
  pc = "built" /\ ~input.prescribedRoots =>
    /\ \A body \in Bodies : Cardinality(HoldersOf(body)) = 1
    /\ \A body \in Bodies : Ground \in Chain(body)

\* A constraint holds for the initial displacements when its control is an angle: a
\* controlled target is turned by it before everything its base undergoes, about a
\* center and an axis through it.  About an axis the other way round the angle is the
\* opposite.
Reversed(axis) == <<axis[2], axis[1]>>
PointsOf(c) == IF c.axis = VerticalAxis THEN {} ELSE ToSet(c.axis)
SatisfiedAt(c, angle) ==
  LET b == Node(nodes, c.base)
      t == Node(nodes, c.target)
  IN CASE c.type = "PrescribedBC" -> t.u = c.initial
       [] c.type \in {"RigidJoint", "RevoluteJoint"} -> t.u = b.u
       [] c.type = "RotationControl" ->
            IF angle = 0 THEN t.u = b.u
            ELSE \E turn \in {Rotation(c.axis, angle), Rotation(Reversed(c.axis), -angle)},
                    center \in {b.x0} \cup PointsOf(c) :
                   /\ t.u = << <<"turn", turn, center>> >> \o b.u
                   /\ t.x0 \in {center} \cup PointsOf(c)
Satisfied(c) ==
  SatisfiedAt(c, CASE c.control = <<"yaw">> -> control.yaw
                   [] c.type = "RotationControl" /\ c.control # <<"yaw">> -> control.pitch[c.control[2]]
                   [] OTHER -> 0)

YawBearingAtTowerTop ==
  Node(nodes, part["yaw_bearing"]).x0 = Node(nodes, TowerTop).x0

(* The initial displacements satisfy the constraints of the turbine, in    *)
(* whatever order pitch, yaw and the base are applied, and the base is     *)
(* held where it is then.  Two exceptions: the initial pitch is the        *)
(* opposite of the commanded one, and a yaw bearing read from freed        *)
(* storage is not where the nacelle is yawed about.                        *)
StartSatisfiesConstraints ==
  pc = "built" /\ ~input.prescribedRoots =>
    \A i \in DOMAIN constraints :
      LET c == constraints[i]
      IN CASE c.type = "RotationControl" /\ c.control # <<"yaw">> -> SatisfiedAt(c, -input.pitch)
           [] c.control = <<"yaw">> -> YawBearingAtTowerTop => Satisfied(c)
           [] OTHER -> Satisfied(c)

(* What the comments say of the pitch axis ("from root to apex so that     *)
(* positive pitch angles point the leading edge into the wind") and of the *)
(* input ("Initial blade pitch angle"): a turbine starts with its blades   *)
(* at the pitch its constraints command.                                   *)
BladesStartAtCommandedPitch ==
  pc = "built" =>
    \A i \in DOMAIN constraints :
      constraints[i].type = "RotationControl" /\ constraints[i].control # <<"yaw">> =>
        Satisfied(constraints[i])

(* The initial velocity turns what lies beyond the shaft hinge, and only   *)
(* that, as one body about the shaft as it is displaced in the end: the    *)
(* constraints are satisfied by the initial velocities as well.            *)
RotorTurnsAsOneBody ==
  pc = "built" /\ ~input.prescribedRoots =>
    \A id \in TurbineIds :
      Node(nodes, id).v =
        IF Body(part["azimuth"]) \in Chain(Body(id))
        THEN <<ShaftSpin(nodes), DisplacedPosition(Node(nodes, id))>> ELSE <<>>

(* The variable of blade i commands one constraint, that constraint turns  *)
(* the root of blade i, and the apex it turns about was placed on the      *)
(* rotor together with that blade, like the rest of the rotor only once.   *)
PitchTurnsItsBlade ==
  pc = "built" =>
    \A i \in DOMAIN control.pitch :
      LET commanded == {c \in DOMAIN constraints : constraints[c].control = <<"pitch", i>>}
          placed(id) == Node(nodes, id).x0.moves
          onRotor == <<<<"cone">>, <<"azimuth", i>>, <<"tilt">>, <<"to apex">>>>
      IN /\ Cardinality(commanded) = 1
         /\ \A c \in commanded :
              /\ constraints[c].target = Root(blades[i])
              /\ placed(constraints[c].base) = onRotor
         /\ \A id \in ToSet(blades[i]) :
              placed(id) = <<<<"root">>, <<"x to z">>, <<"hub radius">>>> \o onRotor
==============================================================================
