-------------------------- MODULE TurbineInterface --------------------------
(***************************************************************************)
(* The constructor of TurbineInterface (interfaces/turbine) goes on where  *)
(* Turbine ends: it wires the aerodynamic bodies to the nodes of blades    *)
(* and tower, and builds the channels of the time series, one flat row     *)
(* that WriteTimeSeriesData later fills through the offsets of index_map_. *)
(* UpdateAerodynamicLoads and Step then carry motion to the sections of    *)
(* the bodies (interfaces/components/aerodynamics) and loads back to the   *)
(* nodes, through one flat matrix of weights.                              *)
(*                                                                         *)
(* The motion and the loads are whole numbers and rotations of module      *)
(* Kinematics, positions along a beam count quarters of it, weights and    *)
(* what they multiply eighths, so nothing is rounded.  What is in a row is *)
(* the name of the quantity that was read.                                 *)
(***************************************************************************)
EXTENDS TurbineAssembly, Kinematics

CONSTANTS
  AirfoilMaps,  \* airfoil_map, <<>> when aerodynamics are not enabled
  Airfoils,     \* aero_inputs: the sections of every airfoil
  Turns,        \* bound: how the turbine may be turned
  Samples       \* bound: the velocities and loads that are tried, see Sample

\* Of a section: its place s in quarters of the beam, the vector from the beam to its
\* aerodynamic center, and its reference orientation, twist included.
ASSUME AerodynamicsAssumption ==
  /\ Orders \subseteq 0 .. 2        \* whose GLL points are equally spaced
  /\ Samples \subseteq Nat
  /\ \A a \in DOMAIN Airfoils : Airfoils[a] \in Seq([s : 0 .. 4, arm : Seq(Int), ref : Seq(Int)])
  /\ AirfoilMaps \subseteq Seq(DOMAIN Airfoils)

VARIABLES
  bodies,      \* aerodynamics->bodies, <<>> without aerodynamics
  hasController,
  channels,    \* time_series_channels_
  index,       \* index_map_
  row,         \* time_series_row_buffer_, from 0
  host,        \* host_state: the rotation of the turbine and the velocities v
  nodeLoads,   \* the loads of NodeData, which the caller sets
  f            \* host_state.f, in eighths

flight == <<host, nodeLoads, f>>
output == <<hasController, channels, index, row>>
interfaceVars == <<vars, bodies, output, flight>>

----------------------------------------------------------------------------
(* Velocities and loads.  What is checked is linear in each of them, so a   *)
(* few generic vectors stand for all.                                       *)

Sample(k, i) ==
  [c \in 1 .. 6 |-> IF k = 0 THEN 0 ELSE (((i + k) * c * c + 3 * i * c + k) % 7) - 3]
Ids == 0 .. Len(nodes) - 1
Hosts == {[turn |-> q, v |-> [id \in Ids |-> Sample(k, id)]] : q \in Turns, k \in Samples}
NoForce == [id \in Ids |-> ZeroVector(6)]
Linear(v)  == SubSeq(v, 1, 3)
Angular(v) == SubSeq(v, 4, 6)

VectorSum(Term(_), S) == [c \in 1 .. 6 |-> MapThenSumSet(LAMBDA s : Term(s)[c], S)]

----------------------------------------------------------------------------
(* AerodynamicBody.                                                         *)

Xi(s) == 2 * s - 4                          \* in quarters of -1 .. 1
NodeXi(count) == [k \in 1 .. count |-> Xi((4 * (k - 1)) \div (count - 1))]

\* LagrangePolynomialInterpWeights, in eighths.
LagrangeWeight(x, xs, j) ==
  LET product(of) == FoldLeft(LAMBDA a, m : IF m = j THEN a ELSE a * (of - xs[m]), 1,
                              [m \in DOMAIN xs |-> m])
      whole == product(xs[j])
  IN (8 * product(x) * whole) \div (whole * whole)

\* ComputeMotionInterp: the weight of node j in section i is at index i * n_nodes + j.
At0(i, j, count) == (i - 1) * count + (j - 1)
MotionInterp(sections, count) ==
  [k \in 0 .. Len(sections) * count - 1 |->
     LagrangeWeight(Xi(sections[(k \div count) + 1].s), NodeXi(count), (k % count) + 1)]

ConForce_Unsigned(sections) == [i \in DOMAIN sections |-> sections[i].arm]
ConForce(sections) == [i \in DOMAIN sections |-> Times(-1, sections[i].arm)]

AerodynamicBody(ids, sections) ==
  LET idle == [i \in DOMAIN sections |-> ZeroVector(6)]
  IN [ids |-> ids, sections |-> sections, interp |-> MotionInterp(sections, Len(ids)),
      conForce |-> ConForce(sections),
      nodeV |-> [j \in DOMAIN ids |-> ZeroVector(6)], qqr |-> [i \in DOMAIN sections |-> NoRotation],
      velocity |-> idle,      \* v_motion and the angular part of v_motion_map
      loads |-> idle, moments |-> [i \in DOMAIN sections |-> ZeroVector(3)],
      nodeF |-> [j \in DOMAIN ids |-> ZeroVector(6)]]

\* The velocity of the beam at a section is interpolated, its aerodynamic center goes
\* round with it.  All nodes are turned alike, so the rotations need no interpolation.
CalculateMotion(body) ==
  LET count == Len(body.ids)
      qqr == [i \in DOMAIN body.sections |-> QuaternionCompose(host.turn, body.sections[i].ref)]
      onBeam(i) == VectorSum(LAMBDA j : Times(body.interp[At0(i, j, count)], host.v[body.ids[j]]),
                             1 .. count)
      arm(i) == RotateVectorByQuaternion(qqr[i], body.sections[i].arm)
  IN [body EXCEPT
        !.nodeV = [j \in 1 .. count |-> host.v[body.ids[j]]],
        !.qqr = qqr,
        !.velocity = [i \in DOMAIN body.sections |->
           Plus(Linear(onBeam(i)), CrossProduct(Angular(onBeam(i)), arm(i))) \o Angular(onBeam(i))]]

\* CalculateAerodynamicLoads: the coefficients, here any, give loads in the frame of
\* the section, and the moment about the beam is formed there.
CalculateAerodynamicLoads(body, k) ==
  LET local(i) == LET c == Sample(k, i) IN <<0, -c[1], -c[2], c[3], 0, 0>>
      turned(i, v) == RotateVectorByQuaternion(body.qqr[i], v)
  IN [body EXCEPT
        !.loads = [i \in DOMAIN @ |-> turned(i, Linear(local(i))) \o turned(i, Angular(local(i)))],
        !.moments = [i \in DOMAIN @ |->
           turned(i, Plus(CrossProduct(Linear(local(i)), body.conForce[i]), Angular(local(i))))]]

\* SetAerodynamicLoads: the caller gives the loads in the global frame.
SetAerodynamicLoads(body, k) ==
  [body EXCEPT
     !.loads = [i \in DOMAIN @ |-> Sample(k, i)],
     !.moments = [i \in DOMAIN @ |->
        Plus(CrossProduct(Linear(Sample(k, i)), RotateVectorByQuaternion(body.qqr[i], body.conForce[i])),
             Angular(Sample(k, i)))]]

CalculateNodalLoads(body) ==
  LET weighted(i, j) == Times(body.interp[At0(i, j, Len(body.ids))], Linear(body.loads[i]) \o body.moments[i])
  IN [body EXCEPT !.nodeF = [j \in DOMAIN @ |->
                               VectorSum(LAMBDA i : weighted(i, j), DOMAIN body.sections)]]

----------------------------------------------------------------------------
(* The constructor: the bodies of the blades and, when the map has an entry *)
(* more, of the tower, which takes the last one.                            *)

BodyOf(map, ids, entry) == AerodynamicBody(ids, Airfoils[map[entry]])
CreateAerodynamics ==
  /\ pc = "built"
  /\ \E map \in AirfoilMaps :
       /\ map = <<>> \/ Len(map) >= Len(blades)
       /\ bodies' =
            IF map = <<>> THEN <<>>
            ELSE [i \in DOMAIN blades |-> BodyOf(map, blades[i], i)]
                 \o (IF Len(map) > Len(blades) THEN <<BodyOf(map, tower, Len(map))>> ELSE <<>>)
  /\ pc' = "controller"
  /\ UNCHANGED <<input, model, blades, tower, part, apexes, control, output, flight>>

\* Whether there is a controller in the end, see module TurbineControl.
CreateController ==
  /\ pc = "controller"
  /\ hasController' \in BOOLEAN
  /\ pc' = "outputs"
  /\ UNCHANGED <<input, model, blades, tower, part, apexes, control, bodies,
                 channels, index, row, flight>>

----------------------------------------------------------------------------
(* The time series.  The schema is a list of groups of channels; index_map_ *)
(* has the place of the first channel of every group.                       *)

Group(key, names) == [key |-> key, names |-> names]
Single(name) == Group(<<name>>, << <<name>> >>)
Triple(name) == Group(<<name>>, [c \in 1 .. 3 |-> <<name, c>>])
Numbered(name, i) == [c \in 1 .. 3 |-> <<name, i, c>>]
BladeGroup(i) ==
  Group(<<"blade", i>>, Numbered("RootF", i) \o Numbered("RootM", i) \o << <<"BldPitch", i>> >>
                        \o Numbered("TipTV", i) \o Numbered("TipRV", i))
SectionNames(b, s) ==
  << <<"Vrel", b, s>>, <<"Alpha", b, s>>, <<"Cn", b, s>>, <<"Ct", b, s>>, <<"Cm", b, s>> >>
  \o [c \in 1 .. 3 |-> <<"Fi", b, s, c>>] \o [c \in 1 .. 3 |-> <<"Mi", b, s, c>>]
AeroGroup(b) ==
  Group(<<"aero", b>>, FlattenSeq([s \in DOMAIN bodies[b].sections |-> SectionNames(b, s)]))
\* The tower has no channels, although it may be the last body.
AeroBodies == 1 .. (IF Len(bodies) < Len(blades) THEN Len(bodies) ELSE Len(blades))

Schema ==
  <<Single("Time"), Single("ConvIter"), Single("ConvError"), Single("Azimuth"), Single("RotSpeed"),
    Single("YawPzn"), Triple("YawBrTD"), Triple("YawBrTV"), Triple("YawBrTA"),
    Triple("TwrBsF"), Triple("TwrBsM"), Single("RotThrust")>>
  \o [i \in DOMAIN blades |-> BladeGroup(i)]
  \o (IF hasController THEN <<Single("GenTq"), Single("GenPwr")>> ELSE <<>>)
  \o <<Triple("WindHubVel")>>
  \o [b \in AeroBodies |-> AeroGroup(b)]

NamesOf(groups) == FlattenSeq([g \in DOMAIN groups |-> groups[g].names])
BuildTimeSeriesSchema ==
  /\ pc = "outputs"
  /\ channels' = NamesOf(Schema)
  /\ index' = [key \in {Schema[g].key : g \in DOMAIN Schema} |->
                 Len(NamesOf(SubSeq(Schema, 1, (CHOOSE g \in DOMAIN Schema : Schema[g].key = key) - 1)))]
  /\ row' = [k \in 0 .. Len(channels') - 1 |-> <<>>]
  /\ pc' = "row"
  /\ UNCHANGED <<input, model, blades, tower, part, apexes, control, bodies, hasController, flight>>

Start(name) == index[<<name>>]
Write(base, values) == [base |-> base, values |-> values]
Components(quantity, from, to) == [c \in 1 .. to - from + 1 |-> <<quantity, from + c - 1>>]
Of(quantity, id, from, to) == [c \in 1 .. to - from + 1 |-> <<quantity, id, from + c - 1>>]

AeroChannelStride_Short == 10
AeroChannelStride == 11
SectionValues(b, s) ==
  << <<"v_rel", b, s>>, <<"alpha", b, s>>, <<"cn", b, s>>, <<"ct", b, s>>, <<"cm", b, s>> >>
  \o [c \in 1 .. 6 |-> <<"load by width", b, s, c>>]

\* Everything WriteTimeSeriesData writes into the row, in its order.
RowWrites ==
  LET bearing == part["yaw_bearing"]
      tip(i) == Last(blades[i])
  IN << Write(Start("Time"), << <<"time">> >>),
        Write(Start("ConvIter"), << <<"iterations">> >>),
        Write(Start("ConvError"), << <<"last error">> >>),
        Write(Start("Azimuth"), << <<"output", 0>> >>),
        Write(Start("RotSpeed"), << <<"output", 1>> >>),
        Write(Start("YawPzn"), << <<"yaw control">> >>),
        Write(Start("YawBrTD"), Of("u", bearing, 1, 3)),
        Write(Start("YawBrTV"), Of("v", bearing, 1, 3)),
        Write(Start("YawBrTA"), Of("vd", bearing, 1, 3)),
        Write(Start("TwrBsF"), Components("base load", 1, 3)),
        Write(Start("TwrBsM"), Components("base load", 4, 6)),
        Write(Start("RotThrust"), << <<"shaft force along the shaft">> >>) >>
     \o [i \in DOMAIN blades |->
           Write(index[<<"blade", i>>],
                 Of("root load", i, 1, 6) \o << <<"pitch control", i>> >> \o Of("v", tip(i), 1, 6))]
     \o (IF hasController
         THEN <<Write(Start("GenTq"), << <<"torque command">> >>),
                Write(Start("GenPwr"), << <<"torque command by speed">> >>)>> ELSE <<>>)
     \o <<Write(Start("WindHubVel"), Components("hub inflow", 1, 3))>>
     \o FlattenSeq([b \in AeroBodies |->
          [s \in DOMAIN bodies[b].sections |->
             Write(index[<<"aero", b>>] + (s - 1) * AeroChannelStride, SectionValues(b, s))]])

Written(r, write) ==
  [k \in DOMAIN r |-> IF k \in write.base .. write.base + Len(write.values) - 1
                      THEN write.values[k - write.base + 1] ELSE r[k]]
WriteTimeSeriesData ==
  /\ pc = "row"
  /\ row' = FoldLeft(Written, [k \in DOMAIN row |-> <<>>], RowWrites)
  /\ pc' = "written"
  /\ UNCHANGED <<input, model, blades, tower, part, apexes, control, bodies, hasController,
                 channels, index, flight>>

----------------------------------------------------------------------------
(* Steps, for an interface without outputs (bound), from any motion.        *)

\* The place a behaviour has come to; the loads are updated once from there (bound).
Fly ==
  /\ pc = "outputs"
  /\ ~hasController
  /\ bodies # <<>>
  /\ host' \in Hosts
  /\ nodeLoads' = [id \in Ids |-> ZeroVector(6)]
  /\ f' = NoForce
  /\ pc' = "flight"
  /\ UNCHANGED <<input, model, blades, tower, part, apexes, control, bodies, output>>

\* UpdateAerodynamicLoads, or the calls of Aerodynamics in its place with loads of the caller.
UpdateAerodynamicLoads ==
  /\ pc = "flight"
  /\ \E k \in Samples :
       \E loaded \in {[b \in DOMAIN bodies |-> CalculateAerodynamicLoads(CalculateMotion(bodies[b]), k)],
                      [b \in DOMAIN bodies |-> SetAerodynamicLoads(CalculateMotion(bodies[b]), k)]} :
         bodies' = [b \in DOMAIN bodies |-> CalculateNodalLoads(loaded[b])]
  /\ pc' = "updated"
  /\ UNCHANGED <<input, model, blades, tower, part, apexes, control, output, flight>>

SetNodeLoads ==
  /\ pc \in {"updated", "stepped"}
  /\ \E k \in Samples : nodeLoads' = [id \in Ids |-> Sample(k, id)]
  /\ pc' = "updated"
  /\ UNCHANGED <<input, model, blades, tower, part, apexes, control, bodies, output, host, f>>

\* Turbine::SetLoads: the node of the nacelle's mass is not among them.
LoadedIds ==
  ToSet(FlattenSeq(blades)) \cup ToSet(tower) \cup ToSet(apexes)
  \cup {part["hub"], part["azimuth"], part["shaft_base"], part["yaw_bearing"]}
SetLoads == [id \in Ids |-> IF id \in LoadedIds THEN Times(8, nodeLoads[id]) ELSE ZeroVector(6)]

AddNodalLoadsToState(forces, body) ==
  FoldLeftDomain(LAMBDA g, j : [g EXCEPT ![body.ids[j]] = Plus(@, body.nodeF[j])], forces, body.ids)

\* The solve ends with some motion.
Step ==
  /\ pc \in {"updated", "stepped"}
  /\ f' = FoldLeft(AddNodalLoadsToState, SetLoads, bodies)
  /\ host' \in Hosts
  /\ pc' = "stepped"
  /\ UNCHANGED <<input, model, blades, tower, part, apexes, control, bodies, output, nodeLoads>>

InterfaceInit ==
  /\ Init
  /\ bodies = <<>> /\ hasController = FALSE
  /\ channels = <<>> /\ index = [key \in {} |-> 0] /\ row = <<>>
  /\ host = [turn |-> NoRotation, v |-> <<>>]
  /\ nodeLoads = <<>> /\ f = <<>>

\* Bound: how a turbine starts does not matter to what follows.
Plain ==
  /\ input.pitch = 0 /\ input.yaw = 0 /\ ~input.baseMoved /\ ~input.prescribedRoots
  /\ input.nacelleMass = input.yawMass

InterfaceNext ==
  \/ Next /\ UNCHANGED <<bodies, output, flight>>
  \/ Plain /\ CreateAerodynamics
  \/ CreateController
  \/ BuildTimeSeriesSchema
  \/ WriteTimeSeriesData
  \/ Fly
  \/ UpdateAerodynamicLoads
  \/ SetNodeLoads
  \/ Step

InterfaceSpec == InterfaceInit /\ [][InterfaceNext]_interfaceVars

----------------------------------------------------------------------------
(* Properties.                                                             *)

\* What the name of a channel says is in it.
Meaning(name) ==
  LET n == name[1]
      bearing == part["yaw_bearing"]
  IN CASE n = "Time" -> <<"time">>        [] n = "ConvIter" -> <<"iterations">>
       [] n = "ConvError" -> <<"last error">>
       [] n = "Azimuth" -> <<"output", 0>> [] n = "RotSpeed" -> <<"output", 1>>
       [] n = "YawPzn" -> <<"yaw control">>
       [] n = "YawBrTD" -> <<"u", bearing, name[2]>>
       [] n = "YawBrTV" -> <<"v", bearing, name[2]>>
       [] n = "YawBrTA" -> <<"vd", bearing, name[2]>>
       [] n = "TwrBsF" -> <<"base load", name[2]>>
       [] n = "TwrBsM" -> <<"base load", name[2] + 3>>
       [] n = "RotThrust" -> <<"shaft force along the shaft">>
       [] n = "RootF" -> <<"root load", name[2], name[3]>>
       [] n = "RootM" -> <<"root load", name[2], name[3] + 3>>
       [] n = "BldPitch" -> <<"pitch control", name[2]>>
       [] n = "TipTV" -> <<"v", Last(blades[name[2]]), name[3]>>
       [] n = "TipRV" -> <<"v", Last(blades[name[2]]), name[3] + 3>>
       [] n = "GenTq" -> <<"torque command">> [] n = "GenPwr" -> <<"torque command by speed">>
       [] n = "WindHubVel" -> <<"hub inflow", name[2]>>
       [] n = "Vrel" -> <<"v_rel", name[2], name[3]>> [] n = "Alpha" -> <<"alpha", name[2], name[3]>>
       [] n = "Cn" -> <<"cn", name[2], name[3]>> [] n = "Ct" -> <<"ct", name[2], name[3]>>
       [] n = "Cm" -> <<"cm", name[2], name[3]>>
       [] n = "Fi" -> <<"load by width", name[2], name[3], name[4]>>
       [] n = "Mi" -> <<"load by width", name[2], name[3], name[4] + 3>>

(* Whatever the numbers of blades and sections, with a controller or not,  *)
(* with a tower among the bodies or not: every value of the row is under   *)
(* the channel named for it, no channel is left without its value, and no  *)
(* two have the same name.                                                 *)
ChannelsHoldTheirValue ==
  pc = "written" =>
    /\ \A k \in 1 .. Len(channels) : row[k - 1] = Meaning(channels[k])
    /\ Cardinality(ToSet(channels)) = Len(channels)

Power(load, v) == DotProduct(load, v)

(* The loads at the nodes of a body, less those the caller set there, are  *)
(* the loads at its sections: they do the same work on every motion of the *)
(* nodes, and they add up to the same force.  The arm of the aerodynamic   *)
(* center, applied once to the velocities and once, the other way round    *)
(* and in another frame, to the loads, cancels; so does the way between    *)
(* nodes and sections.                                                     *)
AppliedLoadsDoSectionWork ==
  pc = "stepped" =>
    \A b \in DOMAIN bodies :
      LET body == bodies[b]
          applied(j) == Minus(f[body.ids[j]], Times(8, nodeLoads[body.ids[j]]))
      IN /\ MapThenSumSet(LAMBDA j : Power(applied(j), body.nodeV[j]), DOMAIN body.ids)
              = MapThenSumSet(LAMBDA i : Power(body.loads[i], body.velocity[i]), DOMAIN body.sections)
         /\ Linear(VectorSum(applied, DOMAIN body.ids))
              = Times(8, Linear(VectorSum(LAMBDA i : body.loads[i], DOMAIN body.sections)))
=============================================================================
