------------------------------ MODULE BeamTeam ------------------------------
(***************************************************************************)
(* One Kokkos team at work in system/beams/calculate_quadrature_point_     *)
(* values.hpp: the kernel that turns the state of a beam element into its  *)
(* residual vector and system matrix.  The threads of the team run the     *)
(* same list of stages over shares of their ranges, communicate through    *)
(* team scratch memory only, and are held together by three barriers.  The *)
(* team takes one element after the other and finds in its scratch memory  *)
(* whatever the last element left there.                                   *)
(*                                                                         *)
(* What a location holds is abstracted to the element its value was        *)
(* computed for; Garbage is a value of no element (uninitialised, or       *)
(* computed from operands that did not all belong to the element).         *)
(***************************************************************************)
EXTENDS Naturals, Sequences

CONSTANTS TeamSize,      \* threads of the team
          Width,         \* lanes of a Kokkos simd value
          Elements,      \* the elements the team takes, in order
          MaxElemNodes   \* the most nodes an element of the model has

\* An element has nodes, quadrature points, and damping or an all-zero mu.
ElementShape == [nodes : Nat \ {0}, qps : Nat \ {0}, damped : BOOLEAN]

ASSUME TeamAssumption ==
    /\ TeamSize \in Nat \ {0}
    /\ Width \in Nat \ {0}
    /\ Elements \in Seq(ElementShape)
    /\ Elements # << >>
    /\ MaxElemNodes \in Nat
    /\ \A e \in DOMAIN Elements : Elements[e].nodes <= MaxElemNodes

VARIABLES element,   \* the element each thread works on (league rank + 1)
          stage,     \* the stage each thread is in
          next,      \* the next item of that stage's range it takes
          mem        \* the element whose value each written location holds

vars == <<element, stage, next, mem>>

Threads == 0..(TeamSize - 1)
Garbage == 0
Nodes(e) == Elements[e].nodes
Qps(e)   == Elements[e].qps

-----------------------------------------------------------------------------
(* Sizes. *)

\* Vectors of lanes that hold one value per node, the last one padded.
SimdNodes_Floor(nodes) == nodes \div Width
SimdNodes(nodes) == (nodes \div Width) + (IF nodes % Width = 0 THEN 0 ELSE 1)

PaddedNodes(nodes) == SimdNodes(nodes) * Width

\* Rows of the shape functions the launch asks scratch memory for.
ScratchRows_Unpadded(maxNodes) == maxNodes
ScratchRows(maxNodes) == ((maxNodes \div Width) + 1) * Width

-----------------------------------------------------------------------------
(* The stages.  An item of a stage has effects: each writes the location   *)
(* "to" from the values of the locations "from".                           *)

Effects(targets, operands) == {[to |-> l, from |-> operands] : l \in targets}

At(buffers, i) == {<<b, i>> : b \in buffers}
AtAll(buffers, count) == buffers \X (0..(count - 1))

\* Copies of the element's own data into scratch memory, one row per item.
CopyRow(buffer, i) == Effects(At({buffer}, i), {})

UpdateNodeState(n) == Effects(At({"node_u", "node_u_dot", "node_u_ddot"}, n), {})

InertialValues(e, q) ==
    Effects(At({"qp_Fi", "qp_Fg", "qp_Muu", "qp_G_I", "qp_K_I"}, q),
            AtAll({"shape_interp", "node_u", "node_u_dot", "node_u_ddot"}, Nodes(e)))

StiffnessValues(e, q) ==
    Effects(At({"qp_F_E1", "qp_F_E2", "qp_Cuu", "qp_K_E1", "qp_Puu", "qp_K_E2"}, q),
            At({"qp_jacobian"}, q)
                \cup AtAll({"shape_interp", "shape_deriv", "node_u"}, Nodes(e)))

\* With an all-zero mu the outputs are zeroed and nothing else is read.
DampingBuffers == {"qp_F_D1", "qp_F_D2", "qp_Duu", "qp_D_D1", "qp_D_D2",
                   "qp_G_D1", "qp_G_D2", "qp_P_D2", "qp_K_D1", "qp_K_D2"}
DampingValues(e, q) ==
    Effects(At(DampingBuffers, q),
            {<<"element_mu", 0>>} \cup
            IF Elements[e].damped
            THEN At({"qp_jacobian"}, q)
                   \cup AtAll({"shape_interp", "shape_deriv", "node_u", "node_u_dot"}, Nodes(e))
            ELSE {})

IntegrateResidual(e, n) ==
    Effects({<<"residual_vector_terms", e, n>>},
            At({"shape_interp", "shape_deriv", "node_FX"}, n)
              \cup AtAll({"qp_weight", "qp_jacobian", "qp_F_E1", "qp_F_E2", "qp_F_D1",
                          "qp_F_D2", "qp_Fi", "qp_Fe", "qp_Fg"}, Qps(e)))

\* The row a matrix item belongs to and the first column of its lanes.
RowOf(nodes, i)  == i \div SimdNodes(nodes)
LaneOf(nodes, i) == (i % SimdNodes(nodes)) * Width

\* Lanes of an item that are stored: the last vector of a row is cut off.
NumLanes_Padded(nodes, first) == Width
NumLanes(nodes, first) == IF nodes - first < Width THEN nodes - first ELSE Width

\* A lane multiplies the shape functions of its row and of its column with
\* the quadrature values; the stored blocks of a row are adjacent in memory.
IntegrateMatrix(target, quadrature, e, i) ==
    LET row   == RowOf(Nodes(e), i)
        first == LaneOf(Nodes(e), i)
    IN  {[to   |-> <<target, row * Nodes(e) + first + lane>>,
          from |-> At({"shape_interp", "shape_deriv"}, row)
                     \cup At({"shape_interp", "shape_deriv"}, first + lane)
                     \cup AtAll(quadrature \cup {"qp_weight", "qp_jacobian"}, Qps(e))] :
         lane \in 0..(NumLanes(Nodes(e), first) - 1)}

IntegrateStiffness(e, i) ==
    IntegrateMatrix("stiffness_matrix_terms",
                    {"qp_K_I", "qp_Puu", "qp_Cuu", "qp_K_E1", "qp_K_E2",
                     "qp_D_D1", "qp_K_D1", "qp_K_D2", "qp_P_D2"}, e, i)

IntegrateInertia(e, i) ==
    IntegrateMatrix("inertia_matrix_terms",
                    {"qp_Muu", "qp_G_I", "qp_Duu", "qp_G_D1", "qp_G_D2", "qp_D_D2"}, e, i)

SystemMatrix(e, i) ==
    Effects({<<"system_matrix_terms", e, i \div Nodes(e), i % Nodes(e)>>},
            At({"stiffness_matrix_terms", "inertia_matrix_terms"}, i))

-----------------------------------------------------------------------------
(* The functor: its stages in order, their ranges, and its barriers. *)

Stages == <<"shape_interp", "shape_deriv", "qp_Fe", "node_FX", "element_mu",
            "qp_weight", "qp_jacobian", "node_state",
            "inertial", "stiffness", "damping",
            "residual", "integrate_stiffness", "integrate_inertia",
            "system_matrix">>
LastStage == Len(Stages)

\* A thread enters these stages through a barrier; before the first stage of
\* the next element Kokkos makes the team wait for itself.
Barriers_NoneBeforeMatrix    == {1, 9, 12}
Barriers == {1, 9, 12, 15}

Items(e, s) ==
    CASE Stages[s] \in {"shape_interp", "shape_deriv", "node_FX", "node_state", "residual"}
                                             -> Nodes(e)
      [] Stages[s] \in {"qp_Fe", "qp_weight", "qp_jacobian", "inertial", "stiffness", "damping"}
                                             -> Qps(e)
      [] Stages[s] = "element_mu"            -> 1
      [] Stages[s] \in {"integrate_stiffness", "integrate_inertia"}
                                             -> Nodes(e) * SimdNodes(Nodes(e))
      [] Stages[s] = "system_matrix"         -> Nodes(e) * Nodes(e)

ItemEffects(e, s, i) ==
    CASE s \in 1..7                          -> CopyRow(Stages[s], i)
      [] Stages[s] = "node_state"            -> UpdateNodeState(i)
      [] Stages[s] = "inertial"              -> InertialValues(e, i)
      [] Stages[s] = "stiffness"             -> StiffnessValues(e, i)
      [] Stages[s] = "damping"               -> DampingValues(e, i)
      [] Stages[s] = "residual"              -> IntegrateResidual(e, i)
      [] Stages[s] = "integrate_stiffness"   -> IntegrateStiffness(e, i)
      [] Stages[s] = "integrate_inertia"     -> IntegrateInertia(e, i)
      [] Stages[s] = "system_matrix"         -> SystemMatrix(e, i)

-----------------------------------------------------------------------------
(* What a thread may do. *)

Working(t) == element[t] <= Len(Elements)

Effect(t) == ItemEffects(element[t], stage[t], next[t])
HasItem(t) == Working(t) /\ next[t] < Items(element[t], stage[t])

\* Thread u has come at least as far as the beginning of t's stage.
Reached(u, t) ==
    \/ element[u] > element[t]
    \/ element[u] = element[t] /\ stage[u] >= stage[t]

\* A stage behind a barrier starts when every thread has reached it.
MayRun(t) == stage[t] \in Barriers => \A u \in Threads : Reached(u, t)

Held(l) == IF l \in DOMAIN mem THEN mem[l] ELSE Garbage

\* The value an effect stores: of element e if all its operands are.
Stored(e, effect) == IF \A l \in effect.from : Held(l) = e THEN e ELSE Garbage

Init == /\ element = [t \in Threads |-> 1]
        /\ stage   = [t \in Threads |-> 1]
        /\ next    = [t \in Threads |-> t]
        /\ mem     = << >>

\* One item of the stage's range: all its effects.
RunItem(t) ==
    /\ HasItem(t)
    /\ MayRun(t)
    /\ LET effects == Effect(t)
           targets == {f.to : f \in effects}
       IN  mem' = [l \in DOMAIN mem \cup targets |->
                     IF l \in targets
                     THEN Stored(element[t], CHOOSE f \in effects : f.to = l)
                     ELSE mem[l]]
    /\ next' = [next EXCEPT ![t] = @ + TeamSize]
    /\ UNCHANGED <<element, stage>>

\* The thread's share of the range is done: on to the next stage.
EndStage(t) ==
    /\ Working(t)
    /\ ~ HasItem(t)
    /\ MayRun(t)
    /\ stage[t] < LastStage
    /\ stage' = [stage EXCEPT ![t] = @ + 1]
    /\ next'  = [next EXCEPT ![t] = t]
    /\ UNCHANGED <<element, mem>>

\* The functor returns, and the team takes the next element.
EndElement(t) ==
    /\ Working(t)
    /\ ~ HasItem(t)
    /\ MayRun(t)
    /\ stage[t] = LastStage
    /\ element' = [element EXCEPT ![t] = @ + 1]
    /\ stage'   = [stage EXCEPT ![t] = 1]
    /\ next'    = [next EXCEPT ![t] = t]
    /\ UNCHANGED mem

Step(t) == RunItem(t) \/ EndStage(t) \/ EndElement(t)

Next == \E t \in Threads : Step(t)

Spec == Init /\ [][Next]_vars

-----------------------------------------------------------------------------
(* Properties. *)

\* Every variable has its type; what memory holds is of an element or garbage.
TypeOK ==
    /\ element \in [Threads -> 1..(Len(Elements) + 1)]
    /\ stage \in [Threads -> 1..LastStage]
    /\ next \in [Threads -> Nat]
    /\ \A l \in DOMAIN mem : mem[l] \in 0..Len(Elements)

Running(t) == HasItem(t) /\ MayRun(t)
Writes(t) == {f.to : f \in Effect(t)}
Reads(t)  == UNION {f.from : f \in Effect(t)}

\* No two threads can be at items of which one writes what the other reads or
\* writes: three barriers are enough for the whole element, and the blocks
\* two vectorised items store never overlap.
NoRace ==
    \A t, u \in Threads :
        t # u /\ Running(t) /\ Running(u) => Writes(t) \cap (Reads(u) \cup Writes(u)) = {}

\* What a running item stores is computed from values of its own element: not
\* from what the last element left in scratch memory, not from the padding of
\* the shape functions, and not from quadrature values nobody has set.
NothingStale ==
    \A t \in Threads : Running(t) =>
        \A f \in Effect(t) : \A l \in f.from : Held(l) = element[t]

\* When the team is done with an element, nothing of the result is missing: each
\* node has its residual and each pair of nodes its block of the matrix, all of
\* them values of that element.
Finished(e) == \A t \in Threads : element[t] > e
ResultComplete ==
    \A e \in DOMAIN Elements : Finished(e) =>
        \A n1, n2 \in 0..(Nodes(e) - 1) :
            /\ Held(<<"residual_vector_terms", e, n1>>) = e
            /\ Held(<<"system_matrix_terms", e, n1, n2>>) = e

\* A vector load of the shape functions, padding included, stays inside the
\* rows the launch asked for, whichever element the team works on.
LoadsFitScratch ==
    \A t \in Threads :
        Running(t) /\ Stages[stage[t]] \in {"integrate_stiffness", "integrate_inertia"} =>
            LaneOf(Nodes(element[t]), next[t]) + Width <= ScratchRows(MaxElemNodes)
=============================================================================
