--------------------------- MODULE FreedomTables ---------------------------
(***************************************************************************)
(* Numbering the degrees of freedom: the four functions of                 *)
(* src/src/dof_management that CreateSolver (src/src/model/model.hpp)      *)
(* calls in order, and ComputeNumSystemDofs of src/src/solver.             *)
(*                                                                         *)
(* The kernels that fill the allocation table run one thread per element   *)
(* or constraint and merge signatures into shared nodes with atomic_or, so *)
(* their threads are interleaved one atomic operation at a time.  Kernels  *)
(* themselves follow each other in order on one execution space.  The      *)
(* later kernels only write rows of their own thread and are one step.     *)
(*                                                                         *)
(* A signature is a set of blocks, "T" for the translations and "R" for    *)
(* the rotations, each of Block components (3 in the code).  A definition  *)
(* whose name ends in an underscore and a word is a seeded fault (see      *)
(* module SolveStep).                                                      *)
(***************************************************************************)
EXTENDS Integers, Sequences, FiniteSets, FiniteSetsExt

CONSTANTS
  NumNodes,        \* state.num_system_nodes
  NumElements,     \* beams, masses and springs together
  NumConstraints,  \* constraints.num_constraints
  Block,           \* components in a block, 3 in the code
  UsedTypes        \* bound: the constraint types the meshes use

ASSUME FreedomAssumption ==
  /\ NumNodes \in Nat \ {0}
  /\ NumElements \in Nat
  /\ NumConstraints \in Nat
  /\ Block \in Nat \ {0}

Nodes       == 0 .. NumNodes - 1
Elements    == 1 .. NumElements
Constraints == 1 .. NumConstraints

VARIABLES
  pc,           \* the kernel or function that runs
  elems,        \* connectivity: kind and nodes of every element
  cons,         \* type, base and target node of every constraint
  merged,       \* threads' progress: signatures merged by each element ...
  consMerged,   \* ... and by each constraint
  alloc,        \* state.node_freedom_allocation_table
  dofs,         \* state.active_dofs
  map,          \* state.node_freedom_map_table
  scanned,      \* nodes the scan has passed
  elemTable,    \* element_freedom_table of every element
  targetTable,  \* constraints.target_node_freedom_table
  baseTable,    \* constraints.base_node_freedom_table
  numSystemDofs \* solver.num_system_dofs

mesh       == <<elems, cons>>
threads    == <<merged, consMerged>>
nodeTables == <<alloc, dofs, map, scanned>>
userTables == <<elemTable, targetTable, baseTable, numSystemDofs>>
freedomVars == <<pc, mesh, threads, nodeTables, userTables>>

----------------------------------------------------------------------------
(* Signatures.                                                             *)

AllComponents == {"T", "R"}
JustPosition  == {"T"}
NoComponents  == {}
Signatures    == SUBSET AllComponents

\* The code counts bits; a block has Block of them.
CountActiveDofs(sig) ==
  (IF "T" \in sig THEN Block ELSE 0) + (IF "R" \in sig THEN Block ELSE 0)

ElementSignature(kind) == IF kind = "springs" THEN JustPosition ELSE AllComponents

\* Components an element of this kind numbers at each of its nodes.
Width(kind) == IF kind = "springs" THEN Block ELSE 2 * Block

TwoNodeTypes == {"RigidJoint", "RevoluteJoint", "RotationControl",
                 "RigidJoint6DOFsTo3DOFs"}
ThreeDofTypes == {"FixedBC3DOFs", "PrescribedBC3DOFs", "RigidJoint6DOFsTo3DOFs"}
ConstraintTypes == TwoNodeTypes \cup ThreeDofTypes \cup {"FixedBC", "PrescribedBC"}

ASSUME TypesAssumption == UsedTypes \subseteq ConstraintTypes

TargetSignature(type) ==
  IF type \in ThreeDofTypes THEN JustPosition ELSE AllComponents
BaseSignature(type) ==
  IF type \in TwoNodeTypes THEN AllComponents ELSE NoComponents

----------------------------------------------------------------------------
(* Meshes.                                                                 *)

Distinct(s) == \A i, j \in DOMAIN s : s[i] = s[j] => i = j
NodeLists(k) == {s \in [1 .. k -> Nodes] : Distinct(s)}

ElementShapes ==
  [kind : {"beams"}, nodes : UNION {NodeLists(k) : k \in 2 .. NumNodes}]
  \cup [kind : {"masses"}, nodes : NodeLists(1)]
  \cup [kind : {"springs"}, nodes : NodeLists(2)]

\* Elements are numbered as NumberOfNodesPerElement and NodeStateIndices of
\* src/src/elements/elements.hpp concatenate them: beams, masses, springs.
KindRank == [beams |-> 1, masses |-> 2, springs |-> 3]
Concatenated(es) ==
  \A i, j \in DOMAIN es : i < j => KindRank[es[i].kind] <= KindRank[es[j].kind]

\* A constraint on one node has no base; its base field is not read.
ConstraintShapes ==
  {c \in [type : UsedTypes, base : Nodes, target : Nodes] :
     c.base = c.target <=> c.type \notin TwoNodeTypes}

----------------------------------------------------------------------------
Unset == -1

\* The views are allocated without initialization: either extreme stands
\* for what they may hold.
Init ==
  /\ pc = "start"
  /\ elems \in {es \in [Elements -> ElementShapes] : Concatenated(es)}
  /\ cons \in [Constraints -> ConstraintShapes]
  /\ merged = [e \in Elements |-> 0]
  /\ consMerged = [c \in Constraints |-> 0]
  /\ \E garbage \in {NoComponents, AllComponents} :
       alloc = [n \in Nodes |-> garbage]
  /\ dofs = [n \in Nodes |-> 0]
  /\ map = [n \in Nodes |-> 0]
  /\ scanned = 0
  /\ elemTable = [e \in Elements |-> <<>>]
  /\ targetTable = [c \in Constraints |-> [k \in 0 .. 2 * Block - 1 |-> Unset]]
  /\ baseTable = [c \in Constraints |-> [k \in 0 .. 2 * Block - 1 |-> Unset]]
  /\ numSystemDofs = 0

\* assemble_node_freedom_allocation_table first clears the table.
ClearedTable == [n \in Nodes |-> NoComponents]

ClearTable ==
  /\ pc = "start"
  /\ alloc' = ClearedTable
  /\ pc' = "beams"
  /\ UNCHANGED <<mesh, threads, dofs, map, scanned, userTables>>

Merge_Overwrites(old, sig) == sig
Merge(old, sig) == old \cup sig

\* One atomic_or of the thread of element e, in the kernel of its kind.
MergeElement(e) ==
  /\ pc = elems[e].kind
  /\ merged[e] < Len(elems[e].nodes)
  /\ LET node == elems[e].nodes[merged[e] + 1]
     IN alloc' = [alloc EXCEPT
                    ![node] = Merge(@, ElementSignature(elems[e].kind))]
  /\ merged' = [merged EXCEPT ![e] = @ + 1]
  /\ UNCHANGED <<pc, mesh, consMerged, dofs, map, scanned, userTables>>

\* One atomic_or of the thread of constraint c: the target node, then the
\* base node if the type has two nodes.
MergeConstraint(c) ==
  /\ pc = "constraints"
  /\ \/ /\ consMerged[c] = 0
        /\ alloc' = [alloc EXCEPT
                       ![cons[c].target] = Merge(@, TargetSignature(cons[c].type))]
     \/ /\ consMerged[c] = 1
        /\ cons[c].type \in TwoNodeTypes
        /\ alloc' = [alloc EXCEPT
                       ![cons[c].base] = Merge(@, BaseSignature(cons[c].type))]
  /\ consMerged' = [consMerged EXCEPT ![c] = @ + 1]
  /\ UNCHANGED <<pc, mesh, merged, dofs, map, scanned, userTables>>

\* The next kernel starts when every thread of this one has ended.
NextKernel ==
  \/ /\ pc \in {"beams", "masses", "springs"}
     /\ \A e \in Elements :
          elems[e].kind = pc => merged[e] = Len(elems[e].nodes)
     /\ pc' = CASE pc = "beams"   -> "masses"
                [] pc = "masses"  -> "springs"
                [] pc = "springs" -> "constraints"
     /\ UNCHANGED <<mesh, threads, nodeTables, userTables>>
  \/ /\ pc = "constraints"
     /\ \A c \in Constraints :
          consMerged[c] = IF cons[c].type \in TwoNodeTypes THEN 2 ELSE 1
     /\ pc' = "count"
     /\ UNCHANGED <<mesh, threads, nodeTables, userTables>>

\* The last loop of assemble_node_freedom_allocation_table; then the map table
\* is zeroed for the scan.
ComputeActiveDofs ==
  /\ pc = "count"
  /\ dofs' = [n \in Nodes |-> CountActiveDofs(alloc[n])]
  /\ map' = [n \in Nodes |-> 0]
  /\ scanned' = 0
  /\ pc' = "scan"
  /\ UNCHANGED <<mesh, threads, alloc, userTables>>

\* compute_node_freedom_map_table: an inclusive scan over all nodes but the
\* last, written one place to the right.  map[scanned] is the running sum.
Scan(i) == map[i] + CountActiveDofs(alloc[i])

ScanNode ==
  /\ pc = "scan"
  /\ scanned < NumNodes - 1
  /\ map' = [map EXCEPT ![scanned + 1] = Scan(scanned)]
  /\ scanned' = scanned + 1
  /\ UNCHANGED <<pc, mesh, threads, alloc, dofs, userTables>>

\* create_element_freedom_table: consecutive numbers from the node's first.
CreateElementTable ==
  /\ pc = "scan"
  /\ scanned = NumNodes - 1
  /\ elemTable' =
       [e \in Elements |->
          [k \in 1 .. Len(elems[e].nodes) |->
             [component \in 0 .. Width(elems[e].kind) - 1 |->
                map[elems[e].nodes[k]] + component]]]
  /\ pc' = "constraintTable"
  /\ UNCHANGED <<mesh, threads, nodeTables, targetTable, baseTable, numSystemDofs>>

\* create_constraint_freedom_table: as many entries as the node has active
\* degrees of freedom are written; the base row of a constraint on one node
\* is all zero.
NodeRow(old, n) ==
  [k \in DOMAIN old |-> IF k < dofs[n] THEN map[n] + k ELSE old[k]]

CreateConstraintTable ==
  /\ pc = "constraintTable"
  /\ targetTable' =
       [c \in Constraints |-> NodeRow(targetTable[c], cons[c].target)]
  /\ baseTable' =
       [c \in Constraints |->
          IF cons[c].type \in TwoNodeTypes
          THEN NodeRow(baseTable[c], cons[c].base)
          ELSE [k \in DOMAIN baseTable[c] |-> 0]]
  /\ pc' = "size"
  /\ UNCHANGED <<mesh, threads, nodeTables, elemTable, numSystemDofs>>

SumOf(f, S) == MapThenSumSet(LAMBDA x : f[x], S)

\* ComputeNumSystemDofs, from the constructor of Solver.
ComputeNumSystemDofs ==
  /\ pc = "size"
  /\ numSystemDofs' = SumOf(dofs, Nodes)
  /\ pc' = "numbered"
  /\ UNCHANGED <<mesh, threads, nodeTables, elemTable, targetTable, baseTable>>

Numbering ==
  \/ ClearTable
  \/ \E e \in Elements : MergeElement(e)
  \/ \E c \in Constraints : MergeConstraint(c)
  \/ NextKernel
  \/ ComputeActiveDofs
  \/ ScanNode
  \/ CreateElementTable
  \/ CreateConstraintTable
  \/ ComputeNumSystemDofs

Spec == Init /\ [][Numbering]_freedomVars

----------------------------------------------------------------------------
(* Properties.                                                             *)

\* The steps after the merges.
Counted == {"scan", "constraintTable", "size", "numbered"}

\* What the elements and constraints of the mesh ask of node n.
Needed(n) ==
  UNION ({ElementSignature(elems[e].kind) :
            e \in {x \in Elements : \E k \in DOMAIN elems[x].nodes :
                                      elems[x].nodes[k] = n}}
         \cup {TargetSignature(cons[c].type) :
                 c \in {x \in Constraints : cons[x].target = n}}
         \cup {BaseSignature(cons[c].type) :
                 c \in {x \in Constraints : cons[x].base = n}})

(* However the threads were interleaved, the allocation table ends as the  *)
(* union of what the elements and constraints at each node need, whatever  *)
(* the memory held before, and active_dofs counts it.                      *)
AllocationIsUnion ==
  pc \in Counted =>
    \A n \in Nodes : /\ alloc[n] = Needed(n)
                     /\ dofs[n] = CountActiveDofs(Needed(n))

(* The ranges of the nodes scanned so far lie one after the other from     *)
(* zero, without a gap or an overlap; at the end they fill the system.     *)
RangesPartition ==
  pc \in Counted =>
    /\ map[0] = 0
    /\ \A n \in 1 .. scanned : map[n] = map[n - 1] + dofs[n - 1]
    /\ \A m, n \in 0 .. scanned : m < n => map[m] + dofs[m] <= map[n]
    /\ pc = "numbered" =>
         map[NumNodes - 1] + dofs[NumNodes - 1] = numSystemDofs

RangeOf(n) == map[n] .. map[n] + dofs[n] - 1

(* Every entry of a freedom table that assembly reads was written and is a *)
(* number of the node it stands for: a spring on a node with translations  *)
(* only does not reach into the next node, and a constraint that couples   *)
(* fewer components than its node has reads entries that exist.            *)
EntriesBelongToTheirNode ==
  pc = "numbered" =>
    /\ \A e \in Elements : \A k \in DOMAIN elems[e].nodes :
         \A component \in DOMAIN elemTable[e][k] :
           elemTable[e][k][component] \in RangeOf(elems[e].nodes[k])
    /\ \A c \in Constraints :
         /\ \A k \in 0 .. CountActiveDofs(TargetSignature(cons[c].type)) - 1 :
              targetTable[c][k] \in RangeOf(cons[c].target)
         /\ \A k \in 0 .. CountActiveDofs(BaseSignature(cons[c].type)) - 1 :
              baseTable[c][k] \in RangeOf(cons[c].base)

(* The numbering of CreateSolver is exact: whatever the order in which the *)
(* threads merge signatures and whatever the memory held, every component  *)
(* a node needs gets one number of its own, the numbers fill the system,   *)
(* and the freedom tables only name them.                                  *)
NumberingIsExact == AllocationIsUnion /\ RangesPartition /\ EntriesBelongToTheirNode
============================================================================
