-------------------------- MODULE SparsityPattern --------------------------
(***************************************************************************)
(* The structure of the global sparse matrix: CreateFullMatrix and the     *)
(* kernels it runs (src/src/solver), called from the constructor of Solver *)
(* once module FreedomTables has numbered the degrees of freedom, and the  *)
(* way the assembly kernels later find their place in it.                  *)
(*                                                                         *)
(* One kernel counts the entries of every row and another fills in their   *)
(* columns, from the same connectivity but by different code; the space    *)
(* between two row pointers is uninitialized until it is filled.  Threads  *)
(* of the filling kernels take their turns in any order.  The assembly     *)
(* kernels search a row for the first column of a block and write the rest *)
(* of the block at the offsets that follow.                                *)
(***************************************************************************)
EXTENDS FreedomTables, SequencesExt

VARIABLES
  rowEntries,  \* number of entries of every row
  rowPtrs,     \* where every row starts
  colInds,     \* column of every entry
  filled       \* threads of the filling kernel that have run

patternVars == <<rowEntries, rowPtrs, colInds, filled>>
vars == <<freedomVars, patternVars>>

----------------------------------------------------------------------------
(* Rows of the constraints: consecutive ranges in the order of the         *)
(* constraints (constraints.row_range), after the rows of the system.      *)

NumRowsForConstraint(type) ==
  CASE type \in ThreeDofTypes  -> Block
    [] type = "RevoluteJoint"  -> 2 * Block - 1
    [] OTHER                   -> 2 * Block

ConstraintRows == [c \in Constraints |-> NumRowsForConstraint(cons[c].type)]
StartRow(c) == SumOf(ConstraintRows, 1 .. c - 1)
NumDofs == numSystemDofs + StartRow(NumConstraints + 1)
Rows == 0 .. NumDofs - 1

RowsOf(c) ==
  [k \in 1 .. NumRowsForConstraint(cons[c].type) |->
     numSystemDofs + StartRow(c) + k - 1]

BaseActiveDofs(c)   == CountActiveDofs(BaseSignature(cons[c].type))
TargetActiveDofs(c) == CountActiveDofs(TargetSignature(cons[c].type))

----------------------------------------------------------------------------
(* Who touches a node, as the kernels decide it.                           *)

ElementContainsNode(e, n) == \E k \in DOMAIN elems[e].nodes : elems[e].nodes[k] = n

\* Constraints are matched by the first number in their tables, not by node.
BaseContainsNode(c, first) == first = baseTable[c][0] /\ BaseActiveDofs(c) # 0
TargetContainsNode(c, first) == first = targetTable[c][0] /\ TargetActiveDofs(c) # 0
ConstraintContainsNode_BaseOnly(c, first) == BaseContainsNode(c, first)
ConstraintContainsNode(c, first) ==
  BaseContainsNode(c, first) \/ TargetContainsNode(c, first)

----------------------------------------------------------------------------
(* Counting.                                                               *)

EntriesInElement(e) ==
  SumOf([k \in DOMAIN elems[e].nodes |-> dofs[elems[e].nodes[k]]], DOMAIN elems[e].nodes)

\* ComputeSystemRowEntries: all rows of a node have the same length.
EntriesInRow_CountsNodeTwice(n) ==
  dofs[n]
  + SumOf([e \in Elements |-> EntriesInElement(e)],
          {e \in Elements : ElementContainsNode(e, n)})
  + SumOf(ConstraintRows, {c \in Constraints : ConstraintContainsNode(c, map[n])})
EntriesInRow(n) ==
  dofs[n]
  + SumOf([e \in Elements |-> EntriesInElement(e) - dofs[n]],
          {e \in Elements : ElementContainsNode(e, n)})
  + SumOf(ConstraintRows, {c \in Constraints : ConstraintContainsNode(c, map[n])})

\* The node or constraint whose thread owns row r.
NodeOfRow(r) == CHOOSE n \in Nodes : r \in RangeOf(n)
ConstraintOfRow(r) == CHOOSE c \in Constraints : \E k \in DOMAIN RowsOf(c) : RowsOf(c)[k] = r

ComputeRowEntries ==
  /\ pc = "numbered"
  /\ rowEntries' =
       [r \in Rows |->
          IF r < numSystemDofs
          THEN EntriesInRow(NodeOfRow(r))
          ELSE BaseActiveDofs(ConstraintOfRow(r)) + TargetActiveDofs(ConstraintOfRow(r))]
  /\ pc' = "rowPtrs"
  /\ UNCHANGED <<mesh, threads, nodeTables, userTables, rowPtrs, colInds, filled>>

\* ScanRowEntries; then the column array is allocated, uninitialized.
ScanRowEntries ==
  /\ pc = "rowPtrs"
  /\ rowPtrs' = [r \in 0 .. NumDofs |-> SumOf(rowEntries, 0 .. r - 1)]
  /\ colInds' = [s \in 0 .. rowPtrs'[NumDofs] - 1 |-> Unset]
  /\ filled' = {}
  /\ pc' = "systemColumns"
  /\ UNCHANGED <<mesh, threads, nodeTables, userTables, rowEntries>>

----------------------------------------------------------------------------
(* Filling.                                                                *)

NodeColumns(n) == [k \in 1 .. dofs[n] |-> map[n] + k - 1]

\* The other nodes of element e, in the element's order.
ColumnsInElement(e, n) ==
  FlattenSeq([k \in DOMAIN elems[e].nodes |->
                IF elems[e].nodes[k] = n THEN <<>> ELSE NodeColumns(elems[e].nodes[k])])

\* The rows of a constraint are the columns of its transpose.
TransposeColumns(c) == RowsOf(c)

ColumnsOfNodeRow(n) ==
  NodeColumns(n)
  \o FlattenSeq([e \in Elements |->
                   IF ElementContainsNode(e, n) THEN ColumnsInElement(e, n) ELSE <<>>])
  \o FlattenSeq([c \in Constraints |->
                   IF ConstraintContainsNode(c, map[n]) THEN TransposeColumns(c) ELSE <<>>])

\* The target's columns, then the base's.
ColumnsOfConstraintRow(c) ==
  [k \in 1 .. TargetActiveDofs(c) |-> targetTable[c][k - 1]]
  \o [k \in 1 .. BaseActiveDofs(c) |-> baseTable[c][k - 1]]

\* Writing columns from the start of every one of the rows, without regard
\* to where the rows end.
Written(rows, columns) ==
  [s \in DOMAIN colInds |->
     LET hit == {r \in rows : s - rowPtrs[r] \in 0 .. Len(columns) - 1}
     IN IF hit = {} THEN colInds[s] ELSE columns[s - rowPtrs[Max(hit)] + 1]]

FillNodeRows(n) ==
  /\ pc = "systemColumns"
  /\ n \notin filled
  /\ colInds' = Written(RangeOf(n), ColumnsOfNodeRow(n))
  /\ filled' = filled \cup {n}
  /\ UNCHANGED <<pc, mesh, threads, nodeTables, userTables, rowEntries, rowPtrs>>

SystemColumnsDone ==
  /\ pc = "systemColumns"
  /\ filled = Nodes
  /\ filled' = {}
  /\ pc' = "constraintColumns"
  /\ UNCHANGED <<mesh, threads, nodeTables, userTables, rowEntries, rowPtrs, colInds>>

FillConstraintRows(c) ==
  /\ pc = "constraintColumns"
  /\ c \notin filled
  /\ colInds' = Written(ToSet(RowsOf(c)), ColumnsOfConstraintRow(c))
  /\ filled' = filled \cup {c}
  /\ UNCHANGED <<pc, mesh, threads, nodeTables, userTables, rowEntries, rowPtrs>>

\* What a row holds, and the row a slot lies in.
RowColumns(r) == [k \in 1 .. rowPtrs[r + 1] - rowPtrs[r] |-> colInds[rowPtrs[r] + k - 1]]
RowOfSlot(s) == CHOOSE r \in Rows : s \in rowPtrs[r] .. rowPtrs[r + 1] - 1

\* KokkosSparse::sort_crs_graph: each row on its own; equal columns stay.
SortedRow(s) ==
  [p \in DOMAIN s |->
     CHOOSE v \in ToSet(s) : /\ Cardinality({k \in DOMAIN s : s[k] < v}) < p
                             /\ Cardinality({k \in DOMAIN s : s[k] <= v}) >= p]
SortedRows == [r \in Rows |-> SortedRow(RowColumns(r))]

SortRows ==
  /\ pc = "constraintColumns"
  /\ filled = Constraints
  /\ \E sorted \in {SortedRows} :
       colInds' = [s \in DOMAIN colInds |->
                     sorted[RowOfSlot(s)][s - rowPtrs[RowOfSlot(s)] + 1]]
  /\ pc' = "created"
  /\ UNCHANGED <<mesh, threads, nodeTables, userTables, rowEntries, rowPtrs, filled>>

Creation ==
  \/ ComputeRowEntries
  \/ ScanRowEntries
  \/ \E n \in Nodes : FillNodeRows(n)
  \/ SystemColumnsDone
  \/ \E c \in Constraints : FillConstraintRows(c)
  \/ SortRows

Next == (Numbering /\ UNCHANGED patternVars) \/ Creation

PatternInit ==
  /\ Init
  /\ rowEntries = <<>>
  /\ rowPtrs = <<>>
  /\ colInds = <<>>
  /\ filled = {}

CreateSolver == PatternInit /\ [][Next]_vars

----------------------------------------------------------------------------
(* Assembly.                                                               *)

\* KokkosSparse::findRelOffset on a sorted row: an offset with that column,
\* any of them if it occurs more than once; past the row if there is none.
FindRelOffset(r, column) ==
  LET found == {o \in 0 .. rowPtrs[r + 1] - rowPtrs[r] - 1 :
                  colInds[rowPtrs[r] + o] = column}
  IN IF found = {} THEN {rowPtrs[r + 1] - rowPtrs[r]} ELSE found

\* A block of the given width that starts at column first is written where
\* it belongs in row r.
LandsIn(r, first, width) ==
  \A o \in FindRelOffset(r, first) : \A k \in 0 .. width - 1 :
    LET slot == rowPtrs[r] + o + k
    IN slot < rowPtrs[r + 1] /\ colInds[slot] = first + k

\* Contribute{Beams,Masses,Springs}ToSparseMatrix.
ElementTermsLand(e) ==
  \A k1, k2 \in DOMAIN elems[e].nodes :
    \A component \in DOMAIN elemTable[e][k1] :
      LandsIn(elemTable[e][k1][component], elemTable[e][k2][0], Width(elems[e].kind))

\* CopyConstraintsToSparseMatrix: the gradients of base and target.
GradientTermsLand(c) ==
  \A r \in ToSet(RowsOf(c)) :
    /\ BaseActiveDofs(c) # 0 => LandsIn(r, baseTable[c][0], BaseActiveDofs(c))
    /\ LandsIn(r, targetTable[c][0], TargetActiveDofs(c))

\* CopyConstraintsTransposeToSparseMatrix: their transposes, in the rows
\* from the first number of each node on.
TransposeTermsLand(c) ==
  LET columns == NumRowsForConstraint(cons[c].type)
  IN columns > 0 =>
       /\ \A k \in 0 .. BaseActiveDofs(c) - 1 :
            LandsIn(baseTable[c][0] + k, RowsOf(c)[1], columns)
       /\ \A k \in 0 .. TargetActiveDofs(c) - 1 :
            LandsIn(targetTable[c][0] + k, RowsOf(c)[1], columns)

----------------------------------------------------------------------------
(* Properties.                                                             *)

(* The kernel that fills agrees with the kernel that counted: whatever the *)
(* order of the threads, each row ends holding its own columns, all of     *)
(* them, and no thread has written into the row of another or left         *)
(* uninitialized entries behind.                                           *)
RowsFilledExactly ==
  pc = "constraintColumns" /\ filled = Constraints =>
    /\ \A n \in Nodes : \A r \in RangeOf(n) : RowColumns(r) = ColumnsOfNodeRow(n)
    /\ \A c \in Constraints : \A r \in ToSet(RowsOf(c)) :
         RowColumns(r) = ColumnsOfConstraintRow(c)

\* Two elements that have two nodes in common.
ElementsShareTwoNodes ==
  \E e1, e2 \in Elements :
    /\ e1 # e2
    /\ Cardinality(ToSet(elems[e1].nodes) \cap ToSet(elems[e2].nodes)) > 1

(* In a mesh where no two elements share two nodes, every term that the    *)
(* elements and constraints will ever contribute has its place in the      *)
(* matrix, and the search for the first column of its block finds it.      *)
TermsLandInTheirColumn ==
  pc = "created" /\ ~ElementsShareTwoNodes =>
    /\ \A e \in Elements : ElementTermsLand(e)
    /\ \A c \in Constraints : GradientTermsLand(c) /\ TransposeTermsLand(c)

============================================================================
