----------------------- MODULE SparsityPattern_proofs -----------------------
(***************************************************************************)
(* Proofs about FreedomTables and SparsityPattern, for any mesh (any       *)
(* numbers of nodes, elements and constraints) and any order of the        *)
(* threads.  First the tables: what the merges of the threads leave is     *)
(* what the elements ask for.  Then the pattern: the kernel that counts    *)
(* the entries of a row and the one that fills it in agree; and what       *)
(* assembly looks for in a sorted row it finds there, in one piece.        *)
(***************************************************************************)
EXTENDS SparsityPattern, FiniteSetTheorems, WellFoundedInduction, SequenceTheorems, TLAPS

-----------------------------------------------------------------------------
(* Induction over a set of naturals, and over the size of finite sets, in a  *)
(* form that takes no operator.                                              *)

LEMMA LeastOf ==
    ASSUME NEW T \in SUBSET Nat, T # {}
    PROVE  \E n \in T : \A m \in T : n <= m
<1> DEFINE R == {ss \in Nat \X Nat : ss[1] < ss[2]}
<1>1. IsWellFoundedOn(R, Nat) BY NatLessThanWellFounded, Zenon DEF OpToRel
<1>2. \A x, y \in Nat : <<y, x>> \in R <=> y < x OBVIOUS
<1> HIDE DEF R
<1>3. PICK n \in T : \A m \in T : ~ (<<m, n>> \in R) BY <1>1, WFMin
<1>4. ASSUME NEW m \in T PROVE n <= m
  <2>1. m \in Nat /\ n \in Nat OBVIOUS
  <2>2. ~ (m < n) BY <1>2, <1>3, <2>1
  <2>3. QED BY <2>1, <2>2
<1>5. QED BY <1>4

LEMMA SmallestOf ==
    ASSUME NEW S, IsFiniteSet(S), NEW B \in SUBSET (SUBSET S), B # {}
    PROVE  \E s \in B : \A t \in B : Cardinality(s) <= Cardinality(t)
<1> DEFINE T == {Cardinality(t) : t \in B}
<1>1. \A t \in B : Cardinality(t) \in Nat BY FS_Subset, FS_CardinalityType
<1>2. T \in SUBSET Nat /\ T # {} BY <1>1
<1>3. PICK n \in T : \A m \in T : n <= m
  <2> HIDE DEF T
  <2>1. QED BY <1>2, LeastOf
<1>4. QED BY <1>3

-----------------------------------------------------------------------------
(* Sums.  MapThenSumSet adds the terms in an order that CHOOSE fixes, by a   *)
(* recursive function on the subsets of the set; that there is such a        *)
(* function, and what it adds up to, is shown by induction on their size.    *)

Picked(s) == CHOOSE x \in s : TRUE

Parts(S) == SUBSET S

Adds(g, f, D) ==
    g = [s \in D |-> IF s = {} THEN 0 ELSE f[Picked(s)] + g[s \ {Picked(s)}]]

UpTo(S, n) == {s \in SUBSET S : Cardinality(s) <= n}

LEMMA SumIsAdded ==
    ASSUME NEW f, NEW S
    PROVE  SumOf(f, S) = (CHOOSE g : Adds(g, f, Parts(S)))[S]
BY Zenon DEF SumOf, MapThenSumSet, MapThenFoldSet, Adds, Parts, Picked

LEMMA Taken ==
    ASSUME NEW S, IsFiniteSet(S), NEW s \in SUBSET S
    PROVE  /\ IsFiniteSet(s) /\ Cardinality(s) \in Nat
           /\ s # {} => Picked(s) \in s
           /\ \A x \in s : s \ {x} \in SUBSET S /\ Cardinality(s \ {x}) = Cardinality(s) - 1
           /\ Cardinality(s) = 0 <=> s = {}
<1>1. IsFiniteSet(s) BY FS_Subset
<1>2. Cardinality(s) \in Nat /\ (Cardinality(s) = 0 <=> s = {})
  BY <1>1, FS_CardinalityType, FS_EmptySet
<1>3. s # {} => Picked(s) \in s BY DEF Picked
<1>4. \A x \in s : s \ {x} \in SUBSET S /\ Cardinality(s \ {x}) = Cardinality(s) - 1
  BY <1>1, FS_RemoveElement
<1>5. QED BY <1>1, <1>2, <1>3, <1>4

\* The recursion is well defined.
LEMMA AddsExists ==
    ASSUME NEW f, NEW S, IsFiniteSet(S)
    PROVE  \E g : Adds(g, f, Parts(S))
<1> DEFINE Bad == {n \in Nat : ~ \E g : Adds(g, f, UpTo(S, n))}
<1>1. Bad = {}
  <2> SUFFICES ASSUME Bad # {} PROVE FALSE OBVIOUS
  <2>1. PICK n \in Bad : \A m \in Bad : n <= m
    <3>1. Bad \in SUBSET Nat OBVIOUS
    <3> HIDE DEF Bad
    <3>2. QED BY <3>1, LeastOf
  <2>2. n \in Nat /\ ~ \E g : Adds(g, f, UpTo(S, n)) BY <2>1
  <2>3. CASE n = 0
    <3>1. \A s \in UpTo(S, 0) : s = {} BY Taken DEF UpTo
    <3>2. Adds([s \in UpTo(S, 0) |-> 0], f, UpTo(S, 0)) BY <3>1 DEF Adds
    <3>3. QED BY <2>2, <2>3, <3>2
  <2>4. CASE n # 0
    <3>1. n - 1 \in Nat /\ ~ (n <= n - 1) BY <2>2, <2>4
    <3>2. PICK g : Adds(g, f, UpTo(S, n - 1)) BY <2>1, <3>1
    <3> DEFINE Rest(s) == s \ {Picked(s)}
               h == [s \in UpTo(S, n) |-> IF s = {} THEN 0 ELSE f[Picked(s)] + g[Rest(s)]]
    <3>3. \A s \in UpTo(S, n) : s # {} => Rest(s) \in UpTo(S, n - 1) /\ Rest(s) \in UpTo(S, n)
      <4> SUFFICES ASSUME NEW s \in UpTo(S, n), s # {}
                   PROVE  Rest(s) \in UpTo(S, n - 1) /\ Rest(s) \in UpTo(S, n)
        OBVIOUS
      <4>1. s \in SUBSET S /\ Cardinality(s) <= n BY DEF UpTo
      <4>2. /\ Rest(s) \in SUBSET S /\ Cardinality(Rest(s)) = Cardinality(s) - 1
            /\ Cardinality(s) \in Nat
        BY <4>1, Taken
      <4> HIDE DEF Rest
      <4>3. QED BY <2>2, <4>1, <4>2 DEF UpTo
    <3>4. \A s \in UpTo(S, n - 1) : s \in UpTo(S, n) /\ h[s] = g[s]
      <4> SUFFICES ASSUME NEW s \in UpTo(S, n - 1) PROVE s \in UpTo(S, n) /\ h[s] = g[s]
        OBVIOUS
      <4>1. s \in UpTo(S, n)
        <5>1. s \in SUBSET S /\ Cardinality(s) <= n - 1 /\ Cardinality(s) \in Nat
          BY Taken DEF UpTo
        <5>2. QED BY <2>2, <5>1 DEF UpTo
      <4>2. g[s] = IF s = {} THEN 0 ELSE f[Picked(s)] + g[Rest(s)]
        BY <3>2, Zenon DEF Adds
      <4>3. QED BY <4>1, <4>2
    <3>5. Adds(h, f, UpTo(S, n))
      <4>1. \A s \in UpTo(S, n) : s # {} => h[Rest(s)] = g[Rest(s)] BY <3>3, <3>4
      <4>2. h = [s \in UpTo(S, n) |-> IF s = {} THEN 0 ELSE f[Picked(s)] + h[Rest(s)]]
        BY <4>1
      <4>3. QED BY <4>2, Zenon DEF Adds
    <3>6. QED BY <2>2, <3>5
  <2>5. QED BY <2>3, <2>4
<1>2. Cardinality(S) \in Nat BY FS_CardinalityType
<1>3. PICK g : Adds(g, f, UpTo(S, Cardinality(S))) BY <1>1, <1>2
<1>4. UpTo(S, Cardinality(S)) = Parts(S) BY FS_Subset DEF UpTo, Parts
<1>5. QED BY <1>3, <1>4

\* Two of them agree on the smaller of their sets.
LEMMA AddsAgree ==
    ASSUME NEW f, NEW S, IsFiniteSet(S), NEW T \in SUBSET S, NEW g, NEW h,
           Adds(g, f, Parts(S)), Adds(h, f, Parts(T))
    PROVE  h[T] = g[T]
<1> DEFINE Bad == {s \in SUBSET T : h[s] # g[s]}
<1> SUFFICES ASSUME Bad # {} PROVE FALSE OBVIOUS
<1>1. IsFiniteSet(T) BY FS_Subset
<1>2. PICK s \in Bad : \A t \in Bad : Cardinality(s) <= Cardinality(t)
  <2>1. Bad \in SUBSET (SUBSET T) OBVIOUS
  <2> HIDE DEF Bad
  <2>2. QED BY <1>1, <2>1, SmallestOf
<1>3. s \in SUBSET T /\ s \in SUBSET S /\ h[s] # g[s] BY <1>2
<1> DEFINE rest == s \ {Picked(s)}
<1>4. /\ g[s] = IF s = {} THEN 0 ELSE f[Picked(s)] + g[rest]
      /\ h[s] = IF s = {} THEN 0 ELSE f[Picked(s)] + h[rest]
  BY <1>3, Zenon DEF Adds, Parts
<1>5. s # {} => /\ rest \in SUBSET T
                /\ Cardinality(rest) = Cardinality(s) - 1 /\ Cardinality(s) \in Nat
  BY <1>1, <1>3, Taken
<1> HIDE DEF rest
<1>6. s # {} => rest \notin Bad BY <1>2, <1>5
<1>7. s # {} => h[rest] = g[rest] BY <1>5, <1>6
<1>8. QED BY <1>3, <1>4, <1>7

\* So the sum over a part of S is what the function of S says of it.
LEMMA SumOfPart ==
    ASSUME NEW f, NEW S, IsFiniteSet(S), NEW g, Adds(g, f, Parts(S)), NEW T \in SUBSET S
    PROVE  SumOf(f, T) = g[T]
<1>1. IsFiniteSet(T) BY FS_Subset
<1>2. PICK h : Adds(h, f, Parts(T)) /\ SumOf(f, T) = h[T]
  <2> DEFINE chosen == CHOOSE x : Adds(x, f, Parts(T))
  <2>1. Adds(chosen, f, Parts(T)) BY <1>1, AddsExists
  <2>2. SumOf(f, T) = chosen[T] BY SumIsAdded
  <2> HIDE DEF chosen
  <2>3. QED BY <2>1, <2>2
<1>3. h[T] = g[T] BY <1>2, AddsAgree
<1>4. QED BY <1>2, <1>3

LEMMA SumOfNothing == ASSUME NEW f PROVE SumOf(f, {}) = 0
<1>1. ASSUME NEW S, S = {} PROVE SumOf(f, S) = 0
  <2>1. IsFiniteSet(S) /\ S \in SUBSET S BY <1>1, FS_EmptySet
  <2>2. PICK g : Adds(g, f, Parts(S)) BY <2>1, AddsExists
  <2>3. SumOf(f, S) = g[S] BY <2>1, <2>2, SumOfPart
  <2>4. g[S] = 0 BY <1>1, <2>1, <2>2, Zenon DEF Adds, Parts
  <2>5. QED BY <2>3, <2>4
<1>2. QED BY <1>1, Zenon

LEMMA SumOfPicked ==
    ASSUME NEW f, NEW S, IsFiniteSet(S), S # {}
    PROVE  SumOf(f, S) = f[Picked(S)] + SumOf(f, S \ {Picked(S)})
<1>1. PICK g : Adds(g, f, Parts(S)) BY AddsExists
<1> DEFINE rest == S \ {Picked(S)}
<1>2. S \in SUBSET S /\ rest \in SUBSET S OBVIOUS
<1>3. SumOf(f, S) = g[S] /\ SumOf(f, rest) = g[rest] BY <1>1, <1>2, SumOfPart
<1>4. g[S] = f[Picked(S)] + g[rest] BY <1>1, <1>2, Zenon DEF Adds, Parts
<1>5. QED BY <1>3, <1>4

\* The sum of integers is an integer, and of naturals a natural.
LEMMA SumType ==
    ASSUME NEW f, NEW S, IsFiniteSet(S), \A x \in S : f[x] \in Int
    PROVE  SumOf(f, S) \in Int /\ ((\A x \in S : f[x] >= 0) => SumOf(f, S) >= 0)
<1> DEFINE Fine(s) == SumOf(f, s) \in Int /\ ((\A x \in S : f[x] >= 0) => SumOf(f, s) >= 0)
           Bad == {s \in SUBSET S : ~ Fine(s)}
<1> SUFFICES ASSUME Bad # {} PROVE FALSE OBVIOUS
<1>1. PICK s \in Bad : \A t \in Bad : Cardinality(s) <= Cardinality(t)
  <2>1. Bad \in SUBSET (SUBSET S) OBVIOUS
  <2> HIDE DEF Bad
  <2>2. QED BY <2>1, SmallestOf
<1>2. s \in SUBSET S /\ ~ Fine(s) BY <1>1
<1>3. s # {} BY <1>2, SumOfNothing
<1> DEFINE x == Picked(s)
           rest == s \ {Picked(s)}
<1>4. IsFiniteSet(s) BY <1>2, FS_Subset
<1>5. SumOf(f, s) = f[x] + SumOf(f, rest) BY <1>3, <1>4, SumOfPicked
<1>6. /\ rest \in SUBSET S /\ Cardinality(rest) = Cardinality(s) - 1
      /\ Cardinality(s) \in Nat /\ x \in S
  BY <1>2, <1>3, Taken
<1> HIDE DEF x, rest
<1>7. rest \notin Bad BY <1>1, <1>6
<1>8. Fine(rest) BY <1>6, <1>7
<1>9. f[x] \in Int BY <1>6
<1>10. QED BY <1>2, <1>5, <1>6, <1>8, <1>9

\* Whichever element is taken out of the sum, the rest remains.
LEMMA SumWithout ==
    ASSUME NEW f, NEW S, IsFiniteSet(S), \A x \in S : f[x] \in Int, NEW y \in S
    PROVE  SumOf(f, S) = f[y] + SumOf(f, S \ {y})
<1> DEFINE Bad == {s \in SUBSET S : \E z \in s : SumOf(f, s) # f[z] + SumOf(f, s \ {z})}
<1> SUFFICES ASSUME Bad # {} PROVE FALSE OBVIOUS
<1>1. PICK s \in Bad : \A t \in Bad : Cardinality(s) <= Cardinality(t)
  <2>1. Bad \in SUBSET (SUBSET S) OBVIOUS
  <2> HIDE DEF Bad
  <2>2. QED BY <2>1, SmallestOf
<1>2. s \in SUBSET S BY <1>1
<1>3. PICK z \in s : SumOf(f, s) # f[z] + SumOf(f, s \ {z}) BY <1>1
<1> DEFINE p == Picked(s)
           a == s \ {p}
           b == s \ {z}
           c == s \ {p, z}
<1>4. IsFiniteSet(s) /\ p \in s /\ p \in S /\ z \in S BY <1>2, <1>3, Taken
<1>5. SumOf(f, s) = f[p] + SumOf(f, a) BY <1>4, SumOfPicked
<1>6. p # z BY <1>3, <1>5
<1>7. /\ a \in SUBSET S /\ b \in SUBSET S /\ c \in SUBSET S
      /\ Cardinality(a) = Cardinality(s) - 1 /\ Cardinality(b) = Cardinality(s) - 1
      /\ Cardinality(s) \in Nat
  BY <1>2, <1>4, Taken
<1>8. a \notin Bad /\ b \notin Bad
  <2> HIDE DEF Bad, a, b
  <2>1. QED BY <1>1, <1>7
<1>9. z \in a /\ p \in b /\ a \ {z} = c /\ b \ {p} = c BY <1>4, <1>6
<1>10. SumOf(f, a) = f[z] + SumOf(f, c)
  <2>1. SumOf(f, a) = f[z] + SumOf(f, a \ {z}) BY <1>7, <1>8, <1>9
  <2>2. QED BY <1>9, <2>1
<1>11. SumOf(f, b) = f[p] + SumOf(f, c)
  <2>1. SumOf(f, b) = f[p] + SumOf(f, b \ {p}) BY <1>7, <1>8, <1>9
  <2>2. QED BY <1>9, <2>1
<1>12. SumOf(f, c) \in Int /\ f[p] \in Int /\ f[z] \in Int
  <2>1. IsFiniteSet(c) BY <1>7, FS_Subset
  <2>2. \A x \in c : f[x] \in Int BY <1>7
  <2>3. QED BY <1>4, <2>1, <2>2, SumType
<1> HIDE DEF a, b, c, p, Bad
<1>13. SumOf(f, s) # f[z] + SumOf(f, b) BY <1>3 DEF b
<1>14. \A u, v, w \in Int : u + (v + w) = v + (u + w) OBVIOUS
<1>15. SumOf(f, s) = f[p] + (f[z] + SumOf(f, c)) BY <1>5, <1>10
<1>16. f[z] + SumOf(f, b) = f[z] + (f[p] + SumOf(f, c)) BY <1>11
<1>17. f[p] + (f[z] + SumOf(f, c)) = f[z] + (f[p] + SumOf(f, c)) BY <1>12, <1>14, Zenon
<1>18. QED BY <1>13, <1>15, <1>16, <1>17, Zenon

\* The sum over the first numbers, one at a time.
LEMMA SumOfNext ==
    ASSUME NEW f, NEW n \in Nat, \A i \in 0 .. n : f[i] \in Int
    PROVE  SumOf(f, 0 .. n) = SumOf(f, 0 .. n - 1) + f[n]
<1>1. IsFiniteSet(0 .. n) BY FS_Interval
<1>2. n \in 0 .. n /\ (0 .. n) \ {n} = 0 .. n - 1 OBVIOUS
<1>3. SumOf(f, 0 .. n) = f[n] + SumOf(f, (0 .. n) \ {n}) BY <1>1, <1>2, SumWithout
<1> DEFINE first == 0 .. n - 1
<1>4. SumOf(f, first) \in Int /\ f[n] \in Int
  <2>1. IsFiniteSet(first) /\ \A i \in first : f[i] \in Int BY FS_Interval
  <2> HIDE DEF first
  <2>2. QED BY <2>1, SumType
<1>5. SumOf(f, 0 .. n) = f[n] + SumOf(f, first) BY <1>2, <1>3
<1> HIDE DEF first
<1>6. SumOf(f, 0 .. n) = SumOf(f, first) + f[n] BY <1>4, <1>5
<1>7. QED BY <1>6 DEF first

-----------------------------------------------------------------------------
(* The invariant: what the threads have merged so far is what the table      *)
(* holds, and what later kernels leave is what the earlier ones gave them.   *)

ThreadsMerge == {"beams", "masses", "springs", "constraints"}
Unmerged == {"start"} \cup ThreadsMerge
Uncounted == Unmerged \cup {"count"}
Unscanned == Uncounted \cup {"scan"}
Untabled == Unscanned \cup {"constraintTable"}

\* Where the kernel of a kind of element has not ended.
Ahead(kind) ==
    CASE kind = "beams"   -> {"start", "beams"}
      [] kind = "masses"  -> {"start", "beams", "masses"}
      [] kind = "springs" -> {"start", "beams", "masses", "springs"}

Table == 0 .. 2 * Block - 1

TypeOK ==
    /\ elems \in [Elements -> ElementShapes]
    /\ cons \in [Constraints -> ConstraintShapes]
    /\ merged \in [Elements -> Nat]
    /\ consMerged \in [Constraints -> 0 .. 2]
    /\ alloc \in [Nodes -> Signatures]
    /\ dofs \in [Nodes -> Nat]
    /\ map \in [Nodes -> Nat]
    /\ scanned \in Nodes
    /\ targetTable \in [Constraints -> [Table -> Int]]
    /\ baseTable \in [Constraints -> [Table -> Int]]

ThreadsInv ==
    /\ pc = "start" => /\ \A e \in Elements : merged[e] = 0
                       /\ \A c \in Constraints : consMerged[c] = 0
    /\ \A e \in Elements :
          /\ merged[e] <= Len(elems[e].nodes)
          /\ pc \notin Ahead(elems[e].kind) => merged[e] = Len(elems[e].nodes)
    /\ \A c \in Constraints :
          /\ consMerged[c] = 2 => cons[c].type \in TwoNodeTypes
          /\ pc \notin Unmerged =>
                consMerged[c] = IF cons[c].type \in TwoNodeTypes THEN 2 ELSE 1

\* Whether some thread has asked for the components b at node n.
AskedByElement(e, b, n) ==
    /\ b \in ElementSignature(elems[e].kind)
    /\ \E k \in 1 .. merged[e] : elems[e].nodes[k] = n
AskedByConstraint(c, b, n) ==
    \/ consMerged[c] >= 1 /\ cons[c].target = n /\ b \in TargetSignature(cons[c].type)
    \/ consMerged[c] = 2 /\ cons[c].base = n /\ b \in BaseSignature(cons[c].type)
Asked(b, n) ==
    \/ \E e \in Elements : AskedByElement(e, b, n)
    \/ \E c \in Constraints : AskedByConstraint(c, b, n)

MergedInv ==
    pc # "start" =>
        \A n \in Nodes : \A b \in AllComponents : b \in alloc[n] <=> Asked(b, n)

ScanInv ==
    pc \notin Uncounted =>
        /\ \A n \in Nodes : dofs[n] = CountActiveDofs(alloc[n])
        /\ map[0] = 0
        /\ \A n \in 1 .. scanned : map[n] = map[n - 1] + dofs[n - 1]
        /\ \A m, n \in 0 .. scanned : m < n => map[m] + dofs[m] <= map[n]
        /\ \A n \in 0 .. scanned : map[n] = SumOf(dofs, 0 .. n - 1)
        /\ pc # "scan" => scanned = NumNodes - 1

TablesInv ==
    /\ pc \notin Unscanned =>
          \A e \in Elements : \A k \in DOMAIN elems[e].nodes :
             elemTable[e][k] = [component \in 0 .. Width(elems[e].kind) - 1 |->
                                  map[elems[e].nodes[k]] + component]
    /\ pc \notin Untabled =>
          \A c \in Constraints : \A k \in Table :
             /\ k < dofs[cons[c].target] => targetTable[c][k] = map[cons[c].target] + k
             /\ cons[c].type \in TwoNodeTypes /\ k < dofs[cons[c].base] =>
                   baseTable[c][k] = map[cons[c].base] + k

SizeInv == pc \notin Untabled \cup {"size"} => numSystemDofs = SumOf(dofs, Nodes)

NumberingInv == TypeOK /\ ThreadsInv /\ MergedInv /\ ScanInv /\ TablesInv /\ SizeInv

-----------------------------------------------------------------------------
(* Meshes and signatures. *)

LEMMA ShapeOfElement ==
    ASSUME FreedomAssumption, NEW shape \in ElementShapes
    PROVE  /\ shape.kind \in {"beams", "masses", "springs"}
           /\ shape.nodes \in Seq(Nodes) /\ Len(shape.nodes) \in Nat
           /\ DOMAIN shape.nodes = 1 .. Len(shape.nodes)
<1>1. ASSUME NEW k \in Nat, NEW s \in NodeLists(k)
      PROVE  s \in Seq(Nodes) /\ Len(s) \in Nat /\ DOMAIN s = 1 .. Len(s)
  BY SeqDef, LenProperties DEF NodeLists
<1>2. shape.kind \in {"beams", "masses", "springs"} BY DEF ElementShapes
<1>3. \E k \in Nat : shape.nodes \in NodeLists(k)
  <2>1. NumNodes \in Nat BY DEF FreedomAssumption
  <2>2. QED BY <2>1 DEF ElementShapes
<1>4. QED BY <1>1, <1>2, <1>3

LEMMA ShapeOfConstraint ==
    ASSUME TypesAssumption, NEW c \in ConstraintShapes
    PROVE  c.type \in ConstraintTypes /\ c.base \in Nodes /\ c.target \in Nodes
BY DEF ConstraintShapes, TypesAssumption

LEMMA Signed ==
    /\ \A kind : ElementSignature(kind) \in Signatures
    /\ \A type : TargetSignature(type) \in Signatures /\ BaseSignature(type) \in Signatures
    /\ \A type : type \notin TwoNodeTypes => BaseSignature(type) = {}
BY DEF ElementSignature, TargetSignature, BaseSignature, Signatures, AllComponents,
       JustPosition, NoComponents

LEMMA Counts ==
    ASSUME FreedomAssumption, NEW s \in Signatures
    PROVE  /\ CountActiveDofs(s) \in Nat /\ CountActiveDofs(s) <= 2 * Block
           /\ \A t \in Signatures : s \subseteq t => CountActiveDofs(s) <= CountActiveDofs(t)
BY DEF FreedomAssumption, CountActiveDofs, Signatures, AllComponents

LEMMA WidthIsCount ==
    ASSUME FreedomAssumption, NEW kind \in {"beams", "masses", "springs"}
    PROVE  Width(kind) = CountActiveDofs(ElementSignature(kind))
BY DEF FreedomAssumption, Width, CountActiveDofs, ElementSignature, AllComponents, JustPosition

\* A signature is what its components are.
LEMMA SameComponents ==
    ASSUME NEW s \in Signatures, NEW t \in Signatures,
           \A b \in AllComponents : b \in s <=> b \in t
    PROVE  s = t
BY DEF Signatures

LEMMA MergedComponents ==
    ASSUME NEW old \in Signatures, NEW sig \in Signatures
    PROVE  /\ Merge(old, sig) \in Signatures
           /\ \A b \in AllComponents : b \in Merge(old, sig) <=> b \in old \/ b \in sig
BY DEF Merge, Signatures

-----------------------------------------------------------------------------
(* The invariant is kept. *)

LEMMA InitNumbering ==
    ASSUME FreedomAssumption, TypesAssumption, Init PROVE NumberingInv
<1>1. NumNodes - 1 \in Nat /\ 0 \in Nodes /\ Block \in Nat \ {0} BY DEF FreedomAssumption, Nodes
<1>2. TypeOK
  <2>1. elems \in [Elements -> ElementShapes] /\ cons \in [Constraints -> ConstraintShapes]
    BY DEF Init
  <2>2. /\ merged \in [Elements -> Nat] /\ consMerged \in [Constraints -> 0 .. 2]
        /\ dofs \in [Nodes -> Nat] /\ map \in [Nodes -> Nat] /\ scanned \in Nodes
    BY <1>1 DEF Init
  <2>3. alloc \in [Nodes -> Signatures]
    BY DEF Init, Signatures, NoComponents, AllComponents
  <2>4. targetTable \in [Constraints -> [Table -> Int]] /\ baseTable \in [Constraints -> [Table -> Int]]
    BY DEF Init, Table, Unset
  <2>5. QED BY <2>1, <2>2, <2>3, <2>4 DEF TypeOK
<1>3. pc = "start" BY DEF Init
<1>4. ThreadsInv
  <2>1. \A e \in Elements : merged[e] = 0 /\ Len(elems[e].nodes) \in Nat
                            /\ elems[e].kind \in {"beams", "masses", "springs"}
    BY <1>2, ShapeOfElement DEF Init, TypeOK
  <2>2. \A c \in Constraints : consMerged[c] = 0 BY DEF Init
  <2>3. QED BY <1>3, <2>1, <2>2 DEF ThreadsInv, Ahead, Unmerged
<1>5. MergedInv /\ ScanInv /\ TablesInv /\ SizeInv
  BY <1>3 DEF MergedInv, ScanInv, TablesInv, SizeInv, Untabled, Unscanned, Uncounted, Unmerged
<1>6. QED BY <1>2, <1>4, <1>5 DEF NumberingInv

LEMMA ClearTableKeepsInv ==
    ASSUME FreedomAssumption, TypesAssumption, NumberingInv, ClearTable PROVE NumberingInv'
<1>1. /\ pc = "start" /\ pc' = "beams" /\ alloc' = [n \in Nodes |-> {}]
      /\ elems' = elems /\ cons' = cons /\ merged' = merged /\ consMerged' = consMerged
      /\ dofs' = dofs /\ map' = map /\ scanned' = scanned /\ elemTable' = elemTable
      /\ targetTable' = targetTable /\ baseTable' = baseTable /\ numSystemDofs' = numSystemDofs
  BY DEF ClearTable, ClearedTable, NoComponents, mesh, threads, userTables
<1>2. TypeOK'
  <2>1. alloc' \in [Nodes -> Signatures] BY <1>1 DEF Signatures
  <2>2. QED BY <1>1, <2>1 DEF NumberingInv, TypeOK
<1>3. /\ \A e \in Elements : merged[e] = 0
      /\ \A c \in Constraints : consMerged[c] = 0
  BY <1>1 DEF NumberingInv, ThreadsInv
<1>4. ThreadsInv'
  <2>1. \A e \in Elements : elems[e].kind \in {"beams", "masses", "springs"}
    BY ShapeOfElement DEF NumberingInv, TypeOK
  <2>2. QED BY <1>1, <1>3, <2>1 DEF NumberingInv, ThreadsInv, Ahead, Unmerged, ThreadsMerge
<1>5. MergedInv'
  <2>1. \A b, n : ~ Asked(b, n)'
    BY <1>1, <1>3 DEF Asked, AskedByElement, AskedByConstraint
  <2>2. QED BY <1>1, <2>1 DEF MergedInv
<1>6. ScanInv' /\ TablesInv' /\ SizeInv'
  BY <1>1 DEF ScanInv, TablesInv, SizeInv, Untabled, Unscanned, Uncounted, Unmerged, ThreadsMerge
<1>7. QED BY <1>2, <1>4, <1>5, <1>6 DEF NumberingInv

LEMMA MergeElementKeepsInv ==
    ASSUME FreedomAssumption, TypesAssumption, NumberingInv,
           NEW e \in Elements, MergeElement(e)
    PROVE  NumberingInv'
<1> DEFINE node == elems[e].nodes[merged[e] + 1]
           sig == ElementSignature(elems[e].kind)
<1>1. /\ pc = elems[e].kind /\ pc' = pc /\ merged[e] < Len(elems[e].nodes)
      /\ alloc' = [alloc EXCEPT ![node] = Merge(alloc[node], sig)]
      /\ merged' = [merged EXCEPT ![e] = merged[e] + 1]
      /\ elems' = elems /\ cons' = cons /\ consMerged' = consMerged
      /\ dofs' = dofs /\ map' = map /\ scanned' = scanned /\ elemTable' = elemTable
      /\ targetTable' = targetTable /\ baseTable' = baseTable /\ numSystemDofs' = numSystemDofs
  BY DEF MergeElement, mesh, userTables
<1>2. /\ elems[e].kind \in {"beams", "masses", "springs"}
      /\ merged \in [Elements -> Nat] /\ Len(elems[e].nodes) \in Nat
      /\ node \in Nodes /\ sig \in Signatures /\ alloc \in [Nodes -> Signatures]
  <2>1. elems[e] \in ElementShapes /\ merged \in [Elements -> Nat] /\ alloc \in [Nodes -> Signatures]
    BY DEF NumberingInv, TypeOK
  <2>2. /\ elems[e].kind \in {"beams", "masses", "springs"} /\ Len(elems[e].nodes) \in Nat
        /\ elems[e].nodes \in Seq(Nodes)
    BY <2>1, ShapeOfElement
  <2>3. merged[e] + 1 \in 1 .. Len(elems[e].nodes) BY <1>1, <2>1, <2>2
  <2>4. node \in Nodes BY <2>2, <2>3, ElementOfSeq
  <2>5. QED BY <2>1, <2>2, <2>4, Signed
<1> HIDE DEF node, sig
<1>3. /\ \A x \in Elements : merged'[x] = IF x = e THEN merged[e] + 1 ELSE merged[x]
      /\ \A n \in Nodes : alloc'[n] = IF n = node THEN Merge(alloc[node], sig) ELSE alloc[n]
  BY <1>1, <1>2
<1>4. TypeOK'
  <2>1. alloc' \in [Nodes -> Signatures] BY <1>1, <1>2, MergedComponents
  <2>2. merged' \in [Elements -> Nat] BY <1>1, <1>2
  <2>3. QED BY <1>1, <2>1, <2>2 DEF NumberingInv, TypeOK
<1>5. pc \in ThreadsMerge /\ pc \in Ahead(elems[e].kind) /\ pc # "start"
  BY <1>1, <1>2 DEF ThreadsMerge, Ahead
<1>6. ThreadsInv'
  <2>1. \A x \in Elements : merged'[x] <= Len(elems[x].nodes)
    BY <1>1, <1>2, <1>3 DEF NumberingInv, ThreadsInv
  <2>2. \A x \in Elements :
          pc \notin Ahead(elems[x].kind) => merged'[x] = Len(elems[x].nodes)
    BY <1>3, <1>5 DEF NumberingInv, ThreadsInv
  <2>3. \A c \in Constraints :
          /\ consMerged[c] = 2 => cons[c].type \in TwoNodeTypes
          /\ pc \notin Unmerged =>
                consMerged[c] = IF cons[c].type \in TwoNodeTypes THEN 2 ELSE 1
    BY DEF NumberingInv, ThreadsInv
  <2>4. QED BY <1>1, <1>5, <2>1, <2>2, <2>3 DEF ThreadsInv
<1>7. MergedInv'
  <2> SUFFICES ASSUME NEW n \in Nodes, NEW b \in AllComponents
               PROVE  b \in alloc'[n] <=> Asked(b, n)'
    BY <1>1, <1>5 DEF MergedInv
  <2>1. b \in alloc[n] <=> Asked(b, n) BY <1>5 DEF NumberingInv, MergedInv
  <2>2. b \in alloc'[n] <=> b \in alloc[n] \/ (n = node /\ b \in sig)
    BY <1>2, <1>3, MergedComponents
  <2>3. \A c \in Constraints : AskedByConstraint(c, b, n)' <=> AskedByConstraint(c, b, n)
    BY <1>1 DEF AskedByConstraint
  <2>4. \A x \in Elements : x # e => (AskedByElement(x, b, n)' <=> AskedByElement(x, b, n))
    BY <1>1, <1>3 DEF AskedByElement
  <2>5. AskedByElement(e, b, n)' <=> AskedByElement(e, b, n) \/ (n = node /\ b \in sig)
    <3>1. \A k : k \in 1 .. merged[e] + 1 <=> k \in 1 .. merged[e] \/ k = merged[e] + 1
      BY <1>2
    <3>2. AskedByElement(e, b, n)' <=>
            b \in sig /\ \E k \in 1 .. merged[e] + 1 : elems[e].nodes[k] = n
      BY <1>1, <1>3 DEF AskedByElement, sig
    <3>3. (\E k \in 1 .. merged[e] + 1 : elems[e].nodes[k] = n) <=>
            (\E k \in 1 .. merged[e] : elems[e].nodes[k] = n) \/ node = n
      BY <3>1 DEF node
    <3>4. QED BY <3>2, <3>3 DEF AskedByElement, sig
  <2>6. QED BY <2>1, <2>2, <2>3, <2>4, <2>5 DEF Asked
<1>8. ScanInv' /\ TablesInv' /\ SizeInv'
  BY <1>1, <1>5 DEF ScanInv, TablesInv, SizeInv, Untabled, Unscanned, Uncounted, Unmerged
<1>9. QED BY <1>4, <1>6, <1>7, <1>8 DEF NumberingInv

LEMMA MergeConstraintKeepsInv ==
    ASSUME FreedomAssumption, TypesAssumption, NumberingInv,
           NEW c \in Constraints, MergeConstraint(c)
    PROVE  NumberingInv'
<1> DEFINE type == cons[c].type
           node == IF consMerged[c] = 0 THEN cons[c].target ELSE cons[c].base
           sig == IF consMerged[c] = 0 THEN TargetSignature(type) ELSE BaseSignature(type)
<1>1. /\ pc = "constraints" /\ pc' = pc
      /\ consMerged[c] = 0 \/ (consMerged[c] = 1 /\ type \in TwoNodeTypes)
      /\ alloc' = [alloc EXCEPT ![node] = Merge(alloc[node], sig)]
      /\ consMerged' = [consMerged EXCEPT ![c] = consMerged[c] + 1]
      /\ elems' = elems /\ cons' = cons /\ merged' = merged
      /\ dofs' = dofs /\ map' = map /\ scanned' = scanned /\ elemTable' = elemTable
      /\ targetTable' = targetTable /\ baseTable' = baseTable /\ numSystemDofs' = numSystemDofs
  BY DEF MergeConstraint, mesh, userTables
<1>2. /\ node \in Nodes /\ sig \in Signatures /\ alloc \in [Nodes -> Signatures]
      /\ consMerged \in [Constraints -> 0 .. 2]
  <2>1. cons[c] \in ConstraintShapes /\ alloc \in [Nodes -> Signatures]
        /\ consMerged \in [Constraints -> 0 .. 2]
    BY DEF NumberingInv, TypeOK
  <2>2. cons[c].base \in Nodes /\ cons[c].target \in Nodes BY <2>1, ShapeOfConstraint
  <2>3. QED BY <2>1, <2>2, Signed
<1>3. /\ \A x \in Constraints : consMerged'[x] = IF x = c THEN consMerged[c] + 1 ELSE consMerged[x]
      /\ \A n \in Nodes : alloc'[n] = IF n = node THEN Merge(alloc[node], sig) ELSE alloc[n]
  BY <1>1, <1>2
<1>4. TypeOK'
  <2>1. alloc' \in [Nodes -> Signatures]
    <3> HIDE DEF node, sig
    <3>1. QED BY <1>1, <1>2, MergedComponents
  <2>2. consMerged' \in [Constraints -> 0 .. 2]
    <3>1. consMerged[c] + 1 \in 0 .. 2 BY <1>1
    <3>2. QED BY <1>1, <1>2, <3>1
  <2>3. QED BY <1>1, <2>1, <2>2 DEF NumberingInv, TypeOK
<1>5. ThreadsInv'
  <2>1. \A e \in Elements :
          /\ merged[e] <= Len(elems[e].nodes)
          /\ pc \notin Ahead(elems[e].kind) => merged[e] = Len(elems[e].nodes)
    BY DEF NumberingInv, ThreadsInv
  <2>2. \A x \in Constraints : consMerged'[x] = 2 => cons[x].type \in TwoNodeTypes
    <3>1. \A x \in Constraints : consMerged[x] = 2 => cons[x].type \in TwoNodeTypes
      BY DEF NumberingInv, ThreadsInv
    <3>2. consMerged'[c] = 2 => type \in TwoNodeTypes BY <1>1, <1>3
    <3>3. QED BY <1>3, <3>1, <3>2
  <2>3. pc' # "start" /\ pc' \in Unmerged BY <1>1 DEF Unmerged, ThreadsMerge
  <2> HIDE DEF node, sig, type
  <2>4. QED BY <1>1, <2>1, <2>2, <2>3 DEF ThreadsInv
<1>6. MergedInv'
  <2> SUFFICES ASSUME NEW n \in Nodes, NEW b \in AllComponents
               PROVE  b \in alloc'[n] <=> Asked(b, n)'
    BY <1>1 DEF MergedInv
  <2>1. b \in alloc[n] <=> Asked(b, n) BY <1>1 DEF NumberingInv, MergedInv
  <2>2. b \in alloc'[n] <=> b \in alloc[n] \/ (n = node /\ b \in sig)
    <3> HIDE DEF node, sig
    <3>1. QED BY <1>2, <1>3, MergedComponents
  <2>3. \A e \in Elements : AskedByElement(e, b, n)' <=> AskedByElement(e, b, n)
    BY <1>1 DEF AskedByElement
  <2>4. \A x \in Constraints :
          x # c => (AskedByConstraint(x, b, n)' <=> AskedByConstraint(x, b, n))
    BY <1>1, <1>3 DEF AskedByConstraint
  <2>5. AskedByConstraint(c, b, n)' <=>
          AskedByConstraint(c, b, n) \/ (n = node /\ b \in sig)
    <3>1. CASE consMerged[c] = 0
      <4>1. consMerged'[c] = 1 BY <1>3, <3>1
      <4>2. AskedByConstraint(c, b, n)' <=> cons[c].target = n /\ b \in TargetSignature(type)
        BY <1>1, <4>1 DEF AskedByConstraint
      <4>3. ~ AskedByConstraint(c, b, n) BY <3>1 DEF AskedByConstraint
      <4>4. QED BY <3>1, <4>2, <4>3
    <3>2. CASE consMerged[c] = 1
      <4>1. consMerged'[c] = 2 BY <1>3, <3>2
      <4>2. AskedByConstraint(c, b, n)' <=>
              \/ cons[c].target = n /\ b \in TargetSignature(type)
              \/ cons[c].base = n /\ b \in BaseSignature(type)
        BY <1>1, <4>1 DEF AskedByConstraint
      <4>3. AskedByConstraint(c, b, n) <=> cons[c].target = n /\ b \in TargetSignature(type)
        BY <3>2 DEF AskedByConstraint
      <4>4. QED BY <3>2, <4>2, <4>3
    <3>3. QED BY <1>1, <3>1, <3>2
  <2> HIDE DEF node, sig
  <2>6. QED BY <2>1, <2>2, <2>3, <2>4, <2>5 DEF Asked
<1>7. ScanInv' /\ TablesInv' /\ SizeInv'
  BY <1>1 DEF ScanInv, TablesInv, SizeInv, Untabled, Unscanned, Uncounted, Unmerged, ThreadsMerge
<1>8. QED BY <1>4, <1>5, <1>6, <1>7 DEF NumberingInv

LEMMA NextKernelKeepsInv ==
    ASSUME FreedomAssumption, TypesAssumption, NumberingInv, NextKernel PROVE NumberingInv'
<1>1. /\ elems' = elems /\ cons' = cons /\ merged' = merged /\ consMerged' = consMerged
      /\ alloc' = alloc /\ dofs' = dofs /\ map' = map /\ scanned' = scanned
      /\ elemTable' = elemTable
      /\ targetTable' = targetTable /\ baseTable' = baseTable /\ numSystemDofs' = numSystemDofs
  BY DEF NextKernel, mesh, threads, nodeTables, userTables
<1>2. pc \in ThreadsMerge /\ pc' \in (ThreadsMerge \ {"beams"}) \cup {"count"}
  BY DEF NextKernel, ThreadsMerge
<1>3. TypeOK' BY <1>1 DEF NumberingInv, TypeOK
<1>4. ThreadsInv'
  <2>1. \A e \in Elements : elems[e].kind \in {"beams", "masses", "springs"}
    BY ShapeOfElement DEF NumberingInv, TypeOK
  <2>2. \A e \in Elements :
          pc' \notin Ahead(elems[e].kind) => merged[e] = Len(elems[e].nodes)
    <3> SUFFICES ASSUME NEW e \in Elements, pc' \notin Ahead(elems[e].kind)
                 PROVE  merged[e] = Len(elems[e].nodes)
      OBVIOUS
    <3>1. pc = elems[e].kind \/ pc \notin Ahead(elems[e].kind)
      BY <1>2, <2>1 DEF NextKernel, Ahead, ThreadsMerge
    <3>2. pc = elems[e].kind => merged[e] = Len(elems[e].nodes)
      BY <2>1 DEF NextKernel
    <3>3. QED BY <3>1, <3>2 DEF NumberingInv, ThreadsInv
  <2>3. pc' \notin Unmerged => \A c \in Constraints :
          consMerged[c] = IF cons[c].type \in TwoNodeTypes THEN 2 ELSE 1
    BY <1>2 DEF NextKernel, Unmerged, ThreadsMerge
  <2>4. QED BY <1>1, <1>2, <2>2, <2>3 DEF NumberingInv, ThreadsInv, ThreadsMerge
<1>5. MergedInv'
  <2>1. \A b, n : Asked(b, n)' <=> Asked(b, n)
    BY <1>1 DEF Asked, AskedByElement, AskedByConstraint
  <2>2. QED BY <1>1, <1>2, <2>1 DEF NumberingInv, MergedInv, ThreadsMerge
<1>6. ScanInv' /\ TablesInv' /\ SizeInv'
  BY <1>2 DEF ScanInv, TablesInv, SizeInv, Untabled, Unscanned, Uncounted, Unmerged
<1>7. QED BY <1>3, <1>4, <1>5, <1>6 DEF NumberingInv

LEMMA ComputeActiveDofsKeepsInv ==
    ASSUME FreedomAssumption, TypesAssumption, NumberingInv, ComputeActiveDofs
    PROVE  NumberingInv'
<1>1. /\ pc = "count" /\ pc' = "scan" /\ scanned' = 0
      /\ dofs' = [n \in Nodes |-> CountActiveDofs(alloc[n])]
      /\ map' = [n \in Nodes |-> 0]
      /\ elems' = elems /\ cons' = cons /\ merged' = merged /\ consMerged' = consMerged
      /\ alloc' = alloc /\ elemTable' = elemTable
      /\ targetTable' = targetTable /\ baseTable' = baseTable /\ numSystemDofs' = numSystemDofs
  BY DEF ComputeActiveDofs, mesh, threads, userTables
<1>2. 0 \in Nodes /\ NumNodes - 1 \in Nat BY DEF FreedomAssumption, Nodes
<1>3. \A n \in Nodes : CountActiveDofs(alloc[n]) \in Nat
  BY Counts DEF NumberingInv, TypeOK
<1>4. TypeOK'
  <2>1. dofs' \in [Nodes -> Nat] BY <1>1, <1>3
  <2>2. map' \in [Nodes -> Nat] /\ scanned' \in Nodes BY <1>1, <1>2
  <2>3. QED BY <1>1, <2>1, <2>2 DEF NumberingInv, TypeOK
<1>5. ThreadsInv'
  <2>1. \A e \in Elements : elems[e].kind \in {"beams", "masses", "springs"}
    BY ShapeOfElement DEF NumberingInv, TypeOK
  <2>2. \A e \in Elements : pc \notin Ahead(elems[e].kind) BY <1>1, <2>1 DEF Ahead
  <2>3. pc' # "start" /\ pc \notin Unmerged BY <1>1 DEF Unmerged, ThreadsMerge
  <2>4. QED BY <1>1, <2>2, <2>3 DEF NumberingInv, ThreadsInv
<1>6. MergedInv'
  <2>1. \A b, n : Asked(b, n)' <=> Asked(b, n)
    BY <1>1 DEF Asked, AskedByElement, AskedByConstraint
  <2>2. QED BY <1>1, <2>1 DEF NumberingInv, MergedInv
<1>7. ScanInv'
  <2>1. \A n \in Nodes : dofs'[n] = CountActiveDofs(alloc'[n]) BY <1>1
  <2>2. map'[0] = 0 BY <1>1, <1>2
  <2>3. SumOf(dofs', 0 .. 0 - 1) = 0
    <3>1. 0 .. 0 - 1 = {} OBVIOUS
    <3>2. QED BY <3>1, SumOfNothing, Zenon
  <2>4. \A n \in 0 .. scanned' : n = 0 BY <1>1
  <2>5. \A n \in 0 .. scanned' : map'[n] = SumOf(dofs', 0 .. n - 1) BY <2>2, <2>3, <2>4, Zenon
  <2>6. \A n \in 1 .. scanned' : FALSE BY <1>1
  <2>7. \A m, n \in 0 .. scanned' : ~ (m < n) BY <2>4
  <2>8. QED BY <1>1, <2>1, <2>2, <2>5, <2>6, <2>7 DEF ScanInv
<1>8. TablesInv' /\ SizeInv'
  BY <1>1 DEF TablesInv, SizeInv, Untabled, Unscanned, Uncounted, Unmerged, ThreadsMerge
<1>9. QED BY <1>4, <1>5, <1>6, <1>7, <1>8 DEF NumberingInv

LEMMA ScanNodeKeepsInv ==
    ASSUME FreedomAssumption, TypesAssumption, NumberingInv, ScanNode PROVE NumberingInv'
<1> DEFINE next == scanned + 1
<1>1. /\ pc = "scan" /\ pc' = "scan" /\ scanned' = next /\ scanned < NumNodes - 1
      /\ map' = [map EXCEPT ![next] = map[scanned] + CountActiveDofs(alloc[scanned])]
      /\ elems' = elems /\ cons' = cons /\ merged' = merged /\ consMerged' = consMerged
      /\ alloc' = alloc /\ dofs' = dofs /\ elemTable' = elemTable
      /\ targetTable' = targetTable /\ baseTable' = baseTable /\ numSystemDofs' = numSystemDofs
  BY DEF ScanNode, Scan, mesh, threads, userTables
<1>2. /\ map \in [Nodes -> Nat] /\ dofs \in [Nodes -> Nat] /\ scanned \in Nodes
      /\ scanned \in Nat /\ next \in Nodes /\ next \in Nat \ {0} /\ NumNodes \in Nat
      /\ 0 .. scanned \subseteq Nodes /\ 0 .. next \subseteq Nodes
  <2>1. map \in [Nodes -> Nat] /\ dofs \in [Nodes -> Nat] /\ scanned \in Nodes
    BY DEF NumberingInv, TypeOK
  <2>2. QED BY <1>1, <2>1 DEF Nodes, FreedomAssumption
<1>3. /\ \A n \in Nodes : dofs[n] = CountActiveDofs(alloc[n])
      /\ map[0] = 0
      /\ \A n \in 1 .. scanned : map[n] = map[n - 1] + dofs[n - 1]
      /\ \A m, n \in 0 .. scanned : m < n => map[m] + dofs[m] <= map[n]
      /\ \A n \in 0 .. scanned : map[n] = SumOf(dofs, 0 .. n - 1)
  BY <1>1 DEF NumberingInv, ScanInv, Uncounted, Unmerged, ThreadsMerge
<1>4. /\ map' \in [Nodes -> Nat] /\ map'[next] = map[scanned] + dofs[scanned]
      /\ \A n \in 0 .. scanned : map'[n] = map[n]
  <2>1. CountActiveDofs(alloc[scanned]) = dofs[scanned] /\ map[scanned] + dofs[scanned] \in Nat
    BY <1>2, <1>3
  <2>2. \A n \in 0 .. scanned : n # next BY <1>2
  <2> HIDE DEF next
  <2>3. QED BY <1>1, <1>2, <2>1, <2>2
<1>5. /\ \A n : n \in 0 .. next <=> n \in 0 .. scanned \/ n = next
      /\ \A n : n \in 1 .. next <=> n \in 1 .. scanned \/ n = next
      /\ \A n \in 1 .. scanned : n \in 0 .. scanned /\ n - 1 \in 0 .. scanned
      /\ next - 1 = scanned /\ scanned \in 0 .. scanned /\ 0 \in 0 .. scanned
      /\ \A n \in 0 .. scanned : n < next /\ ~ (next < n)
  BY <1>2
<1>6. map'[0] = 0 BY <1>3, <1>4, <1>5
<1>7. \A n \in 1 .. next : map'[n] = map'[n - 1] + dofs[n - 1]
  <2> SUFFICES ASSUME NEW n \in 1 .. next PROVE map'[n] = map'[n - 1] + dofs[n - 1] OBVIOUS
  <2>1. CASE n = next BY <1>4, <1>5, <2>1
  <2>2. CASE n \in 1 .. scanned BY <1>3, <1>4, <1>5, <2>2
  <2>3. QED BY <1>5, <2>1, <2>2
<1>8. \A m, n \in 0 .. next : m < n => map'[m] + dofs[m] <= map'[n]
  <2> SUFFICES ASSUME NEW m \in 0 .. next, NEW n \in 0 .. next, m < n
               PROVE  map'[m] + dofs[m] <= map'[n]
    OBVIOUS
  <2>1. m \in 0 .. scanned
    <3>1. m # next BY <1>2
    <3>2. QED BY <1>5, <3>1
  <2>2. map'[m] = map[m] /\ map[m] \in Nat /\ dofs[m] \in Nat BY <1>2, <1>4, <2>1
  <2>3. CASE n \in 0 .. scanned BY <1>3, <1>4, <2>1, <2>2, <2>3
  <2>4. CASE n = next
    <3>1. map[scanned] \in Nat /\ dofs[scanned] \in Nat BY <1>2
    <3>2. map[m] + dofs[m] <= map[scanned] + dofs[scanned]
      <4>1. CASE m = scanned BY <4>1, <3>1
      <4>2. CASE m < scanned
        <5>1. map[m] + dofs[m] <= map[scanned] BY <1>3, <1>5, <2>1, <4>2
        <5>2. QED BY <2>2, <3>1, <5>1
      <4>3. m = scanned \/ m < scanned BY <1>2, <2>1
      <4>4. QED BY <4>1, <4>2, <4>3
    <3>3. QED BY <1>4, <2>2, <2>4, <3>2
  <2>5. QED BY <1>5, <2>3, <2>4
<1>9. \A n \in 0 .. next : map'[n] = SumOf(dofs, 0 .. n - 1)
  <2>1. \A i \in 0 .. scanned : dofs[i] \in Int BY <1>2
  <2>2. SumOf(dofs, 0 .. scanned) = SumOf(dofs, 0 .. scanned - 1) + dofs[scanned]
    BY <1>2, <2>1, SumOfNext
  <2>3. map[scanned] = SumOf(dofs, 0 .. scanned - 1) BY <1>3, <1>5
  <2>4. map'[next] = SumOf(dofs, 0 .. scanned) BY <1>4, <2>2, <2>3
  <2>5. map'[next] = SumOf(dofs, 0 .. next - 1) BY <1>5, <2>4
  <2>6. \A n \in 0 .. scanned : map'[n] = SumOf(dofs, 0 .. n - 1) BY <1>3, <1>4
  <2>7. QED BY <1>5, <2>5, <2>6, Zenon
<1>10. TypeOK' BY <1>1, <1>2, <1>4 DEF NumberingInv, TypeOK
<1>11. ThreadsInv'
  BY <1>1 DEF NumberingInv, ThreadsInv, Unmerged, ThreadsMerge, Ahead
<1>12. MergedInv'
  <2>1. \A b, n : Asked(b, n)' <=> Asked(b, n)
    BY <1>1 DEF Asked, AskedByElement, AskedByConstraint
  <2>2. QED BY <1>1, <2>1 DEF NumberingInv, MergedInv
<1>13. ScanInv'
  <2> HIDE DEF next
  <2>1. QED BY <1>1, <1>3, <1>6, <1>7, <1>8, <1>9 DEF ScanInv
<1>14. TablesInv' /\ SizeInv'
  BY <1>1 DEF TablesInv, SizeInv, Untabled, Unscanned, Uncounted, Unmerged, ThreadsMerge
<1>15. QED BY <1>10, <1>11, <1>12, <1>13, <1>14 DEF NumberingInv

\* Steps after the scan leave what the threads and the scan made.
LEMMA AfterScan ==
    ASSUME NumberingInv, pc \notin Unscanned \/ (pc = "scan" /\ scanned = NumNodes - 1),
           pc' \notin Unscanned,
           UNCHANGED <<mesh, threads, nodeTables>>
    PROVE  ThreadsInv' /\ MergedInv' /\ ScanInv'
<1>1. /\ elems' = elems /\ cons' = cons /\ merged' = merged /\ consMerged' = consMerged
      /\ alloc' = alloc /\ dofs' = dofs /\ map' = map /\ scanned' = scanned
  BY DEF mesh, threads, nodeTables
<1>2. pc \notin Uncounted /\ pc' \notin Uncounted /\ pc' # "scan" /\ pc' # "start" /\ pc # "start"
      /\ pc \notin Unmerged /\ pc' \notin Unmerged
      /\ (pc # "scan" => scanned = NumNodes - 1) /\ scanned = NumNodes - 1
  BY DEF NumberingInv, ScanInv, Unscanned, Uncounted, Unmerged, ThreadsMerge
<1>3. ThreadsInv'
  <2>1. \A p : p \notin Unmerged => \A e \in Elements : p \notin Ahead("beams")
                                       /\ p \notin Ahead("masses") /\ p \notin Ahead("springs")
    BY DEF Unmerged, ThreadsMerge, Ahead
  <2>2. \A e \in Elements : elems[e].kind \in {"beams", "masses", "springs"}
    BY DEF NumberingInv, TypeOK, ElementShapes
  <2>3. \A e \in Elements : pc \notin Ahead(elems[e].kind) BY <1>2, <2>1, <2>2
  <2>4. QED BY <1>1, <1>2, <2>3 DEF NumberingInv, ThreadsInv
<1>4. MergedInv'
  <2>1. \A b, n : Asked(b, n)' <=> Asked(b, n)
    BY <1>1 DEF Asked, AskedByElement, AskedByConstraint
  <2>2. QED BY <1>1, <1>2, <2>1 DEF NumberingInv, MergedInv
<1>5. ScanInv' BY <1>1, <1>2 DEF NumberingInv, ScanInv
<1>6. QED BY <1>3, <1>4, <1>5

LEMMA CreateElementTableKeepsInv ==
    ASSUME FreedomAssumption, TypesAssumption, NumberingInv, CreateElementTable
    PROVE  NumberingInv'
<1>1. /\ pc = "scan" /\ scanned = NumNodes - 1 /\ pc' = "constraintTable"
      /\ UNCHANGED <<mesh, threads, nodeTables, targetTable, baseTable, numSystemDofs>>
  BY DEF CreateElementTable
<1>2. pc \notin Uncounted /\ pc' \notin Unscanned /\ pc' \in Untabled
  BY <1>1 DEF Unscanned, Uncounted, Unmerged, ThreadsMerge, Untabled
<1>3. ThreadsInv' /\ MergedInv' /\ ScanInv' BY <1>1, <1>2, AfterScan
<1>4. TypeOK' BY <1>1 DEF NumberingInv, TypeOK, mesh, threads, nodeTables
<1>5. TablesInv'
  <2>1. \A e \in Elements : \A k \in DOMAIN elems[e].nodes :
          elemTable'[e][k] = [component \in 0 .. Width(elems[e].kind) - 1 |->
                                map[elems[e].nodes[k]] + component]
    <3>1. \A e \in Elements : DOMAIN elems[e].nodes = 1 .. Len(elems[e].nodes)
      BY ShapeOfElement DEF NumberingInv, TypeOK
    <3>2. QED BY <3>1 DEF CreateElementTable
  <2>2. QED BY <1>1, <1>2, <2>1 DEF TablesInv, mesh, nodeTables
<1>6. SizeInv' BY <1>2 DEF SizeInv
<1>7. QED BY <1>3, <1>4, <1>5, <1>6 DEF NumberingInv

\* A written row: the numbers of the node as far as it has some.
LEMMA RowOfNode ==
    ASSUME NEW old \in [Table -> Int], NEW n \in Nodes,
           map \in [Nodes -> Nat], dofs \in [Nodes -> Nat]
    PROVE  /\ NodeRow(old, n) \in [Table -> Int]
           /\ \A k \in Table : k < dofs[n] => NodeRow(old, n)[k] = map[n] + k
<1>1. DOMAIN old = Table OBVIOUS
<1>2. \A k \in Table : k \in Int BY DEF Table
<1>3. map[n] \in Int OBVIOUS
<1>4. \A k \in Table : map[n] + k \in Int BY <1>2, <1>3
<1>5. QED BY <1>1, <1>4 DEF NodeRow

LEMMA CreateConstraintTableKeepsInv ==
    ASSUME FreedomAssumption, TypesAssumption, NumberingInv, CreateConstraintTable
    PROVE  NumberingInv'
<1>1. /\ pc = "constraintTable" /\ pc' = "size"
      /\ UNCHANGED <<mesh, threads, nodeTables, elemTable, numSystemDofs>>
  BY DEF CreateConstraintTable
<1>2. pc \notin Unscanned /\ pc' \notin Unscanned /\ pc' = "size"
  BY <1>1 DEF Unscanned, Uncounted, Unmerged, ThreadsMerge
<1>3. ThreadsInv' /\ MergedInv' /\ ScanInv' BY <1>1, <1>2, AfterScan
<1>4. /\ map \in [Nodes -> Nat] /\ dofs \in [Nodes -> Nat]
      /\ targetTable \in [Constraints -> [Table -> Int]]
      /\ baseTable \in [Constraints -> [Table -> Int]]
      /\ \A c \in Constraints : cons[c].target \in Nodes /\ cons[c].base \in Nodes
  BY ShapeOfConstraint DEF NumberingInv, TypeOK
<1>5. \A c \in Constraints :
        /\ targetTable'[c] = NodeRow(targetTable[c], cons[c].target)
        /\ cons[c].type \in TwoNodeTypes => baseTable'[c] = NodeRow(baseTable[c], cons[c].base)
        /\ cons[c].type \notin TwoNodeTypes => baseTable'[c] = [k \in Table |-> 0]
  BY <1>4 DEF CreateConstraintTable
<1>6. \A c \in Constraints :
        targetTable'[c] \in [Table -> Int] /\ baseTable'[c] \in [Table -> Int]
  <2> SUFFICES ASSUME NEW c \in Constraints
               PROVE  targetTable'[c] \in [Table -> Int] /\ baseTable'[c] \in [Table -> Int]
    OBVIOUS
  <2>1. targetTable[c] \in [Table -> Int] /\ baseTable[c] \in [Table -> Int] BY <1>4
  <2>2. /\ NodeRow(targetTable[c], cons[c].target) \in [Table -> Int]
        /\ NodeRow(baseTable[c], cons[c].base) \in [Table -> Int]
    BY <1>4, <2>1, RowOfNode
  <2>3. [k \in Table |-> 0] \in [Table -> Int] OBVIOUS
  <2>4. QED BY <1>5, <2>2, <2>3, Zenon
<1>7. TypeOK'
  <2>1. targetTable' \in [Constraints -> [Table -> Int]]
    BY <1>6 DEF CreateConstraintTable
  <2>2. baseTable' \in [Constraints -> [Table -> Int]]
    BY <1>6 DEF CreateConstraintTable
  <2>3. QED BY <1>1, <2>1, <2>2 DEF NumberingInv, TypeOK, mesh, threads, nodeTables
<1>8. TablesInv'
  <2>1. \A c \in Constraints : \A k \in Table :
          /\ k < dofs[cons[c].target] => targetTable'[c][k] = map[cons[c].target] + k
          /\ cons[c].type \in TwoNodeTypes /\ k < dofs[cons[c].base] =>
                baseTable'[c][k] = map[cons[c].base] + k
    BY <1>4, <1>5, RowOfNode
  <2>2. \A e \in Elements : \A k \in DOMAIN elems[e].nodes :
          elemTable[e][k] = [component \in 0 .. Width(elems[e].kind) - 1 |->
                                map[elems[e].nodes[k]] + component]
    BY <1>2 DEF NumberingInv, TablesInv
  <2>3. QED BY <1>1, <2>1, <2>2 DEF TablesInv, mesh, nodeTables
<1>9. SizeInv' BY <1>1 DEF SizeInv
<1>10. QED BY <1>3, <1>7, <1>8, <1>9 DEF NumberingInv

\* A step that leaves meshes, numbers and tables alone.
LEMMA TablesUnchanged ==
    ASSUME TablesInv, UNCHANGED <<elems, cons, dofs, map, elemTable, targetTable, baseTable>>,
           pc' \notin Unscanned => pc \notin Unscanned,
           pc' \notin Untabled => pc \notin Untabled
    PROVE  TablesInv'
<1>1. ASSUME pc' \notin Unscanned, NEW e \in Elements, NEW k \in DOMAIN elems'[e].nodes
      PROVE  elemTable'[e][k] = [component \in 0 .. Width(elems'[e].kind) - 1 |->
                                   map'[elems'[e].nodes[k]] + component]
  <2> DEFINE numbers(width, first) == [component \in 0 .. width - 1 |-> first + component]
  <2>1. elems' = elems /\ map' = map /\ elemTable' = elemTable /\ pc \notin Unscanned
        /\ k \in DOMAIN elems[e].nodes
    BY <1>1
  <2>2. elemTable[e][k] = numbers(Width(elems[e].kind), map[elems[e].nodes[k]])
    BY <2>1 DEF TablesInv
  <2> HIDE DEF numbers
  <2>3. elemTable'[e][k] = numbers(Width(elems'[e].kind), map'[elems'[e].nodes[k]])
    BY <2>1, <2>2
  <2>4. QED BY <2>3 DEF numbers
<1>2. ASSUME pc' \notin Untabled, NEW c \in Constraints, NEW k \in Table
      PROVE  /\ k < dofs'[cons'[c].target] => targetTable'[c][k] = map'[cons'[c].target] + k
             /\ cons'[c].type \in TwoNodeTypes /\ k < dofs'[cons'[c].base] =>
                  baseTable'[c][k] = map'[cons'[c].base] + k
  BY <1>2 DEF TablesInv
<1>3. QED BY <1>1, <1>2 DEF TablesInv

LEMMA ComputeNumSystemDofsKeepsInv ==
    ASSUME FreedomAssumption, TypesAssumption, NumberingInv, ComputeNumSystemDofs
    PROVE  NumberingInv'
<1>1. /\ pc = "size" /\ pc' = "numbered" /\ numSystemDofs' = SumOf(dofs, Nodes)
      /\ UNCHANGED <<mesh, threads, nodeTables, elemTable, targetTable, baseTable>>
  BY Zenon DEF ComputeNumSystemDofs
<1>2. pc \notin Untabled /\ pc' \notin Untabled /\ pc \notin Unscanned /\ pc' \notin Unscanned
  BY <1>1 DEF Untabled, Unscanned, Uncounted, Unmerged, ThreadsMerge
<1>3. ThreadsInv' /\ MergedInv' /\ ScanInv' BY <1>1, <1>2, AfterScan
<1>4. TypeOK' BY <1>1 DEF NumberingInv, TypeOK, mesh, threads, nodeTables
<1>5. TablesInv' BY <1>1, <1>2 DEF NumberingInv, TablesInv, mesh, nodeTables
<1>6. SizeInv' BY <1>1 DEF SizeInv, nodeTables
<1>7. QED BY <1>3, <1>4, <1>5, <1>6 DEF NumberingInv

LEMMA NumberingKeepsInv ==
    ASSUME FreedomAssumption, TypesAssumption, NumberingInv, [Numbering]_freedomVars
    PROVE  NumberingInv'
<1>1. CASE ClearTable BY <1>1, ClearTableKeepsInv
<1>2. CASE \E e \in Elements : MergeElement(e) BY <1>2, MergeElementKeepsInv
<1>3. CASE \E c \in Constraints : MergeConstraint(c) BY <1>3, MergeConstraintKeepsInv
<1>4. CASE NextKernel BY <1>4, NextKernelKeepsInv
<1>5. CASE ComputeActiveDofs BY <1>5, ComputeActiveDofsKeepsInv
<1>6. CASE ScanNode BY <1>6, ScanNodeKeepsInv
<1>7. CASE CreateElementTable BY <1>7, CreateElementTableKeepsInv
<1>8. CASE CreateConstraintTable BY <1>8, CreateConstraintTableKeepsInv
<1>9. CASE ComputeNumSystemDofs BY <1>9, ComputeNumSystemDofsKeepsInv
<1>10. CASE UNCHANGED freedomVars
  <2>1. UNCHANGED <<pc, mesh, threads, nodeTables, userTables>> BY <1>10 DEF freedomVars
  <2>2. /\ elems' = elems /\ cons' = cons /\ merged' = merged /\ consMerged' = consMerged
        /\ alloc' = alloc /\ dofs' = dofs /\ map' = map /\ scanned' = scanned /\ pc' = pc
        /\ elemTable' = elemTable
        /\ targetTable' = targetTable /\ baseTable' = baseTable /\ numSystemDofs' = numSystemDofs
    BY <2>1 DEF mesh, threads, nodeTables, userTables
  <2>3. TypeOK' /\ ThreadsInv' BY <2>2 DEF NumberingInv, TypeOK, ThreadsInv
  <2>4. \A b, n : Asked(b, n)' <=> Asked(b, n)
    BY <2>2 DEF Asked, AskedByElement, AskedByConstraint
  <2>5. MergedInv' BY <2>2, <2>4 DEF NumberingInv, MergedInv
  <2>6. ScanInv' BY <2>2 DEF NumberingInv, ScanInv
  <2>7. TablesInv' BY <2>2, TablesUnchanged DEF NumberingInv
  <2>8. SizeInv' BY <2>2 DEF NumberingInv, SizeInv
  <2>9. QED BY <2>3, <2>5, <2>6, <2>7, <2>8 DEF NumberingInv
<1>11. QED
  BY <1>1, <1>2, <1>3, <1>4, <1>5, <1>6, <1>7, <1>8, <1>9, <1>10, Zenon DEF Numbering

(* Whatever the order in which the threads merge, the allocation table is    *)
(* what they have asked for so far, and every later table is made of it.     *)
THEOREM TablesFollowTheMerges == Spec => []NumberingInv
<1>1. Init => NumberingInv
  BY FreedomAssumption, TypesAssumption, InitNumbering
<1>2. NumberingInv /\ [Numbering]_freedomVars => NumberingInv'
  BY FreedomAssumption, TypesAssumption, NumberingKeepsInv
<1>3. QED BY <1>1, <1>2, PTL DEF Spec

-----------------------------------------------------------------------------
(* The numbering is exact. *)

LEMMA NeededComponents ==
    ASSUME NEW n
    PROVE  /\ Needed(n) \in Signatures
           /\ \A b : b \in Needed(n) <=>
                \/ \E e \in Elements : /\ b \in ElementSignature(elems[e].kind)
                                       /\ \E k \in DOMAIN elems[e].nodes : elems[e].nodes[k] = n
                \/ \E c \in Constraints : cons[c].target = n /\ b \in TargetSignature(cons[c].type)
                \/ \E c \in Constraints : cons[c].base = n /\ b \in BaseSignature(cons[c].type)
<1> DEFINE ofElements == {ElementSignature(elems[e].kind) :
                            e \in {x \in Elements : \E k \in DOMAIN elems[x].nodes :
                                                      elems[x].nodes[k] = n}}
           ofTargets == {TargetSignature(cons[c].type) : c \in {x \in Constraints : cons[x].target = n}}
           ofBases == {BaseSignature(cons[c].type) : c \in {x \in Constraints : cons[x].base = n}}
<1>1. Needed(n) = UNION (ofElements \cup ofTargets \cup ofBases) BY DEF Needed
<1>2. \A b : b \in UNION ofElements <=>
        \E e \in Elements : /\ b \in ElementSignature(elems[e].kind)
                            /\ \E k \in DOMAIN elems[e].nodes : elems[e].nodes[k] = n
  OBVIOUS
<1>3. \A b : b \in UNION ofTargets <=>
        \E c \in Constraints : cons[c].target = n /\ b \in TargetSignature(cons[c].type)
  OBVIOUS
<1>4. \A b : b \in UNION ofBases <=>
        \E c \in Constraints : cons[c].base = n /\ b \in BaseSignature(cons[c].type)
  OBVIOUS
<1>5. /\ \A s \in ofElements : s \in Signatures
      /\ \A s \in ofTargets : s \in Signatures
      /\ \A s \in ofBases : s \in Signatures
  BY Signed
<1> HIDE DEF ofElements, ofTargets, ofBases
<1>6. \A b : b \in Needed(n) <=>
        b \in UNION ofElements \/ b \in UNION ofTargets \/ b \in UNION ofBases
  BY <1>1
<1>7. Needed(n) \in Signatures BY <1>1, <1>5 DEF Signatures
<1>8. QED BY <1>2, <1>3, <1>4, <1>6, <1>7, Zenon

LEMMA NeededIsAllocated ==
    ASSUME FreedomAssumption, TypesAssumption, NumberingInv, pc \notin Uncounted
    PROVE  \A n \in Nodes : alloc[n] = Needed(n) /\ dofs[n] = CountActiveDofs(Needed(n))
<1> SUFFICES ASSUME NEW n \in Nodes
             PROVE  alloc[n] = Needed(n) /\ dofs[n] = CountActiveDofs(Needed(n))
  OBVIOUS
<1>1. pc \notin Uncounted /\ pc \notin Unmerged /\ pc # "start"
      /\ pc \notin Ahead("beams") /\ pc \notin Ahead("masses") /\ pc \notin Ahead("springs")
  BY DEF Uncounted, Unmerged, ThreadsMerge, Ahead
<1>2. \A e \in Elements : /\ elems[e].kind \in {"beams", "masses", "springs"}
                          /\ DOMAIN elems[e].nodes = 1 .. Len(elems[e].nodes)
  BY ShapeOfElement DEF NumberingInv, TypeOK
<1>3. \A e \in Elements : merged[e] = Len(elems[e].nodes)
  BY <1>1, <1>2 DEF NumberingInv, ThreadsInv
<1>4. \A c \in Constraints : consMerged[c] = IF cons[c].type \in TwoNodeTypes THEN 2 ELSE 1
  BY <1>1 DEF NumberingInv, ThreadsInv
<1>5. \A b \in AllComponents : b \in alloc[n] <=> Asked(b, n)
  BY <1>1 DEF NumberingInv, MergedInv
<1>6. \A b : \A e \in Elements : AskedByElement(e, b, n) <=>
        /\ b \in ElementSignature(elems[e].kind)
        /\ \E k \in DOMAIN elems[e].nodes : elems[e].nodes[k] = n
  BY <1>2, <1>3 DEF AskedByElement
<1>7. \A b : \A c \in Constraints : AskedByConstraint(c, b, n) <=>
        \/ cons[c].target = n /\ b \in TargetSignature(cons[c].type)
        \/ cons[c].base = n /\ b \in BaseSignature(cons[c].type)
  <2> SUFFICES ASSUME NEW b, NEW c \in Constraints
               PROVE  AskedByConstraint(c, b, n) <=>
                        \/ cons[c].target = n /\ b \in TargetSignature(cons[c].type)
                        \/ cons[c].base = n /\ b \in BaseSignature(cons[c].type)
    OBVIOUS
  <2>1. CASE cons[c].type \in TwoNodeTypes BY <1>4, <2>1 DEF AskedByConstraint
  <2>2. CASE cons[c].type \notin TwoNodeTypes
    <3>1. BaseSignature(cons[c].type) = {} BY <2>2, Signed
    <3>2. QED BY <1>4, <2>2, <3>1 DEF AskedByConstraint
  <2>3. QED BY <2>1, <2>2
<1>8. \A b \in AllComponents : b \in alloc[n] <=> b \in Needed(n)
  BY <1>5, <1>6, <1>7, NeededComponents, Zenon DEF Asked
<1>9. alloc[n] \in Signatures BY DEF NumberingInv, TypeOK
<1>10. alloc[n] = Needed(n) BY <1>8, <1>9, NeededComponents, SameComponents
<1>11. dofs[n] = CountActiveDofs(alloc[n]) BY <1>1 DEF NumberingInv, ScanInv
<1>12. QED BY <1>10, <1>11

LEMMA UnionIsAllocated ==
    ASSUME FreedomAssumption, TypesAssumption, NumberingInv PROVE AllocationIsUnion
<1>1. pc \in Counted => pc \notin Uncounted
  BY DEF Counted, Uncounted, Unmerged, ThreadsMerge
<1>2. QED BY <1>1, NeededIsAllocated DEF AllocationIsUnion

\* The size of the system is where the range of the last node ends.
LEMMA SystemEnds ==
    ASSUME FreedomAssumption, NumberingInv, pc \notin Untabled \cup {"size"}
    PROVE  /\ numSystemDofs \in Nat
           /\ map[NumNodes - 1] + dofs[NumNodes - 1] = numSystemDofs
<1> DEFINE last == NumNodes - 1
<1>1. /\ \A n \in 0 .. scanned : map[n] = SumOf(dofs, 0 .. n - 1)
      /\ scanned = NumNodes - 1
  BY DEF NumberingInv, ScanInv, Untabled, Unscanned, Uncounted, Unmerged, ThreadsMerge
<1>2. last \in Nat /\ Nodes = 0 .. last /\ last = scanned /\ last \in 0 .. scanned
  BY <1>1 DEF FreedomAssumption, Nodes
<1>3. \A i \in Nodes : dofs[i] \in Nat BY DEF NumberingInv, TypeOK
<1>4. numSystemDofs = SumOf(dofs, Nodes) BY DEF NumberingInv, SizeInv
<1> HIDE DEF last
<1>5. SumOf(dofs, 0 .. last) = SumOf(dofs, 0 .. last - 1) + dofs[last]
  BY <1>2, <1>3, SumOfNext
<1>6. map[last] = SumOf(dofs, 0 .. last - 1) BY <1>1, <1>2
<1>7. numSystemDofs = SumOf(dofs, 0 .. last) BY <1>2, <1>4
<1>8. map[last] + dofs[last] = numSystemDofs BY <1>5, <1>6, <1>7
<1>9. map[last] \in Nat /\ dofs[last] \in Nat BY <1>2 DEF NumberingInv, TypeOK
<1>10. QED BY <1>8, <1>9 DEF last

LEMMA RangesFill ==
    ASSUME FreedomAssumption, NumberingInv PROVE RangesPartition
<1> SUFFICES ASSUME pc \in Counted
             PROVE  /\ map[0] = 0
                    /\ \A n \in 1 .. scanned : map[n] = map[n - 1] + dofs[n - 1]
                    /\ \A m, n \in 0 .. scanned : m < n => map[m] + dofs[m] <= map[n]
                    /\ pc = "numbered" =>
                         map[NumNodes - 1] + dofs[NumNodes - 1] = numSystemDofs
  BY DEF RangesPartition
<1>1. /\ map[0] = 0
      /\ \A n \in 1 .. scanned : map[n] = map[n - 1] + dofs[n - 1]
      /\ \A m, n \in 0 .. scanned : m < n => map[m] + dofs[m] <= map[n]
  BY DEF NumberingInv, ScanInv, Counted, Uncounted, Unmerged, ThreadsMerge
<1>2. ASSUME pc = "numbered" PROVE map[NumNodes - 1] + dofs[NumNodes - 1] = numSystemDofs
  BY <1>2, SystemEnds DEF Untabled, Unscanned, Uncounted, Unmerged, ThreadsMerge
<1>3. QED BY <1>1, <1>2

\* What the tables hold: as many numbers from the first of a node on as are
\* asked for, and no more than the node has.
LEMMA TableEntries ==
    ASSUME FreedomAssumption, TypesAssumption, NumberingInv, pc \notin Untabled
    PROVE  /\ \A e \in Elements : \A k \in DOMAIN elems[e].nodes :
                /\ elems[e].nodes[k] \in Nodes
                /\ elemTable[e][k] = [component \in 0 .. Width(elems[e].kind) - 1 |->
                                        map[elems[e].nodes[k]] + component]
                /\ Width(elems[e].kind) \in 1 .. dofs[elems[e].nodes[k]]
           /\ \A c \in Constraints :
                LET width == CountActiveDofs(TargetSignature(cons[c].type))
                IN  /\ cons[c].target \in Nodes /\ width \in 1 .. dofs[cons[c].target]
                    /\ \A k \in 0 .. width - 1 : targetTable[c][k] = map[cons[c].target] + k
           /\ \A c \in Constraints :
                LET width == CountActiveDofs(BaseSignature(cons[c].type))
                IN  /\ cons[c].base \in Nodes /\ width \in 0 .. dofs[cons[c].base]
                    /\ width # 0 <=> cons[c].type \in TwoNodeTypes
                    /\ \A k \in 0 .. width - 1 : baseTable[c][k] = map[cons[c].base] + k
<1>1. pc \notin Uncounted /\ pc \notin Unscanned /\ pc \notin Untabled
  BY DEF Untabled, Unscanned
<1>2. map \in [Nodes -> Nat] /\ dofs \in [Nodes -> Nat] BY DEF NumberingInv, TypeOK
<1>3. \A n \in Nodes : dofs[n] = CountActiveDofs(Needed(n)) BY <1>1, NeededIsAllocated
\* What one user of a node needs is no more than the node has.
<1>4. ASSUME NEW n \in Nodes, NEW s \in Signatures, s \subseteq Needed(n)
      PROVE  CountActiveDofs(s) <= dofs[n] /\ CountActiveDofs(s) \in Nat
             /\ CountActiveDofs(s) <= 2 * Block
  BY <1>3, <1>4, Counts, NeededComponents
<1>5. /\ \A kind \in {"beams", "masses", "springs"} : Width(kind) # 0
      /\ \A type : CountActiveDofs(TargetSignature(type)) # 0
      /\ \A type : CountActiveDofs(BaseSignature(type)) # 0 <=> type \in TwoNodeTypes
  BY DEF FreedomAssumption, Width, CountActiveDofs, TargetSignature, BaseSignature,
         AllComponents, JustPosition, NoComponents
<1>6. ASSUME NEW e \in Elements, NEW k \in DOMAIN elems[e].nodes
      PROVE  /\ elems[e].nodes[k] \in Nodes
             /\ elemTable[e][k] = [component \in 0 .. Width(elems[e].kind) - 1 |->
                                     map[elems[e].nodes[k]] + component]
             /\ Width(elems[e].kind) \in 1 .. dofs[elems[e].nodes[k]]
  <2> DEFINE n == elems[e].nodes[k]
             kind == elems[e].kind
             width == Width(kind)
             sig == ElementSignature(kind)
  <2>1. elems[e] \in ElementShapes BY DEF NumberingInv, TypeOK
  <2>2. kind \in {"beams", "masses", "springs"} /\ n \in Nodes
    BY <2>1, ShapeOfElement, ElementOfSeq
  <2>3. elemTable[e][k] = [x \in 0 .. width - 1 |-> map[n] + x]
    BY <1>1 DEF NumberingInv, TablesInv
  <2>4. sig \in Signatures /\ sig \subseteq Needed(n) BY Signed, NeededComponents
  <2>5. width = CountActiveDofs(sig) /\ width # 0 BY <1>5, <2>2, WidthIsCount
  <2>6. width \in 1 .. dofs[n]
    <3> HIDE DEF n, kind, width, sig
    <3>1. width \in Nat /\ width <= dofs[n] /\ dofs[n] \in Nat BY <1>2, <1>4, <2>2, <2>4, <2>5
    <3>2. QED BY <2>5, <3>1
  <2>7. QED BY <2>2, <2>3, <2>6
<1>7. ASSUME NEW c \in Constraints
      PROVE  LET width == CountActiveDofs(TargetSignature(cons[c].type))
             IN  /\ cons[c].target \in Nodes /\ width \in 1 .. dofs[cons[c].target]
                 /\ \A k \in 0 .. width - 1 : targetTable[c][k] = map[cons[c].target] + k
  <2> DEFINE n == cons[c].target
             sig == TargetSignature(cons[c].type)
             width == CountActiveDofs(sig)
  <2>1. n \in Nodes BY ShapeOfConstraint DEF NumberingInv, TypeOK
  <2>2. sig \in Signatures /\ sig \subseteq Needed(n) BY Signed, NeededComponents
  <2>3. /\ width \in Nat /\ width <= dofs[n] /\ width <= 2 * Block /\ width # 0
        /\ dofs[n] \in Nat
    BY <1>2, <1>4, <1>5, <2>1, <2>2
  <2>4. \A x \in Table : x < dofs[n] => targetTable[c][x] = map[n] + x
    BY <1>1 DEF NumberingInv, TablesInv
  <2>5. width \in 1 .. dofs[n] /\ \A k \in 0 .. width - 1 : targetTable[c][k] = map[n] + k
    <3> HIDE DEF n, sig, width
    <3>1. \A k \in 0 .. width - 1 : k \in Table /\ k < dofs[n]
      BY <2>3 DEF Table, FreedomAssumption
    <3>2. QED BY <2>3, <2>4, <3>1
  <2>6. QED BY <2>1, <2>5
<1>8. ASSUME NEW c \in Constraints
      PROVE  LET width == CountActiveDofs(BaseSignature(cons[c].type))
             IN  /\ cons[c].base \in Nodes /\ width \in 0 .. dofs[cons[c].base]
                 /\ width # 0 <=> cons[c].type \in TwoNodeTypes
                 /\ \A k \in 0 .. width - 1 : baseTable[c][k] = map[cons[c].base] + k
  <2> DEFINE n == cons[c].base
             sig == BaseSignature(cons[c].type)
             width == CountActiveDofs(sig)
  <2>1. n \in Nodes BY ShapeOfConstraint DEF NumberingInv, TypeOK
  <2>2. sig \in Signatures /\ sig \subseteq Needed(n) BY Signed, NeededComponents
  <2>3. /\ width \in Nat /\ width <= dofs[n] /\ width <= 2 * Block /\ dofs[n] \in Nat
        /\ width # 0 <=> cons[c].type \in TwoNodeTypes
    BY <1>2, <1>4, <1>5, <2>1, <2>2
  <2>4. cons[c].type \in TwoNodeTypes =>
          \A x \in Table : x < dofs[n] => baseTable[c][x] = map[n] + x
    BY <1>1 DEF NumberingInv, TablesInv
  <2>5. width \in 0 .. dofs[n] /\ \A k \in 0 .. width - 1 : baseTable[c][k] = map[n] + k
    <3> HIDE DEF n, sig, width
    <3>1. \A k \in 0 .. width - 1 : k \in Table /\ k < dofs[n] /\ width # 0
      BY <2>3 DEF Table, FreedomAssumption
    <3>2. QED BY <2>3, <2>4, <3>1
  <2>6. QED BY <2>1, <2>3, <2>5
<1>9. QED BY <1>6, <1>7, <1>8

LEMMA EntriesAreOfTheirNode ==
    ASSUME FreedomAssumption, TypesAssumption, NumberingInv PROVE EntriesBelongToTheirNode
<1> SUFFICES ASSUME pc = "numbered"
             PROVE  /\ \A e \in Elements : \A k \in DOMAIN elems[e].nodes :
                         \A component \in DOMAIN elemTable[e][k] :
                           elemTable[e][k][component] \in RangeOf(elems[e].nodes[k])
                    /\ \A c \in Constraints :
                         /\ \A k \in 0 .. CountActiveDofs(TargetSignature(cons[c].type)) - 1 :
                              targetTable[c][k] \in RangeOf(cons[c].target)
                         /\ \A k \in 0 .. CountActiveDofs(BaseSignature(cons[c].type)) - 1 :
                              baseTable[c][k] \in RangeOf(cons[c].base)
  BY DEF EntriesBelongToTheirNode
<1>1. pc \notin Untabled BY DEF Untabled, Unscanned, Uncounted, Unmerged, ThreadsMerge
\* A number that lies in the width of a node's row is one of the node.
<1>2. ASSUME NEW n \in Nodes, NEW w \in 0 .. dofs[n], NEW k \in 0 .. w - 1
      PROVE  map[n] + k \in RangeOf(n)
  <2>1. map[n] \in Nat /\ dofs[n] \in Nat BY DEF NumberingInv, TypeOK
  <2>2. QED BY <2>1 DEF RangeOf
<1>3. ASSUME NEW e \in Elements, NEW k \in DOMAIN elems[e].nodes,
             NEW component \in DOMAIN elemTable[e][k]
      PROVE  elemTable[e][k][component] \in RangeOf(elems[e].nodes[k])
  <2> DEFINE n == elems[e].nodes[k]
             width == Width(elems[e].kind)
  <2>1. /\ n \in Nodes /\ width \in 1 .. dofs[n]
        /\ elemTable[e][k] = [x \in 0 .. width - 1 |-> map[n] + x]
    BY <1>1, TableEntries
  <2> HIDE DEF n, width
  <2>2. /\ component \in 0 .. width - 1 /\ width \in 0 .. dofs[n]
        /\ elemTable[e][k][component] = map[n] + component
    BY <2>1
  <2>3. QED BY <1>2, <2>1, <2>2 DEF n
<1>4. ASSUME NEW c \in Constraints
      PROVE  /\ \A k \in 0 .. CountActiveDofs(TargetSignature(cons[c].type)) - 1 :
                  targetTable[c][k] \in RangeOf(cons[c].target)
             /\ \A k \in 0 .. CountActiveDofs(BaseSignature(cons[c].type)) - 1 :
                  baseTable[c][k] \in RangeOf(cons[c].base)
  <2> DEFINE m == cons[c].target
             n == cons[c].base
             widthT == CountActiveDofs(TargetSignature(cons[c].type))
             widthB == CountActiveDofs(BaseSignature(cons[c].type))
  <2>1. /\ m \in Nodes /\ widthT \in 1 .. dofs[m]
        /\ \A k \in 0 .. widthT - 1 : targetTable[c][k] = map[m] + k
    BY <1>1, TableEntries
  <2>2. /\ n \in Nodes /\ widthB \in 0 .. dofs[n]
        /\ \A k \in 0 .. widthB - 1 : baseTable[c][k] = map[n] + k
    BY <1>1, TableEntries
  <2> HIDE DEF m, n, widthT, widthB
  <2>3. widthT \in 0 .. dofs[m] BY <2>1
  <2>4. /\ \A k \in 0 .. widthT - 1 : targetTable[c][k] \in RangeOf(m)
        /\ \A k \in 0 .. widthB - 1 : baseTable[c][k] \in RangeOf(n)
    BY <1>2, <2>1, <2>2, <2>3
  <2>5. QED BY <2>4 DEF m, n, widthT, widthB
<1>5. QED BY <1>3, <1>4

(* NumberingIsExact of FreedomTables, for every mesh: any number of nodes,   *)
(* elements, constraints and components in a block.                          *)
THEOREM NumberingStaysExact == Spec => []NumberingIsExact
<1>1. NumberingInv => NumberingIsExact
  BY FreedomAssumption, TypesAssumption, UnionIsAllocated, RangesFill, EntriesAreOfTheirNode
     DEF NumberingIsExact
<1>2. QED BY <1>1, TablesFollowTheMerges, PTL

-----------------------------------------------------------------------------
(* More about sums. *)

LEMMA SameTermsSameSum ==
    ASSUME NEW f, NEW g, NEW S, IsFiniteSet(S), \A x \in S : f[x] = g[x]
    PROVE  SumOf(f, S) = SumOf(g, S)
<1> DEFINE Bad == {s \in SUBSET S : SumOf(f, s) # SumOf(g, s)}
<1> SUFFICES ASSUME Bad # {} PROVE FALSE OBVIOUS
<1>1. PICK s \in Bad : \A t \in Bad : Cardinality(s) <= Cardinality(t)
  <2>1. Bad \in SUBSET (SUBSET S) OBVIOUS
  <2> HIDE DEF Bad
  <2>2. QED BY <2>1, SmallestOf
<1>2. s \in SUBSET S /\ SumOf(f, s) # SumOf(g, s) BY <1>1
<1>3. s # {} BY <1>2, SumOfNothing
<1> DEFINE x == Picked(s)
           rest == s \ {x}
<1>4. /\ IsFiniteSet(s) /\ x \in S /\ rest \in SUBSET S
      /\ Cardinality(rest) = Cardinality(s) - 1 /\ Cardinality(s) \in Nat
  BY <1>2, <1>3, Taken
<1>5. SumOf(f, s) = f[x] + SumOf(f, rest) /\ SumOf(g, s) = g[x] + SumOf(g, rest)
  BY <1>3, <1>4, SumOfPicked
<1> HIDE DEF x, rest
<1>6. rest \notin Bad BY <1>1, <1>4
<1>7. SumOf(f, rest) = SumOf(g, rest) BY <1>4, <1>6
<1>8. QED BY <1>2, <1>4, <1>5, <1>7

\* Terms that are zero may be left out.
LEMMA SumWithoutZeros ==
    ASSUME NEW f, NEW S, IsFiniteSet(S), \A x \in S : f[x] \in Int,
           NEW T \in SUBSET S, \A x \in S \ T : f[x] = 0
    PROVE  SumOf(f, S) = SumOf(f, T)
<1> DEFINE Bad == {s \in SUBSET (S \ T) : SumOf(f, S) # SumOf(f, S \ s)}
           others == S \ T
<1>1. Bad = {}
  <2> SUFFICES ASSUME Bad # {} PROVE FALSE OBVIOUS
  <2>1. IsFiniteSet(others) BY FS_Subset
  <2>2. PICK s \in Bad : \A t \in Bad : Cardinality(s) <= Cardinality(t)
    <3>1. Bad \in SUBSET (SUBSET others) OBVIOUS
    <3> HIDE DEF Bad, others
    <3>2. QED BY <2>1, <3>1, SmallestOf
  <2>3. s \in SUBSET others /\ SumOf(f, S) # SumOf(f, S \ s) BY <2>2
  <2>4. s # {}
    <3>1. s = {} => S \ s = S OBVIOUS
    <3>2. QED BY <2>3, <3>1
  <2>5. PICK x \in s : TRUE BY <2>4
  <2> DEFINE rest == s \ {x}
             more == S \ rest
  <2>6. /\ rest \in SUBSET others /\ Cardinality(rest) = Cardinality(s) - 1
        /\ Cardinality(s) \in Nat
    BY <2>1, <2>3, Taken
  <2>7. rest \notin Bad
    <3> HIDE DEF Bad, rest
    <3>1. QED BY <2>2, <2>6
  <2>8. SumOf(f, S) = SumOf(f, more) BY <2>6, <2>7
  <2>9. /\ x \in more /\ more \ {x} = S \ s /\ f[x] = 0 /\ more \in SUBSET S
        /\ S \ s \in SUBSET S
    BY <2>3
  <2>10. IsFiniteSet(more) /\ IsFiniteSet(S \ s) BY <2>9, FS_Subset
  <2>11. SumOf(f, more) = f[x] + SumOf(f, more \ {x})
    <3>1. \A y \in more : f[y] \in Int BY <2>9
    <3> HIDE DEF more
    <3>2. QED BY <2>9, <2>10, <3>1, SumWithout
  <2>12. SumOf(f, S \ s) \in Int
    <3>1. \A y \in S \ s : f[y] \in Int OBVIOUS
    <3>2. QED BY <2>10, <3>1, SumType
  <2>13. SumOf(f, more) = 0 + SumOf(f, S \ s) BY <2>9, <2>11
  <2>14. SumOf(f, more) = SumOf(f, S \ s) BY <2>12, <2>13
  <2>15. QED BY <2>3, <2>8, <2>14
<1>2. others \notin Bad BY <1>1
<1>3. others \in SUBSET (S \ T) /\ S \ others = T OBVIOUS
<1>4. SumOf(f, S) = SumOf(f, S \ others) BY <1>2, <1>3
<1>5. QED BY <1>3, <1>4

LEMMA SumOfFirst ==
    ASSUME NEW f, NEW n \in Nat, \A i \in 1 .. n + 1 : f[i] \in Int
    PROVE  /\ SumOf(f, 1 .. n) \in Int
           /\ SumOf(f, 1 .. n + 1) = SumOf(f, 1 .. n) + f[n + 1]
<1> DEFINE S == 1 .. n
           T == 1 .. n + 1
<1>1. IsFiniteSet(S) /\ IsFiniteSet(T) BY FS_Interval
<1>2. n + 1 \in T /\ T \ {n + 1} = S /\ \A x \in S : f[x] \in Int OBVIOUS
<1>3. SumOf(f, T) = f[n + 1] + SumOf(f, T \ {n + 1})
  <2>1. \A x \in T : f[x] \in Int OBVIOUS
  <2> HIDE DEF S, T
  <2>2. QED BY <1>1, <1>2, <2>1, SumWithout
<1>4. SumOf(f, S) \in Int
  <2> HIDE DEF S, T
  <2>1. QED BY <1>1, <1>2, SumType
<1>5. f[n + 1] \in Int BY <1>2
<1>6. SumOf(f, T) = f[n + 1] + SumOf(f, S) BY <1>2, <1>3
<1> HIDE DEF S, T
<1>7. SumOf(f, T) = SumOf(f, S) + f[n + 1] BY <1>4, <1>5, <1>6
<1>8. QED BY <1>4, <1>7 DEF S, T

-----------------------------------------------------------------------------
(* The columns of several parts, one after the other: FlattenSeq is a        *)
(* recursion over the parts.                                                 *)

Joins(g, q, n) ==
    g = [i \in 1 .. n |-> IF i = 1 THEN q[i] ELSE g[i - 1] \o q[i]]

Lengths(q) == [i \in DOMAIN q |-> Len(q[i])]

LEMMA JoinsExists ==
    ASSUME NEW q, NEW n \in Nat
    PROVE  \E g : Joins(g, q, n)
<1> DEFINE Bad == {m \in Nat : ~ \E g : Joins(g, q, m)}
<1> SUFFICES ASSUME Bad # {} PROVE FALSE OBVIOUS
<1>1. PICK m \in Bad : \A k \in Bad : m <= k
  <2>1. Bad \in SUBSET Nat OBVIOUS
  <2> HIDE DEF Bad
  <2>2. QED BY <2>1, LeastOf
<1>2. m \in Nat /\ ~ \E g : Joins(g, q, m) BY <1>1
<1>3. m # 0
  <2> DEFINE none == [i \in 1 .. 0 |-> IF i = 1 THEN q[i] ELSE q[i - 1] \o q[i]]
  <2>1. Joins(none, q, 0)
    <3>1. \A i \in 1 .. 0 : none[i] = IF i = 1 THEN q[i] ELSE none[i - 1] \o q[i] OBVIOUS
    <3>2. none = [i \in 1 .. 0 |-> IF i = 1 THEN q[i] ELSE none[i - 1] \o q[i]] BY <3>1
    <3> HIDE DEF none
    <3>3. QED BY <3>2, Zenon DEF Joins
  <2>2. QED BY <1>2, <2>1
<1>4. m - 1 \in Nat /\ m - 1 \notin Bad BY <1>1, <1>2, <1>3
<1>5. PICK g : Joins(g, q, m - 1) BY <1>4
<1> DEFINE h == [i \in 1 .. m |-> IF i = 1 THEN q[i] ELSE g[i - 1] \o q[i]]
<1>6. \A i \in 1 .. m - 1 : h[i] = g[i]
  <2>1. \A i \in 1 .. m - 1 : g[i] = IF i = 1 THEN q[i] ELSE g[i - 1] \o q[i]
    BY <1>5, Zenon DEF Joins
  <2>2. \A i \in 1 .. m - 1 : i \in 1 .. m BY <1>2
  <2>3. QED BY <2>1, <2>2
<1>7. h = [i \in 1 .. m |-> IF i = 1 THEN q[i] ELSE h[i - 1] \o q[i]]
  <2>1. \A i \in 1 .. m : i # 1 => i - 1 \in 1 .. m - 1 BY <1>2
  <2>2. \A i \in 1 .. m : i # 1 => h[i - 1] = g[i - 1] BY <1>6, <2>1
  <2>3. QED BY <2>2
<1>8. Joins(h, q, m) BY <1>7, Zenon DEF Joins
<1>9. QED BY <1>2, <1>8

LEMMA JoinedParts ==
    ASSUME NEW S, NEW q \in Seq(Seq(S)), NEW g, Joins(g, q, Len(q))
    PROVE  \A i \in 1 .. Len(q) : g[i] \in Seq(S) /\ Len(g[i]) = SumOf(Lengths(q), 1 .. i)
<1> DEFINE Good(i) == g[i] \in Seq(S) /\ Len(g[i]) = SumOf(Lengths(q), 1 .. i)
           Bad == {i \in 1 .. Len(q) : ~ Good(i)}
<1> SUFFICES ASSUME Bad # {} PROVE FALSE OBVIOUS
<1>1. Len(q) \in Nat /\ DOMAIN q = 1 .. Len(q) BY LenProperties
<1>2. PICK i \in Bad : \A k \in Bad : i <= k
  <2>1. Bad \in SUBSET Nat BY <1>1
  <2> HIDE DEF Bad
  <2>2. QED BY <2>1, LeastOf
<1>3. i \in 1 .. Len(q) /\ ~ Good(i) BY <1>2
<1>4. g[i] = IF i = 1 THEN q[i] ELSE g[i - 1] \o q[i] BY <1>3, Zenon DEF Joins
<1>5. \A k \in 1 .. Len(q) : q[k] \in Seq(S) /\ Lengths(q)[k] = Len(q[k]) /\ Len(q[k]) \in Nat
  BY <1>1, ElementOfSeq, LenProperties DEF Lengths
<1>6. /\ SumOf(Lengths(q), 1 .. i - 1) \in Int
      /\ SumOf(Lengths(q), 1 .. i) = SumOf(Lengths(q), 1 .. i - 1) + Lengths(q)[i]
  <2>1. \A k \in 1 .. i : Lengths(q)[k] \in Int BY <1>1, <1>3, <1>5
  <2>2. i - 1 \in Nat /\ (i - 1) + 1 = i BY <1>1, <1>3
  <2>3. QED BY <2>1, <2>2, SumOfFirst
<1>7. CASE i = 1
  <2>1. 1 .. i - 1 = {} BY <1>7
  <2>2. SumOf(Lengths(q), 1 .. i - 1) = 0 BY <2>1, SumOfNothing
  <2>3. Lengths(q)[i] = Len(q[i]) /\ Len(q[i]) \in Nat /\ q[i] \in Seq(S) BY <1>3, <1>5
  <2>4. SumOf(Lengths(q), 1 .. i) = Len(q[i]) BY <1>6, <2>2, <2>3
  <2>5. g[i] = q[i] BY <1>4, <1>7
  <2>6. Good(i) BY <2>3, <2>4, <2>5
  <2>7. QED BY <1>3, <2>6
<1>8. CASE i # 1
  <2>1. i - 1 \in 1 .. Len(q) /\ ~ (i <= i - 1) BY <1>1, <1>3, <1>8
  <2>2. i - 1 \notin Bad BY <1>2, <2>1
  <2>3. Good(i - 1) BY <2>1, <2>2
  <2>4. g[i - 1] \o q[i] \in Seq(S) /\ Len(g[i - 1] \o q[i]) = Len(g[i - 1]) + Len(q[i])
    <3> HIDE DEF Bad
    <3>1. g[i - 1] \in Seq(S) /\ q[i] \in Seq(S) BY <1>3, <1>5, <2>3
    <3> HIDE DEF Good
    <3>2. QED BY <3>1, ConcatProperties
  <2>5. g[i] = g[i - 1] \o q[i] /\ Lengths(q)[i] = Len(q[i]) BY <1>3, <1>4, <1>5, <1>8
  <2>6. Len(g[i]) = SumOf(Lengths(q), 1 .. i - 1) + Lengths(q)[i] BY <2>3, <2>4, <2>5
  <2>7. Good(i) BY <1>6, <2>4, <2>5, <2>6
  <2>8. QED BY <1>3, <2>7
<1>9. QED BY <1>7, <1>8

LEMMA FlattenedLength ==
    ASSUME NEW S, NEW q \in Seq(Seq(S))
    PROVE  /\ FlattenSeq(q) \in Seq(S)
           /\ Len(FlattenSeq(q)) = SumOf(Lengths(q), 1 .. Len(q))
<1>1. Len(q) \in Nat /\ DOMAIN q = 1 .. Len(q) BY LenProperties
<1>2. CASE Len(q) = 0
  <2>1. q = <<>> BY <1>2, EmptySeq
  <2>2. FlattenSeq(q) = <<>> BY <1>2, <2>1 DEF FlattenSeq
  <2>3. 1 .. Len(q) = {} BY <1>2
  <2>4. SumOf(Lengths(q), 1 .. Len(q)) = 0 BY <2>3, SumOfNothing
  <2>5. QED BY <2>2, <2>4, EmptySeq
<1>3. CASE Len(q) # 0
  <2> DEFINE joined == CHOOSE g : Joins(g, q, Len(q))
  <2>1. Joins(joined, q, Len(q)) BY <1>1, JoinsExists
  <2>2. FlattenSeq(q) = joined[Len(q)] BY <1>3, Zenon DEF FlattenSeq, Joins
  <2>3. Len(q) \in 1 .. Len(q) BY <1>1, <1>3
  <2> HIDE DEF joined
  <2>4. QED BY <2>1, <2>2, <2>3, JoinedParts
<1>4. QED BY <1>2, <1>3

-----------------------------------------------------------------------------
(* Rows and their columns: as many are written as were counted.              *)

LEMMA NodesOfElement ==
    ASSUME FreedomAssumption, NumberingInv, NEW e \in Elements
    PROVE  /\ elems[e].nodes \in Seq(Nodes) /\ Len(elems[e].nodes) \in Nat
           /\ DOMAIN elems[e].nodes = 1 .. Len(elems[e].nodes)
           /\ \A k \in 1 .. Len(elems[e].nodes) : elems[e].nodes[k] \in Nodes
           /\ Distinct(elems[e].nodes)
<1>1. elems[e] \in ElementShapes BY DEF NumberingInv, TypeOK
<1>2. /\ elems[e].nodes \in Seq(Nodes) /\ Len(elems[e].nodes) \in Nat
      /\ DOMAIN elems[e].nodes = 1 .. Len(elems[e].nodes)
  BY <1>1, ShapeOfElement
<1>3. \A k \in 1 .. Len(elems[e].nodes) : elems[e].nodes[k] \in Nodes BY <1>2, ElementOfSeq
<1>4. Distinct(elems[e].nodes)
  <2>1. \A k, s : s \in NodeLists(k) => Distinct(s) BY DEF NodeLists
  <2>2. \E k : elems[e].nodes \in NodeLists(k) BY <1>1 DEF ElementShapes
  <2>3. QED BY <2>1, <2>2
<1>5. QED BY <1>2, <1>3, <1>4

LEMMA ColumnsOfNode ==
    ASSUME NumberingInv, NEW n \in Nodes
    PROVE  NodeColumns(n) \in Seq(Int) /\ Len(NodeColumns(n)) = dofs[n] /\ dofs[n] \in Nat
<1>1. dofs[n] \in Nat /\ map[n] \in Nat BY DEF NumberingInv, TypeOK
<1>2. NodeColumns(n) \in [1 .. dofs[n] -> Int] BY <1>1 DEF NodeColumns
<1>3. NodeColumns(n) \in Seq(Int) BY <1>1, <1>2, SeqDef
<1>4. Len(NodeColumns(n)) = dofs[n]
  <2>1. DOMAIN NodeColumns(n) = 1 .. dofs[n] BY DEF NodeColumns
  <2>2. QED BY <1>1, <1>3, <2>1, LenProperties
<1>5. QED BY <1>1, <1>3, <1>4

\* The columns an element adds to a row of one of its nodes.
LEMMA ColumnsOfOthers ==
    ASSUME FreedomAssumption, NumberingInv, NEW e \in Elements, NEW n \in Nodes
    PROVE  /\ ColumnsInElement(e, n) \in Seq(Int) /\ EntriesInElement(e) \in Int
           /\ ElementContainsNode(e, n) =>
                Len(ColumnsInElement(e, n)) = EntriesInElement(e) - dofs[n]
<1> DEFINE nodes == elems[e].nodes
           D == 1 .. Len(nodes)
           parts == [k \in DOMAIN nodes |->
                       IF nodes[k] = n THEN <<>> ELSE NodeColumns(nodes[k])]
           entries == [k \in DOMAIN nodes |-> dofs[nodes[k]]]
<1>1. /\ Len(nodes) \in Nat /\ DOMAIN nodes = D
      /\ \A k \in D : nodes[k] \in Nodes
      /\ Distinct(nodes)
  BY NodesOfElement
<1>2. ColumnsInElement(e, n) = FlattenSeq(parts) BY Zenon DEF ColumnsInElement
<1>3. EntriesInElement(e) = SumOf(entries, D) BY <1>1, Zenon DEF EntriesInElement
<1>4. IsFiniteSet(D) BY <1>1, FS_Interval
<1> HIDE DEF nodes
<1>5. \A k \in D : parts[k] \in Seq(Int)
  <2>1. <<>> \in Seq(Int) BY EmptySeq
  <2>2. \A k \in D : NodeColumns(nodes[k]) \in Seq(Int) BY <1>1, ColumnsOfNode
  <2>3. QED BY <1>1, <2>1, <2>2
<1>6. parts \in Seq(Seq(Int)) /\ Len(parts) = Len(nodes) /\ DOMAIN parts = D
  <2>1. DOMAIN parts = D BY <1>1
  <2>2. parts \in [D -> Seq(Int)] BY <1>1, <1>5
  <2> HIDE DEF parts
  <2>3. parts \in Seq(Seq(Int)) BY <1>1, <2>2, SeqDef
  <2>4. Len(parts) = Len(nodes) BY <1>1, <2>1, <2>3, LenProperties
  <2>5. QED BY <2>1, <2>3, <2>4
<1>7. /\ FlattenSeq(parts) \in Seq(Int)
      /\ Len(FlattenSeq(parts)) = SumOf(Lengths(parts), D)
  <2> HIDE DEF parts, D
  <2>1. D = 1 .. Len(parts) BY <1>6 DEF D
  <2>2. QED BY <1>6, <2>1, FlattenedLength
<1>8. \A k \in D : entries[k] = dofs[nodes[k]] /\ entries[k] \in Nat
  BY <1>1, ColumnsOfNode
<1>9. SumOf(entries, D) \in Int
  <2> HIDE DEF D, entries
  <2>1. QED BY <1>4, <1>8, SumType
<1>10. \A k \in D : Lengths(parts)[k] = IF nodes[k] = n THEN 0 ELSE entries[k]
  <2>1. \A k \in D : Lengths(parts)[k] = Len(parts[k]) BY <1>6 DEF Lengths
  <2>2. \A k \in D : parts[k] = IF nodes[k] = n THEN <<>> ELSE NodeColumns(nodes[k])
    BY <1>1
  <2>3. \A k \in D : Len(NodeColumns(nodes[k])) = entries[k]
    BY <1>1, <1>8, ColumnsOfNode
  <2>4. Len(<<>>) = 0 BY EmptySeq
  <2> HIDE DEF parts, entries, D
  <2>5. QED BY <2>1, <2>2, <2>3, <2>4
<1>11. ASSUME ElementContainsNode(e, n)
       PROVE  SumOf(Lengths(parts), D) = SumOf(entries, D) - dofs[n]
  <2>1. PICK k \in D : nodes[k] = n BY <1>1, <1>11 DEF ElementContainsNode, nodes
  <2> DEFINE rest == D \ {k}
             lengths == Lengths(parts)
  <2>2. \A j \in rest : nodes[j] # n BY <1>1, <2>1 DEF Distinct
  <2>3. \A j \in rest : lengths[j] = entries[j] BY <1>10, <2>2
  <2>4. \A j \in D : lengths[j] \in Int /\ entries[j] \in Int
    <3> HIDE DEF D, entries, parts
    <3>1. QED BY <1>8, <1>10
  <2>5. IsFiniteSet(rest) /\ \A j \in rest : entries[j] \in Int BY <1>4, <2>4, FS_Subset
  <2>6. lengths[k] = 0 /\ entries[k] = dofs[n]
    <3> HIDE DEF D, entries, parts
    <3>1. QED BY <1>8, <1>10, <2>1
  <2> HIDE DEF D, entries, lengths, parts
  <2>7. SumOf(lengths, D) = 0 + SumOf(lengths, rest) BY <1>4, <2>1, <2>4, <2>6, SumWithout
  <2>8. SumOf(entries, D) = dofs[n] + SumOf(entries, rest)
    BY <1>4, <2>1, <2>4, <2>6, SumWithout
  <2> HIDE DEF rest
  <2>9. SumOf(lengths, rest) = SumOf(entries, rest) BY <2>3, <2>5, SameTermsSameSum
  <2>10. SumOf(entries, rest) \in Int BY <2>5, SumType
  <2>11. dofs[n] \in Nat BY ColumnsOfNode
  <2>12. SumOf(lengths, D) = SumOf(entries, D) - dofs[n] BY <2>7, <2>8, <2>9, <2>10, <2>11
  <2>13. QED BY <2>12 DEF lengths
<1>12. QED BY <1>2, <1>3, <1>7, <1>9, <1>11

LEMMA RowsOfConstraints ==
    ASSUME FreedomAssumption
    PROVE  /\ DOMAIN ConstraintRows = Constraints
           /\ \A c \in Constraints : /\ ConstraintRows[c] = NumRowsForConstraint(cons[c].type)
                                     /\ ConstraintRows[c] \in Nat \ {0}
<1>1. \A type : NumRowsForConstraint(type) \in Nat \ {0}
  BY DEF FreedomAssumption, NumRowsForConstraint
<1>2. QED BY <1>1 DEF ConstraintRows

\* The ranges of the constraints lie one after the other.
LEMMA StartRows ==
    ASSUME FreedomAssumption
    PROVE  /\ \A c \in 1 .. NumConstraints + 1 : StartRow(c) \in Nat
           /\ \A c \in Constraints : StartRow(c + 1) = StartRow(c) + ConstraintRows[c]
           /\ \A c, d \in 1 .. NumConstraints + 1 : c <= d => StartRow(c) <= StartRow(d)
<1>1. NumConstraints \in Nat /\ Constraints = 1 .. NumConstraints
  BY DEF FreedomAssumption, Constraints
<1>2. \A c \in 1 .. NumConstraints : ConstraintRows[c] \in Nat BY <1>1, RowsOfConstraints
<1>3. ASSUME NEW c \in 1 .. NumConstraints + 1 PROVE StartRow(c) \in Nat
  <2> DEFINE before == 1 .. c - 1
  <2>1. IsFiniteSet(before) BY FS_Interval
  <2>2. \A x \in before : ConstraintRows[x] \in Int /\ ConstraintRows[x] >= 0 BY <1>1, <1>2
  <2>3. StartRow(c) = SumOf(ConstraintRows, before) BY Zenon DEF StartRow
  <2> HIDE DEF before
  <2>4. SumOf(ConstraintRows, before) \in Int /\ SumOf(ConstraintRows, before) >= 0
    BY <2>1, <2>2, SumType
  <2>5. QED BY <2>3, <2>4
<1>4. ASSUME NEW c \in Constraints PROVE StartRow(c + 1) = StartRow(c) + ConstraintRows[c]
  <2> DEFINE n == c - 1
  <2>1. n \in Nat /\ n + 1 = c /\ (c + 1) - 1 = c BY <1>1
  <2>2. \A i \in 1 .. n + 1 : ConstraintRows[i] \in Int BY <1>1, <1>2
  <2>3. StartRow(c) = SumOf(ConstraintRows, 1 .. n) BY Zenon DEF StartRow
  <2>4. StartRow(c + 1) = SumOf(ConstraintRows, 1 .. c) BY <2>1 DEF StartRow
  <2> HIDE DEF n
  <2>5. SumOf(ConstraintRows, 1 .. n + 1) = SumOf(ConstraintRows, 1 .. n) + ConstraintRows[n + 1]
    BY <2>1, <2>2, SumOfFirst
  <2>6. QED BY <2>1, <2>3, <2>4, <2>5
<1>5. ASSUME NEW c \in 1 .. NumConstraints + 1
      PROVE  \A d \in 1 .. NumConstraints + 1 : c <= d => StartRow(c) <= StartRow(d)
  <2> DEFINE Bad == {d \in 1 .. NumConstraints + 1 : c <= d /\ ~ (StartRow(c) <= StartRow(d))}
  <2> SUFFICES ASSUME Bad # {} PROVE FALSE OBVIOUS
  <2>1. PICK d \in Bad : \A x \in Bad : d <= x
    <3>1. Bad \in SUBSET Nat BY <1>1
    <3> HIDE DEF Bad
    <3>2. QED BY <3>1, LeastOf
  <2>2. d \in 1 .. NumConstraints + 1 /\ c <= d /\ ~ (StartRow(c) <= StartRow(d)) BY <2>1
  <2>3. c # d
    <3>1. StartRow(c) <= StartRow(c) BY <1>3
    <3>2. QED BY <2>2, <3>1
  <2> DEFINE b == d - 1
  <2>4. b \in Constraints /\ b \in 1 .. NumConstraints + 1 /\ c <= b /\ ~ (d <= b) /\ b + 1 = d
    BY <1>1, <2>2, <2>3
  <2> HIDE DEF b
  <2>5. b \notin Bad BY <2>1, <2>4
  <2>6. StartRow(c) <= StartRow(b) BY <2>4, <2>5
  <2>7. StartRow(d) = StartRow(b) + ConstraintRows[b] BY <1>4, <2>4
  <2>8. StartRow(c) \in Nat /\ StartRow(b) \in Nat /\ ConstraintRows[b] \in Nat
    BY <1>1, <1>2, <1>3, <2>4
  <2>9. StartRow(c) <= StartRow(d) BY <2>6, <2>7, <2>8
  <2>10. QED BY <2>2, <2>9
<1>6. QED BY <1>3, <1>4, <1>5

LEMMA RangeOfConstraint ==
    ASSUME FreedomAssumption, numSystemDofs \in Nat, NEW c \in Constraints
    PROVE  /\ RowsOf(c) \in Seq(Int) /\ Len(RowsOf(c)) = ConstraintRows[c]
           /\ ToSet(RowsOf(c)) =
                numSystemDofs + StartRow(c) .. numSystemDofs + StartRow(c) + ConstraintRows[c] - 1
<1> DEFINE first == numSystemDofs + StartRow(c)
           rows == ConstraintRows[c]
<1>1. StartRow(c) \in Nat
  <2>1. c \in 1 .. NumConstraints + 1 BY DEF FreedomAssumption, Constraints
  <2>2. QED BY <2>1, StartRows
<1>2. first \in Nat /\ rows \in Nat /\ rows = NumRowsForConstraint(cons[c].type)
  BY <1>1, RowsOfConstraints
<1>3. RowsOf(c) = [k \in 1 .. rows |-> first + k - 1] BY <1>2 DEF RowsOf
<1> HIDE DEF first, rows
<1>4. RowsOf(c) \in [1 .. rows -> Int] /\ DOMAIN RowsOf(c) = 1 .. rows BY <1>2, <1>3
<1>5. RowsOf(c) \in Seq(Int) BY <1>2, <1>4, SeqDef
<1>6. Len(RowsOf(c)) = rows BY <1>2, <1>4, <1>5, LenProperties
<1>7. ToSet(RowsOf(c)) = first .. first + rows - 1
  <2>1. \A r : r \in ToSet(RowsOf(c)) <=> \E k \in 1 .. rows : r = first + k - 1
    <3> DEFINE row(k) == first + k - 1
    <3>1. \A k \in 1 .. rows : RowsOf(c)[k] = row(k) BY <1>3
    <3>2. ToSet(RowsOf(c)) = {RowsOf(c)[k] : k \in 1 .. rows} BY <1>4 DEF ToSet
    <3> HIDE DEF row
    <3>3. \A r : r \in ToSet(RowsOf(c)) <=> \E k \in 1 .. rows : r = row(k) BY <3>1, <3>2
    <3>4. QED BY <3>3 DEF row
  <2>2. ASSUME NEW r \in first .. first + rows - 1
        PROVE  \E k \in 1 .. rows : r = first + k - 1
    <3> DEFINE k == r - first + 1
    <3>1. k \in 1 .. rows /\ r = first + k - 1 BY <1>2
    <3> HIDE DEF k
    <3>2. QED BY <3>1
  <2>3. \A k \in 1 .. rows : first + k - 1 \in first .. first + rows - 1 BY <1>2
  <2> DEFINE range == first .. first + rows - 1
  <2>4. \A r \in range : r \in ToSet(RowsOf(c)) BY <2>1, <2>2
  <2>5. \A r \in ToSet(RowsOf(c)) : r \in range BY <2>1, <2>3
  <2> HIDE DEF range
  <2>6. ToSet(RowsOf(c)) = range BY <2>4, <2>5
  <2>7. QED BY <2>6 DEF range
<1>8. QED BY <1>5, <1>6, <1>7 DEF first, rows

LEMMA ConstraintRowLength ==
    ASSUME FreedomAssumption, NumberingInv, NEW c \in Constraints
    PROVE  /\ ColumnsOfConstraintRow(c) \in Seq(Int)
           /\ Len(ColumnsOfConstraintRow(c)) = BaseActiveDofs(c) + TargetActiveDofs(c)
<1>1. ASSUME NEW size \in 0 .. 2 * Block, NEW table \in [Table -> Int]
      PROVE  /\ [k \in 1 .. size |-> table[k - 1]] \in Seq(Int)
             /\ Len([k \in 1 .. size |-> table[k - 1]]) = size
  <2> DEFINE taken == [k \in 1 .. size |-> table[k - 1]]
  <2>1. \A k \in 1 .. size : k - 1 \in Table BY DEF Table, FreedomAssumption
  <2>2. taken \in [1 .. size -> Int] /\ DOMAIN taken = 1 .. size BY <2>1
  <2>3. size \in Nat BY DEF FreedomAssumption
  <2> HIDE DEF taken
  <2>4. taken \in Seq(Int) BY <2>2, <2>3, SeqDef
  <2>5. Len(taken) = size BY <2>2, <2>3, <2>4, LenProperties
  <2>6. QED BY <2>4, <2>5 DEF taken
<1>2. /\ BaseActiveDofs(c) \in 0 .. 2 * Block /\ TargetActiveDofs(c) \in 0 .. 2 * Block
      /\ BaseActiveDofs(c) \in Nat /\ TargetActiveDofs(c) \in Nat
  <2>1. \A s \in Signatures : CountActiveDofs(s) \in Nat /\ CountActiveDofs(s) <= 2 * Block
    BY Counts
  <2>2. BaseSignature(cons[c].type) \in Signatures /\ TargetSignature(cons[c].type) \in Signatures
    BY Signed
  <2>3. QED BY <2>1, <2>2 DEF BaseActiveDofs, TargetActiveDofs, FreedomAssumption
<1>3. targetTable[c] \in [Table -> Int] /\ baseTable[c] \in [Table -> Int]
  BY DEF NumberingInv, TypeOK
<1> DEFINE target == [k \in 1 .. TargetActiveDofs(c) |-> targetTable[c][k - 1]]
           base == [k \in 1 .. BaseActiveDofs(c) |-> baseTable[c][k - 1]]
<1>4. /\ target \in Seq(Int) /\ Len(target) = TargetActiveDofs(c)
      /\ base \in Seq(Int) /\ Len(base) = BaseActiveDofs(c)
  BY <1>1, <1>2, <1>3
<1>5. ColumnsOfConstraintRow(c) = target \o base BY Zenon DEF ColumnsOfConstraintRow
<1> HIDE DEF target, base
<1>6. target \o base \in Seq(Int) /\ Len(target \o base) = Len(target) + Len(base)
  BY <1>4, ConcatProperties
<1>7. QED BY <1>2, <1>4, <1>5, <1>6

\* Parts of which only those in T are not empty.
LEMMA FlattenedParts ==
    ASSUME NEW q \in Seq(Seq(Int)), NEW f, NEW T, T \subseteq DOMAIN q,
           \A k \in T : Len(q[k]) = f[k],
           \A k \in DOMAIN q : k \notin T => q[k] = <<>>
    PROVE  FlattenSeq(q) \in Seq(Int) /\ Len(FlattenSeq(q)) = SumOf(f, T)
<1> DEFINE S == 1 .. Len(q)
           lengths == Lengths(q)
<1>1. DOMAIN q = S /\ Len(q) \in Nat BY LenProperties
<1>2. \A k \in S : q[k] \in Seq(Int) BY ElementOfSeq
<1>3. FlattenSeq(q) \in Seq(Int) /\ Len(FlattenSeq(q)) = SumOf(lengths, S)
  BY FlattenedLength
<1>4. \A k \in S : lengths[k] = Len(q[k]) /\ Len(q[k]) \in Int
  <2>1. \A k \in S : Len(q[k]) \in Nat BY <1>2, LenProperties
  <2>2. QED BY <1>1, <2>1 DEF Lengths
<1>5. IsFiniteSet(S) /\ IsFiniteSet(T)
  <2>1. IsFiniteSet(S) /\ T \in SUBSET S BY <1>1, FS_Interval
  <2> HIDE DEF S
  <2>2. QED BY <2>1, FS_Subset
<1>6. \A k \in S \ T : lengths[k] = 0
  <2>1. Len(<<>>) = 0 BY EmptySeq
  <2>2. \A k \in S \ T : q[k] = <<>> BY <1>1
  <2> HIDE DEF lengths, S
  <2>3. QED BY <1>4, <2>1, <2>2
<1>7. T \in SUBSET S /\ \A k \in T : lengths[k] = f[k]
  <2>1. T \in SUBSET S BY <1>1
  <2> HIDE DEF lengths, S
  <2>2. QED BY <1>4, <2>1
<1> HIDE DEF S, lengths
<1>8. SumOf(lengths, S) = SumOf(lengths, T)
  <2>1. \A k \in S : lengths[k] \in Int BY <1>4
  <2>2. QED BY <1>5, <1>6, <1>7, <2>1, SumWithoutZeros
<1>9. SumOf(lengths, T) = SumOf(f, T) BY <1>5, <1>7, SameTermsSameSum
<1>10. QED BY <1>3, <1>8, <1>9

\* The kernel that counts the entries of a node's rows agrees with the one
\* that fills them in.
LEMMA NodeRowLength ==
    ASSUME FreedomAssumption, NumberingInv, numSystemDofs \in Nat, NEW n \in Nodes
    PROVE  /\ ColumnsOfNodeRow(n) \in Seq(Int)
           /\ Len(ColumnsOfNodeRow(n)) = EntriesInRow(n)
           /\ EntriesInRow(n) \in Nat
<1> DEFINE ofElements == [e \in Elements |->
                            IF ElementContainsNode(e, n) THEN ColumnsInElement(e, n) ELSE <<>>]
           ofConstraints == [c \in Constraints |->
                               IF ConstraintContainsNode(c, map[n])
                               THEN TransposeColumns(c) ELSE <<>>]
           others == [e \in Elements |-> EntriesInElement(e) - dofs[n]]
           here == {e \in Elements : ElementContainsNode(e, n)}
           tied == {c \in Constraints : ConstraintContainsNode(c, map[n])}
<1>1. /\ Elements = 1 .. NumElements /\ NumElements \in Nat
      /\ Constraints = 1 .. NumConstraints /\ NumConstraints \in Nat
  BY DEF FreedomAssumption, Elements, Constraints
<1>2. <<>> \in Seq(Int) BY EmptySeq
<1>3. FlattenSeq(ofElements) \in Seq(Int) /\ Len(FlattenSeq(ofElements)) = SumOf(others, here)
  <2>1. \A e \in Elements : ColumnsInElement(e, n) \in Seq(Int) BY ColumnsOfOthers
  <2>2. ofElements \in Seq(Seq(Int)) /\ DOMAIN ofElements = Elements
    <3>1. ofElements \in [Elements -> Seq(Int)] BY <1>2, <2>1
    <3> HIDE DEF ofElements
    <3>2. QED BY <1>1, <3>1, SeqDef
  <2>3. here \subseteq DOMAIN ofElements BY <2>2
  <2>4. \A e \in here : Len(ofElements[e]) = others[e]
    <3> SUFFICES ASSUME NEW e \in here PROVE  Len(ofElements[e]) = others[e] OBVIOUS
    <3>1. e \in Elements /\ ElementContainsNode(e, n) OBVIOUS
    <3>2. Len(ColumnsInElement(e, n)) = EntriesInElement(e) - dofs[n] BY <3>1, ColumnsOfOthers
    <3>3. ofElements[e] = ColumnsInElement(e, n) /\ others[e] = EntriesInElement(e) - dofs[n]
      BY <3>1, Zenon
    <3>4. QED BY <3>2, <3>3
  <2>5. \A e \in DOMAIN ofElements : e \notin here => ofElements[e] = <<>> BY <2>2
  <2> HIDE DEF ofElements, here, others
  <2>6. QED BY <2>2, <2>3, <2>4, <2>5, FlattenedParts
<1>4. /\ FlattenSeq(ofConstraints) \in Seq(Int)
      /\ Len(FlattenSeq(ofConstraints)) = SumOf(ConstraintRows, tied)
  <2>1. \A c \in Constraints : TransposeColumns(c) \in Seq(Int)
                               /\ Len(TransposeColumns(c)) = ConstraintRows[c]
    BY RangeOfConstraint DEF TransposeColumns
  <2>2. ofConstraints \in Seq(Seq(Int)) /\ DOMAIN ofConstraints = Constraints
    <3>1. ofConstraints \in [Constraints -> Seq(Int)] BY <1>2, <2>1
    <3> HIDE DEF ofConstraints
    <3>2. QED BY <1>1, <3>1, SeqDef
  <2>3. tied \subseteq DOMAIN ofConstraints BY <2>2
  <2>4. \A c \in tied : Len(ofConstraints[c]) = ConstraintRows[c]
    <3> SUFFICES ASSUME NEW c \in tied PROVE  Len(ofConstraints[c]) = ConstraintRows[c] OBVIOUS
    <3>1. c \in Constraints /\ ConstraintContainsNode(c, map[n]) OBVIOUS
    <3>2. ofConstraints[c] = TransposeColumns(c) BY <3>1, Zenon
    <3>3. QED BY <2>1, <3>1, <3>2
  <2>5. \A c \in DOMAIN ofConstraints : c \notin tied => ofConstraints[c] = <<>> BY <2>2
  <2> HIDE DEF ofConstraints, tied
  <2>6. QED BY <2>2, <2>3, <2>4, <2>5, FlattenedParts
<1>5. NodeColumns(n) \in Seq(Int) /\ Len(NodeColumns(n)) = dofs[n] BY ColumnsOfNode
<1>6. ColumnsOfNodeRow(n) = (NodeColumns(n) \o FlattenSeq(ofElements)) \o FlattenSeq(ofConstraints)
  BY Zenon DEF ColumnsOfNodeRow
<1>7. EntriesInRow(n) = dofs[n] + SumOf(others, here) + SumOf(ConstraintRows, tied)
  BY Zenon DEF EntriesInRow
<1> DEFINE x == FlattenSeq(ofElements)
           y == FlattenSeq(ofConstraints)
<1>8. x \in Seq(Int) /\ y \in Seq(Int) /\ Len(x) = SumOf(others, here)
      /\ Len(y) = SumOf(ConstraintRows, tied)
  BY <1>3, <1>4
<1>9. ColumnsOfNodeRow(n) = (NodeColumns(n) \o x) \o y BY <1>6
<1> HIDE DEF x, y, others, here, tied
<1>10. NodeColumns(n) \o x \in Seq(Int) /\ Len(NodeColumns(n) \o x) = Len(NodeColumns(n)) + Len(x)
  BY <1>5, <1>8, ConcatProperties
<1>11. /\ (NodeColumns(n) \o x) \o y \in Seq(Int)
       /\ Len((NodeColumns(n) \o x) \o y) = Len(NodeColumns(n) \o x) + Len(y)
  BY <1>8, <1>10, ConcatProperties
<1>12. Len(ColumnsOfNodeRow(n)) \in Nat BY <1>9, <1>11, LenProperties
<1>13. Len(ColumnsOfNodeRow(n)) = EntriesInRow(n) BY <1>5, <1>7, <1>8, <1>9, <1>10, <1>11
<1>14. QED BY <1>9, <1>11, <1>12, <1>13

-----------------------------------------------------------------------------
(* The invariant.  Rows have the lengths of what belongs into them, and lie  *)
(* one after the other, so what a thread writes stays within its own rows.   *)

Creating == {"rowPtrs", "systemColumns", "constraintColumns", "created"}
Pointed == Creating \ {"rowPtrs"}

CountedInv ==
    pc \in Creating =>
        /\ rowEntries \in [Rows -> Nat]
        /\ \A n \in Nodes : \A r \in RangeOf(n) :
              rowEntries[r] = Len(ColumnsOfNodeRow(n))
        /\ \A c \in Constraints : \A r \in ToSet(RowsOf(c)) :
              rowEntries[r] = Len(ColumnsOfConstraintRow(c))

PointersInv ==
    pc \in Pointed =>
        /\ rowPtrs \in [0 .. NumDofs -> Nat]
        /\ \A r \in Rows : rowPtrs[r + 1] = rowPtrs[r] + rowEntries[r]
        /\ \A r, s \in 0 .. NumDofs : r <= s => rowPtrs[r] <= rowPtrs[s]
        /\ DOMAIN colInds = 0 .. rowPtrs[NumDofs] - 1

NodeRowsHold(n) == \A r \in RangeOf(n) : RowColumns(r) = ColumnsOfNodeRow(n)
ConstraintRowsHold(c) ==
    \A r \in ToSet(RowsOf(c)) : RowColumns(r) = ColumnsOfConstraintRow(c)

FilledInv ==
    /\ pc = "systemColumns" => \A n \in filled : n \in Nodes /\ NodeRowsHold(n)
    /\ pc = "constraintColumns" =>
          /\ \A n \in Nodes : NodeRowsHold(n)
          /\ \A c \in filled : c \in Constraints /\ ConstraintRowsHold(c)

PatternInv == NumberingInv /\ CountedInv /\ PointersInv /\ FilledInv

-----------------------------------------------------------------------------
(* Rows of different nodes and constraints are different rows.               *)

LEMMA NumberedPhases ==
    ASSUME pc = "numbered" \/ pc \in Creating
    PROVE  pc \notin Uncounted /\ pc \notin Unscanned /\ pc \notin Untabled \cup {"size"}
           /\ pc # "scan" /\ pc # "start"
BY DEF Creating, Untabled, Unscanned, Uncounted, Unmerged, ThreadsMerge

LEMMA NodeRowsApart ==
    ASSUME FreedomAssumption, NumberingInv, pc = "numbered" \/ pc \in Creating
    PROVE  /\ numSystemDofs \in Nat
           /\ \A n \in Nodes : RangeOf(n) \subseteq 0 .. numSystemDofs - 1
           /\ \A m, n \in Nodes : \A r \in RangeOf(m) : r \in RangeOf(n) => m = n
           /\ \A r \in 0 .. numSystemDofs - 1 : \E n \in Nodes : r \in RangeOf(n)
<1> DEFINE last == NumNodes - 1
<1>1. last \in Nat /\ Nodes = 0 .. last BY DEF FreedomAssumption, Nodes
<1>2. numSystemDofs \in Nat /\ map[last] + dofs[last] = numSystemDofs
  BY NumberedPhases, SystemEnds
<1>3. /\ map[0] = 0
      /\ \A n \in 1 .. last : map[n] = map[n - 1] + dofs[n - 1]
      /\ \A m, n \in Nodes : m < n => map[m] + dofs[m] <= map[n]
  BY <1>1, NumberedPhases DEF NumberingInv, ScanInv
<1>4. \A n \in Nodes : map[n] \in Nat /\ dofs[n] \in Nat BY DEF NumberingInv, TypeOK
<1> HIDE DEF last
<1>5. \A n \in Nodes : map[n] + dofs[n] <= numSystemDofs
  <2> SUFFICES ASSUME NEW n \in Nodes PROVE map[n] + dofs[n] <= numSystemDofs OBVIOUS
  <2>1. last \in Nodes /\ (n = last \/ n < last) BY <1>1
  <2>2. CASE n = last BY <1>2, <2>2
  <2>3. CASE n < last
    <3>1. map[n] + dofs[n] <= map[last] BY <1>3, <2>1, <2>3
    <3>2. QED BY <1>2, <1>4, <2>1, <3>1
  <2>4. QED BY <2>1, <2>2, <2>3
<1>6. \A n \in Nodes : RangeOf(n) \subseteq 0 .. numSystemDofs - 1
  BY <1>2, <1>4, <1>5 DEF RangeOf
<1>7. ASSUME NEW m \in Nodes, NEW n \in Nodes, NEW r \in RangeOf(m), r \in RangeOf(n), m # n
      PROVE  FALSE
  <2>1. m < n \/ n < m BY <1>1, <1>7
  <2>2. map[m] + dofs[m] <= map[n] \/ map[n] + dofs[n] <= map[m] BY <1>3, <2>1
  <2>3. /\ r \in Int /\ map[m] <= r /\ r < map[m] + dofs[m]
        /\ map[n] <= r /\ r < map[n] + dofs[n]
    BY <1>4, <1>7 DEF RangeOf
  <2>4. QED BY <1>4, <2>2, <2>3
<1>8. ASSUME NEW r \in 0 .. numSystemDofs - 1 PROVE \E n \in Nodes : r \in RangeOf(n)
  <2> DEFINE Above == {n \in Nodes : r < map[n] + dofs[n]}
  <2>1. last \in Above BY <1>1, <1>2
  <2>2. PICK n \in Above : \A m \in Above : n <= m
    <3>1. Above \in SUBSET Nat BY <1>1
    <3> HIDE DEF Above
    <3>2. QED BY <2>1, <3>1, LeastOf
  <2>3. n \in Nodes /\ r < map[n] + dofs[n] BY <2>2
  <2>4. map[n] <= r
    <3>1. CASE n = 0 BY <1>3, <3>1
    <3>2. CASE n # 0
      <4> DEFINE m == n - 1
      <4>1. m \in Nodes /\ n \in 1 .. last /\ ~ (n <= m) BY <1>1, <2>3, <3>2
      <4>2. map[n] = map[m] + dofs[m] BY <1>3, <4>1
      <4> HIDE DEF m
      <4>3. ~ (r < map[m] + dofs[m]) BY <2>2, <4>1
      <4>4. map[m] \in Nat /\ dofs[m] \in Nat BY <1>4, <4>1
      <4>5. QED BY <4>2, <4>3, <4>4
    <3>3. QED BY <3>1, <3>2
  <2>5. map[n] \in Nat /\ dofs[n] \in Nat BY <1>4, <2>3
  <2>6. r \in RangeOf(n) BY <2>3, <2>4, <2>5 DEF RangeOf
  <2>7. QED BY <2>3, <2>6
<1>9. QED BY <1>2, <1>6, <1>7, <1>8

LEMMA ConstraintRowsApart ==
    ASSUME FreedomAssumption, numSystemDofs \in Nat
    PROVE  /\ NumDofs \in Nat /\ numSystemDofs <= NumDofs
           /\ \A c \in Constraints : ToSet(RowsOf(c)) \subseteq numSystemDofs .. NumDofs - 1
           /\ \A c, d \in Constraints : \A r \in ToSet(RowsOf(c)) :
                 r \in ToSet(RowsOf(d)) => c = d
<1> DEFINE end == NumConstraints + 1
<1>1. /\ end \in 1 .. end /\ Constraints \subseteq 1 .. end /\ end \in Nat
      /\ \A c \in Constraints : c + 1 \in 1 .. end /\ c + 1 <= end
  BY DEF FreedomAssumption, Constraints
<1>2. NumDofs = numSystemDofs + StartRow(end) BY DEF NumDofs
<1>3. /\ \A c \in 1 .. end : StartRow(c) \in Nat
      /\ \A c \in Constraints : StartRow(c + 1) = StartRow(c) + ConstraintRows[c]
      /\ \A c, d \in 1 .. end : c <= d => StartRow(c) <= StartRow(d)
  BY StartRows
<1> HIDE DEF end
<1>4. ASSUME NEW c \in Constraints, NEW r \in ToSet(RowsOf(c))
      PROVE  /\ r \in Int /\ numSystemDofs + StartRow(c) <= r
             /\ r < numSystemDofs + StartRow(c + 1)
             /\ StartRow(c) \in Nat /\ StartRow(c + 1) \in Nat
  <2>1. r \in numSystemDofs + StartRow(c) .. numSystemDofs + StartRow(c) + ConstraintRows[c] - 1
    BY RangeOfConstraint
  <2>2. StartRow(c) \in Nat /\ StartRow(c + 1) \in Nat BY <1>1, <1>3
  <2>3. StartRow(c + 1) = StartRow(c) + ConstraintRows[c] /\ ConstraintRows[c] \in Nat
    BY <1>3, RowsOfConstraints
  <2>4. QED BY <2>1, <2>2, <2>3
<1>5. ASSUME NEW c \in Constraints, NEW r \in ToSet(RowsOf(c))
      PROVE  r \in numSystemDofs .. NumDofs - 1
  <2>1. StartRow(c + 1) <= StartRow(end) BY <1>1, <1>3
  <2>2. StartRow(end) \in Nat BY <1>1, <1>3
  <2>3. QED BY <1>2, <1>4, <2>1, <2>2
<1>6. ASSUME NEW c \in Constraints, NEW d \in Constraints, NEW r \in ToSet(RowsOf(c)),
             r \in ToSet(RowsOf(d)), c < d
      PROVE  FALSE
  <2>1. c + 1 <= d /\ c + 1 \in 1 .. end /\ d \in 1 .. end
    BY <1>1, <1>6 DEF Constraints, FreedomAssumption
  <2>2. StartRow(c + 1) <= StartRow(d) BY <1>3, <2>1
  <2>3. r < numSystemDofs + StartRow(c + 1) /\ r \in Int /\ StartRow(c + 1) \in Nat BY <1>4
  <2>4. numSystemDofs + StartRow(d) <= r /\ StartRow(d) \in Nat BY <1>4, <1>6
  <2>5. QED BY <2>2, <2>3, <2>4
<1>7. ASSUME NEW c \in Constraints, NEW d \in Constraints, NEW r \in ToSet(RowsOf(c)),
             r \in ToSet(RowsOf(d))
      PROVE  c = d
  <2>1. c < d \/ d < c \/ c = d BY DEF Constraints, FreedomAssumption
  <2>2. QED BY <1>6, <1>7, <2>1
<1>8. NumDofs \in Nat /\ numSystemDofs <= NumDofs BY <1>1, <1>2, <1>3
<1>9. QED BY <1>5, <1>7, <1>8

LEMMA SlotOfRow ==
    ASSUME NEW start \in Nat, NEW length \in Nat, NEW end \in Nat, start + length <= end,
           NEW k \in 1 .. length, NEW slot, slot = start + k - 1
    PROVE  /\ slot \in Int /\ start <= slot /\ slot < start + length
           /\ slot \in 0 .. end - 1
OBVIOUS

LEMMA WithinRow ==
    ASSUME NEW start \in Nat, NEW length \in Nat, NEW slot \in Int
    PROVE  slot - start \in 0 .. length - 1 <=> start <= slot /\ slot < start + length
OBVIOUS

LEMMA SlotsApart ==
    ASSUME NEW start \in Nat, NEW other \in Nat, NEW length \in Nat, NEW slot \in Int,
           start <= slot, slot < other + length
    PROVE  ~ (other + length <= start)
OBVIOUS

\* Writing into rows changes these rows and no others.
LEMMA WrittenRows ==
    ASSUME NumDofs \in Nat, pc \in Pointed, CountedInv, PointersInv,
           NEW rows \in SUBSET Rows, NEW columns \in Seq(Int),
           \A r \in rows : rowEntries[r] = Len(columns),
           colInds' = Written(rows, columns), rowPtrs' = rowPtrs
    PROVE  /\ DOMAIN colInds' = DOMAIN colInds
           /\ \A r \in rows : RowColumns(r)' = columns
           /\ \A r \in Rows \ rows : RowColumns(r)' = RowColumns(r)
<1>1. /\ rowEntries \in [Rows -> Nat]
      /\ rowPtrs \in [0 .. NumDofs -> Nat]
      /\ \A r \in Rows : rowPtrs[r + 1] = rowPtrs[r] + rowEntries[r]
      /\ \A r, s \in 0 .. NumDofs : r <= s => rowPtrs[r] <= rowPtrs[s]
      /\ DOMAIN colInds = 0 .. rowPtrs[NumDofs] - 1
  BY DEF CountedInv, PointersInv, Pointed
<1>2. \A r \in Rows : /\ r \in 0 .. NumDofs /\ r + 1 \in 0 .. NumDofs
                      /\ rowPtrs[r] \in Nat /\ rowEntries[r] \in Nat /\ rowPtrs[r + 1] \in Nat
                      /\ rowPtrs[r] + rowEntries[r] <= rowPtrs[NumDofs]
  <2> SUFFICES ASSUME NEW r \in Rows
               PROVE  /\ r \in 0 .. NumDofs /\ r + 1 \in 0 .. NumDofs
                      /\ rowPtrs[r] \in Nat /\ rowEntries[r] \in Nat /\ rowPtrs[r + 1] \in Nat
                      /\ rowPtrs[r] + rowEntries[r] <= rowPtrs[NumDofs]
    OBVIOUS
  <2>1. /\ r \in 0 .. NumDofs /\ r + 1 \in 0 .. NumDofs
        /\ NumDofs \in 0 .. NumDofs /\ r + 1 <= NumDofs
    BY DEF Rows
  <2>2. rowPtrs[r] \in Nat /\ rowEntries[r] \in Nat /\ rowPtrs[r + 1] \in Nat
    BY <1>1, <2>1
  <2>3. rowPtrs[r + 1] <= rowPtrs[NumDofs] BY <1>1, <2>1
  <2>4. QED BY <1>1, <2>1, <2>2, <2>3
<1>3. ASSUME NEW r \in Rows, NEW s \in Rows, r < s
      PROVE  rowPtrs[r] + rowEntries[r] <= rowPtrs[s]
  <2>1. r + 1 \in 0 .. NumDofs /\ s \in 0 .. NumDofs /\ r + 1 <= s BY <1>3 DEF Rows
  <2>2. rowPtrs[r + 1] <= rowPtrs[s] BY <1>1, <2>1
  <2>3. QED BY <1>1, <2>2
<1> DEFINE hit(s) == {r \in rows : s - rowPtrs[r] \in 0 .. Len(columns) - 1}
<1>4. Len(columns) \in Nat /\ DOMAIN columns = 1 .. Len(columns) BY LenProperties
<1>5. ASSUME NEW r \in Rows, NEW k \in 1 .. rowEntries[r]
      PROVE  /\ rowPtrs[r] + k - 1 \in DOMAIN colInds
             /\ hit(rowPtrs[r] + k - 1) = IF r \in rows THEN {r} ELSE {}
  <2> DEFINE slot == rowPtrs[r] + k - 1
  <2>1. /\ rowPtrs[r] \in Nat /\ rowEntries[r] \in Nat
        /\ rowPtrs[r] + rowEntries[r] <= rowPtrs[NumDofs] /\ rowPtrs[NumDofs] \in Nat
    <3>1. NumDofs \in 0 .. NumDofs OBVIOUS
    <3>2. QED BY <1>1, <1>2, <3>1
  <2>2. /\ slot \in Int /\ rowPtrs[r] <= slot /\ slot < rowPtrs[r] + rowEntries[r]
        /\ slot \in 0 .. rowPtrs[NumDofs] - 1
    <3>1. slot = rowPtrs[r] + k - 1 OBVIOUS
    <3> HIDE DEF slot
    <3>2. QED BY <2>1, <3>1, SlotOfRow
  <2> HIDE DEF slot
  <2>3. ASSUME NEW q \in hit(slot) PROVE q = r
    <3>1. q \in rows /\ q \in Rows /\ slot - rowPtrs[q] \in 0 .. Len(columns) - 1 OBVIOUS
    <3> HIDE DEF hit
    <3>2. rowEntries[q] = Len(columns) /\ rowPtrs[q] \in Nat BY <1>2, <3>1
    <3>3. rowPtrs[q] <= slot /\ slot < rowPtrs[q] + rowEntries[q]
      BY <1>4, <2>2, <3>1, <3>2, WithinRow
    <3>4. r \in Int /\ q \in Int BY <3>1 DEF Rows
    <3>5. ~ (q < r)
      <4>1. q < r => rowPtrs[q] + rowEntries[q] <= rowPtrs[r] BY <1>3, <3>1
      <4>2. ~ (rowPtrs[q] + rowEntries[q] <= rowPtrs[r])
        BY <1>4, <2>1, <2>2, <3>2, <3>3, SlotsApart
      <4>3. QED BY <4>1, <4>2
    <3>6. ~ (r < q)
      <4>1. r < q => rowPtrs[r] + rowEntries[r] <= rowPtrs[q] BY <1>3, <3>1
      <4>2. ~ (rowPtrs[r] + rowEntries[r] <= rowPtrs[q])
        BY <2>1, <2>2, <3>2, <3>3, SlotsApart
      <4>3. QED BY <4>1, <4>2
    <3>7. QED BY <3>4, <3>5, <3>6
  <2>4. ASSUME r \in rows PROVE r \in hit(slot)
    <3>1. rowEntries[r] = Len(columns) BY <2>4
    <3>2. slot - rowPtrs[r] \in 0 .. Len(columns) - 1 BY <2>1, <2>2, <3>1, WithinRow
    <3>3. QED BY <2>4, <3>2
  <2>5. hit(slot) \subseteq rows OBVIOUS
  <2> HIDE DEF hit
  <2>6. hit(slot) = IF r \in rows THEN {r} ELSE {} BY <2>3, <2>4, <2>5
  <2>7. QED BY <1>1, <2>2, <2>6 DEF slot
<1>6. colInds' = [s \in DOMAIN colInds |->
                    IF hit(s) = {} THEN colInds[s] ELSE columns[s - rowPtrs[Max(hit(s))] + 1]]
  BY Zenon DEF Written
<1>7. DOMAIN colInds' = DOMAIN colInds BY <1>6
<1>8. \A r \in Rows : rowPtrs[r + 1] - rowPtrs[r] = rowEntries[r] BY <1>1, <1>2
<1>9. ASSUME NEW r \in rows PROVE RowColumns(r)' = columns
  <2>1. r \in Rows /\ rowEntries[r] = Len(columns) OBVIOUS
  <2>2. ASSUME NEW k \in 1 .. Len(columns)
        PROVE  colInds'[rowPtrs[r] + k - 1] = columns[k]
    <3> DEFINE slot == rowPtrs[r] + k - 1
    <3>1. slot \in DOMAIN colInds /\ hit(slot) = {r} BY <1>5, <2>1
    <3>2. Max({r}) = r
      <4>1. r \in Int BY <2>1 DEF Rows
      <4>2. QED BY <4>1 DEF Max
    <3>3. slot - rowPtrs[r] + 1 = k
      <4>1. rowPtrs[r] \in Nat BY <1>2, <2>1
      <4>2. QED BY <1>4, <4>1
    <3> HIDE DEF slot, hit
    <3>4. colInds'[slot] = columns[slot - rowPtrs[Max(hit(slot))] + 1] BY <1>6, <3>1
    <3>5. colInds'[slot] = columns[k] BY <3>1, <3>2, <3>3, <3>4
    <3>6. QED BY <3>5 DEF slot
  <2>3. RowColumns(r)' = [k \in 1 .. Len(columns) |-> colInds'[rowPtrs[r] + k - 1]]
    BY <1>8, <2>1 DEF RowColumns
  <2>4. RowColumns(r)' = [k \in 1 .. Len(columns) |-> columns[k]] BY <2>2, <2>3
  <2>5. columns = [k \in 1 .. Len(columns) |-> columns[k]] BY LenProperties
  <2>6. QED BY <2>4, <2>5
<1>10. ASSUME NEW r \in Rows \ rows PROVE RowColumns(r)' = RowColumns(r)
  <2>1. ASSUME NEW k \in 1 .. rowEntries[r]
        PROVE  colInds'[rowPtrs[r] + k - 1] = colInds[rowPtrs[r] + k - 1]
    <3> DEFINE slot == rowPtrs[r] + k - 1
    <3>1. slot \in DOMAIN colInds /\ hit(slot) = {} BY <1>5
    <3> HIDE DEF slot, hit
    <3>2. colInds'[slot] = colInds[slot] BY <1>6, <3>1
    <3>3. QED BY <3>2 DEF slot
  <2>2. RowColumns(r)' = [k \in 1 .. rowEntries[r] |-> colInds'[rowPtrs[r] + k - 1]]
    BY <1>8 DEF RowColumns
  <2>3. RowColumns(r) = [k \in 1 .. rowEntries[r] |-> colInds[rowPtrs[r] + k - 1]]
    BY <1>8 DEF RowColumns
  <2>4. QED BY <2>1, <2>2, <2>3
<1>11. QED BY <1>7, <1>9, <1>10

-----------------------------------------------------------------------------
(* The invariant is kept. *)

\* What belongs into a row depends on nothing that is created.
LEMMA ContentsStay ==
    ASSUME UNCHANGED <<mesh, threads, nodeTables, userTables>>
    PROVE  /\ NumDofs' = NumDofs /\ Rows' = Rows
           /\ \A n : RangeOf(n)' = RangeOf(n) /\ ColumnsOfNodeRow(n)' = ColumnsOfNodeRow(n)
           /\ \A c : RowsOf(c)' = RowsOf(c)
                     /\ ColumnsOfConstraintRow(c)' = ColumnsOfConstraintRow(c)
<1>1. /\ elems' = elems /\ cons' = cons /\ dofs' = dofs /\ map' = map
      /\ targetTable' = targetTable /\ baseTable' = baseTable /\ numSystemDofs' = numSystemDofs
  BY DEF mesh, nodeTables, userTables
<1>2. ConstraintRows' = ConstraintRows BY <1>1 DEF ConstraintRows
<1>3. \A c : StartRow(c)' = StartRow(c) BY <1>2 DEF StartRow
<1>4. NumDofs' = NumDofs /\ Rows' = Rows BY <1>1, <1>3 DEF NumDofs, Rows
<1>5. \A n : RangeOf(n)' = RangeOf(n) BY <1>1 DEF RangeOf
<1>6. \A c : RowsOf(c)' = RowsOf(c) BY <1>1, <1>3 DEF RowsOf
<1>7. \A c : ColumnsOfConstraintRow(c)' = ColumnsOfConstraintRow(c)
  BY <1>1 DEF ColumnsOfConstraintRow, TargetActiveDofs, BaseActiveDofs
<1>8. \A n : NodeColumns(n)' = NodeColumns(n) BY <1>1 DEF NodeColumns
<1>9. \A e, n : ElementContainsNode(e, n)' <=> ElementContainsNode(e, n)
  BY <1>1 DEF ElementContainsNode
<1>10. \A c, first : ConstraintContainsNode(c, first)' <=> ConstraintContainsNode(c, first)
  BY <1>1 DEF ConstraintContainsNode, BaseContainsNode, TargetContainsNode,
              BaseActiveDofs, TargetActiveDofs
<1>11. ASSUME NEW e, NEW n PROVE ColumnsInElement(e, n)' = ColumnsInElement(e, n)
  <2> DEFINE parts == [k \in DOMAIN elems[e].nodes |->
                         IF elems[e].nodes[k] = n THEN <<>>
                         ELSE NodeColumns(elems[e].nodes[k])]
  <2>1. parts' = parts BY <1>1, <1>8
  <2>2. ColumnsInElement(e, n) = FlattenSeq(parts) BY Zenon DEF ColumnsInElement
  <2>3. ColumnsInElement(e, n)' = FlattenSeq(parts') BY Zenon DEF ColumnsInElement
  <2> HIDE DEF parts
  <2>4. QED BY <2>1, <2>2, <2>3
<1>12. ASSUME NEW n PROVE ColumnsOfNodeRow(n)' = ColumnsOfNodeRow(n)
  <2> DEFINE ofElements ==
               [e \in Elements |-> IF ElementContainsNode(e, n)
                                   THEN ColumnsInElement(e, n) ELSE <<>>]
             ofConstraints ==
               [c \in Constraints |-> IF ConstraintContainsNode(c, map[n])
                                      THEN TransposeColumns(c) ELSE <<>>]
  <2>1. ofElements' = ofElements BY <1>9, <1>11
  <2>2. ofConstraints' = ofConstraints BY <1>1, <1>6, <1>10 DEF TransposeColumns
  <2>3. ColumnsOfNodeRow(n) = NodeColumns(n) \o FlattenSeq(ofElements) \o FlattenSeq(ofConstraints)
    BY Zenon DEF ColumnsOfNodeRow
  <2>4. ColumnsOfNodeRow(n)' =
          NodeColumns(n)' \o FlattenSeq(ofElements') \o FlattenSeq(ofConstraints')
    BY Zenon DEF ColumnsOfNodeRow
  <2> HIDE DEF ofElements, ofConstraints
  <2>5. QED BY <1>8, <2>1, <2>2, <2>3, <2>4
<1>13. QED BY <1>4, <1>5, <1>6, <1>7, <1>12

LEMMA CreationKeepsNumbering ==
    ASSUME NumberingInv, pc = "numbered" \/ pc \in Creating, pc' \in Creating,
           UNCHANGED <<mesh, threads, nodeTables, userTables>>
    PROVE  NumberingInv'
<1>1. /\ elems' = elems /\ cons' = cons /\ merged' = merged /\ consMerged' = consMerged
      /\ alloc' = alloc /\ dofs' = dofs /\ map' = map /\ scanned' = scanned
      /\ elemTable' = elemTable /\ targetTable' = targetTable /\ baseTable' = baseTable
      /\ numSystemDofs' = numSystemDofs
  BY DEF mesh, threads, nodeTables, userTables
<1>2. pc \notin Unscanned /\ pc' \notin Unscanned /\ pc \notin Untabled \cup {"size"}
  BY DEF Creating, Untabled, Unscanned, Uncounted, Unmerged, ThreadsMerge
<1>3. ThreadsInv' /\ MergedInv' /\ ScanInv' BY <1>2, AfterScan
<1>4. TypeOK' BY <1>1 DEF NumberingInv, TypeOK
<1>5. TablesInv' BY <1>1, <1>2, TablesUnchanged DEF NumberingInv
<1>6. SizeInv' BY <1>1, <1>2 DEF NumberingInv, SizeInv
<1>7. QED BY <1>3, <1>4, <1>5, <1>6 DEF NumberingInv

LEMMA InitPatternInv ==
    ASSUME FreedomAssumption, TypesAssumption, PatternInit PROVE PatternInv
<1>1. NumberingInv /\ pc = "start" BY InitNumbering DEF PatternInit, Init
<1>2. pc \notin Creating BY <1>1 DEF Creating
<1>3. QED BY <1>1, <1>2 DEF PatternInv, CountedInv, PointersInv, FilledInv, Creating, Pointed

\* While the numbering goes on nothing has been created.
LEMMA NumberingCreatesNothing ==
    ASSUME FreedomAssumption, NumberingInv, Numbering PROVE pc' \notin Creating
<1>1. \A e \in Elements : elems[e].kind \in {"beams", "masses", "springs"}
  BY ShapeOfElement DEF NumberingInv, TypeOK
<1>2. QED
  BY <1>1 DEF Numbering, ClearTable, MergeElement, MergeConstraint, NextKernel,
              ComputeActiveDofs, ScanNode, CreateElementTable, CreateConstraintTable,
              ComputeNumSystemDofs, Creating

LEMMA NumberingStep ==
    ASSUME FreedomAssumption, TypesAssumption, PatternInv, Numbering
    PROVE  PatternInv'
<1>1. NumberingInv' BY NumberingKeepsInv DEF PatternInv
<1>2. pc' \notin Creating BY NumberingCreatesNothing DEF PatternInv
<1>3. QED BY <1>1, <1>2 DEF PatternInv, CountedInv, PointersInv, FilledInv, Creating, Pointed

LEMMA ComputeRowEntriesStep ==
    ASSUME FreedomAssumption, TypesAssumption, PatternInv, ComputeRowEntries
    PROVE  PatternInv'
<1>1. /\ pc = "numbered" /\ pc' = "rowPtrs"
      /\ UNCHANGED <<mesh, threads, nodeTables, userTables>>
      /\ rowEntries' =
           [r \in Rows |->
              IF r < numSystemDofs
              THEN EntriesInRow(NodeOfRow(r))
              ELSE BaseActiveDofs(ConstraintOfRow(r)) + TargetActiveDofs(ConstraintOfRow(r))]
  BY DEF ComputeRowEntries
<1>2. NumberingInv BY DEF PatternInv
<1>3. NumberingInv' BY <1>1, <1>2, CreationKeepsNumbering DEF Creating
<1>4. /\ numSystemDofs \in Nat
      /\ \A n \in Nodes : RangeOf(n) \subseteq 0 .. numSystemDofs - 1
      /\ \A m, n \in Nodes : \A r \in RangeOf(m) : r \in RangeOf(n) => m = n
      /\ \A r \in 0 .. numSystemDofs - 1 : \E n \in Nodes : r \in RangeOf(n)
  BY <1>1, <1>2, NodeRowsApart
<1>5. /\ NumDofs \in Nat /\ numSystemDofs <= NumDofs
      /\ \A c \in Constraints : ToSet(RowsOf(c)) \subseteq numSystemDofs .. NumDofs - 1
      /\ \A c, d \in Constraints : \A r \in ToSet(RowsOf(c)) : r \in ToSet(RowsOf(d)) => c = d
  BY <1>4, ConstraintRowsApart
<1>6. ASSUME NEW r \in 0 .. numSystemDofs - 1
      PROVE  NodeOfRow(r) \in Nodes /\ r \in RangeOf(NodeOfRow(r))
  BY <1>4 DEF NodeOfRow
<1>7. ASSUME NEW n \in Nodes, NEW r \in RangeOf(n)
      PROVE  rowEntries'[r] = Len(ColumnsOfNodeRow(n))
  <2>1. r \in 0 .. numSystemDofs - 1 /\ r \in Rows /\ r < numSystemDofs
    BY <1>4, <1>5 DEF Rows
  <2>2. NodeOfRow(r) = n BY <1>4, <1>6, <2>1
  <2>3. rowEntries'[r] = EntriesInRow(n) BY <1>1, <2>1, <2>2
  <2>4. QED BY <1>2, <1>4, <2>3, NodeRowLength
<1>8. ASSUME NEW c \in Constraints, NEW r \in ToSet(RowsOf(c))
      PROVE  rowEntries'[r] = Len(ColumnsOfConstraintRow(c))
  <2>1. r \in Rows /\ ~ (r < numSystemDofs) BY <1>4, <1>5 DEF Rows
  <2>2. \A d : (\E k \in DOMAIN RowsOf(d) : RowsOf(d)[k] = r) <=> r \in ToSet(RowsOf(d))
    BY DEF ToSet
  <2>3. ConstraintOfRow(r) = c BY <1>5, <2>2 DEF ConstraintOfRow
  <2>4. rowEntries'[r] = BaseActiveDofs(c) + TargetActiveDofs(c) BY <1>1, <2>1, <2>3
  <2>5. QED BY <1>2, <2>4, ConstraintRowLength
<1>9. rowEntries' \in [Rows -> Nat]
  <2>1. \A c : BaseActiveDofs(c) \in Nat /\ TargetActiveDofs(c) \in Nat
    BY DEF BaseActiveDofs, TargetActiveDofs, CountActiveDofs, FreedomAssumption
  <2>2. \A r \in Rows : r < numSystemDofs => EntriesInRow(NodeOfRow(r)) \in Nat
    BY <1>2, <1>4, <1>5, <1>6, NodeRowLength DEF Rows
  <2>3. QED BY <1>1, <2>1, <2>2
<1>10. CountedInv'
  <2>1. Rows' = Rows /\ (\A n : RangeOf(n)' = RangeOf(n)) /\ (\A c : RowsOf(c)' = RowsOf(c))
        /\ (\A n : ColumnsOfNodeRow(n)' = ColumnsOfNodeRow(n))
        /\ (\A c : ColumnsOfConstraintRow(c)' = ColumnsOfConstraintRow(c))
    BY <1>1, ContentsStay
  <2>2. QED BY <1>7, <1>8, <1>9, <2>1 DEF CountedInv
<1>11. PointersInv' /\ FilledInv' BY <1>1 DEF PointersInv, FilledInv, Pointed
<1>12. QED BY <1>3, <1>10, <1>11 DEF PatternInv

LEMMA ScanRowEntriesStep ==
    ASSUME FreedomAssumption, TypesAssumption, PatternInv, ScanRowEntries
    PROVE  PatternInv'
<1>1. /\ pc = "rowPtrs" /\ pc' = "systemColumns" /\ filled' = {} /\ rowEntries' = rowEntries
      /\ UNCHANGED <<mesh, threads, nodeTables, userTables>>
      /\ rowPtrs' = [r \in 0 .. NumDofs |-> SumOf(rowEntries, 0 .. r - 1)]
      /\ colInds' = [s \in 0 .. rowPtrs'[NumDofs] - 1 |-> Unset]
  BY DEF ScanRowEntries
<1>2. NumberingInv /\ CountedInv BY DEF PatternInv
<1>3. NumberingInv' BY <1>1, <1>2, CreationKeepsNumbering DEF Creating
<1>4. NumDofs \in Nat /\ Rows = 0 .. NumDofs - 1
  <2>1. numSystemDofs \in Nat BY <1>1, <1>2, NodeRowsApart DEF Creating
  <2>2. QED BY <2>1, ConstraintRowsApart DEF Rows
<1>5. \A r \in Rows : rowEntries[r] \in Nat BY <1>1, <1>2 DEF CountedInv, Creating
<1>6. /\ Rows' = Rows /\ NumDofs' = NumDofs
      /\ (\A n : RangeOf(n)' = RangeOf(n)) /\ (\A c : RowsOf(c)' = RowsOf(c))
      /\ (\A n : ColumnsOfNodeRow(n)' = ColumnsOfNodeRow(n))
      /\ (\A c : ColumnsOfConstraintRow(c)' = ColumnsOfConstraintRow(c))
  BY <1>1, ContentsStay
<1>7. CountedInv' BY <1>1, <1>2, <1>6 DEF CountedInv, Creating
<1>8. \A r \in 0 .. NumDofs : rowPtrs'[r] \in Nat
  <2> SUFFICES ASSUME NEW r \in 0 .. NumDofs PROVE rowPtrs'[r] \in Nat OBVIOUS
  <2> DEFINE first == 0 .. r - 1
  <2>1. IsFiniteSet(first) BY FS_Interval
  <2>2. \A i \in first : rowEntries[i] \in Int /\ rowEntries[i] >= 0 BY <1>4, <1>5
  <2>3. rowPtrs'[r] = SumOf(rowEntries, first) BY <1>1
  <2> HIDE DEF first
  <2>4. SumOf(rowEntries, first) \in Int /\ SumOf(rowEntries, first) >= 0
    BY <2>1, <2>2, SumType
  <2>5. QED BY <2>3, <2>4
<1>9. \A r \in Rows : rowPtrs'[r + 1] = rowPtrs'[r] + rowEntries[r]
  <2> SUFFICES ASSUME NEW r \in Rows PROVE rowPtrs'[r + 1] = rowPtrs'[r] + rowEntries[r]
    OBVIOUS
  <2>1. r \in Nat /\ r \in 0 .. NumDofs /\ r + 1 \in 0 .. NumDofs /\ r + 1 - 1 = r BY <1>4
  <2>2. \A i \in 0 .. r : rowEntries[i] \in Int BY <1>4, <1>5
  <2>3. SumOf(rowEntries, 0 .. r) = SumOf(rowEntries, 0 .. r - 1) + rowEntries[r]
    BY <2>1, <2>2, SumOfNext
  <2>4. rowPtrs'[r] = SumOf(rowEntries, 0 .. r - 1) BY <1>1, <2>1
  <2>5. rowPtrs'[r + 1] = SumOf(rowEntries, 0 .. r) BY <1>1, <2>1
  <2>6. QED BY <2>3, <2>4, <2>5
<1>10. \A r, s \in 0 .. NumDofs : r <= s => rowPtrs'[r] <= rowPtrs'[s]
  <2> SUFFICES ASSUME NEW r \in 0 .. NumDofs
               PROVE  \A s \in 0 .. NumDofs : r <= s => rowPtrs'[r] <= rowPtrs'[s]
    OBVIOUS
  <2> DEFINE Bad == {s \in 0 .. NumDofs : r <= s /\ ~ (rowPtrs'[r] <= rowPtrs'[s])}
  <2> SUFFICES ASSUME Bad # {} PROVE FALSE OBVIOUS
  <2>1. PICK s \in Bad : \A x \in Bad : s <= x
    <3>1. Bad \in SUBSET Nat BY <1>4
    <3> HIDE DEF Bad
    <3>2. QED BY <3>1, LeastOf
  <2>2. s \in 0 .. NumDofs /\ r <= s /\ ~ (rowPtrs'[r] <= rowPtrs'[s]) BY <2>1
  <2>3. r # s
    <3>1. rowPtrs'[r] <= rowPtrs'[r] BY <1>8
    <3>2. QED BY <2>2, <3>1
  <2> DEFINE q == s - 1
  <2>4. q \in Rows /\ q \in 0 .. NumDofs /\ r <= q /\ ~ (s <= q) /\ q + 1 = s
    BY <1>4, <2>2, <2>3
  <2> HIDE DEF q
  <2>5. q \notin Bad BY <2>1, <2>4
  <2>6. rowPtrs'[r] <= rowPtrs'[q] BY <2>4, <2>5
  <2>7. rowPtrs'[s] = rowPtrs'[q] + rowEntries[q] BY <1>9, <2>4
  <2>8. rowPtrs'[r] \in Nat /\ rowPtrs'[q] \in Nat /\ rowEntries[q] \in Nat
    BY <1>5, <1>8, <2>4
  <2>9. rowPtrs'[r] <= rowPtrs'[s] BY <2>6, <2>7, <2>8
  <2>10. QED BY <2>2, <2>9
<1>11. PointersInv'
  <2>1. DOMAIN colInds' = 0 .. rowPtrs'[NumDofs] - 1 BY <1>1
  <2>2. rowPtrs' \in [0 .. NumDofs -> Nat] BY <1>1, <1>8
  <2>3. QED BY <1>1, <1>6, <1>9, <1>10, <2>1, <2>2 DEF PointersInv
<1>12. FilledInv' BY <1>1 DEF FilledInv
<1>13. QED BY <1>3, <1>7, <1>11, <1>12 DEF PatternInv

\* What the threads that fill rows have in common.
LEMMA FillingStep ==
    ASSUME FreedomAssumption, TypesAssumption, PatternInv, pc \in Pointed, pc' \in Pointed,
           UNCHANGED <<mesh, threads, nodeTables, userTables, rowEntries, rowPtrs>>,
           DOMAIN colInds' = DOMAIN colInds
    PROVE  NumberingInv' /\ CountedInv' /\ PointersInv'
<1>1. /\ UNCHANGED <<mesh, threads, nodeTables, userTables>> /\ rowEntries' = rowEntries
      /\ rowPtrs' = rowPtrs /\ pc \in Creating /\ pc' \in Creating
  BY DEF Pointed
<1>2. NumberingInv' BY <1>1, CreationKeepsNumbering DEF PatternInv
<1>3. /\ Rows' = Rows /\ NumDofs' = NumDofs
      /\ (\A n : RangeOf(n)' = RangeOf(n)) /\ (\A c : RowsOf(c)' = RowsOf(c))
      /\ (\A n : ColumnsOfNodeRow(n)' = ColumnsOfNodeRow(n))
      /\ (\A c : ColumnsOfConstraintRow(c)' = ColumnsOfConstraintRow(c))
  BY <1>1, ContentsStay
<1>4. CountedInv' BY <1>1, <1>3 DEF PatternInv, CountedInv
<1>5. PointersInv' BY <1>1, <1>3 DEF PatternInv, PointersInv
<1>6. QED BY <1>2, <1>4, <1>5

LEMMA FillNodeRowsStep ==
    ASSUME FreedomAssumption, TypesAssumption, PatternInv, NEW n \in Nodes, FillNodeRows(n)
    PROVE  PatternInv'
<1>1. /\ pc = "systemColumns" /\ pc' = pc /\ filled' = filled \cup {n}
      /\ colInds' = Written(RangeOf(n), ColumnsOfNodeRow(n))
      /\ UNCHANGED <<mesh, threads, nodeTables, userTables, rowEntries, rowPtrs>>
  BY DEF FillNodeRows
<1>2. NumberingInv /\ CountedInv /\ PointersInv /\ FilledInv BY DEF PatternInv
<1>3. pc \in Pointed /\ pc \in Creating BY <1>1 DEF Pointed, Creating
<1>4. /\ numSystemDofs \in Nat
      /\ \A m \in Nodes : RangeOf(m) \subseteq 0 .. numSystemDofs - 1
      /\ \A m \in Nodes : \A r \in RangeOf(m) : r \in RangeOf(n) => m = n
  BY <1>2, <1>3, NodeRowsApart
<1>5. NumDofs \in Nat /\ numSystemDofs <= NumDofs BY <1>4, ConstraintRowsApart
<1>6. \A m \in Nodes : RangeOf(m) \in SUBSET Rows BY <1>4, <1>5 DEF Rows
<1>7. ColumnsOfNodeRow(n) \in Seq(Int) BY <1>2, <1>4, NodeRowLength
<1>8. \A r \in RangeOf(n) : rowEntries[r] = Len(ColumnsOfNodeRow(n))
  BY <1>2, <1>3 DEF CountedInv
<1>9. /\ DOMAIN colInds' = DOMAIN colInds
      /\ \A r \in RangeOf(n) : RowColumns(r)' = ColumnsOfNodeRow(n)
      /\ \A r \in Rows \ RangeOf(n) : RowColumns(r)' = RowColumns(r)
  BY <1>1, <1>2, <1>3, <1>5, <1>6, <1>7, <1>8, WrittenRows
<1>10. NumberingInv' /\ CountedInv' /\ PointersInv' BY <1>1, <1>3, <1>9, FillingStep
<1>11. \A m : RangeOf(m)' = RangeOf(m) /\ ColumnsOfNodeRow(m)' = ColumnsOfNodeRow(m)
  BY <1>1, ContentsStay
<1>12. NodeRowsHold(n)' BY <1>9, <1>11 DEF NodeRowsHold
<1>13. ASSUME NEW m \in filled, m # n PROVE m \in Nodes /\ NodeRowsHold(m)'
  <2>1. m \in Nodes /\ NodeRowsHold(m) BY <1>1, <1>2 DEF FilledInv
  <2>2. \A r \in RangeOf(m) : r \in Rows \ RangeOf(n) BY <1>4, <1>6, <1>13, <2>1
  <2>3. \A r \in RangeOf(m) : RowColumns(r)' = RowColumns(r) BY <1>9, <2>2
  <2>4. QED BY <1>11, <2>1, <2>3 DEF NodeRowsHold
<1>14. FilledInv' BY <1>1, <1>12, <1>13 DEF FilledInv
<1>15. QED BY <1>10, <1>14 DEF PatternInv

LEMMA SystemColumnsDoneStep ==
    ASSUME FreedomAssumption, TypesAssumption, PatternInv, SystemColumnsDone
    PROVE  PatternInv'
<1>1. /\ pc = "systemColumns" /\ pc' = "constraintColumns" /\ filled = Nodes /\ filled' = {}
      /\ colInds' = colInds
      /\ UNCHANGED <<mesh, threads, nodeTables, userTables, rowEntries, rowPtrs>>
  BY DEF SystemColumnsDone
<1>2. NumberingInv' /\ CountedInv' /\ PointersInv' BY <1>1, FillingStep DEF Pointed, Creating
<1>3. \A n \in Nodes : NodeRowsHold(n) BY <1>1 DEF PatternInv, FilledInv
<1>4. \A n : RangeOf(n)' = RangeOf(n) /\ ColumnsOfNodeRow(n)' = ColumnsOfNodeRow(n)
  BY <1>1, ContentsStay
<1>5. \A r : RowColumns(r)' = RowColumns(r) BY <1>1 DEF RowColumns
<1>6. \A n \in Nodes : NodeRowsHold(n)' BY <1>3, <1>4, <1>5 DEF NodeRowsHold
<1>7. FilledInv' BY <1>1, <1>6 DEF FilledInv
<1>8. QED BY <1>2, <1>7 DEF PatternInv

LEMMA FillConstraintRowsStep ==
    ASSUME FreedomAssumption, TypesAssumption, PatternInv, NEW c \in Constraints,
           FillConstraintRows(c)
    PROVE  PatternInv'
<1>1. /\ pc = "constraintColumns" /\ pc' = pc /\ filled' = filled \cup {c}
      /\ colInds' = Written(ToSet(RowsOf(c)), ColumnsOfConstraintRow(c))
      /\ UNCHANGED <<mesh, threads, nodeTables, userTables, rowEntries, rowPtrs>>
  BY DEF FillConstraintRows
<1>2. NumberingInv /\ CountedInv /\ PointersInv /\ FilledInv BY DEF PatternInv
<1>3. pc \in Pointed /\ pc \in Creating BY <1>1 DEF Pointed, Creating
<1>4. numSystemDofs \in Nat /\ \A n \in Nodes : RangeOf(n) \subseteq 0 .. numSystemDofs - 1
  BY <1>2, <1>3, NodeRowsApart
<1>5. /\ NumDofs \in Nat /\ numSystemDofs <= NumDofs
      /\ \A d \in Constraints : ToSet(RowsOf(d)) \subseteq numSystemDofs .. NumDofs - 1
      /\ \A d \in Constraints : \A r \in ToSet(RowsOf(d)) : r \in ToSet(RowsOf(c)) => d = c
  BY <1>4, ConstraintRowsApart
<1>6. \A d \in Constraints : ToSet(RowsOf(d)) \in SUBSET Rows BY <1>4, <1>5 DEF Rows
<1>7. ColumnsOfConstraintRow(c) \in Seq(Int) BY <1>2, ConstraintRowLength
<1>8. \A r \in ToSet(RowsOf(c)) : rowEntries[r] = Len(ColumnsOfConstraintRow(c))
  BY <1>2, <1>3 DEF CountedInv
<1>9. /\ DOMAIN colInds' = DOMAIN colInds
      /\ \A r \in ToSet(RowsOf(c)) : RowColumns(r)' = ColumnsOfConstraintRow(c)
      /\ \A r \in Rows \ ToSet(RowsOf(c)) : RowColumns(r)' = RowColumns(r)
  BY <1>1, <1>2, <1>3, <1>5, <1>6, <1>7, <1>8, WrittenRows
<1>10. NumberingInv' /\ CountedInv' /\ PointersInv' BY <1>1, <1>3, <1>9, FillingStep
<1>11. /\ \A n : RangeOf(n)' = RangeOf(n) /\ ColumnsOfNodeRow(n)' = ColumnsOfNodeRow(n)
       /\ \A d : RowsOf(d)' = RowsOf(d) /\ ColumnsOfConstraintRow(d)' = ColumnsOfConstraintRow(d)
  BY <1>1, ContentsStay
<1>12. ConstraintRowsHold(c)' BY <1>9, <1>11 DEF ConstraintRowsHold
<1>13. ASSUME NEW n \in Nodes PROVE NodeRowsHold(n)'
  <2>1. NodeRowsHold(n) BY <1>1, <1>2 DEF FilledInv
  <2>2. \A r \in RangeOf(n) : r \in Rows \ ToSet(RowsOf(c))
    <3> SUFFICES ASSUME NEW r \in RangeOf(n) PROVE r \in Rows \ ToSet(RowsOf(c)) OBVIOUS
    <3>1. r \in 0 .. numSystemDofs - 1 BY <1>4
    <3>2. r \in Rows /\ r \notin numSystemDofs .. NumDofs - 1 BY <1>4, <1>5, <3>1 DEF Rows
    <3>3. QED BY <1>5, <3>2
  <2>3. \A r \in RangeOf(n) : RowColumns(r)' = RowColumns(r) BY <1>9, <2>2
  <2>4. QED BY <1>11, <2>1, <2>3 DEF NodeRowsHold
<1>14. ASSUME NEW d \in filled, d # c PROVE d \in Constraints /\ ConstraintRowsHold(d)'
  <2>1. d \in Constraints /\ ConstraintRowsHold(d) BY <1>1, <1>2 DEF FilledInv
  <2>2. \A r \in ToSet(RowsOf(d)) : r \in Rows \ ToSet(RowsOf(c)) BY <1>5, <1>6, <1>14, <2>1
  <2>3. \A r \in ToSet(RowsOf(d)) : RowColumns(r)' = RowColumns(r) BY <1>9, <2>2
  <2>4. QED BY <1>11, <2>1, <2>3 DEF ConstraintRowsHold
<1>15. FilledInv' BY <1>1, <1>12, <1>13, <1>14 DEF FilledInv
<1>16. QED BY <1>10, <1>15 DEF PatternInv

LEMMA SortRowsStep ==
    ASSUME FreedomAssumption, TypesAssumption, PatternInv, SortRows
    PROVE  PatternInv'
<1>1. /\ pc = "constraintColumns" /\ pc' = "created" /\ DOMAIN colInds' = DOMAIN colInds
      /\ UNCHANGED <<mesh, threads, nodeTables, userTables, rowEntries, rowPtrs>>
  BY DEF SortRows
<1>2. NumberingInv' /\ CountedInv' /\ PointersInv' BY <1>1, FillingStep DEF Pointed, Creating
<1>3. FilledInv' BY <1>1 DEF FilledInv
<1>4. QED BY <1>2, <1>3 DEF PatternInv

LEMMA StutteringStep ==
    ASSUME FreedomAssumption, TypesAssumption, PatternInv, UNCHANGED vars
    PROVE  PatternInv'
<1>1. /\ UNCHANGED freedomVars /\ UNCHANGED <<mesh, threads, nodeTables, userTables>>
      /\ pc' = pc /\ rowEntries' = rowEntries /\ rowPtrs' = rowPtrs
      /\ colInds' = colInds /\ filled' = filled
  BY DEF vars, patternVars, freedomVars
<1>2. NumberingInv' BY <1>1, NumberingKeepsInv DEF PatternInv
<1>3. /\ Rows' = Rows /\ NumDofs' = NumDofs
      /\ (\A n : RangeOf(n)' = RangeOf(n)) /\ (\A c : RowsOf(c)' = RowsOf(c))
      /\ (\A n : ColumnsOfNodeRow(n)' = ColumnsOfNodeRow(n))
      /\ (\A c : ColumnsOfConstraintRow(c)' = ColumnsOfConstraintRow(c))
  BY <1>1, ContentsStay
<1>4. CountedInv' BY <1>1, <1>3 DEF PatternInv, CountedInv
<1>5. PointersInv' BY <1>1, <1>3 DEF PatternInv, PointersInv
<1>6. \A r : RowColumns(r)' = RowColumns(r) BY <1>1 DEF RowColumns
<1>7. \A n, c : (NodeRowsHold(n)' <=> NodeRowsHold(n))
                /\ (ConstraintRowsHold(c)' <=> ConstraintRowsHold(c))
  BY <1>3, <1>6 DEF NodeRowsHold, ConstraintRowsHold
<1>8. FilledInv' BY <1>1, <1>7 DEF PatternInv, FilledInv
<1>9. QED BY <1>2, <1>4, <1>5, <1>8 DEF PatternInv

-----------------------------------------------------------------------------
(* Rows have the length of what belongs into them from the moment they are   *)
(* counted, whatever has been filled holds what belongs there, and nothing   *)
(* takes it away again before the sort.                                      *)
THEOREM FillingFollowsCounting == CreateSolver => []PatternInv
<1>1. PatternInit => PatternInv BY FreedomAssumption, TypesAssumption, InitPatternInv
<1>2. PatternInv /\ [Next]_vars => PatternInv'
  <2> SUFFICES ASSUME PatternInv, [Next]_vars PROVE PatternInv' OBVIOUS
  <2> USE FreedomAssumption, TypesAssumption
  <2>1. CASE Numbering BY <2>1, NumberingStep
  <2>2. CASE ComputeRowEntries BY <2>2, ComputeRowEntriesStep
  <2>3. CASE ScanRowEntries BY <2>3, ScanRowEntriesStep
  <2>4. CASE \E n \in Nodes : FillNodeRows(n) BY <2>4, FillNodeRowsStep
  <2>5. CASE SystemColumnsDone BY <2>5, SystemColumnsDoneStep
  <2>6. CASE \E c \in Constraints : FillConstraintRows(c) BY <2>6, FillConstraintRowsStep
  <2>7. CASE SortRows BY <2>7, SortRowsStep
  <2>8. CASE UNCHANGED vars BY <2>8, StutteringStep
  <2>9. QED
    BY <2>1, <2>2, <2>3, <2>4, <2>5, <2>6, <2>7, <2>8, Zenon DEF Next, Creation
<1>3. QED BY <1>1, <1>2, PTL DEF CreateSolver

(* RowsFilledExactly of SparsityPattern, for every mesh: however many nodes, *)
(* elements and constraints meet, and in whatever order the threads run.     *)
THEOREM RowsAreFilledExactly == CreateSolver => []RowsFilledExactly
<1>1. PatternInv => RowsFilledExactly
  BY DEF PatternInv, FilledInv, NodeRowsHold, ConstraintRowsHold, RowsFilledExactly
<1>2. QED BY <1>1, FillingFollowsCounting, PTL

(* NumberingIsExact of FreedomTables once more, as the solver is created.    *)
THEOREM NumberingStaysExactInSolver == CreateSolver => []NumberingIsExact
<1>1. PatternInv => NumberingIsExact
  BY FreedomAssumption, TypesAssumption, UnionIsAllocated, RangesFill, EntriesAreOfTheirNode
     DEF NumberingIsExact, PatternInv
<1>2. QED BY <1>1, FillingFollowsCounting, PTL

-----------------------------------------------------------------------------
(* Sorting a row in which no column occurs twice. *)

Below(s, v)   == {k \in DOMAIN s : s[k] < v}
NotAbove(s, v) == {k \in DOMAIN s : s[k] <= v}
RankOf(s, k)  == Cardinality(NotAbove(s, s[k]))

LEMMA Ranks ==
    ASSUME NEW n \in Nat, NEW s \in [1 .. n -> Int], Distinct(s)
    PROVE  /\ \A k \in 1 .. n : /\ RankOf(s, k) \in 1 .. n
                                /\ Cardinality(Below(s, s[k])) = RankOf(s, k) - 1
           /\ \A j, k \in 1 .. n : s[j] <= s[k] <=> RankOf(s, j) <= RankOf(s, k)
           /\ \A p \in 1 .. n : \E k \in 1 .. n : RankOf(s, k) = p
<1> DEFINE D == 1 .. n
<1>1. DOMAIN s = D /\ IsFiniteSet(D) /\ Cardinality(D) = n BY FS_Interval
<1>2. \A v : Below(s, v) \in SUBSET D /\ NotAbove(s, v) \in SUBSET D
  BY <1>1 DEF Below, NotAbove
<1>3. \A v : /\ IsFiniteSet(Below(s, v)) /\ IsFiniteSet(NotAbove(s, v))
             /\ Cardinality(Below(s, v)) \in Nat /\ Cardinality(NotAbove(s, v)) \in Nat
             /\ Cardinality(NotAbove(s, v)) <= n
  <2> HIDE DEF D
  <2>1. QED BY <1>1, <1>2, FS_Subset, FS_CardinalityType
<1>4. ASSUME NEW k \in D
      PROVE  RankOf(s, k) \in D /\ Cardinality(Below(s, s[k])) = RankOf(s, k) - 1
  <2>1. NotAbove(s, s[k]) = Below(s, s[k]) \cup {k} /\ k \notin Below(s, s[k])
    BY <1>1 DEF NotAbove, Below, Distinct
  <2>2. RankOf(s, k) = Cardinality(Below(s, s[k])) + 1
    BY <1>3, <2>1, FS_AddElement DEF RankOf
  <2>3. Cardinality(Below(s, s[k])) \in Nat /\ RankOf(s, k) \in Nat /\ RankOf(s, k) <= n
    BY <1>3 DEF RankOf
  <2> DEFINE rank == RankOf(s, k)
             below == Cardinality(Below(s, s[k]))
  <2>4. rank = below + 1 /\ below \in Nat /\ rank <= n BY <2>2, <2>3
  <2> HIDE DEF rank, below
  <2>5. rank \in D /\ below = rank - 1 BY <2>4
  <2>6. QED BY <2>5 DEF rank, below
<1>5. \A k \in D : RankOf(s, k) \in Int /\ s[k] \in Int
  <2>1. \A x \in D : x \in Int OBVIOUS
  <2>2. \A k \in D : s[k] \in Int OBVIOUS
  <2> HIDE DEF D
  <2>3. QED BY <1>4, <2>1, <2>2
<1>6. ASSUME NEW j \in D, NEW k \in D, s[j] <= s[k] PROVE RankOf(s, j) <= RankOf(s, k)
  <2>1. NotAbove(s, s[j]) \in SUBSET NotAbove(s, s[k]) BY <1>1, <1>6 DEF NotAbove
  <2>2. QED BY <1>3, <2>1, FS_Subset DEF RankOf
<1>7. ASSUME NEW j \in D, NEW k \in D, s[j] < s[k] PROVE RankOf(s, j) < RankOf(s, k)
  <2>1. NotAbove(s, s[j]) \in SUBSET Below(s, s[k]) BY <1>1, <1>7 DEF NotAbove, Below
  <2>2. RankOf(s, j) <= Cardinality(Below(s, s[k])) BY <1>3, <2>1, FS_Subset DEF RankOf
  <2>3. RankOf(s, j) \in Int /\ RankOf(s, k) \in Int BY <1>5
  <2>4. Cardinality(Below(s, s[k])) = RankOf(s, k) - 1 BY <1>4
  <2>5. QED BY <2>2, <2>3, <2>4
<1>8. \A j, k \in D : s[j] <= s[k] <=> RankOf(s, j) <= RankOf(s, k)
  <2> SUFFICES ASSUME NEW j \in D, NEW k \in D
               PROVE  s[j] <= s[k] <=> RankOf(s, j) <= RankOf(s, k)
    OBVIOUS
  <2>1. s[j] \in Int /\ s[k] \in Int /\ RankOf(s, j) \in Int /\ RankOf(s, k) \in Int
    BY <1>5
  <2>2. s[j] <= s[k] => RankOf(s, j) <= RankOf(s, k) BY <1>6
  <2>3. s[k] < s[j] => RankOf(s, k) < RankOf(s, j) BY <1>7
  <2> HIDE DEF D
  <2>4. QED BY <2>1, <2>2, <2>3
<1> DEFINE rank == [k \in D |-> RankOf(s, k)]
<1>9. rank \in Injection(D, D)
  <2>1. rank \in [D -> D] BY <1>4
  <2>2. \A j, k \in D : rank[j] = rank[k] => j = k
    <3> SUFFICES ASSUME NEW j \in D, NEW k \in D, RankOf(s, j) = RankOf(s, k) PROVE j = k
      OBVIOUS
    <3>1. s[j] \in Int /\ s[k] \in Int /\ RankOf(s, j) \in Int /\ RankOf(s, k) \in Int
      BY <1>5
    <3> HIDE DEF D
    <3>2. s[j] <= s[k] /\ s[k] <= s[j] BY <1>8, <3>1
    <3>3. s[j] = s[k] BY <3>1, <3>2
    <3>4. QED BY <1>1, <3>3 DEF Distinct
  <2> HIDE DEF rank, D
  <2>3. QED BY <2>1, <2>2 DEF Injection, IsInjective
<1>10. rank \in Surjection(D, D)
  <2> HIDE DEF rank, D
  <2>1. QED BY <1>1, <1>9, FS_Injection
<1>11. \A p \in D : \E k \in D : RankOf(s, k) = p BY <1>10 DEF Surjection
<1>12. QED BY <1>4, <1>8, <1>11

Ascends(t) == \A p, q \in DOMAIN t : p < q => t[p] < t[q]
HasBlock(t, first, width) ==
    \A k \in 0 .. width - 1 : \E p \in DOMAIN t : t[p] = first + k

\* The sorted row has the same entries in ascending order.
LEMMA SortedRowAscends ==
    ASSUME NEW n \in Nat, NEW s \in [1 .. n -> Int], Distinct(s)
    PROVE  /\ SortedRow(s) \in [1 .. n -> Int]
           /\ Ascends(SortedRow(s))
           /\ \A k \in 1 .. n : \E p \in 1 .. n : SortedRow(s)[p] = s[k]
<1> DEFINE D == 1 .. n
           Here(p, v) == /\ Cardinality({k \in DOMAIN s : s[k] < v}) < p
                         /\ Cardinality({k \in DOMAIN s : s[k] <= v}) >= p
<1>1. DOMAIN s = D OBVIOUS
<1>2. SortedRow(s) = [p \in D |-> CHOOSE v \in ToSet(s) : Here(p, v)]
  BY <1>1, Zenon DEF SortedRow
<1>3. ASSUME NEW k \in D, NEW p \in D PROVE Here(p, s[k]) <=> RankOf(s, k) = p
  <2>1. /\ Cardinality({j \in DOMAIN s : s[j] < s[k]}) = RankOf(s, k) - 1
        /\ Cardinality({j \in DOMAIN s : s[j] <= s[k]}) = RankOf(s, k)
        /\ RankOf(s, k) \in D
    <3>1. RankOf(s, k) \in D /\ Cardinality(Below(s, s[k])) = RankOf(s, k) - 1 BY Ranks
    <3>2. RankOf(s, k) = Cardinality(NotAbove(s, s[k])) BY DEF RankOf
    <3> HIDE DEF D
    <3>3. QED BY <3>1, <3>2 DEF Below, NotAbove
  <2>2. QED BY <2>1
<1>4. ToSet(s) = {s[k] : k \in D} BY <1>1 DEF ToSet
<1>5. ASSUME NEW p \in D PROVE \E k \in D : SortedRow(s)[p] = s[k] /\ RankOf(s, k) = p
  <2>1. PICK j \in D : RankOf(s, j) = p BY Ranks
  <2>2. Here(p, s[j]) /\ s[j] \in ToSet(s) BY <1>3, <1>4, <2>1
  <2> DEFINE v == CHOOSE v \in ToSet(s) : Here(p, v)
  <2>3. v \in ToSet(s) /\ Here(p, v)
    <3> HIDE DEF Here
    <3>1. QED BY <2>2
  <2>4. SortedRow(s)[p] = v BY <1>2
  <2> HIDE DEF v, Here
  <2>5. PICK k \in D : v = s[k] BY <1>4, <2>3
  <2>6. RankOf(s, k) = p BY <1>3, <2>3, <2>5
  <2>7. QED BY <2>4, <2>5, <2>6
<1>6. SortedRow(s) \in [D -> Int]
  <2>1. \A p \in D : SortedRow(s)[p] \in Int BY <1>5
  <2>2. SortedRow(s) = [p \in D |-> SortedRow(s)[p]] BY <1>2
  <2>3. QED BY <2>1, <2>2
<1>7. ASSUME NEW p \in D, NEW q \in D, p < q PROVE SortedRow(s)[p] < SortedRow(s)[q]
  <2>1. PICK j \in D : SortedRow(s)[p] = s[j] /\ RankOf(s, j) = p BY <1>5
  <2>2. PICK k \in D : SortedRow(s)[q] = s[k] /\ RankOf(s, k) = q BY <1>5
  <2>3. ~ (s[k] <= s[j])
    <3>1. s[k] <= s[j] <=> RankOf(s, k) <= RankOf(s, j) BY Ranks
    <3>2. QED BY <1>7, <2>1, <2>2, <3>1
  <2>4. s[j] \in Int /\ s[k] \in Int OBVIOUS
  <2>5. QED BY <2>1, <2>2, <2>3, <2>4
<1>8. ASSUME NEW k \in D PROVE \E p \in D : SortedRow(s)[p] = s[k]
  <2>1. RankOf(s, k) \in D BY Ranks
  <2>2. PICK j \in D : SortedRow(s)[RankOf(s, k)] = s[j] /\ RankOf(s, j) = RankOf(s, k)
    BY <1>5, <2>1
  <2>3. s[j] = s[k]
    <3>1. /\ s[j] <= s[k] <=> RankOf(s, j) <= RankOf(s, k)
          /\ s[k] <= s[j] <=> RankOf(s, k) <= RankOf(s, j)
      BY Ranks
    <3>2. RankOf(s, k) \in Int /\ RankOf(s, k) <= RankOf(s, k) BY <2>1
    <3>3. s[j] <= s[k] /\ s[k] <= s[j] BY <2>2, <3>1, <3>2
    <3>4. s[j] \in Int /\ s[k] \in Int OBVIOUS
    <3>5. QED BY <3>3, <3>4
  <2>4. QED BY <2>1, <2>2, <2>3
<1>9. Ascends(SortedRow(s))
  <2>1. DOMAIN SortedRow(s) = D BY <1>2
  <2>2. QED BY <1>7, <2>1 DEF Ascends
<1>10. QED BY <1>6, <1>8, <1>9

\* Columns that follow each other in number follow each other in the row.
BlockFollows(t, first, width) ==
    \A o \in DOMAIN t : t[o] = first =>
       \A k \in 0 .. width - 1 : o + k \in DOMAIN t /\ t[o + k] = first + k

LEMMA BlocksStayTogether ==
    ASSUME NEW n \in Nat, NEW t \in [1 .. n -> Int], Ascends(t),
           NEW first \in Int, NEW width \in Nat, HasBlock(t, first, width)
    PROVE  BlockFollows(t, first, width)
<1> SUFFICES ASSUME NEW o \in 1 .. n, t[o] = first
             PROVE  \A k \in 0 .. width - 1 : o + k \in 1 .. n /\ t[o + k] = first + k
  BY DEF BlockFollows
<1> DEFINE Good(j) == o + j \in 1 .. n /\ t[o + j] = first + j
           Bad == {j \in 0 .. width - 1 : ~ Good(j)}
<1> SUFFICES ASSUME Bad # {} PROVE FALSE OBVIOUS
<1>1. PICK j \in Bad : \A i \in Bad : j <= i
  <2>1. Bad \in SUBSET Nat OBVIOUS
  <2> HIDE DEF Bad
  <2>2. QED BY <2>1, LeastOf
<1>2. j \in 0 .. width - 1 /\ ~ Good(j) BY <1>1
<1>3. j # 0
  <2>1. o + 0 = o /\ first + 0 = first OBVIOUS
  <2>2. Good(0) BY <2>1
  <2>3. QED BY <1>2, <2>2
<1>4. j - 1 \in 0 .. width - 1 /\ ~ (j <= j - 1) BY <1>2, <1>3
<1>5. j - 1 \notin Bad BY <1>1, <1>4
<1>6. Good(j - 1) BY <1>4, <1>5
<1>7. PICK p \in 1 .. n : t[p] = first + j BY <1>2 DEF HasBlock
<1> DEFINE i == o + j - 1
<1>8. i \in 1 .. n /\ t[i] = first + j - 1 /\ i + 1 = o + j
  <2>1. o + (j - 1) = o + j - 1 /\ first + (j - 1) = first + j - 1 /\ i + 1 = o + j
    BY <1>2
  <2>2. QED BY <1>6, <2>1
<1> HIDE DEF i, Bad
<1>9. i < p
  <2>1. ~ (p < i) /\ p # i
    <3>1. t[i] < t[p] BY <1>2, <1>7, <1>8
    <3>2. t[i] \in Int /\ t[p] \in Int BY <1>7, <1>8
    <3>3. p < i => t[p] < t[i] BY <1>7, <1>8 DEF Ascends
    <3>4. QED BY <3>1, <3>2, <3>3
  <2>2. QED BY <1>8, <2>1
<1>10. ~ (i + 1 < p)
  <2> SUFFICES ASSUME i + 1 < p PROVE FALSE OBVIOUS
  <2>1. i + 1 \in 1 .. n /\ i < i + 1 BY <1>8
  <2>2. t[i] < t[i + 1] /\ t[i + 1] < t[p] /\ t[i + 1] \in Int BY <1>7, <1>8, <2>1 DEF Ascends
  <2> DEFINE x == t[i + 1]
  <2>3. x \in Int /\ first + j - 1 < x /\ x < first + j BY <1>7, <1>8, <2>2
  <2>4. first \in Int /\ j \in Int BY <1>2
  <2> HIDE DEF x
  <2>5. QED BY <2>3, <2>4
<1>11. p = o + j BY <1>8, <1>9, <1>10
<1>12. Good(j) BY <1>7, <1>11
<1>13. QED BY <1>2, <1>12

\* So the search of assembly for the first column of a block finds room for
\* the block, if the row has all of its columns.
LEMMA BlockLands ==
    ASSUME NEW r, NEW n \in Nat, NEW s \in [1 .. n -> Int], Distinct(s),
           rowPtrs[r] \in Nat, rowPtrs[r + 1] = rowPtrs[r] + n,
           RowColumns(r) = SortedRow(s),
           NEW first \in Int, NEW width \in Nat,
           first .. first + width - 1 \subseteq ToSet(s)
    PROVE  LandsIn(r, first, width)
<1> DEFINE t == SortedRow(s)
<1>1. /\ t \in [1 .. n -> Int]
      /\ Ascends(t)
      /\ \A k \in 1 .. n : \E p \in 1 .. n : t[p] = s[k]
  BY SortedRowAscends
<1> HIDE DEF t
<1>2. rowPtrs[r + 1] - rowPtrs[r] = n OBVIOUS
<1>3. t = [k \in 1 .. n |-> colInds[rowPtrs[r] + k - 1]]
  BY <1>2 DEF RowColumns, t
<1>4. HasBlock(t, first, width)
  <2> SUFFICES ASSUME NEW k \in 0 .. width - 1 PROVE \E p \in 1 .. n : t[p] = first + k
    BY <1>1 DEF HasBlock
  <2>1. first + k \in first .. first + width - 1 OBVIOUS
  <2>2. first + k \in ToSet(s) BY <2>1
  <2>3. PICK j \in 1 .. n : s[j] = first + k BY <2>2 DEF ToSet
  <2>4. QED BY <1>1, <2>3
<1>5. ASSUME NEW o \in FindRelOffset(r, first), NEW k \in 0 .. width - 1
      PROVE  LET slot == rowPtrs[r] + o + k
             IN  slot < rowPtrs[r + 1] /\ colInds[slot] = first + k
  <2>1. \E p \in 1 .. n : t[p] = first
    <3>1. 0 \in 0 .. width - 1 /\ first + 0 = first OBVIOUS
    <3>2. QED BY <1>1, <1>4, <3>1 DEF HasBlock
  <2> DEFINE found == {i \in 0 .. rowPtrs[r + 1] - rowPtrs[r] - 1 :
                         colInds[rowPtrs[r] + i] = first}
  <2>2. found # {}
    <3>1. PICK p \in 1 .. n : t[p] = first BY <2>1
    <3>2. rowPtrs[r] + p - 1 = rowPtrs[r] + (p - 1) /\ p - 1 \in 0 .. n - 1 OBVIOUS
    <3>3. colInds[rowPtrs[r] + p - 1] = first BY <1>3, <3>1
    <3>4. p - 1 \in found BY <1>2, <3>2, <3>3
    <3>5. QED BY <3>4
  <2>3. o \in found
    <3>1. FindRelOffset(r, first) = IF found = {} THEN {rowPtrs[r + 1] - rowPtrs[r]} ELSE found
      BY Zenon DEF FindRelOffset
    <3> HIDE DEF found
    <3>2. QED BY <2>2, <3>1
  <2>4. o \in 0 .. n - 1 /\ colInds[rowPtrs[r] + o] = first BY <1>2, <2>3
  <2>5. o + 1 \in 1 .. n /\ rowPtrs[r] + (o + 1) - 1 = rowPtrs[r] + o BY <2>4
  <2>6. t[o + 1] = first BY <1>3, <2>4, <2>5
  <2>7. (o + 1) + k \in 1 .. n /\ t[(o + 1) + k] = first + k
    <3> DEFINE p == o + 1
    <3>1. p \in 1 .. n /\ t[p] = first BY <2>5, <2>6
    <3> HIDE DEF p
    <3>2. BlockFollows(t, first, width)
      <4>1. n \in Nat /\ first \in Int /\ width \in Nat OBVIOUS
      <4>2. QED BY <1>1, <1>4, <4>1, BlocksStayTogether
    <3>3. p + k \in 1 .. n /\ t[p + k] = first + k BY <1>1, <3>1, <3>2 DEF BlockFollows
    <3>4. QED BY <3>3 DEF p
  <2>8. colInds[rowPtrs[r] + ((o + 1) + k) - 1] = first + k BY <1>3, <2>7
  <2>9. rowPtrs[r] + ((o + 1) + k) - 1 = rowPtrs[r] + o + k BY <2>4
  <2>10. rowPtrs[r] + o + k < rowPtrs[r + 1]
    <3>1. (o + 1) + k <= n /\ o \in Nat /\ k \in Nat BY <2>4, <2>7
    <3>2. QED BY <3>1
  <2>11. QED BY <2>8, <2>9, <2>10
<1>6. QED BY <1>5 DEF LandsIn

-----------------------------------------------------------------------------
(* What several parts hold, one after the other. *)

LEMMA JoinedTwo ==
    ASSUME NEW S, NEW a \in Seq(S), NEW b \in Seq(S)
    PROVE  /\ a \o b \in Seq(S)
           /\ ToSet(a \o b) = ToSet(a) \cup ToSet(b)
           /\ Distinct(a) /\ Distinct(b) /\ ToSet(a) \cap ToSet(b) = {} => Distinct(a \o b)
<1> DEFINE m == Len(a)
           n == Len(b)
           c == a \o b
<1>1. /\ m \in Nat /\ n \in Nat /\ DOMAIN a = 1 .. m /\ DOMAIN b = 1 .. n
      /\ c \in Seq(S)
      /\ Len(c) = m + n
      /\ \A i \in 1 .. m + n : c[i] = IF i <= m THEN a[i] ELSE b[i - m]
  BY LenProperties, ConcatProperties
<1>2. DOMAIN c = 1 .. m + n BY <1>1, LenProperties
<1> HIDE DEF c, m, n
<1>3. \A i \in 1 .. m + n : i \in 1 .. m \/ (i \notin 1 .. m /\ i - m \in 1 .. n)
  BY <1>1
<1>4. \A i \in 1 .. m : i \in 1 .. m + n /\ c[i] = a[i] BY <1>1
<1>5. \A i \in 1 .. n : i + m \in 1 .. m + n /\ c[i + m] = b[i]
  <2> SUFFICES ASSUME NEW i \in 1 .. n PROVE i + m \in 1 .. m + n /\ c[i + m] = b[i]
    OBVIOUS
  <2>1. i + m \in 1 .. m + n /\ ~ (i + m <= m) /\ (i + m) - m = i BY <1>1
  <2>2. QED BY <1>1, <2>1
<1>6. \A i \in 1 .. m + n : i \notin 1 .. m => c[i] = b[i - m]
  <2>1. \A i \in 1 .. m + n : i \notin 1 .. m => ~ (i <= m) BY <1>1
  <2>2. QED BY <1>1, <2>1
<1>7. ToSet(c) = ToSet(a) \cup ToSet(b)
  <2>1. ASSUME NEW v \in ToSet(c) PROVE v \in ToSet(a) \cup ToSet(b)
    <3>1. PICK i \in 1 .. m + n : v = c[i] BY <1>2 DEF ToSet
    <3>2. CASE i \in 1 .. m BY <1>1, <1>4, <3>1, <3>2 DEF ToSet
    <3>3. CASE i \notin 1 .. m
      <4>1. i - m \in 1 .. n /\ v = b[i - m] BY <1>3, <1>6, <3>1, <3>3
      <4>2. QED BY <1>1, <4>1 DEF ToSet
    <3>4. QED BY <3>2, <3>3
  <2>2. \A v \in ToSet(a) : v \in ToSet(c) BY <1>1, <1>2, <1>4 DEF ToSet
  <2>3. ASSUME NEW v \in ToSet(b) PROVE v \in ToSet(c)
    <3>1. PICK i \in 1 .. n : v = b[i] BY <1>1 DEF ToSet
    <3>2. i + m \in DOMAIN c /\ v = c[i + m] BY <1>2, <1>5, <3>1
    <3>3. QED BY <3>2 DEF ToSet
  <2>4. QED BY <2>1, <2>2, <2>3
<1>8. ASSUME Distinct(a), Distinct(b), ToSet(a) \cap ToSet(b) = {} PROVE Distinct(c)
  <2> SUFFICES ASSUME NEW i \in 1 .. m + n, NEW j \in 1 .. m + n, c[i] = c[j] PROVE i = j
    BY <1>2 DEF Distinct
  <2>1. \A k, l \in 1 .. m : a[k] = a[l] => k = l BY <1>1, <1>8 DEF Distinct
  <2>2. \A k, l \in 1 .. n : b[k] = b[l] => k = l BY <1>1, <1>8 DEF Distinct
  <2>3. \A k \in 1 .. m : \A l \in 1 .. n : a[k] # b[l] BY <1>1, <1>8 DEF ToSet
  <2>4. CASE i \in 1 .. m /\ j \in 1 .. m BY <1>4, <2>1, <2>4
  <2>5. CASE i \in 1 .. m /\ j \notin 1 .. m BY <1>3, <1>4, <1>6, <2>3, <2>5
  <2>6. CASE i \notin 1 .. m /\ j \in 1 .. m BY <1>3, <1>4, <1>6, <2>3, <2>6
  <2>7. CASE i \notin 1 .. m /\ j \notin 1 .. m
    <3>1. i - m \in 1 .. n /\ j - m \in 1 .. n /\ b[i - m] = b[j - m]
      BY <1>3, <1>6, <2>7
    <3>2. i - m = j - m BY <2>2, <3>1
    <3>3. QED BY <1>1, <3>2
  <2>8. QED BY <2>4, <2>5, <2>6, <2>7
<1>9. QED BY <1>1, <1>7, <1>8 DEF c

EntriesOf(q, n) == UNION {ToSet(q[k]) : k \in 1 .. n}
PartsApart(q) ==
    /\ \A k \in DOMAIN q : Distinct(q[k])
    /\ \A k, l \in DOMAIN q : k # l => ToSet(q[k]) \cap ToSet(q[l]) = {}

LEMMA JoinedEntries ==
    ASSUME NEW S, NEW q \in Seq(Seq(S)), NEW g, Joins(g, q, Len(q))
    PROVE  \A i \in 1 .. Len(q) : /\ g[i] \in Seq(S)
                                  /\ ToSet(g[i]) = EntriesOf(q, i)
                                  /\ PartsApart(q) => Distinct(g[i])
<1> DEFINE Good(i) == /\ g[i] \in Seq(S)
                      /\ ToSet(g[i]) = EntriesOf(q, i)
                      /\ PartsApart(q) => Distinct(g[i])
           Bad == {i \in 1 .. Len(q) : ~ Good(i)}
<1> SUFFICES ASSUME Bad # {} PROVE FALSE OBVIOUS
<1>1. Len(q) \in Nat /\ DOMAIN q = 1 .. Len(q) /\ \A k \in 1 .. Len(q) : q[k] \in Seq(S)
  BY LenProperties, ElementOfSeq
<1>2. PICK i \in Bad : \A k \in Bad : i <= k
  <2>1. Bad \in SUBSET Nat BY <1>1
  <2> HIDE DEF Bad
  <2>2. QED BY <2>1, LeastOf
<1>3. i \in 1 .. Len(q) /\ ~ Good(i)
  <2> HIDE DEF Good
  <2>1. QED BY <1>2
<1>4. g[i] = IF i = 1 THEN q[i] ELSE g[i - 1] \o q[i] BY <1>3, Zenon DEF Joins
<1>5. q[i] \in Seq(S) /\ (PartsApart(q) => Distinct(q[i])) BY <1>1, <1>3 DEF PartsApart
<1>6. CASE i = 1
  <2>1. 1 .. i = {i} BY <1>6
  <2>2. EntriesOf(q, i) = ToSet(q[i]) BY <2>1 DEF EntriesOf
  <2>3. g[i] = q[i] BY <1>4, <1>6
  <2>4. Good(i) BY <1>5, <2>2, <2>3
  <2>5. QED BY <1>3, <2>4
<1>7. CASE i # 1
  <2> DEFINE before == EntriesOf(q, i - 1)
  <2>1. i - 1 \in 1 .. Len(q) /\ ~ (i <= i - 1) BY <1>1, <1>3, <1>7
  <2>2. Good(i - 1)
    <3> HIDE DEF Good
    <3>1. i - 1 \notin Bad BY <1>2, <2>1
    <3>2. QED BY <2>1, <3>1
  <2>3. g[i] = g[i - 1] \o q[i] BY <1>4, <1>7
  <2>4. EntriesOf(q, i) = before \cup ToSet(q[i])
    <3>1. 1 .. i = (1 .. i - 1) \cup {i} BY <1>1, <1>3
    <3>2. QED BY <3>1 DEF EntriesOf
  <2>5. PartsApart(q) => before \cap ToSet(q[i]) = {}
    <3> SUFFICES ASSUME PartsApart(q), NEW v \in before, v \in ToSet(q[i]) PROVE FALSE
      OBVIOUS
    <3>1. PICK k \in 1 .. i - 1 : v \in ToSet(q[k]) BY DEF EntriesOf
    <3>2. k \in DOMAIN q /\ k # i /\ i \in DOMAIN q BY <1>1, <1>3
    <3>3. ToSet(q[k]) \cap ToSet(q[i]) = {} BY <3>2 DEF PartsApart
    <3>4. QED BY <3>1, <3>3
  <2> HIDE DEF before
  <2>6. /\ g[i] \in Seq(S) /\ ToSet(g[i]) = before \cup ToSet(q[i])
        /\ PartsApart(q) => Distinct(g[i])
    BY <1>5, <2>2, <2>3, <2>5, JoinedTwo DEF before
  <2>7. Good(i) BY <2>4, <2>6
  <2>8. QED BY <1>3, <2>7
<1>8. QED BY <1>6, <1>7

LEMMA FlattenedEntries ==
    ASSUME NEW S, NEW q \in Seq(Seq(S))
    PROVE  /\ ToSet(FlattenSeq(q)) = EntriesOf(q, Len(q))
           /\ PartsApart(q) => Distinct(FlattenSeq(q))
<1>1. Len(q) \in Nat /\ DOMAIN q = 1 .. Len(q) BY LenProperties
<1>2. CASE Len(q) = 0
  <2>1. FlattenSeq(q) = <<>>
    <3>1. q = <<>> BY <1>2, EmptySeq
    <3>2. QED BY <1>2, <3>1 DEF FlattenSeq
  <2>2. 1 .. Len(q) = {} /\ DOMAIN <<>> = {} BY <1>1, <1>2
  <2>3. QED BY <2>1, <2>2 DEF ToSet, Distinct, EntriesOf
<1>3. CASE Len(q) # 0
  <2> DEFINE joined == CHOOSE g : Joins(g, q, Len(q))
  <2>1. Joins(joined, q, Len(q)) BY <1>1, JoinsExists
  <2>2. FlattenSeq(q) = joined[Len(q)] BY <1>3, Zenon DEF FlattenSeq, Joins
  <2>3. Len(q) \in 1 .. Len(q) BY <1>1, <1>3
  <2> HIDE DEF joined
  <2>4. QED BY <2>1, <2>2, <2>3, JoinedEntries
<1>4. QED BY <1>2, <1>3

-----------------------------------------------------------------------------
(* What belongs into a row, and that no column belongs there twice. *)

LEMMA Consecutive ==
    ASSUME NEW first \in Int, NEW width \in Nat, NEW s,
           s = [k \in 1 .. width |-> first + k - 1]
    PROVE  s \in Seq(Int) /\ ToSet(s) = first .. first + width - 1 /\ Distinct(s)
<1>1. s \in [1 .. width -> Int] /\ DOMAIN s = 1 .. width OBVIOUS
<1>2. s \in Seq(Int) BY <1>1, SeqDef
<1>3. ASSUME NEW v \in ToSet(s) PROVE v \in first .. first + width - 1
  <2>1. PICK k \in 1 .. width : v = s[k] BY <1>1 DEF ToSet
  <2>2. QED BY <2>1
<1>4. ASSUME NEW v \in first .. first + width - 1 PROVE v \in ToSet(s)
  <2> DEFINE k == v - first + 1
  <2>1. k \in 1 .. width /\ first + k - 1 = v OBVIOUS
  <2> HIDE DEF k
  <2>2. s[k] = v BY <2>1
  <2>3. QED BY <1>1, <2>1, <2>2 DEF ToSet
<1>5. Distinct(s)
  <2> SUFFICES ASSUME NEW j \in 1 .. width, NEW k \in 1 .. width, s[j] = s[k] PROVE j = k
    BY <1>1 DEF Distinct
  <2>1. first + j - 1 = first + k - 1 OBVIOUS
  <2>2. QED BY <2>1
<1>6. QED BY <1>2, <1>3, <1>4, <1>5

LEMMA NodeColumnsAreRange ==
    ASSUME NumberingInv, NEW n \in Nodes
    PROVE  /\ NodeColumns(n) \in Seq(Int) /\ ToSet(NodeColumns(n)) = RangeOf(n)
           /\ Distinct(NodeColumns(n))
<1>1. map[n] \in Int /\ dofs[n] \in Nat BY DEF NumberingInv, TypeOK
<1>2. NodeColumns(n) = [k \in 1 .. dofs[n] |-> map[n] + k - 1] BY DEF NodeColumns
<1>3. QED BY <1>1, <1>2, Consecutive DEF RangeOf

LEMMA RowsOfAreDistinct ==
    ASSUME FreedomAssumption, numSystemDofs \in Nat, NEW c \in Constraints
    PROVE  Distinct(RowsOf(c))
<1> DEFINE first == numSystemDofs + StartRow(c)
           rows == NumRowsForConstraint(cons[c].type)
<1>1. first \in Int
  <2>1. c \in 1 .. NumConstraints + 1 BY DEF FreedomAssumption, Constraints
  <2>2. QED BY <2>1, StartRows
<1>2. rows \in Nat BY RowsOfConstraints
<1>3. RowsOf(c) = [k \in 1 .. rows |-> first + k - 1] BY DEF RowsOf
<1> HIDE DEF first, rows
<1>4. QED BY <1>1, <1>2, <1>3, Consecutive

\* An element adds the columns of its other nodes, each once.
LEMMA OtherColumns ==
    ASSUME FreedomAssumption, NumberingInv, pc \in Creating,
           NEW e \in Elements, NEW n \in Nodes
    PROVE  /\ ColumnsInElement(e, n) \in Seq(Int)
           /\ \A v : v \in ToSet(ColumnsInElement(e, n)) <=>
                \E k \in DOMAIN elems[e].nodes :
                   elems[e].nodes[k] # n /\ v \in RangeOf(elems[e].nodes[k])
           /\ Distinct(ColumnsInElement(e, n))
<1> DEFINE nodes == elems[e].nodes
           D == 1 .. Len(nodes)
           parts == [k \in DOMAIN nodes |->
                       IF nodes[k] = n THEN <<>> ELSE NodeColumns(nodes[k])]
<1>1. /\ Len(nodes) \in Nat /\ DOMAIN nodes = D
      /\ \A k \in D : nodes[k] \in Nodes
      /\ Distinct(nodes)
  BY NodesOfElement
<1>2. ColumnsInElement(e, n) = FlattenSeq(parts) BY Zenon DEF ColumnsInElement
<1> HIDE DEF nodes
<1>3. /\ <<>> \in Seq(Int) /\ ToSet(<<>>) = {} /\ Distinct(<<>>)
  BY EmptySeq DEF ToSet, Distinct
<1>4. ASSUME NEW k \in D
      PROVE  /\ parts[k] \in Seq(Int) /\ Distinct(parts[k])
             /\ ToSet(parts[k]) = IF nodes[k] = n THEN {} ELSE RangeOf(nodes[k])
  <2>1. parts[k] = IF nodes[k] = n THEN <<>> ELSE NodeColumns(nodes[k]) BY <1>1
  <2>2. /\ NodeColumns(nodes[k]) \in Seq(Int) /\ Distinct(NodeColumns(nodes[k]))
        /\ ToSet(NodeColumns(nodes[k])) = RangeOf(nodes[k])
    BY <1>1, NodeColumnsAreRange
  <2> HIDE DEF parts, D
  <2>3. QED BY <1>3, <2>1, <2>2
<1>5. parts \in Seq(Seq(Int)) /\ Len(parts) = Len(nodes) /\ DOMAIN parts = D
  <2>1. DOMAIN parts = D BY <1>1
  <2>2. parts \in [D -> Seq(Int)]
    <3>1. \A k \in D : parts[k] \in Seq(Int) BY <1>4
    <3>2. QED BY <1>1, <3>1
  <2> HIDE DEF parts
  <2>3. parts \in Seq(Seq(Int)) BY <1>1, <2>2, SeqDef
  <2>4. Len(parts) = Len(nodes) BY <1>1, <2>1, <2>3, LenProperties
  <2>5. QED BY <2>1, <2>3, <2>4
<1> HIDE DEF parts
<1>6. PartsApart(parts)
  <2>1. \A k \in D : Distinct(parts[k]) BY <1>4
  <2>2. ASSUME NEW k \in D, NEW l \in D, k # l, NEW v \in ToSet(parts[k]), v \in ToSet(parts[l])
        PROVE  FALSE
    <3>1. v \in RangeOf(nodes[k]) /\ v \in RangeOf(nodes[l]) BY <1>4, <2>2
    <3>2. nodes[k] = nodes[l] BY <1>1, <3>1, NodeRowsApart
    <3>3. QED BY <1>1, <2>2, <3>2 DEF Distinct
  <2> HIDE DEF D
  <2>3. \A k, l \in D : k # l => ToSet(parts[k]) \cap ToSet(parts[l]) = {} BY <2>2
  <2>4. QED BY <1>5, <2>1, <2>3 DEF PartsApart
<1>7. /\ ToSet(FlattenSeq(parts)) = EntriesOf(parts, Len(parts))
      /\ Distinct(FlattenSeq(parts))
  BY <1>5, <1>6, FlattenedEntries
<1>8. FlattenSeq(parts) \in Seq(Int) BY <1>5, FlattenedLength
<1>9. \A v : v \in EntriesOf(parts, Len(parts)) <=> \E k \in D : v \in ToSet(parts[k])
  BY <1>5 DEF EntriesOf
<1>10. \A v : v \in EntriesOf(parts, Len(parts)) <=>
         \E k \in DOMAIN nodes : nodes[k] # n /\ v \in RangeOf(nodes[k])
  <2>1. \A k \in D : \A v : v \in ToSet(parts[k]) <=> nodes[k] # n /\ v \in RangeOf(nodes[k])
    BY <1>4
  <2> HIDE DEF D
  <2>2. QED BY <1>1, <1>9, <2>1
<1>11. QED BY <1>2, <1>7, <1>8, <1>10 DEF nodes

\* Elements that share a node share no other.
LEMMA SharedNodes ==
    ASSUME FreedomAssumption, NumberingInv, ~ElementsShareTwoNodes,
           NEW d \in Elements, NEW e \in Elements,
           NEW m \in ToSet(elems[d].nodes), m \in ToSet(elems[e].nodes),
           NEW n \in ToSet(elems[d].nodes), n \in ToSet(elems[e].nodes), m # n
    PROVE  d = e
<1> DEFINE both == ToSet(elems[d].nodes) \cap ToSet(elems[e].nodes)
<1>1. IsFiniteSet(both)
  <2>1. both \in SUBSET Nodes BY NodesOfElement DEF ToSet
  <2>2. IsFiniteSet(Nodes) BY FS_Interval DEF Nodes, FreedomAssumption
  <2> HIDE DEF both
  <2>3. QED BY <2>1, <2>2, FS_Subset
<1>2. {m, n} \in SUBSET both OBVIOUS
<1>3. Cardinality({m, n}) = 2
  <2> DEFINE one == {m}
  <2>1. IsFiniteSet(one) /\ Cardinality(one) = 1 BY FS_Singleton
  <2>2. {m, n} = one \cup {n} /\ n \notin one OBVIOUS
  <2> HIDE DEF one
  <2>3. Cardinality(one \cup {n}) = Cardinality(one) + 1 BY <2>1, <2>2, FS_AddElement
  <2>4. QED BY <2>1, <2>2, <2>3
<1>4. Cardinality(both) \in Nat /\ 2 <= Cardinality(both)
  <2> HIDE DEF both
  <2>1. QED BY <1>1, <1>2, <1>3, FS_Subset, FS_CardinalityType
<1>5. \A a, b \in Elements : a # b =>
        ~ (Cardinality(ToSet(elems[a].nodes) \cap ToSet(elems[b].nodes)) > 1)
  BY Zenon DEF ElementsShareTwoNodes
<1>6. d # e => ~ (Cardinality(both) > 1) BY <1>5, Zenon
<1> HIDE DEF both
<1>7. QED BY <1>4, <1>6

LEMMA NodeRowEntries ==
    ASSUME FreedomAssumption, NumberingInv, pc \in Creating, NEW n \in Nodes
    PROVE  /\ ColumnsOfNodeRow(n) \in Seq(Int)
           /\ RangeOf(n) \subseteq ToSet(ColumnsOfNodeRow(n))
           /\ \A e \in Elements : ElementContainsNode(e, n) =>
                \A k \in DOMAIN elems[e].nodes :
                   RangeOf(elems[e].nodes[k]) \subseteq ToSet(ColumnsOfNodeRow(n))
           /\ \A c \in Constraints : ConstraintContainsNode(c, map[n]) =>
                ToSet(RowsOf(c)) \subseteq ToSet(ColumnsOfNodeRow(n))
           /\ ~ElementsShareTwoNodes => Distinct(ColumnsOfNodeRow(n))
<1> DEFINE ofElements == [e \in Elements |->
                            IF ElementContainsNode(e, n) THEN ColumnsInElement(e, n) ELSE <<>>]
           ofConstraints == [c \in Constraints |->
                               IF ConstraintContainsNode(c, map[n])
                               THEN TransposeColumns(c) ELSE <<>>]
<1>1. /\ Elements = 1 .. NumElements /\ NumElements \in Nat
      /\ Constraints = 1 .. NumConstraints /\ NumConstraints \in Nat
  BY DEF FreedomAssumption, Elements, Constraints
<1>2. /\ <<>> \in Seq(Int) /\ ToSet(<<>>) = {} /\ Distinct(<<>>)
  BY EmptySeq DEF ToSet, Distinct
<1>3. ColumnsOfNodeRow(n) = (NodeColumns(n) \o FlattenSeq(ofElements)) \o FlattenSeq(ofConstraints)
  BY Zenon DEF ColumnsOfNodeRow
<1>4. numSystemDofs \in Nat BY NodeRowsApart
\* The columns of the elements.
<1>5. ASSUME NEW e \in Elements
      PROVE  /\ ofElements[e] \in Seq(Int) /\ Distinct(ofElements[e])
             /\ \A v : v \in ToSet(ofElements[e]) <=>
                  /\ ElementContainsNode(e, n)
                  /\ \E k \in DOMAIN elems[e].nodes :
                        elems[e].nodes[k] # n /\ v \in RangeOf(elems[e].nodes[k])
  <2>1. ofElements[e] = IF ElementContainsNode(e, n) THEN ColumnsInElement(e, n) ELSE <<>>
    OBVIOUS
  <2> HIDE DEF ofElements
  <2>2. CASE ElementContainsNode(e, n) BY <2>1, <2>2, OtherColumns
  <2>3. CASE ~ElementContainsNode(e, n) BY <1>2, <2>1, <2>3
  <2>4. QED BY <2>2, <2>3
<1>6. ofElements \in Seq(Seq(Int)) /\ DOMAIN ofElements = Elements
  <2>1. DOMAIN ofElements = Elements OBVIOUS
  <2>2. ofElements \in [Elements -> Seq(Int)]
    <3>1. \A e \in Elements : ofElements[e] \in Seq(Int) BY <1>5
    <3>2. QED BY <3>1
  <2> HIDE DEF ofElements
  <2>3. QED BY <1>1, <2>1, <2>2, SeqDef
\* The columns of the constraints.
<1>7. ASSUME NEW c \in Constraints
      PROVE  /\ ofConstraints[c] \in Seq(Int) /\ Distinct(ofConstraints[c])
             /\ ToSet(ofConstraints[c]) =
                  IF ConstraintContainsNode(c, map[n]) THEN ToSet(RowsOf(c)) ELSE {}
  <2>1. ofConstraints[c] = IF ConstraintContainsNode(c, map[n]) THEN RowsOf(c) ELSE <<>>
    BY DEF TransposeColumns
  <2>2. RowsOf(c) \in Seq(Int) /\ Distinct(RowsOf(c))
    BY <1>4, RangeOfConstraint, RowsOfAreDistinct
  <2> HIDE DEF ofConstraints
  <2>3. QED BY <1>2, <2>1, <2>2
<1>8. ofConstraints \in Seq(Seq(Int)) /\ DOMAIN ofConstraints = Constraints
  <2>1. DOMAIN ofConstraints = Constraints OBVIOUS
  <2>2. ofConstraints \in [Constraints -> Seq(Int)]
    <3>1. \A c \in Constraints : ofConstraints[c] \in Seq(Int) BY <1>7
    <3>2. QED BY <3>1
  <2> HIDE DEF ofConstraints
  <2>3. QED BY <1>1, <2>1, <2>2, SeqDef
<1> HIDE DEF ofElements, ofConstraints
<1> DEFINE x == FlattenSeq(ofElements)
           y == FlattenSeq(ofConstraints)
<1>9. /\ x \in Seq(Int)
      /\ \A v : v \in ToSet(x) <=> \E e \in Elements : v \in ToSet(ofElements[e])
      /\ PartsApart(ofElements) => Distinct(x)
  <2>1. x \in Seq(Int) /\ Len(ofElements) \in Nat /\ DOMAIN ofElements = 1 .. Len(ofElements)
    BY <1>6, FlattenedLength, LenProperties
  <2>2. ToSet(x) = EntriesOf(ofElements, Len(ofElements)) /\ (PartsApart(ofElements) => Distinct(x))
    BY <1>6, FlattenedEntries
  <2>3. QED BY <1>6, <2>1, <2>2 DEF EntriesOf
<1>10. /\ y \in Seq(Int)
       /\ \A v : v \in ToSet(y) <=> \E c \in Constraints : v \in ToSet(ofConstraints[c])
       /\ PartsApart(ofConstraints) => Distinct(y)
  <2>1. /\ y \in Seq(Int) /\ Len(ofConstraints) \in Nat
        /\ DOMAIN ofConstraints = 1 .. Len(ofConstraints)
    BY <1>8, FlattenedLength, LenProperties
  <2>2. /\ ToSet(y) = EntriesOf(ofConstraints, Len(ofConstraints))
        /\ PartsApart(ofConstraints) => Distinct(y)
    BY <1>8, FlattenedEntries
  <2>3. QED BY <1>8, <2>1, <2>2 DEF EntriesOf
<1>11. /\ NodeColumns(n) \in Seq(Int) /\ ToSet(NodeColumns(n)) = RangeOf(n)
       /\ Distinct(NodeColumns(n))
  BY NodeColumnsAreRange
<1>12. ColumnsOfNodeRow(n) = (NodeColumns(n) \o x) \o y BY <1>3
<1> HIDE DEF x, y
<1>13. /\ NodeColumns(n) \o x \in Seq(Int)
       /\ ToSet(NodeColumns(n) \o x) = RangeOf(n) \cup ToSet(x)
       /\ Distinct(x) /\ RangeOf(n) \cap ToSet(x) = {} => Distinct(NodeColumns(n) \o x)
  BY <1>9, <1>11, JoinedTwo
<1>14. /\ ColumnsOfNodeRow(n) \in Seq(Int)
       /\ ToSet(ColumnsOfNodeRow(n)) = RangeOf(n) \cup ToSet(x) \cup ToSet(y)
       /\ (/\ Distinct(NodeColumns(n) \o x) /\ Distinct(y)
           /\ (RangeOf(n) \cup ToSet(x)) \cap ToSet(y) = {})
          => Distinct(ColumnsOfNodeRow(n))
  <2> DEFINE z == NodeColumns(n) \o x
  <2>1. z \in Seq(Int) /\ ToSet(z) = RangeOf(n) \cup ToSet(x) BY <1>13
  <2>2. ColumnsOfNodeRow(n) = z \o y BY <1>12
  <2> HIDE DEF z
  <2>3. /\ z \o y \in Seq(Int) /\ ToSet(z \o y) = ToSet(z) \cup ToSet(y)
        /\ Distinct(z) /\ Distinct(y) /\ ToSet(z) \cap ToSet(y) = {} => Distinct(z \o y)
    BY <1>10, <2>1, JoinedTwo
  <2>4. /\ ColumnsOfNodeRow(n) \in Seq(Int)
        /\ ToSet(ColumnsOfNodeRow(n)) = RangeOf(n) \cup ToSet(x) \cup ToSet(y)
        /\ (/\ Distinct(z) /\ Distinct(y)
            /\ (RangeOf(n) \cup ToSet(x)) \cap ToSet(y) = {})
           => Distinct(ColumnsOfNodeRow(n))
    BY <2>1, <2>2, <2>3
  <2>5. QED BY <2>4 DEF z
<1>15. ASSUME NEW e \in Elements, ElementContainsNode(e, n), NEW k \in DOMAIN elems[e].nodes
       PROVE  RangeOf(elems[e].nodes[k]) \subseteq ToSet(ColumnsOfNodeRow(n))
  <2>1. CASE elems[e].nodes[k] = n BY <1>14, <2>1
  <2>2. CASE elems[e].nodes[k] # n
    <3>1. \A v \in RangeOf(elems[e].nodes[k]) : v \in ToSet(ofElements[e])
      BY <1>5, <1>15, <2>2
    <3>2. QED BY <1>9, <1>14, <3>1
  <2>3. QED BY <2>1, <2>2
<1>16. ASSUME NEW c \in Constraints, ConstraintContainsNode(c, map[n])
       PROVE  ToSet(RowsOf(c)) \subseteq ToSet(ColumnsOfNodeRow(n))
  BY <1>7, <1>10, <1>14, <1>16
<1>17. ASSUME ~ElementsShareTwoNodes PROVE Distinct(ColumnsOfNodeRow(n))
  <2>1. \A e \in Elements : \A v \in ToSet(ofElements[e]) :
          \E m \in Nodes : /\ m # n /\ v \in RangeOf(m)
                           /\ m \in ToSet(elems[e].nodes) /\ n \in ToSet(elems[e].nodes)
    <3> SUFFICES ASSUME NEW e \in Elements, NEW v \in ToSet(ofElements[e])
                 PROVE  \E m \in Nodes :
                           /\ m # n /\ v \in RangeOf(m)
                           /\ m \in ToSet(elems[e].nodes) /\ n \in ToSet(elems[e].nodes)
      OBVIOUS
    <3>1. PICK k \in DOMAIN elems[e].nodes :
            elems[e].nodes[k] # n /\ v \in RangeOf(elems[e].nodes[k])
      BY <1>5
    <3>2. elems[e].nodes[k] \in Nodes BY NodesOfElement
    <3>3. n \in ToSet(elems[e].nodes) BY <1>5 DEF ElementContainsNode, ToSet
    <3>4. elems[e].nodes[k] \in ToSet(elems[e].nodes) BY DEF ToSet
    <3>5. QED BY <3>1, <3>2, <3>3, <3>4
  <2>2. ASSUME NEW d \in Elements, NEW e \in Elements, d # e,
               NEW v \in ToSet(ofElements[d]), v \in ToSet(ofElements[e])
        PROVE  FALSE
    <3>1. PICK l \in Nodes : /\ l # n /\ v \in RangeOf(l)
                             /\ l \in ToSet(elems[d].nodes) /\ n \in ToSet(elems[d].nodes)
      BY <2>1
    <3>2. PICK m \in Nodes : /\ m # n /\ v \in RangeOf(m)
                             /\ m \in ToSet(elems[e].nodes) /\ n \in ToSet(elems[e].nodes)
      BY <2>1, <2>2
    <3>3. l = m BY <3>1, <3>2, NodeRowsApart
    <3>4. d = e BY <1>17, <3>1, <3>2, <3>3, SharedNodes
    <3>5. QED BY <2>2, <3>4
  <2>3. PartsApart(ofElements)
    <3>1. \A e \in Elements : Distinct(ofElements[e]) BY <1>5
    <3>2. \A d, e \in Elements : d # e => ToSet(ofElements[d]) \cap ToSet(ofElements[e]) = {}
      BY <2>2
    <3>3. QED BY <1>6, <3>1, <3>2 DEF PartsApart
  <2>4. RangeOf(n) \cap ToSet(x) = {}
    <3> SUFFICES ASSUME NEW v \in RangeOf(n), v \in ToSet(x) PROVE FALSE OBVIOUS
    <3>1. PICK e \in Elements : v \in ToSet(ofElements[e]) BY <1>9
    <3>2. PICK m \in Nodes : m # n /\ v \in RangeOf(m) BY <2>1, <3>1
    <3>3. QED BY <3>2, NodeRowsApart
  <2>5. PartsApart(ofConstraints)
    <3>1. \A c \in Constraints : Distinct(ofConstraints[c]) BY <1>7
    <3>2. ASSUME NEW c \in Constraints, NEW d \in Constraints, c # d,
                 NEW v \in ToSet(ofConstraints[c]), v \in ToSet(ofConstraints[d])
          PROVE  FALSE
      <4>1. v \in ToSet(RowsOf(c)) /\ v \in ToSet(RowsOf(d)) BY <1>7, <3>2
      <4>2. c = d BY <1>4, <4>1, ConstraintRowsApart
      <4>3. QED BY <3>2, <4>2
    <3>3. \A c, d \in Constraints : c # d => ToSet(ofConstraints[c]) \cap ToSet(ofConstraints[d]) = {}
      BY <3>2
    <3>4. QED BY <1>8, <3>1, <3>3 DEF PartsApart
  <2>6. (RangeOf(n) \cup ToSet(x)) \cap ToSet(y) = {}
    <3> SUFFICES ASSUME NEW v \in RangeOf(n) \cup ToSet(x), v \in ToSet(y) PROVE FALSE OBVIOUS
    <3>1. \E m \in Nodes : v \in RangeOf(m)
      <4>1. CASE v \in RangeOf(n) BY <4>1
      <4>2. CASE v \in ToSet(x)
        <5>1. PICK e \in Elements : v \in ToSet(ofElements[e]) BY <1>9, <4>2
        <5>2. QED BY <2>1, <5>1
      <4>3. QED BY <4>1, <4>2
    <3>2. v \in 0 .. numSystemDofs - 1 BY <3>1, NodeRowsApart
    <3>3. PICK c \in Constraints : v \in ToSet(ofConstraints[c]) BY <1>10
    <3>4. v \in ToSet(RowsOf(c)) BY <1>7, <3>3
    <3>5. v \in numSystemDofs .. NumDofs - 1 BY <1>4, <3>4, ConstraintRowsApart
    <3>6. QED BY <1>4, <3>2, <3>5
  <2>7. QED BY <1>9, <1>10, <1>13, <1>14, <2>3, <2>4, <2>5, <2>6
<1>18. QED BY <1>14, <1>15, <1>16, <1>17

\* A constraint's row holds the numbers of its two nodes, none of them twice.
LEMMA ConstraintRowEntries ==
    ASSUME FreedomAssumption, TypesAssumption, NumberingInv, pc \in Creating,
           NEW c \in Constraints
    PROVE  LET row    == ColumnsOfConstraintRow(c)
               target == map[cons[c].target]
               base   == map[cons[c].base]
           IN  /\ row \in Seq(Int) /\ Distinct(row)
               /\ target .. target + TargetActiveDofs(c) - 1 \subseteq ToSet(row)
               /\ base .. base + BaseActiveDofs(c) - 1 \subseteq ToSet(row)
<1> DEFINE target == map[cons[c].target]
           base == map[cons[c].base]
           wide == TargetActiveDofs(c)
           baseWide == BaseActiveDofs(c)
           ofTarget == [k \in 1 .. wide |-> targetTable[c][k - 1]]
           ofBase == [k \in 1 .. baseWide |-> baseTable[c][k - 1]]
<1>1. /\ cons[c].target \in Nodes /\ wide \in 1 .. dofs[cons[c].target]
      /\ \A k \in 0 .. wide - 1 : targetTable[c][k] = target + k
      /\ cons[c].base \in Nodes /\ baseWide \in 0 .. dofs[cons[c].base]
      /\ baseWide # 0 <=> cons[c].type \in TwoNodeTypes
      /\ \A k \in 0 .. baseWide - 1 : baseTable[c][k] = base + k
  BY NumberedPhases, TableEntries DEF TargetActiveDofs, BaseActiveDofs
<1>2. /\ target \in Nat /\ dofs[cons[c].target] \in Nat
      /\ base \in Nat /\ dofs[cons[c].base] \in Nat
  BY <1>1 DEF NumberingInv, TypeOK
<1>3. baseWide # 0 => cons[c].base # cons[c].target
  <2>1. cons[c] \in ConstraintShapes BY DEF NumberingInv, TypeOK
  <2>2. QED BY <1>1, <2>1 DEF ConstraintShapes
<1>4. ColumnsOfConstraintRow(c) = ofTarget \o ofBase
  BY Zenon DEF ColumnsOfConstraintRow
<1> DEFINE targetRange == target .. target + wide - 1
           baseRange == base .. base + baseWide - 1
<1>5. ofTarget \in Seq(Int) /\ ToSet(ofTarget) = targetRange /\ Distinct(ofTarget)
  <2>1. wide \in Nat BY <1>1, <1>2
  <2>2. \A k \in 1 .. wide : targetTable[c][k - 1] = target + k - 1
    <3> SUFFICES ASSUME NEW k \in 1 .. wide PROVE targetTable[c][k - 1] = target + k - 1
      OBVIOUS
    <3>1. k - 1 \in 0 .. wide - 1 BY <2>1
    <3>2. targetTable[c][k - 1] = target + (k - 1) BY <1>1, <3>1
    <3> HIDE DEF target, wide
    <3>3. QED BY <1>2, <2>1, <3>2
  <2>3. ofTarget = [k \in 1 .. wide |-> target + k - 1] BY <2>2
  <2>4. target \in Int BY <1>2
  <2> HIDE DEF ofTarget, wide, target
  <2>5. /\ ofTarget \in Seq(Int) /\ Distinct(ofTarget)
        /\ ToSet(ofTarget) = target .. target + wide - 1
    BY ONLY <2>1, <2>3, <2>4, Consecutive
  <2>6. QED BY <2>5
<1>6. ofBase \in Seq(Int) /\ ToSet(ofBase) = baseRange /\ Distinct(ofBase)
  <2>1. baseWide \in Nat BY <1>1, <1>2
  <2>2. \A k \in 1 .. baseWide : baseTable[c][k - 1] = base + k - 1
    <3> SUFFICES ASSUME NEW k \in 1 .. baseWide PROVE baseTable[c][k - 1] = base + k - 1
      OBVIOUS
    <3>1. k - 1 \in 0 .. baseWide - 1 BY <2>1
    <3>2. baseTable[c][k - 1] = base + (k - 1) BY <1>1, <3>1
    <3> HIDE DEF base, baseWide
    <3>3. QED BY <1>2, <2>1, <3>2
  <2>3. ofBase = [k \in 1 .. baseWide |-> base + k - 1] BY <2>2
  <2>4. base \in Int BY <1>2
  <2> HIDE DEF ofBase, baseWide, base
  <2>5. /\ ofBase \in Seq(Int) /\ Distinct(ofBase)
        /\ ToSet(ofBase) = base .. base + baseWide - 1
    BY ONLY <2>1, <2>3, <2>4, Consecutive
  <2>6. QED BY <2>5
<1>7. targetRange \cap baseRange = {}
  <2> SUFFICES ASSUME NEW r \in targetRange, r \in baseRange PROVE FALSE OBVIOUS
  <2>1. r \in RangeOf(cons[c].target) /\ r \in RangeOf(cons[c].base) /\ baseWide # 0
    <3> HIDE DEF wide, baseWide, target, base
    <3>1. r \in target .. target + dofs[cons[c].target] - 1 BY <1>1, <1>2
    <3>2. r \in base .. base + dofs[cons[c].base] - 1 /\ baseWide # 0 BY <1>1, <1>2
    <3>3. QED BY <3>1, <3>2 DEF RangeOf, target, base
  <2>2. cons[c].target = cons[c].base BY <1>1, <2>1, NodeRowsApart
  <2>3. QED BY <1>3, <2>1, <2>2
<1> HIDE DEF ofTarget, ofBase, targetRange, baseRange
<1>8. /\ ofTarget \o ofBase \in Seq(Int) /\ Distinct(ofTarget \o ofBase)
      /\ ToSet(ofTarget \o ofBase) = targetRange \cup baseRange
  BY <1>5, <1>6, <1>7, JoinedTwo
<1>9. targetRange \subseteq ToSet(ofTarget \o ofBase) /\ baseRange \subseteq ToSet(ofTarget \o ofBase)
  BY <1>8
<1>10. QED BY <1>4, <1>8, <1>9 DEF targetRange, baseRange

-----------------------------------------------------------------------------
(* The sort.  A slot lies in one row, so every row is replaced by its own     *)
(* columns in ascending order.                                               *)

SortedInv ==
    pc = "created" =>
        /\ \A n \in Nodes : \A r \in RangeOf(n) :
              RowColumns(r) = SortedRow(ColumnsOfNodeRow(n))
        /\ \A c \in Constraints : \A r \in ToSet(RowsOf(c)) :
              RowColumns(r) = SortedRow(ColumnsOfConstraintRow(c))

LEMMA RowBounds ==
    ASSUME NumDofs \in Nat, pc \in Pointed, CountedInv, PointersInv, NEW r \in Rows
    PROVE  /\ rowPtrs[r] \in Nat /\ rowEntries[r] \in Nat /\ rowPtrs[NumDofs] \in Nat
           /\ rowPtrs[r + 1] = rowPtrs[r] + rowEntries[r]
           /\ rowPtrs[r] + rowEntries[r] <= rowPtrs[NumDofs]
           /\ \A s \in Rows : r < s => rowPtrs[r] + rowEntries[r] <= rowPtrs[s]
<1>1. /\ rowEntries \in [Rows -> Nat] /\ rowPtrs \in [0 .. NumDofs -> Nat]
      /\ \A q \in Rows : rowPtrs[q + 1] = rowPtrs[q] + rowEntries[q]
      /\ \A q, s \in 0 .. NumDofs : q <= s => rowPtrs[q] <= rowPtrs[s]
  BY DEF CountedInv, PointersInv, Pointed
<1>2. /\ r \in 0 .. NumDofs /\ r + 1 \in 0 .. NumDofs /\ NumDofs \in 0 .. NumDofs
      /\ r + 1 <= NumDofs
      /\ \A s \in Rows : s \in 0 .. NumDofs /\ (r < s => r + 1 <= s)
  BY DEF Rows
<1>3. rowPtrs[r + 1] = rowPtrs[r] + rowEntries[r] BY <1>1
<1>4. rowPtrs[r + 1] <= rowPtrs[NumDofs] BY <1>1, <1>2
<1>5. \A s \in Rows : r < s => rowPtrs[r + 1] <= rowPtrs[s] BY <1>1, <1>2
<1>6. rowPtrs[r] \in Nat /\ rowEntries[r] \in Nat /\ rowPtrs[NumDofs] \in Nat BY <1>1, <1>2
<1>7. QED BY <1>3, <1>4, <1>5, <1>6

LEMMA SlotsOfRows ==
    ASSUME NumDofs \in Nat, pc \in Pointed, CountedInv, PointersInv,
           NEW r \in Rows, NEW k \in 1 .. rowEntries[r], NEW slot, slot = rowPtrs[r] + k - 1
    PROVE  slot \in DOMAIN colInds /\ RowOfSlot(slot) = r /\ slot - rowPtrs[r] + 1 = k
<1>1. /\ rowPtrs[r] \in Nat /\ rowEntries[r] \in Nat /\ rowPtrs[NumDofs] \in Nat
      /\ rowPtrs[r] + rowEntries[r] <= rowPtrs[NumDofs]
  BY RowBounds
<1>2. /\ slot \in Int /\ rowPtrs[r] <= slot /\ slot < rowPtrs[r] + rowEntries[r]
      /\ slot \in 0 .. rowPtrs[NumDofs] - 1 /\ slot - rowPtrs[r] + 1 = k
  <2>1. k \in Int OBVIOUS
  <2>2. slot - rowPtrs[r] + 1 = k BY <1>1, <2>1
  <2>3. QED BY <1>1, <2>2, SlotOfRow
<1>3. DOMAIN colInds = 0 .. rowPtrs[NumDofs] - 1 BY DEF PointersInv
<1> DEFINE Holds(q) == q \in Rows /\ slot \in rowPtrs[q] .. rowPtrs[q + 1] - 1
<1>4. \A q \in Rows : slot \in rowPtrs[q] .. rowPtrs[q + 1] - 1 <=>
                        rowPtrs[q] <= slot /\ slot < rowPtrs[q] + rowEntries[q]
  <2> SUFFICES ASSUME NEW q \in Rows
               PROVE  slot \in rowPtrs[q] .. rowPtrs[q + 1] - 1 <=>
                        rowPtrs[q] <= slot /\ slot < rowPtrs[q] + rowEntries[q]
    OBVIOUS
  <2>1. /\ rowPtrs[q] \in Nat /\ rowEntries[q] \in Nat
        /\ rowPtrs[q + 1] = rowPtrs[q] + rowEntries[q]
    BY RowBounds
  <2>2. QED BY <1>2, <2>1
<1>5. ASSUME NEW q \in Rows, slot \in rowPtrs[q] .. rowPtrs[q + 1] - 1 PROVE q = r
  <2>1. rowPtrs[q] <= slot /\ slot < rowPtrs[q] + rowEntries[q] BY <1>4, <1>5
  <2>2. rowPtrs[q] \in Nat /\ rowEntries[q] \in Nat BY RowBounds
  <2>3. r \in Int /\ q \in Int BY DEF Rows
  <2>4. q < r => rowPtrs[q] + rowEntries[q] <= rowPtrs[r] BY RowBounds
  <2>5. r < q => rowPtrs[r] + rowEntries[r] <= rowPtrs[q] BY RowBounds
  <2>6. ~ (rowPtrs[q] + rowEntries[q] <= rowPtrs[r]) BY <1>1, <1>2, <2>1, <2>2, SlotsApart
  <2>7. ~ (rowPtrs[r] + rowEntries[r] <= rowPtrs[q]) BY <1>1, <1>2, <2>1, <2>2, SlotsApart
  <2>8. QED BY <2>3, <2>4, <2>5, <2>6, <2>7
<1>6. slot \in rowPtrs[r] .. rowPtrs[r + 1] - 1 BY <1>2, <1>4
<1>7. RowOfSlot(slot) = r BY <1>5, <1>6 DEF RowOfSlot
<1>8. QED BY <1>2, <1>3, <1>7

LEMMA SortReplacesRows ==
    ASSUME NumDofs \in Nat, PatternInv, SortRows
    PROVE  \A r \in Rows : RowColumns(r)' = SortedRow(RowColumns(r))
<1> SUFFICES ASSUME NEW r \in Rows PROVE RowColumns(r)' = SortedRow(RowColumns(r)) OBVIOUS
<1>1. /\ pc \in Pointed /\ CountedInv /\ PointersInv /\ rowPtrs' = rowPtrs
      /\ colInds' = [s \in DOMAIN colInds |->
                       SortedRows[RowOfSlot(s)][s - rowPtrs[RowOfSlot(s)] + 1]]
  BY DEF SortRows, PatternInv, Pointed, Creating
<1>2. rowPtrs[r + 1] - rowPtrs[r] = rowEntries[r]
  <2>1. /\ rowPtrs[r] \in Nat /\ rowEntries[r] \in Nat
        /\ rowPtrs[r + 1] = rowPtrs[r] + rowEntries[r]
    BY <1>1, RowBounds
  <2>2. QED BY <2>1
<1> DEFINE sorted == SortedRow(RowColumns(r))
<1>3. DOMAIN RowColumns(r) = 1 .. rowEntries[r] BY <1>2 DEF RowColumns
<1>4. sorted = [k \in 1 .. rowEntries[r] |-> sorted[k]]
  <2> DEFINE s == RowColumns(r)
             pick(p) == CHOOSE v \in ToSet(s) :
                          /\ Cardinality({k \in DOMAIN s : s[k] < v}) < p
                          /\ Cardinality({k \in DOMAIN s : s[k] <= v}) >= p
  <2>1. sorted = [p \in DOMAIN s |-> pick(p)] BY Zenon DEF SortedRow
  <2> HIDE DEF sorted, pick
  <2>2. QED BY <1>3, <2>1
<1>5. ASSUME NEW k \in 1 .. rowEntries[r]
      PROVE  colInds'[rowPtrs[r] + k - 1] = sorted[k]
  <2> DEFINE slot == rowPtrs[r] + k - 1
  <2>1. slot = rowPtrs[r] + k - 1 OBVIOUS
  <2> HIDE DEF slot
  <2>2. slot \in DOMAIN colInds /\ RowOfSlot(slot) = r /\ slot - rowPtrs[r] + 1 = k
    BY <1>1, <2>1, SlotsOfRows
  <2>3. SortedRows[r] = sorted BY DEF SortedRows
  <2> HIDE DEF sorted
  <2>4. colInds'[slot] = SortedRows[RowOfSlot(slot)][slot - rowPtrs[RowOfSlot(slot)] + 1]
    BY <1>1, <2>2
  <2>5. colInds'[slot] = sorted[k] BY <2>2, <2>3, <2>4
  <2>6. QED BY <2>1, <2>5
<1>6. RowColumns(r)' = [k \in 1 .. rowEntries[r] |-> colInds'[rowPtrs[r] + k - 1]]
  BY <1>1, <1>2 DEF RowColumns
<1> HIDE DEF sorted
<1>7. RowColumns(r)' = sorted BY <1>4, <1>5, <1>6
<1>8. QED BY <1>7 DEF sorted

\* Every thread of the second filling kernel has run when the sort begins.
LEMMA SortRowsSorts ==
    ASSUME FreedomAssumption, TypesAssumption, PatternInv, SortRows
    PROVE  SortedInv'
<1>1. /\ pc = "constraintColumns" /\ filled = Constraints /\ pc \in Creating
      /\ UNCHANGED <<mesh, threads, nodeTables, userTables>>
  BY DEF SortRows, Creating
<1>2. /\ \A n \in Nodes : NodeRowsHold(n)
      /\ \A c \in Constraints : ConstraintRowsHold(c)
  BY <1>1 DEF PatternInv, FilledInv
<1>3. numSystemDofs \in Nat /\ \A n \in Nodes : RangeOf(n) \subseteq 0 .. numSystemDofs - 1
  BY <1>1, NodeRowsApart DEF PatternInv
<1>4. /\ NumDofs \in Nat /\ numSystemDofs <= NumDofs
      /\ \A c \in Constraints : ToSet(RowsOf(c)) \subseteq numSystemDofs .. NumDofs - 1
  BY <1>3, ConstraintRowsApart
<1>5. /\ \A n \in Nodes : \A r \in RangeOf(n) : r \in Rows
      /\ \A c \in Constraints : \A r \in ToSet(RowsOf(c)) : r \in Rows
  BY <1>3, <1>4 DEF Rows
<1>6. \A r \in Rows : RowColumns(r)' = SortedRow(RowColumns(r)) BY <1>4, SortReplacesRows
<1>7. /\ \A n \in Nodes : \A r \in RangeOf(n) :
            RowColumns(r)' = SortedRow(ColumnsOfNodeRow(n))
      /\ \A c \in Constraints : \A r \in ToSet(RowsOf(c)) :
            RowColumns(r)' = SortedRow(ColumnsOfConstraintRow(c))
  BY <1>2, <1>5, <1>6 DEF NodeRowsHold, ConstraintRowsHold
<1>8. /\ (\A n : RangeOf(n)' = RangeOf(n)) /\ (\A c : RowsOf(c)' = RowsOf(c))
      /\ (\A n : ColumnsOfNodeRow(n)' = ColumnsOfNodeRow(n))
      /\ (\A c : ColumnsOfConstraintRow(c)' = ColumnsOfConstraintRow(c))
  BY <1>1, ContentsStay
<1>9. \A t : SortedRow(t)' = SortedRow(t) BY DEF SortedRow
<1>10. QED BY <1>7, <1>8, <1>9 DEF SortedInv

LEMMA SortedStaysSorted ==
    ASSUME SortedInv, UNCHANGED vars PROVE SortedInv'
<1>1. /\ pc' = pc /\ rowPtrs' = rowPtrs /\ colInds' = colInds
      /\ UNCHANGED <<mesh, threads, nodeTables, userTables>>
  BY DEF vars, patternVars, freedomVars
<1>2. \A r : RowColumns(r)' = RowColumns(r) BY <1>1 DEF RowColumns
<1>3. /\ (\A n : RangeOf(n)' = RangeOf(n)) /\ (\A c : RowsOf(c)' = RowsOf(c))
      /\ (\A n : ColumnsOfNodeRow(n)' = ColumnsOfNodeRow(n))
      /\ (\A c : ColumnsOfConstraintRow(c)' = ColumnsOfConstraintRow(c))
  BY <1>1, ContentsStay
<1>4. QED BY <1>1, <1>2, <1>3 DEF SortedInv

(* Once the pattern is created, every row of a node or a constraint holds    *)
(* the columns that belong into it, all of them and in ascending order: the  *)
(* sort moves no column from one row into another.                           *)
THEOREM SortedRowsHoldTheirColumns == CreateSolver => []SortedInv
<1>1. PatternInit => SortedInv BY DEF PatternInit, Init, SortedInv
<1>2. PatternInv /\ SortedInv /\ [Next]_vars => SortedInv'
  <2> SUFFICES ASSUME PatternInv, SortedInv, [Next]_vars PROVE SortedInv' OBVIOUS
  <2>1. CASE Numbering
    <3>1. pc' \notin Creating
      BY <2>1, FreedomAssumption, NumberingCreatesNothing DEF PatternInv
    <3>2. QED BY <3>1 DEF SortedInv, Creating
  <2>2. CASE ComputeRowEntries BY <2>2 DEF ComputeRowEntries, SortedInv
  <2>3. CASE ScanRowEntries BY <2>3 DEF ScanRowEntries, SortedInv
  <2>4. CASE \E n \in Nodes : FillNodeRows(n) BY <2>4 DEF FillNodeRows, SortedInv
  <2>5. CASE SystemColumnsDone BY <2>5 DEF SystemColumnsDone, SortedInv
  <2>6. CASE \E c \in Constraints : FillConstraintRows(c)
    BY <2>6 DEF FillConstraintRows, SortedInv
  <2>7. CASE SortRows BY <2>7, FreedomAssumption, TypesAssumption, SortRowsSorts
  <2>8. CASE UNCHANGED vars BY <2>8, SortedStaysSorted
  <2>9. QED
    BY <2>1, <2>2, <2>3, <2>4, <2>5, <2>6, <2>7, <2>8, Zenon DEF Next, Creation
<1>3. QED BY <1>1, <1>2, FillingFollowsCounting, PTL DEF CreateSolver

-----------------------------------------------------------------------------
(* The place of a term.  The columns of an element's node or of a constraint *)
(* follow one another in every row that couples to it, and no other column   *)
(* lies between two consecutive numbers once the row is in order.            *)

Created ==
    /\ FreedomAssumption /\ TypesAssumption /\ PatternInv /\ SortedInv
    /\ pc = "created" /\ ~ElementsShareTwoNodes

LEMMA CreatedRows ==
    ASSUME Created
    PROVE  /\ pc \in Creating /\ pc \in Pointed /\ NumberingInv
           /\ pc \notin Untabled /\ numSystemDofs \in Nat /\ NumDofs \in Nat
           /\ \A n \in Nodes : RangeOf(n) \subseteq Rows
           /\ \A c \in Constraints : ToSet(RowsOf(c)) \subseteq Rows
<1>1. pc \in Creating /\ pc \in Pointed /\ NumberingInv /\ FreedomAssumption
  BY DEF Created, PatternInv, Creating, Pointed
<1>2. numSystemDofs \in Nat /\ \A n \in Nodes : RangeOf(n) \subseteq 0 .. numSystemDofs - 1
  BY <1>1, NodeRowsApart
<1>3. /\ NumDofs \in Nat /\ numSystemDofs <= NumDofs
      /\ \A c \in Constraints : ToSet(RowsOf(c)) \subseteq numSystemDofs .. NumDofs - 1
  BY <1>1, <1>2, ConstraintRowsApart
<1>4. pc \notin Untabled BY <1>1, NumberedPhases
<1>5. QED BY <1>1, <1>2, <1>3, <1>4 DEF Rows

LEMMA LandsInSortedRow ==
    ASSUME Created, NEW r \in Rows, NEW row \in Seq(Int), Distinct(row),
           rowEntries[r] = Len(row), RowColumns(r) = SortedRow(row),
           NEW first \in Int, NEW width \in Nat,
           first .. first + width - 1 \subseteq ToSet(row)
    PROVE  LandsIn(r, first, width)
<1>1. Len(row) \in Nat /\ row \in [1 .. Len(row) -> Int] BY LenProperties, SeqDef
<1>2. rowPtrs[r] \in Nat /\ rowPtrs[r + 1] = rowPtrs[r] + rowEntries[r]
  <2>1. CountedInv /\ PointersInv BY DEF Created, PatternInv
  <2>2. QED BY <2>1, CreatedRows, RowBounds
<1>3. QED BY <1>1, <1>2, BlockLands

LEMMA LandsInNodeRow ==
    ASSUME Created, NEW n \in Nodes, NEW r \in RangeOf(n), NEW first \in Int, NEW width \in Nat,
           first .. first + width - 1 \subseteq ToSet(ColumnsOfNodeRow(n))
    PROVE  LandsIn(r, first, width)
<1>1. ColumnsOfNodeRow(n) \in Seq(Int) /\ Distinct(ColumnsOfNodeRow(n))
  BY CreatedRows, NodeRowEntries DEF Created
<1>2. rowEntries[r] = Len(ColumnsOfNodeRow(n)) /\ RowColumns(r) = SortedRow(ColumnsOfNodeRow(n))
  BY CreatedRows DEF Created, PatternInv, CountedInv, SortedInv
<1>3. r \in Rows BY CreatedRows
<1>4. QED BY <1>1, <1>2, <1>3, LandsInSortedRow

LEMMA LandsInConstraintRow ==
    ASSUME Created, NEW c \in Constraints, NEW r \in ToSet(RowsOf(c)),
           NEW first \in Int, NEW width \in Nat,
           first .. first + width - 1 \subseteq ToSet(ColumnsOfConstraintRow(c))
    PROVE  LandsIn(r, first, width)
<1>1. ColumnsOfConstraintRow(c) \in Seq(Int) /\ Distinct(ColumnsOfConstraintRow(c))
  BY CreatedRows, ConstraintRowEntries DEF Created
<1>2. /\ rowEntries[r] = Len(ColumnsOfConstraintRow(c))
      /\ RowColumns(r) = SortedRow(ColumnsOfConstraintRow(c))
  BY CreatedRows DEF Created, PatternInv, CountedInv, SortedInv
<1>3. r \in Rows BY CreatedRows
<1>4. QED BY <1>1, <1>2, <1>3, LandsInSortedRow

\* A part of a node's numbers.
LEMMA PartOfRange ==
    ASSUME NEW first \in Nat, NEW size \in Nat, NEW width \in 0 .. size
    PROVE  /\ first .. first + width - 1 \subseteq first .. first + size - 1
           /\ \A k \in 0 .. width - 1 : first + k \in first .. first + size - 1
           /\ first + 0 = first
OBVIOUS

LEMMA ElementsLand ==
    ASSUME Created, NEW e \in Elements PROVE ElementTermsLand(e)
<1> DEFINE nodes == elems[e].nodes
           width == Width(elems[e].kind)
<1> SUFFICES ASSUME NEW k \in DOMAIN nodes, NEW l \in DOMAIN nodes,
                    NEW component \in DOMAIN elemTable[e][k]
             PROVE  LandsIn(elemTable[e][k][component], elemTable[e][l][0], width)
  BY DEF ElementTermsLand
<1>1. FreedomAssumption /\ TypesAssumption /\ NumberingInv /\ pc \in Creating /\ pc \notin Untabled
  BY CreatedRows DEF Created
<1>2. \A j \in DOMAIN nodes :
        /\ nodes[j] \in Nodes
        /\ elemTable[e][j] = [x \in 0 .. width - 1 |-> map[nodes[j]] + x]
        /\ width \in 1 .. dofs[nodes[j]]
  BY <1>1, TableEntries
<1>3. \A n \in Nodes : map[n] \in Nat /\ dofs[n] \in Nat BY <1>1 DEF NumberingInv, TypeOK
<1> DEFINE m == nodes[k]
           n == nodes[l]
<1>4. m \in Nodes /\ n \in Nodes /\ ElementContainsNode(e, m) BY <1>2 DEF ElementContainsNode
<1>5. RangeOf(n) \subseteq ToSet(ColumnsOfNodeRow(m)) BY <1>1, <1>4, NodeRowEntries
<1>6. /\ width \in 1 .. dofs[m] /\ width \in 1 .. dofs[n]
      /\ elemTable[e][k] = [x \in 0 .. width - 1 |-> map[m] + x]
      /\ elemTable[e][l] = [x \in 0 .. width - 1 |-> map[n] + x]
  BY <1>2
<1> HIDE DEF nodes, width, m, n
<1>7. /\ width \in Nat /\ width \in 0 .. dofs[m] /\ width \in 0 .. dofs[n] /\ 0 \in 0 .. width - 1
      /\ map[m] \in Nat /\ dofs[m] \in Nat /\ map[n] \in Nat /\ dofs[n] \in Nat
  BY <1>3, <1>4, <1>6
<1>8. /\ elemTable[e][k][component] = map[m] + component /\ component \in 0 .. width - 1
      /\ elemTable[e][l][0] = map[n] + 0
  BY <1>6, <1>7
<1>9. elemTable[e][k][component] \in RangeOf(m)
  BY <1>7, <1>8, PartOfRange DEF RangeOf
<1>10. /\ elemTable[e][l][0] = map[n] /\ map[n] \in Int
       /\ map[n] .. map[n] + width - 1 \subseteq RangeOf(n)
  BY <1>7, <1>8, PartOfRange DEF RangeOf
<1>11. map[n] .. map[n] + width - 1 \subseteq ToSet(ColumnsOfNodeRow(m)) BY <1>5, <1>10
<1>12. LandsIn(elemTable[e][k][component], map[n], width)
  BY <1>4, <1>7, <1>9, <1>10, <1>11, LandsInNodeRow
<1>13. QED BY <1>10, <1>12

\* The nodes of a constraint, as its tables have them.
LEMMA NodesOfConstraint ==
    ASSUME Created, NEW c \in Constraints
    PROVE  /\ cons[c].target \in Nodes /\ cons[c].base \in Nodes
           /\ map[cons[c].target] \in Nat /\ map[cons[c].base] \in Nat
           /\ dofs[cons[c].target] \in Nat /\ dofs[cons[c].base] \in Nat
           /\ TargetActiveDofs(c) \in 0 .. dofs[cons[c].target] /\ TargetActiveDofs(c) \in Nat \ {0}
           /\ BaseActiveDofs(c) \in 0 .. dofs[cons[c].base] /\ BaseActiveDofs(c) \in Nat
           /\ targetTable[c][0] = map[cons[c].target]
           /\ BaseActiveDofs(c) # 0 => baseTable[c][0] = map[cons[c].base]
<1>1. FreedomAssumption /\ TypesAssumption /\ NumberingInv /\ pc \notin Untabled
  BY CreatedRows DEF Created
<1>2. /\ cons[c].target \in Nodes /\ TargetActiveDofs(c) \in 1 .. dofs[cons[c].target]
      /\ \A k \in 0 .. TargetActiveDofs(c) - 1 : targetTable[c][k] = map[cons[c].target] + k
      /\ cons[c].base \in Nodes /\ BaseActiveDofs(c) \in 0 .. dofs[cons[c].base]
      /\ \A k \in 0 .. BaseActiveDofs(c) - 1 : baseTable[c][k] = map[cons[c].base] + k
  BY <1>1, TableEntries DEF TargetActiveDofs, BaseActiveDofs
<1>3. /\ map[cons[c].target] \in Nat /\ map[cons[c].base] \in Nat
      /\ dofs[cons[c].target] \in Nat /\ dofs[cons[c].base] \in Nat
  BY <1>1, <1>2 DEF NumberingInv, TypeOK
<1>4. /\ TargetActiveDofs(c) \in 0 .. dofs[cons[c].target] /\ TargetActiveDofs(c) \in Nat \ {0}
      /\ BaseActiveDofs(c) \in Nat /\ 0 \in 0 .. TargetActiveDofs(c) - 1
      /\ BaseActiveDofs(c) # 0 => 0 \in 0 .. BaseActiveDofs(c) - 1
  BY <1>2, <1>3
<1>5. /\ targetTable[c][0] = map[cons[c].target] + 0
      /\ BaseActiveDofs(c) # 0 => baseTable[c][0] = map[cons[c].base] + 0
  BY <1>2, <1>4
<1>6. QED BY <1>2, <1>3, <1>4, <1>5

LEMMA GradientsLand ==
    ASSUME Created, NEW c \in Constraints PROVE GradientTermsLand(c)
<1> SUFFICES ASSUME NEW r \in ToSet(RowsOf(c))
             PROVE  /\ BaseActiveDofs(c) # 0 => LandsIn(r, baseTable[c][0], BaseActiveDofs(c))
                    /\ LandsIn(r, targetTable[c][0], TargetActiveDofs(c))
  BY DEF GradientTermsLand
<1> DEFINE target == map[cons[c].target]
           base == map[cons[c].base]
<1>1. /\ target \in Int /\ base \in Int
      /\ TargetActiveDofs(c) \in Nat /\ BaseActiveDofs(c) \in Nat
      /\ targetTable[c][0] = target /\ (BaseActiveDofs(c) # 0 => baseTable[c][0] = base)
  BY NodesOfConstraint
<1>2. /\ target .. target + TargetActiveDofs(c) - 1 \subseteq ToSet(ColumnsOfConstraintRow(c))
      /\ base .. base + BaseActiveDofs(c) - 1 \subseteq ToSet(ColumnsOfConstraintRow(c))
  BY CreatedRows, ConstraintRowEntries DEF Created
<1> HIDE DEF target, base
<1>3. LandsIn(r, target, TargetActiveDofs(c)) BY <1>1, <1>2, LandsInConstraintRow
<1>4. LandsIn(r, base, BaseActiveDofs(c)) BY <1>1, <1>2, LandsInConstraintRow
<1>5. QED BY <1>1, <1>3, <1>4

LEMMA TransposesLand ==
    ASSUME Created, NEW c \in Constraints PROVE TransposeTermsLand(c)
<1> DEFINE columns == NumRowsForConstraint(cons[c].type)
           first == numSystemDofs + StartRow(c)
<1>1. FreedomAssumption /\ NumberingInv /\ pc \in Creating /\ numSystemDofs \in Nat
  BY CreatedRows DEF Created
<1>2. columns \in Nat \ {0} /\ ConstraintRows[c] = columns BY <1>1, RowsOfConstraints
<1>3. StartRow(c) \in Nat
  <2>1. c \in 1 .. NumConstraints + 1 BY <1>1 DEF FreedomAssumption, Constraints
  <2>2. QED BY <1>1, <2>1, StartRows
<1>4. first \in Int /\ RowsOf(c)[1] = first
  <2>1. RowsOf(c)[1] = numSystemDofs + StartRow(c) + 1 - 1 BY <1>2 DEF RowsOf
  <2>2. QED BY <1>1, <1>3, <2>1
<1>5. ToSet(RowsOf(c)) = first .. first + columns - 1 BY <1>1, <1>2, RangeOfConstraint
<1> HIDE DEF columns, first
<1>6. ASSUME NEW n \in Nodes, ConstraintContainsNode(c, map[n]), NEW r \in RangeOf(n)
      PROVE  LandsIn(r, first, columns)
  <2>1. ToSet(RowsOf(c)) \subseteq ToSet(ColumnsOfNodeRow(n)) BY <1>1, <1>6, NodeRowEntries
  <2>2. QED BY <1>2, <1>4, <1>5, <2>1, LandsInNodeRow
<1>7. ASSUME NEW k \in 0 .. BaseActiveDofs(c) - 1
      PROVE  LandsIn(baseTable[c][0] + k, first, columns)
  <2> DEFINE n == cons[c].base
  <2>1. /\ n \in Nodes /\ map[n] \in Nat /\ dofs[n] \in Nat
        /\ BaseActiveDofs(c) \in 0 .. dofs[n] /\ BaseActiveDofs(c) \in Nat
        /\ BaseActiveDofs(c) # 0 => baseTable[c][0] = map[n]
    BY NodesOfConstraint
  <2>2. BaseActiveDofs(c) # 0 BY <2>1
  <2>3. ConstraintContainsNode(c, map[n])
    BY <2>1, <2>2 DEF ConstraintContainsNode, BaseContainsNode
  <2>4. map[n] + k \in RangeOf(n) BY <2>1, PartOfRange DEF RangeOf
  <2>5. baseTable[c][0] + k = map[n] + k BY <2>1, <2>2
  <2> HIDE DEF n
  <2>6. QED BY <1>6, <2>1, <2>3, <2>4, <2>5
<1>8. ASSUME NEW k \in 0 .. TargetActiveDofs(c) - 1
      PROVE  LandsIn(targetTable[c][0] + k, first, columns)
  <2> DEFINE n == cons[c].target
  <2>1. /\ n \in Nodes /\ map[n] \in Nat /\ dofs[n] \in Nat
        /\ TargetActiveDofs(c) \in 0 .. dofs[n] /\ TargetActiveDofs(c) \in Nat \ {0}
        /\ targetTable[c][0] = map[n]
    BY NodesOfConstraint
  <2>2. ConstraintContainsNode(c, map[n])
    BY <2>1 DEF ConstraintContainsNode, TargetContainsNode
  <2>3. map[n] + k \in RangeOf(n) BY <2>1, PartOfRange DEF RangeOf
  <2>4. targetTable[c][0] + k = map[n] + k BY <2>1
  <2> HIDE DEF n
  <2>5. QED BY <1>6, <2>1, <2>2, <2>3, <2>4
<1>9. QED BY <1>4, <1>7, <1>8 DEF TransposeTermsLand, columns

(* TermsLandInTheirColumn of SparsityPattern, for every mesh of every size:  *)
(* unless two elements share two nodes, every block of an element and every  *)
(* gradient and transpose of a constraint is found at its first column and   *)
(* lies there, in its row, without a foreign column in between.              *)
THEOREM TermsAlwaysLand == CreateSolver => []TermsLandInTheirColumn
<1>1. PatternInv /\ SortedInv => TermsLandInTheirColumn
  <2> SUFFICES ASSUME PatternInv, SortedInv, pc = "created", ~ElementsShareTwoNodes
               PROVE  /\ \A e \in Elements : ElementTermsLand(e)
                      /\ \A c \in Constraints : GradientTermsLand(c) /\ TransposeTermsLand(c)
    BY DEF TermsLandInTheirColumn
  <2>1. Created BY FreedomAssumption, TypesAssumption DEF Created
  <2>2. QED BY <2>1, ElementsLand, GradientsLand, TransposesLand
<1>2. QED BY <1>1, FillingFollowsCounting, SortedRowsHoldTheirColumns, PTL
=============================================================================
