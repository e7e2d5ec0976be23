-------------------------- MODULE BeamTeam_proofs --------------------------
(* Theorems about BeamTeam, for every team size, vector width and list of   *)
(* elements, and their proofs.                                              *)
EXTENDS BeamTeam, Integers, TLAPS

-----------------------------------------------------------------------------
(* Division, as far as the cutting of rows into vectors needs it. *)

LEMMA DivisionSplits ==
    ASSUME NEW a \in Nat, NEW b \in Nat \ {0}
    PROVE  /\ a \div b \in Nat
           /\ a % b \in 0..(b - 1)
           /\ a = b * (a \div b) + (a % b)
BY SMT

LEMMA DivisionRecovers ==
    ASSUME NEW q \in Nat, NEW b \in Nat \ {0}, NEW r \in 0..(b - 1)
    PROVE  (b * q + r) \div b = q /\ (b * q + r) % b = r
BY SMT

LEMMA QuotientBelow ==
    ASSUME NEW a \in Nat, NEW b \in Nat \ {0}, NEW c \in Nat, a < b * c
    PROVE  a \div b < c
BY SMT

LEMMA QuotientGrows ==
    ASSUME NEW p \in Nat, NEW q \in Nat, NEW b \in Nat \ {0}, p <= q
    PROVE  p \div b <= q \div b
BY SMT

LEMMA ProductGrows ==
    ASSUME NEW p \in Nat, NEW q \in Nat, NEW b \in Nat, p <= q
    PROVE  p * b <= q * b /\ b * p <= b * q
BY SMT

-----------------------------------------------------------------------------
(* Vectors of nodes. *)

LEMMA SimdNodesHold ==
    ASSUME TeamAssumption, NEW nodes \in Nat \ {0}
    PROVE  /\ SimdNodes(nodes) \in Nat \ {0}
           /\ nodes <= SimdNodes(nodes) * Width
<1> DEFINE q == nodes \div Width
           r == nodes % Width
<1>1. q \in Nat /\ r \in 0..(Width - 1) /\ nodes = Width * q + r
  BY DivisionSplits DEF TeamAssumption
<1> HIDE DEF q, r
<1>2. SimdNodes(nodes) = q + (IF r = 0 THEN 0 ELSE 1)
  BY DEF SimdNodes, q, r
<1>3. CASE r = 0
  BY <1>1, <1>2, <1>3, SMT DEF TeamAssumption
<1>4. CASE r # 0
  BY <1>1, <1>2, <1>4, SMT DEF TeamAssumption
<1>5. QED BY <1>3, <1>4

\* The rows of shape functions the launch asks scratch memory for hold the
\* padded rows of every element that has no more nodes than the largest one.
THEOREM ScratchHoldsPadding ==
    ASSUME TeamAssumption, NEW nodes \in Nat \ {0}, NEW most \in Nat, nodes <= most
    PROVE  PaddedNodes(nodes) <= ScratchRows(most)
<1>1. /\ nodes \div Width \in Nat
      /\ most \div Width \in Nat
      /\ nodes \div Width <= most \div Width
  BY QuotientGrows, DivisionSplits DEF TeamAssumption
<1>2. SimdNodes(nodes) \in Nat /\ (most \div Width) + 1 \in Nat
  BY <1>1, SimdNodesHold
<1>3. SimdNodes(nodes) <= (most \div Width) + 1
  BY <1>1, <1>2 DEF SimdNodes
<1>4. SimdNodes(nodes) * Width <= ((most \div Width) + 1) * Width
  BY <1>2, <1>3, ProductGrows DEF TeamAssumption
<1>5. QED BY <1>4 DEF PaddedNodes, ScratchRows

\* The items of a matrix stage store each pair of nodes once: one item has the
\* row and, among its stored lanes, the column.
Stores(nodes, i, row, col) ==
    /\ RowOf(nodes, i) = row
    /\ LaneOf(nodes, i) <= col
    /\ col < LaneOf(nodes, i) + NumLanes(nodes, LaneOf(nodes, i))

LEMMA ItemOfPair ==
    ASSUME TeamAssumption, NEW nodes \in Nat \ {0},
           NEW row \in Nat, NEW col \in 0..(nodes - 1),
           NEW i \in Nat, Stores(nodes, i, row, col)
    PROVE  i = SimdNodes(nodes) * row + (col \div Width)
<1> DEFINE S == SimdNodes(nodes)
           v == i % S
<1>1. S \in Nat \ {0} BY SimdNodesHold
<1>2. i = S * row + v /\ v \in 0..(S - 1)
  BY <1>1, DivisionSplits DEF Stores, RowOf
<1>3. LaneOf(nodes, i) = v * Width BY DEF LaneOf
<1> HIDE DEF v
<1>4. v \in Nat BY <1>1, <1>2
<1>5. v * Width \in Nat /\ v * Width <= col /\ col < v * Width + Width
  BY <1>3, <1>4, SMT DEF Stores, NumLanes, TeamAssumption
<1> DEFINE r == col - v * Width
<1>6. r \in 0..(Width - 1) /\ col = Width * v + r
  BY <1>4, <1>5, SMT DEF TeamAssumption
<1> HIDE DEF r
<1>7. col \div Width = v
  <2>1. (Width * v + r) \div Width = v
    BY <1>4, <1>6, DivisionRecovers DEF TeamAssumption
  <2>2. QED BY <1>6, <2>1
<1>8. QED BY <1>2, <1>7

THEOREM PairsStoredOnce ==
    ASSUME TeamAssumption, NEW nodes \in Nat \ {0},
           NEW row \in 0..(nodes - 1), NEW col \in 0..(nodes - 1)
    PROVE  /\ \E i \in 0..(nodes * SimdNodes(nodes) - 1) : Stores(nodes, i, row, col)
           /\ \A i, j \in Nat :
                Stores(nodes, i, row, col) /\ Stores(nodes, j, row, col) => i = j
<1> DEFINE S == SimdNodes(nodes)
           v == col \div Width
           i == S * row + v
<1>1. S \in Nat \ {0} /\ nodes <= Width * S
  BY SimdNodesHold DEF TeamAssumption
<1>0. col \in Nat /\ Width \in Nat \ {0} BY DEF TeamAssumption
<1>2. v \in Nat /\ v < S
  <2>1. col < Width * S
    <3>1. Width * S \in Nat BY <1>0, <1>1, SMT
    <3>2. QED BY <3>1, <1>0, <1>1, SMT
  <2>2. QED BY <2>1, <1>0, <1>1, QuotientBelow, DivisionSplits
<1>3. col % Width \in 0..(Width - 1) /\ col = Width * v + (col % Width)
  BY <1>0, DivisionSplits
<1> HIDE DEF v, S
<1>4. i \in Nat /\ i \div S = row /\ i % S = v
  <2>1. v \in 0..(S - 1) /\ row \in Nat BY <1>1, <1>2
  <2>2. (S * row + v) \div S = row /\ (S * row + v) % S = v
    BY <2>1, <1>1, DivisionRecovers
  <2>3. QED BY <2>1, <2>2, <1>1, <1>2
<1>5. i < nodes * S
  <2>1. (row + 1) * S <= nodes * S BY <1>1, ProductGrows
  <2>2. (row + 1) * S = S * row + S BY <1>1, SMT
  <2>3. S * row \in Nat /\ nodes * S \in Nat BY <1>1, SMT
  <2>4. QED BY <2>1, <2>2, <2>3, <1>1, <1>2, SMT
<1> HIDE DEF i
<1>6. Stores(nodes, i, row, col)
  <2>1. RowOf(nodes, i) = row /\ LaneOf(nodes, i) = v * Width
    BY <1>4 DEF RowOf, LaneOf, S
  <2>2. v * Width \in Nat /\ v * Width <= col /\ col < v * Width + Width
    BY <1>2, <1>3, SMT DEF TeamAssumption
  <2>3. QED BY <2>1, <2>2, SMT DEF Stores, NumLanes, TeamAssumption
<1>7. i \in 0..(nodes * S - 1)
  <2>1. nodes * S \in Nat BY <1>1, SMT
  <2>2. QED BY <2>1, <1>4, <1>5, SMT
<1>8. \E k \in 0..(nodes * SimdNodes(nodes) - 1) : Stores(nodes, k, row, col)
  BY <1>6, <1>7 DEF S
<1>9. QED BY <1>8, ItemOfPair

-----------------------------------------------------------------------------
(* Types, and the loads of the vectorised stages. *)

LEMMA InitTypes == ASSUME TeamAssumption, Init PROVE TypeOK
<1>1. 1 \in 1..(Len(Elements) + 1) /\ 1 \in 1..LastStage
  BY DEF TeamAssumption, LastStage, Stages
<1>2. Threads \subseteq Nat BY DEF Threads, TeamAssumption
<1>3. DOMAIN mem = {} BY DEF Init
<1>4. QED BY <1>1, <1>2, <1>3 DEF Init, TypeOK

LEMMA NextTypes == ASSUME TeamAssumption, TypeOK, [Next]_vars PROVE TypeOK'
<1>1. Len(Elements) \in Nat /\ LastStage = 15 /\ Threads \subseteq Nat /\ TeamSize \in Nat
  BY DEF TeamAssumption, LastStage, Stages, Threads
<1>2. ASSUME NEW t \in Threads, RunItem(t) PROVE TypeOK'
  <2>1. element[t] \in 0..Len(Elements) /\ Garbage \in 0..Len(Elements)
    BY <1>1, <1>2 DEF RunItem, HasItem, Working, TypeOK, Garbage
  <2>2. \A f : Stored(element[t], f) \in 0..Len(Elements)
    BY <2>1 DEF Stored
  <2>3. \A l \in DOMAIN mem' : mem'[l] \in 0..Len(Elements)
    BY <1>2, <2>2 DEF RunItem, TypeOK
  <2>4. next' \in [Threads -> Nat]
    <3>1. next[t] + TeamSize \in Nat BY <1>1 DEF TypeOK
    <3>2. next' = [next EXCEPT ![t] = next[t] + TeamSize] BY <1>2 DEF RunItem
    <3>3. QED BY <3>1, <3>2 DEF TypeOK
  <2>5. QED BY <1>2, <2>3, <2>4 DEF RunItem, TypeOK
<1>3. ASSUME NEW t \in Threads, EndStage(t) PROVE TypeOK'
  <2>1. stage[t] + 1 \in 1..LastStage /\ t \in Nat
    <3>1. stage[t] \in 1..LastStage BY DEF TypeOK
    <3>2. stage[t] < LastStage BY <1>3 DEF EndStage
    <3>3. QED BY <3>1, <3>2, <1>1
  <2>2. stage' \in [Threads -> 1..LastStage] /\ next' \in [Threads -> Nat]
    BY <2>1, <1>3 DEF EndStage, TypeOK
  <2>3. QED BY <1>3, <2>2 DEF EndStage, TypeOK
<1>4. ASSUME NEW t \in Threads, EndElement(t) PROVE TypeOK'
  <2>1. element[t] + 1 \in 1..(Len(Elements) + 1) /\ 1 \in 1..LastStage /\ t \in Nat
    BY <1>1, <1>4 DEF EndElement, Working, TypeOK
  <2>2. /\ element' \in [Threads -> 1..(Len(Elements) + 1)]
        /\ stage' \in [Threads -> 1..LastStage]
        /\ next' \in [Threads -> Nat]
    BY <2>1, <1>4 DEF EndElement, TypeOK
  <2>3. QED BY <1>4, <2>2 DEF EndElement, TypeOK
<1>5. CASE UNCHANGED vars
  BY <1>5 DEF vars, TypeOK
<1>6. QED BY <1>2, <1>3, <1>4, <1>5 DEF Next, Step

\* Every variable keeps its type.
THEOREM TypeCorrect == Spec => []TypeOK
<1>1. Init => TypeOK BY InitTypes, TeamAssumption
<1>2. TypeOK /\ [Next]_vars => TypeOK' BY NextTypes, TeamAssumption
<1>3. QED BY <1>1, <1>2, PTL DEF Spec

LEMMA ShapeOfElement ==
    ASSUME TeamAssumption, NEW e \in DOMAIN Elements
    PROVE  /\ Nodes(e) \in Nat \ {0} /\ Nodes(e) <= MaxElemNodes
           /\ Qps(e) \in Nat \ {0}
<1>1. Elements[e] \in ElementShape BY DEF TeamAssumption
<1>2. QED BY <1>1 DEF ElementShape, Nodes, Qps, TeamAssumption

LEMMA WorkingElement ==
    ASSUME TeamAssumption, TypeOK, NEW t \in Threads, Working(t)
    PROVE  element[t] \in DOMAIN Elements
BY DEF TeamAssumption, TypeOK, Working

\* No vector load leaves the scratch memory of the launch.
THEOREM LoadsAlwaysFit == Spec => []LoadsFitScratch
<1>1. ASSUME TypeOK PROVE LoadsFitScratch
  <2> SUFFICES ASSUME NEW t \in Threads, Running(t),
                      Stages[stage[t]] \in {"integrate_stiffness", "integrate_inertia"}
               PROVE  LaneOf(Nodes(element[t]), next[t]) + Width <= ScratchRows(MaxElemNodes)
    BY DEF LoadsFitScratch
  <2> DEFINE nodes == Nodes(element[t])
             v == next[t] % SimdNodes(nodes)
  <2>1. nodes \in Nat \ {0} /\ nodes <= MaxElemNodes /\ MaxElemNodes \in Nat
    BY <1>1, TeamAssumption, WorkingElement, ShapeOfElement DEF Running, HasItem, TeamAssumption
  <2>2. SimdNodes(nodes) \in Nat \ {0} /\ Width \in Nat
    BY <2>1, TeamAssumption, SimdNodesHold DEF TeamAssumption
  <2>3. v \in Nat /\ v + 1 <= SimdNodes(nodes)
    <3>1. next[t] \in Nat BY <1>1 DEF TypeOK
    <3>2. v \in 0..(SimdNodes(nodes) - 1) BY <3>1, <2>2, DivisionSplits
    <3>3. QED BY <3>2, <2>2
  <2>4. LaneOf(nodes, next[t]) = v * Width BY DEF LaneOf
  <2> HIDE DEF v
  <2>5. (v + 1) * Width <= PaddedNodes(nodes)
    BY <2>2, <2>3, ProductGrows DEF PaddedNodes
  <2>6. PaddedNodes(nodes) <= ScratchRows(MaxElemNodes)
    BY <2>1, TeamAssumption, ScratchHoldsPadding
  <2>7. (v + 1) * Width = v * Width + Width /\ v * Width \in Nat
    BY <2>2, <2>3, SMT
  <2>8. PaddedNodes(nodes) \in Nat BY <2>2, SMT DEF PaddedNodes
  <2>9. ScratchRows(MaxElemNodes) \in Nat
    <3>1. MaxElemNodes \div Width \in Nat
      BY <2>1, TeamAssumption, DivisionSplits DEF TeamAssumption
    <3>2. QED BY <3>1, <2>2, SMT DEF ScratchRows
  <2>10. QED BY <2>2, <2>4, <2>5, <2>6, <2>7, <2>8, <2>9
<1>2. QED BY <1>1, TypeCorrect, PTL

-----------------------------------------------------------------------------
(* The barriers hold the threads together. *)

\* A thread behind a barrier has left no thread in front of it.
Together ==
    \A t, u \in Threads, b \in Barriers : b < stage[t] =>
        \/ element[u] > element[t]
        \/ element[u] = element[t] /\ b <= stage[u]

\* A thread takes the items of its own share.
Shares == \A t \in Threads : next[t] % TeamSize = t

RaceInv == TypeOK /\ Together /\ Shares

LEMMA ThreadsAre ==
    ASSUME TeamAssumption
    PROVE  /\ TeamSize \in Nat \ {0}
           /\ \A t \in Threads : t \in Nat /\ t < TeamSize /\ t % TeamSize = t
<1>1. TeamSize \in Nat \ {0} BY DEF TeamAssumption
<1>2. ASSUME NEW t \in Threads PROVE t \in Nat /\ t < TeamSize /\ t % TeamSize = t
  <2>1. t \in 0..(TeamSize - 1) /\ 0 \in Nat BY DEF Threads
  <2>2. (TeamSize * 0 + t) % TeamSize = t BY <1>1, <2>1, DivisionRecovers
  <2>3. TeamSize * 0 + t = t BY <1>1, <2>1
  <2>4. QED BY <1>1, <2>1, <2>2, <2>3
<1>3. QED BY <1>1, <1>2

LEMMA InitRaceInv == ASSUME TeamAssumption, Init PROVE RaceInv
<1>1. TypeOK BY InitTypes
<1>2. Together BY DEF Init, Together, Barriers
<1>3. Shares BY ThreadsAre DEF Init, Shares
<1>4. QED BY <1>1, <1>2, <1>3 DEF RaceInv

LEMMA ShareKept ==
    ASSUME NEW a \in Nat, NEW n \in Nat \ {0} PROVE (a + n) % n = a % n
<1> DEFINE q == a \div n
           r == a % n
<1>1. q \in Nat /\ r \in 0..(n - 1) /\ a = n * q + r BY DivisionSplits
<1> HIDE DEF q, r
<1>2. q + 1 \in Nat BY <1>1
<1>3. (n * (q + 1) + r) % n = r BY <1>1, <1>2, DivisionRecovers
<1>4. n * (q + 1) + r = a + n BY <1>1, SMT
<1>5. QED BY <1>3, <1>4 DEF r

LEMMA NextRaceInv == ASSUME TeamAssumption, RaceInv, [Next]_vars PROVE RaceInv'
<1>1. TypeOK' BY NextTypes DEF RaceInv
<1>2. ASSUME NEW t \in Threads, RunItem(t) PROVE Together' /\ Shares'
  <2>1. Together' BY <1>2 DEF RunItem, RaceInv, Together
  <2>2. (next[t] + TeamSize) % TeamSize = next[t] % TeamSize
    BY ThreadsAre, ShareKept DEF RaceInv, TypeOK
  <2>3. Shares' BY <1>2, <2>2 DEF RunItem, RaceInv, Shares, TypeOK
  <2>4. QED BY <2>1, <2>3
<1>3. ASSUME NEW t \in Threads, EndStage(t) PROVE Together' /\ Shares'
  <2>1. /\ stage \in [Threads -> Nat] /\ element \in [Threads -> Nat]
        /\ next \in [Threads -> Nat] /\ Barriers \subseteq Nat
    BY DEF RaceInv, TypeOK, Barriers
  <2>2. \A u \in Threads : /\ element'[u] = element[u]
                           /\ stage'[u] = IF u = t THEN stage[t] + 1 ELSE stage[u]
    BY <2>1, <1>3 DEF EndStage
  <2>3. ASSUME NEW v \in Threads, NEW u \in Threads, NEW b \in Barriers, b < stage'[v]
        PROVE  \/ element'[u] > element'[v]
               \/ element'[u] = element'[v] /\ b <= stage'[u]
    <3>0. /\ stage[v] \in Nat /\ stage[u] \in Nat /\ stage[t] \in Nat /\ b \in Nat
          /\ element[v] \in Nat /\ element[u] \in Nat
          /\ stage'[v] \in {stage[v], stage[v] + 1}
          /\ stage'[u] \in {stage[u], stage[u] + 1}
          /\ element'[v] = element[v] /\ element'[u] = element[u]
      BY <2>1, <2>2
    <3>1. CASE b < stage[v]
      <4>1. \/ element[u] > element[v]
            \/ element[u] = element[v] /\ b <= stage[u]
        BY <3>1 DEF RaceInv, Together
      <4>2. QED BY <3>0, <4>1
    <3>2. CASE ~ (b < stage[v])
      <4>1. v = t /\ b = stage[t]
        BY <2>2, <2>3, <3>0, <3>2
      <4>2. Reached(u, t) BY <4>1, <1>3 DEF EndStage, MayRun
      <4>3. \/ element[u] > element[v]
            \/ element[u] = element[v] /\ b <= stage[u]
        BY <3>0, <4>1, <4>2 DEF Reached
      <4>4. QED BY <3>0, <4>3
    <3>3. QED BY <3>1, <3>2
  <2>4. Together' BY <2>3 DEF Together
  <2>5. Shares' BY <1>3, <2>1, ThreadsAre DEF EndStage, RaceInv, Shares
  <2>6. QED BY <2>4, <2>5
<1>4. ASSUME NEW t \in Threads, EndElement(t) PROVE Together' /\ Shares'
  <2>1. /\ stage \in [Threads -> Nat] /\ element \in [Threads -> Nat]
        /\ next \in [Threads -> Nat] /\ Barriers \subseteq Nat \ {0}
    BY DEF RaceInv, TypeOK, Barriers
  <2>2. \A u \in Threads : /\ element'[u] = IF u = t THEN element[t] + 1 ELSE element[u]
                           /\ stage'[u] = IF u = t THEN 1 ELSE stage[u]
    BY <2>1, <1>4 DEF EndElement
  <2>3. ASSUME NEW v \in Threads, NEW u \in Threads, NEW b \in Barriers, b < stage'[v]
        PROVE  \/ element'[u] > element'[v]
               \/ element'[u] = element'[v] /\ b <= stage'[u]
    <3>1. v # t /\ b < stage[v] /\ element'[v] = element[v] BY <2>1, <2>2, <2>3
    <3>2. \/ element[u] > element[v]
          \/ element[u] = element[v] /\ b <= stage[u]
      BY <3>1 DEF RaceInv, Together
    <3>3. CASE u = t
      <4>1. element'[u] = element[u] + 1 /\ element[u] \in Nat /\ element[v] \in Nat
        BY <2>1, <2>2, <3>3
      <4>2. element'[u] > element'[v]
        BY <3>1, <3>2, <4>1
      <4>3. QED BY <4>2
    <3>4. CASE u # t
      BY <3>1, <3>2, <3>4, <2>2
    <3>5. QED BY <3>3, <3>4
  <2>4. Together' BY <2>3 DEF Together
  <2>5. Shares' BY <1>4, <2>1, ThreadsAre DEF EndElement, RaceInv, Shares
  <2>6. QED BY <2>4, <2>5
<1>5. ASSUME UNCHANGED vars PROVE Together' /\ Shares'
  <2>1. element' = element /\ stage' = stage /\ next' = next BY <1>5 DEF vars
  <2>2. Together' BY <2>1 DEF RaceInv, Together
  <2>3. Shares' BY <2>1 DEF RaceInv, Shares
  <2>4. QED BY <2>2, <2>3
<1>6. QED BY <1>1, <1>2, <1>3, <1>4, <1>5 DEF Next, Step, RaceInv

\* Two threads at work are at the same element, behind the same barriers, and
\* at different items.
LEMMA SameInterval ==
    ASSUME TeamAssumption, RaceInv, NEW t \in Threads, NEW u \in Threads, t # u,
           MayRun(t), MayRun(u)
    PROVE  /\ element[t] = element[u]
           /\ \A b \in Barriers : b <= stage[t] <=> b <= stage[u]
           /\ next[t] # next[u]
<1>1. /\ \A v \in Threads : stage[v] \in Nat /\ stage[v] >= 1 /\ element[v] \in Nat
      /\ \A b \in Barriers : b \in Nat
      /\ 1 \in Barriers
  <2>1. LastStage \in Nat BY DEF LastStage, Stages
  <2>2. \A v \in Threads : stage[v] \in 1..LastStage /\ element[v] \in 1..(Len(Elements) + 1)
    BY DEF RaceInv, TypeOK
  <2>3. Len(Elements) \in Nat BY DEF TeamAssumption
  <2>4. QED BY <2>1, <2>2, <2>3 DEF Barriers
<1>2. ASSUME NEW v \in Threads, NEW w \in Threads, MayRun(v),
             NEW b \in Barriers, b <= stage[v]
      PROVE  \/ element[w] > element[v]
             \/ element[w] = element[v] /\ b <= stage[w]
  <2>1. CASE b < stage[v] BY <2>1 DEF RaceInv, Together
  <2>2. CASE b = stage[v]
    <3>1. Reached(w, v) BY <2>2, <1>2 DEF MayRun
    <3>2. QED BY <3>1, <2>2, <1>1 DEF Reached
  <2>3. stage[v] \in Nat /\ b \in Nat BY <1>1
  <2>4. QED BY <2>1, <2>2, <2>3, <1>2
<1>3. element[u] >= element[t] /\ element[t] >= element[u]
  BY <1>1, <1>2
<1>4. element[t] = element[u] BY <1>1, <1>3
<1>5. \A b \in Barriers : b <= stage[t] <=> b <= stage[u]
  BY <1>1, <1>2, <1>4
<1>6. next[t] # next[u] BY DEF RaceInv, Shares
<1>7. QED BY <1>4, <1>5, <1>6

-----------------------------------------------------------------------------
(* What the stages touch, by buffer. *)

WriteBuffers(s) ==
    CASE s \in 1..7 -> {Stages[s]}
      [] s = 8  -> {"node_u", "node_u_dot", "node_u_ddot"}
      [] s = 9  -> {"qp_Fi", "qp_Fg", "qp_Muu", "qp_G_I", "qp_K_I"}
      [] s = 10 -> {"qp_F_E1", "qp_F_E2", "qp_Cuu", "qp_K_E1", "qp_Puu", "qp_K_E2"}
      [] s = 11 -> DampingBuffers
      [] s = 12 -> {"residual_vector_terms"}
      [] s = 13 -> {"stiffness_matrix_terms"}
      [] s = 14 -> {"inertia_matrix_terms"}
      [] s = 15 -> {"system_matrix_terms"}

Copied == {"shape_interp", "shape_deriv", "qp_Fe", "node_FX", "element_mu",
           "qp_weight", "qp_jacobian", "node_u", "node_u_dot", "node_u_ddot"}
QuadratureBuffers ==
    {"qp_Fi", "qp_Fg", "qp_Muu", "qp_G_I", "qp_K_I", "qp_F_E1", "qp_F_E2", "qp_Cuu",
     "qp_K_E1", "qp_Puu", "qp_K_E2"} \cup DampingBuffers

ReadBuffers(s) ==
    CASE s \in 1..8   -> {}
      [] s \in 9..11  -> Copied
      [] s \in 12..14 -> Copied \cup QuadratureBuffers
      [] s = 15       -> {"stiffness_matrix_terms", "inertia_matrix_terms"}

LEMMA StageNames ==
    /\ LastStage = 15
    /\ Stages[1] = "shape_interp" /\ Stages[2] = "shape_deriv" /\ Stages[3] = "qp_Fe"
    /\ Stages[4] = "node_FX" /\ Stages[5] = "element_mu" /\ Stages[6] = "qp_weight"
    /\ Stages[7] = "qp_jacobian" /\ Stages[8] = "node_state" /\ Stages[9] = "inertial"
    /\ Stages[10] = "stiffness" /\ Stages[11] = "damping" /\ Stages[12] = "residual"
    /\ Stages[13] = "integrate_stiffness" /\ Stages[14] = "integrate_inertia"
    /\ Stages[15] = "system_matrix"
BY DEF LastStage, Stages

LEMMA EffectsOfStages ==
    ASSUME NEW e, NEW i
    PROVE  /\ \A s \in 1..7 : ItemEffects(e, s, i) = CopyRow(Stages[s], i)
           /\ ItemEffects(e, 8, i) = UpdateNodeState(i)
           /\ ItemEffects(e, 9, i) = InertialValues(e, i)
           /\ ItemEffects(e, 10, i) = StiffnessValues(e, i)
           /\ ItemEffects(e, 11, i) = DampingValues(e, i)
           /\ ItemEffects(e, 12, i) = IntegrateResidual(e, i)
           /\ ItemEffects(e, 13, i) = IntegrateStiffness(e, i)
           /\ ItemEffects(e, 14, i) = IntegrateInertia(e, i)
           /\ ItemEffects(e, 15, i) = SystemMatrix(e, i)
BY StageNames DEF ItemEffects

\* Stages of the same interval write different buffers, and read none that a
\* stage of the interval writes.
LEMMA BuffersApart ==
    ASSUME NEW s \in 1..15, NEW r \in 1..15,
           \A b \in Barriers : b <= s <=> b <= r
    PROVE  /\ WriteBuffers(s) \cap ReadBuffers(r) = {}
           /\ s # r => WriteBuffers(s) \cap WriteBuffers(r) = {}
<1>1. \/ s \in 1..8 /\ r \in 1..8
      \/ s \in 9..11 /\ r \in 9..11
      \/ s \in 12..14 /\ r \in 12..14
      \/ s = 15 /\ r = 15
  BY DEF Barriers
<1>2. CASE s \in 1..8 /\ r \in 1..8
  BY <1>2, StageNames DEF WriteBuffers, ReadBuffers
<1>3. CASE s \in 9..11 /\ r \in 9..11
  BY <1>3 DEF WriteBuffers, ReadBuffers, Copied, DampingBuffers
<1>4. CASE s \in 12..14 /\ r \in 12..14
  BY <1>4 DEF WriteBuffers, ReadBuffers, Copied, QuadratureBuffers, DampingBuffers
<1>5. CASE s = 15 /\ r = 15
  BY <1>5 DEF WriteBuffers, ReadBuffers
<1>6. QED BY <1>1, <1>2, <1>3, <1>4, <1>5

LEMMA BuffersOfEffects ==
    ASSUME NEW s \in 1..15, NEW e, NEW i, NEW f \in ItemEffects(e, s, i)
    PROVE  /\ f.to[1] \in WriteBuffers(s)
           /\ \A l \in f.from : l[1] \in ReadBuffers(s)
<1>1. CASE s \in 1..7
  BY <1>1, EffectsOfStages DEF CopyRow, Effects, At, WriteBuffers
<1>2. CASE s = 8
  BY <1>2, EffectsOfStages DEF UpdateNodeState, Effects, At, WriteBuffers
<1>3. CASE s = 9
  BY <1>3, EffectsOfStages
     DEF InertialValues, Effects, At, AtAll, WriteBuffers, ReadBuffers, Copied
<1>4. CASE s = 10
  BY <1>4, EffectsOfStages
     DEF StiffnessValues, Effects, At, AtAll, WriteBuffers, ReadBuffers, Copied
<1>5. CASE s = 11
  BY <1>5, EffectsOfStages
     DEF DampingValues, Effects, At, AtAll, WriteBuffers, ReadBuffers, Copied
<1>6. CASE s = 12
  BY <1>6, EffectsOfStages
     DEF IntegrateResidual, Effects, At, AtAll, WriteBuffers, ReadBuffers, Copied,
         QuadratureBuffers, DampingBuffers
<1>7. CASE s = 13
  BY <1>7, EffectsOfStages
     DEF IntegrateStiffness, IntegrateMatrix, At, AtAll, WriteBuffers, ReadBuffers, Copied,
         QuadratureBuffers, DampingBuffers
<1>8. CASE s = 14
  BY <1>8, EffectsOfStages
     DEF IntegrateInertia, IntegrateMatrix, At, AtAll, WriteBuffers, ReadBuffers, Copied,
         QuadratureBuffers, DampingBuffers
<1>9. CASE s = 15
  BY <1>9, EffectsOfStages DEF SystemMatrix, Effects, At, WriteBuffers, ReadBuffers
<1>10. QED BY <1>1, <1>2, <1>3, <1>4, <1>5, <1>6, <1>7, <1>8, <1>9

-----------------------------------------------------------------------------
(* Different items of a stage write different locations. *)

\* A stored lane has a column of the element.
LEMMA LaneIsColumn ==
    ASSUME TeamAssumption, NEW nodes \in Nat \ {0}, NEW i \in Nat,
           NEW lane \in 0..(NumLanes(nodes, LaneOf(nodes, i)) - 1)
    PROVE  /\ RowOf(nodes, i) \in Nat
           /\ LaneOf(nodes, i) \in Nat /\ lane \in Nat
           /\ LaneOf(nodes, i) + lane \in 0..(nodes - 1)
           /\ Stores(nodes, i, RowOf(nodes, i), LaneOf(nodes, i) + lane)
<1>1. SimdNodes(nodes) \in Nat \ {0} BY SimdNodesHold
<1>2. RowOf(nodes, i) \in Nat BY <1>1, DivisionSplits DEF RowOf
<1>3. i % SimdNodes(nodes) \in Nat
  <2>1. i % SimdNodes(nodes) \in 0..(SimdNodes(nodes) - 1) BY <1>1, DivisionSplits
  <2>2. QED BY <2>1
<1>4. LaneOf(nodes, i) \in Nat
  <2> DEFINE v == i % SimdNodes(nodes)
  <2>1. LaneOf(nodes, i) = v * Width BY DEF LaneOf
  <2> HIDE DEF v
  <2>2. v \in Nat BY <1>3 DEF v
  <2>3. QED BY <2>1, <2>2, SMT DEF TeamAssumption
<1>5. NumLanes(nodes, LaneOf(nodes, i)) <= nodes - LaneOf(nodes, i)
      /\ NumLanes(nodes, LaneOf(nodes, i)) \in Int
  BY <1>4 DEF NumLanes, TeamAssumption
<1>6. LaneOf(nodes, i) + lane \in 0..(nodes - 1)
  BY <1>4, <1>5
<1>7. Stores(nodes, i, RowOf(nodes, i), LaneOf(nodes, i) + lane)
  BY <1>4, <1>5 DEF Stores
<1>8. lane \in Nat BY <1>5
<1>9. QED BY <1>2, <1>4, <1>6, <1>7, <1>8

LEMMA ProductsCommute ==
    ASSUME NEW a \in Nat, NEW b \in Nat PROVE a * b = b * a /\ a * b \in Nat
BY SMT

LEMMA LanesApart ==
    ASSUME TeamAssumption, NEW nodes \in Nat \ {0},
           NEW i \in Nat, NEW lane \in 0..(NumLanes(nodes, LaneOf(nodes, i)) - 1),
           NEW j \in Nat, NEW other \in 0..(NumLanes(nodes, LaneOf(nodes, j)) - 1),
           RowOf(nodes, i) * nodes + LaneOf(nodes, i) + lane
             = RowOf(nodes, j) * nodes + LaneOf(nodes, j) + other
    PROVE  i = j
<1> DEFINE c == LaneOf(nodes, i) + lane
           d == LaneOf(nodes, j) + other
<1>1. RowOf(nodes, i) \in Nat /\ c \in 0..(nodes - 1) /\ Stores(nodes, i, RowOf(nodes, i), c)
      /\ LaneOf(nodes, i) \in Nat /\ lane \in Nat
  BY LaneIsColumn
<1>2. RowOf(nodes, j) \in Nat /\ d \in 0..(nodes - 1) /\ Stores(nodes, j, RowOf(nodes, j), d)
      /\ LaneOf(nodes, j) \in Nat /\ other \in Nat
  BY LaneIsColumn
<1>3. nodes * RowOf(nodes, i) + c = nodes * RowOf(nodes, j) + d
  <2> DEFINE p == RowOf(nodes, i) * nodes
             q == RowOf(nodes, j) * nodes
  <2>1. p = nodes * RowOf(nodes, i) /\ q = nodes * RowOf(nodes, j) /\ p \in Nat /\ q \in Nat
    BY <1>1, <1>2, ProductsCommute
  <2>2. p + LaneOf(nodes, i) + lane = q + LaneOf(nodes, j) + other OBVIOUS
  <2> HIDE DEF p, q
  <2>3. /\ p \in Nat /\ q \in Nat /\ lane \in Nat /\ other \in Nat
        /\ LaneOf(nodes, i) \in Nat /\ LaneOf(nodes, j) \in Nat
    BY <1>1, <1>2, <2>1
  <2>4. p + c = q + d BY <2>2, <2>3
  <2>5. QED BY <2>1, <2>4
<1> HIDE DEF c, d
<1>4. RowOf(nodes, i) = RowOf(nodes, j) /\ c = d
  <2>1. /\ (nodes * RowOf(nodes, i) + c) \div nodes = RowOf(nodes, i)
        /\ (nodes * RowOf(nodes, i) + c) % nodes = c
    BY <1>1, DivisionRecovers
  <2>2. /\ (nodes * RowOf(nodes, j) + d) \div nodes = RowOf(nodes, j)
        /\ (nodes * RowOf(nodes, j) + d) % nodes = d
    BY <1>2, DivisionRecovers
  <2>3. QED BY <2>1, <2>2, <1>3
<1>5. QED BY <1>1, <1>2, <1>4, ItemOfPair

LEMMA MatrixTarget ==
    ASSUME NEW target, NEW quadrature, NEW e, NEW i,
           NEW f \in IntegrateMatrix(target, quadrature, e, i)
    PROVE  \E lane \in 0..(NumLanes(Nodes(e), LaneOf(Nodes(e), i)) - 1) :
               f.to = <<target, RowOf(Nodes(e), i) * Nodes(e) + LaneOf(Nodes(e), i) + lane>>
BY DEF IntegrateMatrix

\* Before the integration every item writes its own places.
LEMMA EffectsAtItem ==
    ASSUME NEW s \in 1..11, NEW e, NEW i, NEW f \in ItemEffects(e, s, i)
    PROVE  f.to[2] = i
<1>1. ASSUME NEW buffers, NEW operands,
             ItemEffects(e, s, i) = Effects(At(buffers, i), operands)
      PROVE  f.to[2] = i
  BY <1>1 DEF Effects, At
<1>2. CASE s \in 1..7
  <2>1. ItemEffects(e, s, i) = CopyRow(Stages[s], i) BY <1>2, EffectsOfStages
  <2>2. QED BY <2>1, <1>1 DEF CopyRow
<1>3. CASE s = 8
  <2>1. ItemEffects(e, s, i) = UpdateNodeState(i) BY <1>3, EffectsOfStages
  <2>2. QED BY <2>1, <1>1 DEF UpdateNodeState
<1>4. CASE s = 9
  <2>1. ItemEffects(e, s, i) = InertialValues(e, i) BY <1>4, EffectsOfStages
  <2>2. QED BY <2>1, <1>1 DEF InertialValues
<1>5. CASE s = 10
  <2>1. ItemEffects(e, s, i) = StiffnessValues(e, i) BY <1>5, EffectsOfStages
  <2>2. QED BY <2>1, <1>1 DEF StiffnessValues
<1>6. CASE s = 11
  <2>1. ItemEffects(e, s, i) = DampingValues(e, i) BY <1>6, EffectsOfStages
  <2>2. QED BY <2>1, <1>1 DEF DampingValues
<1>7. QED BY <1>2, <1>3, <1>4, <1>5, <1>6

LEMMA TargetsApart ==
    ASSUME TeamAssumption, NEW s \in 1..15, NEW e \in DOMAIN Elements,
           NEW i \in Nat, NEW j \in Nat, i # j,
           NEW f \in ItemEffects(e, s, i), NEW g \in ItemEffects(e, s, j)
    PROVE  f.to # g.to
<1>0. Nodes(e) \in Nat \ {0} BY ShapeOfElement
<1>1. CASE s \in 1..11
  <2>1. f.to[2] = i /\ g.to[2] = j BY <1>1, EffectsAtItem
  <2>2. QED BY <2>1
<1>6. CASE s = 12
  BY <1>6, EffectsOfStages DEF IntegrateResidual, Effects
<1>7. CASE s = 13 \/ s = 14
  <2> DEFINE target == IF s = 13 THEN "stiffness_matrix_terms" ELSE "inertia_matrix_terms"
  <2>0. \E quadrature : \A k : ItemEffects(e, s, k) = IntegrateMatrix(target, quadrature, e, k)
    <3>1. CASE s = 13
      <4>1. \A k : ItemEffects(e, s, k) = IntegrateStiffness(e, k)
        BY <3>1, EffectsOfStages
      <4>2. QED BY <4>1, <3>1 DEF IntegrateStiffness
    <3>2. CASE s = 14
      <4>1. \A k : ItemEffects(e, s, k) = IntegrateInertia(e, k)
        BY <3>2, EffectsOfStages
      <4>2. QED BY <4>1, <3>2 DEF IntegrateInertia
    <3>3. QED BY <3>1, <3>2, <1>7
  <2> HIDE DEF target
  <2>1. PICK lane \in 0..(NumLanes(Nodes(e), LaneOf(Nodes(e), i)) - 1) :
          f.to = <<target, RowOf(Nodes(e), i) * Nodes(e) + LaneOf(Nodes(e), i) + lane>>
    BY <2>0, MatrixTarget
  <2>2. PICK other \in 0..(NumLanes(Nodes(e), LaneOf(Nodes(e), j)) - 1) :
          g.to = <<target, RowOf(Nodes(e), j) * Nodes(e) + LaneOf(Nodes(e), j) + other>>
    BY <2>0, MatrixTarget
  <2>3. RowOf(Nodes(e), i) * Nodes(e) + LaneOf(Nodes(e), i) + lane
          # RowOf(Nodes(e), j) * Nodes(e) + LaneOf(Nodes(e), j) + other
    BY <1>0, LanesApart
  <2>4. QED BY <2>1, <2>2, <2>3
<1>8. CASE s = 15
  <2>1. /\ f.to = <<"system_matrix_terms", e, i \div Nodes(e), i % Nodes(e)>>
        /\ g.to = <<"system_matrix_terms", e, j \div Nodes(e), j % Nodes(e)>>
    BY <1>8, EffectsOfStages DEF SystemMatrix, Effects
  <2>2. i \div Nodes(e) = j \div Nodes(e) /\ i % Nodes(e) = j % Nodes(e) => i = j
    BY <1>0, DivisionSplits
  <2>3. QED BY <2>1, <2>2
<1>9. QED BY <1>1, <1>6, <1>7, <1>8

-----------------------------------------------------------------------------
(* No data race. *)

LEMMA RaceFree == ASSUME TeamAssumption, RaceInv PROVE NoRace
<1> SUFFICES ASSUME NEW t \in Threads, NEW u \in Threads, t # u, Running(t), Running(u)
             PROVE  Writes(t) \cap (Reads(u) \cup Writes(u)) = {}
  BY DEF NoRace
<1>1. /\ element[t] = element[u]
      /\ \A b \in Barriers : b <= stage[t] <=> b <= stage[u]
      /\ next[t] # next[u]
  BY SameInterval DEF Running
<1>2. stage[t] \in 1..15 /\ stage[u] \in 1..15
  BY StageNames DEF RaceInv, TypeOK
<1>3. element[t] \in DOMAIN Elements
  BY WorkingElement DEF RaceInv, Running, HasItem
<1>4. next[t] \in Nat /\ next[u] \in Nat BY DEF RaceInv, TypeOK
<1>5. /\ WriteBuffers(stage[t]) \cap ReadBuffers(stage[u]) = {}
      /\ stage[t] # stage[u] => WriteBuffers(stage[t]) \cap WriteBuffers(stage[u]) = {}
  BY <1>1, <1>2, BuffersApart
<1>6. ASSUME NEW f \in Effect(t), NEW g \in Effect(u)
      PROVE  f.to # g.to /\ f.to \notin g.from
  <2>1. f.to[1] \in WriteBuffers(stage[t])
    BY <1>2, BuffersOfEffects DEF Effect
  <2>2. /\ g.to[1] \in WriteBuffers(stage[u])
        /\ \A l \in g.from : l[1] \in ReadBuffers(stage[u])
    BY <1>2, BuffersOfEffects DEF Effect
  <2>3. f.to \notin g.from BY <2>1, <2>2, <1>5
  <2>4. CASE stage[t] # stage[u] BY <2>1, <2>2, <2>3, <2>4, <1>5
  <2>5. CASE stage[t] = stage[u]
    <3>1. f \in ItemEffects(element[t], stage[t], next[t])
          /\ g \in ItemEffects(element[t], stage[t], next[u])
      BY <2>5, <1>1 DEF Effect
    <3>2. f.to # g.to BY <3>1, <1>1, <1>2, <1>3, <1>4, TargetsApart
    <3>3. QED BY <3>2, <2>3
  <2>6. QED BY <2>4, <2>5
<1>7. QED BY <1>6 DEF Writes, Reads

\* No two threads of a team are ever at items of which one writes what the
\* other reads or writes, whatever the team, the vectors and the elements.
THEOREM TeamIsRaceFree == Spec => []NoRace
<1>1. Init => RaceInv BY InitRaceInv, TeamAssumption
<1>2. RaceInv /\ [Next]_vars => RaceInv' BY NextRaceInv, TeamAssumption
<1>3. RaceInv => NoRace BY RaceFree, TeamAssumption
<1>4. QED BY <1>1, <1>2, <1>3, PTL DEF Spec

-----------------------------------------------------------------------------
(* Where the values come from.  The inductive invariant says of every item   *)
(* a thread is done with that the values it stored are there: until some     *)
(* thread begins with the next element, and of the results for ever.         *)

\* A thread that has taken an item behind a barrier saw every thread reach it.
Started ==
    \A t, u \in Threads : \A b \in Barriers :
        b = stage[t] /\ t < next[t] =>
            \/ element[u] > element[t]
            \/ element[u] = element[t] /\ b <= stage[u]

\* The threads are at most one element apart.
Close == \A t, u \in Threads : element[t] <= element[u] + 1

\* Thread t has left item i of stage s behind.
Done(t, e, s, i) ==
    \/ element[t] > e
    \/ element[t] = e /\ (stage[t] > s \/ (stage[t] = s /\ i < next[t]))

Results == {12, 15}
Kept(e, s) == s \in Results \/ \E u \in Threads : element[u] = e

DataInv ==
    \A t \in Threads, e \in DOMAIN Elements, s \in 1..15 : Kept(e, s) =>
        \A i \in 0..(Items(e, s) - 1) : i % TeamSize = t /\ Done(t, e, s, i) =>
            \A f \in ItemEffects(e, s, i) : Held(f.to) = e

FlowInv == RaceInv /\ Started /\ Close /\ DataInv

LEMMA ItemsOfStages ==
    ASSUME NEW e
    PROVE  /\ \A s \in {1, 2, 4, 8, 12} : Items(e, s) = Nodes(e)
           /\ \A s \in {3, 6, 7, 9, 10, 11} : Items(e, s) = Qps(e)
           /\ Items(e, 5) = 1
           /\ \A s \in {13, 14} : Items(e, s) = Nodes(e) * SimdNodes(Nodes(e))
           /\ Items(e, 15) = Nodes(e) * Nodes(e)
<1>1. \A s \in {1, 2, 4, 8, 12} : Items(e, s) = Nodes(e) BY StageNames DEF Items
<1>2. \A s \in {3, 6, 7, 9, 10, 11} : Items(e, s) = Qps(e) BY StageNames DEF Items
<1>3. Items(e, 5) = 1 BY StageNames DEF Items
<1>4. \A s \in {13, 14} : Items(e, s) = Nodes(e) * SimdNodes(Nodes(e))
  BY StageNames DEF Items
<1>5. Items(e, 15) = Nodes(e) * Nodes(e) BY StageNames DEF Items
<1>6. QED BY <1>1, <1>2, <1>3, <1>4, <1>5

LEMMA ItemsAreNumbers ==
    ASSUME TeamAssumption, NEW e \in DOMAIN Elements, NEW s \in 1..15
    PROVE  Items(e, s) \in Nat
<1>1. /\ Nodes(e) \in Nat /\ Qps(e) \in Nat
      /\ SimdNodes(Nodes(e)) \in Nat
  BY ShapeOfElement, SimdNodesHold
<1>2. Nodes(e) * SimdNodes(Nodes(e)) \in Nat /\ Nodes(e) * Nodes(e) \in Nat
  BY <1>1, SMT
<1>3. s \in {1, 2, 4, 8, 12} \cup {3, 6, 7, 9, 10, 11} \cup {5} \cup {13, 14} \cup {15}
  OBVIOUS
<1>4. CASE s \in {1, 2, 4, 8, 12} BY <1>1, <1>4, ItemsOfStages
<1>5. CASE s \in {3, 6, 7, 9, 10, 11} BY <1>1, <1>5, ItemsOfStages
<1>6. CASE s = 5 BY <1>6, ItemsOfStages
<1>7. CASE s \in {13, 14} BY <1>2, <1>7, ItemsOfStages
<1>8. CASE s = 15 BY <1>2, <1>8, ItemsOfStages
<1>9. QED BY <1>3, <1>4, <1>5, <1>6, <1>7, <1>8

-----------------------------------------------------------------------------
(* Every operand of an item is the target of an item of an earlier stage     *)
(* that a barrier separates from it.                                         *)

Source(e, s, l) ==
    \E r \in 1..15, b \in Barriers :
        /\ r < b /\ b <= s
        /\ \E i \in 0..(Items(e, r) - 1) : \E g \in ItemEffects(e, r, i) : g.to = l

LEMMA TargetAtItem ==
    ASSUME NEW buffers, NEW operands, NEW i, NEW name \in buffers
    PROVE  \E g \in Effects(At(buffers, i), operands) : g.to = <<name, i>>
<1> DEFINE g == [to |-> <<name, i>>, from |-> operands]
<1>1. <<name, i>> \in At(buffers, i) BY DEF At
<1>2. g \in Effects(At(buffers, i), operands) BY <1>1 DEF Effects
<1>3. g.to = <<name, i>> OBVIOUS
<1>4. QED BY <1>2, <1>3

LEMMA CopyTarget ==
    ASSUME NEW e, NEW r \in 1..7, NEW i
    PROVE  \E g \in ItemEffects(e, r, i) : g.to = <<Stages[r], i>>
<1>1. ItemEffects(e, r, i) = Effects(At({Stages[r]}, i), {})
  BY EffectsOfStages DEF CopyRow
<1>2. \E g \in Effects(At({Stages[r]}, i), {}) : g.to = <<Stages[r], i>>
  BY TargetAtItem, Zenon
<1>3. QED BY <1>1, <1>2

LEMMA NodeStateTarget ==
    ASSUME NEW e, NEW i, NEW name \in {"node_u", "node_u_dot", "node_u_ddot"}
    PROVE  \E g \in ItemEffects(e, 8, i) : g.to = <<name, i>>
<1>1. ItemEffects(e, 8, i) = Effects(At({"node_u", "node_u_dot", "node_u_ddot"}, i), {})
  BY EffectsOfStages DEF UpdateNodeState
<1>2. \E g \in Effects(At({"node_u", "node_u_dot", "node_u_ddot"}, i), {}) :
         g.to = <<name, i>>
  BY TargetAtItem, Zenon
<1>3. QED BY <1>1, <1>2

LEMMA SourceOf ==
    ASSUME NEW e, NEW s, NEW r \in 1..15, NEW b \in Barriers, r < b, b <= s,
           NEW i \in 0..(Items(e, r) - 1), NEW l, \E g \in ItemEffects(e, r, i) : g.to = l
    PROVE  Source(e, s, l)
BY Zenon DEF Source

LEMMA CopiesAreSources ==
    ASSUME TeamAssumption, NEW e \in DOMAIN Elements, NEW s \in 9..15
    PROVE  /\ \A n \in 0..(Nodes(e) - 1) :
                 \A name \in {"shape_interp", "shape_deriv", "node_FX",
                              "node_u", "node_u_dot", "node_u_ddot"} :
                    Source(e, s, <<name, n>>)
           /\ \A q \in 0..(Qps(e) - 1) :
                 \A name \in {"qp_Fe", "qp_weight", "qp_jacobian"} : Source(e, s, <<name, q>>)
           /\ Source(e, s, <<"element_mu", 0>>)
<1>1. 9 \in Barriers /\ 9 <= s BY DEF Barriers
<1>2. ASSUME NEW r \in 1..7, NEW i \in 0..(Items(e, r) - 1)
      PROVE  Source(e, s, <<Stages[r], i>>)
  <2>1. \E g \in ItemEffects(e, r, i) : g.to = <<Stages[r], i>> BY CopyTarget, Zenon
  <2>2. r \in 1..15 /\ r < 9 OBVIOUS
  <2>3. QED BY <1>1, <2>1, <2>2, SourceOf, Zenon
<1>3. ASSUME NEW n \in 0..(Nodes(e) - 1), NEW name \in {"node_u", "node_u_dot", "node_u_ddot"}
      PROVE  Source(e, s, <<name, n>>)
  <2>1. \E g \in ItemEffects(e, 8, n) : g.to = <<name, n>> BY NodeStateTarget, Zenon
  <2>2. n \in 0..(Items(e, 8) - 1) BY ItemsOfStages
  <2>3. 8 \in 1..15 /\ 8 < 9 OBVIOUS
  <2>4. QED BY <1>1, <2>1, <2>2, <2>3, SourceOf, Zenon
<1>4. \A n \in 0..(Nodes(e) - 1) :
         Source(e, s, <<"shape_interp", n>>) /\ Source(e, s, <<"shape_deriv", n>>)
           /\ Source(e, s, <<"node_FX", n>>)
  BY <1>2, ItemsOfStages, StageNames
<1>5. \A q \in 0..(Qps(e) - 1) :
         Source(e, s, <<"qp_Fe", q>>) /\ Source(e, s, <<"qp_weight", q>>)
           /\ Source(e, s, <<"qp_jacobian", q>>)
  BY <1>2, ItemsOfStages, StageNames
<1>6. Source(e, s, <<"element_mu", 0>>)
  BY <1>2, ItemsOfStages, StageNames
<1>7. QED BY <1>3, <1>4, <1>5, <1>6

LEMMA QuadratureTarget ==
    ASSUME NEW e, NEW i, NEW name \in QuadratureBuffers
    PROVE  \E r \in 9..11 : \E g \in ItemEffects(e, r, i) : g.to = <<name, i>>
<1>1. ASSUME NEW r \in 9..11, NEW buffers, NEW operands, name \in buffers,
             ItemEffects(e, r, i) = Effects(At(buffers, i), operands)
      PROVE  \E g \in ItemEffects(e, r, i) : g.to = <<name, i>>
  <2>1. \E g \in Effects(At(buffers, i), operands) : g.to = <<name, i>>
    BY <1>1, TargetAtItem, Zenon
  <2>2. QED BY <1>1, <2>1, Zenon
<1> DEFINE inertial == {"qp_Fi", "qp_Fg", "qp_Muu", "qp_G_I", "qp_K_I"}
           elastic  == {"qp_F_E1", "qp_F_E2", "qp_Cuu", "qp_K_E1", "qp_Puu", "qp_K_E2"}
<1>2. CASE name \in inertial
  <2>1. PICK operands : ItemEffects(e, 9, i) = Effects(At(inertial, i), operands)
    BY EffectsOfStages DEF InertialValues
  <2>2. \E g \in ItemEffects(e, 9, i) : g.to = <<name, i>> BY <1>1, <1>2, <2>1
  <2>3. QED BY <2>2
<1>3. CASE name \in elastic
  <2>1. PICK operands : ItemEffects(e, 10, i) = Effects(At(elastic, i), operands)
    BY EffectsOfStages DEF StiffnessValues
  <2>2. \E g \in ItemEffects(e, 10, i) : g.to = <<name, i>> BY <1>1, <1>3, <2>1
  <2>3. QED BY <2>2
<1>4. CASE name \in DampingBuffers
  <2>1. PICK operands : ItemEffects(e, 11, i) = Effects(At(DampingBuffers, i), operands)
    BY EffectsOfStages DEF DampingValues
  <2>2. \E g \in ItemEffects(e, 11, i) : g.to = <<name, i>> BY <1>1, <1>4, <2>1
  <2>3. QED BY <2>2
<1>5. QED BY <1>2, <1>3, <1>4 DEF QuadratureBuffers

LEMMA QuadratureIsSource ==
    ASSUME TeamAssumption, NEW e \in DOMAIN Elements, NEW s \in 12..15,
           NEW q \in 0..(Qps(e) - 1), NEW name \in QuadratureBuffers
    PROVE  Source(e, s, <<name, q>>)
<1>1. PICK r \in 9..11 : \E g \in ItemEffects(e, r, q) : g.to = <<name, q>>
  BY QuadratureTarget, Zenon
<1>2. q \in 0..(Items(e, r) - 1) BY ItemsOfStages
<1>3. r \in 1..15 /\ r < 12 /\ 12 <= s /\ 12 \in Barriers BY DEF Barriers
<1>4. QED BY <1>1, <1>2, <1>3, SourceOf, Zenon

LEMMA InAt ==
    ASSUME NEW buffers, NEW i, NEW l \in At(buffers, i)
    PROVE  \E name \in buffers : l = <<name, i>>
BY DEF At

LEMMA InAtAll ==
    ASSUME NEW buffers, NEW count, NEW l \in AtAll(buffers, count)
    PROVE  \E name \in buffers : \E n \in 0..(count - 1) : l = <<name, n>>
BY DEF AtAll

LEMMA SourcesAtAll ==
    ASSUME NEW e, NEW s, NEW buffers, NEW count,
           \A name \in buffers : \A n \in 0..(count - 1) : Source(e, s, <<name, n>>)
    PROVE  \A l \in AtAll(buffers, count) : Source(e, s, l)
<1> SUFFICES ASSUME NEW l \in AtAll(buffers, count) PROVE Source(e, s, l)
  OBVIOUS
<1>1. PICK name \in buffers : \E n \in 0..(count - 1) : l = <<name, n>>
  BY InAtAll
<1>2. PICK n \in 0..(count - 1) : l = <<name, n>> BY <1>1, Zenon
<1>3. Source(e, s, <<name, n>>) BY Zenon
<1>4. QED BY <1>2, <1>3, Zenon

LEMMA SourcesAt ==
    ASSUME NEW e, NEW s, NEW buffers, NEW i,
           \A name \in buffers : Source(e, s, <<name, i>>)
    PROVE  \A l \in At(buffers, i) : Source(e, s, l)
<1> SUFFICES ASSUME NEW l \in At(buffers, i) PROVE Source(e, s, l)
  OBVIOUS
<1>1. PICK name \in buffers : l = <<name, i>> BY InAt, Zenon
<1>2. Source(e, s, <<name, i>>) BY Zenon
<1>3. QED BY <1>1, <1>2, Zenon

LEMMA OperandsOfEffects ==
    ASSUME NEW targets, NEW operands, NEW f \in Effects(targets, operands)
    PROVE  f.from = operands
BY DEF Effects

LEMMA ValuesAreSources ==
    ASSUME TeamAssumption, NEW e \in DOMAIN Elements, NEW s \in 12..15,
           NEW name \in {"qp_weight", "qp_jacobian", "qp_Fe"} \cup QuadratureBuffers,
           NEW q \in 0..(Qps(e) - 1)
    PROVE  Source(e, s, <<name, q>>)
<1>1. CASE name \in {"qp_weight", "qp_jacobian", "qp_Fe"}
  <2>1. s \in 9..15 OBVIOUS
  <2>2. QED BY <1>1, <2>1, CopiesAreSources, Zenon
<1>2. CASE name \in QuadratureBuffers
  BY <1>2, QuadratureIsSource, Zenon
<1>3. QED BY <1>1, <1>2

LEMMA ValueOperands ==
    ASSUME TeamAssumption, NEW e \in DOMAIN Elements, NEW s \in 9..11,
           NEW i \in 0..(Items(e, s) - 1), NEW f \in ItemEffects(e, s, i)
    PROVE  \A l \in f.from : Source(e, s, l)
<1>0. i \in 0..(Qps(e) - 1) /\ s \in 9..15 BY ItemsOfStages
<1>1. \A name \in {"shape_interp", "node_u", "node_u_dot", "node_u_ddot"} :
        \A n \in 0..(Nodes(e) - 1) : Source(e, s, <<name, n>>)
  BY <1>0, CopiesAreSources, Zenon
<1>2. \A name \in {"shape_interp", "shape_deriv", "node_u"} :
        \A n \in 0..(Nodes(e) - 1) : Source(e, s, <<name, n>>)
  BY <1>0, CopiesAreSources, Zenon
<1>3. \A name \in {"shape_interp", "shape_deriv", "node_u", "node_u_dot"} :
        \A n \in 0..(Nodes(e) - 1) : Source(e, s, <<name, n>>)
  BY <1>0, CopiesAreSources, Zenon
<1>4. \A name \in {"qp_jacobian"} : Source(e, s, <<name, i>>)
  BY <1>0, CopiesAreSources, Zenon
<1>5. Source(e, s, <<"element_mu", 0>>) BY <1>0, CopiesAreSources, Zenon
<1>6. CASE s = 9
  <2>1. f.from = AtAll({"shape_interp", "node_u", "node_u_dot", "node_u_ddot"}, Nodes(e))
    BY <1>6, EffectsOfStages, OperandsOfEffects DEF InertialValues
  <2>2. QED BY <2>1, <1>1, SourcesAtAll, Zenon
<1>7. CASE s = 10
  <2>1. f.from = At({"qp_jacobian"}, i)
                   \cup AtAll({"shape_interp", "shape_deriv", "node_u"}, Nodes(e))
    <3>1. f \in StiffnessValues(e, i) BY <1>7, EffectsOfStages
    <3>2. QED BY <3>1, OperandsOfEffects DEF StiffnessValues
  <2>2. \A l \in At({"qp_jacobian"}, i) : Source(e, s, l) BY <1>4, SourcesAt, Zenon
  <2>3. \A l \in AtAll({"shape_interp", "shape_deriv", "node_u"}, Nodes(e)) : Source(e, s, l)
    BY <1>2, SourcesAtAll, Zenon
  <2>4. QED BY <2>1, <2>2, <2>3
<1>8. CASE s = 11
  <2> DEFINE all == At({"qp_jacobian"}, i)
                      \cup AtAll({"shape_interp", "shape_deriv", "node_u", "node_u_dot"}, Nodes(e))
  <2>1. f.from = {<<"element_mu", 0>>} \cup (IF Elements[e].damped THEN all ELSE {})
    <3>1. f \in DampingValues(e, i) BY <1>8, EffectsOfStages
    <3>2. QED BY <3>1, OperandsOfEffects DEF DampingValues
  <2>2. \A l \in At({"qp_jacobian"}, i) : Source(e, s, l) BY <1>4, SourcesAt, Zenon
  <2>3. \A l \in AtAll({"shape_interp", "shape_deriv", "node_u", "node_u_dot"}, Nodes(e)) :
          Source(e, s, l)
    BY <1>3, SourcesAtAll, Zenon
  <2>4. \A l \in all : Source(e, s, l) BY <2>2, <2>3
  <2>5. \A l \in f.from : l = <<"element_mu", 0>> \/ l \in all BY <2>1
  <2>6. QED BY <2>4, <2>5, <1>5, Zenon
<1>9. QED BY <1>6, <1>7, <1>8

LEMMA ResidualOperands ==
    ASSUME TeamAssumption, NEW e \in DOMAIN Elements,
           NEW i \in 0..(Items(e, 12) - 1), NEW f \in ItemEffects(e, 12, i)
    PROVE  \A l \in f.from : Source(e, 12, l)
<1> DEFINE rows == {"shape_interp", "shape_deriv", "node_FX"}
           values == {"qp_weight", "qp_jacobian", "qp_F_E1", "qp_F_E2", "qp_F_D1",
                      "qp_F_D2", "qp_Fi", "qp_Fe", "qp_Fg"}
<1>1. i \in 0..(Nodes(e) - 1) BY ItemsOfStages
<1>2. f.from = At(rows, i) \cup AtAll(values, Qps(e))
  <2>1. f \in IntegrateResidual(e, i) BY EffectsOfStages
  <2>2. QED BY <2>1, OperandsOfEffects DEF IntegrateResidual
<1>3. \A name \in rows : Source(e, 12, <<name, i>>)
  <2>1. 12 \in 9..15 OBVIOUS
  <2>2. QED BY <1>1, <2>1, CopiesAreSources, Zenon
<1>4. \A name \in values : \A q \in 0..(Qps(e) - 1) : Source(e, 12, <<name, q>>)
  <2>1. values \subseteq {"qp_weight", "qp_jacobian", "qp_Fe"} \cup QuadratureBuffers
    BY DEF QuadratureBuffers, DampingBuffers
  <2>2. 12 \in 12..15 OBVIOUS
  <2> HIDE DEF values
  <2>3. QED BY <2>1, <2>2, ValuesAreSources, Zenon
<1> HIDE DEF rows, values
<1>5. \A l \in At(rows, i) : Source(e, 12, l) BY <1>3, SourcesAt, Zenon
<1>6. \A l \in AtAll(values, Qps(e)) : Source(e, 12, l) BY <1>4, SourcesAtAll, Zenon
<1>7. QED BY <1>2, <1>5, <1>6

LEMMA BlockPlace ==
    ASSUME TeamAssumption, NEW nodes \in Nat \ {0}, NEW i \in 0..(nodes * SimdNodes(nodes) - 1)
    PROVE  /\ RowOf(nodes, i) \in 0..(nodes - 1)
           /\ LaneOf(nodes, i) \in Nat
           /\ \A lane \in 0..(NumLanes(nodes, LaneOf(nodes, i)) - 1) :
                 LaneOf(nodes, i) + lane \in 0..(nodes - 1)
<1>1. SimdNodes(nodes) \in Nat \ {0} BY SimdNodesHold
<1>2. i \in Nat /\ i < SimdNodes(nodes) * nodes
  <2>1. nodes * SimdNodes(nodes) \in Nat /\ nodes * SimdNodes(nodes) = SimdNodes(nodes) * nodes
    BY <1>1, SMT
  <2>2. QED BY <2>1
<1>3. RowOf(nodes, i) \in 0..(nodes - 1)
  <2>1. i \div SimdNodes(nodes) < nodes BY <1>1, <1>2, QuotientBelow
  <2>2. i \div SimdNodes(nodes) \in Nat BY <1>1, <1>2, DivisionSplits
  <2>3. QED BY <2>1, <2>2 DEF RowOf
<1>4. LaneOf(nodes, i) \in Nat
  <2> DEFINE v == i % SimdNodes(nodes)
  <2>1. v \in Nat
    <3>1. v \in 0..(SimdNodes(nodes) - 1) BY <1>1, <1>2, DivisionSplits
    <3>2. QED BY <3>1
  <2>2. LaneOf(nodes, i) = v * Width BY DEF LaneOf
  <2> HIDE DEF v
  <2>3. QED BY <2>1, <2>2, SMT DEF TeamAssumption
<1>5. \A lane \in 0..(NumLanes(nodes, LaneOf(nodes, i)) - 1) :
         LaneOf(nodes, i) + lane \in 0..(nodes - 1)
  BY <1>2, LaneIsColumn
<1>6. QED BY <1>3, <1>4, <1>5

MatrixLane(target, quadrature, e, i, lane) ==
    [to   |-> <<target, RowOf(Nodes(e), i) * Nodes(e) + LaneOf(Nodes(e), i) + lane>>,
     from |-> At({"shape_interp", "shape_deriv"}, RowOf(Nodes(e), i))
                \cup At({"shape_interp", "shape_deriv"}, LaneOf(Nodes(e), i) + lane)
                \cup AtAll(quadrature \cup {"qp_weight", "qp_jacobian"}, Qps(e))]

LEMMA MatrixEffects ==
    ASSUME NEW target, NEW quadrature, NEW e, NEW i
    PROVE  IntegrateMatrix(target, quadrature, e, i) =
             {MatrixLane(target, quadrature, e, i, lane) :
                lane \in 0..(NumLanes(Nodes(e), LaneOf(Nodes(e), i)) - 1)}
BY Zenon DEF IntegrateMatrix, MatrixLane

LEMMA MatrixOperands ==
    ASSUME TeamAssumption, NEW e \in DOMAIN Elements, NEW s \in 12..15,
           NEW target, NEW quadrature \in SUBSET QuadratureBuffers,
           NEW i \in 0..(Nodes(e) * SimdNodes(Nodes(e)) - 1),
           NEW f \in IntegrateMatrix(target, quadrature, e, i)
    PROVE  \A l \in f.from : Source(e, s, l)
<1> DEFINE row == RowOf(Nodes(e), i)
           first == LaneOf(Nodes(e), i)
           shapes == {"shape_interp", "shape_deriv"}
           values == quadrature \cup {"qp_weight", "qp_jacobian"}
<1>1. PICK lane \in 0..(NumLanes(Nodes(e), first) - 1) :
        f.from = At(shapes, row) \cup At(shapes, first + lane) \cup AtAll(values, Qps(e))
  <2>1. PICK lane \in 0..(NumLanes(Nodes(e), first) - 1) :
          f = MatrixLane(target, quadrature, e, i, lane)
    BY MatrixEffects, Zenon
  <2>2. f.from = At(shapes, row) \cup At(shapes, first + lane) \cup AtAll(values, Qps(e))
    BY <2>1, Zenon DEF MatrixLane
  <2>3. QED BY <2>2
<1>2. row \in 0..(Nodes(e) - 1) /\ first + lane \in 0..(Nodes(e) - 1)
  BY ShapeOfElement, BlockPlace
<1>3. s \in 9..15 OBVIOUS
<1>4. \A name \in values : \A q \in 0..(Qps(e) - 1) : Source(e, s, <<name, q>>)
  <2>1. values \subseteq {"qp_weight", "qp_jacobian", "qp_Fe"} \cup QuadratureBuffers
    OBVIOUS
  <2> HIDE DEF values
  <2>2. QED BY <2>1, ValuesAreSources, Zenon
<1> HIDE DEF row, first, values
<1>5. \A name \in shapes : \A n \in 0..(Nodes(e) - 1) : Source(e, s, <<name, n>>)
  BY <1>3, CopiesAreSources, Zenon
<1> HIDE DEF shapes
<1>6. \A l \in At(shapes, row) : Source(e, s, l) BY <1>2, <1>5, SourcesAt, Zenon
<1> DEFINE column == first + lane
<1>7. column \in 0..(Nodes(e) - 1) BY <1>2
<1> HIDE DEF column
<1>8. \A l \in At(shapes, column) : Source(e, s, l) BY <1>7, <1>5, SourcesAt, Zenon
<1>9. \A l \in AtAll(values, Qps(e)) : Source(e, s, l) BY <1>4, SourcesAtAll, Zenon
<1>10. QED BY <1>1, <1>6, <1>8, <1>9 DEF column

LEMMA MatrixHasTarget ==
    ASSUME NEW target, NEW quadrature, NEW e, NEW i, NEW place,
           NEW lane \in 0..(NumLanes(Nodes(e), LaneOf(Nodes(e), i)) - 1),
           RowOf(Nodes(e), i) * Nodes(e) + LaneOf(Nodes(e), i) + lane = place
    PROVE  \E g \in IntegrateMatrix(target, quadrature, e, i) : g.to = <<target, place>>
<1> DEFINE g == MatrixLane(target, quadrature, e, i, lane)
<1>1. g \in IntegrateMatrix(target, quadrature, e, i) BY MatrixEffects, Zenon
<1>2. g.to = <<target, place>> BY Zenon DEF MatrixLane
<1>3. QED BY <1>1, <1>2, Zenon

LEMMA StoredTargets ==
    ASSUME NEW e, NEW i, NEW j,
           NEW k \in 0..(NumLanes(Nodes(e), LaneOf(Nodes(e), j)) - 1),
           RowOf(Nodes(e), j) * Nodes(e) + LaneOf(Nodes(e), j) + k = i
    PROVE  /\ \E g \in ItemEffects(e, 13, j) : g.to = <<"stiffness_matrix_terms", i>>
           /\ \E g \in ItemEffects(e, 14, j) : g.to = <<"inertia_matrix_terms", i>>
<1>1. \A target, quadrature :
        \E g \in IntegrateMatrix(target, quadrature, e, j) : g.to = <<target, i>>
  BY MatrixHasTarget, Zenon
<1>2. \E quadrature :
        ItemEffects(e, 13, j) = IntegrateMatrix("stiffness_matrix_terms", quadrature, e, j)
  BY EffectsOfStages DEF IntegrateStiffness
<1>3. \E quadrature :
        ItemEffects(e, 14, j) = IntegrateMatrix("inertia_matrix_terms", quadrature, e, j)
  BY EffectsOfStages DEF IntegrateInertia
<1>4. QED BY <1>1, <1>2, <1>3

LEMMA SumOperands ==
    ASSUME TeamAssumption, NEW e \in DOMAIN Elements,
           NEW i \in 0..(Items(e, 15) - 1), NEW f \in ItemEffects(e, 15, i)
    PROVE  \A l \in f.from : Source(e, 15, l)
<1> DEFINE nodes == Nodes(e)
           row == i \div nodes
           col == i % nodes
<1>1. nodes \in Nat \ {0} BY ShapeOfElement
<1>2. i \in Nat /\ i < nodes * nodes
  <2>1. nodes * nodes \in Nat BY <1>1, SMT
  <2>2. QED BY <2>1, ItemsOfStages
<1>3. row \in 0..(nodes - 1) /\ col \in 0..(nodes - 1) /\ i = nodes * row + col
  <2>1. row < nodes BY <1>1, <1>2, QuotientBelow
  <2>2. row \in Nat /\ col \in 0..(nodes - 1) /\ i = nodes * row + col
    BY <1>1, <1>2, DivisionSplits
  <2>3. QED BY <2>1, <2>2, <1>1
<1> HIDE DEF nodes, row, col
<1>4. PICK j \in 0..(nodes * SimdNodes(nodes) - 1) : Stores(nodes, j, row, col)
  BY <1>1, <1>3, PairsStoredOnce
<1> DEFINE lane == col - LaneOf(nodes, j)
<1>5. lane \in 0..(NumLanes(nodes, LaneOf(nodes, j)) - 1)
      /\ RowOf(nodes, j) * nodes + LaneOf(nodes, j) + lane = i
  <2>1. LaneOf(nodes, j) \in Nat BY <1>1, BlockPlace
  <2>2. /\ RowOf(nodes, j) = row
        /\ LaneOf(nodes, j) <= col
        /\ col < LaneOf(nodes, j) + NumLanes(nodes, LaneOf(nodes, j))
    BY <1>4 DEF Stores
  <2>3. NumLanes(nodes, LaneOf(nodes, j)) \in Int
    BY <1>1, <2>1 DEF NumLanes, TeamAssumption
  <2>4. lane \in Nat /\ lane <= NumLanes(nodes, LaneOf(nodes, j)) - 1
    BY <1>3, <2>1, <2>2, <2>3
  <2>5. row * nodes = nodes * row /\ row * nodes \in Nat BY <1>1, <1>3, SMT
  <2> DEFINE product == row * nodes
  <2>6. product + LaneOf(nodes, j) + lane = product + col BY <1>3, <2>1, <2>5
  <2>7. QED BY <2>2, <2>3, <2>4, <2>5, <2>6, <1>3
<1>6. PICK k \in 0..(NumLanes(Nodes(e), LaneOf(Nodes(e), j)) - 1) :
        RowOf(Nodes(e), j) * Nodes(e) + LaneOf(Nodes(e), j) + k = i
  BY <1>5 DEF nodes
<1>7. \A r \in {13, 14} : j \in 0..(Items(e, r) - 1)
  BY <1>4, ItemsOfStages DEF nodes
<1>8. 13 \in 1..15 /\ 14 \in 1..15 /\ 13 < 15 /\ 14 < 15 /\ 15 \in Barriers /\ 15 <= 15
  BY DEF Barriers
<1>9. Source(e, 15, <<"stiffness_matrix_terms", i>>)
  <2>1. \E g \in ItemEffects(e, 13, j) : g.to = <<"stiffness_matrix_terms", i>>
    BY <1>6, StoredTargets, Zenon
  <2>2. j \in 0..(Items(e, 13) - 1) BY <1>7
  <2>3. QED BY <2>1, <2>2, <1>8, SourceOf, Zenon
<1>10. Source(e, 15, <<"inertia_matrix_terms", i>>)
  <2>1. \E g \in ItemEffects(e, 14, j) : g.to = <<"inertia_matrix_terms", i>>
    BY <1>6, StoredTargets, Zenon
  <2>2. j \in 0..(Items(e, 14) - 1) BY <1>7
  <2>3. QED BY <2>1, <2>2, <1>8, SourceOf, Zenon
<1>11. f.from = At({"stiffness_matrix_terms", "inertia_matrix_terms"}, i)
  <2>1. f \in SystemMatrix(e, i) BY EffectsOfStages
  <2>2. QED BY <2>1, OperandsOfEffects DEF SystemMatrix
<1>12. \A name \in {"stiffness_matrix_terms", "inertia_matrix_terms"} : Source(e, 15, <<name, i>>)
  BY <1>9, <1>10, Zenon
<1>13. QED BY <1>11, <1>12, SourcesAt, Zenon

LEMMA CopiesReadNothing == ASSUME NEW s \in 1..8 PROVE ReadBuffers(s) = {}
BY DEF ReadBuffers

\* What an item reads was written behind a barrier: there is no item whose
\* operands come from nowhere, or from a stage that may still be running.
LEMMA OperandsHaveSources ==
    ASSUME TeamAssumption, NEW e \in DOMAIN Elements, NEW s \in 1..15,
           NEW i \in 0..(Items(e, s) - 1), NEW f \in ItemEffects(e, s, i)
    PROVE  \A l \in f.from : Source(e, s, l)
<1>1. CASE s \in 1..8
  <2>1. ReadBuffers(s) = {} BY <1>1, CopiesReadNothing
  <2>2. \A l \in f.from : l[1] \in ReadBuffers(s) BY BuffersOfEffects
  <2>3. QED BY <2>1, <2>2, Zenon
<1>2. CASE s \in 9..11 BY <1>2, ValueOperands
<1>3. CASE s = 12 BY <1>3, ResidualOperands
<1>4. CASE s = 13
  <2>1. i \in 0..(Nodes(e) * SimdNodes(Nodes(e)) - 1) BY <1>4, ItemsOfStages
  <2>2. f \in IntegrateStiffness(e, i) BY <1>4, EffectsOfStages
  <2>3. {"qp_K_I", "qp_Puu", "qp_Cuu", "qp_K_E1", "qp_K_E2",
         "qp_D_D1", "qp_K_D1", "qp_K_D2", "qp_P_D2"} \subseteq QuadratureBuffers
    BY DEF QuadratureBuffers, DampingBuffers
  <2>4. s \in 12..15 BY <1>4
  <2>5. QED BY <2>1, <2>2, <2>3, <2>4, MatrixOperands DEF IntegrateStiffness
<1>5. CASE s = 14
  <2>1. i \in 0..(Nodes(e) * SimdNodes(Nodes(e)) - 1) BY <1>5, ItemsOfStages
  <2>2. f \in IntegrateInertia(e, i) BY <1>5, EffectsOfStages
  <2>3. {"qp_Muu", "qp_G_I", "qp_Duu", "qp_G_D1", "qp_G_D2", "qp_D_D2"}
           \subseteq QuadratureBuffers
    BY DEF QuadratureBuffers, DampingBuffers
  <2>4. s \in 12..15 BY <1>5
  <2>5. QED BY <2>1, <2>2, <2>3, <2>4, MatrixOperands DEF IntegrateInertia
<1>6. CASE s = 15 BY <1>6, SumOperands
<1>7. QED BY <1>1, <1>2, <1>3, <1>4, <1>5, <1>6

-----------------------------------------------------------------------------
(* The invariant gives the properties, and every step keeps it.              *)

LEMMA ThreadFacts ==
    ASSUME TeamAssumption, TypeOK, NEW t \in Threads
    PROVE  /\ element[t] \in Nat /\ element[t] >= 1
           /\ stage[t] \in 1..15 /\ stage[t] \in Nat /\ stage[t] >= 1 /\ next[t] \in Nat
           /\ Working(t) => element[t] \in DOMAIN Elements
<1>1. Len(Elements) \in Nat BY DEF TeamAssumption
<1>2. element[t] \in 1..(Len(Elements) + 1) /\ stage[t] \in 1..15 /\ next[t] \in Nat
  BY StageNames DEF TypeOK
<1>3. stage[t] \in Nat /\ stage[t] >= 1
  <2> DEFINE s == stage[t]
  <2>1. s \in 1..15 BY <1>2
  <2> HIDE DEF s
  <2>2. s \in Nat /\ s >= 1 BY <2>1
  <2>3. QED BY <2>2 DEF s
<1>4. QED BY <1>1, <1>2, <1>3, WorkingElement

\* Behind a barrier every thread has come at least as far.
LEMMA BehindBarrier ==
    ASSUME TeamAssumption, TypeOK, Together, NEW t \in Threads, NEW u \in Threads, MayRun(t),
           NEW b \in Barriers, b <= stage[t]
    PROVE  element[u] > element[t] \/ (element[u] = element[t] /\ b <= stage[u])
<1>0. b \in Nat BY DEF Barriers
<1>1. b \in Nat /\ stage[t] \in Nat BY <1>0, ThreadFacts
<1>2. CASE b < stage[t] BY <1>2 DEF Together
<1>3. CASE b = stage[t]
  <2>1. Reached(u, t) BY <1>3 DEF MayRun
  <2>2. stage[u] \in Nat BY ThreadFacts
  <2>3. QED BY <1>1, <1>3, <2>1, <2>2 DEF Reached
<1>4. QED BY <1>1, <1>2, <1>3

LEMMA OwnerOfItem ==
    ASSUME TeamAssumption, NEW i \in Nat PROVE i % TeamSize \in Threads
BY DivisionSplits DEF Threads, TeamAssumption

LEMMA SourceIsHeld ==
    ASSUME TeamAssumption, FlowInv, NEW t \in Threads, Working(t), MayRun(t),
           NEW l, Source(element[t], stage[t], l)
    PROVE  Held(l) = element[t]
<1> DEFINE e == element[t]
<1>1. e \in DOMAIN Elements /\ e \in Nat /\ stage[t] \in Nat
  BY ThreadFacts DEF FlowInv, RaceInv
<1>2. PICK r \in 1..15, b \in Barriers :
        /\ r < b /\ b <= stage[t]
        /\ \E i \in 0..(Items(e, r) - 1) : \E g \in ItemEffects(e, r, i) : g.to = l
  BY DEF Source
<1>3. PICK i \in 0..(Items(e, r) - 1) : \E g \in ItemEffects(e, r, i) : g.to = l
  BY <1>2
<1>4. PICK g \in ItemEffects(e, r, i) : g.to = l BY <1>3
<1>5. i \in Nat OBVIOUS
<1> DEFINE v == i % TeamSize
<1>6. v \in Threads BY <1>5, OwnerOfItem
<1> HIDE DEF v
<1>7. element[v] > e \/ (element[v] = e /\ b <= stage[v])
  BY <1>2, <1>6, BehindBarrier DEF FlowInv, RaceInv
<1>8. b \in Nat /\ stage[v] \in Nat
  <2>1. b \in Nat BY DEF Barriers
  <2>2. stage[v] \in Nat BY <1>6, ThreadFacts DEF FlowInv, RaceInv
  <2>3. QED BY <2>1, <2>2
<1>9. Done(v, e, r, i)
  BY <1>2, <1>7, <1>8 DEF Done
<1>10. Kept(e, r) BY DEF Kept
<1>11. Held(g.to) = e
  BY <1>1, <1>6, <1>9, <1>10 DEF FlowInv, DataInv, v
<1>12. QED BY <1>4, <1>11

LEMMA OperandsAreHeld ==
    ASSUME TeamAssumption, FlowInv, NEW t \in Threads, Running(t),
           NEW f \in Effect(t), NEW l \in f.from
    PROVE  Held(l) = element[t]
<1>1. Working(t) /\ MayRun(t) /\ next[t] < Items(element[t], stage[t])
  BY DEF Running, HasItem
<1>2. element[t] \in DOMAIN Elements /\ stage[t] \in 1..15 /\ next[t] \in Nat
  BY <1>1, ThreadFacts DEF FlowInv, RaceInv
<1>3. next[t] \in 0..(Items(element[t], stage[t]) - 1)
  <2>1. Items(element[t], stage[t]) \in Nat BY <1>2, ItemsAreNumbers
  <2>2. QED BY <1>1, <1>2, <2>1
<1>4. Source(element[t], stage[t], l)
  BY <1>2, <1>3, OperandsHaveSources DEF Effect
<1>5. QED BY <1>1, <1>4, SourceIsHeld

\* What a running item stores is a value of its element, and nothing else changes.
LEMMA ItemStores ==
    ASSUME TeamAssumption, FlowInv, NEW t \in Threads, RunItem(t), NEW l
    PROVE  IF l \in Writes(t) THEN Held(l)' = element[t] ELSE Held(l)' = Held(l)
<1> DEFINE effects == Effect(t)
<1>1. Running(t) BY DEF RunItem, Running
<1>2. DOMAIN mem' = DOMAIN mem \cup Writes(t) BY DEF RunItem, Writes
<1>3. CASE l \in Writes(t)
  <2>1. mem'[l] = Stored(element[t], CHOOSE f \in effects : f.to = l)
    BY <1>3 DEF RunItem, Writes
  <2>2. \E f \in effects : f.to = l BY <1>3 DEF Writes
  <2>3. (CHOOSE f \in effects : f.to = l) \in effects BY <2>2
  <2>4. \A f \in effects : Stored(element[t], f) = element[t]
    BY <1>1, OperandsAreHeld DEF Stored
  <2>5. mem'[l] = element[t] BY <2>1, <2>3, <2>4
  <2>6. l \in DOMAIN mem' BY <1>2, <1>3
  <2>7. QED BY <1>3, <2>5, <2>6 DEF Held
<1>4. CASE l \notin Writes(t)
  <2>1. l \in DOMAIN mem' <=> l \in DOMAIN mem BY <1>2, <1>4
  <2>2. l \in DOMAIN mem => mem'[l] = mem[l] BY <1>4 DEF RunItem, Writes
  <2>3. QED BY <1>4, <2>1, <2>2 DEF Held
<1>5. QED BY <1>3, <1>4

LEMMA ShareStartsAtThread ==
    ASSUME TeamAssumption, NEW i \in Nat, NEW v \in Threads, i % TeamSize = v
    PROVE  v <= i
<1>1. TeamSize \in Nat \ {0} /\ v \in Nat BY ThreadsAre
<1> DEFINE q == i \div TeamSize
<1>2. q \in Nat /\ i = TeamSize * q + v BY <1>1, DivisionSplits
<1> HIDE DEF q
<1>3. TeamSize * q \in Nat BY <1>1, <1>2, SMT
<1>4. QED BY <1>1, <1>2, <1>3

LEMMA NextOfShare ==
    ASSUME NEW a \in Nat, NEW b \in Nat, NEW n \in Nat \ {0},
           a % n = b % n, a <= b, b < a + n
    PROVE  a = b
<1> DEFINE p == a \div n
           q == b \div n
           r == a % n
<1>1. /\ p \in Nat /\ q \in Nat /\ r \in 0..(n - 1)
      /\ a = n * p + r /\ b = n * q + r
  BY DivisionSplits
<1>2. p <= q BY QuotientGrows
<1> HIDE DEF p, q, r
<1>3. CASE p < q
  <2>1. n * (p + 1) <= n * q BY <1>1, <1>3, ProductGrows
  <2>2. n * (p + 1) = n * p + n /\ n * p \in Nat /\ n * q \in Nat BY <1>1, SMT
  <2>3. QED BY <1>1, <2>1, <2>2
<1>4. QED BY <1>1, <1>2, <1>3

\* A thread that is done with an item has seen every thread at its element.
LEMMA DoneMeansStarted ==
    ASSUME TeamAssumption, FlowInv, NEW v \in Threads, NEW u \in Threads,
           NEW s \in 1..15, NEW i \in Nat, i % TeamSize = v,
           Done(v, element[v], s, i)
    PROVE  element[u] >= element[v]
<1>1. /\ element[v] \in Nat /\ element[u] \in Nat /\ stage[v] \in 1..15 /\ next[v] \in Nat
      /\ v \in Nat
  BY ThreadFacts, ThreadsAre DEF FlowInv, RaceInv
<1>2. v <= i BY ShareStartsAtThread
<1>3. stage[v] > s \/ (stage[v] = s /\ i < next[v])
  BY <1>1 DEF Done
<1>4. 1 \in Barriers BY DEF Barriers
<1>5. CASE 1 < stage[v]
  <2>1. element[u] > element[v] \/ element[u] = element[v]
    BY <1>4, <1>5 DEF FlowInv, RaceInv, Together
  <2>2. element[u] \in Nat /\ element[v] \in Nat BY <1>1
  <2>3. QED BY <2>1, <2>2
<1>6. CASE stage[v] = 1
  <2>1. v < next[v] BY <1>1, <1>2, <1>3, <1>6
  <2>2. element[u] > element[v] \/ element[u] = element[v]
    BY <1>4, <1>6, <2>1 DEF FlowInv, Started
  <2>3. element[u] \in Nat /\ element[v] \in Nat BY <1>1
  <2>4. QED BY <2>2, <2>3
<1>7. 1 < stage[v] \/ stage[v] = 1
  <2> DEFINE r == stage[v]
  <2>1. r \in Nat /\ r >= 1 BY ThreadFacts DEF FlowInv, RaceInv
  <2> HIDE DEF r
  <2>2. 1 < r \/ r = 1 BY <2>1
  <2>3. QED BY <2>2 DEF r
<1>8. QED BY <1>5, <1>6, <1>7

LEMMA ResultsApart ==
    ASSUME NEW r \in 1..15, NEW s \in Results, NEW e, NEW d, NEW i, NEW j,
           NEW f \in ItemEffects(e, s, i), NEW g \in ItemEffects(d, r, j), f.to = g.to
    PROVE  e = d
<1>1. f.to[1] \in WriteBuffers(s) /\ g.to[1] \in WriteBuffers(r)
  BY BuffersOfEffects DEF Results
<1>2. CASE s = 12
  <2>1. f.to[1] = "residual_vector_terms" BY <1>1, <1>2 DEF WriteBuffers
  <2>2. r = 12
    BY <1>1, <2>1, StageNames DEF WriteBuffers, DampingBuffers
  <2>3. f.to[2] = e /\ g.to[2] = d
    BY <1>2, <2>2, EffectsOfStages DEF IntegrateResidual, Effects
  <2>4. QED BY <2>3
<1>3. CASE s = 15
  <2>1. f.to[1] = "system_matrix_terms" BY <1>1, <1>3 DEF WriteBuffers
  <2>2. r = 15
    BY <1>1, <2>1, StageNames DEF WriteBuffers, DampingBuffers
  <2>3. f.to[2] = e /\ g.to[2] = d
    BY <1>3, <2>2, EffectsOfStages DEF SystemMatrix, Effects
  <2>4. QED BY <2>3
<1>4. QED BY <1>2, <1>3 DEF Results

\* A running item overwrites no value of another element that is to be kept.
LEMMA OverwritesItsOwn ==
    ASSUME TeamAssumption, FlowInv, NEW t \in Threads, Running(t),
           NEW v \in Threads, NEW e \in DOMAIN Elements, NEW s \in 1..15, NEW i \in Nat,
           Kept(e, s), i % TeamSize = v, Done(v, e, s, i),
           NEW f \in ItemEffects(e, s, i), f.to \in Writes(t)
    PROVE  e = element[t]
<1>1. /\ element[t] \in Nat /\ stage[t] \in 1..15 /\ MayRun(t)
      /\ element[v] \in Nat
  BY ThreadFacts DEF FlowInv, RaceInv, Running
<1>2. CASE s \in Results
  <2> DEFINE d == element[t]
             r == stage[t]
             j == next[t]
  <2>1. r \in 1..15 BY <1>1
  <2>2. \E g \in ItemEffects(d, r, j) : f.to = g.to BY DEF Writes, Effect
  <2> HIDE DEF d, r, j
  <2>3. PICK g \in ItemEffects(d, r, j) : f.to = g.to BY <2>2
  <2>4. e = d BY <1>2, <2>1, <2>3, ResultsApart
  <2>5. QED BY <2>4 DEF d
<1>3. CASE s \notin Results
  <2>1. PICK w \in Threads : element[w] = e BY <1>3 DEF Kept
  <2>2. e \in Nat BY <2>1, ThreadFacts DEF FlowInv, RaceInv
  <2>3. e >= element[t]
    <3>0. 1 \in Barriers BY DEF Barriers
    <3>1. 1 \in Barriers /\ 1 <= stage[t]
      <4>1. stage[t] \in Nat /\ stage[t] >= 1 BY ThreadFacts DEF FlowInv, RaceInv
      <4>2. QED BY <4>1, <3>0
    <3>2. element[w] > element[t] \/ element[w] = element[t]
      BY <1>1, <3>1, BehindBarrier DEF FlowInv, RaceInv
    <3>3. QED BY <1>1, <2>1, <2>2, <3>2
  <2>4. CASE element[v] > e
    <3>1. element[v] <= element[t] + 1 BY DEF FlowInv, Close
    <3>2. QED BY <1>1, <2>2, <2>3, <2>4, <3>1
  <2>5. CASE element[v] = e
    <3>1. element[t] >= e BY <2>5, DoneMeansStarted
    <3>2. QED BY <1>1, <2>2, <2>3, <3>1
  <2>6. QED BY <2>4, <2>5 DEF Done
<1>4. QED BY <1>2, <1>3

LEMMA ItemDone ==
    ASSUME TeamAssumption, FlowInv, NEW t \in Threads, RunItem(t),
           NEW v \in Threads, NEW e, NEW s \in 1..15, NEW i \in Nat,
           i % TeamSize = v, Done(v, e, s, i)'
    PROVE  \/ Done(v, e, s, i)
           \/ v = t /\ e = element[t] /\ s = stage[t] /\ i = next[t]
<1>1. /\ element' = element /\ stage' = stage
      /\ next'[v] = IF v = t THEN next[t] + TeamSize ELSE next[v]
  BY DEF RunItem, FlowInv, RaceInv, TypeOK
<1>2. CASE v # t BY <1>1, <1>2 DEF Done
<1>3. CASE v = t /\ element[t] = e /\ stage[t] = s /\ i < next[t] + TeamSize
  <2>1. next[t] \in Nat /\ next[t] % TeamSize = t
    BY DEF FlowInv, RaceInv, TypeOK, Shares
  <2>2. TeamSize \in Nat \ {0} BY DEF TeamAssumption
  <2>3. CASE i < next[t] BY <1>3, <2>3 DEF Done
  <2>4. CASE next[t] <= i
    <3>1. next[t] = i BY <1>3, <2>1, <2>2, <2>4, NextOfShare
    <3>2. QED BY <1>3, <3>1
  <2>5. QED BY <2>1, <2>3, <2>4
<1>4. CASE v = t /\ ~ (element[t] = e /\ stage[t] = s /\ i < next[t] + TeamSize)
  BY <1>1, <1>4 DEF Done
<1>5. QED BY <1>2, <1>3, <1>4

LEMMA RunItemKeepsData ==
    ASSUME TeamAssumption, FlowInv, NEW t \in Threads, RunItem(t) PROVE DataInv'
<1> SUFFICES ASSUME NEW v \in Threads, NEW e \in DOMAIN Elements, NEW s \in 1..15, Kept(e, s)',
                    NEW i \in 0..(Items(e, s) - 1), i % TeamSize = v, Done(v, e, s, i)',
                    NEW f \in ItemEffects(e, s, i)
             PROVE  Held(f.to)' = e
  BY DEF DataInv
<1>1. Running(t) BY DEF RunItem, Running
<1>2. i \in Nat OBVIOUS
<1>3. Kept(e, s) BY DEF RunItem, Kept
<1> DEFINE l == f.to
<1>4. IF l \in Writes(t) THEN Held(l)' = element[t] ELSE Held(l)' = Held(l) BY ItemStores
<1>5. CASE Done(v, e, s, i)
  <2>1. Held(l) = e BY <1>3, <1>5 DEF FlowInv, DataInv
  <2>2. l \in Writes(t) => e = element[t] BY <1>1, <1>2, <1>3, <1>5, OverwritesItsOwn
  <2>3. QED BY <1>4, <2>1, <2>2
<1>6. CASE v = t /\ e = element[t] /\ s = stage[t] /\ i = next[t]
  <2>1. l \in Writes(t) BY <1>6 DEF Writes, Effect
  <2>2. QED BY <1>4, <1>6, <2>1
<1>7. QED BY <1>2, <1>5, <1>6, ItemDone

\* A step that writes nothing keeps the data, if it makes nothing done or kept.
LEMMA DataKept ==
    ASSUME TeamAssumption, FlowInv, mem' = mem,
           ASSUME NEW v \in Threads, NEW e \in DOMAIN Elements, NEW s \in 1..15,
                  NEW i \in 0..(Items(e, s) - 1), i % TeamSize = v,
                  Kept(e, s)', Done(v, e, s, i)'
           PROVE  Kept(e, s) /\ Done(v, e, s, i)
    PROVE  DataInv'
<1> SUFFICES ASSUME NEW v \in Threads, NEW e \in DOMAIN Elements, NEW s \in 1..15, Kept(e, s)',
                    NEW i \in 0..(Items(e, s) - 1), i % TeamSize = v, Done(v, e, s, i)',
                    NEW f \in ItemEffects(e, s, i)
             PROVE  Held(f.to)' = e
  BY DEF DataInv
<1>1. Kept(e, s) /\ Done(v, e, s, i) OBVIOUS
<1>2. Held(f.to) = e BY <1>1 DEF FlowInv, DataInv
<1>3. QED BY <1>2 DEF Held

LEMMA EndStageKeepsData ==
    ASSUME TeamAssumption, FlowInv, NEW t \in Threads, EndStage(t) PROVE DataInv'
<1>1. mem' = mem /\ element' = element BY DEF EndStage
<1>2. ASSUME NEW v \in Threads, NEW e \in DOMAIN Elements, NEW s \in 1..15,
             NEW i \in 0..(Items(e, s) - 1), i % TeamSize = v, Kept(e, s)', Done(v, e, s, i)'
      PROVE  Kept(e, s) /\ Done(v, e, s, i)
  <2>1. Kept(e, s) BY <1>1, <1>2 DEF Kept
  <2>2. CASE v # t
    <3>1. stage'[v] = stage[v] /\ next'[v] = next[v] BY <2>2 DEF EndStage
    <3>2. QED BY <1>1, <1>2, <2>1, <3>1 DEF Done
  <2>3. CASE v = t
    <3>1. /\ stage'[t] = stage[t] + 1 /\ next'[t] = t
          /\ next[t] \in Nat /\ stage[t] \in Nat /\ t \in Nat /\ Working(t)
      <4>1. stage \in [Threads -> 1..LastStage] /\ next \in [Threads -> Nat]
        BY DEF FlowInv, RaceInv, TypeOK
      <4>2. stage'[t] = stage[t] + 1 /\ next'[t] = t /\ Working(t) BY <4>1 DEF EndStage
      <4>3. QED BY <4>2, ThreadFacts, ThreadsAre DEF FlowInv, RaceInv
    <3>2. i \in Nat OBVIOUS
    <3>3. t <= i BY <1>2, <2>3, <3>2, ShareStartsAtThread
    <3>4. element[t] > e \/ (element[t] = e /\ stage[t] + 1 > s)
      BY <1>1, <1>2, <2>3, <3>1, <3>2, <3>3 DEF Done
    <3>5. CASE element[t] > e BY <2>1, <2>3, <3>5 DEF Done
    <3>6. CASE element[t] = e /\ stage[t] > s BY <2>1, <2>3, <3>6 DEF Done
    <3>7. CASE element[t] = e /\ stage[t] = s
      <4>1. ~ (next[t] < Items(e, s)) BY <3>1, <3>7 DEF EndStage, HasItem
      <4>2. Items(e, s) \in Nat BY ItemsAreNumbers
      <4>3. i < next[t] BY <3>1, <4>1, <4>2
      <4>4. QED BY <2>1, <2>3, <3>7, <4>3 DEF Done
    <3>8. s \in Nat OBVIOUS
    <3>9. stage[t] + 1 > s => stage[t] > s \/ stage[t] = s BY <3>1, <3>8
    <3>10. QED BY <3>4, <3>5, <3>6, <3>7, <3>9
  <2>4. QED BY <2>2, <2>3
<1>3. QED BY <1>1, <1>2, DataKept

LEMMA EndElementMoves ==
    ASSUME TeamAssumption, FlowInv, NEW t \in Threads, EndElement(t)
    PROVE  /\ mem' = mem /\ Working(t) /\ MayRun(t) /\ stage[t] = 15
           /\ ~ (next[t] < Items(element[t], 15))
           /\ element'[t] = element[t] + 1 /\ stage'[t] = 1 /\ next'[t] = t
           /\ \A u \in Threads \ {t} :
                 element'[u] = element[u] /\ stage'[u] = stage[u] /\ next'[u] = next[u]
           /\ \A u \in Threads : element[u] >= element[t]
<1>1. /\ element \in [Threads -> 1..(Len(Elements) + 1)]
      /\ stage \in [Threads -> 1..LastStage] /\ next \in [Threads -> Nat]
  BY DEF FlowInv, RaceInv, TypeOK
<1>2. /\ mem' = mem /\ Working(t) /\ MayRun(t) /\ stage[t] = 15
      /\ ~ (next[t] < Items(element[t], 15))
  BY StageNames DEF EndElement, HasItem
<1>3. /\ element'[t] = element[t] + 1 /\ stage'[t] = 1 /\ next'[t] = t
      /\ \A u \in Threads \ {t} :
            element'[u] = element[u] /\ stage'[u] = stage[u] /\ next'[u] = next[u]
  BY <1>1 DEF EndElement
<1>4. ASSUME NEW u \in Threads PROVE element[u] >= element[t]
  <2>1. 15 \in Barriers /\ 15 <= stage[t] BY <1>2 DEF Barriers
  <2>2. element[u] > element[t] \/ element[u] = element[t]
    BY <1>2, <2>1, BehindBarrier DEF FlowInv, RaceInv
  <2>3. element[u] \in Nat /\ element[t] \in Nat BY ThreadFacts DEF FlowInv, RaceInv
  <2>4. QED BY <2>2, <2>3
<1>5. QED BY <1>2, <1>3, <1>4

LEMMA EndElementKeepsData ==
    ASSUME TeamAssumption, FlowInv, NEW t \in Threads, EndElement(t) PROVE DataInv'
<1>1. mem' = mem BY EndElementMoves
<1>2. ASSUME NEW v \in Threads, NEW e \in DOMAIN Elements, NEW s \in 1..15,
             NEW i \in 0..(Items(e, s) - 1), i % TeamSize = v, Kept(e, s)', Done(v, e, s, i)'
      PROVE  Kept(e, s) /\ Done(v, e, s, i)
  <2>0. /\ e \in Nat /\ s \in Nat /\ i \in Nat
        /\ \A u \in Threads : element[u] \in Nat
    <3>1. DOMAIN Elements \subseteq Nat BY DEF TeamAssumption
    <3>2. e \in Nat BY <3>1
    <3>3. s \in Nat /\ i \in Nat OBVIOUS
    <3>4. \A u \in Threads : element[u] \in Nat BY ThreadFacts DEF FlowInv, RaceInv
    <3>5. QED BY <3>2, <3>3, <3>4
  <2>1. v = t => element[t] + 1 > e
    <3>1. SUFFICES ASSUME v = t PROVE element[t] + 1 > e OBVIOUS
    <3>2. t <= i /\ t \in Nat BY <1>2, <2>0, <3>1, ShareStartsAtThread, ThreadsAre
    <3>3. \/ element[t] + 1 > e
          \/ element[t] + 1 = e /\ (1 > s \/ (1 = s /\ i < t))
      BY <1>2, <3>1, EndElementMoves DEF Done
    <3>4. ~ (i < t) BY <2>0, <3>2
    <3>5. 1 <= s OBVIOUS
    <3>6. QED BY <2>0, <3>3, <3>4, <3>5
  <2>2. Kept(e, s)
    <3>1. CASE s \in Results BY <3>1 DEF Kept
    <3>2. CASE s \notin Results
      <4>1. PICK u \in Threads : element'[u] = e BY <1>2, <3>2 DEF Kept
      <4>2. CASE u # t
        <5>1. element[u] = e BY <4>1, <4>2, EndElementMoves
        <5>2. QED BY <5>1 DEF Kept
      <4>3. CASE u = t
        <5>1. e = element[t] + 1 BY <4>1, <4>3, EndElementMoves
        <5>2. v # t BY <2>0, <2>1, <5>1
        <5>3. element[v] > e \/ element[v] = e
          BY <1>2, <5>2, EndElementMoves DEF Done
        <5>4. element[v] <= element[t] + 1 BY DEF FlowInv, Close
        <5>5. element[v] = e BY <2>0, <5>1, <5>3, <5>4
        <5>6. QED BY <5>5 DEF Kept
      <4>4. QED BY <4>2, <4>3
    <3>3. QED BY <3>1, <3>2
  <2>3. CASE v # t
    <3>1. element'[v] = element[v] /\ stage'[v] = stage[v] /\ next'[v] = next[v]
      BY <2>3, EndElementMoves
    <3>2. QED BY <1>2, <2>2, <3>1 DEF Done
  <2>4. CASE v = t
    <3>1. element[t] > e \/ element[t] = e BY <2>0, <2>1, <2>4
    <3>2. CASE element[t] > e BY <2>2, <2>4, <3>2 DEF Done
    <3>3. CASE element[t] = e /\ s < 15
      <4>1. stage[t] > s BY <2>0, <3>3, EndElementMoves
      <4>2. QED BY <2>2, <2>4, <3>3, <4>1 DEF Done
    <3>4. CASE element[t] = e /\ s = 15
      <4>1. ~ (next[t] < Items(e, s)) /\ stage[t] = s BY <3>4, EndElementMoves
      <4>2. Items(e, s) \in Nat /\ next[t] \in Nat
        BY ItemsAreNumbers, ThreadFacts DEF FlowInv, RaceInv
      <4>3. i < next[t] BY <2>0, <4>1, <4>2
      <4>4. QED BY <2>2, <2>4, <3>4, <4>1, <4>3 DEF Done
    <3>5. s < 15 \/ s = 15 OBVIOUS
    <3>6. QED BY <3>1, <3>2, <3>3, <3>4, <3>5
  <2>5. QED BY <2>3, <2>4
<1>3. QED BY <1>1, <1>2, DataKept

LEMMA StepKeepsStarted ==
    ASSUME TeamAssumption, FlowInv, NEW t \in Threads, Step(t) PROVE Started'
<1>0. /\ \A u \in Threads : /\ element[u] \in Nat /\ stage[u] \in Nat /\ next[u] \in Nat
                            /\ u \in Nat
      /\ \A b \in Barriers : b \in Nat
  <2>1. \A b \in Barriers : b \in Nat BY DEF Barriers
  <2>2. \A u \in Threads : /\ element[u] \in Nat /\ stage[u] \in Nat /\ next[u] \in Nat
                           /\ u \in Nat
    BY ThreadFacts, ThreadsAre DEF FlowInv, RaceInv
  <2>3. QED BY <2>1, <2>2
<1>1. CASE RunItem(t)
  <2> SUFFICES ASSUME NEW v \in Threads, NEW u \in Threads, NEW b \in Barriers,
                      b = stage'[v], v < next'[v]
               PROVE  \/ element'[u] > element'[v]
                      \/ element'[u] = element'[v] /\ b <= stage'[u]
    BY DEF Started
  <2>1. element' = element /\ stage' = stage /\ MayRun(t) BY <1>1 DEF RunItem
  <2>2. CASE v = t
    <3>1. b <= stage[t] BY <1>0, <2>1, <2>2
    <3>2. element[u] > element[t] \/ (element[u] = element[t] /\ b <= stage[u])
      BY <2>1, <3>1, BehindBarrier DEF FlowInv, RaceInv
    <3>3. QED BY <2>1, <2>2, <3>2
  <2>3. CASE v # t
    <3>1. next'[v] = next[v] BY <1>1, <2>3 DEF RunItem
    <3>2. QED BY <2>1, <3>1 DEF FlowInv, Started
  <2>4. QED BY <2>2, <2>3
<1>2. CASE EndStage(t)
  <2> SUFFICES ASSUME NEW v \in Threads, NEW u \in Threads, NEW b \in Barriers,
                      b = stage'[v], v < next'[v]
               PROVE  \/ element'[u] > element'[v]
                      \/ element'[u] = element'[v] /\ b <= stage'[u]
    BY DEF Started
  <2>1. /\ element' = element /\ next'[t] = t
        /\ stage'[u] = IF u = t THEN stage[t] + 1 ELSE stage[u]
        /\ v # t => stage'[v] = stage[v] /\ next'[v] = next[v]
    BY <1>2 DEF EndStage, FlowInv, RaceInv, TypeOK
  <2>2. v # t BY <1>0, <2>1
  <2>3. element[u] > element[v] \/ (element[u] = element[v] /\ b <= stage[u])
    BY <2>1, <2>2 DEF FlowInv, Started
  <2>4. b <= stage[u] => b <= stage'[u] BY <1>0, <2>1
  <2>5. QED BY <2>1, <2>3, <2>4
<1>3. CASE EndElement(t)
  <2> SUFFICES ASSUME NEW v \in Threads, NEW u \in Threads, NEW b \in Barriers,
                      b = stage'[v], v < next'[v]
               PROVE  \/ element'[u] > element'[v]
                      \/ element'[u] = element'[v] /\ b <= stage'[u]
    BY DEF Started
  <2>1. v # t BY <1>0, <1>3, EndElementMoves
  <2>2. element'[v] = element[v] /\ stage'[v] = stage[v] /\ next'[v] = next[v]
    BY <1>3, <2>1, EndElementMoves
  <2>3. element[u] > element[v] \/ (element[u] = element[v] /\ b <= stage[u])
    BY <2>2 DEF FlowInv, Started
  <2>4. CASE u = t
    <3>1. element'[u] = element[u] + 1 BY <1>3, <2>4, EndElementMoves
    <3>2. element'[u] > element'[v] BY <1>0, <2>2, <2>3, <3>1
    <3>3. QED BY <3>2
  <2>5. CASE u # t
    <3>1. element'[u] = element[u] /\ stage'[u] = stage[u] BY <1>3, <2>5, EndElementMoves
    <3>2. QED BY <2>2, <2>3, <3>1
  <2>6. QED BY <2>4, <2>5
<1>4. QED BY <1>1, <1>2, <1>3 DEF Step

LEMMA StepKeepsClose ==
    ASSUME TeamAssumption, FlowInv, NEW t \in Threads, Step(t) PROVE Close'
<1>0. \A u \in Threads : element[u] \in Nat BY ThreadFacts DEF FlowInv, RaceInv
<1>1. CASE RunItem(t) \/ EndStage(t)
  <2>1. element' = element BY <1>1 DEF RunItem, EndStage
  <2>2. QED BY <2>1 DEF FlowInv, Close
<1>2. CASE EndElement(t)
  <2>1. ASSUME NEW v \in Threads, NEW u \in Threads PROVE element'[v] <= element'[u] + 1
    <3>1. /\ element'[v] = IF v = t THEN element[t] + 1 ELSE element[v]
          /\ element'[u] = IF u = t THEN element[t] + 1 ELSE element[u]
      BY <1>2, EndElementMoves
    <3>2. element[u] >= element[t] BY <1>2, EndElementMoves
    <3>3. element[v] <= element[u] + 1 BY DEF FlowInv, Close
    <3>4. QED BY <1>0, <3>1, <3>2, <3>3
  <2>2. QED BY <2>1 DEF Close
<1>3. QED BY <1>1, <1>2 DEF Step

LEMMA InitFlowInv == ASSUME TeamAssumption, Init PROVE FlowInv
<1>1. RaceInv BY InitRaceInv
<1>2. \A t \in Threads : element[t] = 1 /\ stage[t] = 1 /\ next[t] = t /\ t \in Nat
  BY ThreadsAre DEF Init
<1>3. Started BY <1>2 DEF Started
<1>4. Close BY <1>2 DEF Close
<1>5. ASSUME NEW t \in Threads, NEW e \in DOMAIN Elements, NEW s \in 1..15,
             NEW i \in 0..(Items(e, s) - 1), i % TeamSize = t, Done(t, e, s, i)
      PROVE  FALSE
  <2>1. i \in Nat /\ s \in Nat /\ s >= 1 OBVIOUS
  <2>2. t <= i BY <1>5, <2>1, ShareStartsAtThread
  <2>3. e \in Nat /\ e >= 1
    <3>1. DOMAIN Elements = 1..Len(Elements) /\ Len(Elements) \in Nat BY DEF TeamAssumption
    <3>2. QED BY <3>1
  <2>4. 1 > e \/ 1 > s \/ i < t BY <1>2, <1>5 DEF Done
  <2>5. QED BY <1>2, <2>1, <2>2, <2>3, <2>4
<1>6. DataInv BY <1>5 DEF DataInv
<1>7. QED BY <1>1, <1>3, <1>4, <1>6 DEF FlowInv

LEMMA NextFlowInv == ASSUME TeamAssumption, FlowInv, [Next]_vars PROVE FlowInv'
<1>1. RaceInv' BY NextRaceInv DEF FlowInv
<1>2. CASE Next
  <2>1. PICK t \in Threads : Step(t) BY <1>2 DEF Next
  <2>2. Started' /\ Close' BY <2>1, StepKeepsStarted, StepKeepsClose
  <2>3. DataInv'
    BY <2>1, RunItemKeepsData, EndStageKeepsData, EndElementKeepsData DEF Step
  <2>4. QED BY <1>1, <2>2, <2>3 DEF FlowInv
<1>3. CASE UNCHANGED vars
  <2>1. element' = element /\ stage' = stage /\ next' = next /\ mem' = mem BY <1>3 DEF vars
  <2>2. Started' BY <2>1 DEF FlowInv, Started
  <2>3. Close' BY <2>1 DEF FlowInv, Close
  <2>4. ASSUME NEW v \in Threads, NEW e \in DOMAIN Elements, NEW s \in 1..15,
               NEW i \in 0..(Items(e, s) - 1), i % TeamSize = v, Kept(e, s)', Done(v, e, s, i)'
        PROVE  Kept(e, s) /\ Done(v, e, s, i)
    BY <2>1, <2>4 DEF Kept, Done
  <2>5. DataInv' BY <2>1, <2>4, DataKept
  <2>6. QED BY <1>1, <2>2, <2>3, <2>5 DEF FlowInv
<1>4. QED BY <1>2, <1>3

\* What the team keeps true of its memory: every item a thread has left behind
\* has its values in memory, until some thread begins with the next element,
\* and the results of an element for ever.
THEOREM MemoryIsOfTheElement == Spec => []FlowInv
<1>1. Init => FlowInv BY InitFlowInv, TeamAssumption
<1>2. FlowInv /\ [Next]_vars => FlowInv' BY NextFlowInv, TeamAssumption
<1>3. QED BY <1>1, <1>2, PTL DEF Spec

\* No running item reads a value of another element, of the padding, or that
\* nobody has set, whatever the team, the vectors and the elements.
THEOREM NothingStaleIsRead == Spec => []NothingStale
<1>1. FlowInv => NothingStale BY OperandsAreHeld, TeamAssumption DEF NothingStale
<1>2. QED BY <1>1, MemoryIsOfTheElement, PTL

LEMMA OneTarget ==
    ASSUME NEW l, NEW operands
    PROVE  \E g \in Effects({l}, operands) : g.to = l
<1> DEFINE g == [to |-> l, from |-> operands]
<1>1. g \in Effects({l}, operands) BY DEF Effects
<1>2. g.to = l OBVIOUS
<1>3. QED BY <1>1, <1>2

\* The residual of a node and the matrix block of a pair of nodes are there
\* when every thread has left the element.
LEMMA FinishedIsComplete ==
    ASSUME TeamAssumption, FlowInv, NEW e \in DOMAIN Elements, Finished(e),
           NEW n1 \in 0..(Nodes(e) - 1), NEW n2 \in 0..(Nodes(e) - 1)
    PROVE  /\ Held(<<"residual_vector_terms", e, n1>>) = e
           /\ Held(<<"system_matrix_terms", e, n1, n2>>) = e
<1> DEFINE nodes == Nodes(e)
           place == nodes * n1 + n2
<1>0. nodes \in Nat \ {0} BY ShapeOfElement
<1>1. ASSUME NEW s \in Results, NEW i \in 0..(Items(e, s) - 1), NEW f \in ItemEffects(e, s, i)
      PROVE  Held(f.to) = e
  <2>1. i \in Nat /\ s \in 1..15 BY DEF Results
  <2> DEFINE t == i % TeamSize
  <2>2. t \in Threads BY <2>1, OwnerOfItem
  <2> HIDE DEF t
  <2>3. Done(t, e, s, i) BY <2>2 DEF Finished, Done
  <2>4. Kept(e, s) BY DEF Kept
  <2>5. QED BY <2>1, <2>2, <2>3, <2>4 DEF FlowInv, DataInv, t
<1>2. Held(<<"residual_vector_terms", e, n1>>) = e
  <2>1. n1 \in 0..(Items(e, 12) - 1) BY ItemsOfStages
  <2>2. \E f \in ItemEffects(e, 12, n1) : f.to = <<"residual_vector_terms", e, n1>>
    <3>1. \E f \in IntegrateResidual(e, n1) : f.to = <<"residual_vector_terms", e, n1>>
      BY OneTarget, Zenon DEF IntegrateResidual
    <3>2. QED BY <3>1, EffectsOfStages
  <2>3. QED BY <1>1, <2>1, <2>2 DEF Results
<1>3. Held(<<"system_matrix_terms", e, n1, n2>>) = e
  <2>1. place \div nodes = n1 /\ place % nodes = n2
    <3>1. n1 \in Nat OBVIOUS
    <3> HIDE DEF nodes
    <3>2. n2 \in 0..(nodes - 1) BY DEF nodes
    <3>3. QED BY <1>0, <3>1, <3>2, DivisionRecovers
  <2>2. place \in 0..(nodes * nodes - 1)
    <3>1. n1 + 1 <= nodes /\ n1 \in Nat /\ n2 \in Nat /\ n2 < nodes BY <1>0
    <3> HIDE DEF nodes
    <3>2. nodes * (n1 + 1) <= nodes * nodes BY <1>0, <3>1, ProductGrows
    <3>3. nodes * (n1 + 1) = nodes * n1 + nodes /\ nodes * n1 \in Nat /\ nodes * nodes \in Nat
      BY <1>0, <3>1, SMT
    <3>4. QED BY <1>0, <3>1, <3>2, <3>3
  <2>3. place \in 0..(Items(e, 15) - 1) BY <2>2, ItemsOfStages
  <2> HIDE DEF place
  <2>4. \E f \in ItemEffects(e, 15, place) :
           f.to = <<"system_matrix_terms", e, place \div nodes, place % nodes>>
    <3>1. \E f \in SystemMatrix(e, place) :
             f.to = <<"system_matrix_terms", e, place \div nodes, place % nodes>>
      BY OneTarget, Zenon DEF SystemMatrix
    <3>2. QED BY <3>1, EffectsOfStages
  <2>5. \E f \in ItemEffects(e, 15, place) : f.to = <<"system_matrix_terms", e, n1, n2>>
    BY <2>1, <2>4
  <2>6. QED BY <1>1, <2>3, <2>5 DEF Results
<1>4. QED BY <1>2, <1>3

\* When the team is done with an element its residual and its matrix are whole,
\* whatever the team, the vectors and the elements.
THEOREM NothingOfTheResultIsMissing == Spec => []ResultComplete
<1>1. FlowInv => ResultComplete BY FinishedIsComplete, TeamAssumption DEF ResultComplete
<1>2. QED BY <1>1, MemoryIsOfTheElement, PTL
=============================================================================
