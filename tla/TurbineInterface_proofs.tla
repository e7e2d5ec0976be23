------------------------ MODULE TurbineInterface_proofs -----------------------
(***************************************************************************)
(* Proofs about TurbineAssembly and the time series of TurbineInterface,   *)
(* for any number of blades, any orders of the beams and any sections.     *)
(***************************************************************************)
EXTENDS TurbineInterface, FiniteSetTheorems, WellFoundedInduction, SequenceTheorems, TLAPS

-----------------------------------------------------------------------------
(* Sequences, whatever their elements are.                                   *)

IsSequence(s) == Len(s) \in Nat /\ s = [k \in 1 .. Len(s) |-> s[k]]

LEMMA SequenceOf ==
    ASSUME NEW n \in Nat, NEW s, s = [k \in 1 .. n |-> s[k]]
    PROVE  IsSequence(s) /\ Len(s) = n /\ DOMAIN s = 1 .. n
<1> DEFINE S == {s[k] : k \in 1 .. n}
<1>1. s \in [1 .. n -> S] /\ DOMAIN s = 1 .. n
  <2>1. \A k \in 1 .. n : s[k] \in S OBVIOUS
  <2> HIDE DEF S
  <2>2. QED BY <2>1
<1> HIDE DEF S
<1>2. s \in Seq(S) BY <1>1, SeqDef
<1>3. Len(s) = n BY <1>1, <1>2, LenProperties
<1>4. QED BY <1>1, <1>3 DEF IsSequence

LEMMA AsSeq ==
    ASSUME NEW s, IsSequence(s), NEW S, \A k \in 1 .. Len(s) : s[k] \in S
    PROVE  s \in Seq(S) /\ Len(s) \in Nat /\ DOMAIN s = 1 .. Len(s)
<1>1. Len(s) \in Nat /\ s = [k \in 1 .. Len(s) |-> s[k]] BY DEF IsSequence
<1> DEFINE n == Len(s)
<1>2. s \in [1 .. n -> S] /\ DOMAIN s = 1 .. n BY <1>1
<1> HIDE DEF n
<1>3. s \in Seq(S) BY <1>1, <1>2, SeqDef DEF n
<1>4. QED BY <1>1, <1>2, <1>3 DEF n

LEMMA Elements ==
    ASSUME NEW s, IsSequence(s)
    PROVE  /\ Len(s) \in Nat /\ DOMAIN s = 1 .. Len(s)
           /\ s \in Seq({s[k] : k \in 1 .. Len(s)})
<1> DEFINE S == {s[k] : k \in 1 .. Len(s)}
<1>1. \A k \in 1 .. Len(s) : s[k] \in S OBVIOUS
<1> HIDE DEF S
<1>2. s \in Seq(S) /\ Len(s) \in Nat /\ DOMAIN s = 1 .. Len(s) BY <1>1, AsSeq
<1>3. QED BY <1>2 DEF S

LEMMA SequenceIn ==
    ASSUME NEW S, NEW s \in Seq(S)
    PROVE  IsSequence(s)
<1>1. Len(s) \in Nat /\ DOMAIN s = 1 .. Len(s) /\ s \in [1 .. Len(s) -> S]
  BY LenProperties, SeqDef
<1>2. s = [k \in 1 .. Len(s) |-> s[k]] BY <1>1
<1>3. QED BY <1>1, <1>2 DEF IsSequence

LEMMA Same ==
    ASSUME NEW s, NEW t, IsSequence(s), IsSequence(t), Len(s) = Len(t),
           \A k \in 1 .. Len(s) : s[k] = t[k]
    PROVE  s = t
<1>1. s = [k \in 1 .. Len(s) |-> s[k]] /\ t = [k \in 1 .. Len(s) |-> t[k]] BY DEF IsSequence
<1>2. QED BY <1>1

LEMMA Joined ==
    ASSUME NEW a, NEW b, IsSequence(a), IsSequence(b)
    PROVE  /\ IsSequence(a \o b) /\ Len(a \o b) = Len(a) + Len(b)
           /\ \A k \in 1 .. Len(a) : (a \o b)[k] = a[k]
           /\ \A k \in 1 .. Len(b) : (a \o b)[Len(a) + k] = b[k]
<1> DEFINE S == {a[k] : k \in 1 .. Len(a)} \cup {b[k] : k \in 1 .. Len(b)}
           m == Len(a)
           n == Len(b)
           c == a \o b
<1>1. a \in Seq(S) /\ b \in Seq(S)
  <2>1. (\A k \in 1 .. Len(a) : a[k] \in S) /\ (\A k \in 1 .. Len(b) : b[k] \in S) OBVIOUS
  <2> HIDE DEF S
  <2>2. QED BY <2>1, AsSeq
<1> HIDE DEF S
<1>2. /\ m \in Nat /\ n \in Nat /\ c \in Seq(S) /\ Len(c) = m + n
      /\ \A k \in 1 .. m + n : c[k] = IF k <= m THEN a[k] ELSE b[k - m]
  BY <1>1, LenProperties, ConcatProperties
<1>3. IsSequence(c) BY <1>2, SequenceIn
<1> HIDE DEF m, n, c
<1>4. \A k \in 1 .. m : c[k] = a[k] BY <1>2
<1>5. \A k \in 1 .. n : c[m + k] = b[k]
  <2> SUFFICES ASSUME NEW k \in 1 .. n PROVE c[m + k] = b[k] OBVIOUS
  <2>1. m + k \in 1 .. m + n /\ ~ (m + k <= m) /\ (m + k) - m = k BY <1>2
  <2>2. QED BY <1>2, <2>1
<1>6. QED BY <1>2, <1>3, <1>4, <1>5 DEF m, n, c

LEMMA Appended ==
    ASSUME NEW s, IsSequence(s), NEW x
    PROVE  /\ IsSequence(Append(s, x)) /\ Len(Append(s, x)) = Len(s) + 1
           /\ \A k \in 1 .. Len(s) : Append(s, x)[k] = s[k]
           /\ Append(s, x)[Len(s) + 1] = x
<1> DEFINE S == {s[k] : k \in 1 .. Len(s)} \cup {x}
<1>1. s \in Seq(S) /\ x \in S
  <2>1. x \in S /\ \A k \in 1 .. Len(s) : s[k] \in S OBVIOUS
  <2> HIDE DEF S
  <2>2. QED BY <2>1, AsSeq
<1> HIDE DEF S
<1>2. /\ Append(s, x) \in Seq(S) /\ Len(Append(s, x)) = Len(s) + 1
      /\ \A k \in 1 .. Len(s) : Append(s, x)[k] = s[k]
      /\ Append(s, x)[Len(s) + 1] = x
  BY <1>1, AppendProperties
<1>3. QED BY <1>2, SequenceIn

\* What a joined sequence holds.
LEMMA JoinedSets ==
    ASSUME NEW a, NEW b, IsSequence(a), IsSequence(b)
    PROVE  /\ ToSet(a \o b) = ToSet(a) \cup ToSet(b)
           /\ IsInjective(a) /\ IsInjective(b) /\ ToSet(a) \cap ToSet(b) = {} =>
                IsInjective(a \o b)
<1> DEFINE m == Len(a)
           n == Len(b)
           c == a \o b
<1>1. /\ m \in Nat /\ n \in Nat /\ DOMAIN a = 1 .. m /\ DOMAIN b = 1 .. n
      /\ DOMAIN c = 1 .. Len(c) /\ Len(c) = m + n
      /\ \A k \in 1 .. m : c[k] = a[k]
      /\ \A k \in 1 .. n : c[m + k] = b[k]
  BY Joined, Elements
<1> HIDE DEF m, n, c
<1>2. \A k \in 1 .. m : k \in DOMAIN c BY <1>1
<1>3. \A k \in 1 .. n : m + k \in DOMAIN c BY <1>1
<1>4. ASSUME NEW k \in DOMAIN c, k \notin 1 .. m
      PROVE  k - m \in 1 .. n /\ c[k] = b[k - m]
  <2>1. k - m \in 1 .. n /\ m + (k - m) = k BY <1>1, <1>4
  <2>2. c[m + (k - m)] = b[k - m] BY <1>1, <2>1
  <2>3. QED BY <2>1, <2>2
<1>5. ToSet(c) = ToSet(a) \cup ToSet(b)
  <2>1. ASSUME NEW v \in ToSet(c) PROVE v \in ToSet(a) \cup ToSet(b)
    <3>1. PICK k \in DOMAIN c : v = c[k] BY DEF ToSet
    <3>2. CASE k \in 1 .. m BY <1>1, <3>1, <3>2 DEF ToSet
    <3>3. CASE k \notin 1 .. m BY <1>1, <1>4, <3>1, <3>3 DEF ToSet
    <3>4. QED BY <3>2, <3>3
  <2>2. \A v \in ToSet(a) : v \in ToSet(c) BY <1>1, <1>2 DEF ToSet
  <2>3. ASSUME NEW v \in ToSet(b) PROVE v \in ToSet(c)
    <3>1. PICK k \in 1 .. n : v = b[k] BY <1>1 DEF ToSet
    <3>2. m + k \in DOMAIN c /\ v = c[m + k] BY <1>1, <1>3, <3>1
    <3>3. QED BY <3>2 DEF ToSet
  <2>4. QED BY <2>1, <2>2, <2>3
<1>6. ASSUME IsInjective(a), IsInjective(b), ToSet(a) \cap ToSet(b) = {} PROVE IsInjective(c)
  <2> SUFFICES ASSUME NEW i \in DOMAIN c, NEW j \in DOMAIN c, c[i] = c[j] PROVE i = j
    BY DEF IsInjective
  <2>1. \A k, l \in 1 .. m : a[k] = a[l] => k = l BY <1>1, <1>6 DEF IsInjective
  <2>2. \A k, l \in 1 .. n : b[k] = b[l] => k = l BY <1>1, <1>6 DEF IsInjective
  <2>3. \A k \in 1 .. m : \A l \in 1 .. n : a[k] # b[l] BY <1>1, <1>6 DEF ToSet
  <2>4. CASE i \in 1 .. m /\ j \in 1 .. m BY <1>1, <2>1, <2>4
  <2>5. CASE i \in 1 .. m /\ j \notin 1 .. m
    <3>1. c[i] = a[i] /\ c[j] = b[j - m] /\ j - m \in 1 .. n BY <1>1, <1>4, <2>5
    <3>2. QED BY <2>3, <2>5, <3>1
  <2>6. CASE i \notin 1 .. m /\ j \in 1 .. m
    <3>1. c[j] = a[j] /\ c[i] = b[i - m] /\ i - m \in 1 .. n BY <1>1, <1>4, <2>6
    <3>2. QED BY <2>3, <2>6, <3>1
  <2>7. CASE i \notin 1 .. m /\ j \notin 1 .. m
    <3>1. i - m \in 1 .. n /\ j - m \in 1 .. n /\ b[i - m] = b[j - m] BY <1>4, <2>7
    <3>2. i - m = j - m BY <2>2, <3>1
    <3>3. QED BY <1>1, <3>2
  <2>8. QED BY <2>4, <2>5, <2>6, <2>7
<1>7. QED BY <1>5, <1>6 DEF c

-----------------------------------------------------------------------------
(* Induction, in a form that takes no operator.                              *)

LEMMA LeastOf ==
    ASSUME NEW T \in SUBSET Nat, T # {}
    PROVE  \E n \in T : \A m \in T : n <= m
<1> DEFINE R == {ss \in Nat \X Nat : ss[1] < ss[2]}
<1>1. IsWellFoundedOn(R, Nat) BY NatLessThanWellFounded, Zenon DEF OpToRel
<1>2. \A x, y \in Nat : <<y, x>> \in R <=> y < x OBVIOUS
<1> HIDE DEF R
<1>3. PICK n \in T : \A m \in T : ~ (<<m, n>> \in R) BY <1>1, WFMin
<1>4. ASSUME NEW m \in T PROVE n <= m
  <2>1. m \in Nat /\ n \in Nat OBVIOUS
  <2>2. ~ (m < n) BY <1>2, <1>3, <2>1
  <2>3. QED BY <2>1, <2>2
<1>5. QED BY <1>4

\* What holds of no number, and of every next one, holds of n.
LEMMA Segments ==
    ASSUME NEW n \in Nat, NEW Q, 0 \in Q,
           \A m \in 1 .. n : m - 1 \in Q => m \in Q
    PROVE  n \in Q
<1> DEFINE Bad == {m \in Nat : m <= n /\ m \notin Q}
<1> SUFFICES ASSUME Bad # {} PROVE FALSE OBVIOUS
<1>1. PICK m \in Bad : \A k \in Bad : m <= k
  <2>1. Bad \in SUBSET Nat OBVIOUS
  <2> HIDE DEF Bad
  <2>2. QED BY <2>1, LeastOf
<1>2. m \in 1 .. n /\ m \notin Q BY <1>1
<1>3. m - 1 \notin Bad BY <1>1, <1>2
<1>4. m - 1 \in Q BY <1>2, <1>3
<1>5. QED BY <1>2, <1>4

LEMMA HighestIn ==
    ASSUME NEW n \in Nat, NEW s \in SUBSET (1 .. n), s # {}
    PROVE  Max(s) \in s /\ \A x \in s : Max(s) >= x
<1> DEFINE T == {n - x : x \in s}
<1>1. T \in SUBSET Nat /\ T # {}
  <2>1. \A x \in s : n - x \in Nat OBVIOUS
  <2>2. QED BY <2>1
<1> HIDE DEF T
<1>2. PICK t \in T : \A k \in T : t <= k BY <1>1, LeastOf
<1>3. PICK x \in s : t = n - x BY <1>2 DEF T
<1>4. \A y \in s : x >= y
  <2> SUFFICES ASSUME NEW y \in s PROVE x >= y OBVIOUS
  <2>1. n - y \in T BY DEF T
  <2>2. n - x <= n - y BY <1>2, <1>3, <2>1
  <2>3. QED BY <2>2
<1>5. QED BY <1>4 DEF Max

LEMMA HighestOf ==
    ASSUME NEW m \in Nat, m # 0
    PROVE  /\ Max(1 .. m) = m /\ 1 .. m # {}
           /\ (1 .. m) \ {Max(1 .. m)} = 1 .. m - 1
<1>1. m \in 1 .. m OBVIOUS
<1>2. Max(1 .. m) \in 1 .. m /\ Max(1 .. m) >= m BY <1>1, HighestIn
<1>3. Max(1 .. m) = m BY <1>2
<1>4. QED BY <1>1, <1>3

-----------------------------------------------------------------------------
(* Several sequences, one after the other: FlattenSeq is a recursion over    *)
(* the parts.                                                                *)

Joins(g, q, n) ==
    g = [i \in 1 .. n |-> IF i = 1 THEN q[i] ELSE g[i - 1] \o q[i]]

LEMMA JoinsExists ==
    ASSUME NEW q, NEW n \in Nat
    PROVE  \E g : Joins(g, q, n)
<1> DEFINE Q == {m \in Nat : \E g : Joins(g, q, m)}
<1>1. 0 \in Q
  <2> DEFINE none == [i \in 1 .. 0 |-> IF i = 1 THEN q[i] ELSE q[i - 1] \o q[i]]
  <2>1. Joins(none, q, 0)
    <3>1. \A i \in 1 .. 0 : none[i] = IF i = 1 THEN q[i] ELSE none[i - 1] \o q[i] OBVIOUS
    <3>2. none = [i \in 1 .. 0 |-> IF i = 1 THEN q[i] ELSE none[i - 1] \o q[i]] BY <3>1
    <3> HIDE DEF none
    <3>3. QED BY <3>2, Zenon DEF Joins
  <2>2. QED BY <2>1
<1>2. ASSUME NEW m \in 1 .. n, m - 1 \in Q PROVE m \in Q
  <2>1. PICK g : Joins(g, q, m - 1) BY <1>2
  <2> DEFINE h == [i \in 1 .. m |-> IF i = 1 THEN q[i] ELSE g[i - 1] \o q[i]]
  <2>2. \A i \in 1 .. m - 1 : h[i] = g[i]
    <3>1. \A i \in 1 .. m - 1 : g[i] = IF i = 1 THEN q[i] ELSE g[i - 1] \o q[i]
      BY <2>1, Zenon DEF Joins
    <3>2. \A i \in 1 .. m - 1 : i \in 1 .. m OBVIOUS
    <3>3. QED BY <3>1, <3>2
  <2>3. h = [i \in 1 .. m |-> IF i = 1 THEN q[i] ELSE h[i - 1] \o q[i]]
    <3>1. \A i \in 1 .. m : i # 1 => i - 1 \in 1 .. m - 1 OBVIOUS
    <3>2. \A i \in 1 .. m : i # 1 => h[i - 1] = g[i - 1] BY <2>2, <3>1
    <3>3. QED BY <3>2
  <2>4. Joins(h, q, m) BY <2>3, Zenon DEF Joins
  <2>5. m \in Nat OBVIOUS
  <2>6. QED BY <2>4, <2>5
<1> HIDE DEF Q
<1>3. n \in Q BY <1>1, <1>2, Segments
<1>4. QED BY <1>3 DEF Q

EntriesOf(q, n) == UNION {ToSet(q[k]) : k \in 1 .. n}
PartsApart(q) ==
    /\ \A k \in DOMAIN q : IsInjective(q[k])
    /\ \A k, l \in DOMAIN q : k # l => ToSet(q[k]) \cap ToSet(q[l]) = {}

LEMMA JoinedEntries ==
    ASSUME NEW q, NEW n \in Nat, DOMAIN q = 1 .. n, \A k \in 1 .. n : IsSequence(q[k]),
           NEW g, Joins(g, q, n)
    PROVE  \A i \in 1 .. n : /\ IsSequence(g[i])
                             /\ ToSet(g[i]) = EntriesOf(q, i)
                             /\ PartsApart(q) => IsInjective(g[i])
<1> DEFINE Good(i) == /\ IsSequence(g[i])
                      /\ ToSet(g[i]) = EntriesOf(q, i)
                      /\ PartsApart(q) => IsInjective(g[i])
           Q == {i \in Nat : i \in 1 .. n => Good(i)}
<1>1. 0 \in Q
  <2> HIDE DEF Good
  <2>1. QED OBVIOUS
<1>2. ASSUME NEW i \in 1 .. n, i - 1 \in Q PROVE Good(i)
  <2>1. g[i] = IF i = 1 THEN q[i] ELSE g[i - 1] \o q[i] BY Zenon DEF Joins
  <2>2. IsSequence(q[i]) /\ (PartsApart(q) => IsInjective(q[i])) BY DEF PartsApart
  <2>3. CASE i = 1
    <3>1. 1 .. i = {i} BY <2>3
    <3>2. EntriesOf(q, i) = ToSet(q[i]) BY <3>1 DEF EntriesOf
    <3>3. g[i] = q[i] BY <2>1, <2>3
    <3>4. QED BY <2>2, <3>2, <3>3
  <2>4. CASE i # 1
    <3> DEFINE before == EntriesOf(q, i - 1)
    <3>1. i - 1 \in 1 .. n BY <2>4
    <3>2. Good(i - 1)
      <4> HIDE DEF Good
      <4>1. QED BY <1>2, <3>1
    <3>3. g[i] = g[i - 1] \o q[i] BY <2>1, <2>4
    <3>4. EntriesOf(q, i) = before \cup ToSet(q[i])
      <4>1. 1 .. i = (1 .. i - 1) \cup {i} OBVIOUS
      <4>2. QED BY <4>1 DEF EntriesOf
    <3>5. PartsApart(q) => before \cap ToSet(q[i]) = {}
      <4> SUFFICES ASSUME PartsApart(q), NEW v \in before, v \in ToSet(q[i]) PROVE FALSE
        OBVIOUS
      <4>1. PICK k \in 1 .. i - 1 : v \in ToSet(q[k]) BY DEF EntriesOf
      <4>2. k \in DOMAIN q /\ k # i /\ i \in DOMAIN q OBVIOUS
      <4>3. ToSet(q[k]) \cap ToSet(q[i]) = {} BY <4>2 DEF PartsApart
      <4>4. QED BY <4>1, <4>3
    <3>6. IsSequence(g[i - 1]) /\ ToSet(g[i - 1]) = before BY <3>2
    <3> HIDE DEF before
    <3>7. IsSequence(g[i]) /\ ToSet(g[i]) = before \cup ToSet(q[i])
      BY <2>2, <3>3, <3>6, Joined, JoinedSets
    <3>8. PartsApart(q) => IsInjective(g[i])
      BY <2>2, <3>2, <3>3, <3>5, <3>6, JoinedSets
    <3>9. QED BY <3>4, <3>7, <3>8
  <2>5. QED BY <2>3, <2>4
<1>3. ASSUME NEW i \in 1 .. n PROVE Good(i)
  <2>1. i \in Q
    <3> HIDE DEF Good
    <3>1. \A m \in 1 .. i : m - 1 \in Q => m \in Q BY <1>2
    <3> HIDE DEF Q
    <3>2. QED BY <1>1, <3>1, Segments
  <2> HIDE DEF Good
  <2>2. QED BY <2>1
<1>4. QED BY <1>3

LEMMA FlattenedEntries ==
    ASSUME NEW q, IsSequence(q), \A k \in 1 .. Len(q) : IsSequence(q[k])
    PROVE  /\ IsSequence(FlattenSeq(q))
           /\ ToSet(FlattenSeq(q)) = EntriesOf(q, Len(q))
           /\ PartsApart(q) => IsInjective(FlattenSeq(q))
<1>1. Len(q) \in Nat /\ DOMAIN q = 1 .. Len(q) BY Elements
<1>2. CASE Len(q) = 0
  <2>1. FlattenSeq(q) = q BY <1>2 DEF FlattenSeq
  <2>2. 1 .. Len(q) = {} /\ DOMAIN q = {} BY <1>1, <1>2
  <2>3. QED BY <2>1, <2>2 DEF ToSet, IsInjective, EntriesOf
<1>3. CASE Len(q) # 0
  <2> DEFINE joined == CHOOSE g : Joins(g, q, Len(q))
  <2>1. Joins(joined, q, Len(q)) BY <1>1, JoinsExists
  <2>2. FlattenSeq(q) = joined[Len(q)] BY <1>3, Zenon DEF FlattenSeq, Joins
  <2>3. Len(q) \in 1 .. Len(q) BY <1>1, <1>3
  <2> HIDE DEF joined
  <2>4. QED BY <1>1, <2>1, <2>2, <2>3, JoinedEntries
<1>4. QED BY <1>2, <1>3

-----------------------------------------------------------------------------
(* Nodes changed one after the other.  FoldLeft is a recursion over sets of  *)
(* positions that takes the highest out; when every node is changed at most  *)
(* once, who[k] says at which position, and h[k] to what.                    *)

Changed(ns, who, h, s) == [k \in DOMAIN ns |-> IF who[k] \in s THEN h[k] ELSE ns[k]]

IsOwner(who, K, sets, n) == \A k \in K : \A i \in 1 .. n : k \in sets[i] <=> who[k] = i

LEMMA OwnerExists ==
    ASSUME NEW K, NEW n \in Nat, NEW sets,
           \A i, j \in 1 .. n : i # j => sets[i] \cap sets[j] = {}
    PROVE  \E who : IsOwner(who, K, sets, n)
<1> DEFINE Owner(k) == CHOOSE i \in 1 .. n : k \in sets[i]
           who == [k \in K |-> IF \E i \in 1 .. n : k \in sets[i] THEN Owner(k) ELSE 0]
<1>1. ASSUME NEW k \in K, NEW i \in 1 .. n PROVE k \in sets[i] <=> who[k] = i
  <2>1. CASE k \in sets[i]
    <3>1. Owner(k) \in 1 .. n /\ k \in sets[Owner(k)] BY <2>1
    <3> HIDE DEF Owner
    <3>2. Owner(k) = i BY <2>1, <3>1
    <3>3. QED BY <2>1, <3>2
  <2>2. CASE k \notin sets[i] /\ \E j \in 1 .. n : k \in sets[j]
    <3>1. k \in sets[Owner(k)] BY <2>2
    <3> HIDE DEF Owner
    <3>2. QED BY <2>2, <3>1
  <2>3. CASE k \notin sets[i] /\ ~ \E j \in 1 .. n : k \in sets[j]
    <3> HIDE DEF Owner
    <3>1. QED BY <2>3
  <2>4. QED BY <2>1, <2>2, <2>3
<1> HIDE DEF who
<1>2. QED BY <1>1 DEF IsOwner

LEMMA ChangedNone ==
    ASSUME NEW ns, IsSequence(ns), NEW who, NEW h
    PROVE  Changed(ns, who, h, {}) = ns
<1>1. ns = [k \in 1 .. Len(ns) |-> ns[k]] /\ DOMAIN ns = 1 .. Len(ns) BY Elements DEF IsSequence
<1>2. QED BY <1>1 DEF Changed

\* Positions of the nodes of a list.
Places(ids) == [j \in DOMAIN ids |-> {ids[j] + 1}]
AreIds(ids, ns) == /\ IsSequence(ids) /\ IsInjective(ids)
                   /\ \A j \in 1 .. Len(ids) : ids[j] \in Nat /\ ids[j] + 1 \in DOMAIN ns

\* The change at position m is the last of those at the positions s.
OneMore(ns, who, h, s, m, k) ==
    /\ Changed(ns, who, h, s \ {m})[k] = ns[k]
    /\ Changed(ns, who, h, s) = [Changed(ns, who, h, s \ {m}) EXCEPT ![k] = h[k]]

LEMMA ChangedOnce ==
    ASSUME NEW ns, NEW ids, AreIds(ids, ns), NEW who, NEW h,
           IsOwner(who, DOMAIN ns, Places(ids), Len(ids)),
           NEW s \in SUBSET (1 .. Len(ids)), NEW m \in s
    PROVE  OneMore(ns, who, h, s, m, ids[m] + 1)
<1>1. ids[m] + 1 \in DOMAIN ns /\ DOMAIN ids = 1 .. Len(ids) BY Elements DEF AreIds
<1>2. \A k \in DOMAIN ns : \A j \in 1 .. Len(ids) : k = ids[j] + 1 <=> who[k] = j
  BY <1>1 DEF IsOwner, Places
<1>3. who[ids[m] + 1] = m BY <1>1, <1>2
<1>4. \A k \in DOMAIN ns : k # ids[m] + 1 => who[k] # m BY <1>2
<1>5. Changed(ns, who, h, s \ {m})[ids[m] + 1] = ns[ids[m] + 1] BY <1>1, <1>3 DEF Changed
<1>6. \A k \in DOMAIN ns : Changed(ns, who, h, s)[k] =
        IF k = ids[m] + 1 THEN h[k] ELSE Changed(ns, who, h, s \ {m})[k]
  BY <1>3, <1>4 DEF Changed
<1>7. DOMAIN Changed(ns, who, h, s) = DOMAIN ns /\ DOMAIN Changed(ns, who, h, s \ {m}) = DOMAIN ns
  BY DEF Changed
<1>8. Changed(ns, who, h, s) = [k \in DOMAIN ns |-> Changed(ns, who, h, s)[k]]
  BY DEF Changed
<1>9. QED BY <1>1, <1>5, <1>6, <1>7, <1>8 DEF OneMore

LEMMA PlacesApart ==
    ASSUME NEW ns, NEW ids, AreIds(ids, ns)
    PROVE  \E who : IsOwner(who, DOMAIN ns, Places(ids), Len(ids))
<1>1. Len(ids) \in Nat /\ DOMAIN ids = 1 .. Len(ids) BY Elements DEF AreIds
<1>2. \A i, j \in 1 .. Len(ids) : i # j => ids[i] + 1 # ids[j] + 1
  BY <1>1 DEF AreIds, IsInjective
<1>3. \A i, j \in 1 .. Len(ids) : i # j => Places(ids)[i] \cap Places(ids)[j] = {}
  BY <1>1, <1>2 DEF Places
<1>4. QED BY <1>1, <1>3, OwnerExists

\* In the end every node of the list is changed, and no other.
LEMMA ChangedAll ==
    ASSUME NEW ns, NEW ids, AreIds(ids, ns), IsSequence(ns), NEW who, NEW h,
           IsOwner(who, DOMAIN ns, Places(ids), Len(ids))
    PROVE  Changed(ns, who, h, 1 .. Len(ids)) =
             [k \in 1 .. Len(ns) |-> IF k - 1 \in ToSet(ids) THEN h[k] ELSE ns[k]]
<1>1. DOMAIN ids = 1 .. Len(ids) /\ DOMAIN ns = 1 .. Len(ns) /\ Len(ns) \in Nat
  BY Elements DEF AreIds
<1>2. \A k \in 1 .. Len(ns) : \A j \in 1 .. Len(ids) : k = ids[j] + 1 <=> who[k] = j
  BY <1>1 DEF IsOwner, Places
<1>3. \A k \in 1 .. Len(ns) : k - 1 \in ToSet(ids) <=> who[k] \in 1 .. Len(ids)
  <2> SUFFICES ASSUME NEW k \in 1 .. Len(ns)
               PROVE  k - 1 \in ToSet(ids) <=> who[k] \in 1 .. Len(ids)
    OBVIOUS
  <2>1. \A j \in 1 .. Len(ids) : ids[j] \in Nat BY DEF AreIds
  <2>2. \A j \in 1 .. Len(ids) : k - 1 = ids[j] <=> k = ids[j] + 1 BY <1>1, <2>1
  <2>3. k - 1 \in ToSet(ids) <=> \E j \in 1 .. Len(ids) : k - 1 = ids[j] BY <1>1 DEF ToSet
  <2>4. QED BY <1>2, <2>2, <2>3
<1>4. QED BY <1>1, <1>3 DEF Changed

RotatedSteps(g, ns, ids, motions, n) ==
    g = [s \in SUBSET (1 .. n) |->
           IF s = {} THEN ns
           ELSE [g[s \ {Max(s)}] EXCEPT ![ids[Max(s)] + 1] = RotateAboutPoint(@, motions)]]

LEMMA RotatedIsStepped ==
    ASSUME NEW ns, NEW ids, NEW motions, DOMAIN ids = 1 .. Len(ids)
    PROVE  RotateBeamAboutPoint(ns, ids, motions) =
             (CHOOSE g : RotatedSteps(g, ns, ids, motions, Len(ids)))[1 .. Len(ids)]
BY Zenon DEF RotateBeamAboutPoint, FoldLeft, MapThenFoldSet, RotatedSteps

LEMMA RotatedNodes ==
    ASSUME NEW ns, IsSequence(ns), NEW ids, AreIds(ids, ns), NEW motions
    PROVE  RotateBeamAboutPoint(ns, ids, motions) =
             [k \in 1 .. Len(ns) |-> IF k - 1 \in ToSet(ids)
                                     THEN RotateAboutPoint(ns[k], motions) ELSE ns[k]]
<1> DEFINE n == Len(ids)
           h == [k \in DOMAIN ns |-> RotateAboutPoint(ns[k], motions)]
<1>1. n \in Nat /\ DOMAIN ids = 1 .. n /\ DOMAIN ns = 1 .. Len(ns) BY Elements DEF AreIds
<1>2. PICK who : IsOwner(who, DOMAIN ns, Places(ids), n) BY PlacesApart
<1> DEFINE all == [s \in SUBSET (1 .. n) |-> Changed(ns, who, h, s)]
<1>3. ASSUME NEW s \in SUBSET (1 .. n), s # {}
      PROVE  /\ s \ {Max(s)} \in SUBSET (1 .. n)
             /\ all[s] = [all[s \ {Max(s)}] EXCEPT ![ids[Max(s)] + 1] = RotateAboutPoint(@, motions)]
  <2>1. Max(s) \in s BY <1>1, <1>3, HighestIn
  <2> DEFINE m == Max(s)
             k == ids[m] + 1
             before == Changed(ns, who, h, s \ {m})
  <2>2. s \ {m} \in SUBSET (1 .. n) /\ m \in 1 .. n BY <2>1
  <2>3. all[s \ {m}] = before /\ all[s] = Changed(ns, who, h, s) BY <2>2
  <2>1a. m \in s BY <2>1
  <2> HIDE DEF h, before, all, m
  <2>4. before[k] = ns[k] /\ Changed(ns, who, h, s) = [before EXCEPT ![k] = h[k]]
    <3>1. OneMore(ns, who, h, s, m, ids[m] + 1) BY <1>2, <2>1a, ChangedOnce
    <3>2. QED BY <3>1 DEF before, OneMore
  <2>5. k \in DOMAIN ns BY <2>2 DEF AreIds
  <2>6. h[k] = RotateAboutPoint(before[k], motions) BY <2>4, <2>5 DEF h
  <2>7. QED BY <2>2, <2>3, <2>4, <2>6 DEF m
<1>4. RotatedSteps(all, ns, ids, motions, n)
  <2>1. all[{}] = ns BY ChangedNone
  <2>2. all = [s \in SUBSET (1 .. n) |-> all[s]] OBVIOUS
  <2> HIDE DEF all
  <2>3. \A s \in SUBSET (1 .. n) :
          all[s] = IF s = {} THEN ns
                   ELSE [all[s \ {Max(s)}] EXCEPT ![ids[Max(s)] + 1] = RotateAboutPoint(@, motions)]
    BY <1>3, <2>1
  <2>4. all = [s \in SUBSET (1 .. n) |->
                 IF s = {} THEN ns
                 ELSE [all[s \ {Max(s)}] EXCEPT ![ids[Max(s)] + 1] = RotateAboutPoint(@, motions)]]
    BY <2>2, <2>3
  <2>5. QED BY <2>4 DEF RotatedSteps
<1> DEFINE g == CHOOSE x : RotatedSteps(x, ns, ids, motions, n)
<1> HIDE DEF all, n
<1>5. RotatedSteps(g, ns, ids, motions, n) BY <1>4
<1>6. RotateBeamAboutPoint(ns, ids, motions) = g[1 .. n] BY <1>1, RotatedIsStepped DEF n
<1> HIDE DEF g, h
<1>7. g[1 .. n] = all[1 .. n]
  <2> DEFINE Q == {m \in Nat : m <= n => g[1 .. m] = all[1 .. m]}
  <2>1. ASSUME NEW s \in SUBSET (1 .. n)
        PROVE  /\ g[s] = IF s = {} THEN ns
                         ELSE [g[s \ {Max(s)}] EXCEPT ![ids[Max(s)] + 1] = RotateAboutPoint(@, motions)]
               /\ all[s] = IF s = {} THEN ns
                           ELSE [all[s \ {Max(s)}] EXCEPT ![ids[Max(s)] + 1] = RotateAboutPoint(@, motions)]
    BY <1>4, <1>5, Zenon DEF RotatedSteps
  <2>2. 0 \in Q
    <3>1. 1 .. 0 = {} OBVIOUS
    <3>2. g[1 .. 0] = all[1 .. 0] BY <2>1, <3>1
    <3>3. QED BY <3>2
  <2>3. ASSUME NEW m \in 1 .. n, m - 1 \in Q PROVE m \in Q
    <3>1. m \in Nat /\ m # 0 /\ m - 1 <= n BY <1>1
    <3>2. 1 .. m # {} /\ (1 .. m) \ {Max(1 .. m)} = 1 .. m - 1 BY <3>1, HighestOf
    <3>3. g[1 .. m - 1] = all[1 .. m - 1] BY <2>3, <3>1
    <3>4. 1 .. m \in SUBSET (1 .. n) BY <1>1
    <3> DEFINE top == Max(1 .. m)
               rest == (1 .. m) \ {top}
    <3>5. /\ g[1 .. m] = [g[rest] EXCEPT ![ids[top] + 1] = RotateAboutPoint(@, motions)]
          /\ all[1 .. m] = [all[rest] EXCEPT ![ids[top] + 1] = RotateAboutPoint(@, motions)]
      BY <2>1, <3>2, <3>4
    <3>6. g[rest] = all[rest] BY <3>2, <3>3
    <3> HIDE DEF top, rest
    <3>7. g[1 .. m] = all[1 .. m] BY <3>5, <3>6
    <3>8. QED BY <3>1, <3>7
  <2> HIDE DEF Q
  <2>4. n \in Q BY <1>1, <2>2, <2>3, Segments
  <2>5. QED BY <1>1, <2>4 DEF Q
<1>8. all[1 .. n] = Changed(ns, who, h, 1 .. n) BY DEF all
<1>9. Changed(ns, who, h, 1 .. n) =
        [k \in 1 .. Len(ns) |-> IF k - 1 \in ToSet(ids) THEN h[k] ELSE ns[k]]
  BY <1>2, ChangedAll DEF n
<1>10. \A k \in 1 .. Len(ns) : h[k] = RotateAboutPoint(ns[k], motions) BY <1>1 DEF h
<1>11. [k \in 1 .. Len(ns) |-> IF k - 1 \in ToSet(ids) THEN h[k] ELSE ns[k]] =
         [k \in 1 .. Len(ns) |-> IF k - 1 \in ToSet(ids)
                                 THEN RotateAboutPoint(ns[k], motions) ELSE ns[k]]
  BY <1>10
<1>12. QED BY <1>6, <1>7, <1>8, <1>9, <1>11


DisplacedSteps(g, ns, ids, motions, n) ==
    g = [s \in SUBSET (1 .. n) |->
           IF s = {} THEN ns
           ELSE [g[s \ {Max(s)}] EXCEPT ![ids[Max(s)] + 1] = RotateDisplacementAboutPoint(@, motions)]]

LEMMA DisplacedIsStepped ==
    ASSUME NEW ns, NEW ids, NEW motions, DOMAIN ids = 1 .. Len(ids)
    PROVE  Displaced(ns, ids, motions) =
             (CHOOSE g : DisplacedSteps(g, ns, ids, motions, Len(ids)))[1 .. Len(ids)]
BY Zenon DEF Displaced, FoldLeft, MapThenFoldSet, DisplacedSteps

LEMMA DisplacedNodes ==
    ASSUME NEW ns, IsSequence(ns), NEW ids, AreIds(ids, ns), NEW motions
    PROVE  Displaced(ns, ids, motions) =
             [k \in 1 .. Len(ns) |-> IF k - 1 \in ToSet(ids)
                                     THEN RotateDisplacementAboutPoint(ns[k], motions) ELSE ns[k]]
<1> DEFINE n == Len(ids)
           h == [k \in DOMAIN ns |-> RotateDisplacementAboutPoint(ns[k], motions)]
<1>1. n \in Nat /\ DOMAIN ids = 1 .. n /\ DOMAIN ns = 1 .. Len(ns) BY Elements DEF AreIds
<1>2. PICK who : IsOwner(who, DOMAIN ns, Places(ids), n) BY PlacesApart
<1> DEFINE all == [s \in SUBSET (1 .. n) |-> Changed(ns, who, h, s)]
<1>3. ASSUME NEW s \in SUBSET (1 .. n), s # {}
      PROVE  /\ s \ {Max(s)} \in SUBSET (1 .. n)
             /\ all[s] = [all[s \ {Max(s)}] EXCEPT ![ids[Max(s)] + 1] = RotateDisplacementAboutPoint(@, motions)]
  <2>1. Max(s) \in s BY <1>1, <1>3, HighestIn
  <2> DEFINE m == Max(s)
             k == ids[m] + 1
             before == Changed(ns, who, h, s \ {m})
  <2>2. s \ {m} \in SUBSET (1 .. n) /\ m \in 1 .. n BY <2>1
  <2>3. all[s \ {m}] = before /\ all[s] = Changed(ns, who, h, s) BY <2>2
  <2>1a. m \in s BY <2>1
  <2> HIDE DEF h, before, all, m
  <2>4. before[k] = ns[k] /\ Changed(ns, who, h, s) = [before EXCEPT ![k] = h[k]]
    <3>1. OneMore(ns, who, h, s, m, ids[m] + 1) BY <1>2, <2>1a, ChangedOnce
    <3>2. QED BY <3>1 DEF before, OneMore
  <2>5. k \in DOMAIN ns BY <2>2 DEF AreIds
  <2>6. h[k] = RotateDisplacementAboutPoint(before[k], motions) BY <2>4, <2>5 DEF h
  <2>7. QED BY <2>2, <2>3, <2>4, <2>6 DEF m
<1>4. DisplacedSteps(all, ns, ids, motions, n)
  <2>1. all[{}] = ns BY ChangedNone
  <2>2. all = [s \in SUBSET (1 .. n) |-> all[s]] OBVIOUS
  <2> HIDE DEF all
  <2>3. \A s \in SUBSET (1 .. n) :
          all[s] = IF s = {} THEN ns
                   ELSE [all[s \ {Max(s)}] EXCEPT ![ids[Max(s)] + 1] = RotateDisplacementAboutPoint(@, motions)]
    BY <1>3, <2>1
  <2>4. all = [s \in SUBSET (1 .. n) |->
                 IF s = {} THEN ns
                 ELSE [all[s \ {Max(s)}] EXCEPT ![ids[Max(s)] + 1] = RotateDisplacementAboutPoint(@, motions)]]
    BY <2>2, <2>3
  <2>5. QED BY <2>4 DEF DisplacedSteps
<1> DEFINE g == CHOOSE x : DisplacedSteps(x, ns, ids, motions, n)
<1> HIDE DEF all, n
<1>5. DisplacedSteps(g, ns, ids, motions, n) BY <1>4
<1>6. Displaced(ns, ids, motions) = g[1 .. n] BY <1>1, DisplacedIsStepped DEF n
<1> HIDE DEF g, h
<1>7. g[1 .. n] = all[1 .. n]
  <2> DEFINE Q == {m \in Nat : m <= n => g[1 .. m] = all[1 .. m]}
  <2>1. ASSUME NEW s \in SUBSET (1 .. n)
        PROVE  /\ g[s] = IF s = {} THEN ns
                         ELSE [g[s \ {Max(s)}] EXCEPT ![ids[Max(s)] + 1] = RotateDisplacementAboutPoint(@, motions)]
               /\ all[s] = IF s = {} THEN ns
                           ELSE [all[s \ {Max(s)}] EXCEPT ![ids[Max(s)] + 1] = RotateDisplacementAboutPoint(@, motions)]
    BY <1>4, <1>5, Zenon DEF DisplacedSteps
  <2>2. 0 \in Q
    <3>1. 1 .. 0 = {} OBVIOUS
    <3>2. g[1 .. 0] = all[1 .. 0] BY <2>1, <3>1
    <3>3. QED BY <3>2
  <2>3. ASSUME NEW m \in 1 .. n, m - 1 \in Q PROVE m \in Q
    <3>1. m \in Nat /\ m # 0 /\ m - 1 <= n BY <1>1
    <3>2. 1 .. m # {} /\ (1 .. m) \ {Max(1 .. m)} = 1 .. m - 1 BY <3>1, HighestOf
    <3>3. g[1 .. m - 1] = all[1 .. m - 1] BY <2>3, <3>1
    <3>4. 1 .. m \in SUBSET (1 .. n) BY <1>1
    <3> DEFINE top == Max(1 .. m)
               rest == (1 .. m) \ {top}
    <3>5. /\ g[1 .. m] = [g[rest] EXCEPT ![ids[top] + 1] = RotateDisplacementAboutPoint(@, motions)]
          /\ all[1 .. m] = [all[rest] EXCEPT ![ids[top] + 1] = RotateDisplacementAboutPoint(@, motions)]
      BY <2>1, <3>2, <3>4
    <3>6. g[rest] = all[rest] BY <3>2, <3>3
    <3> HIDE DEF top, rest
    <3>7. g[1 .. m] = all[1 .. m] BY <3>5, <3>6
    <3>8. QED BY <3>1, <3>7
  <2> HIDE DEF Q
  <2>4. n \in Q BY <1>1, <2>2, <2>3, Segments
  <2>5. QED BY <1>1, <2>4 DEF Q
<1>8. all[1 .. n] = Changed(ns, who, h, 1 .. n) BY DEF all
<1>9. Changed(ns, who, h, 1 .. n) =
        [k \in 1 .. Len(ns) |-> IF k - 1 \in ToSet(ids) THEN h[k] ELSE ns[k]]
  BY <1>2, ChangedAll DEF n
<1>10. \A k \in 1 .. Len(ns) : h[k] = RotateDisplacementAboutPoint(ns[k], motions) BY <1>1 DEF h
<1>11. [k \in 1 .. Len(ns) |-> IF k - 1 \in ToSet(ids) THEN h[k] ELSE ns[k]] =
         [k \in 1 .. Len(ns) |-> IF k - 1 \in ToSet(ids)
                                 THEN RotateDisplacementAboutPoint(ns[k], motions) ELSE ns[k]]
  BY <1>10
<1>12. QED BY <1>6, <1>7, <1>8, <1>9, <1>11


Spun(ns, ids, spin) ==
    FoldLeft(LAMBDA s, id : [s EXCEPT ![id + 1] = SetVelocityAboutPoint(@, spin)], ns, ids)
SpunSteps(g, ns, ids, spin, n) ==
    g = [s \in SUBSET (1 .. n) |->
           IF s = {} THEN ns
           ELSE [g[s \ {Max(s)}] EXCEPT ![ids[Max(s)] + 1] = SetVelocityAboutPoint(@, spin)]]

LEMMA SpunIsStepped ==
    ASSUME NEW ns, NEW ids, NEW spin, DOMAIN ids = 1 .. Len(ids)
    PROVE  Spun(ns, ids, spin) =
             (CHOOSE g : SpunSteps(g, ns, ids, spin, Len(ids)))[1 .. Len(ids)]
BY Zenon DEF Spun, FoldLeft, MapThenFoldSet, SpunSteps

LEMMA SpunNodes ==
    ASSUME NEW ns, IsSequence(ns), NEW ids, AreIds(ids, ns), NEW spin
    PROVE  Spun(ns, ids, spin) =
             [k \in 1 .. Len(ns) |-> IF k - 1 \in ToSet(ids)
                                     THEN SetVelocityAboutPoint(ns[k], spin) ELSE ns[k]]
<1> DEFINE n == Len(ids)
           h == [k \in DOMAIN ns |-> SetVelocityAboutPoint(ns[k], spin)]
<1>1. n \in Nat /\ DOMAIN ids = 1 .. n /\ DOMAIN ns = 1 .. Len(ns) BY Elements DEF AreIds
<1>2. PICK who : IsOwner(who, DOMAIN ns, Places(ids), n) BY PlacesApart
<1> DEFINE all == [s \in SUBSET (1 .. n) |-> Changed(ns, who, h, s)]
<1>3. ASSUME NEW s \in SUBSET (1 .. n), s # {}
      PROVE  /\ s \ {Max(s)} \in SUBSET (1 .. n)
             /\ all[s] = [all[s \ {Max(s)}] EXCEPT ![ids[Max(s)] + 1] = SetVelocityAboutPoint(@, spin)]
  <2>1. Max(s) \in s BY <1>1, <1>3, HighestIn
  <2> DEFINE m == Max(s)
             k == ids[m] + 1
             before == Changed(ns, who, h, s \ {m})
  <2>2. s \ {m} \in SUBSET (1 .. n) /\ m \in 1 .. n BY <2>1
  <2>3. all[s \ {m}] = before /\ all[s] = Changed(ns, who, h, s) BY <2>2
  <2>1a. m \in s BY <2>1
  <2> HIDE DEF h, before, all, m
  <2>4. before[k] = ns[k] /\ Changed(ns, who, h, s) = [before EXCEPT ![k] = h[k]]
    <3>1. OneMore(ns, who, h, s, m, ids[m] + 1) BY <1>2, <2>1a, ChangedOnce
    <3>2. QED BY <3>1 DEF before, OneMore
  <2>5. k \in DOMAIN ns BY <2>2 DEF AreIds
  <2>6. h[k] = SetVelocityAboutPoint(before[k], spin) BY <2>4, <2>5 DEF h
  <2>7. QED BY <2>2, <2>3, <2>4, <2>6 DEF m
<1>4. SpunSteps(all, ns, ids, spin, n)
  <2>1. all[{}] = ns BY ChangedNone
  <2>2. all = [s \in SUBSET (1 .. n) |-> all[s]] OBVIOUS
  <2> HIDE DEF all
  <2>3. \A s \in SUBSET (1 .. n) :
          all[s] = IF s = {} THEN ns
                   ELSE [all[s \ {Max(s)}] EXCEPT ![ids[Max(s)] + 1] = SetVelocityAboutPoint(@, spin)]
    BY <1>3, <2>1
  <2>4. all = [s \in SUBSET (1 .. n) |->
                 IF s = {} THEN ns
                 ELSE [all[s \ {Max(s)}] EXCEPT ![ids[Max(s)] + 1] = SetVelocityAboutPoint(@, spin)]]
    BY <2>2, <2>3
  <2>5. QED BY <2>4 DEF SpunSteps
<1> DEFINE g == CHOOSE x : SpunSteps(x, ns, ids, spin, n)
<1> HIDE DEF all, n
<1>5. SpunSteps(g, ns, ids, spin, n) BY <1>4
<1>6. Spun(ns, ids, spin) = g[1 .. n] BY <1>1, SpunIsStepped DEF n
<1> HIDE DEF g, h
<1>7. g[1 .. n] = all[1 .. n]
  <2> DEFINE Q == {m \in Nat : m <= n => g[1 .. m] = all[1 .. m]}
  <2>1. ASSUME NEW s \in SUBSET (1 .. n)
        PROVE  /\ g[s] = IF s = {} THEN ns
                         ELSE [g[s \ {Max(s)}] EXCEPT ![ids[Max(s)] + 1] = SetVelocityAboutPoint(@, spin)]
               /\ all[s] = IF s = {} THEN ns
                           ELSE [all[s \ {Max(s)}] EXCEPT ![ids[Max(s)] + 1] = SetVelocityAboutPoint(@, spin)]
    BY <1>4, <1>5, Zenon DEF SpunSteps
  <2>2. 0 \in Q
    <3>1. 1 .. 0 = {} OBVIOUS
    <3>2. g[1 .. 0] = all[1 .. 0] BY <2>1, <3>1
    <3>3. QED BY <3>2
  <2>3. ASSUME NEW m \in 1 .. n, m - 1 \in Q PROVE m \in Q
    <3>1. m \in Nat /\ m # 0 /\ m - 1 <= n BY <1>1
    <3>2. 1 .. m # {} /\ (1 .. m) \ {Max(1 .. m)} = 1 .. m - 1 BY <3>1, HighestOf
    <3>3. g[1 .. m - 1] = all[1 .. m - 1] BY <2>3, <3>1
    <3>4. 1 .. m \in SUBSET (1 .. n) BY <1>1
    <3> DEFINE top == Max(1 .. m)
               rest == (1 .. m) \ {top}
    <3>5. /\ g[1 .. m] = [g[rest] EXCEPT ![ids[top] + 1] = SetVelocityAboutPoint(@, spin)]
          /\ all[1 .. m] = [all[rest] EXCEPT ![ids[top] + 1] = SetVelocityAboutPoint(@, spin)]
      BY <2>1, <3>2, <3>4
    <3>6. g[rest] = all[rest] BY <3>2, <3>3
    <3> HIDE DEF top, rest
    <3>7. g[1 .. m] = all[1 .. m] BY <3>5, <3>6
    <3>8. QED BY <3>1, <3>7
  <2> HIDE DEF Q
  <2>4. n \in Q BY <1>1, <2>2, <2>3, Segments
  <2>5. QED BY <1>1, <2>4 DEF Q
<1>8. all[1 .. n] = Changed(ns, who, h, 1 .. n) BY DEF all
<1>9. Changed(ns, who, h, 1 .. n) =
        [k \in 1 .. Len(ns) |-> IF k - 1 \in ToSet(ids) THEN h[k] ELSE ns[k]]
  BY <1>2, ChangedAll DEF n
<1>10. \A k \in 1 .. Len(ns) : h[k] = SetVelocityAboutPoint(ns[k], spin) BY <1>1 DEF h
<1>11. [k \in 1 .. Len(ns) |-> IF k - 1 \in ToSet(ids) THEN h[k] ELSE ns[k]] =
         [k \in 1 .. Len(ns) |-> IF k - 1 \in ToSet(ids)
                                 THEN SetVelocityAboutPoint(ns[k], spin) ELSE ns[k]]
  BY <1>10
<1>12. QED BY <1>6, <1>7, <1>8, <1>9, <1>11

-----------------------------------------------------------------------------
(* The blades one after the other: every blade has nodes of its own.         *)

Upright == << <<"x to z">>, <<"hub radius">> >>
ToCone(i) == << <<"cone">>, <<"azimuth", i>> >>
WithApex(i) == Append(blades[i], apexes[i])
PositionOf(i, k) ==
    IF k - 1 \in ToSet(blades[i])
    THEN RotateAboutPoint(RotateAboutPoint(nodes[k], Upright), ToCone(i))
    ELSE RotateAboutPoint(nodes[k], ToCone(i))

PitchTurn(i) ==
    IF input.pitch = 0 THEN <<>>
    ELSE << <<"turn", Rotation(Line(apexes[i], Root(blades[i])), input.pitch),
              Node(nodes, apexes[i]).x0>> >>
PitchOf(i, k) == RotateDisplacementAboutPoint(nodes[k], PitchTurn(i))

\* Blades and apexes of their own, among the nodes.
BladesApart ==
    /\ IsSequence(nodes) /\ IsSequence(blades)
    /\ \A i \in 1 .. Len(blades) :
         AreIds(blades[i], nodes) /\ AreIds(WithApex(i), nodes)
    /\ \A i, j \in 1 .. Len(blades) : i # j => ToSet(WithApex(i)) \cap ToSet(WithApex(j)) = {}

LEMMA WithApexSet ==
    ASSUME BladesApart, NEW i \in 1 .. Len(blades)
    PROVE  ToSet(WithApex(i)) = ToSet(blades[i]) \cup {apexes[i]}
<1> DEFINE b == blades[i]
           c == WithApex(i)
<1>1. IsSequence(b) BY DEF BladesApart, AreIds
<1>2. c = Append(b, apexes[i]) BY DEF WithApex
<1> HIDE DEF b, c
<1>3. /\ IsSequence(c) /\ Len(c) = Len(b) + 1
      /\ \A k \in 1 .. Len(b) : c[k] = b[k]
      /\ c[Len(b) + 1] = apexes[i]
  BY <1>1, <1>2, Appended
<1>4. /\ Len(b) \in Nat /\ DOMAIN b = 1 .. Len(b) /\ DOMAIN c = 1 .. Len(b) + 1
  BY <1>1, <1>3, Elements
<1>5. ASSUME NEW v \in ToSet(c) PROVE v \in ToSet(b) \cup {apexes[i]}
  <2>1. PICK k \in 1 .. Len(b) + 1 : v = c[k] BY <1>4 DEF ToSet
  <2>2. CASE k = Len(b) + 1 BY <1>3, <2>1, <2>2
  <2>3. CASE k # Len(b) + 1
    <3>1. k \in 1 .. Len(b) BY <1>4, <2>3
    <3>2. QED BY <1>3, <1>4, <2>1, <3>1 DEF ToSet
  <2>4. QED BY <2>2, <2>3
<1>6. ASSUME NEW v \in ToSet(b) PROVE v \in ToSet(c)
  <2>1. PICK k \in 1 .. Len(b) : v = b[k] BY <1>4 DEF ToSet
  <2>2. k \in DOMAIN c /\ c[k] = v BY <1>3, <1>4, <2>1
  <2>3. QED BY <2>2 DEF ToSet
<1>7. apexes[i] \in ToSet(c)
  <2>1. Len(b) + 1 \in DOMAIN c BY <1>4
  <2>2. QED BY <1>3, <2>1 DEF ToSet
<1>8. ToSet(c) = ToSet(b) \cup {apexes[i]} BY <1>5, <1>6, <1>7
<1>9. QED BY <1>8 DEF b, c

LEMMA ChangedShape ==
    ASSUME NEW ns, IsSequence(ns), NEW who, NEW h, NEW s
    PROVE  IsSequence(Changed(ns, who, h, s)) /\ Len(Changed(ns, who, h, s)) = Len(ns)
<1>1. Len(ns) \in Nat /\ DOMAIN ns = 1 .. Len(ns) BY Elements
<1> DEFINE c == Changed(ns, who, h, s)
<1>2. c = [k \in 1 .. Len(ns) |-> c[k]] BY <1>1 DEF Changed
<1> HIDE DEF c
<1>3. QED BY <1>1, <1>2, SequenceOf DEF c

LEMMA IdsAreNat ==
    ASSUME NEW ns, NEW ids, AreIds(ids, ns)
    PROVE  ToSet(ids) \in SUBSET Nat
<1>1. DOMAIN ids = 1 .. Len(ids) /\ \A j \in 1 .. Len(ids) : ids[j] \in Nat
  BY Elements DEF AreIds
<1>2. QED BY <1>1 DEF ToSet

\* Where the nodes of a blade are, counted from 1.
Spots(ids) == {id + 1 : id \in ToSet(ids)}

LEMMA SpotIn ==
    ASSUME NEW ns, IsSequence(ns), NEW ids, AreIds(ids, ns), NEW k \in DOMAIN ns
    PROVE  k \in Spots(ids) <=> k - 1 \in ToSet(ids)
<1>1. /\ DOMAIN ns = 1 .. Len(ns) /\ Len(ns) \in Nat
      /\ DOMAIN ids = 1 .. Len(ids) /\ \A j \in 1 .. Len(ids) : ids[j] \in Nat
  BY Elements DEF AreIds
<1>2. ToSet(ids) \in SUBSET Nat BY <1>1 DEF ToSet
<1>3. \A id \in ToSet(ids) : k = id + 1 <=> id = k - 1 BY <1>1, <1>2
<1>4. QED BY <1>3 DEF Spots

\* What moves the same nodes to the same places leaves the same nodes.
LEMMA SameAt ==
    ASSUME NEW n \in Nat, NEW fn, NEW g, DOMAIN fn = 1 .. n, DOMAIN g = 1 .. n,
           fn = [k \in 1 .. n |-> fn[k]], g = [k \in 1 .. n |-> g[k]],
           \A k \in 1 .. n : fn[k] = g[k]
    PROVE  fn = g
OBVIOUS

LEMMA BladesHaveOwners ==
    ASSUME BladesApart
    PROVE  \E who : IsOwner(who, DOMAIN nodes,
                            [i \in DOMAIN blades |-> Spots(WithApex(i))], Len(blades))
<1> DEFINE sets == [i \in DOMAIN blades |-> Spots(WithApex(i))]
<1>1. Len(blades) \in Nat /\ DOMAIN blades = 1 .. Len(blades) BY Elements DEF BladesApart
<1>2. \A i, j \in 1 .. Len(blades) : i # j => sets[i] \cap sets[j] = {}
  <2> SUFFICES ASSUME NEW i \in 1 .. Len(blades), NEW j \in 1 .. Len(blades), i # j,
                      NEW k \in Spots(WithApex(i)), k \in Spots(WithApex(j))
               PROVE  FALSE
    BY <1>1
  <2>1. PICK a \in ToSet(WithApex(i)) : k = a + 1 BY DEF Spots
  <2>2. PICK b \in ToSet(WithApex(j)) : k = b + 1 BY DEF Spots
  <2>3. ToSet(WithApex(i)) \in SUBSET Nat /\ ToSet(WithApex(j)) \in SUBSET Nat
    BY IdsAreNat DEF BladesApart
  <2>4. a = b BY <2>1, <2>2, <2>3
  <2>5. QED BY <2>1, <2>2, <2>4 DEF BladesApart
<1> HIDE DEF sets
<1>3. QED BY <1>1, <1>2, OwnerExists DEF sets

Each == [i \in DOMAIN blades |-> i]

PositionedAt(who) == [k \in DOMAIN nodes |-> PositionOf(who[k], k)]

LEMMA PositionedOnce ==
    ASSUME BladesApart, NEW who,
           IsOwner(who, DOMAIN nodes, [i \in DOMAIN blades |-> Spots(WithApex(i))], Len(blades)),
           NEW s \in SUBSET (1 .. Len(blades)), NEW m \in s
    PROVE  PositionBlade(Changed(nodes, who, PositionedAt(who), s \ {m}), m) =
             Changed(nodes, who, PositionedAt(who), s)
<1> DEFINE h == PositionedAt(who)
           x == Changed(nodes, who, h, s \ {m})
           z == Changed(nodes, who, h, s)
<1>1. /\ DOMAIN blades = 1 .. Len(blades) /\ m \in 1 .. Len(blades)
      /\ DOMAIN nodes = 1 .. Len(nodes) /\ Len(nodes) \in Nat /\ IsSequence(nodes)
      /\ AreIds(blades[m], nodes) /\ AreIds(WithApex(m), nodes)
  BY Elements DEF BladesApart
<1>2. IsSequence(x) /\ Len(x) = Len(nodes) /\ IsSequence(z) /\ Len(z) = Len(nodes)
  BY <1>1, ChangedShape
<1>3. \A k \in 1 .. Len(nodes) : k - 1 \in ToSet(WithApex(m)) <=> who[k] = m
  <2> SUFFICES ASSUME NEW k \in 1 .. Len(nodes)
               PROVE  k - 1 \in ToSet(WithApex(m)) <=> who[k] = m
    OBVIOUS
  <2>1. k \in Spots(WithApex(m)) <=> k - 1 \in ToSet(WithApex(m)) BY <1>1, SpotIn
  <2>2. k \in Spots(WithApex(m)) <=> who[k] = m BY <1>1 DEF IsOwner
  <2>3. QED BY <2>1, <2>2
<1>4. \A k \in 1 .. Len(nodes) :
        /\ who[k] = m => x[k] = nodes[k] /\ z[k] = h[k]
        /\ who[k] # m => z[k] = x[k]
  BY <1>1 DEF Changed
<1>5. \A k \in 1 .. Len(nodes) : who[k] = m => h[k] = PositionOf(m, k) BY <1>1 DEF PositionedAt
<1>6. ToSet(WithApex(m)) = ToSet(blades[m]) \cup {apexes[m]} BY <1>1, WithApexSet
<1>7. AreIds(blades[m], x) /\ AreIds(WithApex(m), x)
  <2>1. DOMAIN x = DOMAIN nodes BY <1>1, <1>2, Elements
  <2> HIDE DEF x
  <2>2. QED BY <1>1, <2>1 DEF AreIds
<1> HIDE DEF h, x, z
<1> DEFINE b == blades[m]
           y == RotateBeamAboutPoint(x, b, Upright)
<1>7a. AreIds(b, x) BY <1>7
<1> HIDE DEF b
<1>8. y = [k \in 1 .. Len(x) |-> IF k - 1 \in ToSet(b)
                                 THEN RotateAboutPoint(x[k], Upright) ELSE x[k]]
  BY <1>2, <1>7a, RotatedNodes
<1> HIDE DEF y
<1>9. IsSequence(y) /\ Len(y) = Len(nodes)
  <2>1. DOMAIN y = 1 .. Len(nodes) /\ y = [k \in 1 .. Len(nodes) |-> y[k]] BY <1>2, <1>8
  <2>2. QED BY <1>1, <2>1, SequenceOf
<1>10. AreIds(WithApex(m), y)
  <2>1. DOMAIN y = DOMAIN nodes BY <1>1, <1>9, Elements
  <2>2. QED BY <1>1, <2>1 DEF AreIds
<1> DEFINE w == RotateBeamAboutPoint(y, WithApex(m), ToCone(m))
<1>11. w = [k \in 1 .. Len(y) |-> IF k - 1 \in ToSet(WithApex(m))
                                  THEN RotateAboutPoint(y[k], ToCone(m)) ELSE y[k]]
  BY <1>9, <1>10, RotatedNodes
<1>12. PositionBlade(x, m) = w BY Zenon DEF PositionBlade, w, y, b, Upright, ToCone, WithApex
<1> HIDE DEF w
<1>13. ASSUME NEW k \in 1 .. Len(nodes) PROVE w[k] = z[k]
  <2>1. CASE who[k] = m
    <3>1. w[k] = RotateAboutPoint(y[k], ToCone(m)) BY <1>3, <1>9, <1>11, <2>1
    <3>2. y[k] = IF k - 1 \in ToSet(blades[m]) THEN RotateAboutPoint(nodes[k], Upright) ELSE nodes[k]
      BY <1>2, <1>4, <1>8, <2>1 DEF b
    <3>3. z[k] = PositionOf(m, k) BY <1>4, <1>5, <2>1
    <3>4. QED BY <3>1, <3>2, <3>3 DEF PositionOf
  <2>2. CASE who[k] # m
    <3>1. k - 1 \notin ToSet(WithApex(m)) /\ k - 1 \notin ToSet(blades[m]) BY <1>3, <1>6, <2>2
    <3>2. w[k] = y[k] /\ y[k] = x[k] BY <1>2, <1>8, <1>9, <1>11, <3>1 DEF b
    <3>3. QED BY <1>4, <2>2, <3>2
  <2>3. QED BY <2>1, <2>2
<1>14. DOMAIN w = 1 .. Len(nodes) /\ w = [k \in 1 .. Len(nodes) |-> w[k]] BY <1>9, <1>11
<1>15. DOMAIN z = 1 .. Len(nodes) /\ z = [k \in 1 .. Len(nodes) |-> z[k]]
  BY <1>2, Elements DEF IsSequence
<1>16. w = z BY <1>1, <1>13, <1>14, <1>15, SameAt
<1>17. QED BY <1>12, <1>16 DEF x, z, h

PositionedSteps(g, id) ==
    g = [s \in SUBSET (DOMAIN id) |->
           IF s = {} THEN nodes ELSE PositionBlade(g[s \ {Max(s)}], id[Max(s)])]
Positioned ==
    FoldLeftDomain(LAMBDA ns, i : PositionBlade(ns, i), nodes, blades)

LEMMA PositionedIsStepped ==
    Positioned = (CHOOSE g : PositionedSteps(g, Each))[DOMAIN Each]
BY Zenon DEF Positioned, FoldLeftDomain, FoldLeft, MapThenFoldSet, PositionedSteps, Each

LEMMA PositionedNodes ==
    ASSUME BladesApart
    PROVE  /\ IsSequence(Positioned) /\ Len(Positioned) = Len(nodes)
           /\ \A k \in 1 .. Len(nodes) :
                /\ \A i \in 1 .. Len(blades) : k - 1 \in ToSet(WithApex(i)) => Positioned[k] = PositionOf(i, k)
                /\ (\A i \in 1 .. Len(blades) : k - 1 \notin ToSet(WithApex(i))) =>
                     Positioned[k] = nodes[k]
<1> DEFINE n == Len(blades)
           sets == [i \in DOMAIN blades |-> Spots(WithApex(i))]
<1>1. n \in Nat /\ DOMAIN blades = 1 .. n /\ DOMAIN nodes = 1 .. Len(nodes) /\ IsSequence(nodes)
  BY Elements DEF BladesApart
<1>2. PICK who : IsOwner(who, DOMAIN nodes, sets, n) BY BladesHaveOwners
<1> DEFINE h == PositionedAt(who)
           all == [s \in SUBSET (1 .. n) |-> Changed(nodes, who, h, s)]
           id == Each
<1>2a. DOMAIN id = 1 .. n /\ \A i \in 1 .. n : id[i] = i BY <1>1 DEF Each
<1> HIDE DEF id
<1>3. ASSUME NEW s \in SUBSET (1 .. n), s # {}
      PROVE  all[s] = PositionBlade(all[s \ {Max(s)}], id[Max(s)])
  <2> DEFINE m == Max(s)
  <2>1. m \in s BY <1>1, <1>3, HighestIn
  <2> HIDE DEF m
  <2>2. s \ {m} \in SUBSET (1 .. n) /\ id[m] = m BY <1>2a, <2>1
  <2>3. all[s \ {m}] = Changed(nodes, who, h, s \ {m}) /\ all[s] = Changed(nodes, who, h, s)
    BY <2>2
  <2> HIDE DEF all, h
  <2>4. PositionBlade(Changed(nodes, who, h, s \ {m}), m) = Changed(nodes, who, h, s)
    BY <1>2, <2>1, PositionedOnce DEF h
  <2>5. PositionBlade(all[s \ {m}], id[m]) = all[s] BY <2>2, <2>3, <2>4
  <2>6. QED BY <2>5 DEF m
<1>4. PositionedSteps(all, id)
  <2>1. all[{}] = nodes BY <1>1, ChangedNone
  <2>2. all = [s \in SUBSET (1 .. n) |-> all[s]] OBVIOUS
  <2> HIDE DEF all
  <2>3. \A s \in SUBSET (1 .. n) :
          all[s] = IF s = {} THEN nodes ELSE PositionBlade(all[s \ {Max(s)}], id[Max(s)])
    BY <1>3, <2>1
  <2>4. all = [s \in SUBSET (1 .. n) |->
                 IF s = {} THEN nodes ELSE PositionBlade(all[s \ {Max(s)}], id[Max(s)])]
    BY <2>2, <2>3
  <2>5. QED BY <1>2a, <2>4 DEF PositionedSteps
<1> DEFINE g == CHOOSE x : PositionedSteps(x, id)
<1> HIDE DEF all, n, h
<1>5. PositionedSteps(g, id) BY <1>4
<1>6. Positioned = g[1 .. n] BY <1>2a, PositionedIsStepped DEF id
<1> HIDE DEF g
<1>7. g[1 .. n] = all[1 .. n]
  <2> DEFINE Q == {m \in Nat : m <= n => g[1 .. m] = all[1 .. m]}
  <2>1. ASSUME NEW s \in SUBSET (1 .. n)
        PROVE  /\ g[s] = IF s = {} THEN nodes ELSE PositionBlade(g[s \ {Max(s)}], id[Max(s)])
               /\ all[s] = IF s = {} THEN nodes ELSE PositionBlade(all[s \ {Max(s)}], id[Max(s)])
    BY <1>4, <1>5, <1>2a DEF PositionedSteps
  <2>2. 0 \in Q
    <3>1. 1 .. 0 = {} OBVIOUS
    <3>2. g[1 .. 0] = all[1 .. 0] BY <2>1, <3>1
    <3>3. QED BY <3>2
  <2>3. ASSUME NEW m \in 1 .. n, m - 1 \in Q PROVE m \in Q
    <3>1. m \in Nat /\ m # 0 /\ m - 1 <= n BY <1>1
    <3>2. 1 .. m # {} /\ (1 .. m) \ {Max(1 .. m)} = 1 .. m - 1 BY <3>1, HighestOf
    <3>3. g[1 .. m - 1] = all[1 .. m - 1] BY <2>3, <3>1
    <3>4. 1 .. m \in SUBSET (1 .. n) BY <1>1
    <3> DEFINE top == Max(1 .. m)
               rest == (1 .. m) \ {top}
    <3>5. g[1 .. m] = PositionBlade(g[rest], id[top]) /\ all[1 .. m] = PositionBlade(all[rest], id[top])
      BY <2>1, <3>2, <3>4
    <3>6. g[rest] = all[rest] BY <3>2, <3>3
    <3> HIDE DEF top, rest
    <3>7. g[1 .. m] = all[1 .. m] BY <3>5, <3>6
    <3>8. QED BY <3>1, <3>7
  <2> HIDE DEF Q
  <2>4. n \in Q BY <1>1, <2>2, <2>3, Segments
  <2>5. QED BY <1>1, <2>4 DEF Q
<1>8. all[1 .. n] = Changed(nodes, who, h, 1 .. n) BY DEF all
<1>9. Positioned = Changed(nodes, who, h, 1 .. n) BY <1>6, <1>7, <1>8
<1>10. IsSequence(Positioned) /\ Len(Positioned) = Len(nodes) BY <1>1, <1>9, ChangedShape
<1>11. ASSUME NEW k \in 1 .. Len(nodes)
       PROVE  Positioned[k] = IF who[k] \in 1 .. n THEN PositionOf(who[k], k) ELSE nodes[k]
  BY <1>1, <1>9, <1>11 DEF Changed, h, PositionedAt
<1>12. ASSUME NEW k \in 1 .. Len(nodes), NEW i \in 1 .. n
       PROVE  k - 1 \in ToSet(WithApex(i)) <=> who[k] = i
  <2>1. AreIds(WithApex(i), nodes) BY DEF BladesApart, n
  <2>2. k \in Spots(WithApex(i)) <=> k - 1 \in ToSet(WithApex(i)) BY <1>1, <2>1, SpotIn
  <2>3. k \in Spots(WithApex(i)) <=> who[k] = i BY <1>1, <1>2 DEF IsOwner
  <2>4. QED BY <2>2, <2>3
<1>13. ASSUME NEW k \in 1 .. Len(nodes), NEW i \in 1 .. n, k - 1 \in ToSet(WithApex(i))
       PROVE  Positioned[k] = PositionOf(i, k)
  BY <1>11, <1>12, <1>13
<1>14. ASSUME NEW k \in 1 .. Len(nodes), \A i \in 1 .. n : k - 1 \notin ToSet(WithApex(i))
       PROVE  Positioned[k] = nodes[k]
  <2>1. who[k] \notin 1 .. n BY <1>12, <1>14
  <2>2. QED BY <1>11, <2>1
<1>15. QED BY <1>10, <1>13, <1>14 DEF n

LEMMA BladesHaveOwnersOfTheirOwn ==
    ASSUME BladesApart
    PROVE  \E who : IsOwner(who, DOMAIN nodes, [i \in DOMAIN blades |-> Spots(blades[i])], Len(blades))
<1> DEFINE sets == [i \in DOMAIN blades |-> Spots(blades[i])]
<1>1. Len(blades) \in Nat /\ DOMAIN blades = 1 .. Len(blades) BY Elements DEF BladesApart
<1>2. \A i, j \in 1 .. Len(blades) : i # j => sets[i] \cap sets[j] = {}
  <2> SUFFICES ASSUME NEW i \in 1 .. Len(blades), NEW j \in 1 .. Len(blades), i # j,
                      NEW k \in Spots(blades[i]), k \in Spots(blades[j])
               PROVE  FALSE
    BY <1>1
  <2>1. PICK a \in ToSet(blades[i]) : k = a + 1 BY DEF Spots
  <2>2. PICK b \in ToSet(blades[j]) : k = b + 1 BY DEF Spots
  <2>3. ToSet(blades[i]) \in SUBSET Nat /\ ToSet(blades[j]) \in SUBSET Nat
    BY IdsAreNat DEF BladesApart
  <2>4. a = b BY <2>1, <2>2, <2>3
  <2>5. a \in ToSet(WithApex(i)) /\ a \in ToSet(WithApex(j)) BY <2>1, <2>2, <2>4, WithApexSet
  <2>6. QED BY <2>5 DEF BladesApart
<1> HIDE DEF sets
<1>3. QED BY <1>1, <1>2, OwnerExists DEF sets

PitchedAt(who) == [k \in DOMAIN nodes |-> PitchOf(who[k], k)]

LEMMA PitchedOnce ==
    ASSUME BladesApart, NEW who,
           IsOwner(who, DOMAIN nodes, [i \in DOMAIN blades |-> Spots(blades[i])], Len(blades)),
           NEW s \in SUBSET (1 .. Len(blades)), NEW m \in s
    PROVE  InitialPitch(Changed(nodes, who, PitchedAt(who), s \ {m}), m) =
             Changed(nodes, who, PitchedAt(who), s)
<1> DEFINE h == PitchedAt(who)
           x == Changed(nodes, who, h, s \ {m})
           z == Changed(nodes, who, h, s)
<1>1. /\ DOMAIN blades = 1 .. Len(blades) /\ m \in 1 .. Len(blades)
      /\ DOMAIN nodes = 1 .. Len(nodes) /\ Len(nodes) \in Nat /\ IsSequence(nodes)
      /\ AreIds(blades[m], nodes)
  BY Elements DEF BladesApart
<1>2. IsSequence(x) /\ Len(x) = Len(nodes) /\ IsSequence(z) /\ Len(z) = Len(nodes)
  BY <1>1, ChangedShape
<1>3. \A k \in 1 .. Len(nodes) : k - 1 \in ToSet(blades[m]) <=> who[k] = m
  <2> SUFFICES ASSUME NEW k \in 1 .. Len(nodes)
               PROVE  k - 1 \in ToSet(blades[m]) <=> who[k] = m
    OBVIOUS
  <2>1. k \in Spots(blades[m]) <=> k - 1 \in ToSet(blades[m]) BY <1>1, SpotIn
  <2>2. k \in Spots(blades[m]) <=> who[k] = m BY <1>1 DEF IsOwner
  <2>3. QED BY <2>1, <2>2
<1>4. \A k \in 1 .. Len(nodes) :
        /\ who[k] = m => x[k] = nodes[k] /\ z[k] = h[k]
        /\ who[k] # m => z[k] = x[k]
  BY <1>1 DEF Changed
<1>5. \A k \in 1 .. Len(nodes) : who[k] = m => h[k] = PitchOf(m, k) BY <1>1 DEF PitchedAt
<1>6. AreIds(blades[m], x)
  <2>1. DOMAIN x = DOMAIN nodes BY <1>1, <1>2, Elements
  <2> HIDE DEF x
  <2>2. QED BY <1>1, <2>1 DEF AreIds
<1> DEFINE b == blades[m]
           w == Displaced(x, b, PitchTurn(m))
<1>7. AreIds(b, x) BY <1>6
<1> HIDE DEF h, x, z, b
<1>8. w = [k \in 1 .. Len(x) |-> IF k - 1 \in ToSet(b)
                                 THEN RotateDisplacementAboutPoint(x[k], PitchTurn(m)) ELSE x[k]]
  BY <1>2, <1>7, DisplacedNodes
<1>9. InitialPitch(x, m) = w
  <2>1. Rotation(Line(apexes[m], Root(b)), input.pitch).angle = input.pitch BY DEF Rotation
  <2>2. InitialPitch(x, m) =
          Displaced(x, b, IF Rotation(Line(apexes[m], Root(b)), input.pitch).angle = 0 THEN <<>>
                          ELSE << <<"turn", Rotation(Line(apexes[m], Root(b)), input.pitch),
                                    Node(nodes, apexes[m]).x0>> >>)
    BY Zenon DEF InitialPitch, Turned, b
  <2>3. PitchTurn(m) = IF input.pitch = 0 THEN <<>>
                       ELSE << <<"turn", Rotation(Line(apexes[m], Root(b)), input.pitch),
                                 Node(nodes, apexes[m]).x0>> >>
    BY Zenon DEF PitchTurn, b
  <2>4. QED BY <2>1, <2>2, <2>3, Zenon
<1> HIDE DEF w
<1>10. ASSUME NEW k \in 1 .. Len(nodes) PROVE w[k] = z[k]
  <2>1. CASE who[k] = m
    <3>1. w[k] = RotateDisplacementAboutPoint(nodes[k], PitchTurn(m))
      BY <1>2, <1>3, <1>4, <1>8, <2>1 DEF b
    <3>2. z[k] = PitchOf(m, k) BY <1>4, <1>5, <2>1
    <3>3. QED BY <3>1, <3>2 DEF PitchOf
  <2>2. CASE who[k] # m
    <3>1. w[k] = x[k] BY <1>2, <1>3, <1>8, <2>2 DEF b
    <3>2. QED BY <1>4, <2>2, <3>1
  <2>3. QED BY <2>1, <2>2
<1>11. DOMAIN w = 1 .. Len(nodes) /\ w = [k \in 1 .. Len(nodes) |-> w[k]] BY <1>2, <1>8
<1>12. DOMAIN z = 1 .. Len(nodes) /\ z = [k \in 1 .. Len(nodes) |-> z[k]]
  BY <1>2, Elements DEF IsSequence
<1>13. w = z BY <1>1, <1>10, <1>11, <1>12, SameAt
<1>14. QED BY <1>9, <1>13 DEF x, z, h

PitchedSteps(g, id) ==
    g = [s \in SUBSET (DOMAIN id) |->
           IF s = {} THEN nodes ELSE InitialPitch(g[s \ {Max(s)}], id[Max(s)])]
Pitched ==
    FoldLeftDomain(LAMBDA ns, i : InitialPitch(ns, i), nodes, blades)

LEMMA PitchedIsStepped ==
    Pitched = (CHOOSE g : PitchedSteps(g, Each))[DOMAIN Each]
BY Zenon DEF Pitched, FoldLeftDomain, FoldLeft, MapThenFoldSet, PitchedSteps, Each

LEMMA PitchedNodes ==
    ASSUME BladesApart
    PROVE  /\ IsSequence(Pitched) /\ Len(Pitched) = Len(nodes)
           /\ \A k \in 1 .. Len(nodes) :
                /\ \A i \in 1 .. Len(blades) : k - 1 \in ToSet(blades[i]) => Pitched[k] = PitchOf(i, k)
                /\ (\A i \in 1 .. Len(blades) : k - 1 \notin ToSet(blades[i])) =>
                     Pitched[k] = nodes[k]
<1> DEFINE n == Len(blades)
           sets == [i \in DOMAIN blades |-> Spots(blades[i])]
<1>1. n \in Nat /\ DOMAIN blades = 1 .. n /\ DOMAIN nodes = 1 .. Len(nodes) /\ IsSequence(nodes)
  BY Elements DEF BladesApart
<1>2. PICK who : IsOwner(who, DOMAIN nodes, sets, n) BY BladesHaveOwnersOfTheirOwn
<1> DEFINE h == PitchedAt(who)
           all == [s \in SUBSET (1 .. n) |-> Changed(nodes, who, h, s)]
           id == Each
<1>2a. DOMAIN id = 1 .. n /\ \A i \in 1 .. n : id[i] = i BY <1>1 DEF Each
<1> HIDE DEF id
<1>3. ASSUME NEW s \in SUBSET (1 .. n), s # {}
      PROVE  all[s] = InitialPitch(all[s \ {Max(s)}], id[Max(s)])
  <2> DEFINE m == Max(s)
  <2>1. m \in s BY <1>1, <1>3, HighestIn
  <2> HIDE DEF m
  <2>2. s \ {m} \in SUBSET (1 .. n) /\ id[m] = m BY <1>2a, <2>1
  <2>3. all[s \ {m}] = Changed(nodes, who, h, s \ {m}) /\ all[s] = Changed(nodes, who, h, s)
    BY <2>2
  <2> HIDE DEF all, h
  <2>4. InitialPitch(Changed(nodes, who, h, s \ {m}), m) = Changed(nodes, who, h, s)
    BY <1>2, <2>1, PitchedOnce DEF h
  <2>5. InitialPitch(all[s \ {m}], id[m]) = all[s] BY <2>2, <2>3, <2>4
  <2>6. QED BY <2>5 DEF m
<1>4. PitchedSteps(all, id)
  <2>1. all[{}] = nodes BY <1>1, ChangedNone
  <2>2. all = [s \in SUBSET (1 .. n) |-> all[s]] OBVIOUS
  <2> HIDE DEF all
  <2>3. \A s \in SUBSET (1 .. n) :
          all[s] = IF s = {} THEN nodes ELSE InitialPitch(all[s \ {Max(s)}], id[Max(s)])
    BY <1>3, <2>1
  <2>4. all = [s \in SUBSET (1 .. n) |->
                 IF s = {} THEN nodes ELSE InitialPitch(all[s \ {Max(s)}], id[Max(s)])]
    BY <2>2, <2>3
  <2>5. QED BY <1>2a, <2>4 DEF PitchedSteps
<1> DEFINE g == CHOOSE x : PitchedSteps(x, id)
<1> HIDE DEF all, n, h
<1>5. PitchedSteps(g, id) BY <1>4
<1>6. Pitched = g[1 .. n] BY <1>2a, PitchedIsStepped DEF id
<1> HIDE DEF g
<1>7. g[1 .. n] = all[1 .. n]
  <2> DEFINE Q == {m \in Nat : m <= n => g[1 .. m] = all[1 .. m]}
  <2>1. ASSUME NEW s \in SUBSET (1 .. n)
        PROVE  /\ g[s] = IF s = {} THEN nodes ELSE InitialPitch(g[s \ {Max(s)}], id[Max(s)])
               /\ all[s] = IF s = {} THEN nodes ELSE InitialPitch(all[s \ {Max(s)}], id[Max(s)])
    BY <1>4, <1>5, <1>2a DEF PitchedSteps
  <2>2. 0 \in Q
    <3>1. 1 .. 0 = {} OBVIOUS
    <3>2. g[1 .. 0] = all[1 .. 0] BY <2>1, <3>1
    <3>3. QED BY <3>2
  <2>3. ASSUME NEW m \in 1 .. n, m - 1 \in Q PROVE m \in Q
    <3>1. m \in Nat /\ m # 0 /\ m - 1 <= n BY <1>1
    <3>2. 1 .. m # {} /\ (1 .. m) \ {Max(1 .. m)} = 1 .. m - 1 BY <3>1, HighestOf
    <3>3. g[1 .. m - 1] = all[1 .. m - 1] BY <2>3, <3>1
    <3>4. 1 .. m \in SUBSET (1 .. n) BY <1>1
    <3> DEFINE top == Max(1 .. m)
               rest == (1 .. m) \ {top}
    <3>5. g[1 .. m] = InitialPitch(g[rest], id[top]) /\ all[1 .. m] = InitialPitch(all[rest], id[top])
      BY <2>1, <3>2, <3>4
    <3>6. g[rest] = all[rest] BY <3>2, <3>3
    <3> HIDE DEF top, rest
    <3>7. g[1 .. m] = all[1 .. m] BY <3>5, <3>6
    <3>8. QED BY <3>1, <3>7
  <2> HIDE DEF Q
  <2>4. n \in Q BY <1>1, <2>2, <2>3, Segments
  <2>5. QED BY <1>1, <2>4 DEF Q
<1>8. all[1 .. n] = Changed(nodes, who, h, 1 .. n) BY DEF all
<1>9. Pitched = Changed(nodes, who, h, 1 .. n) BY <1>6, <1>7, <1>8
<1>10. IsSequence(Pitched) /\ Len(Pitched) = Len(nodes) BY <1>1, <1>9, ChangedShape
<1>11. ASSUME NEW k \in 1 .. Len(nodes)
       PROVE  Pitched[k] = IF who[k] \in 1 .. n THEN PitchOf(who[k], k) ELSE nodes[k]
  BY <1>1, <1>9, <1>11 DEF Changed, h, PitchedAt
<1>12. ASSUME NEW k \in 1 .. Len(nodes), NEW i \in 1 .. n
       PROVE  k - 1 \in ToSet(blades[i]) <=> who[k] = i
  <2>1. AreIds(blades[i], nodes) BY DEF BladesApart, n
  <2>2. k \in Spots(blades[i]) <=> k - 1 \in ToSet(blades[i]) BY <1>1, <2>1, SpotIn
  <2>3. k \in Spots(blades[i]) <=> who[k] = i BY <1>1, <1>2 DEF IsOwner
  <2>4. QED BY <2>2, <2>3
<1>13. ASSUME NEW k \in 1 .. Len(nodes), NEW i \in 1 .. n, k - 1 \in ToSet(blades[i])
       PROVE  Pitched[k] = PitchOf(i, k)
  BY <1>11, <1>12, <1>13
<1>14. ASSUME NEW k \in 1 .. Len(nodes), \A i \in 1 .. n : k - 1 \notin ToSet(blades[i])
       PROVE  Pitched[k] = nodes[k]
  <2>1. who[k] \notin 1 .. n BY <1>12, <1>14
  <2>2. QED BY <1>11, <2>1
<1>15. QED BY <1>10, <1>13, <1>14 DEF n



-----------------------------------------------------------------------------
(* Lists written out, and one after the other.                               *)

LEMMA List1 ==
    ASSUME NEW a
    PROVE  IsSequence(<<a>>) /\ Len(<<a>>) = 1
<1> DEFINE s == <<a>>
<1>1. DOMAIN s = 1 .. 1 /\ s = [k \in 1 .. 1 |-> s[k]] OBVIOUS
<1> HIDE DEF s
<1>2. IsSequence(s) /\ Len(s) = 1 BY <1>1, SequenceOf
<1>3. QED BY <1>2 DEF s

LEMMA List2 ==
    ASSUME NEW a, NEW b
    PROVE  IsSequence(<<a, b>>) /\ Len(<<a, b>>) = 2
<1> DEFINE s == <<a, b>>
<1>1. DOMAIN s = 1 .. 2 /\ s = [k \in 1 .. 2 |-> s[k]] OBVIOUS
<1> HIDE DEF s
<1>2. IsSequence(s) /\ Len(s) = 2 BY <1>1, SequenceOf
<1>3. QED BY <1>2 DEF s

LEMMA List3 ==
    ASSUME NEW a, NEW b, NEW c
    PROVE  IsSequence(<<a, b, c>>) /\ Len(<<a, b, c>>) = 3
<1> DEFINE s == <<a, b, c>>
<1>1. DOMAIN s = 1 .. 3 /\ s = [k \in 1 .. 3 |-> s[k]] OBVIOUS
<1> HIDE DEF s
<1>2. IsSequence(s) /\ Len(s) = 3 BY <1>1, SequenceOf
<1>3. QED BY <1>2 DEF s

LEMMA List4 ==
    ASSUME NEW a, NEW b, NEW c, NEW d
    PROVE  IsSequence(<<a, b, c, d>>) /\ Len(<<a, b, c, d>>) = 4
<1> DEFINE s == <<a, b, c, d>>
<1>1. DOMAIN s = 1 .. 4 /\ s = [k \in 1 .. 4 |-> s[k]] OBVIOUS
<1> HIDE DEF s
<1>2. IsSequence(s) /\ Len(s) = 4 BY <1>1, SequenceOf
<1>3. QED BY <1>2 DEF s

LEMMA List5 ==
    ASSUME NEW a, NEW b, NEW c, NEW d, NEW e
    PROVE  IsSequence(<<a, b, c, d, e>>) /\ Len(<<a, b, c, d, e>>) = 5
<1> DEFINE s == <<a, b, c, d, e>>
<1>1. DOMAIN s = 1 .. 5 /\ s = [k \in 1 .. 5 |-> s[k]] OBVIOUS
<1> HIDE DEF s
<1>2. IsSequence(s) /\ Len(s) = 5 BY <1>1, SequenceOf
<1>3. QED BY <1>2 DEF s

LEMMA List6 ==
    ASSUME NEW a, NEW b, NEW c, NEW d, NEW e, NEW fn
    PROVE  IsSequence(<<a, b, c, d, e, fn>>) /\ Len(<<a, b, c, d, e, fn>>) = 6
<1> DEFINE s == <<a, b, c, d, e, fn>>
<1>1. DOMAIN s = 1 .. 6 /\ s = [k \in 1 .. 6 |-> s[k]] OBVIOUS
<1> HIDE DEF s
<1>2. IsSequence(s) /\ Len(s) = 6 BY <1>1, SequenceOf
<1>3. QED BY <1>2 DEF s

LEMMA List7 ==
    ASSUME NEW a, NEW b, NEW c, NEW d, NEW e, NEW fn, NEW g
    PROVE  IsSequence(<<a, b, c, d, e, fn, g>>) /\ Len(<<a, b, c, d, e, fn, g>>) = 7
<1> DEFINE s == <<a, b, c, d, e, fn, g>>
<1>1. DOMAIN s = 1 .. 7 /\ s = [k \in 1 .. 7 |-> s[k]] OBVIOUS
<1> HIDE DEF s
<1>2. IsSequence(s) /\ Len(s) = 7 BY <1>1, SequenceOf
<1>3. QED BY <1>2 DEF s

LEMMA JoinNone ==
    ASSUME NEW s, IsSequence(s)
    PROVE  <<>> \o s = s /\ s \o <<>> = s
<1>1. IsSequence(<<>>) /\ Len(<<>>) = 0 BY DEF IsSequence
<1>2. Len(s) \in Nat BY Elements
<1>3. <<>> \o s = s
  <2> DEFINE c == <<>> \o s
  <2>1. /\ IsSequence(c) /\ Len(c) = Len(<<>>) + Len(s)
        /\ \A k \in 1 .. Len(s) : c[Len(<<>>) + k] = s[k]
    BY <1>1, Joined
  <2> HIDE DEF c
  <2>2. Len(c) = Len(s) /\ \A k \in 1 .. Len(c) : c[k] = s[k] BY <1>1, <1>2, <2>1
  <2>3. c = s BY <2>1, <2>2, Same
  <2>4. QED BY <2>3 DEF c
<1>4. s \o <<>> = s
  <2> DEFINE c == s \o <<>>
  <2>1. /\ IsSequence(c) /\ Len(c) = Len(s) + Len(<<>>)
        /\ \A k \in 1 .. Len(s) : c[k] = s[k]
    BY <1>1, Joined
  <2> HIDE DEF c
  <2>2. Len(c) = Len(s) /\ \A k \in 1 .. Len(c) : c[k] = s[k] BY <1>1, <1>2, <2>1
  <2>3. c = s BY <2>1, <2>2, Same
  <2>4. QED BY <2>3 DEF c
<1>5. QED BY <1>3, <1>4

LEMMA JoinThree ==
    ASSUME NEW a, NEW b, NEW c, IsSequence(a), IsSequence(b), IsSequence(c)
    PROVE  (a \o b) \o c = a \o (b \o c)
<1> DEFINE ab == a \o b
           bc == b \o c
           l  == ab \o c
           r  == a \o bc
<1>1. /\ IsSequence(ab) /\ Len(ab) = Len(a) + Len(b)
      /\ \A k \in 1 .. Len(a) : ab[k] = a[k]
      /\ \A k \in 1 .. Len(b) : ab[Len(a) + k] = b[k]
  BY Joined
<1>2. /\ IsSequence(bc) /\ Len(bc) = Len(b) + Len(c)
      /\ \A k \in 1 .. Len(b) : bc[k] = b[k]
      /\ \A k \in 1 .. Len(c) : bc[Len(b) + k] = c[k]
  BY Joined
<1> HIDE DEF ab, bc
<1>3. /\ IsSequence(l) /\ Len(l) = Len(ab) + Len(c)
      /\ \A k \in 1 .. Len(ab) : l[k] = ab[k]
      /\ \A k \in 1 .. Len(c) : l[Len(ab) + k] = c[k]
  BY <1>1, Joined
<1>4. /\ IsSequence(r) /\ Len(r) = Len(a) + Len(bc)
      /\ \A k \in 1 .. Len(a) : r[k] = a[k]
      /\ \A k \in 1 .. Len(bc) : r[Len(a) + k] = bc[k]
  BY <1>2, Joined
<1> HIDE DEF l, r
<1>5. Len(a) \in Nat /\ Len(b) \in Nat /\ Len(c) \in Nat BY Elements
<1>6. Len(l) = Len(r) BY <1>1, <1>2, <1>3, <1>4, <1>5
<1>7. ASSUME NEW k \in 1 .. Len(l) PROVE l[k] = r[k]
  <2>1. CASE k <= Len(a) BY <1>1, <1>3, <1>4, <1>5, <2>1
  <2>2. CASE Len(a) < k /\ k <= Len(a) + Len(b)
    <3> DEFINE j == k - Len(a)
    <3>1. j \in 1 .. Len(b) /\ k = Len(a) + j BY <1>5, <2>2
    <3> HIDE DEF j
    <3>2. j \in 1 .. Len(bc) /\ k \in 1 .. Len(ab) BY <1>1, <1>2, <1>5, <3>1
    <3>3. l[k] = b[j] BY <1>1, <1>3, <3>1, <3>2
    <3>4. r[k] = b[j] BY <1>2, <1>4, <3>1, <3>2
    <3>5. QED BY <3>3, <3>4
  <2>3. CASE Len(a) + Len(b) < k
    <3> DEFINE j == k - (Len(a) + Len(b))
    <3>1. j \in 1 .. Len(c) /\ k = Len(ab) + j /\ k = Len(a) + (Len(b) + j)
      BY <1>1, <1>3, <1>5, <2>3
    <3> HIDE DEF j
    <3>2. Len(b) + j \in 1 .. Len(bc) BY <1>2, <1>5, <3>1
    <3>3. l[k] = c[j] BY <1>3, <3>1
    <3>4. r[k] = bc[Len(b) + j] BY <1>4, <3>1, <3>2
    <3>5. bc[Len(b) + j] = c[j] BY <1>2, <3>1
    <3>6. QED BY <3>3, <3>4, <3>5
  <2>4. QED BY <1>1, <1>3, <1>5, <2>1, <2>2, <2>3
<1>8. l = r BY <1>3, <1>4, <1>6, <1>7, Same
<1>9. QED BY <1>8 DEF l, r, ab, bc

LEMMA Join12 ==
    ASSUME NEW a, NEW b, NEW c
    PROVE  <<a>> \o <<b, c>> = <<a, b, c>>
<1> DEFINE p == <<a>>
           q == <<b, c>>
           r == p \o q
           s == <<a, b, c>>
<1>1. /\ IsSequence(p) /\ Len(p) = 1 /\ IsSequence(q) /\ Len(q) = 2
      /\ IsSequence(s) /\ Len(s) = 3
  BY List1, List2, List3
<1>2. p[1] = s[1] OBVIOUS
<1>3. q[1] = s[2] /\ q[2] = s[3] OBVIOUS
<1> HIDE DEF p, q, s
<1>4. /\ IsSequence(r) /\ Len(r) = 3
      /\ \A k \in 1 .. 1 : r[k] = p[k]
      /\ \A k \in 1 .. 2 : r[1 + k] = q[k]
  <2>1. IsSequence(p) /\ IsSequence(q) BY <1>1
  <2>2. /\ IsSequence(r) /\ Len(r) = Len(p) + Len(q)
        /\ \A k \in 1 .. Len(p) : r[k] = p[k]
        /\ \A k \in 1 .. Len(q) : r[Len(p) + k] = q[k]
    BY <2>1, Joined
  <2> HIDE DEF r
  <2>3. QED BY <1>1, <2>2
<1> HIDE DEF r
<1>5. r[1] = s[1] BY <1>2, <1>4
<1>6. r[1 + 1] = s[2] /\ r[1 + 2] = s[3] BY <1>3, <1>4
<1>7. r[2] = s[2] /\ r[3] = s[3] BY <1>6
<1>8. \A k \in 1 .. 3 : k = 1 \/ k = 2 \/ k = 3 OBVIOUS
<1>9. \A k \in 1 .. 3 : r[k] = s[k] BY <1>5, <1>7, <1>8
<1>10. r = s BY <1>1, <1>4, <1>9, Same
<1>11. QED BY <1>10 DEF p, q, r, s

LEMMA Join22 ==
    ASSUME NEW a, NEW b, NEW c, NEW d
    PROVE  <<a, b>> \o <<c, d>> = <<a, b, c, d>>
<1> DEFINE p == <<a, b>>
           q == <<c, d>>
           r == p \o q
           s == <<a, b, c, d>>
<1>1. /\ IsSequence(p) /\ Len(p) = 2 /\ IsSequence(q) /\ Len(q) = 2
      /\ IsSequence(s) /\ Len(s) = 4
  BY List2, List4
<1>2. p[1] = s[1] /\ p[2] = s[2] OBVIOUS
<1>3. q[1] = s[3] /\ q[2] = s[4] OBVIOUS
<1> HIDE DEF p, q, s
<1>4. /\ IsSequence(r) /\ Len(r) = 4
      /\ \A k \in 1 .. 2 : r[k] = p[k]
      /\ \A k \in 1 .. 2 : r[2 + k] = q[k]
  <2>1. IsSequence(p) /\ IsSequence(q) BY <1>1
  <2>2. /\ IsSequence(r) /\ Len(r) = Len(p) + Len(q)
        /\ \A k \in 1 .. Len(p) : r[k] = p[k]
        /\ \A k \in 1 .. Len(q) : r[Len(p) + k] = q[k]
    BY <2>1, Joined
  <2> HIDE DEF r
  <2>3. QED BY <1>1, <2>2
<1> HIDE DEF r
<1>5. r[1] = s[1] /\ r[2] = s[2] BY <1>2, <1>4
<1>6. r[2 + 1] = s[3] /\ r[2 + 2] = s[4] BY <1>3, <1>4
<1>7. r[3] = s[3] /\ r[4] = s[4] BY <1>6
<1>8. \A k \in 1 .. 4 : k = 1 \/ k = 2 \/ k = 3 \/ k = 4 OBVIOUS
<1>9. \A k \in 1 .. 4 : r[k] = s[k] BY <1>5, <1>7, <1>8
<1>10. r = s BY <1>1, <1>4, <1>9, Same
<1>11. QED BY <1>10 DEF p, q, r, s

LEMMA Join32 ==
    ASSUME NEW a, NEW b, NEW c, NEW d, NEW e
    PROVE  <<a, b, c>> \o <<d, e>> = <<a, b, c, d, e>>
<1> DEFINE p == <<a, b, c>>
           q == <<d, e>>
           r == p \o q
           s == <<a, b, c, d, e>>
<1>1. /\ IsSequence(p) /\ Len(p) = 3 /\ IsSequence(q) /\ Len(q) = 2
      /\ IsSequence(s) /\ Len(s) = 5
  BY List2, List3, List5
<1>2. p[1] = s[1] /\ p[2] = s[2] /\ p[3] = s[3] OBVIOUS
<1>3. q[1] = s[4] /\ q[2] = s[5] OBVIOUS
<1> HIDE DEF p, q, s
<1>4. /\ IsSequence(r) /\ Len(r) = 5
      /\ \A k \in 1 .. 3 : r[k] = p[k]
      /\ \A k \in 1 .. 2 : r[3 + k] = q[k]
  <2>1. IsSequence(p) /\ IsSequence(q) BY <1>1
  <2>2. /\ IsSequence(r) /\ Len(r) = Len(p) + Len(q)
        /\ \A k \in 1 .. Len(p) : r[k] = p[k]
        /\ \A k \in 1 .. Len(q) : r[Len(p) + k] = q[k]
    BY <2>1, Joined
  <2> HIDE DEF r
  <2>3. QED BY <1>1, <2>2
<1> HIDE DEF r
<1>5. r[1] = s[1] /\ r[2] = s[2] /\ r[3] = s[3] BY <1>2, <1>4
<1>6. r[3 + 1] = s[4] /\ r[3 + 2] = s[5] BY <1>3, <1>4
<1>7. r[4] = s[4] /\ r[5] = s[5] BY <1>6
<1>8. \A k \in 1 .. 5 : k = 1 \/ k = 2 \/ k = 3 \/ k = 4 \/ k = 5 OBVIOUS
<1>9. \A k \in 1 .. 5 : r[k] = s[k] BY <1>5, <1>7, <1>8
<1>10. r = s BY <1>1, <1>4, <1>9, Same
<1>11. QED BY <1>10 DEF p, q, r, s

LEMMA Join34 ==
    ASSUME NEW a, NEW b, NEW c, NEW d, NEW e, NEW fn, NEW g
    PROVE  <<a, b, c>> \o <<d, e, fn, g>> = <<a, b, c, d, e, fn, g>>
<1> DEFINE p == <<a, b, c>>
           q == <<d, e, fn, g>>
           r == p \o q
           s == <<a, b, c, d, e, fn, g>>
<1>1. /\ IsSequence(p) /\ Len(p) = 3 /\ IsSequence(q) /\ Len(q) = 4
      /\ IsSequence(s) /\ Len(s) = 7
  BY List3, List4, List7
<1>2. p[1] = s[1] /\ p[2] = s[2] /\ p[3] = s[3] OBVIOUS
<1>3. q[1] = s[4] /\ q[2] = s[5] /\ q[3] = s[6] /\ q[4] = s[7] OBVIOUS
<1> HIDE DEF p, q, s
<1>4. /\ IsSequence(r) /\ Len(r) = 7
      /\ \A k \in 1 .. 3 : r[k] = p[k]
      /\ \A k \in 1 .. 4 : r[3 + k] = q[k]
  <2>1. IsSequence(p) /\ IsSequence(q) BY <1>1
  <2>2. /\ IsSequence(r) /\ Len(r) = Len(p) + Len(q)
        /\ \A k \in 1 .. Len(p) : r[k] = p[k]
        /\ \A k \in 1 .. Len(q) : r[Len(p) + k] = q[k]
    BY <2>1, Joined
  <2> HIDE DEF r
  <2>3. QED BY <1>1, <2>2
<1> HIDE DEF r
<1>5. r[1] = s[1] /\ r[2] = s[2] /\ r[3] = s[3] BY <1>2, <1>4
<1>6. r[3 + 1] = s[4] /\ r[3 + 2] = s[5] /\ r[3 + 3] = s[6] /\ r[3 + 4] = s[7] BY <1>3, <1>4
<1>7. r[4] = s[4] /\ r[5] = s[5] /\ r[6] = s[6] /\ r[7] = s[7] BY <1>6
<1>8. \A k \in 1 .. 7 : k = 1 \/ k = 2 \/ k = 3 \/ k = 4 \/ k = 5 \/ k = 6 \/ k = 7 OBVIOUS
<1>9. \A k \in 1 .. 7 : r[k] = s[k] BY <1>5, <1>7, <1>8
<1>10. r = s BY <1>1, <1>4, <1>9, Same
<1>11. QED BY <1>10 DEF p, q, r, s

LEMMA Join52 ==
    ASSUME NEW a, NEW b, NEW c, NEW d, NEW e, NEW fn, NEW g
    PROVE  <<a, b, c, d, e>> \o <<fn, g>> = <<a, b, c, d, e, fn, g>>
<1> DEFINE p == <<a, b, c, d, e>>
           q == <<fn, g>>
           r == p \o q
           s == <<a, b, c, d, e, fn, g>>
<1>1. /\ IsSequence(p) /\ Len(p) = 5 /\ IsSequence(q) /\ Len(q) = 2
      /\ IsSequence(s) /\ Len(s) = 7
  BY List2, List5, List7
<1>2. p[1] = s[1] /\ p[2] = s[2] /\ p[3] = s[3] /\ p[4] = s[4] /\ p[5] = s[5] OBVIOUS
<1>3. q[1] = s[6] /\ q[2] = s[7] OBVIOUS
<1> HIDE DEF p, q, s
<1>4. /\ IsSequence(r) /\ Len(r) = 7
      /\ \A k \in 1 .. 5 : r[k] = p[k]
      /\ \A k \in 1 .. 2 : r[5 + k] = q[k]
  <2>1. IsSequence(p) /\ IsSequence(q) BY <1>1
  <2>2. /\ IsSequence(r) /\ Len(r) = Len(p) + Len(q)
        /\ \A k \in 1 .. Len(p) : r[k] = p[k]
        /\ \A k \in 1 .. Len(q) : r[Len(p) + k] = q[k]
    BY <2>1, Joined
  <2> HIDE DEF r
  <2>3. QED BY <1>1, <2>2
<1> HIDE DEF r
<1>5. r[1] = s[1] /\ r[2] = s[2] /\ r[3] = s[3] /\ r[4] = s[4] /\ r[5] = s[5] BY <1>2, <1>4
<1>6. r[5 + 1] = s[6] /\ r[5 + 2] = s[7] BY <1>3, <1>4
<1>7. r[6] = s[6] /\ r[7] = s[7] BY <1>6
<1>8. \A k \in 1 .. 7 : k = 1 \/ k = 2 \/ k = 3 \/ k = 4 \/ k = 5 \/ k = 6 \/ k = 7 OBVIOUS
<1>9. \A k \in 1 .. 7 : r[k] = s[k] BY <1>5, <1>7, <1>8
<1>10. r = s BY <1>1, <1>4, <1>9, Same
<1>11. QED BY <1>10 DEF p, q, r, s

-----------------------------------------------------------------------------
(* What is done to a node.                                                   *)

IsPlace(x) == x = [point |-> x.point, moves |-> x.moves]
IsNode(r) == r = [x0 |-> r.x0, u |-> r.u, v |-> r.v] /\ IsPlace(r.x0)

LEMMA FreshNode ==
    ASSUME NEW x, IsPlace(x)
    PROVE  IsNode(Fresh(x)) /\ Fresh(x).x0 = x /\ Fresh(x).u = <<>> /\ Fresh(x).v = <<>>
BY DEF IsNode, Fresh

LEMMA PlaceAt ==
    ASSUME NEW point
    PROVE  IsPlace(At(point)) /\ At(point).moves = <<>>
BY DEF IsPlace, At

RotatedBy(r, motions, s) ==
    IsNode(s) /\ s.x0.moves = r.x0.moves \o motions /\ s.u = r.u /\ s.v = r.v

LEMMA RotatedNode ==
    ASSUME NEW r, IsNode(r), NEW motions, NEW s,
           s = RotateAboutPoint(r, motions)
    PROVE  RotatedBy(r, motions, s)
<1> DEFINE m == r.x0.moves \o motions
           x == r.x0
<1>1. r = [x0 |-> x, u |-> r.u, v |-> r.v] /\ x = [point |-> x.point, moves |-> x.moves]
  BY DEF IsNode, IsPlace
<1>2. s = [r EXCEPT !.x0 = [x EXCEPT !.moves = m]] BY DEF RotateAboutPoint
<1> HIDE DEF m, x
<1>3. [x EXCEPT !.moves = m] = [point |-> x.point, moves |-> m] BY <1>1
<1>4. s = [x0 |-> [point |-> x.point, moves |-> m], u |-> r.u, v |-> r.v] BY <1>1, <1>2, <1>3
<1>5. IsNode(s) /\ s.x0.moves = m /\ s.u = r.u /\ s.v = r.v BY <1>4 DEF IsNode, IsPlace
<1>6. QED BY <1>5 DEF m, RotatedBy

DisplacedBy(r, motions, s) ==
    IsNode(s) /\ s.x0 = r.x0 /\ s.u = r.u \o motions /\ s.v = r.v

LEMMA DisplacedNode ==
    ASSUME NEW r, IsNode(r), NEW motions, NEW s,
           s = RotateDisplacementAboutPoint(r, motions)
    PROVE  DisplacedBy(r, motions, s)
<1> DEFINE m == r.u \o motions
<1>1. r = [x0 |-> r.x0, u |-> r.u, v |-> r.v] /\ IsPlace(r.x0) BY DEF IsNode
<1>2. s = [r EXCEPT !.u = m] BY DEF RotateDisplacementAboutPoint
<1> HIDE DEF m
<1>3. s = [x0 |-> r.x0, u |-> m, v |-> r.v] BY <1>1, <1>2
<1>4. IsNode(s) /\ s.x0 = r.x0 /\ s.u = m /\ s.v = r.v BY <1>1, <1>3 DEF IsNode
<1>5. QED BY <1>4 DEF m, DisplacedBy

SpunBy(r, spin, s) ==
    /\ IsNode(s) /\ s.x0 = r.x0 /\ s.u = r.u
    /\ s.v = <<spin, DisplacedPosition(r)>>

LEMMA SpunNode ==
    ASSUME NEW r, IsNode(r), NEW spin, NEW s,
           s = SetVelocityAboutPoint(r, spin)
    PROVE  SpunBy(r, spin, s)
<1> DEFINE m == <<spin, DisplacedPosition(r)>>
<1>1. r = [x0 |-> r.x0, u |-> r.u, v |-> r.v] /\ IsPlace(r.x0) BY DEF IsNode
<1>2. s = [r EXCEPT !.v = m] BY DEF SetVelocityAboutPoint
<1> HIDE DEF m
<1>3. s = [x0 |-> r.x0, u |-> r.u, v |-> m] BY <1>1, <1>2
<1>4. IsNode(s) /\ s.x0 = r.x0 /\ s.u = r.u /\ s.v = m BY <1>1, <1>3 DEF IsNode
<1>5. QED BY <1>4 DEF m, SpunBy

-----------------------------------------------------------------------------
(* The inductive invariant: what the constructor has built when it gets to   *)
(* each of its functions.                                                    *)

\* The beams in the model lie side by side from the first node of the turbine to the
\* one before n.
SideBySide(list, count, from, n) ==
    /\ IsSequence(list) /\ Len(list) = count
    /\ \A b \in 1 .. count :
         /\ IsSequence(list[b]) /\ 1 <= Len(list[b]) /\ IsInjective(list[b])
         /\ ToSet(list[b]) \subseteq from .. n - 1
    /\ \A b, c \in 1 .. count : b # c => ToSet(list[b]) \cap ToSet(list[c]) = {}
    /\ \A id \in from .. n - 1 : \E b \in 1 .. count : id \in ToSet(list[b])
BeamsTo(n) == SideBySide(beams, Len(beams), input.prior, n)

BladesAre(n) ==
    IsSequence(blades) /\ Len(blades) = n /\ \A i \in 1 .. n : blades[i] = beams[i]

NodesAreNodes == IsSequence(nodes) /\ \A k \in 1 .. Len(nodes) : IsNode(nodes[k])
NothingTurns == \A k \in 1 .. Len(nodes) : nodes[k].v = <<>>
NothingMoved == \A k \in 1 .. Len(nodes) : nodes[k].u = <<>>

BladesAtRoot ==
    \A i \in 1 .. Len(blades) : \A id \in ToSet(blades[i]) :
      nodes[id + 1].x0.moves = << <<"root">> >>
ApexesAtOrigin == \A i \in 1 .. input.blades : nodes[apexes[i] + 1].x0.moves = <<>>

\* Only a root that is prescribed with its beam is constrained before the rest.
RootsOnly ==
    /\ IsSequence(constraints)
    /\ \A i \in 1 .. Len(constraints) :
         constraints[i].type = "PrescribedBC" /\ constraints[i].control = None
    /\ ~ input.prescribedRoots => Len(constraints) = 0

Building ==
    /\ NodesAreNodes /\ NothingTurns /\ NothingMoved /\ RootsOnly
    /\ input.prior <= Len(nodes) /\ BeamsTo(Len(nodes))
    /\ BladesAtRoot

\* The nodes between the beams, in the order they were created.
First == IF input.nacelleMass THEN 5 ELSE 4
BetweenNodes ==
    /\ part["hub"] \in Nat /\ input.prior <= part["hub"]
    /\ part["azimuth"] = part["hub"] + 1
    /\ part["shaft_base"] = part["hub"] + 2
    /\ part["yaw_bearing"] = part["hub"] + 3
    /\ input.nacelleMass => part["nacelle_cm"] = part["hub"] + 4
    /\ IsSequence(apexes) /\ Len(apexes) = input.blades
    /\ \A i \in 1 .. input.blades : apexes[i] = part["hub"] + First + i - 1
    /\ Len(nodes) = part["hub"] + First + input.blades

Assembled ==
    /\ NodesAreNodes /\ BetweenNodes
    /\ BeamsTo(part["hub"]) /\ Len(beams) = input.blades + 1
    /\ BladesAre(input.blades) /\ tower = beams[input.blades + 1]

OnRotor(i) == << <<"cone">>, <<"azimuth", i>>, <<"tilt">>, <<"to apex">> >>
OnBlade(i) == << <<"root">>, <<"x to z">>, <<"hub radius">>,
                 <<"cone">>, <<"azimuth", i>>, <<"tilt">>, <<"to apex">> >>
Placed ==
    \A i \in 1 .. input.blades :
      /\ \A id \in ToSet(blades[i]) : nodes[id + 1].x0.moves = OnBlade(i)
      /\ nodes[apexes[i] + 1].x0.moves = OnRotor(i)

\* The constraints, by what they hold.
TieOfBlade(i) ==
    RotationControl(apexes[i], Root(blades[i]), Line(Root(blades[i]), apexes[i]), <<"pitch", i>>)
TieOfApex(i) == RigidJoint(part["hub"], apexes[i])
TieOfHub == RigidJoint(part["azimuth"], part["hub"])
TieOfAzimuth == RevoluteJoint(part["shaft_base"], part["azimuth"],
                              Line(part["hub"], part["shaft_base"]), <<"torque">>)
TieOfShaft == RigidJoint(part["yaw_bearing"], part["shaft_base"])
TieOfNacelle == RigidJoint(part["yaw_bearing"], part["nacelle_cm"])
TieOfYaw == RotationControl(TowerTop, part["yaw_bearing"], VerticalAxis, <<"yaw">>)
TieOfTower == PrescribedBC(Root(tower), Node(nodes, Root(tower)).u)
Ties == {TieOfBlade(i) : i \in 1 .. input.blades} \cup {TieOfApex(i) : i \in 1 .. input.blades}
        \cup {TieOfHub, TieOfAzimuth, TieOfShaft, TieOfYaw}
        \cup (IF input.nacelleMass THEN {TieOfNacelle} ELSE {})

OnceIn(list, c) ==
    \E i \in 1 .. Len(list) : list[i] = c /\ \A j \in 1 .. Len(list) : list[j] = c => j = i
Once(c) == OnceIn(constraints, c)
Tied(more) ==
    /\ IsSequence(constraints)
    /\ \A c \in Ties : Once(c)
    /\ \A i \in 1 .. Len(constraints) :
         \/ constraints[i] \in Ties
         \/ constraints[i].type = "PrescribedBC" /\ constraints[i].control = None
    /\ ~ input.prescribedRoots =>
         /\ \A i \in 1 .. Len(constraints) : constraints[i] \in Ties \cup more
         /\ \A c \in more : Once(c)

\* What the nodes have undergone: those of a blade its pitch first, those beyond the
\* tower the yaw y, and all the motion b of the base.
YawTurn ==
    IF input.yaw = 0 THEN <<>>
    ELSE << <<"turn", Rotation(VerticalAxis, input.yaw), Node(nodes, TowerTop).x0>> >>
BaseMove == IF input.baseMoved THEN << <<"base">> >> ELSE <<>>
Moved(y, b) ==
    /\ \A i \in 1 .. input.blades : \A id \in ToSet(blades[i]) :
         nodes[id + 1].u = PitchTurn(i) \o (y \o b)
    /\ \A id \in part["hub"] .. Len(nodes) - 1 : nodes[id + 1].u = y \o b
    /\ \A id \in ToSet(tower) : nodes[id + 1].u = b

BladeNodes == UNION {ToSet(blades[i]) : i \in 1 .. input.blades}
Apexes == {apexes[i] : i \in 1 .. input.blades}
Spinning == {part["hub"], part["azimuth"]} \cup (BladeNodes \cup Apexes)
RotorTurns ==
    \A id \in input.prior .. Len(nodes) - 1 :
      nodes[id + 1].v = IF id \in Spinning
                        THEN <<ShaftSpin(nodes), DisplacedPosition(nodes[id + 1])>> ELSE <<>>

Built == Assembled /\ Placed
ControlsAreSet ==
    control = [pitch |-> [i \in 1 .. input.blades |-> input.pitch], torque |-> 0,
               yaw |-> control.yaw]
YawIsCommanded == control.yaw = input.yaw

Phases == {"blades", "tower", "validate", "position", "rotor", "masses", "constraints",
           "pitch", "yaw", "base", "velocity", "built", "thrown"}

AssemblyInv ==
    /\ input \in Inputs /\ ControlsAreSet
    /\ pc = "blades" => Building /\ BladesAre(Len(beams)) /\ Len(beams) < input.blades
    /\ pc = "tower" => Building /\ BladesAre(Len(beams)) /\ Len(beams) = input.blades
    /\ pc \in {"validate", "position"} =>
         /\ Building /\ BladesAre(input.blades) /\ Len(beams) = input.blades + 1
         /\ tower = beams[input.blades + 1]
    /\ pc = "rotor" =>
         /\ Assembled /\ NothingTurns /\ NothingMoved /\ RootsOnly
         /\ BladesAtRoot /\ ApexesAtOrigin
    /\ pc \in {"masses", "constraints"} => Built /\ NothingTurns /\ NothingMoved /\ RootsOnly
    /\ pc = "pitch" => Built /\ NothingTurns /\ NothingMoved /\ Tied({}) /\ YawIsCommanded
    /\ pc = "yaw" => Built /\ NothingTurns /\ Moved(<<>>, <<>>) /\ Tied({}) /\ YawIsCommanded
    /\ pc = "base" => Built /\ NothingTurns /\ Moved(YawTurn, <<>>) /\ Tied({}) /\ YawIsCommanded
    /\ pc = "velocity" =>
         Built /\ NothingTurns /\ Moved(YawTurn, BaseMove) /\ Tied({TieOfTower}) /\ YawIsCommanded
    /\ pc = "built" =>
         Built /\ RotorTurns /\ Moved(YawTurn, BaseMove) /\ Tied({TieOfTower}) /\ YawIsCommanded
    /\ pc \in Phases

LEMMA InputTypes ==
    ASSUME AssemblyAssumption, input \in Inputs
    PROVE  /\ input.blades \in Nat /\ input.blades >= 1 /\ input.prior \in Nat
           /\ input.bladeOrder \in Nat /\ input.towerOrder \in Nat
           /\ input.pitch \in Int /\ input.yaw \in Int
           /\ input.prescribedRoots \in BOOLEAN /\ input.nacelleMass \in BOOLEAN
           /\ input.baseMoved \in BOOLEAN
<1>1. /\ input.blades \in BladeCounts /\ input.prior \in Priors
      /\ input.bladeOrder \in Orders /\ input.towerOrder \in Orders
      /\ input.pitch \in Angles /\ input.yaw \in Angles
      /\ input.prescribedRoots \in BOOLEAN /\ input.nacelleMass \in BOOLEAN
      /\ input.baseMoved \in BOOLEAN
  BY DEF Inputs
<1>2. /\ BladeCounts \subseteq Nat \ {0} /\ Orders \subseteq Nat
      /\ Priors \subseteq Nat /\ Angles \subseteq Int
  BY DEF AssemblyAssumption
<1>3. input.blades \in Nat /\ input.blades # 0 BY <1>1, <1>2
<1>4. input.blades >= 1 BY <1>3
<1>5. QED BY <1>1, <1>2, <1>3, <1>4

LEMMA NewNodes ==
    ASSUME NEW ns, IsSequence(ns), NEW n \in Nat, NEW positions, DOMAIN positions = 1 .. n
    PROVE  LET r == WithNodes(ns, positions)
           IN  /\ IsSequence(r) /\ Len(r) = Len(ns) + n
               /\ \A k \in 1 .. Len(ns) : r[k] = ns[k]
               /\ \A k \in 1 .. n : r[Len(ns) + k] = Fresh(positions[k])
<1> DEFINE new == [i \in DOMAIN positions |-> Fresh(positions[i])]
           r == ns \o new
<1>1. DOMAIN new = 1 .. n /\ new = [k \in 1 .. n |-> new[k]] /\ \A k \in 1 .. n : new[k] = Fresh(positions[k])
  OBVIOUS
<1> HIDE DEF new
<1>2. IsSequence(new) /\ Len(new) = n BY <1>1, SequenceOf
<1>3. /\ IsSequence(r) /\ Len(r) = Len(ns) + Len(new)
      /\ \A k \in 1 .. Len(ns) : r[k] = ns[k]
      /\ \A k \in 1 .. Len(new) : r[Len(ns) + k] = new[k]
  BY <1>2, Joined
<1>4. WithNodes(ns, positions) = r BY DEF WithNodes, new
<1> HIDE DEF r
<1>5. QED BY <1>1, <1>2, <1>3, <1>4

LEMMA NewIdsAre ==
    ASSUME NEW ns, IsSequence(ns), NEW n \in Nat
    PROVE  /\ IsSequence(NewIds(ns, n)) /\ Len(NewIds(ns, n)) = n /\ IsInjective(NewIds(ns, n))
           /\ \A i \in 1 .. n : NewIds(ns, n)[i] = Len(ns) + i - 1
           /\ ToSet(NewIds(ns, n)) = Len(ns) .. Len(ns) + n - 1
<1> DEFINE ids == NewIds(ns, n)
           first == Len(ns)
<1>1. first \in Nat BY Elements
<1>2. /\ DOMAIN ids = 1 .. n /\ ids = [k \in 1 .. n |-> ids[k]]
      /\ \A i \in 1 .. n : ids[i] = first + i - 1
  BY DEF NewIds
<1> HIDE DEF ids, first
<1>3. IsSequence(ids) /\ Len(ids) = n BY <1>2, SequenceOf
<1>4. IsInjective(ids) BY <1>1, <1>2 DEF IsInjective
<1>5. ASSUME NEW v \in ToSet(ids) PROVE v \in first .. first + n - 1
  <2>1. PICK k \in 1 .. n : v = ids[k] BY <1>2 DEF ToSet
  <2>2. QED BY <1>1, <1>2, <2>1
<1>6. ASSUME NEW v \in first .. first + n - 1 PROVE v \in ToSet(ids)
  <2>1. v - first + 1 \in 1 .. n /\ first + (v - first + 1) - 1 = v BY <1>1
  <2>2. ids[v - first + 1] = v BY <1>2, <2>1
  <2>3. QED BY <1>2, <2>1, <2>2 DEF ToSet
<1>7. ToSet(ids) = first .. first + n - 1 BY <1>5, <1>6
<1>8. QED BY <1>2, <1>3, <1>4, <1>7 DEF ids, first

LEMMA InitEstablishes ==
    ASSUME AssemblyAssumption, Init
    PROVE  AssemblyInv
<1>1. input \in Inputs /\ pc = "blades" BY DEF Init
<1>2. input.prior \in Nat /\ input.blades \in Nat /\ input.blades >= 1 BY <1>1, InputTypes
<1>3. IsSequence(<<>>) /\ Len(<<>>) = 0 /\ <<>> = [k \in 1 .. 0 |-> <<>>[k]] BY DEF IsSequence
<1> DEFINE places == [i \in 1 .. input.prior |-> At(<<"other", i>>)]
<1>4. nodes = WithNodes(<<>>, places) BY DEF Init
<1>5. DOMAIN places = 1 .. input.prior
      /\ \A i \in 1 .. input.prior : places[i] = At(<<"other", i>>)
  OBVIOUS
<1> HIDE DEF places
<1>6. /\ IsSequence(nodes) /\ Len(nodes) = Len(<<>>) + input.prior
      /\ \A k \in 1 .. input.prior : nodes[Len(<<>>) + k] = Fresh(places[k])
  BY <1>2, <1>3, <1>4, <1>5, NewNodes
<1>7. Len(nodes) = input.prior /\ \A k \in 1 .. Len(nodes) : nodes[k] = Fresh(places[k])
  BY <1>2, <1>3, <1>6
<1>8. \A k \in 1 .. Len(nodes) : IsNode(nodes[k]) /\ nodes[k].u = <<>> /\ nodes[k].v = <<>>
  <2> SUFFICES ASSUME NEW k \in 1 .. Len(nodes)
               PROVE  IsNode(nodes[k]) /\ nodes[k].u = <<>> /\ nodes[k].v = <<>>
    OBVIOUS
  <2>1. nodes[k] = Fresh(places[k]) /\ places[k] = At(<<"other", k>>) BY <1>5, <1>7
  <2>2. IsPlace(places[k]) BY <2>1, PlaceAt
  <2>3. QED BY <2>1, <2>2, FreshNode
<1>9. beams = <<>> /\ blades = <<>> /\ constraints = <<>> BY DEF Init
<1>10. 1 .. 0 = {} /\ input.prior .. input.prior - 1 = {} BY <1>2
<1>11. Building
  <2>1. NodesAreNodes /\ NothingTurns /\ NothingMoved /\ input.prior <= Len(nodes)
    BY <1>2, <1>6, <1>7, <1>8 DEF NodesAreNodes, NothingTurns, NothingMoved
  <2>2. RootsOnly BY <1>3, <1>9, <1>10 DEF RootsOnly
  <2>3. BeamsTo(Len(nodes)) BY <1>3, <1>7, <1>9, <1>10 DEF BeamsTo, SideBySide
  <2>4. BladesAtRoot BY <1>3, <1>9, <1>10 DEF BladesAtRoot
  <2>5. QED BY <2>1, <2>2, <2>3, <2>4 DEF Building
<1>12. BladesAre(Len(beams)) /\ Len(beams) < input.blades
  BY <1>2, <1>3, <1>9, <1>10 DEF BladesAre
<1>13. ControlsAreSet BY DEF Init, ControlsAreSet
<1>14. QED BY <1>1, <1>11, <1>12, <1>13 DEF AssemblyInv, Phases

\* A beam adds its nodes behind those there are, and nothing else changes.
LEMMA BeamIsBuilt ==
    ASSUME Building, input.prior \in Nat, NEW beam, NEW order \in Nat, order >= 1,
           CreateBeam(beam, order), input' = input
    PROVE  /\ NodesAreNodes' /\ NothingTurns' /\ NothingMoved' /\ RootsOnly'
           /\ Len(nodes') = Len(nodes) + order + 1 /\ BeamsTo(Len(nodes))'
           /\ beams' = Append(beams, NewIds(nodes, order + 1))
           /\ \A k \in 1 .. Len(nodes) : nodes'[k] = nodes[k]
           /\ \A id \in ToSet(NewIds(nodes, order + 1)) :
                nodes'[id + 1].x0.moves = << <<"root">> >>
<1> DEFINE n == Len(nodes)
           m == order + 1
           ids == NewIds(nodes, m)
           places == [i \in 1 .. m |-> At(<<"beam", beam, i>>)]
           fresh == WithNodes(nodes, places)
           root == << <<"root">> >>
<1>1. /\ n \in Nat /\ m \in Nat /\ m >= 2 /\ IsSequence(nodes) /\ DOMAIN nodes = 1 .. n
      /\ \A k \in 1 .. n : IsNode(nodes[k]) /\ nodes[k].u = <<>> /\ nodes[k].v = <<>>
      /\ input.prior <= n
  BY Elements DEF Building, NodesAreNodes, NothingTurns, NothingMoved
<1>2. /\ nodes' = RotateBeamAboutPoint(fresh, ids, root)
      /\ beams' = Append(beams, ids)
      /\ constraints' = IF input.prescribedRoots
                        THEN Append(constraints, PrescribedBC(ids[1], <<>>)) ELSE constraints
  BY DEF CreateBeam
<1>3. DOMAIN places = 1 .. m /\ \A i \in 1 .. m : places[i] = At(<<"beam", beam, i>>) OBVIOUS
<1> HIDE DEF places
<1>4. /\ IsSequence(fresh) /\ Len(fresh) = n + m
      /\ \A k \in 1 .. n : fresh[k] = nodes[k]
      /\ \A k \in 1 .. m : fresh[n + k] = Fresh(places[k])
  <2>1. IsSequence(nodes) /\ m \in Nat /\ DOMAIN places = 1 .. m BY <1>1, <1>3
  <2> HIDE DEF m
  <2>2. QED BY <2>1, NewNodes
<1>5. /\ IsSequence(ids) /\ Len(ids) = m /\ IsInjective(ids)
      /\ \A i \in 1 .. m : ids[i] = n + i - 1
      /\ ToSet(ids) = n .. n + m - 1
  BY <1>1, NewIdsAre
<1> HIDE DEF n, m, ids, fresh, root
<1>6. DOMAIN fresh = 1 .. n + m BY <1>4, Elements
<1>7. AreIds(ids, fresh)
  <2>1. \A i \in 1 .. m : ids[i] \in Nat /\ ids[i] + 1 \in 1 .. n + m BY <1>1, <1>5
  <2>2. QED BY <1>5, <1>6, <2>1 DEF AreIds
<1>8. nodes' = [k \in 1 .. n + m |-> IF k - 1 \in ToSet(ids)
                                    THEN RotateAboutPoint(fresh[k], root) ELSE fresh[k]]
  BY <1>2, <1>4, <1>7, RotatedNodes
<1>9. IsSequence(nodes') /\ Len(nodes') = n + m
  <2>1. n + m \in Nat /\ nodes' = [k \in 1 .. n + m |-> nodes'[k]] BY <1>1, <1>8
  <2>2. QED BY <2>1, SequenceOf
<1>10. \A k \in 1 .. n : nodes'[k] = nodes[k]
  <2> SUFFICES ASSUME NEW k \in 1 .. n PROVE nodes'[k] = nodes[k] OBVIOUS
  <2>1. k \in 1 .. n + m /\ k - 1 \notin n .. n + m - 1 BY <1>1
  <2>2. nodes'[k] = fresh[k] BY <1>5, <1>8, <2>1
  <2>3. QED BY <1>4, <2>2
<1>11. ASSUME NEW k \in n + 1 .. n + m
       PROVE  /\ IsNode(nodes'[k]) /\ nodes'[k].x0.moves = root
              /\ nodes'[k].u = <<>> /\ nodes'[k].v = <<>>
  <2> DEFINE j == k - n
             r == fresh[k]
  <2>1. j \in 1 .. m /\ k = n + j /\ k \in 1 .. n + m /\ k - 1 \in n .. n + m - 1
    BY <1>1, <1>11
  <2>2. r = Fresh(places[j]) /\ places[j] = At(<<"beam", beam, j>>) BY <1>3, <1>4, <2>1
  <2>3. IsPlace(places[j]) /\ places[j].moves = <<>> BY <2>2, PlaceAt
  <2> HIDE DEF j, r
  <2>4. IsNode(r) /\ r.x0.moves = <<>> /\ r.u = <<>> /\ r.v = <<>>
    BY <2>2, <2>3, FreshNode
  <2>5. nodes'[k] = RotateAboutPoint(r, root) BY <1>5, <1>8, <2>1 DEF r
  <2>6. /\ IsNode(nodes'[k]) /\ nodes'[k].x0.moves = r.x0.moves \o root
        /\ nodes'[k].u = r.u /\ nodes'[k].v = r.v
    <3>1. IsNode(r) BY <2>4
    <3>2. RotatedBy(r, root, nodes'[k]) BY <2>5, <3>1, RotatedNode
    <3>3. QED BY <3>2 DEF RotatedBy
  <2>7. <<>> \o root = root BY List1, JoinNone DEF root
  <2>8. QED BY <2>4, <2>6, <2>7
<1>12. ASSUME NEW k \in 1 .. n + m
       PROVE  IsNode(nodes'[k]) /\ nodes'[k].u = <<>> /\ nodes'[k].v = <<>>
  <2>1. CASE k \in 1 .. n BY <1>1, <1>10, <2>1
  <2>2. CASE k \notin 1 .. n
    <3>1. k \in n + 1 .. n + m BY <1>1, <2>2
    <3>2. QED BY <1>11, <3>1
  <2>3. QED BY <2>1, <2>2
<1>13. NodesAreNodes' /\ NothingTurns' /\ NothingMoved'
  BY <1>9, <1>12 DEF NodesAreNodes, NothingTurns, NothingMoved
<1>14. RootsOnly'
  <2>1. RootsOnly BY DEF Building
  <2>2. CASE ~ input.prescribedRoots
    <3>1. constraints' = constraints BY <1>2, <2>2
    <3>2. QED BY <2>1, <3>1 DEF RootsOnly
  <2>3. CASE input.prescribedRoots
    <3> DEFINE c == PrescribedBC(ids[1], <<>>)
    <3>1. constraints' = Append(constraints, c) BY <1>2, <2>3
    <3>2. c.type = "PrescribedBC" /\ c.control = None BY DEF PrescribedBC, Constraint
    <3> HIDE DEF c
    <3>3. /\ IsSequence(constraints') /\ Len(constraints') = Len(constraints) + 1
          /\ \A i \in 1 .. Len(constraints) : constraints'[i] = constraints[i]
          /\ constraints'[Len(constraints) + 1] = c
      BY <2>1, <3>1, Appended DEF RootsOnly
    <3>4. Len(constraints) \in Nat BY <2>1, Elements DEF RootsOnly
    <3>5. ASSUME NEW i \in 1 .. Len(constraints')
          PROVE  constraints'[i].type = "PrescribedBC" /\ constraints'[i].control = None
      <4>1. i \in 1 .. Len(constraints) \/ i = Len(constraints) + 1 BY <3>3, <3>4
      <4>2. QED BY <2>1, <3>2, <3>3, <4>1 DEF RootsOnly
    <3>6. QED BY <2>3, <3>3, <3>5 DEF RootsOnly
  <2>4. QED BY <2>2, <2>3
<1>15. BeamsTo(Len(nodes))'
  <2> DEFINE count == Len(beams)
  <2>1. BeamsTo(n) BY DEF Building, n
  <2>2. IsSequence(beams) /\ count \in Nat BY <2>1, Elements DEF BeamsTo, SideBySide
  <2>3. /\ IsSequence(beams') /\ Len(beams') = count + 1
        /\ \A b \in 1 .. count : beams'[b] = beams[b]
        /\ beams'[count + 1] = ids
    BY <1>2, <2>2, Appended
  <2> HIDE DEF count
  <2>4. \A b \in 1 .. count : /\ IsSequence(beams[b]) /\ 1 <= Len(beams[b]) /\ IsInjective(beams[b])
                              /\ ToSet(beams[b]) \subseteq input.prior .. n - 1
    BY <2>1 DEF BeamsTo, SideBySide, count
  <2>5. \A b \in 1 .. count + 1 : b \in 1 .. count \/ b = count + 1 BY <2>2
  <2>6. input.prior .. n - 1 \subseteq input.prior .. (n + m) - 1
        /\ n .. n + m - 1 \subseteq input.prior .. (n + m) - 1
    BY <1>1
  <2>7. ASSUME NEW b \in 1 .. count + 1
        PROVE  /\ IsSequence(beams'[b]) /\ 1 <= Len(beams'[b]) /\ IsInjective(beams'[b])
               /\ ToSet(beams'[b]) \subseteq input.prior .. (n + m) - 1
    <3>1. CASE b \in 1 .. count BY <2>3, <2>4, <2>6, <3>1
    <3>2. CASE b = count + 1 BY <1>1, <1>5, <2>3, <2>6, <3>2
    <3>3. QED BY <2>5, <3>1, <3>2
  <2>8. ASSUME NEW b \in 1 .. count + 1, NEW c \in 1 .. count + 1, b # c
        PROVE  ToSet(beams'[b]) \cap ToSet(beams'[c]) = {}
    <3>1. (n .. n + m - 1) \cap (input.prior .. n - 1) = {} BY <1>1
    <3>2. CASE b \in 1 .. count /\ c \in 1 .. count BY <2>1, <2>3, <2>8, <3>2 DEF BeamsTo, SideBySide, count
    <3>3. CASE b \in 1 .. count /\ c = count + 1 BY <1>5, <2>3, <2>4, <3>1, <3>3
    <3>4. CASE b = count + 1 /\ c \in 1 .. count BY <1>5, <2>3, <2>4, <3>1, <3>4
    <3>5. QED BY <2>5, <2>8, <3>2, <3>3, <3>4
  <2>9. ASSUME NEW id \in input.prior .. (n + m) - 1
        PROVE  \E b \in 1 .. count + 1 : id \in ToSet(beams'[b])
    <3>1. CASE id < n
      <4>1. id \in input.prior .. n - 1 BY <1>1, <3>1
      <4>2. PICK b \in 1 .. count : id \in ToSet(beams[b]) BY <2>1, <4>1 DEF BeamsTo, SideBySide, count
      <4>3. b \in 1 .. count + 1 BY <2>2
      <4>4. QED BY <2>3, <4>2, <4>3
    <3>2. CASE ~ (id < n)
      <4>1. id \in n .. n + m - 1 /\ count + 1 \in 1 .. count + 1 BY <1>1, <2>2, <3>2
      <4>2. QED BY <1>5, <2>3, <4>1
    <3>3. QED BY <3>1, <3>2
  <2>10. SideBySide(beams', count + 1, input.prior, n + m)
    <3>1. IsSequence(beams') /\ Len(beams') = count + 1 BY <2>3
    <3>2. \A b \in 1 .. count + 1 :
            /\ IsSequence(beams'[b]) /\ 1 <= Len(beams'[b]) /\ IsInjective(beams'[b])
            /\ ToSet(beams'[b]) \subseteq input.prior .. (n + m) - 1
      BY <2>7, Zenon
    <3>3. \A b, c \in 1 .. count + 1 : b # c => ToSet(beams'[b]) \cap ToSet(beams'[c]) = {}
      BY <2>8, Zenon
    <3>4. \A id \in input.prior .. (n + m) - 1 : \E b \in 1 .. count + 1 : id \in ToSet(beams'[b])
      BY <2>9, Zenon
    <3>5. QED BY <3>1, <3>2, <3>3, <3>4, Zenon DEF SideBySide
  <2>11. QED BY <1>9, <2>3, <2>10 DEF BeamsTo
<1>16. \A id \in ToSet(ids) : nodes'[id + 1].x0.moves = root
  <2> SUFFICES ASSUME NEW id \in ToSet(ids) PROVE nodes'[id + 1].x0.moves = root OBVIOUS
  <2>1. id + 1 \in n + 1 .. n + m BY <1>1, <1>5
  <2>2. QED BY <1>11, <2>1
<1>17. n + m = n + order + 1 BY <1>1 DEF m
<1>18. QED BY <1>2, <1>9, <1>10, <1>13, <1>14, <1>15, <1>16, <1>17 DEF n, m, ids, root

\* The ids of a beam are of nodes there are.
LEMMA BeamIds ==
    ASSUME NEW n \in Nat, BeamsTo(n), input.prior \in Nat, NEW b \in 1 .. Len(beams),
           NEW id \in ToSet(beams[b])
    PROVE  id \in Nat /\ input.prior <= id /\ id + 1 \in 1 .. n
<1>1. id \in input.prior .. n - 1 BY DEF BeamsTo, SideBySide
<1>2. QED BY <1>1

LEMMA CreateBladeKeeps ==
    ASSUME AssemblyAssumption, AssemblyInv, CreateBlade
    PROVE  AssemblyInv'
<1> DEFINE ids == NewIds(nodes, input.bladeOrder + 1)
           n == Len(nodes)
           count == Len(beams)
<1>1. /\ pc = "blades" /\ input.bladeOrder >= 1
      /\ CreateBeam(Len(blades) + 1, input.bladeOrder)
      /\ blades' = Append(blades, ids)
      /\ pc' = IF Len(blades') = input.blades THEN "tower" ELSE "blades"
      /\ input' = input /\ control' = control
  BY DEF CreateBlade
<1>2. /\ input \in Inputs /\ ControlsAreSet /\ Building /\ BladesAre(count) /\ count < input.blades
  BY <1>1 DEF AssemblyInv
<1>3. input.prior \in Nat /\ input.bladeOrder \in Nat /\ input.blades \in Nat BY <1>2, InputTypes
<1>4. /\ NodesAreNodes' /\ NothingTurns' /\ NothingMoved' /\ RootsOnly'
      /\ Len(nodes') = n + input.bladeOrder + 1 /\ BeamsTo(Len(nodes))'
      /\ beams' = Append(beams, ids)
      /\ \A k \in 1 .. n : nodes'[k] = nodes[k]
      /\ \A id \in ToSet(ids) : nodes'[id + 1].x0.moves = << <<"root">> >>
  BY <1>1, <1>2, <1>3, BeamIsBuilt
<1>5. /\ IsSequence(beams) /\ IsSequence(blades) /\ Len(blades) = count
      /\ \A i \in 1 .. count : blades[i] = beams[i]
      /\ BeamsTo(n) /\ IsSequence(nodes) /\ BladesAtRoot /\ input.prior <= n
  BY <1>2 DEF Building, BeamsTo, SideBySide, BladesAre, NodesAreNodes
<1>6. count \in Nat /\ n \in Nat BY <1>5, Elements
<1> HIDE DEF ids
<1>7. /\ IsSequence(beams') /\ Len(beams') = count + 1
      /\ \A i \in 1 .. count : beams'[i] = beams[i]
      /\ beams'[count + 1] = ids
  BY <1>4, <1>5, Appended
<1>8. /\ IsSequence(blades') /\ Len(blades') = count + 1
      /\ \A i \in 1 .. count : blades'[i] = blades[i]
      /\ blades'[count + 1] = ids
  BY <1>1, <1>5, Appended
<1> HIDE DEF count, n
<1>9. \A i \in 1 .. count + 1 : i \in 1 .. count \/ i = count + 1 BY <1>6
<1>10. BladesAre(Len(beams))' BY <1>5, <1>7, <1>8, <1>9 DEF BladesAre
<1>11. BladesAtRoot'
  <2> SUFFICES ASSUME NEW i \in 1 .. Len(blades'), NEW id \in ToSet(blades'[i])
               PROVE  nodes'[id + 1].x0.moves = << <<"root">> >>
    BY DEF BladesAtRoot
  <2>1. CASE i \in 1 .. count
    <3>1. blades'[i] = blades[i] /\ blades[i] = beams[i] BY <1>5, <1>8, <2>1
    <3>2. i \in 1 .. Len(beams) /\ id \in ToSet(beams[i]) BY <2>1, <3>1 DEF count
    <3>3. id + 1 \in 1 .. n BY <1>3, <1>5, <1>6, <3>2, BeamIds
    <3>4. nodes'[id + 1] = nodes[id + 1] BY <1>4, <3>3 DEF n
    <3>5. nodes[id + 1].x0.moves = << <<"root">> >> BY <1>5, <2>1, <3>1 DEF BladesAtRoot
    <3>6. QED BY <3>4, <3>5
  <2>2. CASE i = count + 1 BY <1>4, <1>8, <2>2
  <2>3. QED BY <1>8, <1>9, <2>1, <2>2
<1>12. Building'
  <2>1. (input.prior <= Len(nodes))' BY <1>1, <1>3, <1>4, <1>5, <1>6 DEF n
  <2>2. QED BY <1>4, <1>11, <2>1 DEF Building
<1>13. Len(beams') = Len(blades') /\ Len(beams') <= input'.blades /\ Len(beams') \in Nat
  BY <1>1, <1>2, <1>3, <1>6, <1>7, <1>8 DEF count
<1>14. pc' = "blades" => Len(beams') < input'.blades BY <1>1, <1>3, <1>13
<1>15. pc' = "tower" => Len(beams') = input'.blades BY <1>1, <1>13
<1>16. ControlsAreSet' /\ (input \in Inputs)' BY <1>1, <1>2 DEF ControlsAreSet
<1>17. pc' = "tower" \/ pc' = "blades" BY <1>1
<1>18. QED BY <1>10, <1>12, <1>14, <1>15, <1>16, <1>17 DEF AssemblyInv, Phases

LEMMA CreateTowerKeeps ==
    ASSUME AssemblyAssumption, AssemblyInv, CreateTower
    PROVE  AssemblyInv'
<1> DEFINE ids == NewIds(nodes, input.towerOrder + 1)
           n == Len(nodes)
           count == input.blades
<1>1. /\ pc = "tower" /\ input.towerOrder >= 1
      /\ CreateBeam(0, input.towerOrder)
      /\ tower' = ids /\ blades' = blades /\ pc' = "validate"
      /\ input' = input /\ control' = control
  BY DEF CreateTower
<1>2. /\ input \in Inputs /\ ControlsAreSet /\ Building /\ BladesAre(count) /\ Len(beams) = count
  BY <1>1 DEF AssemblyInv
<1>3. input.prior \in Nat /\ input.towerOrder \in Nat /\ input.blades \in Nat BY <1>2, InputTypes
<1>4. /\ NodesAreNodes' /\ NothingTurns' /\ NothingMoved' /\ RootsOnly'
      /\ Len(nodes') = n + input.towerOrder + 1 /\ BeamsTo(Len(nodes))'
      /\ beams' = Append(beams, ids)
      /\ \A k \in 1 .. n : nodes'[k] = nodes[k]
  BY <1>1, <1>2, <1>3, BeamIsBuilt
<1>5. /\ IsSequence(beams) /\ IsSequence(blades) /\ Len(blades) = count
      /\ \A i \in 1 .. count : blades[i] = beams[i]
      /\ BeamsTo(n) /\ IsSequence(nodes) /\ BladesAtRoot /\ input.prior <= n
  BY <1>2 DEF Building, BeamsTo, SideBySide, BladesAre, NodesAreNodes
<1>6. count \in Nat /\ n \in Nat BY <1>2, <1>3, <1>5, Elements
<1> HIDE DEF ids
<1>7. /\ IsSequence(beams') /\ Len(beams') = count + 1
      /\ \A i \in 1 .. count : beams'[i] = beams[i]
      /\ beams'[count + 1] = ids
  BY <1>2, <1>4, <1>5, Appended
<1> HIDE DEF n
<1>8. BladesAre(input.blades)' BY <1>1, <1>5, <1>7 DEF BladesAre
<1>9. BladesAtRoot'
  <2> SUFFICES ASSUME NEW i \in 1 .. Len(blades), NEW id \in ToSet(blades[i])
               PROVE  nodes'[id + 1].x0.moves = << <<"root">> >>
    BY <1>1 DEF BladesAtRoot
  <2>1. i \in 1 .. Len(beams) /\ id \in ToSet(beams[i]) BY <1>2, <1>5
  <2>2. id + 1 \in 1 .. n BY <1>3, <1>5, <1>6, <2>1, BeamIds
  <2>3. nodes'[id + 1] = nodes[id + 1] BY <1>4, <2>2 DEF n
  <2>4. nodes[id + 1].x0.moves = << <<"root">> >> BY <1>5 DEF BladesAtRoot
  <2>5. QED BY <2>3, <2>4
<1>10. Building'
  <2>1. (input.prior <= Len(nodes))' BY <1>1, <1>3, <1>4, <1>5, <1>6 DEF n
  <2>2. QED BY <1>4, <1>9, <2>1 DEF Building
<1>11. (Len(beams) = input.blades + 1 /\ tower = beams[input.blades + 1])' BY <1>1, <1>7
<1>12. ControlsAreSet' /\ (input \in Inputs)' BY <1>1, <1>2 DEF ControlsAreSet
<1>13. QED BY <1>1, <1>8, <1>10, <1>11, <1>12 DEF AssemblyInv, Phases

LEMMA ValidateInputKeeps ==
    ASSUME AssemblyInv, ValidateInput
    PROVE  AssemblyInv'
<1>1. pc = "validate" /\ input' = input /\ control' = control BY DEF ValidateInput, Throw
<1>2. ControlsAreSet' /\ (input \in Inputs)' BY <1>1 DEF AssemblyInv, ControlsAreSet
<1>3. CASE pc' = "thrown" BY <1>2, <1>3 DEF AssemblyInv, Phases
<1>4. CASE pc' # "thrown"
  <2>1. /\ pc' = "position" /\ UNCHANGED <<nodes, beams, constraints, blades, tower>>
    BY <1>4 DEF ValidateInput, Throw, model
  <2>2. /\ Building /\ BladesAre(input.blades) /\ Len(beams) = input.blades + 1
        /\ tower = beams[input.blades + 1]
    BY <1>1 DEF AssemblyInv
  <2>3. Building' BY <1>1, <2>1, <2>2 DEF Building, NodesAreNodes, NothingTurns, NothingMoved,
                     RootsOnly, BeamsTo, BladesAtRoot
  <2>4. BladesAre(input.blades)' BY <1>1, <2>1, <2>2 DEF BladesAre
  <2>5. (Len(beams) = input.blades + 1 /\ tower = beams[input.blades + 1])' BY <1>1, <2>1, <2>2
  <2>6. QED BY <1>2, <2>1, <2>3, <2>4, <2>5 DEF AssemblyInv, Phases
<1>5. QED BY <1>3, <1>4

LEMMA RefuseBeamKeeps ==
    ASSUME AssemblyInv, RefuseBeam
    PROVE  AssemblyInv'
<1>1. pc' = "thrown" /\ input' = input /\ control' = control BY DEF RefuseBeam, Throw
<1>2. ControlsAreSet' /\ (input \in Inputs)' BY <1>1 DEF AssemblyInv, ControlsAreSet
<1>3. QED BY <1>1, <1>2 DEF AssemblyInv, Phases

-----------------------------------------------------------------------------
(* The tower is turned upright, and the nodes between the beams are created. *)

\* The names of the nodes between tower and blades, and where each is in the list.
Names == <<"hub", "azimuth", "shaft_base", "yaw_bearing">>
         \o (IF input.nacelleMass THEN <<"nacelle_cm">> ELSE <<>>)

LEMMA NamesAre ==
    ASSUME input.nacelleMass \in BOOLEAN
    PROVE  /\ Len(Names) = First /\ DOMAIN Names = 1 .. First
           /\ Names[1] = "hub" /\ Names[2] = "azimuth" /\ Names[3] = "shaft_base"
           /\ Names[4] = "yaw_bearing" /\ (input.nacelleMass => Names[5] = "nacelle_cm")
<1> DEFINE p == <<"hub", "azimuth", "shaft_base", "yaw_bearing">>
           q == IF input.nacelleMass THEN <<"nacelle_cm">> ELSE <<>>
           r == p \o q
<1>1. IsSequence(p) /\ Len(p) = 4 BY List4
<1>2. IsSequence(q) /\ Len(q) = IF input.nacelleMass THEN 1 ELSE 0
  <2>1. IsSequence(<<>>) /\ Len(<<>>) = 0 BY DEF IsSequence
  <2>2. QED BY <2>1, List1
<1>3. p[1] = "hub" /\ p[2] = "azimuth" /\ p[3] = "shaft_base" /\ p[4] = "yaw_bearing" OBVIOUS
<1>4. input.nacelleMass => q[1] = "nacelle_cm" OBVIOUS
<1>5. Names = r BY DEF Names
<1> HIDE DEF p, q
<1>6. /\ IsSequence(r) /\ Len(r) = Len(p) + Len(q)
      /\ \A k \in 1 .. Len(p) : r[k] = p[k]
      /\ \A k \in 1 .. Len(q) : r[Len(p) + k] = q[k]
  <2>1. IsSequence(p) /\ IsSequence(q) BY <1>1, <1>2
  <2>2. QED BY <2>1, Joined
<1> HIDE DEF r
<1>7. Len(r) = First /\ DOMAIN r = 1 .. First
  <2>1. Len(r) = 4 + Len(q) BY <1>1, <1>6
  <2>2. Len(r) = First BY <1>2, <2>1 DEF First
  <2>3. DOMAIN r = 1 .. Len(r) BY <1>6, Elements
  <2>4. QED BY <2>2, <2>3
<1>8. r[1] = p[1] /\ r[2] = p[2] /\ r[3] = p[3] /\ r[4] = p[4] BY <1>1, <1>6
<1>9. input.nacelleMass => r[4 + 1] = q[1] BY <1>1, <1>2, <1>6
<1>10. QED BY <1>3, <1>4, <1>5, <1>7, <1>8, <1>9

LEMMA PartsAre ==
    ASSUME input.nacelleMass \in BOOLEAN, NEW n \in Nat, NEW p,
           p = [name \in ToSet(Names) |->
                  n + (CHOOSE i \in DOMAIN Names : Names[i] = name) - 1]
    PROVE  /\ p["hub"] = n /\ p["azimuth"] = n + 1 /\ p["shaft_base"] = n + 2
           /\ p["yaw_bearing"] = n + 3 /\ (input.nacelleMass => p["nacelle_cm"] = n + 4)
<1> DEFINE Place(name) == CHOOSE i \in DOMAIN Names : Names[i] = name
<1>1. /\ DOMAIN Names = 1 .. First /\ First \in {4, 5} /\ (input.nacelleMass <=> First = 5)
      /\ Names[1] = "hub" /\ Names[2] = "azimuth" /\ Names[3] = "shaft_base"
      /\ Names[4] = "yaw_bearing" /\ (input.nacelleMass => Names[5] = "nacelle_cm")
  BY NamesAre DEF First
<1>2. \A i, j \in DOMAIN Names : Names[i] = Names[j] => i = j
  <2>1. \A i \in DOMAIN Names : i = 1 \/ i = 2 \/ i = 3 \/ i = 4 \/ (i = 5 /\ input.nacelleMass)
    BY <1>1
  <2>2. QED BY <1>1, <2>1
<1>3. ASSUME NEW j \in DOMAIN Names PROVE Names[j] \in ToSet(Names) /\ Place(Names[j]) = j
  <2>1. Place(Names[j]) \in DOMAIN Names /\ Names[Place(Names[j])] = Names[j] OBVIOUS
  <2> HIDE DEF Place
  <2>2. Place(Names[j]) = j BY <1>2, <2>1
  <2>3. QED BY <2>2 DEF ToSet
<1>4. \A name \in ToSet(Names) : p[name] = n + (Place(name) - 1) OBVIOUS
<1> HIDE DEF Place
<1>5. \A j \in DOMAIN Names : p[Names[j]] = n + (j - 1) BY <1>3, <1>4
<1>6. /\ 1 \in DOMAIN Names /\ 2 \in DOMAIN Names /\ 3 \in DOMAIN Names /\ 4 \in DOMAIN Names
      /\ (input.nacelleMass => 5 \in DOMAIN Names)
  BY <1>1
<1>7. p[Names[1]] = n /\ p[Names[2]] = n + 1 /\ p[Names[3]] = n + 2 /\ p[Names[4]] = n + 3
  <2>1. /\ p[Names[1]] = n + (1 - 1) /\ p[Names[2]] = n + (2 - 1)
        /\ p[Names[3]] = n + (3 - 1) /\ p[Names[4]] = n + (4 - 1)
    BY <1>5, <1>6, Zenon
  <2>2. QED BY <2>1
<1>8. input.nacelleMass => p[Names[5]] = n + 4
  <2>1. input.nacelleMass => p[Names[5]] = n + (5 - 1) BY <1>5, <1>6, Zenon
  <2>2. QED BY <2>1
<1>9. QED BY <1>1, <1>7, <1>8

BetweenPlaces(yaw, cm) ==
    [i \in 1 .. Len(Names) + input.blades |->
       IF i <= Len(Names)
       THEN [hub |-> At(<<"hub">>), azimuth |-> At(<<"shaft end">>),
             shaft_base |-> At(<<"shaft end">>), yaw_bearing |-> yaw,
             nacelle_cm |-> At(<<"cm offset from", cm>>)][Names[i]]
       ELSE At(<<"origin">>)]
IntermediateNodes(ns, yaw, cm) ==
    /\ nodes' = WithNodes(ns, BetweenPlaces(yaw, cm))
    /\ part' = [name \in ToSet(Names) |->
                  Len(ns) + (CHOOSE i \in DOMAIN Names : Names[i] = name) - 1]
    /\ apexes' = [i \in 1 .. input.blades |-> Len(ns) + Len(Names) + i - 1]

LEMMA NodesBetween ==
    ASSUME NEW ns, CreateIntermediateNodes(ns)
    PROVE  \E yaw \in {Node(ns, TowerTop).x0, Stray} : \E cm : IntermediateNodes(ns, yaw, cm)
<1>1. \E yaw \in Referenced(Node(ns, TowerTop), Len(ns), Len(ns) + 3) :
        \E cm \in IF input.nacelleMass
                  THEN Referenced(Node(ns, TowerTop), Len(ns), Len(ns) + 4) ELSE {Stray} :
          IntermediateNodes(ns, yaw, cm)
  BY Zenon DEF CreateIntermediateNodes, IntermediateNodes, BetweenPlaces, Names
<1>2. Referenced(Node(ns, TowerTop), Len(ns), Len(ns) + 3) \subseteq {Node(ns, TowerTop).x0, Stray}
  BY DEF Referenced
<1>3. QED BY <1>1, <1>2

LEMMA PlacesBetween ==
    ASSUME input.nacelleMass \in BOOLEAN, input.blades \in Nat, NEW yaw, IsPlace(yaw), NEW cm
    PROVE  /\ DOMAIN BetweenPlaces(yaw, cm) = 1 .. First + input.blades
           /\ \A i \in 1 .. First + input.blades : IsPlace(BetweenPlaces(yaw, cm)[i])
           /\ \A i \in First + 1 .. First + input.blades : BetweenPlaces(yaw, cm)[i].moves = <<>>
<1> DEFINE place == [hub |-> At(<<"hub">>), azimuth |-> At(<<"shaft end">>),
                     shaft_base |-> At(<<"shaft end">>), yaw_bearing |-> yaw,
                     nacelle_cm |-> At(<<"cm offset from", cm>>)]
           p == BetweenPlaces(yaw, cm)
<1>1. /\ Len(Names) = First /\ First \in {4, 5} /\ (input.nacelleMass <=> First = 5)
      /\ Names[1] = "hub" /\ Names[2] = "azimuth" /\ Names[3] = "shaft_base"
      /\ Names[4] = "yaw_bearing" /\ (input.nacelleMass => Names[5] = "nacelle_cm")
  BY NamesAre DEF First
<1>2. /\ DOMAIN p = 1 .. First + input.blades
      /\ \A i \in 1 .. First + input.blades :
           p[i] = IF i <= First THEN place[Names[i]] ELSE At(<<"origin">>)
  <2>1. p = [i \in 1 .. Len(Names) + input.blades |->
               IF i <= Len(Names) THEN place[Names[i]] ELSE At(<<"origin">>)]
    BY DEF BetweenPlaces
  <2> HIDE DEF place, p
  <2>2. QED BY <1>1, <2>1
<1>3. /\ place["hub"] = At(<<"hub">>) /\ place["azimuth"] = At(<<"shaft end">>)
      /\ place["shaft_base"] = At(<<"shaft end">>) /\ place["yaw_bearing"] = yaw
      /\ place["nacelle_cm"] = At(<<"cm offset from", cm>>)
  OBVIOUS
<1> HIDE DEF place, p
<1>7. /\ IsPlace(place["hub"]) /\ IsPlace(place["azimuth"]) /\ IsPlace(place["shaft_base"])
      /\ IsPlace(place["yaw_bearing"]) /\ IsPlace(place["nacelle_cm"])
  BY <1>3, PlaceAt, Zenon
<1>4. ASSUME NEW i \in 1 .. First + input.blades PROVE IsPlace(p[i])
  <2>1. CASE i <= First
    <3>1. i = 1 \/ i = 2 \/ i = 3 \/ i = 4 \/ (i = 5 /\ input.nacelleMass) BY <1>1, <2>1
    <3>2. IsPlace(place[Names[i]]) BY <1>1, <1>7, <3>1
    <3>3. QED BY <1>2, <2>1, <3>2
  <2>2. CASE ~ (i <= First)
    <3>1. p[i] = At(<<"origin">>) BY <1>2, <2>2
    <3>2. QED BY <3>1, PlaceAt
  <2>3. QED BY <2>1, <2>2
<1>5. ASSUME NEW i \in First + 1 .. First + input.blades PROVE p[i].moves = <<>>
  <2>1. i \in 1 .. First + input.blades /\ ~ (i <= First) BY <1>1
  <2>2. p[i] = At(<<"origin">>) BY <1>2, <2>1
  <2>3. QED BY <2>2, PlaceAt
<1>6. QED BY <1>2, <1>4, <1>5 DEF p

LEMMA PositionTowerKeeps ==
    ASSUME AssemblyAssumption, AssemblyInv, PositionTower
    PROVE  AssemblyInv'
<1> DEFINE n == Len(nodes)
           count == input.blades
           up == << <<"x to z">> >>
           ns == RotateBeamAboutPoint(nodes, tower, up)
<1>1. /\ pc = "position" /\ CreateIntermediateNodes(ns) /\ pc' = "rotor"
      /\ input' = input /\ beams' = beams /\ constraints' = constraints
      /\ blades' = blades /\ tower' = tower /\ control' = control
  BY Zenon DEF PositionTower
<1> HIDE DEF ns
<1>2. /\ input \in Inputs /\ ControlsAreSet /\ Building /\ BladesAre(count)
      /\ Len(beams) = count + 1 /\ tower = beams[count + 1]
  BY <1>1 DEF AssemblyInv
<1>3. /\ input.prior \in Nat /\ count \in Nat /\ count >= 1 /\ input.nacelleMass \in BOOLEAN
  BY <1>2, InputTypes
<1>4. /\ NodesAreNodes /\ NothingTurns /\ NothingMoved /\ RootsOnly /\ BladesAtRoot
      /\ input.prior <= n /\ BeamsTo(n) /\ IsSequence(nodes)
      /\ \A k \in 1 .. n : IsNode(nodes[k]) /\ nodes[k].u = <<>> /\ nodes[k].v = <<>>
  BY <1>2 DEF Building, NodesAreNodes, NothingTurns, NothingMoved
<1>5. n \in Nat /\ DOMAIN nodes = 1 .. n BY <1>4, Elements
<1> HIDE DEF n, count, up
<1>6. /\ IsSequence(tower) /\ IsInjective(tower) /\ 1 <= Len(tower) /\ Len(tower) \in Nat
      /\ ToSet(tower) \subseteq input.prior .. n - 1
      /\ \A j \in 1 .. Len(tower) : tower[j] \in ToSet(tower)
  <2>1. count + 1 \in 1 .. Len(beams) BY <1>2, <1>3
  <2>2. /\ IsSequence(tower) /\ IsInjective(tower) /\ 1 <= Len(tower)
        /\ ToSet(tower) \subseteq input.prior .. n - 1
    BY <1>2, <1>4, <2>1 DEF BeamsTo, SideBySide
  <2>3. QED BY <2>2, Elements DEF ToSet
<1>7. AreIds(tower, nodes)
  <2>1. \A j \in 1 .. Len(tower) : tower[j] \in Nat /\ tower[j] + 1 \in 1 .. n BY <1>3, <1>5, <1>6
  <2>2. QED BY <1>5, <1>6, <2>1 DEF AreIds
<1>8. ns = [k \in 1 .. n |-> IF k - 1 \in ToSet(tower)
                             THEN RotateAboutPoint(nodes[k], up) ELSE nodes[k]]
  BY <1>4, <1>7, RotatedNodes DEF ns, n
<1>9. IsSequence(ns) /\ Len(ns) = n
  <2>1. ns = [k \in 1 .. n |-> ns[k]] BY <1>8
  <2>2. QED BY <1>5, <2>1, SequenceOf
<1>10. ASSUME NEW k \in 1 .. n
       PROVE  /\ IsNode(ns[k]) /\ ns[k].u = <<>> /\ ns[k].v = <<>>
              /\ k - 1 \notin ToSet(tower) => ns[k] = nodes[k]
  <2>1. IsNode(nodes[k]) /\ nodes[k].u = <<>> /\ nodes[k].v = <<>> BY <1>4
  <2>2. CASE k - 1 \in ToSet(tower)
    <3>1. ns[k] = RotateAboutPoint(nodes[k], up) BY <1>8, <2>2
    <3>2. RotatedBy(nodes[k], up, ns[k]) BY <2>1, <3>1, RotatedNode
    <3>3. QED BY <2>1, <2>2, <3>2 DEF RotatedBy
  <2>3. CASE k - 1 \notin ToSet(tower)
    <3>1. ns[k] = nodes[k] BY <1>8, <2>3
    <3>2. QED BY <2>1, <3>1
  <2>4. QED BY <2>2, <2>3
<1>11. PICK yaw \in {Node(ns, TowerTop).x0, Stray} : \E cm : IntermediateNodes(ns, yaw, cm)
  BY <1>1, NodesBetween
<1>12. PICK cm : IntermediateNodes(ns, yaw, cm) BY <1>11
<1>13. IsPlace(yaw)
  <2>1. IsPlace(Stray) BY PlaceAt DEF Stray
  <2>2. tower[Len(tower)] + 1 \in 1 .. n BY <1>6, <1>5, <1>7 DEF AreIds
  <2>3. Node(ns, TowerTop) = ns[tower[Len(tower)] + 1] BY DEF Node, TowerTop, Last
  <2>4. IsPlace(Node(ns, TowerTop).x0) BY <1>10, <2>2, <2>3 DEF IsNode
  <2>5. QED BY <2>1, <2>4
<1> DEFINE places == BetweenPlaces(yaw, cm)
           m == First + count
<1>14. /\ DOMAIN places = 1 .. m /\ \A i \in 1 .. m : IsPlace(places[i])
       /\ \A i \in First + 1 .. m : places[i].moves = <<>>
  BY <1>3, <1>13, PlacesBetween DEF count
<1>15. Len(Names) = First /\ First \in {4, 5} BY <1>3, NamesAre DEF First
<1>16. /\ nodes' = WithNodes(ns, places)
       /\ part' = [name \in ToSet(Names) |->
                    n + (CHOOSE i \in DOMAIN Names : Names[i] = name) - 1]
       /\ apexes' = [i \in 1 .. count |-> n + First + i - 1]
  BY <1>9, <1>12, <1>15 DEF IntermediateNodes, count
<1> HIDE DEF places
<1>17. m \in Nat BY <1>3, <1>15
<1> HIDE DEF m
<1>18. /\ IsSequence(nodes') /\ Len(nodes') = n + m
       /\ \A k \in 1 .. n : nodes'[k] = ns[k]
       /\ \A k \in 1 .. m : nodes'[n + k] = Fresh(places[k])
  <2>1. IsSequence(ns) /\ DOMAIN places = 1 .. m BY <1>9, <1>14
  <2>2. /\ IsSequence(nodes') /\ Len(nodes') = Len(ns) + m
        /\ \A k \in 1 .. Len(ns) : nodes'[k] = ns[k]
        /\ \A k \in 1 .. m : nodes'[Len(ns) + k] = Fresh(places[k])
    BY <1>16, <1>17, <2>1, NewNodes
  <2>3. QED BY <1>9, <2>2
<1>19. /\ part'["hub"] = n /\ part'["azimuth"] = n + 1 /\ part'["shaft_base"] = n + 2
       /\ part'["yaw_bearing"] = n + 3 /\ (input.nacelleMass => part'["nacelle_cm"] = n + 4)
  BY <1>3, <1>5, <1>16, PartsAre
<1>20. /\ IsSequence(apexes') /\ Len(apexes') = count
       /\ \A i \in 1 .. count : apexes'[i] = n + First + i - 1
  <2>1. apexes' = [i \in 1 .. count |-> apexes'[i]] BY <1>16
  <2>2. QED BY <1>3, <1>16, <2>1, SequenceOf
<1>21. ASSUME NEW k \in 1 .. n + m
       PROVE  IsNode(nodes'[k]) /\ nodes'[k].u = <<>> /\ nodes'[k].v = <<>>
  <2>1. CASE k \in 1 .. n BY <1>10, <1>18, <2>1
  <2>2. CASE k \notin 1 .. n
    <3>1. k - n \in 1 .. m /\ k = n + (k - n) BY <1>5, <1>17, <2>2
    <3>2. nodes'[k] = Fresh(places[k - n]) /\ IsPlace(places[k - n]) BY <1>14, <1>18, <3>1
    <3>3. QED BY <3>2, FreshNode
  <2>3. QED BY <2>1, <2>2
<1>22. NodesAreNodes' /\ NothingTurns' /\ NothingMoved'
  BY <1>18, <1>21 DEF NodesAreNodes, NothingTurns, NothingMoved
<1>23. BetweenNodes'
  <2>1. First' = First /\ input' = input BY <1>1 DEF First
  <2>2. Len(nodes') = n + First + count BY <1>3, <1>5, <1>15, <1>18 DEF m
  <2>3. QED BY <1>1, <1>4, <1>5, <1>19, <1>20, <2>1, <2>2 DEF BetweenNodes, count
<1>24. BeamsTo(part["hub"])' BY <1>1, <1>4, <1>19 DEF BeamsTo
<1>25. BladesAre(input.blades)' BY <1>1, <1>2 DEF BladesAre, count
<1>26. Assembled' BY <1>1, <1>2, <1>22, <1>23, <1>24, <1>25 DEF Assembled, count
<1>27. BladesAtRoot'
  <2> SUFFICES ASSUME NEW i \in 1 .. Len(blades), NEW id \in ToSet(blades[i])
               PROVE  nodes'[id + 1].x0.moves = << <<"root">> >>
    BY <1>1 DEF BladesAtRoot
  <2>1. /\ i \in 1 .. count /\ i \in 1 .. Len(beams) /\ blades[i] = beams[i]
        /\ count + 1 \in 1 .. Len(beams) /\ i # count + 1
    BY <1>2, <1>3 DEF BladesAre
  <2>2. id \in Nat /\ id + 1 \in 1 .. n BY <1>3, <1>4, <1>5, <2>1, BeamIds
  <2>3. id \notin ToSet(tower) BY <1>2, <1>4, <2>1 DEF BeamsTo, SideBySide
  <2>4. (id + 1) - 1 = id BY <2>2
  <2>5. nodes'[id + 1] = nodes[id + 1] BY <1>10, <1>18, <2>2, <2>3, <2>4
  <2>6. QED BY <1>4, <2>5 DEF BladesAtRoot
<1>28. ApexesAtOrigin'
  <2> SUFFICES ASSUME NEW i \in 1 .. count
               PROVE  nodes'[apexes'[i] + 1].x0.moves = <<>>
    BY <1>1 DEF ApexesAtOrigin, count
  <2>1. apexes'[i] + 1 = n + (First + i) /\ First + i \in 1 .. m /\ First + i \in First + 1 .. m
    BY <1>3, <1>5, <1>15, <1>20 DEF m
  <2>2. nodes'[apexes'[i] + 1] = Fresh(places[First + i]) BY <1>18, <2>1
  <2>3. IsPlace(places[First + i]) /\ places[First + i].moves = <<>> BY <1>14, <2>1
  <2>4. Fresh(places[First + i]).x0 = places[First + i] BY <2>3, FreshNode
  <2>5. QED BY <2>2, <2>3, <2>4
<1>29. RootsOnly' BY <1>1, <1>4 DEF RootsOnly
<1>30. ControlsAreSet' /\ (input \in Inputs)' BY <1>1, <1>2 DEF ControlsAreSet
<1>31. QED BY <1>1, <1>22, <1>26, <1>27, <1>28, <1>29, <1>30 DEF AssemblyInv, Phases

-----------------------------------------------------------------------------
(* The lists of nodes: every node is in a list once.                         *)

LEMMA IdsOf ==
    ASSUME NEW ns, IsSequence(ns), NEW ids, IsSequence(ids), IsInjective(ids),
           ToSet(ids) \subseteq 0 .. Len(ns) - 1
    PROVE  AreIds(ids, ns)
<1>1. Len(ns) \in Nat /\ DOMAIN ns = 1 .. Len(ns) /\ DOMAIN ids = 1 .. Len(ids) BY Elements
<1>2. \A j \in 1 .. Len(ids) : ids[j] \in ToSet(ids) BY <1>1 DEF ToSet
<1>3. \A j \in 1 .. Len(ids) : ids[j] \in Nat /\ ids[j] + 1 \in 1 .. Len(ns) BY <1>1, <1>2
<1>4. QED BY <1>1, <1>3 DEF AreIds

LEMMA Set1 ==
    ASSUME NEW a
    PROVE  ToSet(<<a>>) = {a} /\ IsInjective(<<a>>)
<1> DEFINE s == <<a>>
<1>1. DOMAIN s = 1 .. 1 /\ s[1] = a BY List1, Elements
<1> HIDE DEF s
<1>2. QED BY <1>1 DEF ToSet, IsInjective, s

LEMMA Set2 ==
    ASSUME NEW a, NEW b
    PROVE  ToSet(<<a, b>>) = {a, b} /\ (a # b => IsInjective(<<a, b>>))
<1> DEFINE s == <<a, b>>
<1>1. DOMAIN s = 1 .. 2 /\ s[1] = a /\ s[2] = b BY List2, Elements
<1> HIDE DEF s
<1>2. \A k \in 1 .. 2 : k = 1 \/ k = 2 OBVIOUS
<1>3. QED BY <1>1, <1>2 DEF ToSet, IsInjective, s

LEMMA Set3 ==
    ASSUME NEW a, NEW b, NEW c
    PROVE  /\ ToSet(<<a, b, c>>) = {a, b, c}
           /\ (a # b /\ a # c /\ b # c => IsInjective(<<a, b, c>>))
<1> DEFINE s == <<a, b, c>>
<1>1. DOMAIN s = 1 .. 3 /\ s[1] = a /\ s[2] = b /\ s[3] = c BY List3, Elements
<1> HIDE DEF s
<1>2. \A k \in 1 .. 3 : k = 1 \/ k = 2 \/ k = 3 OBVIOUS
<1>3. QED BY <1>1, <1>2 DEF ToSet, IsInjective, s

LEMMA Set4 ==
    ASSUME NEW a, NEW b, NEW c, NEW d
    PROVE  /\ ToSet(<<a, b, c, d>>) = {a, b, c, d}
           /\ (a # b /\ a # c /\ a # d /\ b # c /\ b # d /\ c # d => IsInjective(<<a, b, c, d>>))
<1> DEFINE s == <<a, b, c, d>>
<1>1. DOMAIN s = 1 .. 4 /\ s[1] = a /\ s[2] = b /\ s[3] = c /\ s[4] = d BY List4, Elements
<1> HIDE DEF s
<1>2. \A k \in 1 .. 4 : k = 1 \/ k = 2 \/ k = 3 \/ k = 4 OBVIOUS
<1>3. ToSet(s) = {a, b, c, d} BY <1>1, <1>2 DEF ToSet
<1>4. a # b /\ a # c /\ a # d /\ b # c /\ b # d /\ c # d => IsInjective(s)
  BY <1>1, <1>2 DEF IsInjective
<1>5. QED BY <1>3, <1>4 DEF s

\* Where the parts of the turbine are among its nodes: the blades and the tower before
\* the hub, the apexes at the end.
LEMMA WhereNodesAre ==
    ASSUME AssemblyAssumption, input \in Inputs, Assembled
    PROVE  /\ part["hub"] \in Nat /\ input.prior \in Nat /\ input.prior <= part["hub"]
           /\ input.blades \in Nat /\ input.blades >= 1
           /\ First \in {4, 5} /\ (input.nacelleMass <=> First = 5)
           /\ IsSequence(nodes) /\ DOMAIN nodes = 1 .. Len(nodes)
           /\ Len(nodes) = part["hub"] + First + input.blades
           /\ IsSequence(blades) /\ Len(blades) = input.blades
           /\ DOMAIN blades = 1 .. input.blades
           /\ \A i \in 1 .. input.blades :
                /\ ToSet(blades[i]) \subseteq input.prior .. part["hub"] - 1
                /\ IsSequence(blades[i]) /\ IsInjective(blades[i]) /\ 1 <= Len(blades[i])
                /\ ToSet(blades[i]) \cap ToSet(tower) = {}
                /\ apexes[i] \in part["hub"] + First .. Len(nodes) - 1
           /\ \A i, j \in 1 .. input.blades : i # j =>
                ToSet(blades[i]) \cap ToSet(blades[j]) = {} /\ apexes[i] # apexes[j]
           /\ ToSet(tower) \subseteq input.prior .. part["hub"] - 1
           /\ IsSequence(tower) /\ IsInjective(tower) /\ 1 <= Len(tower)
           /\ BladeNodes \cup ToSet(tower) = input.prior .. part["hub"] - 1
           /\ Apexes = part["hub"] + First .. Len(nodes) - 1
<1> DEFINE h == part["hub"]
           count == input.blades
<1>1. input.prior \in Nat /\ count \in Nat /\ count >= 1 /\ First \in {4, 5}
      /\ (input.nacelleMass <=> First = 5)
  BY InputTypes DEF First
<1>2. /\ h \in Nat /\ input.prior <= h /\ Len(nodes) = h + First + count
      /\ \A i \in 1 .. count : apexes[i] = h + First + i - 1
      /\ IsSequence(nodes)
  BY DEF Assembled, BetweenNodes, NodesAreNodes
<1>3. /\ BeamsTo(h) /\ Len(beams) = count + 1 /\ tower = beams[count + 1]
      /\ IsSequence(blades) /\ Len(blades) = count /\ \A i \in 1 .. count : blades[i] = beams[i]
  BY DEF Assembled, BladesAre
<1> HIDE DEF h, count
<1>4. DOMAIN nodes = 1 .. Len(nodes) /\ DOMAIN blades = 1 .. count BY <1>2, <1>3, Elements
<1>5. /\ \A b \in 1 .. count + 1 :
           /\ IsSequence(beams[b]) /\ 1 <= Len(beams[b]) /\ IsInjective(beams[b])
           /\ ToSet(beams[b]) \subseteq input.prior .. h - 1
      /\ \A b, c \in 1 .. count + 1 : b # c => ToSet(beams[b]) \cap ToSet(beams[c]) = {}
      /\ \A id \in input.prior .. h - 1 : \E b \in 1 .. count + 1 : id \in ToSet(beams[b])
  BY <1>3 DEF BeamsTo, SideBySide
<1>6. /\ count + 1 \in 1 .. count + 1
      /\ \A i \in 1 .. count : i \in 1 .. count + 1 /\ i # count + 1
      /\ \A i \in 1 .. count + 1 : i \in 1 .. count \/ i = count + 1
  BY <1>1
<1>7. ASSUME NEW i \in 1 .. count
      PROVE  /\ ToSet(blades[i]) \subseteq input.prior .. h - 1
             /\ IsSequence(blades[i]) /\ IsInjective(blades[i]) /\ 1 <= Len(blades[i])
             /\ ToSet(blades[i]) \cap ToSet(tower) = {}
  BY <1>3, <1>5, <1>6
<1>8. ASSUME NEW i \in 1 .. count PROVE apexes[i] \in h + First .. Len(nodes) - 1
  BY <1>1, <1>2
<1>9. ASSUME NEW i \in 1 .. count, NEW j \in 1 .. count, i # j
      PROVE  ToSet(blades[i]) \cap ToSet(blades[j]) = {} /\ apexes[i] # apexes[j]
  <2>1. ToSet(blades[i]) \cap ToSet(blades[j]) = {} BY <1>3, <1>5, <1>6, <1>9
  <2>2. apexes[i] = h + First + i - 1 /\ apexes[j] = h + First + j - 1 BY <1>2
  <2>3. apexes[i] # apexes[j] BY <1>1, <1>2, <1>9, <2>2
  <2>4. QED BY <2>1, <2>3
<1>10. /\ ToSet(tower) \subseteq input.prior .. h - 1
       /\ IsSequence(tower) /\ IsInjective(tower) /\ 1 <= Len(tower)
  BY <1>3, <1>5, <1>6
<1>11. BladeNodes \cup ToSet(tower) = input.prior .. h - 1
  <2>1. BladeNodes \subseteq input.prior .. h - 1 BY <1>7 DEF BladeNodes, count
  <2>2. ASSUME NEW id \in input.prior .. h - 1 PROVE id \in BladeNodes \cup ToSet(tower)
    <3>1. PICK b \in 1 .. count + 1 : id \in ToSet(beams[b]) BY <1>5
    <3>2. CASE b \in 1 .. count BY <1>3, <3>1, <3>2 DEF BladeNodes, count
    <3>3. CASE b = count + 1 BY <1>3, <3>1, <3>3
    <3>4. QED BY <1>6, <3>2, <3>3
  <2>3. QED BY <1>10, <2>1, <2>2
<1>12. Apexes = h + First .. Len(nodes) - 1
  <2>1. Apexes \subseteq h + First .. Len(nodes) - 1 BY <1>8 DEF Apexes, count
  <2>2. ASSUME NEW id \in h + First .. Len(nodes) - 1 PROVE id \in Apexes
    <3>1. id - (h + First) + 1 \in 1 .. count /\ h + First + (id - (h + First) + 1) - 1 = id
      BY <1>1, <1>2
    <3>2. apexes[id - (h + First) + 1] = id BY <1>2, <3>1
    <3>3. QED BY <3>1, <3>2 DEF Apexes, count
  <2>3. QED BY <2>1, <2>2
<1>13. \A i \in 1 .. count :
         /\ ToSet(blades[i]) \subseteq input.prior .. h - 1
         /\ IsSequence(blades[i]) /\ IsInjective(blades[i]) /\ 1 <= Len(blades[i])
         /\ ToSet(blades[i]) \cap ToSet(tower) = {}
         /\ apexes[i] \in h + First .. Len(nodes) - 1
  BY <1>7, <1>8
<1>14. QED BY <1>1, <1>2, <1>3, <1>4, <1>9, <1>10, <1>11, <1>12, <1>13, Zenon DEF h, count

LEMMA BladesStandApart ==
    ASSUME AssemblyAssumption, input \in Inputs, Assembled
    PROVE  BladesApart
<1> DEFINE h == part["hub"]
           count == input.blades
<1>1. /\ h \in Nat /\ input.prior \in Nat /\ count \in Nat /\ First \in {4, 5}
      /\ IsSequence(nodes) /\ Len(nodes) = h + First + count
      /\ IsSequence(blades) /\ Len(blades) = count
      /\ \A i \in 1 .. count :
           /\ ToSet(blades[i]) \subseteq input.prior .. h - 1
           /\ IsSequence(blades[i]) /\ IsInjective(blades[i])
           /\ apexes[i] \in h + First .. Len(nodes) - 1
      /\ \A i, j \in 1 .. count : i # j =>
           ToSet(blades[i]) \cap ToSet(blades[j]) = {} /\ apexes[i] # apexes[j]
  BY WhereNodesAre
<1> HIDE DEF h, count
<1>2. /\ input.prior .. h - 1 \subseteq 0 .. Len(nodes) - 1
      /\ h + First .. Len(nodes) - 1 \subseteq 0 .. Len(nodes) - 1
      /\ (input.prior .. h - 1) \cap (h + First .. Len(nodes) - 1) = {}
  BY <1>1
<1>3. ASSUME NEW i \in 1 .. count
      PROVE  /\ AreIds(blades[i], nodes) /\ AreIds(WithApex(i), nodes)
             /\ ToSet(WithApex(i)) = ToSet(blades[i]) \cup {apexes[i]}
  <2> DEFINE b == blades[i]
             a == <<apexes[i]>>
             c == b \o a
  <2>1. IsSequence(b) /\ IsInjective(b) /\ ToSet(b) \subseteq input.prior .. h - 1 BY <1>1
  <2>2. IsSequence(a) /\ IsInjective(a) /\ ToSet(a) = {apexes[i]} BY List1, Set1
  <2>3. ToSet(b) \cap ToSet(a) = {} BY <1>1, <1>2, <2>1, <2>2
  <2>4. WithApex(i) = c BY DEF WithApex, Append
  <2> HIDE DEF b, a
  <2>5. IsSequence(c) BY <2>1, <2>2, Joined
  <2>6. ToSet(c) = ToSet(b) \cup ToSet(a) /\ IsInjective(c) BY <2>1, <2>2, <2>3, JoinedSets
  <2> HIDE DEF c
  <2>7. ToSet(b) \subseteq 0 .. Len(nodes) - 1 /\ ToSet(c) \subseteq 0 .. Len(nodes) - 1
    BY <1>1, <1>2, <2>1, <2>2, <2>6
  <2>8. AreIds(b, nodes) /\ AreIds(c, nodes) BY <1>1, <2>1, <2>5, <2>6, <2>7, IdsOf
  <2>9. QED BY <2>2, <2>4, <2>6, <2>8 DEF b
<1>4. ASSUME NEW i \in 1 .. count, NEW j \in 1 .. count, i # j
      PROVE  ToSet(WithApex(i)) \cap ToSet(WithApex(j)) = {}
  <2>1. /\ ToSet(blades[i]) \cap ToSet(blades[j]) = {} /\ apexes[i] # apexes[j]
        /\ apexes[i] \notin ToSet(blades[j]) /\ apexes[j] \notin ToSet(blades[i])
    BY <1>1, <1>2, <1>4
  <2>2. QED BY <1>3, <2>1
<1>5. QED BY <1>1, <1>3, <1>4, Zenon DEF BladesApart

LEMMA BladeIdsAre ==
    ASSUME AssemblyAssumption, input \in Inputs, Assembled
    PROVE  /\ IsSequence(BladeIds) /\ IsInjective(BladeIds)
           /\ ToSet(BladeIds) = BladeNodes \cup Apexes
<1> DEFINE q == [i \in DOMAIN blades |-> Append(blades[i], apexes[i])]
           count == input.blades
<1>1. BladesApart BY BladesStandApart
<1>2. /\ count \in Nat /\ DOMAIN blades = 1 .. count /\ Len(blades) = count
  BY WhereNodesAre
<1>3. /\ q = [i \in 1 .. count |-> q[i]] /\ DOMAIN q = 1 .. count
      /\ \A i \in 1 .. count : q[i] = WithApex(i)
  BY <1>2 DEF WithApex
<1>4. BladeIds = FlattenSeq(q) BY DEF BladeIds
<1> HIDE DEF q
<1>5. IsSequence(q) /\ Len(q) = count BY <1>2, <1>3, SequenceOf
<1>6. \A i \in 1 .. count : IsSequence(q[i]) /\ IsInjective(q[i])
  BY <1>1, <1>2, <1>3 DEF BladesApart, AreIds
<1>7. \A i, j \in 1 .. count : i # j => ToSet(q[i]) \cap ToSet(q[j]) = {}
  BY <1>1, <1>2, <1>3 DEF BladesApart
<1>8. PartsApart(q) BY <1>3, <1>6, <1>7 DEF PartsApart
<1>9. /\ IsSequence(BladeIds) /\ IsInjective(BladeIds)
      /\ ToSet(BladeIds) = UNION {ToSet(q[i]) : i \in 1 .. count}
  BY <1>4, <1>5, <1>6, <1>8, FlattenedEntries DEF EntriesOf
<1>10. \A i \in 1 .. count : ToSet(q[i]) = ToSet(blades[i]) \cup {apexes[i]}
  BY <1>1, <1>2, <1>3, WithApexSet
<1>11. UNION {ToSet(q[i]) : i \in 1 .. count} = BladeNodes \cup Apexes
  BY <1>10 DEF BladeNodes, Apexes, count
<1>12. QED BY <1>9, <1>11

\* The lists the constructor goes through.
LEMMA ListsAre ==
    ASSUME AssemblyAssumption, input \in Inputs, Assembled
    PROVE  /\ AreIds(RotorIds, nodes) /\ ToSet(RotorIds) = Spinning \cup {part["shaft_base"]}
           /\ AreIds(SpinningIds, nodes) /\ ToSet(SpinningIds) = Spinning
           /\ AreIds(NacelleNodeIds, nodes)
           /\ ToSet(NacelleNodeIds) = BladeNodes \cup (part["hub"] .. Len(nodes) - 1)
           /\ AreIds(AllTurbineIds, nodes) /\ ToSet(AllTurbineIds) = input.prior .. Len(nodes) - 1
<1> DEFINE h == part["hub"]
           count == input.blades
           N == Len(nodes)
<1>1. /\ h \in Nat /\ input.prior \in Nat /\ input.prior <= h /\ count \in Nat
      /\ First \in {4, 5} /\ (input.nacelleMass <=> First = 5)
      /\ IsSequence(nodes) /\ N = h + First + count
      /\ BladeNodes \cup ToSet(tower) = input.prior .. h - 1
      /\ Apexes = h + First .. N - 1
      /\ ToSet(tower) \subseteq input.prior .. h - 1
      /\ IsSequence(tower) /\ IsInjective(tower)
  BY WhereNodesAre
<1>2. BladeNodes \cap ToSet(tower) = {} BY WhereNodesAre DEF BladeNodes
<1>3. /\ part["azimuth"] = h + 1 /\ part["shaft_base"] = h + 2 /\ part["yaw_bearing"] = h + 3
      /\ input.nacelleMass => part["nacelle_cm"] = h + 4
  BY DEF Assembled, BetweenNodes
<1>4. /\ IsSequence(BladeIds) /\ IsInjective(BladeIds) /\ ToSet(BladeIds) = BladeNodes \cup Apexes
  BY BladeIdsAre
<1> HIDE DEF h, count, N
<1>5. N \in Nat /\ BladeNodes \subseteq input.prior .. h - 1 BY <1>1
<1>14. h \in Nat /\ part["hub"] = h BY <1>1 DEF h
<1>6. /\ AreIds(RotorIds, nodes) /\ ToSet(RotorIds) = {h, h + 1, h + 2} \cup (BladeNodes \cup Apexes)
  <2> DEFINE a == <<part["hub"], part["azimuth"], part["shaft_base"]>>
             b == BladeIds
             c == a \o b
  <2>0. /\ {part["hub"], part["azimuth"], part["shaft_base"]} = {h, h + 1, h + 2}
        /\ part["hub"] # part["azimuth"] /\ part["hub"] # part["shaft_base"]
        /\ part["azimuth"] # part["shaft_base"]
    BY <1>3, <1>14
  <2>1. ToSet(a) = {h, h + 1, h + 2} /\ IsInjective(a) /\ IsSequence(a)
    <3>1. IsSequence(a) BY List3
    <3>2. ToSet(a) = {part["hub"], part["azimuth"], part["shaft_base"]} /\ IsInjective(a)
      BY <2>0, Set3, Zenon
    <3> HIDE DEF a
    <3>3. QED BY <2>0, <3>1, <3>2
  <2>2. c = RotorIds BY DEF RotorIds
  <2> HIDE DEF a, b
  <2>3. IsSequence(b) /\ IsInjective(b) /\ ToSet(b) = BladeNodes \cup Apexes BY <1>4 DEF b
  <2>4. ToSet(a) \cap ToSet(b) = {} BY <1>1, <1>5, <2>1, <2>3
  <2>5. IsSequence(c) BY <2>1, <2>3, Joined
  <2>6. ToSet(c) = ToSet(a) \cup ToSet(b) /\ IsInjective(c) BY <2>1, <2>3, <2>4, JoinedSets
  <2> HIDE DEF c
  <2>7. ToSet(c) \subseteq 0 .. N - 1 BY <1>1, <1>5, <2>1, <2>3, <2>6
  <2>8. AreIds(c, nodes) BY <1>1, <2>5, <2>6, <2>7, IdsOf DEF N
  <2>9. QED BY <2>1, <2>2, <2>3, <2>6, <2>8
<1>7. /\ AreIds(SpinningIds, nodes) /\ ToSet(SpinningIds) = {h, h + 1} \cup (BladeNodes \cup Apexes)
  <2> DEFINE a == <<part["hub"], part["azimuth"]>>
             b == BladeIds
             c == a \o b
  <2>0. /\ {part["hub"], part["azimuth"]} = {h, h + 1}
        /\ part["hub"] # part["azimuth"]
    BY <1>3, <1>14
  <2>1. ToSet(a) = {h, h + 1} /\ IsInjective(a) /\ IsSequence(a)
    <3>1. IsSequence(a) BY List2
    <3>2. ToSet(a) = {part["hub"], part["azimuth"]} /\ IsInjective(a)
      BY <2>0, Set2, Zenon
    <3> HIDE DEF a
    <3>3. QED BY <2>0, <3>1, <3>2
  <2>2. c = SpinningIds BY DEF SpinningIds
  <2> HIDE DEF a, b
  <2>3. IsSequence(b) /\ IsInjective(b) /\ ToSet(b) = BladeNodes \cup Apexes BY <1>4 DEF b
  <2>4. ToSet(a) \cap ToSet(b) = {} BY <1>1, <1>5, <2>1, <2>3
  <2>5. IsSequence(c) BY <2>1, <2>3, Joined
  <2>6. ToSet(c) = ToSet(a) \cup ToSet(b) /\ IsInjective(c) BY <2>1, <2>3, <2>4, JoinedSets
  <2> HIDE DEF c
  <2>7. ToSet(c) \subseteq 0 .. N - 1 BY <1>1, <1>5, <2>1, <2>3, <2>6
  <2>8. AreIds(c, nodes) BY <1>1, <2>5, <2>6, <2>7, IdsOf DEF N
  <2>9. QED BY <2>1, <2>2, <2>3, <2>6, <2>8
<1>8. /\ IsSequence(DrivetrainIds) /\ IsInjective(DrivetrainIds)
      /\ ToSet(DrivetrainIds) = h .. h + First - 1
  <2> DEFINE a == <<part["yaw_bearing"], part["shaft_base"], part["azimuth"], part["hub"]>>
             b == NacelleIds
             c == a \o b
  <2>0. /\ {part["yaw_bearing"], part["shaft_base"], part["azimuth"], part["hub"]} = {h + 3, h + 2, h + 1, h}
        /\ part["yaw_bearing"] # part["shaft_base"] /\ part["yaw_bearing"] # part["azimuth"]
        /\ part["yaw_bearing"] # part["hub"] /\ part["shaft_base"] # part["azimuth"]
        /\ part["shaft_base"] # part["hub"] /\ part["azimuth"] # part["hub"]
    BY <1>3, <1>14
  <2>1. ToSet(a) = {h + 3, h + 2, h + 1, h} /\ IsInjective(a) /\ IsSequence(a)
    <3>1. IsSequence(a) BY List4
    <3>2. ToSet(a) = {part["yaw_bearing"], part["shaft_base"], part["azimuth"], part["hub"]} BY Set4
    <3>3. IsInjective(a) BY <2>0, Set4
    <3> HIDE DEF a
    <3>4. QED BY <2>0, <3>1, <3>2, <3>3
  <2>2. c = DrivetrainIds BY DEF DrivetrainIds
  <2>3. /\ IsSequence(b) /\ IsInjective(b)
        /\ ToSet(b) = IF input.nacelleMass THEN {h + 4} ELSE {}
    <3>1. CASE input.nacelleMass
      <4>1. b = <<part["nacelle_cm"]>> BY <3>1 DEF NacelleIds
      <4> HIDE DEF b
      <4>2. QED BY <1>3, <3>1, <4>1, List1, Set1
    <3>2. CASE ~ input.nacelleMass
      <4>1. b = <<>> BY <3>2 DEF NacelleIds
      <4> HIDE DEF b
      <4>2. IsSequence(b) /\ DOMAIN b = {} BY <4>1 DEF IsSequence
      <4>3. QED BY <3>2, <4>2 DEF ToSet, IsInjective
    <3>3. QED BY <3>1, <3>2
  <2> HIDE DEF a, b
  <2>4. ToSet(a) \cap ToSet(b) = {} BY <1>1, <2>1, <2>3
  <2>5. IsSequence(c) BY <2>1, <2>3, Joined
  <2>6. ToSet(c) = ToSet(a) \cup ToSet(b) /\ IsInjective(c) BY <2>1, <2>3, <2>4, JoinedSets
  <2> HIDE DEF c
  <2>7. CASE input.nacelleMass
    <3>1. ToSet(c) = {h + 3, h + 2, h + 1, h, h + 4} BY <2>1, <2>3, <2>6, <2>7
    <3>2. h .. h + First - 1 = {h + 3, h + 2, h + 1, h, h + 4} BY <1>1, <2>7
    <3>3. QED BY <2>2, <2>5, <2>6, <3>1, <3>2
  <2>8. CASE ~ input.nacelleMass
    <3>1. ToSet(c) = {h + 3, h + 2, h + 1, h} BY <2>1, <2>3, <2>6, <2>8
    <3>2. h .. h + First - 1 = {h + 3, h + 2, h + 1, h} BY <1>1, <2>8
    <3>3. QED BY <2>2, <2>5, <2>6, <3>1, <3>2
  <2>9. QED BY <2>7, <2>8
<1>9. /\ AreIds(NacelleNodeIds, nodes) /\ ToSet(NacelleNodeIds) = BladeNodes \cup (h .. N - 1)
  <2> DEFINE a == DrivetrainIds
             b == BladeIds
             c == a \o b
  <2>1. c = NacelleNodeIds BY DEF NacelleNodeIds
  <2> HIDE DEF a, b
  <2>2. IsSequence(a) /\ IsInjective(a) /\ ToSet(a) = h .. h + First - 1 BY <1>8 DEF a
  <2>3. IsSequence(b) /\ IsInjective(b) /\ ToSet(b) = BladeNodes \cup Apexes BY <1>4 DEF b
  <2>4. ToSet(a) \cap ToSet(b) = {} BY <1>1, <1>5, <2>2, <2>3
  <2>5. IsSequence(c) BY <2>2, <2>3, Joined
  <2>6. ToSet(c) = ToSet(a) \cup ToSet(b) /\ IsInjective(c) BY <2>2, <2>3, <2>4, JoinedSets
  <2> HIDE DEF c
  <2>7. (h .. h + First - 1) \cup (h + First .. N - 1) = h .. N - 1 BY <1>1
  <2>8. ToSet(c) = BladeNodes \cup (h .. N - 1) BY <1>1, <2>2, <2>3, <2>6, <2>7
  <2>9. ToSet(c) \subseteq 0 .. N - 1 BY <1>1, <1>5, <2>8
  <2>10. AreIds(c, nodes) BY <1>1, <2>5, <2>6, <2>9, IdsOf DEF N
  <2>11. QED BY <2>1, <2>8, <2>10
<1>10. /\ AreIds(AllTurbineIds, nodes) /\ ToSet(AllTurbineIds) = input.prior .. N - 1
  <2> DEFINE a == tower
             b == NacelleNodeIds
             c == a \o b
  <2>1. c = AllTurbineIds BY DEF AllTurbineIds
  <2> HIDE DEF a, b
  <2>2. IsSequence(a) /\ IsInjective(a) /\ ToSet(a) = ToSet(tower) BY <1>1 DEF a
  <2>3. IsSequence(b) /\ IsInjective(b) /\ ToSet(b) = BladeNodes \cup (h .. N - 1)
    BY <1>9 DEF b, AreIds
  <2>4. ToSet(a) \cap ToSet(b) = {} BY <1>1, <1>2, <2>2, <2>3
  <2>5. IsSequence(c) BY <2>2, <2>3, Joined
  <2>6. ToSet(c) = ToSet(a) \cup ToSet(b) /\ IsInjective(c) BY <2>2, <2>3, <2>4, JoinedSets
  <2> HIDE DEF c
  <2>7. (input.prior .. h - 1) \cup (h .. N - 1) = input.prior .. N - 1 BY <1>1
  <2>8. ToSet(c) = input.prior .. N - 1 BY <1>1, <2>2, <2>3, <2>6, <2>7
  <2>9. ToSet(c) \subseteq 0 .. N - 1 BY <1>1, <2>8
  <2>10. AreIds(c, nodes) BY <1>1, <2>5, <2>6, <2>9, IdsOf DEF N
  <2>11. QED BY <2>1, <2>8, <2>10
<1>11. Spinning = {h, h + 1} \cup (BladeNodes \cup Apexes) BY <1>3 DEF Spinning, h
<1>12. ToSet(RotorIds) = Spinning \cup {part["shaft_base"]} BY <1>3, <1>6, <1>11
<1>13. QED BY <1>6, <1>7, <1>9, <1>10, <1>11, <1>12 DEF h, N

-----------------------------------------------------------------------------
(* The rotor is placed.                                                      *)

LEMMA AssembledStays ==
    ASSUME Assembled, NodesAreNodes', Len(nodes') = Len(nodes),
           UNCHANGED <<input, beams, blades, tower, part, apexes>>
    PROVE  Assembled'
<1>1. First' = First /\ UNCHANGED input /\ UNCHANGED part /\ UNCHANGED apexes BY DEF First
<1>2. BetweenNodes' BY <1>1 DEF Assembled, BetweenNodes
<1>3. (BeamsTo(part["hub"]) /\ Len(beams) = input.blades + 1)' BY DEF Assembled, BeamsTo
<1>4. (BladesAre(input.blades) /\ tower = beams[input.blades + 1])' BY DEF Assembled, BladesAre
<1>5. QED BY <1>2, <1>3, <1>4 DEF Assembled

PositionedBy(i, k, s) ==
    /\ IsNode(s) /\ s.u = nodes[k].u /\ s.v = nodes[k].v
    /\ s.x0.moves = IF k - 1 \in ToSet(blades[i])
                    THEN (nodes[k].x0.moves \o Upright) \o ToCone(i)
                    ELSE nodes[k].x0.moves \o ToCone(i)

LEMMA PositionOfIs ==
    ASSUME NEW i, NEW k, IsNode(nodes[k]), NEW s, s = PositionOf(i, k)
    PROVE  PositionedBy(i, k, s)
<1> DEFINE m == nodes[k]
           r == RotateAboutPoint(m, Upright)
<1>1. IsNode(m) OBVIOUS
<1>2. CASE k - 1 \in ToSet(blades[i])
  <2>1. s = RotateAboutPoint(r, ToCone(i)) BY <1>2 DEF PositionOf
  <2>2. RotatedBy(m, Upright, r) BY <1>1, RotatedNode
  <2> HIDE DEF m, r
  <2>3. IsNode(r) BY <2>2 DEF RotatedBy
  <2>4. RotatedBy(r, ToCone(i), s) BY <2>1, <2>3, RotatedNode
  <2>5. /\ IsNode(s) /\ s.u = m.u /\ s.v = m.v
        /\ s.x0.moves = (m.x0.moves \o Upright) \o ToCone(i)
    BY <2>2, <2>4 DEF RotatedBy
  <2>6. QED BY <1>2, <2>5 DEF PositionedBy, m
<1>3. CASE k - 1 \notin ToSet(blades[i])
  <2>1. s = RotateAboutPoint(m, ToCone(i)) BY <1>3 DEF PositionOf
  <2> HIDE DEF m, r
  <2>2. RotatedBy(m, ToCone(i), s) BY <1>1, <2>1, RotatedNode
  <2>3. IsNode(s) /\ s.u = m.u /\ s.v = m.v /\ s.x0.moves = m.x0.moves \o ToCone(i)
    BY <2>2 DEF RotatedBy
  <2>4. QED BY <1>3, <2>3 DEF PositionedBy, m
<1>4. QED BY <1>2, <1>3

ToApex == << <<"tilt">>, <<"to apex">> >>

LEMMA MovesOfRotor ==
    ASSUME NEW i
    PROVE  /\ ((<< <<"root">> >> \o Upright) \o ToCone(i)) \o ToApex = OnBlade(i)
           /\ (<<>> \o ToCone(i)) \o ToApex = OnRotor(i)
<1> DEFINE r == <<"root">>
           x == <<"x to z">>
           h == <<"hub radius">>
           c == <<"cone">>
           z == <<"azimuth", i>>
           t == <<"tilt">>
           p == <<"to apex">>
<1>1. /\ << <<"root">> >> = <<r>> /\ Upright = <<x, h>> /\ ToCone(i) = <<c, z>> /\ ToApex = <<t, p>>
      /\ OnBlade(i) = <<r, x, h, c, z, t, p>> /\ OnRotor(i) = <<c, z, t, p>>
  BY DEF Upright, ToCone, ToApex, OnBlade, OnRotor
<1> HIDE DEF r, x, h, c, z, t, p
<1>2. <<r>> \o <<x, h>> = <<r, x, h>> BY Join12
<1>3. <<r, x, h>> \o <<c, z>> = <<r, x, h, c, z>> BY Join32
<1>4. <<r, x, h, c, z>> \o <<t, p>> = <<r, x, h, c, z, t, p>> BY Join52
<1>5. <<>> \o <<c, z>> = <<c, z>> BY List2, JoinNone
<1>6. <<c, z>> \o <<t, p>> = <<c, z, t, p>> BY Join22
<1>7. ((<<r>> \o <<x, h>>) \o <<c, z>>) \o <<t, p>> = <<r, x, h, c, z, t, p>>
  BY <1>2, <1>3, <1>4, Zenon
<1>8. (<<>> \o <<c, z>>) \o <<t, p>> = <<c, z, t, p>> BY <1>5, <1>6, Zenon
<1>9. QED BY <1>1, <1>7, <1>8, Zenon

LEMMA PositionRotorKeeps ==
    ASSUME AssemblyAssumption, AssemblyInv, PositionRotor
    PROVE  AssemblyInv'
<1> DEFINE n == Len(nodes)
           count == input.blades
<1>1. /\ pc = "rotor" /\ nodes' = RotateBeamAboutPoint(Positioned, RotorIds, ToApex)
      /\ pc' = "masses"
      /\ UNCHANGED <<input, beams, blades, tower, part, apexes>>
      /\ constraints' = constraints /\ control' = control
  BY Zenon DEF PositionRotor, Positioned, ToApex
<1>2. /\ input \in Inputs /\ ControlsAreSet /\ Assembled /\ NothingTurns /\ NothingMoved
      /\ RootsOnly /\ BladesAtRoot /\ ApexesAtOrigin
  BY <1>1 DEF AssemblyInv
<1>3. BladesApart /\ AreIds(RotorIds, nodes) /\ ToSet(RotorIds) = Spinning \cup {part["shaft_base"]}
  BY <1>2, BladesStandApart, ListsAre
<1>4. /\ IsSequence(Positioned) /\ Len(Positioned) = n
      /\ \A k \in 1 .. n :
           /\ \A i \in 1 .. Len(blades) : k - 1 \in ToSet(WithApex(i)) => Positioned[k] = PositionOf(i, k)
           /\ (\A i \in 1 .. Len(blades) : k - 1 \notin ToSet(WithApex(i))) => Positioned[k] = nodes[k]
  BY <1>3, PositionedNodes
<1>5. /\ \A k \in 1 .. n : IsNode(nodes[k]) /\ nodes[k].u = <<>> /\ nodes[k].v = <<>>
      /\ IsSequence(nodes)
  BY <1>2 DEF Assembled, NodesAreNodes, NothingTurns, NothingMoved
<1>6. /\ count \in Nat /\ Len(blades) = count /\ n \in Nat /\ DOMAIN nodes = 1 .. n
  BY <1>2, <1>5, WhereNodesAre, Elements
<1> HIDE DEF n, count
<1>7. AreIds(RotorIds, Positioned)
  <2>1. DOMAIN Positioned = DOMAIN nodes BY <1>4, <1>6, Elements
  <2>2. QED BY <1>3, <2>1 DEF AreIds
<1>8. nodes' = [k \in 1 .. n |-> IF k - 1 \in ToSet(RotorIds)
                                THEN RotateAboutPoint(Positioned[k], ToApex) ELSE Positioned[k]]
  BY <1>1, <1>4, <1>7, RotatedNodes
<1>9. IsSequence(nodes') /\ Len(nodes') = n
  <2>1. nodes' = [k \in 1 .. n |-> nodes'[k]] BY <1>8
  <2>2. QED BY <1>6, <2>1, SequenceOf
<1>10. ASSUME NEW k \in 1 .. n
       PROVE  IsNode(Positioned[k]) /\ Positioned[k].u = <<>> /\ Positioned[k].v = <<>>
  <2>1. CASE \E i \in 1 .. Len(blades) : k - 1 \in ToSet(WithApex(i))
    <3>1. PICK i \in 1 .. Len(blades) : k - 1 \in ToSet(WithApex(i)) BY <2>1
    <3>2. Positioned[k] = PositionOf(i, k) BY <1>4, <3>1
    <3>3. PositionedBy(i, k, Positioned[k]) BY <1>5, <3>2, PositionOfIs
    <3>4. QED BY <1>5, <3>3 DEF PositionedBy
  <2>2. CASE \A i \in 1 .. Len(blades) : k - 1 \notin ToSet(WithApex(i))
    <3>1. Positioned[k] = nodes[k] BY <1>4, <2>2
    <3>2. QED BY <1>5, <3>1
  <2>3. QED BY <2>1, <2>2
<1>11. ASSUME NEW k \in 1 .. n
       PROVE  /\ IsNode(nodes'[k]) /\ nodes'[k].u = <<>> /\ nodes'[k].v = <<>>
              /\ k - 1 \in ToSet(RotorIds) =>
                   nodes'[k].x0.moves = Positioned[k].x0.moves \o ToApex
  <2>1. IsNode(Positioned[k]) /\ Positioned[k].u = <<>> /\ Positioned[k].v = <<>> BY <1>10
  <2>2. CASE k - 1 \in ToSet(RotorIds)
    <3>1. nodes'[k] = RotateAboutPoint(Positioned[k], ToApex) BY <1>8, <2>2
    <3>2. RotatedBy(Positioned[k], ToApex, nodes'[k]) BY <2>1, <3>1, RotatedNode
    <3>3. QED BY <2>1, <3>2 DEF RotatedBy
  <2>3. CASE k - 1 \notin ToSet(RotorIds)
    <3>1. nodes'[k] = Positioned[k] BY <1>8, <2>3
    <3>2. QED BY <2>1, <2>3, <3>1
  <2>4. QED BY <2>2, <2>3
<1>12. NodesAreNodes' /\ NothingTurns' /\ NothingMoved'
  BY <1>9, <1>11 DEF NodesAreNodes, NothingTurns, NothingMoved
<1>13. Assembled' BY <1>1, <1>2, <1>9, <1>12, AssembledStays DEF n
<1>14. ASSUME NEW i \in 1 .. count, NEW id \in ToSet(WithApex(i))
       PROVE  /\ id + 1 \in 1 .. n /\ (id + 1) - 1 = id
              /\ PositionedBy(i, id + 1, Positioned[id + 1])
  <2>1. /\ AreIds(WithApex(i), nodes) /\ IsSequence(WithApex(i))
    BY <1>3, <1>6 DEF BladesApart, AreIds
  <2>2. DOMAIN WithApex(i) = 1 .. Len(WithApex(i)) BY <2>1, Elements
  <2>3. PICK j \in 1 .. Len(WithApex(i)) : id = WithApex(i)[j] BY <2>2 DEF ToSet
  <2>4. id \in Nat /\ id + 1 \in 1 .. n BY <1>6, <2>1, <2>3 DEF AreIds
  <2>5. (id + 1) - 1 = id BY <2>4
  <2>6. Positioned[id + 1] = PositionOf(i, id + 1) BY <1>4, <1>6, <2>4, <2>5
  <2>7. IsNode(nodes[id + 1]) BY <1>5, <2>4
  <2>8. PositionedBy(i, id + 1, Positioned[id + 1]) BY <2>6, <2>7, PositionOfIs
  <2>9. QED BY <2>4, <2>5, <2>8
<1>15. ASSUME NEW i \in 1 .. count
       PROVE  ToSet(WithApex(i)) = ToSet(blades[i]) \cup {apexes[i]}
  BY <1>3, <1>6, WithApexSet
<1>16. ASSUME NEW i \in 1 .. count, NEW id \in ToSet(blades[i])
       PROVE  nodes'[id + 1].x0.moves = OnBlade(i)
  <2>1. id \in ToSet(WithApex(i)) BY <1>15
  <2>2. /\ id + 1 \in 1 .. n /\ (id + 1) - 1 = id
        /\ PositionedBy(i, id + 1, Positioned[id + 1])
    BY <1>14, <2>1
  <2>3. nodes[id + 1].x0.moves = << <<"root">> >> BY <1>2, <1>6 DEF BladesAtRoot
  <2>4. Positioned[id + 1].x0.moves = (<< <<"root">> >> \o Upright) \o ToCone(i)
    BY <2>2, <2>3 DEF PositionedBy
  <2>5. id \in ToSet(RotorIds) BY <1>3 DEF Spinning, BladeNodes, count
  <2>6. nodes'[id + 1].x0.moves = Positioned[id + 1].x0.moves \o ToApex BY <1>11, <2>2, <2>5
  <2>7. QED BY <2>4, <2>6, MovesOfRotor
<1>17. ASSUME NEW i \in 1 .. count
       PROVE  nodes'[apexes[i] + 1].x0.moves = OnRotor(i)
  <2> DEFINE id == apexes[i]
  <2>1. id \in ToSet(WithApex(i)) BY <1>15
  <2>2. id \notin ToSet(blades[i])
    <3>1. /\ part["hub"] \in Nat /\ First \in {4, 5}
          /\ ToSet(blades[i]) \subseteq input.prior .. part["hub"] - 1
          /\ id \in part["hub"] + First .. Len(nodes) - 1
          /\ input.prior \in Nat /\ Len(nodes) \in Nat
      BY <1>2, <1>6, WhereNodesAre DEF count, n
    <3> DEFINE h == part["hub"]
               a == input.prior
               m == Len(nodes)
    <3>2. /\ h \in Nat /\ First \in {4, 5} /\ a \in Nat /\ m \in Nat
          /\ ToSet(blades[i]) \subseteq a .. h - 1 /\ id \in h + First .. m - 1
      BY <3>1
    <3> HIDE DEF id, h, a, m
    <3>3. (a .. h - 1) \cap (h + First .. m - 1) = {} BY <3>2
    <3>4. QED BY <3>2, <3>3
  <2>3. nodes[id + 1].x0.moves = <<>> BY <1>2 DEF ApexesAtOrigin, count
  <2>4. id \in ToSet(RotorIds) BY <1>3 DEF Spinning, Apexes, count
  <2> HIDE DEF id
  <2>5. /\ id + 1 \in 1 .. n /\ (id + 1) - 1 = id
        /\ PositionedBy(i, id + 1, Positioned[id + 1])
    BY <1>14, <2>1
  <2>6. Positioned[id + 1].x0.moves = <<>> \o ToCone(i) BY <2>2, <2>3, <2>5 DEF PositionedBy
  <2>7. nodes'[id + 1].x0.moves = Positioned[id + 1].x0.moves \o ToApex BY <1>11, <2>4, <2>5
  <2>8. nodes'[id + 1].x0.moves = OnRotor(i) BY <2>6, <2>7, MovesOfRotor
  <2>9. QED BY <2>8 DEF id
<1>18. Placed'
  <2>1. /\ UNCHANGED input /\ UNCHANGED blades /\ UNCHANGED apexes BY <1>1
  <2> SUFFICES ASSUME NEW i \in 1 .. count
               PROVE  /\ \A id \in ToSet(blades[i]) : nodes'[id + 1].x0.moves = OnBlade(i)
                      /\ nodes'[apexes[i] + 1].x0.moves = OnRotor(i)
    BY <2>1, Zenon DEF Placed, count, OnBlade, OnRotor
  <2>2. QED BY <1>16, <1>17
<1>19. RootsOnly' BY <1>1, <1>2 DEF RootsOnly
<1>20. ControlsAreSet' /\ (input \in Inputs)' BY <1>1, <1>2 DEF ControlsAreSet
<1>21. Built' BY <1>13, <1>18 DEF Built
<1>22. QED BY <1>1, <1>12, <1>19, <1>20, <1>21 DEF AssemblyInv, Phases

-----------------------------------------------------------------------------
(* The constraints between the bodies: each has a target of its own.         *)

LEMMA TiesOfBlades ==
    ASSUME NEW i
    PROVE  /\ TieOfBlade(i).type = "RotationControl" /\ TieOfBlade(i).base = apexes[i]
           /\ TieOfBlade(i).target = Root(blades[i])
           /\ TieOfBlade(i).axis = Line(Root(blades[i]), apexes[i])
           /\ TieOfBlade(i).control = <<"pitch", i>>
           /\ TieOfApex(i).type = "RigidJoint" /\ TieOfApex(i).base = part["hub"]
           /\ TieOfApex(i).target = apexes[i] /\ TieOfApex(i).control = <<>>
BY DEF TieOfBlade, TieOfApex, RotationControl, RigidJoint, Constraint, None

LEMMA OtherTies ==
    /\ TieOfHub.type = "RigidJoint" /\ TieOfHub.target = part["hub"]
    /\ TieOfHub.base = part["azimuth"] /\ TieOfHub.control = <<>>
    /\ TieOfAzimuth.type = "RevoluteJoint" /\ TieOfAzimuth.target = part["azimuth"]
    /\ TieOfAzimuth.base = part["shaft_base"] /\ TieOfAzimuth.control = <<"torque">>
    /\ TieOfShaft.type = "RigidJoint" /\ TieOfShaft.target = part["shaft_base"]
    /\ TieOfShaft.base = part["yaw_bearing"] /\ TieOfShaft.control = <<>>
    /\ TieOfNacelle.type = "RigidJoint" /\ TieOfNacelle.target = part["nacelle_cm"]
    /\ TieOfNacelle.base = part["yaw_bearing"] /\ TieOfNacelle.control = <<>>
    /\ TieOfYaw.type = "RotationControl" /\ TieOfYaw.target = part["yaw_bearing"]
    /\ TieOfYaw.base = TowerTop /\ TieOfYaw.control = <<"yaw">> /\ TieOfYaw.axis = VerticalAxis
BY DEF TieOfHub, TieOfAzimuth, TieOfShaft, TieOfNacelle, TieOfYaw, RotationControl,
       RevoluteJoint, RigidJoint, Constraint, None

LEMMA RootOf ==
    ASSUME NEW s, IsSequence(s), 1 <= Len(s)
    PROVE  Root(s) \in ToSet(s) /\ Last(s) \in ToSet(s)
<1>1. Len(s) \in Nat /\ DOMAIN s = 1 .. Len(s) BY Elements
<1>2. 1 \in DOMAIN s /\ Len(s) \in DOMAIN s BY <1>1
<1>3. Root(s) = s[1] /\ Last(s) = s[Len(s)] BY DEF Root, Last, Head
<1>4. QED BY <1>2, <1>3 DEF ToSet

BladeTies == {TieOfBlade(i) : i \in 1 .. input.blades} \cup {TieOfApex(i) : i \in 1 .. input.blades}
OtherTiesAre == {TieOfHub, TieOfAzimuth, TieOfShaft, TieOfYaw}
                \cup (IF input.nacelleMass THEN {TieOfNacelle} ELSE {})

LEMMA BladeTiesInOrder ==
    ASSUME AssemblyAssumption, input \in Inputs, Assembled
    PROVE  LET new == FlattenSeq([i \in DOMAIN blades |-> BladeConstraints(i)])
           IN  IsSequence(new) /\ IsInjective(new) /\ ToSet(new) = BladeTies
<1> DEFINE q == [i \in DOMAIN blades |-> BladeConstraints(i)]
           count == input.blades
<1>1. /\ count \in Nat /\ DOMAIN blades = 1 .. count
      /\ \A i \in 1 .. count : IsSequence(blades[i]) /\ 1 <= Len(blades[i])
      /\ \A i, j \in 1 .. count : i # j =>
           ToSet(blades[i]) \cap ToSet(blades[j]) = {} /\ apexes[i] # apexes[j]
  BY WhereNodesAre
<1>2. /\ q = [i \in 1 .. count |-> q[i]] /\ DOMAIN q = 1 .. count
      /\ \A i \in 1 .. count : q[i] = <<TieOfBlade(i), TieOfApex(i)>>
  BY <1>1 DEF BladeConstraints, TieOfBlade, TieOfApex
<1> HIDE DEF q, count
<1>3. IsSequence(q) /\ Len(q) = count BY <1>1, <1>2, SequenceOf
<1>4. ASSUME NEW i \in 1 .. count
      PROVE  /\ IsSequence(q[i]) /\ IsInjective(q[i])
             /\ ToSet(q[i]) = {TieOfBlade(i), TieOfApex(i)}
  <2> DEFINE a == TieOfBlade(i)
             b == TieOfApex(i)
  <2>1. a # b BY TiesOfBlades
  <2>2. q[i] = <<a, b>> BY <1>2
  <2> HIDE DEF a, b
  <2>3. IsSequence(<<a, b>>) /\ ToSet(<<a, b>>) = {a, b} /\ IsInjective(<<a, b>>)
    BY <2>1, List2, Set2
  <2>4. QED BY <2>2, <2>3 DEF a, b
<1>5. ASSUME NEW i \in 1 .. count, NEW j \in 1 .. count, i # j
      PROVE  ToSet(q[i]) \cap ToSet(q[j]) = {}
  <2>1. Root(blades[i]) # Root(blades[j]) /\ apexes[i] # apexes[j]
    <3>1. Root(blades[i]) \in ToSet(blades[i]) /\ Root(blades[j]) \in ToSet(blades[j])
      BY <1>1, RootOf
    <3>2. QED BY <1>1, <1>5, <3>1
  <2>2. TieOfBlade(i) # TieOfBlade(j) BY <2>1, TiesOfBlades
  <2>3. TieOfApex(i) # TieOfApex(j) BY <2>1, TiesOfBlades
  <2>4. TieOfBlade(i) # TieOfApex(j) /\ TieOfApex(i) # TieOfBlade(j) BY TiesOfBlades
  <2>5. QED BY <1>4, <2>2, <2>3, <2>4
<1>6. PartsApart(q) BY <1>2, <1>4, <1>5 DEF PartsApart
<1>7. /\ IsSequence(FlattenSeq(q)) /\ IsInjective(FlattenSeq(q))
      /\ ToSet(FlattenSeq(q)) = UNION {ToSet(q[i]) : i \in 1 .. count}
  BY <1>3, <1>4, <1>6, FlattenedEntries DEF EntriesOf
<1>8. UNION {ToSet(q[i]) : i \in 1 .. count} = BladeTies BY <1>4 DEF BladeTies, count
<1>9. QED BY <1>7, <1>8 DEF q

LEMMA BetweenInOrder ==
    ASSUME AssemblyAssumption, input \in Inputs, Assembled
    PROVE  IsSequence(Between) /\ IsInjective(Between) /\ ToSet(Between) = OtherTiesAre
<1> DEFINE a == <<TieOfHub, TieOfAzimuth, TieOfShaft>>
           b == [i \in DOMAIN NacelleIds |-> RigidJoint(part["yaw_bearing"], NacelleIds[i])]
           c == <<TieOfYaw>>
           ab == a \o b
           abc == ab \o c
           h == part["hub"]
<1>1. /\ h \in Nat /\ part["azimuth"] = h + 1 /\ part["shaft_base"] = h + 2
      /\ part["yaw_bearing"] = h + 3 /\ (input.nacelleMass => part["nacelle_cm"] = h + 4)
  BY DEF Assembled, BetweenNodes
<1>2. Between = abc BY DEF Between, TieOfHub, TieOfAzimuth, TieOfShaft, TieOfYaw
<1> HIDE DEF h
<1>3. /\ TieOfHub.target = h /\ TieOfAzimuth.target = h + 1 /\ TieOfShaft.target = h + 2
      /\ TieOfYaw.target = h + 3 /\ (input.nacelleMass => TieOfNacelle.target = h + 4)
  BY <1>1, OtherTies DEF h
<1>4. /\ TieOfHub # TieOfAzimuth /\ TieOfHub # TieOfShaft /\ TieOfAzimuth # TieOfShaft
      /\ TieOfYaw # TieOfHub /\ TieOfYaw # TieOfAzimuth /\ TieOfYaw # TieOfShaft
      /\ input.nacelleMass => /\ TieOfNacelle # TieOfHub /\ TieOfNacelle # TieOfAzimuth
                              /\ TieOfNacelle # TieOfShaft /\ TieOfNacelle # TieOfYaw
  BY <1>1, <1>3
<1>5. IsSequence(a) /\ ToSet(a) = {TieOfHub, TieOfAzimuth, TieOfShaft} /\ IsInjective(a)
  BY <1>4, List3, Set3
<1>6. IsSequence(c) /\ ToSet(c) = {TieOfYaw} /\ IsInjective(c) BY List1, Set1
<1>7. /\ IsSequence(b) /\ IsInjective(b)
      /\ ToSet(b) = IF input.nacelleMass THEN {TieOfNacelle} ELSE {}
  <2>1. CASE input.nacelleMass
    <3> DEFINE s == NacelleIds
    <3>1. s = <<part["nacelle_cm"]>> BY <2>1 DEF NacelleIds
    <3>2. DOMAIN s = 1 .. 1 /\ s[1] = part["nacelle_cm"] BY <3>1, List1, Elements
    <3>3. b = [i \in DOMAIN s |-> RigidJoint(part["yaw_bearing"], s[i])] OBVIOUS
    <3> HIDE DEF s, b
    <3>4. DOMAIN b = 1 .. 1 /\ b = [i \in 1 .. 1 |-> b[i]] /\ b[1] = TieOfNacelle
      BY <3>2, <3>3 DEF TieOfNacelle
    <3>5. IsSequence(b) BY <3>4, SequenceOf
    <3>6. ToSet(b) = {TieOfNacelle} /\ IsInjective(b) BY <3>4 DEF ToSet, IsInjective
    <3>7. QED BY <2>1, <3>5, <3>6
  <2>2. CASE ~ input.nacelleMass
    <3> DEFINE s == NacelleIds
    <3>1. s = <<>> BY <2>2 DEF NacelleIds
    <3>2. b = [i \in DOMAIN s |-> RigidJoint(part["yaw_bearing"], s[i])] OBVIOUS
    <3> HIDE DEF s, b
    <3>3. DOMAIN b = {} /\ 1 .. 0 = {} /\ b = [i \in 1 .. 0 |-> b[i]] BY <3>1, <3>2
    <3>4. IsSequence(b) BY <3>3, SequenceOf
    <3>5. ToSet(b) = {} /\ IsInjective(b) BY <3>3 DEF ToSet, IsInjective
    <3>6. QED BY <2>2, <3>4, <3>5
  <2>3. QED BY <2>1, <2>2
<1> HIDE DEF a, b, c
<1>8. IsSequence(ab) BY <1>5, <1>7, Joined
<1>9. ToSet(a) \cap ToSet(b) = {} BY <1>4, <1>5, <1>7
<1>10. ToSet(ab) = ToSet(a) \cup ToSet(b) /\ IsInjective(ab) BY <1>5, <1>7, <1>9, JoinedSets
<1> HIDE DEF ab
<1>11. IsSequence(abc) BY <1>6, <1>8, Joined
<1>12. ToSet(ab) \cap ToSet(c) = {} BY <1>4, <1>5, <1>6, <1>7, <1>10
<1>13. ToSet(abc) = ToSet(ab) \cup ToSet(c) /\ IsInjective(abc)
  BY <1>6, <1>8, <1>10, <1>12, JoinedSets
<1> HIDE DEF abc
<1>14. ToSet(abc) = OtherTiesAre BY <1>5, <1>6, <1>7, <1>10, <1>13 DEF OtherTiesAre
<1>15. QED BY <1>2, <1>11, <1>13, <1>14

LEMMA TiesInOrder ==
    ASSUME AssemblyAssumption, input \in Inputs, Assembled
    PROVE  LET new == FlattenSeq([i \in DOMAIN blades |-> BladeConstraints(i)]) \o Between
           IN  IsSequence(new) /\ IsInjective(new) /\ ToSet(new) = Ties
<1> DEFINE fn == FlattenSeq([i \in DOMAIN blades |-> BladeConstraints(i)])
           b == Between
           c == fn \o b
           h == part["hub"]
           count == input.blades
           m == Len(nodes)
<1>1. IsSequence(fn) /\ IsInjective(fn) /\ ToSet(fn) = BladeTies BY BladeTiesInOrder
<1>2. IsSequence(b) /\ IsInjective(b) /\ ToSet(b) = OtherTiesAre BY BetweenInOrder
<1> HIDE DEF fn, b
<1>3. /\ h \in Nat /\ count \in Nat /\ First \in {4, 5} /\ input.prior \in Nat
      /\ (input.nacelleMass <=> First = 5) /\ m = h + First + count
      /\ \A i \in 1 .. count :
           /\ ToSet(blades[i]) \subseteq input.prior .. h - 1
           /\ IsSequence(blades[i]) /\ 1 <= Len(blades[i])
           /\ apexes[i] \in h + First .. m - 1
  BY WhereNodesAre
<1>4. /\ part["azimuth"] = h + 1 /\ part["shaft_base"] = h + 2
      /\ part["yaw_bearing"] = h + 3 /\ (input.nacelleMass => part["nacelle_cm"] = h + 4)
  BY DEF Assembled, BetweenNodes
<1> HIDE DEF h, count, m
<1>5. ASSUME NEW t \in BladeTies PROVE t.target \notin h .. h + First - 1
  <2>1. CASE \E i \in 1 .. count : t = TieOfBlade(i)
    <3>1. PICK i \in 1 .. count : t = TieOfBlade(i) BY <2>1
    <3>2. t.target = Root(blades[i]) BY <3>1, TiesOfBlades
    <3>3. Root(blades[i]) \in ToSet(blades[i]) BY <1>3, RootOf
    <3>4. t.target \in input.prior .. h - 1 BY <1>3, <3>2, <3>3
    <3>5. QED BY <1>3, <3>4
  <2>2. CASE \E i \in 1 .. count : t = TieOfApex(i)
    <3>1. PICK i \in 1 .. count : t = TieOfApex(i) BY <2>2
    <3>2. t.target = apexes[i] BY <3>1, TiesOfBlades
    <3>3. t.target \in h + First .. m - 1 BY <1>3, <3>2
    <3>4. QED BY <1>3, <3>3
  <2>3. QED BY <2>1, <2>2 DEF BladeTies, count
<1>6. ASSUME NEW t \in OtherTiesAre PROVE t.target \in h .. h + First - 1
  <2>1. /\ TieOfHub.target = h /\ TieOfAzimuth.target = h + 1 /\ TieOfShaft.target = h + 2
        /\ TieOfYaw.target = h + 3 /\ (input.nacelleMass => TieOfNacelle.target = h + 4)
    BY <1>4, OtherTies DEF h
  <2>2. \/ t = TieOfHub \/ t = TieOfAzimuth \/ t = TieOfShaft \/ t = TieOfYaw
        \/ (input.nacelleMass /\ t = TieOfNacelle)
    BY DEF OtherTiesAre
  <2>3. \/ t.target = h \/ t.target = h + 1 \/ t.target = h + 2 \/ t.target = h + 3
        \/ (input.nacelleMass /\ t.target = h + 4)
    BY <2>1, <2>2
  <2>4. QED BY <1>3, <2>3
<1>7. ToSet(fn) \cap ToSet(b) = {} BY <1>1, <1>2, <1>5, <1>6
<1>8. IsSequence(c) BY <1>1, <1>2, Joined
<1>9. ToSet(c) = ToSet(fn) \cup ToSet(b) /\ IsInjective(c) BY <1>1, <1>2, <1>7, JoinedSets
<1> HIDE DEF c
<1>10. ToSet(c) = Ties BY <1>1, <1>2, <1>9 DEF Ties, BladeTies, OtherTiesAre
<1>11. QED BY <1>8, <1>9, <1>10 DEF c, fn, b

-----------------------------------------------------------------------------
(* What stays the same when nodes move: where they were placed, and what ties*)
(* and turns refer to.                                                       *)

LEMMA SpotsOfIds ==
    ASSUME AssemblyAssumption, input \in Inputs, Assembled
    PROVE  /\ \A i \in 1 .. input.blades : \A id \in ToSet(blades[i]) :
                id \in Nat /\ id + 1 \in 1 .. Len(nodes)
           /\ \A i \in 1 .. input.blades :
                /\ apexes[i] + 1 \in 1 .. Len(nodes)
                /\ Root(blades[i]) \in ToSet(blades[i]) /\ Root(blades[i]) + 1 \in 1 .. Len(nodes)
           /\ \A id \in ToSet(tower) : id \in Nat /\ id + 1 \in 1 .. Len(nodes)
           /\ TowerTop \in ToSet(tower) /\ TowerTop + 1 \in 1 .. Len(nodes)
           /\ Root(tower) \in ToSet(tower) /\ Root(tower) + 1 \in 1 .. Len(nodes)
           /\ part["hub"] + 1 \in 1 .. Len(nodes) /\ part["azimuth"] + 1 \in 1 .. Len(nodes)
           /\ part["shaft_base"] + 1 \in 1 .. Len(nodes)
           /\ part["yaw_bearing"] + 1 \in 1 .. Len(nodes)
<1> DEFINE h == part["hub"]
           m == Len(nodes)
           count == input.blades
<1>1. /\ h \in Nat /\ count \in Nat /\ First \in {4, 5} /\ input.prior \in Nat
      /\ m = h + First + count
      /\ \A i \in 1 .. count :
           /\ ToSet(blades[i]) \subseteq input.prior .. h - 1
           /\ IsSequence(blades[i]) /\ 1 <= Len(blades[i])
           /\ apexes[i] \in h + First .. m - 1
      /\ ToSet(tower) \subseteq input.prior .. h - 1
      /\ IsSequence(tower) /\ 1 <= Len(tower)
  BY WhereNodesAre
<1>2. /\ part["azimuth"] = h + 1 /\ part["shaft_base"] = h + 2 /\ part["yaw_bearing"] = h + 3
  BY DEF Assembled, BetweenNodes
<1> HIDE DEF h, m, count
<1>3. \A id \in input.prior .. h - 1 : id \in Nat /\ id + 1 \in 1 .. m BY <1>1
<1>4. \A id \in h + First .. m - 1 : id + 1 \in 1 .. m BY <1>1
<1>5. /\ h + 1 \in 1 .. m /\ part["azimuth"] + 1 \in 1 .. m /\ part["shaft_base"] + 1 \in 1 .. m
      /\ part["yaw_bearing"] + 1 \in 1 .. m
  <2>1. h \in Nat /\ count \in Nat /\ First \in {4, 5} /\ m = h + First + count BY <1>1
  <2>2. /\ h + 1 \in 1 .. m /\ (h + 1) + 1 \in 1 .. m /\ (h + 2) + 1 \in 1 .. m
        /\ (h + 3) + 1 \in 1 .. m
    BY <2>1
  <2>3. QED BY <1>2, <2>2
<1>6. ASSUME NEW i \in 1 .. count
      PROVE  /\ \A id \in ToSet(blades[i]) : id \in Nat /\ id + 1 \in 1 .. m
             /\ apexes[i] + 1 \in 1 .. m
             /\ Root(blades[i]) \in ToSet(blades[i]) /\ Root(blades[i]) + 1 \in 1 .. m
  <2>1. \A id \in ToSet(blades[i]) : id \in Nat /\ id + 1 \in 1 .. m BY <1>1, <1>3
  <2>2. apexes[i] + 1 \in 1 .. m BY <1>1, <1>4
  <2>3. Root(blades[i]) \in ToSet(blades[i]) BY <1>1, RootOf
  <2>4. QED BY <2>1, <2>2, <2>3
<1>7. \A id \in ToSet(tower) : id \in Nat /\ id + 1 \in 1 .. m BY <1>1, <1>3
<1>8. TowerTop \in ToSet(tower) /\ Root(tower) \in ToSet(tower) BY <1>1, RootOf DEF TowerTop
<1>9. QED BY <1>5, <1>6, <1>7, <1>8 DEF h, m, count

LEMMA BuiltStays ==
    ASSUME AssemblyAssumption, input \in Inputs, Built, NodesAreNodes',
           Len(nodes') = Len(nodes), \A k \in 1 .. Len(nodes) : nodes'[k].x0 = nodes[k].x0,
           UNCHANGED <<input, beams, blades, tower, part, apexes>>
    PROVE  /\ Built' /\ Ties' = Ties /\ YawTurn' = YawTurn /\ BaseMove' = BaseMove
           /\ \A i \in 1 .. input.blades : PitchTurn(i)' = PitchTurn(i)
<1> DEFINE count == input.blades
<1>1. /\ UNCHANGED input /\ UNCHANGED blades /\ UNCHANGED tower /\ UNCHANGED part
      /\ UNCHANGED apexes
  OBVIOUS
<1>2. Assembled /\ Placed BY DEF Built
<1>3. Assembled' BY <1>2, AssembledStays
<1>4. ASSUME NEW i \in 1 .. count
      PROVE  /\ \A id \in ToSet(blades[i]) : nodes'[id + 1].x0 = nodes[id + 1].x0
             /\ nodes'[apexes[i] + 1].x0 = nodes[apexes[i] + 1].x0
             /\ nodes'[Root(blades[i]) + 1].x0 = nodes[Root(blades[i]) + 1].x0
  BY <1>2, SpotsOfIds
<1>5. /\ nodes'[TowerTop + 1].x0 = nodes[TowerTop + 1].x0
      /\ nodes'[part["hub"] + 1].x0 = nodes[part["hub"] + 1].x0
      /\ nodes'[part["shaft_base"] + 1].x0 = nodes[part["shaft_base"] + 1].x0
  BY <1>2, SpotsOfIds
<1>6. Placed'
  <2> SUFFICES ASSUME NEW i \in 1 .. count
               PROVE  /\ \A id \in ToSet(blades[i]) : nodes'[id + 1].x0.moves = OnBlade(i)
                      /\ nodes'[apexes[i] + 1].x0.moves = OnRotor(i)
    BY <1>1, Zenon DEF Placed, OnBlade, OnRotor
  <2>1. /\ \A id \in ToSet(blades[i]) : nodes[id + 1].x0.moves = OnBlade(i)
        /\ nodes[apexes[i] + 1].x0.moves = OnRotor(i)
    BY <1>2, Zenon DEF Placed
  <2>2. QED BY <1>4, <2>1
<1>7. ASSUME NEW i \in 1 .. count
      PROVE  /\ TieOfBlade(i)' = TieOfBlade(i) /\ TieOfApex(i)' = TieOfApex(i)
             /\ PitchTurn(i)' = PitchTurn(i)
  <2>1. Root(blades[i])' = Root(blades[i]) /\ apexes'[i] = apexes[i] BY <1>1
  <2>2. /\ Line(Root(blades[i]), apexes[i])' = Line(Root(blades[i]), apexes[i])
        /\ Line(apexes[i], Root(blades[i]))' = Line(apexes[i], Root(blades[i]))
        /\ Node(nodes, apexes[i]).x0' = Node(nodes, apexes[i]).x0
    BY <1>1, <1>4, <2>1 DEF Line, Node
  <2>3. TieOfBlade(i)' = TieOfBlade(i)
    BY <2>1, <2>2 DEF TieOfBlade, RotationControl, Constraint
  <2>4. TieOfApex(i)' = TieOfApex(i) BY <1>1 DEF TieOfApex, RigidJoint, Constraint, None
  <2>5. PitchTurn(i)' = PitchTurn(i) BY <1>1, <2>2 DEF PitchTurn, Rotation
  <2>6. QED BY <2>3, <2>4, <2>5
<1>8. /\ TieOfHub' = TieOfHub /\ TieOfShaft' = TieOfShaft /\ TieOfNacelle' = TieOfNacelle
      /\ TieOfYaw' = TieOfYaw
  BY <1>1 DEF TieOfHub, TieOfShaft, TieOfNacelle, TieOfYaw, RigidJoint, RotationControl,
              Constraint, None, TowerTop, VerticalAxis, At
<1>9. TieOfAzimuth' = TieOfAzimuth
  <2>1. Line(part["hub"], part["shaft_base"])' = Line(part["hub"], part["shaft_base"])
    BY <1>1, <1>5 DEF Line, Node
  <2>2. QED BY <1>1, <2>1 DEF TieOfAzimuth, RevoluteJoint, Constraint
<1>10. Ties' = Ties
  <2>1. {TieOfBlade(i) : i \in 1 .. input.blades}' = {TieOfBlade(i) : i \in 1 .. input.blades}
    BY <1>1, <1>7
  <2>2. {TieOfApex(i) : i \in 1 .. input.blades}' = {TieOfApex(i) : i \in 1 .. input.blades}
    BY <1>1, <1>7
  <2>3. QED BY <1>1, <1>8, <1>9, <2>1, <2>2 DEF Ties
<1>11. YawTurn' = YawTurn
  <2>1. TowerTop' = TowerTop BY <1>1 DEF TowerTop
  <2>2. Node(nodes, TowerTop).x0' = Node(nodes, TowerTop).x0 BY <1>5, <2>1 DEF Node
  <2>3. QED BY <1>1, <2>2 DEF YawTurn, Rotation, VerticalAxis, At
<1>12. BaseMove' = BaseMove BY <1>1 DEF BaseMove
<1>13. QED BY <1>3, <1>6, <1>7, <1>10, <1>11, <1>12 DEF Built

LEMMA AddMassElementsKeeps ==
    ASSUME AssemblyAssumption, AssemblyInv, AddMassElements
    PROVE  AssemblyInv'
<1>1. /\ pc = "masses" /\ pc' = "constraints"
      /\ UNCHANGED <<input, nodes, beams, constraints, blades, tower, part, apexes, control>>
  BY Zenon DEF AddMassElements
<1>2. /\ input \in Inputs /\ ControlsAreSet /\ Built /\ NothingTurns /\ NothingMoved /\ RootsOnly
  BY <1>1 DEF AssemblyInv
<1>3. /\ UNCHANGED input /\ UNCHANGED nodes /\ UNCHANGED blades /\ UNCHANGED apexes
      /\ UNCHANGED constraints /\ UNCHANGED control
      /\ UNCHANGED <<input, beams, blades, tower, part, apexes>>
  BY <1>1
<1>4. NodesAreNodes' /\ NothingTurns' /\ NothingMoved' /\ RootsOnly'
  BY <1>2, <1>3 DEF Built, Assembled, NodesAreNodes, NothingTurns, NothingMoved, RootsOnly
<1>5. Built' BY <1>2, <1>3, <1>4, BuiltStays
<1>6. ControlsAreSet' /\ (input \in Inputs)' BY <1>2, <1>3 DEF ControlsAreSet
<1>7. QED BY <1>1, <1>4, <1>5, <1>6 DEF AssemblyInv, Phases

-----------------------------------------------------------------------------
(* The constraints are added.                                                *)

LEMMA OnceBehind ==
    ASSUME NEW a, NEW b, IsSequence(a), IsSequence(b), IsInjective(b), NEW c \in ToSet(b),
           \A i \in 1 .. Len(a) : a[i] # c
    PROVE  OnceIn(a \o b, c)
<1> DEFINE m == Len(a)
           n == Len(b)
           l == a \o b
<1>1. /\ m \in Nat /\ n \in Nat /\ DOMAIN b = 1 .. n /\ Len(l) = m + n
      /\ \A k \in 1 .. m : l[k] = a[k]
      /\ \A k \in 1 .. n : l[m + k] = b[k]
  BY Joined, Elements
<1> HIDE DEF m, n, l
<1>2. PICK k \in 1 .. n : b[k] = c BY <1>1 DEF ToSet
<1>3. m + k \in 1 .. Len(l) /\ l[m + k] = c BY <1>1, <1>2
<1>4. ASSUME NEW j \in 1 .. Len(l), l[j] = c PROVE j = m + k
  <2>1. CASE j \in 1 .. m BY <1>1, <1>4, <2>1 DEF m
  <2>2. CASE j \notin 1 .. m
    <3>1. j - m \in 1 .. n /\ j = m + (j - m) BY <1>1, <2>2
    <3>2. b[j - m] = c BY <1>1, <1>4, <3>1
    <3>3. j - m = k BY <1>1, <1>2, <3>1, <3>2 DEF IsInjective
    <3>4. QED BY <1>1, <3>1, <3>3
  <2>3. QED BY <2>1, <2>2
<1>5. QED BY <1>3, <1>4 DEF OnceIn, l

LEMMA OnceBefore ==
    ASSUME NEW a, NEW b, IsSequence(a), IsSequence(b), NEW c, OnceIn(a, c), c \notin ToSet(b)
    PROVE  OnceIn(a \o b, c)
<1> DEFINE m == Len(a)
           n == Len(b)
           l == a \o b
<1>1. /\ m \in Nat /\ n \in Nat /\ DOMAIN b = 1 .. n /\ Len(l) = m + n
      /\ \A k \in 1 .. m : l[k] = a[k]
      /\ \A k \in 1 .. n : l[m + k] = b[k]
  BY Joined, Elements
<1> HIDE DEF m, n, l
<1>2. PICK k \in 1 .. m : a[k] = c /\ \A j \in 1 .. m : a[j] = c => j = k BY DEF OnceIn, m
<1>3. k \in 1 .. Len(l) /\ l[k] = c BY <1>1, <1>2
<1>4. ASSUME NEW j \in 1 .. Len(l), l[j] = c PROVE j = k
  <2>1. CASE j \in 1 .. m BY <1>1, <1>2, <1>4, <2>1
  <2>2. CASE j \notin 1 .. m
    <3>1. j - m \in 1 .. n /\ j = m + (j - m) BY <1>1, <2>2
    <3>2. b[j - m] = c BY <1>1, <1>4, <3>1
    <3>3. QED BY <1>1, <3>1, <3>2 DEF ToSet
  <2>3. QED BY <2>1, <2>2
<1>5. QED BY <1>3, <1>4 DEF OnceIn, l

LEMMA TieTypes ==
    ASSUME NEW c \in Ties
    PROVE  c.type # "PrescribedBC"
<1>1. \/ \E i : c = TieOfBlade(i)
      \/ \E i : c = TieOfApex(i)
      \/ c = TieOfHub \/ c = TieOfAzimuth \/ c = TieOfShaft \/ c = TieOfYaw \/ c = TieOfNacelle
  BY DEF Ties
<1>2. QED BY <1>1, TiesOfBlades, OtherTies

LEMMA AddConstraintsKeeps ==
    ASSUME AssemblyAssumption, AssemblyInv, AddConstraints
    PROVE  AssemblyInv'
<1> DEFINE new == FlattenSeq([i \in DOMAIN blades |-> BladeConstraints(i)]) \o Between
           old == constraints
<1>1. /\ pc = "constraints" /\ pc' = "pitch" /\ constraints' = old \o new
      /\ control' = [control EXCEPT !.yaw = input.yaw]
      /\ UNCHANGED <<input, nodes, blades, tower, part, apexes>> /\ UNCHANGED beams
  BY Zenon DEF AddConstraints, AddConstraintsInOrder
<1>2. /\ input \in Inputs /\ ControlsAreSet /\ Built /\ NothingTurns /\ NothingMoved /\ RootsOnly
  BY <1>1 DEF AssemblyInv
<1>3. /\ UNCHANGED input /\ UNCHANGED nodes
      /\ UNCHANGED <<input, beams, blades, tower, part, apexes>>
  BY <1>1
<1>4. NodesAreNodes' /\ NothingTurns' /\ NothingMoved'
  BY <1>2, <1>3 DEF Built, Assembled, NodesAreNodes, NothingTurns, NothingMoved
<1>5. Built' /\ Ties' = Ties BY <1>2, <1>3, <1>4, BuiltStays
<1>6. IsSequence(new) /\ IsInjective(new) /\ ToSet(new) = Ties
  BY <1>2, TiesInOrder DEF Built
<1>7. /\ IsSequence(old)
      /\ \A i \in 1 .. Len(old) : old[i].type = "PrescribedBC" /\ old[i].control = None
      /\ ~ input.prescribedRoots => Len(old) = 0
  BY <1>2 DEF RootsOnly
<1> HIDE DEF new
<1>8. /\ IsSequence(constraints') /\ Len(constraints') = Len(old) + Len(new)
      /\ \A k \in 1 .. Len(old) : constraints'[k] = old[k]
      /\ \A k \in 1 .. Len(new) : constraints'[Len(old) + k] = new[k]
  BY <1>1, <1>6, <1>7, Joined
<1>9. ASSUME NEW c \in Ties PROVE OnceIn(constraints', c)
  <2>1. \A i \in 1 .. Len(old) : old[i] # c BY <1>7, TieTypes
  <2>2. c \in ToSet(new) /\ IsSequence(new) /\ IsSequence(old) /\ IsInjective(new) BY <1>6, <1>7
  <2> HIDE DEF old
  <2>3. OnceIn(old \o new, c) BY <2>1, <2>2, OnceBehind
  <2>4. QED BY <1>1, <2>3
<1>10. Len(old) \in Nat /\ Len(new) \in Nat /\ DOMAIN new = 1 .. Len(new) BY <1>6, <1>7, Elements
<1>11. ASSUME NEW i \in 1 .. Len(constraints'), i \notin 1 .. Len(old)
       PROVE  constraints'[i] \in Ties
  <2>1. i - Len(old) \in 1 .. Len(new) /\ i = Len(old) + (i - Len(old)) BY <1>8, <1>10, <1>11
  <2>2. constraints'[i] = new[i - Len(old)] BY <1>8, <2>1
  <2>3. new[i - Len(old)] \in ToSet(new) BY <1>10, <2>1 DEF ToSet
  <2>4. QED BY <1>6, <2>2, <2>3
<1>12. \A i \in 1 .. Len(constraints') :
         \/ constraints'[i] \in Ties
         \/ constraints'[i].type = "PrescribedBC" /\ constraints'[i].control = None
  BY <1>7, <1>8, <1>11
<1>13. ASSUME ~ input.prescribedRoots, NEW i \in 1 .. Len(constraints')
       PROVE  constraints'[i] \in Ties \cup {}
  <2>1. i \notin 1 .. Len(old) BY <1>7, <1>13
  <2>2. QED BY <1>11, <2>1
<1>14. Tied({})'
  BY <1>3, <1>5, <1>8, <1>9, <1>12, <1>13 DEF Tied, Once, None
<1>15. ControlsAreSet' /\ YawIsCommanded'
  <2>1. control = [pitch |-> control.pitch, torque |-> control.torque, yaw |-> control.yaw]
        /\ control.pitch = [i \in 1 .. input.blades |-> input.pitch] /\ control.torque = 0
    BY <1>2 DEF ControlsAreSet
  <2>2. control' = [pitch |-> control.pitch, torque |-> control.torque, yaw |-> input.yaw]
    BY <1>1, <2>1
  <2>3. QED BY <1>3, <2>1, <2>2 DEF ControlsAreSet, YawIsCommanded
<1>16. (input \in Inputs)' BY <1>2, <1>3
<1>17. QED BY <1>1, <1>4, <1>5, <1>14, <1>15, <1>16 DEF AssemblyInv, Phases

-----------------------------------------------------------------------------
(* The initial displacements: every list has a node once.                    *)

LEMMA TurnsAreSequences ==
    /\ \A i : IsSequence(PitchTurn(i))
    /\ IsSequence(YawTurn) /\ IsSequence(BaseMove) /\ IsSequence(<<>>)
<1>1. IsSequence(<<>>) BY DEF IsSequence
<1>2. ASSUME NEW i PROVE IsSequence(PitchTurn(i))
  <2> DEFINE w == << <<"turn", Rotation(Line(apexes[i], Root(blades[i])), input.pitch),
                       Node(nodes, apexes[i]).x0>> >>
  <2>1. IsSequence(w) BY List1
  <2>2. PitchTurn(i) = <<>> \/ PitchTurn(i) = w BY DEF PitchTurn
  <2>3. QED BY <1>1, <2>1, <2>2
<1>3. IsSequence(YawTurn)
  <2> DEFINE w == << <<"turn", Rotation(VerticalAxis, input.yaw), Node(nodes, TowerTop).x0>> >>
  <2>1. IsSequence(w) BY List1
  <2>2. YawTurn = <<>> \/ YawTurn = w BY DEF YawTurn
  <2>3. QED BY <1>1, <2>1, <2>2
<1>4. IsSequence(BaseMove)
  <2> DEFINE w == << <<"base">> >>
  <2>1. IsSequence(w) BY List1
  <2>2. BaseMove = <<>> \/ BaseMove = w BY DEF BaseMove
  <2>3. QED BY <1>1, <2>1, <2>2
<1>5. QED BY <1>1, <1>2, <1>3, <1>4

\* A list of motions grows at its end.
LEMMA PitchAlone ==
    ASSUME NEW p, IsSequence(p)
    PROVE  <<>> \o p = p \o (<<>> \o <<>>)
<1>1. IsSequence(<<>>) BY DEF IsSequence
<1>2. <<>> \o <<>> = <<>> BY <1>1, JoinNone
<1>3. <<>> \o p = p /\ p \o <<>> = p BY JoinNone
<1>4. QED BY <1>2, <1>3, Zenon

LEMMA YawBehind ==
    ASSUME NEW p, NEW y, IsSequence(p), IsSequence(y)
    PROVE  (p \o (<<>> \o <<>>)) \o y = p \o (y \o <<>>)
<1>1. IsSequence(<<>>) BY DEF IsSequence
<1>2. <<>> \o <<>> = <<>> BY <1>1, JoinNone
<1>3. p \o <<>> = p BY JoinNone
<1>4. y \o <<>> = y BY JoinNone
<1>5. QED BY <1>2, <1>3, <1>4, Zenon

LEMMA BaseBehind ==
    ASSUME NEW p, NEW y, NEW b, IsSequence(p), IsSequence(y), IsSequence(b)
    PROVE  (p \o (y \o <<>>)) \o b = p \o (y \o b)
<1>1. y \o <<>> = y BY JoinNone
<1>2. (p \o y) \o b = p \o (y \o b) BY JoinThree
<1>3. QED BY <1>1, <1>2, Zenon

LEMMA NothingBetween ==
    ASSUME NEW y, NEW b, IsSequence(y), IsSequence(b)
    PROVE  (<<>> \o <<>>) \o y = y \o <<>> /\ (y \o <<>>) \o b = y \o b
<1>1. IsSequence(<<>>) BY DEF IsSequence
<1>2. <<>> \o <<>> = <<>> BY <1>1, JoinNone
<1>3. <<>> \o y = y /\ y \o <<>> = y BY JoinNone
<1>4. QED BY <1>2, <1>3, Zenon

DisplacedAll(r, ids, motions) ==
    /\ IsSequence(r) /\ Len(r) = Len(nodes)
    /\ \A k \in 1 .. Len(nodes) :
         /\ IsNode(r[k]) /\ r[k].x0 = nodes[k].x0 /\ r[k].v = nodes[k].v
         /\ k - 1 \in ToSet(ids) => r[k].u = nodes[k].u \o motions
         /\ k - 1 \notin ToSet(ids) => r[k].u = nodes[k].u

LEMMA DisplacedLists ==
    ASSUME NodesAreNodes, NEW ids, AreIds(ids, nodes), NEW motions, NEW r,
           r = Displaced(nodes, ids, motions)
    PROVE  DisplacedAll(r, ids, motions)
<1> DEFINE n == Len(nodes)
<1>1. IsSequence(nodes) /\ n \in Nat /\ \A k \in 1 .. n : IsNode(nodes[k])
  BY Elements DEF NodesAreNodes
<1>2. r = [k \in 1 .. n |-> IF k - 1 \in ToSet(ids)
                            THEN RotateDisplacementAboutPoint(nodes[k], motions) ELSE nodes[k]]
  BY <1>1, DisplacedNodes
<1> HIDE DEF n
<1>3. IsSequence(r) /\ Len(r) = n
  <2>1. r = [k \in 1 .. n |-> r[k]] BY <1>2
  <2>2. QED BY <1>1, <2>1, SequenceOf
<1>4. ASSUME NEW k \in 1 .. n
      PROVE  /\ IsNode(r[k]) /\ r[k].x0 = nodes[k].x0 /\ r[k].v = nodes[k].v
             /\ k - 1 \in ToSet(ids) => r[k].u = nodes[k].u \o motions
             /\ k - 1 \notin ToSet(ids) => r[k].u = nodes[k].u
  <2>1. IsNode(nodes[k]) BY <1>1
  <2>2. CASE k - 1 \in ToSet(ids)
    <3>1. r[k] = RotateDisplacementAboutPoint(nodes[k], motions) BY <1>2, <2>2
    <3>2. DisplacedBy(nodes[k], motions, r[k]) BY <2>1, <3>1, DisplacedNode
    <3>3. QED BY <2>2, <3>2 DEF DisplacedBy
  <2>3. CASE k - 1 \notin ToSet(ids)
    <3>1. r[k] = nodes[k] BY <1>2, <2>3
    <3>2. QED BY <2>1, <2>3, <3>1
  <2>4. QED BY <2>2, <2>3
<1>5. QED BY <1>3, <1>4 DEF DisplacedAll, n

LEMMA BeyondBlades ==
    ASSUME AssemblyAssumption, input \in Inputs, Assembled, NEW i \in 1 .. input.blades
    PROVE  /\ \A id \in part["hub"] .. Len(nodes) - 1 :
                id \notin ToSet(blades[i]) /\ id \notin ToSet(tower)
           /\ ToSet(blades[i]) \cap ToSet(tower) = {}
           /\ \A id \in part["hub"] .. Len(nodes) - 1 : id + 1 \in 1 .. Len(nodes) /\ (id + 1) - 1 = id
<1> DEFINE h == part["hub"]
           m == Len(nodes)
           a == input.prior
<1>1. /\ h \in Nat /\ a \in Nat /\ ToSet(blades[i]) \subseteq a .. h - 1
      /\ ToSet(tower) \subseteq a .. h - 1 /\ ToSet(blades[i]) \cap ToSet(tower) = {}
      /\ First \in {4, 5} /\ input.blades \in Nat /\ m = h + First + input.blades
  BY WhereNodesAre
<1> HIDE DEF h, m, a
<1>2. m \in Nat /\ (h .. m - 1) \cap (a .. h - 1) = {} BY <1>1
<1>3. \A id \in h .. m - 1 : id + 1 \in 1 .. m /\ (id + 1) - 1 = id BY <1>1, <1>2
<1>4. QED BY <1>1, <1>2, <1>3 DEF h, m

LEMMA SetInitialPitchKeeps ==
    ASSUME AssemblyAssumption, AssemblyInv, SetInitialPitch
    PROVE  AssemblyInv'
<1> DEFINE n == Len(nodes)
           count == input.blades
<1>1. /\ pc = "pitch" /\ pc' = "yaw" /\ nodes' = Pitched
      /\ UNCHANGED <<input, beams, blades, tower, part, apexes>>
      /\ UNCHANGED <<input, constraints, control>>
  BY Zenon DEF SetInitialPitch, Pitched
<1>2. /\ input \in Inputs /\ ControlsAreSet /\ Built /\ NothingTurns /\ NothingMoved
      /\ Tied({}) /\ YawIsCommanded
  BY <1>1 DEF AssemblyInv
<1>3. Assembled /\ NodesAreNodes /\ BladesApart BY <1>2, BladesStandApart DEF Built, Assembled
<1>4. /\ IsSequence(Pitched) /\ Len(Pitched) = n
      /\ \A k \in 1 .. n :
           /\ \A i \in 1 .. Len(blades) : k - 1 \in ToSet(blades[i]) => Pitched[k] = PitchOf(i, k)
           /\ (\A i \in 1 .. Len(blades) : k - 1 \notin ToSet(blades[i])) => Pitched[k] = nodes[k]
  BY <1>3, PitchedNodes
<1>5. /\ \A k \in 1 .. n : IsNode(nodes[k]) /\ nodes[k].u = <<>> /\ nodes[k].v = <<>>
      /\ Len(blades) = count /\ count \in Nat /\ count >= 1
  BY <1>2, <1>3, WhereNodesAre DEF NodesAreNodes, NothingTurns, NothingMoved
<1> HIDE DEF n, count
<1>6. ASSUME NEW k \in 1 .. n, NEW i \in 1 .. count, k - 1 \in ToSet(blades[i])
      PROVE  /\ IsNode(nodes'[k]) /\ nodes'[k].x0 = nodes[k].x0 /\ nodes'[k].v = <<>>
             /\ nodes'[k].u = PitchTurn(i) \o (<<>> \o <<>>)
  <2>1. nodes'[k] = RotateDisplacementAboutPoint(nodes[k], PitchTurn(i))
    BY <1>1, <1>4, <1>5, <1>6 DEF PitchOf
  <2>2. IsNode(nodes[k]) BY <1>5
  <2>3. DisplacedBy(nodes[k], PitchTurn(i), nodes'[k]) BY <2>1, <2>2, DisplacedNode
  <2>4. <<>> \o PitchTurn(i) = PitchTurn(i) \o (<<>> \o <<>>)
    BY TurnsAreSequences, PitchAlone
  <2>5. QED BY <1>5, <2>3, <2>4 DEF DisplacedBy
<1>7. ASSUME NEW k \in 1 .. n, \A i \in 1 .. count : k - 1 \notin ToSet(blades[i])
      PROVE  nodes'[k] = nodes[k]
  BY <1>1, <1>4, <1>5, <1>7
<1>8. ASSUME NEW k \in 1 .. n
      PROVE  IsNode(nodes'[k]) /\ nodes'[k].x0 = nodes[k].x0 /\ nodes'[k].v = <<>>
  <2>1. CASE \E i \in 1 .. count : k - 1 \in ToSet(blades[i]) BY <1>6, <2>1
  <2>2. CASE \A i \in 1 .. count : k - 1 \notin ToSet(blades[i])
    <3>1. nodes'[k] = nodes[k] BY <1>7, <2>2
    <3>2. QED BY <1>5, <3>1
  <2>3. QED BY <2>1, <2>2
<1>9. NodesAreNodes' /\ NothingTurns' /\ Len(nodes') = n
  BY <1>1, <1>4, <1>8 DEF NodesAreNodes, NothingTurns
<1>10. Built' /\ Ties' = Ties /\ \A i \in 1 .. count : PitchTurn(i)' = PitchTurn(i)
  <2>1. \A k \in 1 .. n : nodes'[k].x0 = nodes[k].x0 BY <1>8
  <2>2. QED BY <1>1, <1>2, <1>9, <2>1, BuiltStays DEF n, count
<1>11. Moved(<<>>, <<>>)'
  <2>1. /\ UNCHANGED input /\ UNCHANGED blades /\ UNCHANGED part /\ UNCHANGED tower BY <1>1
  <2>2. ASSUME NEW i \in 1 .. count, NEW id \in ToSet(blades[i])
        PROVE  nodes'[id + 1].u = PitchTurn(i)' \o (<<>> \o <<>>)
    <3>1. id \in Nat /\ id + 1 \in 1 .. n BY <1>2, <1>3, SpotsOfIds DEF n, count
    <3>2. (id + 1) - 1 = id BY <3>1
    <3>3. nodes'[id + 1].u = PitchTurn(i) \o (<<>> \o <<>>) BY <1>6, <3>1, <3>2
    <3>4. QED BY <1>10, <3>3
  <2>3. ASSUME NEW id \in part["hub"] .. Len(nodes) - 1
        PROVE  nodes'[id + 1].u = <<>> \o <<>>
    <3>1. /\ id + 1 \in 1 .. n /\ (id + 1) - 1 = id
          /\ \A i \in 1 .. count : id \notin ToSet(blades[i])
      BY <1>2, <1>3, <1>5, BeyondBlades DEF n, count
    <3>2. nodes'[id + 1].u = <<>> BY <1>5, <1>7, <3>1
    <3>3. QED BY <3>2, TurnsAreSequences, JoinNone
  <2>4. ASSUME NEW id \in ToSet(tower)
        PROVE  nodes'[id + 1].u = <<>>
    <3>1. id \in Nat /\ id + 1 \in 1 .. n BY <1>2, <1>3, SpotsOfIds DEF n
    <3>2. (id + 1) - 1 = id BY <3>1
    <3>3. \A i \in 1 .. count : id \notin ToSet(blades[i])
      BY <1>2, <1>3, BeyondBlades DEF count
    <3>4. QED BY <1>5, <1>7, <3>1, <3>2, <3>3
  <2>5. Len(nodes') = Len(nodes) BY <1>9 DEF n
  <2>6. QED BY <2>1, <2>2, <2>3, <2>4, <2>5, Zenon DEF Moved, count
<1>12. Tied({})' BY <1>1, <1>2, <1>10 DEF Tied, Once, None
<1>13. ControlsAreSet' /\ YawIsCommanded' /\ (input \in Inputs)'
  BY <1>1, <1>2 DEF ControlsAreSet, YawIsCommanded
<1>14. QED BY <1>1, <1>9, <1>10, <1>11, <1>12, <1>13 DEF AssemblyInv, Phases

LEMMA SetInitialYawKeeps ==
    ASSUME AssemblyAssumption, AssemblyInv, SetInitialYaw
    PROVE  AssemblyInv'
<1> DEFINE n == Len(nodes)
           count == input.blades
           ids == NacelleNodeIds
<1>1. /\ pc = "yaw" /\ pc' = "base"
      /\ nodes' = Turned(nodes, ids, Rotation(VerticalAxis, input.yaw), Node(nodes, TowerTop).x0)
      /\ UNCHANGED <<input, beams, blades, tower, part, apexes>>
      /\ UNCHANGED <<input, constraints, control>>
  BY Zenon DEF SetInitialYaw
<1>2. /\ input \in Inputs /\ ControlsAreSet /\ Built /\ NothingTurns
      /\ Moved(<<>>, <<>>) /\ Tied({}) /\ YawIsCommanded
  BY <1>1 DEF AssemblyInv
<1>3. /\ Assembled /\ NodesAreNodes /\ AreIds(ids, nodes)
      /\ ToSet(ids) = BladeNodes \cup (part["hub"] .. Len(nodes) - 1)
  BY <1>2, ListsAre DEF Built, Assembled
<1>4. nodes' = Displaced(nodes, ids, YawTurn)
  <2>1. Rotation(VerticalAxis, input.yaw).angle = input.yaw BY DEF Rotation
  <2>2. QED BY <1>1, <2>1 DEF Turned, YawTurn
<1> HIDE DEF ids
<1>5. DisplacedAll(nodes', ids, YawTurn) BY <1>3, <1>4, DisplacedLists
<1>6. /\ IsSequence(nodes') /\ Len(nodes') = n
      /\ \A k \in 1 .. n : IsNode(nodes'[k]) /\ nodes'[k].x0 = nodes[k].x0 /\ nodes'[k].v = nodes[k].v
  BY <1>5 DEF DisplacedAll
<1>7. NodesAreNodes' /\ NothingTurns' BY <1>2, <1>6 DEF NodesAreNodes, NothingTurns
<1>8. /\ Built' /\ Ties' = Ties /\ YawTurn' = YawTurn
      /\ \A i \in 1 .. count : PitchTurn(i)' = PitchTurn(i)
  BY <1>1, <1>2, <1>6, <1>7, BuiltStays
<1> HIDE DEF n, count
<1>9. Moved(YawTurn, <<>>)'
  <2>1. /\ UNCHANGED input /\ UNCHANGED blades /\ UNCHANGED part /\ UNCHANGED tower BY <1>1
  <2>2. ASSUME NEW i \in 1 .. count, NEW id \in ToSet(blades[i])
        PROVE  nodes'[id + 1].u = PitchTurn(i)' \o (YawTurn' \o <<>>)
    <3>1. id \in Nat /\ id + 1 \in 1 .. n BY <1>2, <1>3, SpotsOfIds DEF n, count
    <3>2. (id + 1) - 1 = id /\ id \in ToSet(ids) BY <1>3, <3>1 DEF BladeNodes, count
    <3>3. nodes[id + 1].u = PitchTurn(i) \o (<<>> \o <<>>) BY <1>2 DEF Moved, count
    <3>4. nodes'[id + 1].u = (PitchTurn(i) \o (<<>> \o <<>>)) \o YawTurn
      BY <1>5, <3>1, <3>2, <3>3 DEF DisplacedAll, n
    <3>5. (PitchTurn(i) \o (<<>> \o <<>>)) \o YawTurn = PitchTurn(i) \o (YawTurn \o <<>>)
      BY TurnsAreSequences, YawBehind
    <3>6. QED BY <1>8, <3>4, <3>5
  <2>3. ASSUME NEW id \in part["hub"] .. Len(nodes) - 1
        PROVE  nodes'[id + 1].u = YawTurn' \o <<>>
    <3>1. id + 1 \in 1 .. n /\ (id + 1) - 1 = id /\ id \in ToSet(ids)
      <4>1. 1 \in 1 .. input.blades BY <1>2, <1>3, WhereNodesAre
      <4>2. QED BY <1>2, <1>3, <4>1, BeyondBlades DEF n
    <3>2. nodes[id + 1].u = <<>> \o <<>> BY <1>2 DEF Moved
    <3>3. nodes'[id + 1].u = (<<>> \o <<>>) \o YawTurn BY <1>5, <3>1, <3>2 DEF DisplacedAll, n
    <3>4. (<<>> \o <<>>) \o YawTurn = YawTurn \o <<>>
      <4>1. IsSequence(YawTurn) BY TurnsAreSequences
      <4>2. QED BY <4>1, NothingBetween
    <3>5. QED BY <1>8, <3>3, <3>4
  <2>4. ASSUME NEW id \in ToSet(tower)
        PROVE  nodes'[id + 1].u = <<>>
    <3>1. id \in Nat /\ id + 1 \in 1 .. n BY <1>2, <1>3, SpotsOfIds DEF n
    <3>2. (id + 1) - 1 = id BY <3>1
    <3>3. \A i \in 1 .. count : id \notin ToSet(blades[i])
      BY <1>2, <1>3, BeyondBlades DEF count
    <3>4. id \notin part["hub"] .. Len(nodes) - 1
      <4>1. 1 \in 1 .. input.blades BY <1>2, <1>3, WhereNodesAre
      <4>2. QED BY <1>2, <1>3, <4>1, BeyondBlades
    <3>5. id \notin ToSet(ids) BY <1>3, <3>3, <3>4 DEF BladeNodes, count
    <3>6. nodes'[id + 1].u = nodes[id + 1].u BY <1>5, <3>1, <3>2, <3>5 DEF DisplacedAll, n
    <3>7. QED BY <1>2, <3>6 DEF Moved
  <2>5. Len(nodes') = Len(nodes) BY <1>6 DEF n
  <2>6. QED BY <2>1, <2>2, <2>3, <2>4, <2>5, Zenon DEF Moved, count
<1>10. Tied({})' BY <1>1, <1>2, <1>8 DEF Tied, Once, None
<1>11. ControlsAreSet' /\ YawIsCommanded' /\ (input \in Inputs)'
  BY <1>1, <1>2 DEF ControlsAreSet, YawIsCommanded
<1>12. QED BY <1>1, <1>7, <1>8, <1>9, <1>10, <1>11 DEF AssemblyInv, Phases

LEMMA SetBaseDisplacementKeeps ==
    ASSUME AssemblyAssumption, AssemblyInv, SetBaseDisplacement
    PROVE  AssemblyInv'
<1> DEFINE n == Len(nodes)
           count == input.blades
           ids == AllTurbineIds
           held == <<TieOfTower'>>
           old == constraints
<1>1. /\ pc = "base" /\ pc' = "velocity"
      /\ nodes' = IF input.baseMoved THEN Displaced(nodes, ids, << <<"base">> >>) ELSE nodes
      /\ constraints' = old \o <<PrescribedBC(Root(tower), Node(nodes', Root(tower)).u)>>
      /\ UNCHANGED <<input, masses, blades, tower, part, apexes, control>> /\ UNCHANGED beams
  BY Zenon DEF SetBaseDisplacement, AddConstraintsInOrder
<1>2. /\ input \in Inputs /\ ControlsAreSet /\ Built /\ NothingTurns
      /\ Moved(YawTurn, <<>>) /\ Tied({}) /\ YawIsCommanded
  BY <1>1 DEF AssemblyInv
<1>3. /\ Assembled /\ NodesAreNodes /\ AreIds(ids, nodes)
      /\ ToSet(ids) = input.prior .. Len(nodes) - 1
  BY <1>2, ListsAre DEF Built, Assembled
<1>4. /\ UNCHANGED input /\ UNCHANGED blades /\ UNCHANGED part /\ UNCHANGED tower
      /\ UNCHANGED control /\ UNCHANGED <<input, beams, blades, tower, part, apexes>>
  BY <1>1
<1> HIDE DEF ids
<1>5. /\ IsSequence(nodes') /\ Len(nodes') = n
      /\ \A k \in 1 .. n :
           /\ IsNode(nodes'[k]) /\ nodes'[k].x0 = nodes[k].x0 /\ nodes'[k].v = nodes[k].v
           /\ k - 1 \in ToSet(ids) /\ IsSequence(nodes[k].u) => nodes'[k].u = nodes[k].u \o BaseMove
  <2>1. CASE input.baseMoved
    <3>1. nodes' = Displaced(nodes, ids, BaseMove) BY <1>1, <2>1 DEF BaseMove
    <3>2. DisplacedAll(nodes', ids, BaseMove) BY <1>3, <3>1, DisplacedLists
    <3>3. QED BY <3>2 DEF DisplacedAll
  <2>2. CASE ~ input.baseMoved
    <3>1. nodes' = nodes /\ BaseMove = <<>> BY <1>1, <2>2 DEF BaseMove
    <3>2. \A k \in 1 .. n : IsSequence(nodes[k].u) => nodes[k].u = nodes[k].u \o <<>>
      <4> SUFFICES ASSUME NEW k \in 1 .. n, IsSequence(nodes[k].u)
                   PROVE  nodes[k].u = nodes[k].u \o <<>>
        OBVIOUS
      <4>1. QED BY JoinNone
    <3>3. IsSequence(nodes) /\ \A k \in 1 .. n : IsNode(nodes[k]) BY <1>3 DEF NodesAreNodes
    <3>4. QED BY <3>1, <3>2, <3>3
  <2>3. QED BY <2>1, <2>2
<1>6. NodesAreNodes' /\ NothingTurns' BY <1>2, <1>5 DEF NodesAreNodes, NothingTurns
<1>7. /\ Built' /\ Ties' = Ties /\ YawTurn' = YawTurn /\ BaseMove' = BaseMove
      /\ \A i \in 1 .. count : PitchTurn(i)' = PitchTurn(i)
  BY <1>2, <1>4, <1>5, <1>6, BuiltStays
<1> HIDE DEF n, count
<1>8. \A id \in input.prior .. Len(nodes) - 1 : id \in ToSet(ids) BY <1>3
<1>9. Moved(YawTurn, BaseMove)'
  <2>1. \A i : IsSequence(PitchTurn(i)) BY TurnsAreSequences
  <2>2. IsSequence(YawTurn) /\ IsSequence(BaseMove) /\ IsSequence(<<>>) BY TurnsAreSequences
  <2>3. /\ input.prior \in Nat /\ part["hub"] \in Nat /\ input.prior <= part["hub"]
        /\ Len(nodes) \in Nat /\ part["hub"] <= Len(nodes)
    <3>1. /\ First \in {4, 5} /\ input.blades \in Nat /\ Len(nodes) = part["hub"] + First + input.blades
          /\ input.prior \in Nat /\ part["hub"] \in Nat /\ input.prior <= part["hub"]
      BY <1>2, <1>3, WhereNodesAre
    <3>2. QED BY <3>1
  <2>4. ASSUME NEW id \in Nat, id + 1 \in 1 .. n, input.prior <= id
        PROVE  (id + 1) - 1 \in ToSet(ids)
    <3>1. (id + 1) - 1 = id /\ id \in input.prior .. Len(nodes) - 1 BY <2>3, <2>4 DEF n
    <3>2. QED BY <1>8, <3>1
  <2>5. ASSUME NEW i \in 1 .. count, NEW id \in ToSet(blades[i])
        PROVE  nodes'[id + 1].u = PitchTurn(i)' \o (YawTurn' \o BaseMove')
    <3>1. id \in Nat /\ id + 1 \in 1 .. n BY <1>2, <1>3, SpotsOfIds DEF n, count
    <3>2. input.prior <= id
      <4>1. id \in input.prior .. part["hub"] - 1 BY <1>2, <1>3, WhereNodesAre DEF count
      <4>2. QED BY <2>3, <4>1
    <3>3. nodes[id + 1].u = PitchTurn(i) \o (YawTurn \o <<>>) BY <1>2 DEF Moved, count
    <3>4. IsSequence(PitchTurn(i) \o (YawTurn \o <<>>))
      <4>1. IsSequence(YawTurn \o <<>>) BY <2>2, Joined
      <4>2. IsSequence(PitchTurn(i)) BY <2>1
      <4>3. QED BY <4>1, <4>2, Joined
    <3>5. nodes'[id + 1].u = (PitchTurn(i) \o (YawTurn \o <<>>)) \o BaseMove
      BY <1>5, <2>4, <3>1, <3>2, <3>3, <3>4
    <3>6. (PitchTurn(i) \o (YawTurn \o <<>>)) \o BaseMove = PitchTurn(i) \o (YawTurn \o BaseMove)
      BY <2>1, <2>2, BaseBehind
    <3>7. QED BY <1>7, <3>5, <3>6
  <2>6. ASSUME NEW id \in part["hub"] .. Len(nodes) - 1
        PROVE  nodes'[id + 1].u = YawTurn' \o BaseMove'
    <3>1. id \in Nat /\ id + 1 \in 1 .. n /\ input.prior <= id BY <2>3 DEF n
    <3>2. nodes[id + 1].u = YawTurn \o <<>> BY <1>2 DEF Moved
    <3>3. IsSequence(YawTurn \o <<>>) BY <2>2, Joined
    <3>4. nodes'[id + 1].u = (YawTurn \o <<>>) \o BaseMove BY <1>5, <2>4, <3>1, <3>2, <3>3
    <3>5. (YawTurn \o <<>>) \o BaseMove = YawTurn \o BaseMove
      BY <2>2, NothingBetween
    <3>6. QED BY <1>7, <3>4, <3>5
  <2>7. ASSUME NEW id \in ToSet(tower)
        PROVE  nodes'[id + 1].u = BaseMove'
    <3>1. id \in Nat /\ id + 1 \in 1 .. n BY <1>2, <1>3, SpotsOfIds DEF n
    <3>2. input.prior <= id
      <4>1. id \in input.prior .. part["hub"] - 1 BY <1>2, <1>3, WhereNodesAre
      <4>2. QED BY <2>3, <4>1
    <3>3. nodes[id + 1].u = <<>> BY <1>2 DEF Moved
    <3>4. nodes'[id + 1].u = <<>> \o BaseMove BY <1>5, <2>2, <2>4, <3>1, <3>2, <3>3
    <3>5. <<>> \o BaseMove = BaseMove BY <2>2, JoinNone
    <3>6. QED BY <1>7, <3>4, <3>5
  <2>8. Len(nodes') = Len(nodes) BY <1>5 DEF n
  <2>9. QED BY <1>4, <2>5, <2>6, <2>7, <2>8, Zenon DEF Moved, count
<1>10. constraints' = old \o held
  BY <1>1, <1>4 DEF TieOfTower, PrescribedBC, Constraint, Root, Node
<1>11. /\ IsSequence(held) /\ Len(held) = 1 /\ held[1] = TieOfTower' /\ IsInjective(held)
       /\ ToSet(held) = {TieOfTower'}
  BY List1, Set1
<1>12. TieOfTower'.type = "PrescribedBC" /\ TieOfTower'.control = None
  BY DEF TieOfTower, PrescribedBC, Constraint, None
<1>13. /\ IsSequence(old) /\ Len(old) \in Nat
       /\ \A c \in Ties : OnceIn(old, c)
       /\ \A i \in 1 .. Len(old) :
            \/ old[i] \in Ties
            \/ old[i].type = "PrescribedBC" /\ old[i].control = None
       /\ ~ input.prescribedRoots => \A i \in 1 .. Len(old) : old[i] \in Ties
  BY <1>2, Elements DEF Tied, Once
<1> HIDE DEF held, old
<1>14. /\ IsSequence(constraints') /\ Len(constraints') = Len(old) + 1
       /\ \A k \in 1 .. Len(old) : constraints'[k] = old[k]
       /\ constraints'[Len(old) + 1] = TieOfTower'
  <2>1. /\ IsSequence(constraints') /\ Len(constraints') = Len(old) + Len(held)
        /\ \A k \in 1 .. Len(old) : constraints'[k] = old[k]
        /\ \A k \in 1 .. Len(held) : constraints'[Len(old) + k] = held[k]
    <3>1. IsSequence(old) /\ IsSequence(held) BY <1>11, <1>13
    <3>2. QED BY <1>10, <3>1, Joined
  <2>2. QED BY <1>11, <2>1
<1>15. \A i \in 1 .. Len(constraints') : i \in 1 .. Len(old) \/ i = Len(old) + 1
  BY <1>13, <1>14
<1>16. ASSUME NEW c \in Ties PROVE OnceIn(constraints', c)
  <2>1. c \notin ToSet(held) BY <1>11, <1>12, TieTypes
  <2>2. IsSequence(old) /\ IsSequence(held) /\ OnceIn(old, c) BY <1>11, <1>13
  <2>3. QED BY <1>10, <2>1, <2>2, OnceBefore
<1>17. \A i \in 1 .. Len(constraints') :
         \/ constraints'[i] \in Ties
         \/ constraints'[i].type = "PrescribedBC" /\ constraints'[i].control = None
  BY <1>12, <1>13, <1>14, <1>15
<1>18. ASSUME ~ input.prescribedRoots
       PROVE  /\ \A i \in 1 .. Len(constraints') : constraints'[i] \in Ties \cup {TieOfTower'}
              /\ OnceIn(constraints', TieOfTower')
  <2>1. \A i \in 1 .. Len(constraints') : constraints'[i] \in Ties \cup {TieOfTower'}
    BY <1>13, <1>14, <1>15, <1>18
  <2>2. \A i \in 1 .. Len(old) : old[i] # TieOfTower' BY <1>12, <1>13, <1>18, TieTypes
  <2>3. IsSequence(old) /\ IsSequence(held) /\ IsInjective(held) /\ TieOfTower' \in ToSet(held)
    BY <1>11, <1>13
  <2>4. OnceIn(old \o held, TieOfTower') BY <2>2, <2>3, OnceBehind
  <2>5. QED BY <1>10, <2>1, <2>4
<1>19. Tied({TieOfTower})'
  <2>1. \A c \in Ties' : OnceIn(constraints', c) BY <1>7, <1>16
  <2>2. \A c \in {TieOfTower'} : ~ input.prescribedRoots => OnceIn(constraints', c) BY <1>18
  <2>3. QED BY <1>4, <1>7, <1>14, <1>17, <1>18, <2>1, <2>2 DEF Tied, Once, None
<1>20. ControlsAreSet' /\ YawIsCommanded' /\ (input \in Inputs)'
  BY <1>2, <1>4 DEF ControlsAreSet, YawIsCommanded
<1>21. QED BY <1>1, <1>6, <1>7, <1>9, <1>19, <1>20 DEF AssemblyInv, Phases

-----------------------------------------------------------------------------
(* The initial velocity: the nodes stay where they are.                      *)

LEMMA SetInitialRotorVelocityKeeps ==
    ASSUME AssemblyAssumption, AssemblyInv, SetInitialRotorVelocity
    PROVE  AssemblyInv'
<1> DEFINE n == Len(nodes)
           count == input.blades
           ids == SpinningIds
           spin == ShaftSpin(nodes)
<1>1. /\ pc = "velocity" /\ pc' = "built" /\ nodes' = Spun(nodes, ids, spin)
      /\ UNCHANGED <<input, beams, blades, tower, part, apexes>>
      /\ UNCHANGED <<input, constraints, control>>
  BY Zenon DEF SetInitialRotorVelocity, Spun
<1>2. /\ input \in Inputs /\ ControlsAreSet /\ Built /\ NothingTurns
      /\ Moved(YawTurn, BaseMove) /\ Tied({TieOfTower}) /\ YawIsCommanded
  BY <1>1 DEF AssemblyInv
<1>3. /\ Assembled /\ NodesAreNodes /\ AreIds(ids, nodes) /\ ToSet(ids) = Spinning
  BY <1>2, ListsAre DEF Built, Assembled
<1>4. /\ UNCHANGED input /\ UNCHANGED blades /\ UNCHANGED part /\ UNCHANGED tower
      /\ UNCHANGED apexes /\ UNCHANGED constraints /\ UNCHANGED control
  BY <1>1
<1> HIDE DEF ids, spin
<1>5. /\ IsSequence(nodes) /\ \A k \in 1 .. n : IsNode(nodes[k]) /\ nodes[k].v = <<>>
  BY <1>2, <1>3 DEF NodesAreNodes, NothingTurns
<1>6. n \in Nat BY <1>5, Elements
<1>7. nodes' = [k \in 1 .. n |-> IF k - 1 \in ToSet(ids)
                                THEN SetVelocityAboutPoint(nodes[k], spin) ELSE nodes[k]]
  BY <1>1, <1>3, <1>5, SpunNodes
<1> HIDE DEF n
<1>8. IsSequence(nodes') /\ Len(nodes') = n
  <2>1. nodes' = [k \in 1 .. n |-> nodes'[k]] BY <1>7
  <2>2. QED BY <1>6, <2>1, SequenceOf
<1>9. ASSUME NEW k \in 1 .. n
      PROVE  /\ IsNode(nodes'[k]) /\ nodes'[k].x0 = nodes[k].x0 /\ nodes'[k].u = nodes[k].u
             /\ k - 1 \in Spinning => nodes'[k].v = <<spin, DisplacedPosition(nodes'[k])>>
             /\ k - 1 \notin Spinning => nodes'[k].v = <<>>
  <2>1. IsNode(nodes[k]) /\ nodes[k].v = <<>> BY <1>5
  <2>2. CASE k - 1 \in Spinning
    <3>1. nodes'[k] = SetVelocityAboutPoint(nodes[k], spin) BY <1>3, <1>7, <2>2
    <3>2. SpunBy(nodes[k], spin, nodes'[k]) BY <2>1, <3>1, SpunNode
    <3>3. /\ IsNode(nodes'[k]) /\ nodes'[k].x0 = nodes[k].x0 /\ nodes'[k].u = nodes[k].u
          /\ nodes'[k].v = <<spin, DisplacedPosition(nodes[k])>>
      BY <3>2 DEF SpunBy
    <3>4. DisplacedPosition(nodes'[k]) = DisplacedPosition(nodes[k])
      BY <3>3 DEF DisplacedPosition
    <3>5. QED BY <2>2, <3>3, <3>4
  <2>3. CASE k - 1 \notin Spinning
    <3>1. nodes'[k] = nodes[k] BY <1>3, <1>7, <2>3
    <3>2. QED BY <2>1, <2>3, <3>1
  <2>4. QED BY <2>2, <2>3
<1>10. NodesAreNodes' BY <1>8, <1>9 DEF NodesAreNodes
<1>11. /\ Built' /\ Ties' = Ties /\ YawTurn' = YawTurn /\ BaseMove' = BaseMove
       /\ \A i \in 1 .. count : PitchTurn(i)' = PitchTurn(i)
  <2>1. \A k \in 1 .. n : nodes'[k].x0 = nodes[k].x0 BY <1>9
  <2>2. QED BY <1>1, <1>2, <1>8, <1>10, <2>1, BuiltStays DEF n
<1> HIDE DEF count
<1>12. Moved(YawTurn, BaseMove)'
  <2>1. ASSUME NEW i \in 1 .. count, NEW id \in ToSet(blades[i])
        PROVE  nodes'[id + 1].u = PitchTurn(i)' \o (YawTurn' \o BaseMove')
    <3>1. id + 1 \in 1 .. n BY <1>2, <1>3, SpotsOfIds DEF n, count
    <3>2. nodes'[id + 1].u = nodes[id + 1].u BY <1>9, <3>1
    <3>3. nodes[id + 1].u = PitchTurn(i) \o (YawTurn \o BaseMove) BY <1>2 DEF Moved, count
    <3>4. QED BY <1>11, <3>2, <3>3
  <2>2. ASSUME NEW id \in part["hub"] .. Len(nodes) - 1
        PROVE  nodes'[id + 1].u = YawTurn' \o BaseMove'
    <3>1. id + 1 \in 1 .. n
      <4>1. 1 \in 1 .. input.blades BY <1>2, <1>3, WhereNodesAre
      <4>2. QED BY <1>2, <1>3, <4>1, BeyondBlades DEF n
    <3>2. nodes'[id + 1].u = nodes[id + 1].u BY <1>9, <3>1
    <3>3. nodes[id + 1].u = YawTurn \o BaseMove BY <1>2 DEF Moved
    <3>4. QED BY <1>11, <3>2, <3>3
  <2>3. ASSUME NEW id \in ToSet(tower)
        PROVE  nodes'[id + 1].u = BaseMove'
    <3>1. id + 1 \in 1 .. n BY <1>2, <1>3, SpotsOfIds DEF n
    <3>2. nodes'[id + 1].u = nodes[id + 1].u BY <1>9, <3>1
    <3>3. nodes[id + 1].u = BaseMove BY <1>2 DEF Moved
    <3>4. QED BY <1>11, <3>2, <3>3
  <2>4. Len(nodes') = Len(nodes) BY <1>8 DEF n
  <2>5. QED BY <1>4, <2>1, <2>2, <2>3, <2>4, Zenon DEF Moved, count
<1>13. Tied({TieOfTower})'
  <2>1. Root(tower) + 1 \in 1 .. n BY <1>2, <1>3, SpotsOfIds DEF n
  <2>2. nodes'[Root(tower) + 1].u = nodes[Root(tower) + 1].u BY <1>9, <2>1
  <2>3. TieOfTower' = TieOfTower
    BY <1>4, <2>2 DEF TieOfTower, PrescribedBC, Constraint, Root, Node, None, InvalidNodeID
  <2>4. QED BY <1>2, <1>4, <1>11, <2>3 DEF Tied, Once, None
<1>14. ShaftSpin(nodes)' = spin
  <2>1. part["hub"] + 1 \in 1 .. n /\ part["shaft_base"] + 1 \in 1 .. n
    BY <1>2, <1>3, SpotsOfIds DEF n
  <2>2. /\ nodes'[part["hub"] + 1].x0 = nodes[part["hub"] + 1].x0
        /\ nodes'[part["hub"] + 1].u = nodes[part["hub"] + 1].u
        /\ nodes'[part["shaft_base"] + 1].x0 = nodes[part["shaft_base"] + 1].x0
        /\ nodes'[part["shaft_base"] + 1].u = nodes[part["shaft_base"] + 1].u
    BY <1>9, <2>1
  <2>3. /\ DisplacedPosition(Node(nodes, part["hub"]))' = DisplacedPosition(Node(nodes, part["hub"]))
        /\ DisplacedPosition(Node(nodes, part["shaft_base"]))'
             = DisplacedPosition(Node(nodes, part["shaft_base"]))
    BY <1>4, <2>2 DEF DisplacedPosition, Node
  <2>4. QED BY <2>3 DEF ShaftSpin, spin
<1>15. RotorTurns'
  <2>1. Spinning' = Spinning BY <1>4 DEF Spinning, BladeNodes, Apexes
  <2>2. input.prior \in Nat BY <1>2, InputTypes
  <2>3. ASSUME NEW id \in input.prior .. Len(nodes) - 1
        PROVE  nodes'[id + 1].v = IF id \in Spinning
                                  THEN <<spin, DisplacedPosition(nodes'[id + 1])>> ELSE <<>>
    <3>1. id + 1 \in 1 .. n /\ (id + 1) - 1 = id BY <1>6, <2>2 DEF n
    <3>2. QED BY <1>9, <3>1
  <2>4. Len(nodes') = Len(nodes) BY <1>8 DEF n
  <2>5. \A id \in input.prior .. Len(nodes) - 1 :
          nodes'[id + 1].v = IF id \in Spinning'
                             THEN <<ShaftSpin(nodes)', DisplacedPosition(nodes'[id + 1])>> ELSE <<>>
    BY <1>14, <2>1, <2>3
  <2>6. QED BY <1>4, <2>4, <2>5, Zenon DEF RotorTurns
<1>16. ControlsAreSet' /\ YawIsCommanded' /\ (input \in Inputs)'
  BY <1>2, <1>4 DEF ControlsAreSet, YawIsCommanded
<1>17. QED BY <1>1, <1>11, <1>12, <1>13, <1>15, <1>16 DEF AssemblyInv, Phases

LEMMA StutteringKeeps ==
    ASSUME AssemblyAssumption, AssemblyInv, UNCHANGED vars
    PROVE  AssemblyInv'
<1>1. /\ UNCHANGED pc /\ UNCHANGED input /\ UNCHANGED nodes /\ UNCHANGED beams
      /\ UNCHANGED constraints /\ UNCHANGED blades /\ UNCHANGED tower /\ UNCHANGED part
      /\ UNCHANGED apexes /\ UNCHANGED control
      /\ UNCHANGED <<input, beams, blades, tower, part, apexes>>
  BY DEF vars, model
<1>2. input \in Inputs /\ ControlsAreSet /\ pc \in Phases BY DEF AssemblyInv
<1>3. ControlsAreSet' /\ (input \in Inputs)' /\ (pc \in Phases)'
  BY <1>1, <1>2 DEF ControlsAreSet, Phases
<1>4. /\ NodesAreNodes => NodesAreNodes'
      /\ NothingTurns => NothingTurns'
      /\ NothingMoved => NothingMoved'
      /\ RootsOnly => RootsOnly'
      /\ BladesAtRoot => BladesAtRoot'
      /\ ApexesAtOrigin => ApexesAtOrigin'
      /\ YawIsCommanded => YawIsCommanded'
  BY <1>1 DEF NodesAreNodes, NothingTurns, NothingMoved, RootsOnly, BladesAtRoot, ApexesAtOrigin,
     YawIsCommanded
<1>5. Building => Building' BY <1>1, <1>4 DEF Building, BeamsTo
<1>6. Assembled => Assembled'
  <2>1. Assembled => NodesAreNodes' BY <1>4 DEF Assembled
  <2>2. Len(nodes') = Len(nodes) BY <1>1
  <2>3. QED BY <1>1, <2>1, <2>2, AssembledStays
<1>7. CASE pc = "blades" BY <1>1, <1>3, <1>5, <1>7 DEF AssemblyInv, BladesAre
<1>8. CASE pc = "tower" BY <1>1, <1>3, <1>5, <1>8 DEF AssemblyInv, BladesAre
<1>9. CASE pc \in {"validate", "position"} BY <1>1, <1>3, <1>5, <1>9 DEF AssemblyInv, BladesAre
<1>10. CASE pc = "rotor" BY <1>1, <1>3, <1>4, <1>6, <1>10 DEF AssemblyInv
<1>11. CASE pc = "thrown" BY <1>1, <1>3, <1>11 DEF AssemblyInv
<1>12. CASE pc \in {"masses", "constraints", "pitch", "yaw", "base", "velocity", "built"}
  <2>1. Built BY <1>12 DEF AssemblyInv
  <2>2. NodesAreNodes' BY <1>4, <2>1 DEF Built, Assembled
  <2>3. /\ Built' /\ Ties' = Ties /\ YawTurn' = YawTurn /\ BaseMove' = BaseMove
        /\ \A i \in 1 .. input.blades : PitchTurn(i)' = PitchTurn(i)
    <3>1. Len(nodes') = Len(nodes) /\ \A k \in 1 .. Len(nodes) : nodes'[k].x0 = nodes[k].x0
      BY <1>1
    <3>2. QED BY <1>1, <1>2, <2>1, <2>2, <3>1, BuiltStays
  <2>4. /\ Moved(<<>>, <<>>) => Moved(<<>>, <<>>)'
        /\ Moved(YawTurn, <<>>) => Moved(YawTurn, <<>>)'
        /\ Moved(YawTurn, BaseMove) => Moved(YawTurn, BaseMove)'
    BY <1>1, <2>3 DEF Moved
  <2>5. TieOfTower' = TieOfTower
    BY <1>1 DEF TieOfTower, PrescribedBC, Constraint, Root, Node, None, InvalidNodeID
  <2>6. /\ Tied({}) => Tied({})'
        /\ Tied({TieOfTower}) => Tied({TieOfTower})'
    BY <1>1, <2>3, <2>5 DEF Tied, Once, None
  <2>7. RotorTurns => RotorTurns'
    BY <1>1 DEF RotorTurns, Spinning, BladeNodes, Apexes, ShaftSpin, DisplacedPosition, Node
  <2>8. CASE pc \in {"masses", "constraints"}
    BY <1>1, <1>3, <1>4, <2>3, <2>8 DEF AssemblyInv
  <2>9. CASE pc = "pitch" BY <1>1, <1>3, <1>4, <2>3, <2>6, <2>9 DEF AssemblyInv
  <2>10. CASE pc = "yaw" BY <1>1, <1>3, <1>4, <2>3, <2>4, <2>6, <2>10 DEF AssemblyInv
  <2>11. CASE pc = "base" BY <1>1, <1>3, <1>4, <2>3, <2>4, <2>6, <2>11 DEF AssemblyInv
  <2>12. CASE pc = "velocity" BY <1>1, <1>3, <1>4, <2>3, <2>4, <2>6, <2>12 DEF AssemblyInv
  <2>13. CASE pc = "built" BY <1>1, <1>3, <1>4, <2>3, <2>4, <2>6, <2>7, <2>13 DEF AssemblyInv
  <2>14. QED BY <1>12, <2>8, <2>9, <2>10, <2>11, <2>12, <2>13
<1>13. QED BY <1>2, <1>7, <1>8, <1>9, <1>10, <1>11, <1>12 DEF Phases

-----------------------------------------------------------------------------
(* The constructor of the interface goes on where that of the turbine ends.  *)

LaterPhases == {"controller", "outputs", "row", "written", "flight", "updated", "stepped"}
AsTurbine == pc \in Phases \cup LaterPhases /\ (pc \in Phases => AssemblyInv)

LEMMA PhasesApart == Phases \cap LaterPhases = {}
BY DEF Phases, LaterPhases

LEMMA TurbineStepKeeps ==
    ASSUME AssemblyAssumption, AssemblyInv, [Next]_vars
    PROVE  AssemblyInv'
<1>1. CASE CreateBlade BY <1>1, CreateBladeKeeps
<1>2. CASE CreateTower BY <1>2, CreateTowerKeeps
<1>3. CASE RefuseBeam BY <1>3, RefuseBeamKeeps
<1>4. CASE ValidateInput BY <1>4, ValidateInputKeeps
<1>5. CASE PositionTower BY <1>5, PositionTowerKeeps
<1>6. CASE PositionRotor BY <1>6, PositionRotorKeeps
<1>7. CASE AddMassElements BY <1>7, AddMassElementsKeeps
<1>8. CASE AddConstraints BY <1>8, AddConstraintsKeeps
<1>9. CASE SetInitialPitch BY <1>9, SetInitialPitchKeeps
<1>10. CASE SetInitialYaw BY <1>10, SetInitialYawKeeps
<1>11. CASE SetBaseDisplacement BY <1>11, SetBaseDisplacementKeeps
<1>12. CASE SetInitialRotorVelocity BY <1>12, SetInitialRotorVelocityKeeps
<1>13. CASE UNCHANGED vars BY <1>13, StutteringKeeps
<1>14. QED
  BY <1>1, <1>2, <1>3, <1>4, <1>5, <1>6, <1>7, <1>8, <1>9, <1>10, <1>11, <1>12, <1>13 DEF Next

LEMMA NextIsOfPhases ==
    ASSUME Next
    PROVE  pc \in Phases
BY DEF Next, CreateBlade, CreateTower, RefuseBeam, ValidateInput, PositionTower, PositionRotor,
   AddMassElements, AddConstraints, SetInitialPitch, SetInitialYaw, SetBaseDisplacement,
   SetInitialRotorVelocity, Phases

LEMMA LaterSteps ==
    ASSUME \/ CreateAerodynamics \/ CreateController \/ BuildTimeSeriesSchema
           \/ WriteTimeSeriesData \/ Fly \/ UpdateAerodynamicLoads \/ SetNodeLoads \/ Step
    PROVE  pc' \in LaterPhases
BY Zenon DEF CreateAerodynamics, CreateController, BuildTimeSeriesSchema, WriteTimeSeriesData, Fly,
   UpdateAerodynamicLoads, SetNodeLoads, Step, LaterPhases

LEMMA InterfaceStepKeeps ==
    ASSUME AssemblyAssumption, AsTurbine, [InterfaceNext]_interfaceVars
    PROVE  AsTurbine'
<1>1. CASE Next
  <2>1. pc \in Phases /\ AssemblyInv BY <1>1, NextIsOfPhases DEF AsTurbine
  <2>2. AssemblyInv' BY <1>1, <2>1, TurbineStepKeeps
  <2>3. (pc \in Phases)' BY <2>2 DEF AssemblyInv
  <2>4. QED BY <2>2, <2>3 DEF AsTurbine, LaterPhases
<1>2. CASE \/ CreateAerodynamics \/ CreateController \/ BuildTimeSeriesSchema
           \/ WriteTimeSeriesData \/ Fly \/ UpdateAerodynamicLoads \/ SetNodeLoads \/ Step
  <2>1. pc' \in LaterPhases BY <1>2, LaterSteps
  <2>2. pc' \notin Phases /\ pc' \in Phases \cup LaterPhases BY <2>1, PhasesApart
  <2>3. QED BY <2>2 DEF AsTurbine, LaterPhases, Phases
<1>3. CASE UNCHANGED interfaceVars
  <2>1. UNCHANGED vars BY <1>3 DEF interfaceVars
  <2>2. pc' = pc BY <2>1 DEF vars
  <2>3. CASE pc \in Phases
    <3>1. AssemblyInv' BY <2>1, <2>3, TurbineStepKeeps DEF AsTurbine
    <3>2. QED BY <2>2, <2>3, <3>1 DEF AsTurbine, LaterPhases, Phases
  <2>4. CASE pc \notin Phases BY <2>2, <2>4 DEF AsTurbine, LaterPhases, Phases
  <2>5. QED BY <2>3, <2>4
<1>4. QED BY <1>1, <1>2, <1>3 DEF InterfaceNext

\* Whatever the number of blades, the orders of the beams and the other inputs: at each
\* of its functions the constructor has built the beams side by side and the nodes after
\* them, placed each of them as often as its part was moved, tied every body once and
\* displaced every node by the motions of the parts it belongs to; also where the
\* constructor of the interface goes on from there.
THEOREM TurbineIsBuiltRight ==
    ASSUME AssemblyAssumption
    PROVE  (Spec => []AssemblyInv) /\ (InterfaceSpec => []AsTurbine)
<1>1. Init => AssemblyInv BY InitEstablishes
<1>2. AssemblyInv /\ [Next]_vars => AssemblyInv' BY TurbineStepKeeps
<1>3. Spec => []AssemblyInv BY <1>1, <1>2, PTL DEF Spec
<1>4. InterfaceInit => AsTurbine
  <2>1. SUFFICES ASSUME InterfaceInit PROVE AsTurbine OBVIOUS
  <2>2. AssemblyInv BY <2>1, InitEstablishes DEF InterfaceInit
  <2>3. QED BY <2>2 DEF AsTurbine, AssemblyInv
<1>5. AsTurbine /\ [InterfaceNext]_interfaceVars => AsTurbine' BY InterfaceStepKeeps
<1>6. InterfaceSpec => []AsTurbine BY <1>4, <1>5, PTL DEF InterfaceSpec
<1>7. QED BY <1>3, <1>6

-----------------------------------------------------------------------------
(* What a turbine that is built satisfies.                                   *)

LEMMA WhenBuilt ==
    ASSUME AssemblyInv, pc = "built"
    PROVE  /\ input \in Inputs /\ ControlsAreSet /\ Built /\ Assembled /\ Placed
           /\ RotorTurns /\ Moved(YawTurn, BaseMove) /\ Tied({TieOfTower}) /\ YawIsCommanded
BY DEF AssemblyInv, Built

LEMMA ControlsApart ==
    ASSUME NEW i
    PROVE  /\ <<"pitch", i>> # <<>> /\ <<"pitch", i>> # <<"torque">> /\ <<"pitch", i>> # <<"yaw">>
           /\ <<>> # <<"yaw">> /\ <<"torque">> # <<"yaw">>
           /\ \A j : <<"pitch", i>> = <<"pitch", j>> => i = j
<1>1. Len(<<"pitch", i>>) = 2 /\ Len(<<>>) = 0 BY List2
<1>2. Len(<<"torque">>) = 1 /\ Len(<<"yaw">>) = 1 BY List1
<1>3. <<"torque">>[1] = "torque" /\ <<"yaw">>[1] = "yaw" OBVIOUS
<1>4. <<"pitch", i>>[2] = i /\ \A j : <<"pitch", j>>[2] = j OBVIOUS
<1>5. <<"torque">> # <<"yaw">> BY <1>3
<1>6. \A j : <<"pitch", i>> = <<"pitch", j>> => i = j BY <1>4
<1>7. <<"pitch", i>> # <<>> /\ <<>> # <<"yaw">> BY <1>1, <1>2
<1>8. <<"pitch", i>> # <<"torque">> /\ <<"pitch", i>> # <<"yaw">> BY <1>1, <1>2
<1>9. QED BY <1>5, <1>6, <1>7, <1>8

\* Which tie a constraint is.
LEMMA TieCases ==
    ASSUME NEW c \in Ties
    PROVE  \/ \E i \in 1 .. input.blades : c = TieOfBlade(i)
           \/ \E i \in 1 .. input.blades : c = TieOfApex(i)
           \/ c = TieOfHub \/ c = TieOfAzimuth \/ c = TieOfShaft \/ c = TieOfYaw
           \/ input.nacelleMass /\ c = TieOfNacelle
BY DEF Ties

LEMMA PitchedByOne ==
    ASSUME NEW c \in Ties, NEW i, c.control = <<"pitch", i>>
    PROVE  c = TieOfBlade(i)
<1>1. CASE \E j \in 1 .. input.blades : c = TieOfBlade(j)
  <2>1. PICK j \in 1 .. input.blades : c = TieOfBlade(j) BY <1>1
  <2>2. <<"pitch", i>> = <<"pitch", j>> BY <2>1, TiesOfBlades
  <2>3. i = j BY <2>2, ControlsApart
  <2>4. QED BY <2>1, <2>3
<1>2. CASE \E j \in 1 .. input.blades : c = TieOfApex(j)
  <2>1. c.control = <<>> BY <1>2, TiesOfBlades
  <2>2. QED BY <2>1, ControlsApart
<1>3. CASE \/ c = TieOfHub \/ c = TieOfAzimuth \/ c = TieOfShaft \/ c = TieOfYaw
           \/ input.nacelleMass /\ c = TieOfNacelle
  <2>1. c.control = <<>> \/ c.control = <<"torque">> \/ c.control = <<"yaw">>
    BY <1>3, OtherTies
  <2>2. QED BY <2>1, ControlsApart
<1>4. QED BY <1>1, <1>2, <1>3, TieCases

PitchTurns(i) ==
    LET commanded == {c \in DOMAIN constraints : constraints[c].control = <<"pitch", i>>}
        placed(id) == Node(nodes, id).x0.moves
        onRotor == <<<<"cone">>, <<"azimuth", i>>, <<"tilt">>, <<"to apex">>>>
    IN /\ Cardinality(commanded) = 1
       /\ \A c \in commanded :
            /\ constraints[c].target = Root(blades[i])
            /\ placed(constraints[c].base) = onRotor
       /\ \A id \in ToSet(blades[i]) :
            placed(id) = <<<<"root">>, <<"x to z">>, <<"hub radius">>>> \o onRotor

LEMMA PitchIsRight ==
    ASSUME AssemblyAssumption, AssemblyInv
    PROVE  PitchTurnsItsBlade
<1> SUFFICES ASSUME pc = "built", NEW i \in DOMAIN control.pitch
             PROVE  PitchTurns(i)
  BY Zenon DEF PitchTurnsItsBlade, PitchTurns
<1> DEFINE commanded == {c \in DOMAIN constraints : constraints[c].control = <<"pitch", i>>}
<1>1. /\ input \in Inputs /\ ControlsAreSet /\ Placed /\ Tied({TieOfTower}) BY WhenBuilt
<1>2. i \in 1 .. input.blades
  <2>1. control.pitch = [j \in 1 .. input.blades |-> input.pitch] BY <1>1 DEF ControlsAreSet
  <2>2. DOMAIN control.pitch = 1 .. input.blades BY <2>1
  <2>3. QED BY <2>2
<1>3. /\ IsSequence(constraints) /\ Once(TieOfBlade(i))
      /\ \A k \in 1 .. Len(constraints) :
           \/ constraints[k] \in Ties
           \/ constraints[k].type = "PrescribedBC" /\ constraints[k].control = None
  <2>1. TieOfBlade(i) \in Ties BY <1>2 DEF Ties
  <2>2. QED BY <1>1, <2>1 DEF Tied
<1>4. DOMAIN constraints = 1 .. Len(constraints) BY <1>3, Elements
<1>5. PICK k \in 1 .. Len(constraints) :
        /\ constraints[k] = TieOfBlade(i)
        /\ \A j \in 1 .. Len(constraints) : constraints[j] = TieOfBlade(i) => j = k
  BY <1>3 DEF Once, OnceIn
<1>6. ASSUME NEW j \in 1 .. Len(constraints), constraints[j].control = <<"pitch", i>>
      PROVE  j = k
  <2>1. None # <<"pitch", i>> BY ControlsApart DEF None
  <2>2. constraints[j] \in Ties BY <1>3, <1>6, <2>1
  <2>3. constraints[j] = TieOfBlade(i) BY <1>6, <2>2, PitchedByOne
  <2>4. QED BY <1>5, <2>3
<1>7. commanded = {k} BY <1>4, <1>5, <1>6, TiesOfBlades
<1>8. Cardinality(commanded) = 1 BY <1>7, FS_Singleton
<1>9. constraints[k].target = Root(blades[i]) /\ constraints[k].base = apexes[i]
  BY <1>5, TiesOfBlades
<1>10. Node(nodes, apexes[i]).x0.moves = OnRotor(i) BY <1>1, <1>2 DEF Placed, Node
<1>11. << <<"root">>, <<"x to z">>, <<"hub radius">> >> \o OnRotor(i) = OnBlade(i)
  <2> DEFINE r == <<"root">>
             x == <<"x to z">>
             h == <<"hub radius">>
             c == <<"cone">>
             z == <<"azimuth", i>>
             t == <<"tilt">>
             p == <<"to apex">>
  <2>1. OnBlade(i) = <<r, x, h, c, z, t, p>> /\ OnRotor(i) = <<c, z, t, p>>
    BY DEF OnBlade, OnRotor
  <2>5. << <<"root">>, <<"x to z">>, <<"hub radius">> >> = <<r, x, h>> OBVIOUS
  <2> HIDE DEF r, x, h, c, z, t, p
  <2>2. <<r, x, h>> \o <<c, z, t, p>> = <<r, x, h, c, z, t, p>> BY Join34
  <2>3. <<r, x, h>> \o OnRotor(i) = OnBlade(i) BY <2>1, <2>2, Zenon
  <2>4. QED BY <2>3, <2>5, Zenon
<1>12. ASSUME NEW id \in ToSet(blades[i])
       PROVE  Node(nodes, id).x0.moves = << <<"root">>, <<"x to z">>, <<"hub radius">> >> \o OnRotor(i)
  <2>1. nodes[id + 1].x0.moves = OnBlade(i) BY <1>1, <1>2 DEF Placed
  <2>2. Node(nodes, id).x0.moves = OnBlade(i) BY <2>1 DEF Node
  <2>3. QED BY <2>2, <1>11, Zenon
<1>13. \A c \in commanded : /\ constraints[c].target = Root(blades[i])
                            /\ Node(nodes, constraints[c].base).x0.moves = OnRotor(i)
  BY <1>7, <1>9, <1>10
<1> HIDE DEF commanded
<1>14. OnRotor(i) = <<<<"cone">>, <<"azimuth", i>>, <<"tilt">>, <<"to apex">>>> BY DEF OnRotor
<1>15. QED BY <1>8, <1>12, <1>13, <1>14, Zenon DEF commanded, PitchTurns

\* The one constraint that commands the pitch of a blade turns that blade, whose nodes
\* were placed with the apex it turns about.
THEOREM PitchOfEveryBlade ==
    ASSUME AssemblyAssumption
    PROVE  (Spec => []PitchTurnsItsBlade) /\ (InterfaceSpec => []PitchTurnsItsBlade)
<1>1. AssemblyInv => PitchTurnsItsBlade BY PitchIsRight
<1>2. AsTurbine => PitchTurnsItsBlade
  <2>1. pc = "built" => pc \in Phases BY DEF Phases
  <2>2. QED BY <1>1, <2>1, Zenon DEF AsTurbine, PitchTurnsItsBlade
<1>3. Spec => []PitchTurnsItsBlade BY <1>1, TurbineIsBuiltRight, PTL
<1>4. InterfaceSpec => []PitchTurnsItsBlade BY <1>2, TurbineIsBuiltRight, PTL
<1>5. QED BY <1>3, <1>4

-----------------------------------------------------------------------------
(* The initial displacements and the constraints.                            *)

LEMMA JointHolds ==
    ASSUME NEW c, c.type \in {"RigidJoint", "RevoluteJoint"},
           Node(nodes, c.target).u = Node(nodes, c.base).u
    PROVE  Satisfied(c)
<1>1. \A angle : SatisfiedAt(c, angle) BY DEF SatisfiedAt
<1>2. QED BY <1>1 DEF Satisfied

LEMMA HeldHolds ==
    ASSUME NEW c, c.type = "PrescribedBC", Node(nodes, c.target).u = c.initial
    PROVE  Satisfied(c)
<1>1. \A angle : SatisfiedAt(c, angle) BY DEF SatisfiedAt
<1>2. QED BY <1>1 DEF Satisfied

LEMMA TurnHolds ==
    ASSUME NEW c, c.type = "RotationControl", NEW angle, angle # 0, NEW turn, NEW center,
           turn = Rotation(c.axis, angle) \/ turn = Rotation(Reversed(c.axis), -angle),
           center = Node(nodes, c.base).x0,
           Node(nodes, c.target).u = << <<"turn", turn, center>> >> \o Node(nodes, c.base).u,
           Node(nodes, c.target).x0 = center \/ Node(nodes, c.target).x0 \in PointsOf(c)
    PROVE  SatisfiedAt(c, angle)
<1> DEFINE b == Node(nodes, c.base)
           t == Node(nodes, c.target)
<1>1. turn \in {Rotation(c.axis, angle), Rotation(Reversed(c.axis), -angle)} OBVIOUS
<1>2. center \in {b.x0} \cup PointsOf(c) OBVIOUS
<1>3. /\ t.u = << <<"turn", turn, center>> >> \o b.u
      /\ t.x0 \in {center} \cup PointsOf(c)
  OBVIOUS
<1>4. \E w \in {Rotation(c.axis, angle), Rotation(Reversed(c.axis), -angle)},
         z \in {b.x0} \cup PointsOf(c) :
        t.u = << <<"turn", w, z>> >> \o b.u /\ t.x0 \in {z} \cup PointsOf(c)
  BY <1>1, <1>2, <1>3, Zenon
<1>5. c.type # "PrescribedBC" /\ c.type \notin {"RigidJoint", "RevoluteJoint"} OBVIOUS
<1>6. QED BY <1>4, <1>5, Zenon DEF SatisfiedAt

LEMMA NoTurnHolds ==
    ASSUME NEW c, c.type = "RotationControl",
           Node(nodes, c.target).u = Node(nodes, c.base).u
    PROVE  SatisfiedAt(c, 0)
BY DEF SatisfiedAt

\* Where the nodes of a turbine that is built have moved.
LEMMA WhereMoved ==
    ASSUME AssemblyAssumption, AssemblyInv, pc = "built"
    PROVE  /\ \A i \in 1 .. input.blades :
                /\ Node(nodes, apexes[i]).u = YawTurn \o BaseMove
                /\ Node(nodes, Root(blades[i])).u = PitchTurn(i) \o (YawTurn \o BaseMove)
                /\ Node(nodes, Root(blades[i])).x0.moves = OnBlade(i)
           /\ Node(nodes, part["hub"]).u = YawTurn \o BaseMove
           /\ Node(nodes, part["azimuth"]).u = YawTurn \o BaseMove
           /\ Node(nodes, part["shaft_base"]).u = YawTurn \o BaseMove
           /\ Node(nodes, part["yaw_bearing"]).u = YawTurn \o BaseMove
           /\ input.nacelleMass => Node(nodes, part["nacelle_cm"]).u = YawTurn \o BaseMove
           /\ Node(nodes, TowerTop).u = BaseMove
<1> DEFINE h == part["hub"]
           m == Len(nodes)
<1>1. input \in Inputs /\ Assembled /\ Placed /\ Moved(YawTurn, BaseMove) BY WhenBuilt
<1>2. /\ h \in Nat /\ First \in {4, 5} /\ (input.nacelleMass <=> First = 5)
      /\ input.blades \in Nat /\ m = h + First + input.blades
      /\ \A i \in 1 .. input.blades : apexes[i] \in h + First .. m - 1
  BY <1>1, WhereNodesAre
<1>3. /\ part["azimuth"] = h + 1 /\ part["shaft_base"] = h + 2 /\ part["yaw_bearing"] = h + 3
      /\ input.nacelleMass => part["nacelle_cm"] = h + 4
  BY <1>1 DEF Assembled, BetweenNodes
<1>4. \A id \in h .. m - 1 : Node(nodes, id).u = YawTurn \o BaseMove
  BY <1>1 DEF Moved, Node
<1>5. TowerTop \in ToSet(tower) /\ \A i \in 1 .. input.blades : Root(blades[i]) \in ToSet(blades[i])
  BY <1>1, SpotsOfIds
<1>6. Node(nodes, TowerTop).u = BaseMove BY <1>1, <1>5 DEF Moved, Node
<1>7. \A i \in 1 .. input.blades :
        /\ Node(nodes, Root(blades[i])).u = PitchTurn(i) \o (YawTurn \o BaseMove)
        /\ Node(nodes, Root(blades[i])).x0.moves = OnBlade(i)
  BY <1>1, <1>5 DEF Moved, Placed, Node
<1> HIDE DEF h, m
<1>8. /\ h \in h .. m - 1 /\ h + 1 \in h .. m - 1 /\ h + 2 \in h .. m - 1 /\ h + 3 \in h .. m - 1
      /\ input.nacelleMass => h + 4 \in h .. m - 1
      /\ h + First .. m - 1 \subseteq h .. m - 1
  <2>1. /\ h \in Nat /\ First \in {4, 5} /\ (input.nacelleMass <=> First = 5)
        /\ input.blades \in Nat /\ m = h + First + input.blades /\ input.blades >= 1
    BY <1>1, <1>2, InputTypes
  <2>2. QED BY <2>1
<1>9. \A i \in 1 .. input.blades : apexes[i] \in h .. m - 1 BY <1>2, <1>8
<1>10. QED BY <1>3, <1>4, <1>6, <1>7, <1>8, <1>9 DEF h

LEMMA BladeTieHolds ==
    ASSUME AssemblyAssumption, AssemblyInv, pc = "built", NEW i \in 1 .. input.blades
    PROVE  SatisfiedAt(TieOfBlade(i), - input.pitch)
<1> DEFINE c == TieOfBlade(i)
           a == Node(nodes, apexes[i]).x0
           root == Node(nodes, Root(blades[i])).x0
           rest == YawTurn \o BaseMove
           turn == Rotation(Line(apexes[i], Root(blades[i])), input.pitch)
<1>1. /\ c.type = "RotationControl" /\ c.base = apexes[i] /\ c.target = Root(blades[i])
      /\ c.axis = <<root, a>>
  BY TiesOfBlades DEF Line
<1>2. /\ Node(nodes, c.base).u = rest /\ Node(nodes, c.base).x0 = a
      /\ Node(nodes, c.target).u = PitchTurn(i) \o rest /\ Node(nodes, c.target).x0 = root
      /\ root.moves = OnBlade(i)
  BY <1>1, WhereMoved
<1>3. input \in Inputs /\ input.pitch \in Int BY WhenBuilt, InputTypes
<1>4. IsSequence(rest)
  <2>1. IsSequence(YawTurn) /\ IsSequence(BaseMove) BY TurnsAreSequences
  <2>2. QED BY <2>1, Joined
<1>5. PitchTurn(i) = IF input.pitch = 0 THEN <<>> ELSE << <<"turn", turn, a>> >>
  BY DEF PitchTurn
<1>6. turn = Rotation(Reversed(c.axis), - (- input.pitch))
  <2>1. Reversed(c.axis) = <<a, root>> BY <1>1 DEF Reversed
  <2>2. Line(apexes[i], Root(blades[i])) = <<a, root>> BY DEF Line
  <2>3. - (- input.pitch) = input.pitch BY <1>3
  <2>4. QED BY <2>1, <2>2, <2>3
<1>7. root \in PointsOf(c)
  <2>1. c.axis # VerticalAxis
    <3>1. VerticalAxis[1].moves = <<>> BY DEF VerticalAxis, At
    <3>2. c.axis[1] = root BY <1>1
    <3>3. Len(OnBlade(i)) = 7 /\ Len(<<>>) = 0 BY List7 DEF OnBlade
    <3>4. OnBlade(i) # <<>> BY <3>3
    <3>5. QED BY <1>2, <3>1, <3>2, <3>4
  <2>2. ToSet(<<root, a>>) = {root, a} BY Set2
  <2>3. QED BY <1>1, <2>1, <2>2 DEF PointsOf
<1> HIDE DEF c, a, root, rest, turn
<1>8. CASE input.pitch = 0
  <2>1. PitchTurn(i) \o rest = rest
    <3>1. PitchTurn(i) = <<>> BY <1>5, <1>8
    <3>2. <<>> \o rest = rest BY <1>4, JoinNone
    <3>3. QED BY <3>1, <3>2
  <2>2. Node(nodes, c.target).u = Node(nodes, c.base).u BY <1>2, <2>1
  <2>3. SatisfiedAt(c, 0) BY <1>1, <2>2, NoTurnHolds
  <2>4. - input.pitch = 0
    <3>1. \A x \in Int : (- x) = 0 - x OBVIOUS
    <3>2. (- input.pitch) = 0 - input.pitch BY <1>3, <3>1
    <3>3. QED BY <1>8, <3>2
  <2>5. QED BY <2>3, <2>4 DEF c
<1>9. CASE input.pitch # 0
  <2> DEFINE w == - input.pitch
  <2>1. w # 0 BY <1>3, <1>9
  <2>2. turn = Rotation(Reversed(c.axis), - w) BY <1>6
  <2>3. Node(nodes, c.target).u = << <<"turn", turn, a>> >> \o Node(nodes, c.base).u
    BY <1>2, <1>5, <1>9
  <2> HIDE DEF w
  <2>4. SatisfiedAt(c, w) BY <1>1, <1>2, <1>7, <2>1, <2>2, <2>3, TurnHolds
  <2>5. QED BY <2>4 DEF w, c
<1>10. QED BY <1>8, <1>9

LEMMA YawTieHolds ==
    ASSUME AssemblyAssumption, AssemblyInv, pc = "built", YawBearingAtTowerTop
    PROVE  Satisfied(TieOfYaw)
<1> DEFINE c == TieOfYaw
           top == Node(nodes, TowerTop).x0
           turn == Rotation(VerticalAxis, input.yaw)
<1>1. /\ c.type = "RotationControl" /\ c.base = TowerTop /\ c.target = part["yaw_bearing"]
      /\ c.axis = VerticalAxis /\ c.control = <<"yaw">>
  BY OtherTies
<1>2. /\ Node(nodes, c.base).u = BaseMove /\ Node(nodes, c.base).x0 = top
      /\ Node(nodes, c.target).u = YawTurn \o BaseMove /\ Node(nodes, c.target).x0 = top
  BY <1>1, WhereMoved DEF YawBearingAtTowerTop
<1>3. /\ input \in Inputs /\ input.yaw \in Int /\ control.yaw = input.yaw
  BY WhenBuilt, InputTypes DEF YawIsCommanded
<1>4. IsSequence(BaseMove) BY TurnsAreSequences
<1>5. YawTurn = IF input.yaw = 0 THEN <<>> ELSE << <<"turn", turn, top>> >> BY DEF YawTurn
<1>6. SatisfiedAt(c, control.yaw) => Satisfied(c) BY <1>1 DEF Satisfied
<1>7. turn = Rotation(c.axis, input.yaw) BY <1>1
<1> HIDE DEF c, top, turn
<1>8. CASE input.yaw = 0
  <2>1. YawTurn \o BaseMove = BaseMove
    <3>1. YawTurn = <<>> BY <1>5, <1>8
    <3>2. <<>> \o BaseMove = BaseMove BY <1>4, JoinNone
    <3>3. QED BY <3>1, <3>2
  <2>2. Node(nodes, c.target).u = Node(nodes, c.base).u BY <1>2, <2>1
  <2>3. SatisfiedAt(c, 0) BY <1>1, <2>2, NoTurnHolds
  <2>4. QED BY <1>3, <1>6, <1>8, <2>3 DEF c
<1>9. CASE input.yaw # 0
  <2>1. Node(nodes, c.target).u = << <<"turn", turn, top>> >> \o Node(nodes, c.base).u
    BY <1>2, <1>5, <1>9
  <2>2. SatisfiedAt(c, input.yaw) BY <1>1, <1>2, <1>7, <1>9, <2>1, TurnHolds
  <2>3. QED BY <1>3, <1>6, <2>2 DEF c
<1>10. QED BY <1>8, <1>9

StartsRight(c) ==
    CASE c.type = "RotationControl" /\ c.control # <<"yaw">> -> SatisfiedAt(c, -input.pitch)
      [] c.control = <<"yaw">> -> YawBearingAtTowerTop => Satisfied(c)
      [] OTHER -> Satisfied(c)

LEMMA PlainStarts ==
    ASSUME NEW c, c.type # "RotationControl", Satisfied(c)
    PROVE  StartsRight(c)
BY DEF StartsRight

LEMMA TieStarts ==
    ASSUME AssemblyAssumption, AssemblyInv, pc = "built", NEW c \in Ties \cup {TieOfTower}
    PROVE  StartsRight(c)
<1>1. CASE \E i \in 1 .. input.blades : c = TieOfBlade(i)
  <2>1. PICK i \in 1 .. input.blades : c = TieOfBlade(i) BY <1>1
  <2>2. c.type = "RotationControl" /\ c.control # <<"yaw">> BY <2>1, TiesOfBlades, ControlsApart
  <2>3. SatisfiedAt(c, - input.pitch) BY <2>1, BladeTieHolds
  <2>4. QED BY <2>2, <2>3 DEF StartsRight
<1>2. CASE \E i \in 1 .. input.blades : c = TieOfApex(i)
  <2>1. PICK i \in 1 .. input.blades : c = TieOfApex(i) BY <1>2
  <2>2. c.type = "RigidJoint" /\ c.target = apexes[i] /\ c.base = part["hub"]
    BY <2>1, TiesOfBlades
  <2>4. Node(nodes, apexes[i]).u = Node(nodes, part["hub"]).u
    <3>1. Node(nodes, apexes[i]).u = YawTurn \o BaseMove BY WhereMoved
    <3>2. Node(nodes, part["hub"]).u = YawTurn \o BaseMove BY WhereMoved
    <3>3. QED BY <3>1, <3>2, Zenon
  <2>5. Node(nodes, c.target).u = Node(nodes, c.base).u BY <2>2, <2>4, Zenon
  <2>3. QED BY <2>2, <2>5, JointHolds, PlainStarts
<1>3. CASE \/ c = TieOfHub \/ c = TieOfAzimuth \/ c = TieOfShaft
           \/ input.nacelleMass /\ c = TieOfNacelle
  <2>1. c.type \in {"RigidJoint", "RevoluteJoint"} BY <1>3, OtherTies
  <2>2. Node(nodes, c.target).u = Node(nodes, c.base).u
    <3> DEFINE rest == YawTurn \o BaseMove
    <3>1. /\ Node(nodes, part["hub"]).u = rest /\ Node(nodes, part["azimuth"]).u = rest
          /\ Node(nodes, part["shaft_base"]).u = rest /\ Node(nodes, part["yaw_bearing"]).u = rest
          /\ input.nacelleMass => Node(nodes, part["nacelle_cm"]).u = rest
      BY WhereMoved
    <3> HIDE DEF rest
    <3>2. CASE c = TieOfHub
      <4>1. c.target = part["hub"] /\ c.base = part["azimuth"] BY <3>2, OtherTies
      <4>2. QED BY <3>1, <4>1
    <3>3. CASE c = TieOfAzimuth
      <4>1. c.target = part["azimuth"] /\ c.base = part["shaft_base"] BY <3>3, OtherTies
      <4>2. QED BY <3>1, <4>1
    <3>4. CASE c = TieOfShaft
      <4>1. c.target = part["shaft_base"] /\ c.base = part["yaw_bearing"] BY <3>4, OtherTies
      <4>2. QED BY <3>1, <4>1
    <3>5. CASE input.nacelleMass /\ c = TieOfNacelle
      <4>1. c.target = part["nacelle_cm"] /\ c.base = part["yaw_bearing"] BY <3>5, OtherTies
      <4>2. QED BY <3>1, <3>5, <4>1
    <3>6. QED BY <1>3, <3>2, <3>3, <3>4, <3>5
  <2>3. QED BY <2>1, <2>2, JointHolds, PlainStarts
<1>4. CASE c = TieOfYaw
  <2>1. c.control = <<"yaw">> BY <1>4, OtherTies
  <2>2. YawBearingAtTowerTop => Satisfied(c) BY <1>4, YawTieHolds
  <2>3. QED BY <2>1, <2>2 DEF StartsRight
<1>5. CASE c = TieOfTower
  <2>1. /\ c.type = "PrescribedBC" /\ c.target = Root(tower)
        /\ c.initial = Node(nodes, Root(tower)).u
    BY <1>5 DEF TieOfTower, PrescribedBC, Constraint
  <2>2. QED BY <2>1, HeldHolds, PlainStarts
<1>6. CASE c \in Ties
  <2>1. SUFFICES ASSUME /\ ~ \E i \in 1 .. input.blades : c = TieOfBlade(i)
                        /\ ~ \E i \in 1 .. input.blades : c = TieOfApex(i)
                 PROVE  StartsRight(c)
    BY <1>1, <1>2, Zenon
  <2>2. \/ c = TieOfHub \/ c = TieOfAzimuth \/ c = TieOfShaft \/ c = TieOfYaw
        \/ input.nacelleMass /\ c = TieOfNacelle
    BY <1>6, <2>1, TieCases
  <2>3. QED BY <1>3, <1>4, <2>2
<1>7. QED BY <1>5, <1>6

LEMMA StartIsRight ==
    ASSUME AssemblyAssumption, AssemblyInv
    PROVE  StartSatisfiesConstraints
<1> SUFFICES ASSUME pc = "built", ~ input.prescribedRoots, NEW i \in DOMAIN constraints
             PROVE  StartsRight(constraints[i])
  BY Zenon DEF StartSatisfiesConstraints, StartsRight
<1>1. Tied({TieOfTower}) BY WhenBuilt
<1>2. IsSequence(constraints) BY <1>1 DEF Tied
<1>3. DOMAIN constraints = 1 .. Len(constraints) BY <1>2, Elements
<1>4. constraints[i] \in Ties \cup {TieOfTower} BY <1>1, <1>3 DEF Tied
<1>5. QED BY <1>4, TieStarts

\* The nodes of a turbine start where its constraints hold them, however pitch, yaw and
\* the base are given: but for a pitch the other way round, and a yaw bearing that is not
\* at the top of the tower.
THEOREM StartOfEveryConstraint ==
    ASSUME AssemblyAssumption
    PROVE  (Spec => []StartSatisfiesConstraints) /\ (InterfaceSpec => []StartSatisfiesConstraints)
<1>1. AssemblyInv => StartSatisfiesConstraints BY StartIsRight
<1>2. AsTurbine => StartSatisfiesConstraints
  <2>1. pc = "built" => pc \in Phases BY DEF Phases
  <2>2. QED BY <1>1, <2>1, Zenon DEF AsTurbine, StartSatisfiesConstraints
<1>3. Spec => []StartSatisfiesConstraints BY <1>1, TurbineIsBuiltRight, PTL
<1>4. InterfaceSpec => []StartSatisfiesConstraints BY <1>2, TurbineIsBuiltRight, PTL
<1>5. QED BY <1>3, <1>4

-----------------------------------------------------------------------------
(* The bodies, and the constraint each is held by.                           *)

BeamBody(b) == <<"beam", b>>
NodeBody(id) == <<"node", id>>

LEMMA BodiesApart ==
    /\ \A b, c : BeamBody(b) = BeamBody(c) => b = c
    /\ \A b, c : NodeBody(b) = NodeBody(c) => b = c
    /\ \A b, c : BeamBody(b) # NodeBody(c)
    /\ \A b : BeamBody(b) # Ground /\ NodeBody(b) # Ground
<1>1. \A b : BeamBody(b)[1] = "beam" /\ BeamBody(b)[2] = b BY DEF BeamBody
<1>2. \A b : NodeBody(b)[1] = "node" /\ NodeBody(b)[2] = b BY DEF NodeBody
<1>3. Ground[1] = "ground" BY DEF Ground
<1>4. ASSUME NEW b PROVE BeamBody(b) # Ground /\ NodeBody(b) # Ground BY <1>1, <1>2, <1>3
<1>5. ASSUME NEW b, NEW c PROVE BeamBody(b) # NodeBody(c) BY <1>1, <1>2
<1>6. ASSUME NEW b, NEW c, BeamBody(b) = BeamBody(c) PROVE b = c BY <1>1, <1>6
<1>7. ASSUME NEW b, NEW c, NodeBody(b) = NodeBody(c) PROVE b = c BY <1>2, <1>7
<1>8. QED BY <1>4, <1>5, <1>6, <1>7

\* Where the bodies are among the nodes.
LEMMA WhereBodiesAre ==
    ASSUME AssemblyAssumption, AssemblyInv, pc = "built"
    PROVE  /\ part["hub"] \in Nat /\ input.prior \in Nat /\ input.prior <= part["hub"]
           /\ input.blades \in Nat /\ input.blades >= 1
           /\ First \in {4, 5} /\ (input.nacelleMass <=> First = 5)
           /\ Len(nodes) = part["hub"] + First + input.blades
           /\ part["azimuth"] = part["hub"] + 1 /\ part["shaft_base"] = part["hub"] + 2
           /\ part["yaw_bearing"] = part["hub"] + 3
           /\ input.nacelleMass => part["nacelle_cm"] = part["hub"] + 4
           /\ DOMAIN beams = 1 .. input.blades + 1
<1>1. input \in Inputs /\ Assembled BY WhenBuilt
<1>2. /\ part["azimuth"] = part["hub"] + 1 /\ part["shaft_base"] = part["hub"] + 2
      /\ part["yaw_bearing"] = part["hub"] + 3
      /\ input.nacelleMass => part["nacelle_cm"] = part["hub"] + 4
  BY <1>1 DEF Assembled, BetweenNodes
<1>3. DOMAIN beams = 1 .. input.blades + 1
  <2>1. IsSequence(beams) /\ Len(beams) = input.blades + 1
    BY <1>1 DEF Assembled, BeamsTo, SideBySide
  <2>2. QED BY <2>1, Elements
<1>4. QED BY <1>1, <1>2, <1>3, WhereNodesAre

LEMMA WhereBeamsAre ==
    ASSUME AssemblyAssumption, AssemblyInv, pc = "built"
    PROVE  /\ \A b \in 1 .. input.blades + 1 :
                ToSet(beams[b]) \subseteq input.prior .. part["hub"] - 1
           /\ \A b, c \in 1 .. input.blades + 1 : b # c => ToSet(beams[b]) \cap ToSet(beams[c]) = {}
           /\ \A id \in input.prior .. part["hub"] - 1 :
                \E b \in 1 .. input.blades + 1 : id \in ToSet(beams[b])
           /\ \A i \in 1 .. input.blades : Root(blades[i]) \in ToSet(beams[i])
           /\ TowerTop \in ToSet(beams[input.blades + 1])
           /\ Root(tower) \in ToSet(beams[input.blades + 1])
<1> DEFINE h == part["hub"]
           count == input.blades
<1>1. input \in Inputs /\ Assembled BY WhenBuilt
<1>2. /\ BeamsTo(h) /\ Len(beams) = count + 1 /\ tower = beams[count + 1]
      /\ \A i \in 1 .. count : blades[i] = beams[i]
  BY <1>1 DEF Assembled, BladesAre
<1>3. /\ \A i \in 1 .. count : Root(blades[i]) \in ToSet(blades[i])
      /\ TowerTop \in ToSet(tower) /\ Root(tower) \in ToSet(tower)
  BY <1>1, SpotsOfIds
<1> HIDE DEF h, count
<1>4. /\ \A b \in 1 .. count + 1 : ToSet(beams[b]) \subseteq input.prior .. h - 1
      /\ \A b, c \in 1 .. count + 1 : b # c => ToSet(beams[b]) \cap ToSet(beams[c]) = {}
      /\ \A id \in input.prior .. h - 1 : \E b \in 1 .. count + 1 : id \in ToSet(beams[b])
  BY <1>2 DEF BeamsTo, SideBySide
<1>5. /\ \A i \in 1 .. count : Root(blades[i]) \in ToSet(beams[i])
      /\ TowerTop \in ToSet(beams[count + 1]) /\ Root(tower) \in ToSet(beams[count + 1])
  BY <1>2, <1>3
<1>6. QED BY <1>4, <1>5, Zenon DEF h, count

LEMMA BodyOfBeam ==
    ASSUME AssemblyAssumption, AssemblyInv, pc = "built",
           NEW b \in 1 .. input.blades + 1, NEW id \in ToSet(beams[b])
    PROVE  Body(id) = BeamBody(b)
<1>1. DOMAIN beams = 1 .. input.blades + 1 BY WhereBodiesAre
<1>2. \A c \in DOMAIN beams : id \in ToSet(beams[c]) => c = b BY <1>1, WhereBeamsAre
<1>3. \E c \in DOMAIN beams : id \in ToSet(beams[c]) BY <1>1
<1> DEFINE owner == CHOOSE c \in DOMAIN beams : id \in ToSet(beams[c])
<1>4. owner \in DOMAIN beams /\ id \in ToSet(beams[owner]) BY <1>3
<1>5. Body(id) = <<"beam", owner>> BY <1>3, Zenon DEF Body
<1> HIDE DEF owner
<1>6. owner = b BY <1>2, <1>4
<1>7. QED BY <1>5, <1>6 DEF BeamBody

LEMMA BodyOfNode ==
    ASSUME AssemblyAssumption, AssemblyInv, pc = "built",
           NEW id \in part["hub"] .. Len(nodes) - 1
    PROVE  Body(id) = NodeBody(id)
<1> DEFINE h == part["hub"]
           m == Len(nodes)
           a == input.prior
<1>1. DOMAIN beams = 1 .. input.blades + 1 BY WhereBodiesAre
<1>2. h \in Nat /\ a \in Nat BY WhereBodiesAre
<1>3. \A b \in 1 .. input.blades + 1 : ToSet(beams[b]) \subseteq a .. h - 1 BY WhereBeamsAre
<1>4. m \in Nat
  <2>1. m = h + First + input.blades /\ First \in {4, 5} /\ input.blades \in Nat
    BY WhereBodiesAre
  <2> HIDE DEF h, m
  <2>2. QED BY <1>2, <2>1
<1>5. id \in h .. m - 1 OBVIOUS
<1> HIDE DEF h, m, a
<1>6. id \notin a .. h - 1 BY <1>2, <1>4, <1>5
<1>7. ~ \E b \in DOMAIN beams : id \in ToSet(beams[b]) BY <1>1, <1>3, <1>6
<1>8. QED BY <1>7 DEF Body, NodeBody

LEMMA BodiesAre ==
    ASSUME AssemblyAssumption, AssemblyInv, pc = "built", NEW body
    PROVE  body \in Bodies <=> \/ \E b \in 1 .. input.blades + 1 : body = BeamBody(b)
                               \/ \E id \in part["hub"] .. Len(nodes) - 1 : body = NodeBody(id)
<1> DEFINE h == part["hub"]
           m == Len(nodes)
           a == input.prior
           count == input.blades
<1>1. /\ h \in Nat /\ a \in Nat /\ a <= h /\ count \in Nat /\ count >= 1 /\ First \in {4, 5}
      /\ m = h + First + count
  BY WhereBodiesAre
<1>2. /\ \A b \in 1 .. count + 1 : Root(beams[b]) \in ToSet(beams[b])
  <2>1. BeamsTo(h) /\ Len(beams) = count + 1 BY WhenBuilt DEF Assembled
  <2> HIDE DEF h, count
  <2>2. \A b \in 1 .. count + 1 : IsSequence(beams[b]) /\ 1 <= Len(beams[b])
    BY <2>1 DEF BeamsTo, SideBySide
  <2>3. QED BY <2>2, RootOf
<1>3. /\ \A b \in 1 .. count + 1 : ToSet(beams[b]) \subseteq a .. h - 1
      /\ \A id \in a .. h - 1 : \E b \in 1 .. count + 1 : id \in ToSet(beams[b])
  BY WhereBeamsAre
<1>4. \A b \in 1 .. count + 1 : \A id \in ToSet(beams[b]) : Body(id) = BeamBody(b) BY BodyOfBeam
<1>5. \A id \in h .. m - 1 : Body(id) = NodeBody(id) BY BodyOfNode
<1>6. Bodies = {Body(id) : id \in a .. m - 1} BY DEF Bodies, TurbineIds
<1> HIDE DEF h, m, a, count
<1>7. /\ a .. h - 1 \subseteq a .. m - 1 /\ h .. m - 1 \subseteq a .. m - 1
      /\ \A id \in a .. m - 1 : id \in a .. h - 1 \/ id \in h .. m - 1
  BY <1>1
<1>8. ASSUME NEW b \in 1 .. count + 1 PROVE BeamBody(b) \in Bodies
  <2>1. Root(beams[b]) \in a .. m - 1 BY <1>2, <1>3, <1>7
  <2>2. Body(Root(beams[b])) = BeamBody(b) BY <1>2, <1>4
  <2>3. QED BY <1>6, <2>1, <2>2
<1>9. ASSUME NEW id \in h .. m - 1 PROVE NodeBody(id) \in Bodies BY <1>5, <1>6, <1>7
<1>10. ASSUME body \in Bodies
       PROVE  \/ \E b \in 1 .. count + 1 : body = BeamBody(b)
              \/ \E id \in h .. m - 1 : body = NodeBody(id)
  <2>1. PICK id \in a .. m - 1 : body = Body(id) BY <1>6, <1>10
  <2>2. CASE id \in a .. h - 1
    <3>1. PICK b \in 1 .. count + 1 : id \in ToSet(beams[b]) BY <1>3, <2>2
    <3>2. body = BeamBody(b) BY <1>4, <2>1, <3>1
    <3>3. QED BY <3>2
  <2>3. CASE id \in h .. m - 1
    <3>1. body = NodeBody(id) BY <1>5, <2>1, <2>3
    <3>2. QED BY <2>3, <3>1
  <2>4. QED BY <1>7, <2>2, <2>3
<1>11. QED BY <1>8, <1>9, <1>10 DEF h, m, count

AllTies == Ties \cup {TieOfTower}
TieOfBeam(b) == IF b = input.blades + 1 THEN TieOfTower ELSE TieOfBlade(b)
TieOfNode(id) ==
    CASE id = part["hub"] -> TieOfHub
      [] id = part["hub"] + 1 -> TieOfAzimuth
      [] id = part["hub"] + 2 -> TieOfShaft
      [] id = part["hub"] + 3 -> TieOfYaw
      [] id = part["hub"] + 4 /\ input.nacelleMass -> TieOfNacelle
      [] id >= part["hub"] + First -> TieOfApex(id - (part["hub"] + First) + 1)

LEMMA TieOfNodeIs ==
    ASSUME AssemblyAssumption, AssemblyInv, pc = "built"
    PROVE  /\ TieOfNode(part["hub"]) = TieOfHub
           /\ TieOfNode(part["azimuth"]) = TieOfAzimuth
           /\ TieOfNode(part["shaft_base"]) = TieOfShaft
           /\ TieOfNode(part["yaw_bearing"]) = TieOfYaw
           /\ input.nacelleMass => TieOfNode(part["nacelle_cm"]) = TieOfNacelle
           /\ \A i \in 1 .. input.blades : TieOfNode(apexes[i]) = TieOfApex(i)
<1> DEFINE h == part["hub"]
           count == input.blades
<1>1. /\ h \in Nat /\ count \in Nat /\ First \in {4, 5} /\ (input.nacelleMass <=> First = 5)
      /\ part["azimuth"] = h + 1 /\ part["shaft_base"] = h + 2 /\ part["yaw_bearing"] = h + 3
      /\ input.nacelleMass => part["nacelle_cm"] = h + 4
  BY WhereBodiesAre
<1>2. \A i \in 1 .. count : apexes[i] = h + First + i - 1
  BY WhenBuilt DEF Assembled, BetweenNodes
<1>3. \A id :
        TieOfNode(id) =
          CASE id = h -> TieOfHub
            [] id = h + 1 -> TieOfAzimuth
            [] id = h + 2 -> TieOfShaft
            [] id = h + 3 -> TieOfYaw
            [] id = h + 4 /\ input.nacelleMass -> TieOfNacelle
            [] id >= h + First -> TieOfApex(id - (h + First) + 1)
  BY Zenon DEF TieOfNode
<1> HIDE DEF h, count
<1>4. TieOfNode(h) = TieOfHub
  <2>1. h # h + 1 /\ h # h + 2 /\ h # h + 3 /\ h # h + 4 /\ ~ (h >= h + First) BY <1>1
  <2>2. QED BY <1>3, <2>1
<1>5. TieOfNode(h + 1) = TieOfAzimuth
  <2> DEFINE x == h + 1
  <2>1. x # h /\ x # h + 2 /\ x # h + 3 /\ x # h + 4 /\ ~ (x >= h + First) BY <1>1
  <2>2. QED BY <1>3, <2>1
<1>6. TieOfNode(h + 2) = TieOfShaft
  <2> DEFINE x == h + 2
  <2>1. x # h /\ x # h + 1 /\ x # h + 3 /\ x # h + 4 /\ ~ (x >= h + First) BY <1>1
  <2>2. QED BY <1>3, <2>1
<1>7. TieOfNode(h + 3) = TieOfYaw
  <2> DEFINE x == h + 3
  <2>1. x # h /\ x # h + 1 /\ x # h + 2 /\ x # h + 4 /\ ~ (x >= h + First) BY <1>1
  <2>2. QED BY <1>3, <2>1
<1>8. ASSUME input.nacelleMass PROVE TieOfNode(h + 4) = TieOfNacelle
  <2> DEFINE x == h + 4
  <2>1. x # h /\ x # h + 1 /\ x # h + 2 /\ x # h + 3 /\ ~ (x >= h + First) BY <1>1, <1>8
  <2>2. QED BY <1>3, <1>8, <2>1
<1>9. ASSUME NEW i \in 1 .. count PROVE TieOfNode(apexes[i]) = TieOfApex(i)
  <2> DEFINE x == apexes[i]
  <2>1. x = h + First + i - 1 BY <1>2
  <2>2. i \in Nat /\ i >= 1 BY <1>1
  <2> HIDE DEF x
  <2>3. /\ x # h /\ x # h + 1 /\ x # h + 2 /\ x # h + 3 /\ x >= h + First
        /\ ~ (x = h + 4 /\ input.nacelleMass) /\ x - (h + First) + 1 = i
    BY <1>1, <2>1, <2>2
  <2>4. TieOfNode(x) = TieOfApex(x - (h + First) + 1) BY <1>3, <2>3
  <2>5. QED BY <2>3, <2>4 DEF x
<1>10. QED BY <1>1, <1>4, <1>5, <1>6, <1>7, <1>8, <1>9 DEF h, count

\* The ties and what they hold.
LEMMA NodesAre ==
    ASSUME AssemblyAssumption, AssemblyInv, pc = "built",
           NEW id \in part["hub"] .. Len(nodes) - 1
    PROVE  \/ id = part["hub"] \/ id = part["azimuth"] \/ id = part["shaft_base"]
           \/ id = part["yaw_bearing"]
           \/ input.nacelleMass /\ id = part["nacelle_cm"]
           \/ \E i \in 1 .. input.blades : id = apexes[i]
<1> DEFINE h == part["hub"]
           m == Len(nodes)
<1>1. /\ h \in Nat /\ First \in {4, 5} /\ (input.nacelleMass <=> First = 5)
      /\ input.blades \in Nat /\ m = h + First + input.blades
      /\ part["azimuth"] = h + 1 /\ part["shaft_base"] = h + 2 /\ part["yaw_bearing"] = h + 3
      /\ input.nacelleMass => part["nacelle_cm"] = h + 4
  BY WhereBodiesAre
<1>2. Apexes = h + First .. m - 1 BY WhenBuilt, WhereNodesAre
<1>3. id \in h .. m - 1 OBVIOUS
<1> HIDE DEF h, m
<1>4. \/ id = h \/ id = h + 1 \/ id = h + 2 \/ id = h + 3
      \/ First = 5 /\ id = h + 4
      \/ id \in h + First .. m - 1
  BY <1>1, <1>3
<1>5. CASE id \in h + First .. m - 1
  <2>1. id \in Apexes BY <1>2, <1>5
  <2>2. \E i \in 1 .. input.blades : id = apexes[i] BY <2>1 DEF Apexes
  <2>3. QED BY <2>2
<1>6. QED BY <1>1, <1>4, <1>5 DEF h

LEMMA PartsAreNodes ==
    ASSUME AssemblyAssumption, AssemblyInv, pc = "built"
    PROVE  /\ part["hub"] \in part["hub"] .. Len(nodes) - 1
           /\ part["azimuth"] \in part["hub"] .. Len(nodes) - 1
           /\ part["shaft_base"] \in part["hub"] .. Len(nodes) - 1
           /\ part["yaw_bearing"] \in part["hub"] .. Len(nodes) - 1
           /\ input.nacelleMass => part["nacelle_cm"] \in part["hub"] .. Len(nodes) - 1
           /\ \A i \in 1 .. input.blades : apexes[i] \in part["hub"] .. Len(nodes) - 1
<1> DEFINE h == part["hub"]
           m == Len(nodes)
<1>1. /\ h \in Nat /\ First \in {4, 5} /\ (input.nacelleMass <=> First = 5)
      /\ input.blades \in Nat /\ m = h + First + input.blades
      /\ part["azimuth"] = h + 1 /\ part["shaft_base"] = h + 2 /\ part["yaw_bearing"] = h + 3
      /\ input.nacelleMass => part["nacelle_cm"] = h + 4
  BY WhereBodiesAre
<1>2. \A i \in 1 .. input.blades : apexes[i] \in h + First .. m - 1 BY WhenBuilt, WhereNodesAre
<1>3. input.blades >= 1 BY WhereBodiesAre
<1> HIDE DEF h, m
<1>4. /\ h \in h .. m - 1 /\ h + 1 \in h .. m - 1 /\ h + 2 \in h .. m - 1 /\ h + 3 \in h .. m - 1
      /\ First = 5 => h + 4 \in h .. m - 1
      /\ h + First .. m - 1 \subseteq h .. m - 1
  BY <1>1, <1>3
<1>5. QED BY <1>1, <1>2, <1>4 DEF h, m

LEMMA BeamIsTied ==
    ASSUME AssemblyAssumption, AssemblyInv, pc = "built", NEW b \in 1 .. input.blades + 1
    PROVE  TieOfBeam(b) \in AllTies /\ Body(TieOfBeam(b).target) = BeamBody(b)
<1>1. input.blades \in Nat BY WhereBodiesAre
<1>2. CASE b = input.blades + 1
  <2>1. TieOfBeam(b) = TieOfTower BY <1>2 DEF TieOfBeam
  <2>2. TieOfTower.target = Root(tower) BY DEF TieOfTower, PrescribedBC, Constraint
  <2>3. Root(tower) \in ToSet(beams[b]) BY <1>2, WhereBeamsAre
  <2>4. Body(Root(tower)) = BeamBody(b) BY <2>3, BodyOfBeam
  <2>5. QED BY <2>1, <2>2, <2>4 DEF AllTies
<1>3. CASE b # input.blades + 1
  <2>1. b \in 1 .. input.blades BY <1>1, <1>3
  <2>2. TieOfBeam(b) = TieOfBlade(b) BY <1>3 DEF TieOfBeam
  <2>3. TieOfBlade(b).target = Root(blades[b]) BY TiesOfBlades
  <2>4. Root(blades[b]) \in ToSet(beams[b]) BY <2>1, WhereBeamsAre
  <2>5. Body(Root(blades[b])) = BeamBody(b) BY <2>4, BodyOfBeam
  <2>6. TieOfBlade(b) \in AllTies BY <2>1 DEF AllTies, Ties
  <2>7. QED BY <2>2, <2>3, <2>5, <2>6
<1>4. QED BY <1>2, <1>3

LEMMA NodeIsTied ==
    ASSUME AssemblyAssumption, AssemblyInv, pc = "built",
           NEW id \in part["hub"] .. Len(nodes) - 1
    PROVE  TieOfNode(id) \in AllTies /\ Body(TieOfNode(id).target) = NodeBody(id)
<1>1. Body(id) = NodeBody(id) BY BodyOfNode
<1>2. SUFFICES TieOfNode(id) \in AllTies /\ TieOfNode(id).target = id BY <1>1
<1>3. /\ TieOfHub \in AllTies /\ TieOfAzimuth \in AllTies /\ TieOfShaft \in AllTies
      /\ TieOfYaw \in AllTies
      /\ input.nacelleMass => TieOfNacelle \in AllTies
  BY DEF AllTies, Ties
<1>4. \A i \in 1 .. input.blades : TieOfApex(i) \in AllTies BY DEF AllTies, Ties
<1>5. CASE id = part["hub"]
  <2>1. TieOfNode(id) = TieOfHub BY <1>5, TieOfNodeIs
  <2>2. TieOfHub.target = id BY <1>5, OtherTies
  <2>3. QED BY <1>3, <2>1, <2>2
<1>6. CASE id = part["azimuth"]
  <2>1. TieOfNode(id) = TieOfAzimuth BY <1>6, TieOfNodeIs
  <2>2. TieOfAzimuth.target = id BY <1>6, OtherTies
  <2>3. QED BY <1>3, <2>1, <2>2
<1>7. CASE id = part["shaft_base"]
  <2>1. TieOfNode(id) = TieOfShaft BY <1>7, TieOfNodeIs
  <2>2. TieOfShaft.target = id BY <1>7, OtherTies
  <2>3. QED BY <1>3, <2>1, <2>2
<1>8. CASE id = part["yaw_bearing"]
  <2>1. TieOfNode(id) = TieOfYaw BY <1>8, TieOfNodeIs
  <2>2. TieOfYaw.target = id BY <1>8, OtherTies
  <2>3. QED BY <1>3, <2>1, <2>2
<1>9. CASE input.nacelleMass /\ id = part["nacelle_cm"]
  <2>1. TieOfNode(id) = TieOfNacelle BY <1>9, TieOfNodeIs
  <2>2. TieOfNacelle.target = id BY <1>9, OtherTies
  <2>3. QED BY <1>3, <1>9, <2>1, <2>2
<1>10. CASE \E i \in 1 .. input.blades : id = apexes[i]
  <2>1. PICK i \in 1 .. input.blades : id = apexes[i] BY <1>10
  <2>2. TieOfNode(id) = TieOfApex(i) BY <2>1, TieOfNodeIs
  <2>3. TieOfApex(i).target = apexes[i] BY TiesOfBlades
  <2>4. QED BY <1>4, <2>1, <2>2, <2>3
<1>11. QED BY <1>5, <1>6, <1>7, <1>8, <1>9, <1>10, NodesAre

LEMMA TiesOfBodies ==
    ASSUME AssemblyAssumption, AssemblyInv, pc = "built", NEW c \in AllTies
    PROVE  \/ \E b \in 1 .. input.blades + 1 : c = TieOfBeam(b)
           \/ \E id \in part["hub"] .. Len(nodes) - 1 : c = TieOfNode(id)
<1>1. input.blades \in Nat BY WhereBodiesAre
<1>2. CASE c = TieOfTower
  <2>1. input.blades + 1 \in 1 .. input.blades + 1 BY <1>1
  <2>2. c = TieOfBeam(input.blades + 1) BY <1>2 DEF TieOfBeam
  <2>3. QED BY <2>1, <2>2
<1>3. CASE \E i \in 1 .. input.blades : c = TieOfBlade(i)
  <2>1. PICK i \in 1 .. input.blades : c = TieOfBlade(i) BY <1>3
  <2>2. i \in 1 .. input.blades + 1 /\ i # input.blades + 1 BY <1>1
  <2>3. c = TieOfBeam(i) BY <2>1, <2>2 DEF TieOfBeam
  <2>4. QED BY <2>2, <2>3
<1>4. CASE \E i \in 1 .. input.blades : c = TieOfApex(i)
  <2>1. PICK i \in 1 .. input.blades : c = TieOfApex(i) BY <1>4
  <2>2. apexes[i] \in part["hub"] .. Len(nodes) - 1 BY PartsAreNodes
  <2>3. c = TieOfNode(apexes[i]) BY <2>1, TieOfNodeIs
  <2>4. QED BY <2>2, <2>3
<1>5. CASE c = TieOfHub BY <1>5, PartsAreNodes, TieOfNodeIs
<1>6. CASE c = TieOfAzimuth BY <1>6, PartsAreNodes, TieOfNodeIs
<1>7. CASE c = TieOfShaft BY <1>7, PartsAreNodes, TieOfNodeIs
<1>8. CASE c = TieOfYaw BY <1>8, PartsAreNodes, TieOfNodeIs
<1>9. CASE input.nacelleMass /\ c = TieOfNacelle BY <1>9, PartsAreNodes, TieOfNodeIs
<1>10. CASE c \in Ties BY <1>3, <1>4, <1>5, <1>6, <1>7, <1>8, <1>9, <1>10, TieCases
<1>11. QED BY <1>2, <1>10 DEF AllTies

\* A body that one tie has for its target is held by one constraint.
LEMMA HeldByOne ==
    ASSUME AssemblyAssumption, AssemblyInv, pc = "built", ~ input.prescribedRoots,
           NEW body, NEW c \in AllTies, Body(c.target) = body,
           \A d \in AllTies : Body(d.target) = body => d = c
    PROVE  \E k : HoldersOf(body) = {k} /\ constraints[k] = c
<1>1. Tied({TieOfTower}) BY WhenBuilt
<1>2. /\ IsSequence(constraints) /\ Once(c)
      /\ \A i \in 1 .. Len(constraints) : constraints[i] \in AllTies
  BY <1>1 DEF Tied, AllTies
<1>3. DOMAIN constraints = 1 .. Len(constraints) BY <1>2, Elements
<1>4. PICK k \in 1 .. Len(constraints) :
        /\ constraints[k] = c
        /\ \A j \in 1 .. Len(constraints) : constraints[j] = c => j = k
  BY <1>2 DEF Once, OnceIn
<1>5. \A j \in 1 .. Len(constraints) : Body(constraints[j].target) = body => j = k
  BY <1>2, <1>4
<1>6. Body(constraints[k].target) = body BY <1>4
<1>7. HoldersOf(body) = {k} BY <1>3, <1>5, <1>6 DEF HoldersOf
<1>8. QED BY <1>4, <1>7

LEMMA BeamIsHeld ==
    ASSUME AssemblyAssumption, AssemblyInv, pc = "built", ~ input.prescribedRoots,
           NEW b \in 1 .. input.blades + 1
    PROVE  \E k : HoldersOf(BeamBody(b)) = {k} /\ constraints[k] = TieOfBeam(b)
<1>1. TieOfBeam(b) \in AllTies /\ Body(TieOfBeam(b).target) = BeamBody(b) BY BeamIsTied
<1>2. ASSUME NEW d \in AllTies, Body(d.target) = BeamBody(b) PROVE d = TieOfBeam(b)
  <2>1. CASE \E c \in 1 .. input.blades + 1 : d = TieOfBeam(c)
    <3>1. PICK c \in 1 .. input.blades + 1 : d = TieOfBeam(c) BY <2>1
    <3>2. BeamBody(c) = BeamBody(b) BY <1>2, <3>1, BeamIsTied
    <3>3. c = b BY <3>2, BodiesApart
    <3>4. QED BY <3>1, <3>3
  <2>2. CASE \E id \in part["hub"] .. Len(nodes) - 1 : d = TieOfNode(id)
    <3>1. PICK id \in part["hub"] .. Len(nodes) - 1 : d = TieOfNode(id) BY <2>2
    <3>2. NodeBody(id) = BeamBody(b) BY <1>2, <3>1, NodeIsTied
    <3>3. QED BY <3>2, BodiesApart
  <2>3. QED BY <2>1, <2>2, TiesOfBodies
<1>3. QED BY <1>1, <1>2, HeldByOne

LEMMA NodeIsHeld ==
    ASSUME AssemblyAssumption, AssemblyInv, pc = "built", ~ input.prescribedRoots,
           NEW id \in part["hub"] .. Len(nodes) - 1
    PROVE  \E k : HoldersOf(NodeBody(id)) = {k} /\ constraints[k] = TieOfNode(id)
<1>1. TieOfNode(id) \in AllTies /\ Body(TieOfNode(id).target) = NodeBody(id) BY NodeIsTied
<1>2. ASSUME NEW d \in AllTies, Body(d.target) = NodeBody(id) PROVE d = TieOfNode(id)
  <2>1. CASE \E c \in 1 .. input.blades + 1 : d = TieOfBeam(c)
    <3>1. PICK c \in 1 .. input.blades + 1 : d = TieOfBeam(c) BY <2>1
    <3>2. BeamBody(c) = NodeBody(id) BY <1>2, <3>1, BeamIsTied
    <3>3. QED BY <3>2, BodiesApart
  <2>2. CASE \E x \in part["hub"] .. Len(nodes) - 1 : d = TieOfNode(x)
    <3>1. PICK x \in part["hub"] .. Len(nodes) - 1 : d = TieOfNode(x) BY <2>2
    <3>2. NodeBody(x) = NodeBody(id) BY <1>2, <3>1, NodeIsTied
    <3>3. x = id BY <3>2, BodiesApart
    <3>4. QED BY <3>1, <3>3
  <2>3. QED BY <2>1, <2>2, TiesOfBodies
<1>3. QED BY <1>1, <1>2, HeldByOne

-----------------------------------------------------------------------------
(* From a body to the one that holds it, and on to the ground.               *)

NextOf(body) ==
    IF body = Ground THEN Ground
    ELSE Holder(constraints[CHOOSE i \in HoldersOf(body) : TRUE])

LEMMA NextIs ==
    ASSUME NEW body, body # Ground, NEW k, HoldersOf(body) = {k}, NEW c, constraints[k] = c
    PROVE  NextOf(body) = Holder(c)
<1> DEFINE x == CHOOSE i \in HoldersOf(body) : TRUE
<1>1. x \in HoldersOf(body) BY Zenon
<1>2. NextOf(body) = Holder(constraints[x]) BY DEF NextOf
<1> HIDE DEF x
<1>3. x = k BY <1>1
<1>4. QED BY <1>2, <1>3

LEMMA NextOfBeam ==
    ASSUME AssemblyAssumption, AssemblyInv, pc = "built", ~ input.prescribedRoots,
           NEW b \in 1 .. input.blades + 1
    PROVE  NextOf(BeamBody(b)) = Holder(TieOfBeam(b))
<1>1. PICK k : HoldersOf(BeamBody(b)) = {k} /\ constraints[k] = TieOfBeam(b) BY BeamIsHeld
<1>2. BeamBody(b) # Ground BY BodiesApart
<1>3. QED BY <1>1, <1>2, NextIs

LEMMA NextOfNode ==
    ASSUME AssemblyAssumption, AssemblyInv, pc = "built", ~ input.prescribedRoots,
           NEW id \in part["hub"] .. Len(nodes) - 1
    PROVE  NextOf(NodeBody(id)) = Holder(TieOfNode(id))
<1>1. PICK k : HoldersOf(NodeBody(id)) = {k} /\ constraints[k] = TieOfNode(id) BY NodeIsHeld
<1>2. NodeBody(id) # Ground BY BodiesApart
<1>3. QED BY <1>1, <1>2, NextIs

\* The way from the blades to the ground, and from the nacelle.
LEMMA WayDown ==
    ASSUME AssemblyAssumption, AssemblyInv, pc = "built", ~ input.prescribedRoots
    PROVE  /\ \A i \in 1 .. input.blades :
                /\ NextOf(BeamBody(i)) = NodeBody(apexes[i])
                /\ NextOf(NodeBody(apexes[i])) = NodeBody(part["hub"])
           /\ NextOf(NodeBody(part["hub"])) = NodeBody(part["azimuth"])
           /\ NextOf(NodeBody(part["azimuth"])) = NodeBody(part["shaft_base"])
           /\ NextOf(NodeBody(part["shaft_base"])) = NodeBody(part["yaw_bearing"])
           /\ input.nacelleMass =>
                NextOf(NodeBody(part["nacelle_cm"])) = NodeBody(part["yaw_bearing"])
           /\ NextOf(NodeBody(part["yaw_bearing"])) = BeamBody(input.blades + 1)
           /\ NextOf(BeamBody(input.blades + 1)) = Ground
           /\ NextOf(Ground) = Ground
<1>1. input.blades \in Nat BY WhereBodiesAre
<1>2. ASSUME NEW i \in 1 .. input.blades
      PROVE  NextOf(BeamBody(i)) = NodeBody(apexes[i])
  <2>1. i \in 1 .. input.blades + 1 /\ i # input.blades + 1 BY <1>1
  <2>2. NextOf(BeamBody(i)) = Holder(TieOfBlade(i)) BY <2>1, NextOfBeam DEF TieOfBeam
  <2>3. Holder(TieOfBlade(i)) = Body(apexes[i]) BY TiesOfBlades DEF Holder
  <2>4. QED BY <2>2, <2>3, PartsAreNodes, BodyOfNode
<1>3. ASSUME NEW i \in 1 .. input.blades
      PROVE  NextOf(NodeBody(apexes[i])) = NodeBody(part["hub"])
  <2>1. apexes[i] \in part["hub"] .. Len(nodes) - 1 BY PartsAreNodes
  <2>2. NextOf(NodeBody(apexes[i])) = Holder(TieOfApex(i))
    <3>1. TieOfNode(apexes[i]) = TieOfApex(i) BY TieOfNodeIs
    <3>2. QED BY <2>1, <3>1, NextOfNode
  <2>3. Holder(TieOfApex(i)) = Body(part["hub"]) BY TiesOfBlades DEF Holder
  <2>4. QED BY <2>2, <2>3, PartsAreNodes, BodyOfNode
<1>4. NextOf(NodeBody(part["hub"])) = NodeBody(part["azimuth"])
  <2>1. NextOf(NodeBody(part["hub"])) = Holder(TieOfHub) BY PartsAreNodes, TieOfNodeIs, NextOfNode
  <2>2. Holder(TieOfHub) = Body(part["azimuth"]) BY OtherTies DEF Holder
  <2>3. QED BY <2>1, <2>2, PartsAreNodes, BodyOfNode
<1>5. NextOf(NodeBody(part["azimuth"])) = NodeBody(part["shaft_base"])
  <2>1. NextOf(NodeBody(part["azimuth"])) = Holder(TieOfAzimuth)
    BY PartsAreNodes, TieOfNodeIs, NextOfNode
  <2>2. Holder(TieOfAzimuth) = Body(part["shaft_base"]) BY OtherTies DEF Holder
  <2>3. QED BY <2>1, <2>2, PartsAreNodes, BodyOfNode
<1>6. NextOf(NodeBody(part["shaft_base"])) = NodeBody(part["yaw_bearing"])
  <2>1. NextOf(NodeBody(part["shaft_base"])) = Holder(TieOfShaft)
    BY PartsAreNodes, TieOfNodeIs, NextOfNode
  <2>2. Holder(TieOfShaft) = Body(part["yaw_bearing"]) BY OtherTies DEF Holder
  <2>3. QED BY <2>1, <2>2, PartsAreNodes, BodyOfNode
<1>7. ASSUME input.nacelleMass
      PROVE  NextOf(NodeBody(part["nacelle_cm"])) = NodeBody(part["yaw_bearing"])
  <2>1. NextOf(NodeBody(part["nacelle_cm"])) = Holder(TieOfNacelle)
    BY <1>7, PartsAreNodes, TieOfNodeIs, NextOfNode
  <2>2. Holder(TieOfNacelle) = Body(part["yaw_bearing"]) BY OtherTies DEF Holder
  <2>3. QED BY <2>1, <2>2, PartsAreNodes, BodyOfNode
<1>8. NextOf(NodeBody(part["yaw_bearing"])) = BeamBody(input.blades + 1)
  <2>1. NextOf(NodeBody(part["yaw_bearing"])) = Holder(TieOfYaw)
    BY PartsAreNodes, TieOfNodeIs, NextOfNode
  <2>2. Holder(TieOfYaw) = Body(TowerTop) BY OtherTies DEF Holder
  <2>3. input.blades + 1 \in 1 .. input.blades + 1 BY <1>1
  <2>4. Body(TowerTop) = BeamBody(input.blades + 1) BY <2>3, WhereBeamsAre, BodyOfBeam
  <2>5. QED BY <2>1, <2>2, <2>4
<1>9. NextOf(BeamBody(input.blades + 1)) = Ground
  <2>1. input.blades + 1 \in 1 .. input.blades + 1 BY <1>1
  <2>2. NextOf(BeamBody(input.blades + 1)) = Holder(TieOfTower) BY <2>1, NextOfBeam DEF TieOfBeam
  <2>3. TieOfTower.type = "PrescribedBC" BY DEF TieOfTower, PrescribedBC, Constraint
  <2>4. QED BY <2>2, <2>3 DEF Holder
<1>10. NextOf(Ground) = Ground BY DEF NextOf
<1>11. QED BY <1>2, <1>3, <1>4, <1>5, <1>6, <1>7, <1>8, <1>9, <1>10

\* Chain is a recursion of as many steps as there are bodies.
Climbs(g, body, n) == g = [k \in 0 .. n |-> IF k = 0 THEN body ELSE NextOf(g[k - 1])]

LEMMA ClimbExists ==
    ASSUME NEW body, NEW n \in Nat
    PROVE  \E g : Climbs(g, body, n)
<1> DEFINE Q == {m \in Nat : \E g : Climbs(g, body, m)}
<1>1. 0 \in Q
  <2> DEFINE none == [k \in 0 .. 0 |-> IF k = 0 THEN body ELSE NextOf(body)]
  <2>1. none = [k \in 0 .. 0 |-> IF k = 0 THEN body ELSE NextOf(none[k - 1])]
    <3>1. \A k \in 0 .. 0 : k = 0 OBVIOUS
    <3>2. QED BY <3>1
  <2> HIDE DEF none
  <2>2. Climbs(none, body, 0) BY <2>1, Zenon DEF Climbs
  <2>3. QED BY <2>2
<1>2. ASSUME NEW m \in 1 .. n, m - 1 \in Q PROVE m \in Q
  <2>1. PICK g : Climbs(g, body, m - 1) BY <1>2
  <2> DEFINE h == [k \in 0 .. m |-> IF k = 0 THEN body ELSE NextOf(g[k - 1])]
  <2>2. \A k \in 0 .. m - 1 : h[k] = g[k]
    <3>1. \A k \in 0 .. m - 1 : g[k] = IF k = 0 THEN body ELSE NextOf(g[k - 1])
      BY <2>1, Zenon DEF Climbs
    <3>2. \A k \in 0 .. m - 1 : k \in 0 .. m OBVIOUS
    <3>3. QED BY <3>1, <3>2
  <2>3. h = [k \in 0 .. m |-> IF k = 0 THEN body ELSE NextOf(h[k - 1])]
    <3>1. \A k \in 0 .. m : k # 0 => k - 1 \in 0 .. m - 1 OBVIOUS
    <3>2. \A k \in 0 .. m : k # 0 => h[k - 1] = g[k - 1] BY <2>2, <3>1
    <3>3. QED BY <3>2
  <2> HIDE DEF h
  <2>4. Climbs(h, body, m) BY <2>3, Zenon DEF Climbs
  <2>5. m \in Nat OBVIOUS
  <2>6. QED BY <2>4, <2>5
<1> HIDE DEF Q
<1>3. n \in Q BY <1>1, <1>2, Segments
<1>4. QED BY <1>3 DEF Q

LEMMA ChainIs ==
    ASSUME NEW body, Cardinality(Bodies) \in Nat
    PROVE  \E g : /\ Climbs(g, body, Cardinality(Bodies))
                  /\ Chain(body) = {g[k] : k \in 0 .. Cardinality(Bodies)}
<1> DEFINE n == Cardinality(Bodies)
           up == CHOOSE g : Climbs(g, body, n)
<1>1. Climbs(up, body, n) BY ClimbExists
<1>2. Chain(body) = {up[k] : k \in DOMAIN up} BY Zenon DEF Chain, Climbs, NextOf
<1> HIDE DEF up, n
<1>3. DOMAIN up = 0 .. n BY <1>1 DEF Climbs
<1>4. QED BY <1>1, <1>2, <1>3 DEF n

LEMMA ClimbSteps ==
    ASSUME NEW n \in Nat, NEW body, NEW g, Climbs(g, body, n)
    PROVE  g[0] = body /\ \A k \in 0 .. n - 1 : g[k + 1] = NextOf(g[k])
<1>1. \A k \in 0 .. n : g[k] = IF k = 0 THEN body ELSE NextOf(g[k - 1]) BY Zenon DEF Climbs
<1>2. 0 \in 0 .. n OBVIOUS
<1>3. ASSUME NEW k \in 0 .. n - 1 PROVE g[k + 1] = NextOf(g[k])
  <2>1. k + 1 \in 0 .. n /\ k + 1 # 0 /\ (k + 1) - 1 = k OBVIOUS
  <2>2. g[k + 1] = NextOf(g[(k + 1) - 1]) BY <1>1, <2>1
  <2>3. QED BY <2>1, <2>2
<1>4. QED BY <1>1, <1>2, <1>3

\* There are enough bodies for the longest way, from a blade to the ground.
LEMMA EnoughBodies ==
    ASSUME AssemblyAssumption, AssemblyInv, pc = "built"
    PROVE  IsFiniteSet(Bodies) /\ Cardinality(Bodies) \in Nat /\ Cardinality(Bodies) >= 7
<1> DEFINE h == part["hub"]
           m == Len(nodes)
           a == input.prior
           count == input.blades
<1>1. /\ h \in Nat /\ a \in Nat /\ count \in Nat /\ count >= 1 /\ First \in {4, 5}
      /\ m = h + First + count
  BY WhereBodiesAre
<1>2. Bodies = {Body(id) : id \in a .. m - 1} BY DEF Bodies, TurbineIds
<1> HIDE DEF h, m, a, count
<1>3. IsFiniteSet(Bodies)
  <2> DEFINE fn == [id \in a .. m - 1 |-> Body(id)]
  <2>1. fn \in Surjection(a .. m - 1, Bodies)
    <3>1. fn \in [a .. m - 1 -> Bodies] BY <1>2
    <3>2. \A body \in Bodies : \E id \in a .. m - 1 : fn[id] = body BY <1>2
    <3> HIDE DEF fn
    <3>3. QED BY <3>1, <3>2 DEF Surjection
  <2> HIDE DEF fn
  <2>2. IsFiniteSet(a .. m - 1)
    <3>1. a \in Int /\ m - 1 \in Int BY <1>1
    <3>2. QED BY <3>1, FS_Interval
  <2>3. QED BY <2>1, <2>2, FS_Surjection
<1>4. Cardinality(Bodies) \in Nat BY <1>3, FS_CardinalityType
<1>5. Cardinality(Bodies) >= 7
  <2> DEFINE fn == [k \in 1 .. 7 |-> IF k <= 5 THEN NodeBody(h + (k - 1)) ELSE BeamBody(k - 5)]
  <2>1. ASSUME NEW k \in 1 .. 7 PROVE fn[k] \in Bodies
    <3>1. CASE k <= 5
      <4>1. h + (k - 1) \in h .. m - 1 BY <1>1, <3>1
      <4>2. NodeBody(h + (k - 1)) \in Bodies BY <4>1, BodiesAre DEF h, m
      <4>3. QED BY <3>1, <4>2
    <3>2. CASE ~ (k <= 5)
      <4>1. k - 5 \in 1 .. count + 1 BY <1>1, <3>2
      <4>2. BeamBody(k - 5) \in Bodies BY <4>1, BodiesAre DEF count
      <4>3. QED BY <3>2, <4>2
    <3>3. QED BY <3>1, <3>2
  <2>2. ASSUME NEW k \in 1 .. 7, NEW l \in 1 .. 7, fn[k] = fn[l] PROVE k = l
    <3>1. CASE k <= 5 /\ l <= 5
      <4>1. NodeBody(h + (k - 1)) = NodeBody(h + (l - 1)) BY <2>2, <3>1
      <4>2. h + (k - 1) = h + (l - 1) BY <4>1, BodiesApart
      <4>3. QED BY <1>1, <4>2
    <3>2. CASE k <= 5 /\ ~ (l <= 5)
      <4>1. NodeBody(h + (k - 1)) = BeamBody(l - 5) BY <2>2, <3>2
      <4>2. QED BY <4>1, BodiesApart
    <3>3. CASE ~ (k <= 5) /\ l <= 5
      <4>1. BeamBody(k - 5) = NodeBody(h + (l - 1)) BY <2>2, <3>3
      <4>2. QED BY <4>1, BodiesApart
    <3>4. CASE ~ (k <= 5) /\ ~ (l <= 5)
      <4>1. BeamBody(k - 5) = BeamBody(l - 5) BY <2>2, <3>4
      <4>2. k - 5 = l - 5 BY <4>1, BodiesApart
      <4>3. QED BY <4>2
    <3>5. QED BY <3>1, <3>2, <3>3, <3>4
  <2>3. fn \in Injection(1 .. 7, Bodies)
    <3>1. fn \in [1 .. 7 -> Bodies] /\ DOMAIN fn = 1 .. 7
      <4>1. fn = [k \in 1 .. 7 |-> fn[k]] OBVIOUS
      <4> HIDE DEF fn
      <4>2. QED BY <2>1, <4>1
    <3> HIDE DEF fn
    <3>2. IsInjective(fn) BY <2>2, <3>1 DEF IsInjective
    <3>3. QED BY <3>1, <3>2 DEF Injection
  <2> HIDE DEF fn
  <2>4. Cardinality(1 .. 7) <= Cardinality(Bodies) BY <1>3, <2>3, FS_Injection
  <2>5. Cardinality(1 .. 7) = 7
    <3>1. ASSUME NEW p \in Nat PROVE Cardinality(1 .. p) = p BY FS_Interval
    <3>2. QED BY <3>1
  <2>6. QED BY <1>4, <2>4, <2>5
<1>6. QED BY <1>3, <1>4, <1>5

\* What a body that stands behind the shaft hinge is held by stands behind it as well.
Behind ==
    {NodeBody(part["shaft_base"]), NodeBody(part["yaw_bearing"]),
     BeamBody(input.blades + 1), Ground}
    \cup (IF input.nacelleMass THEN {NodeBody(part["nacelle_cm"])} ELSE {})

LEMMA BehindStays ==
    ASSUME AssemblyAssumption, AssemblyInv, pc = "built", ~ input.prescribedRoots,
           NEW body \in Behind
    PROVE  NextOf(body) \in Behind
<1>1. CASE body = NodeBody(part["shaft_base"]) BY <1>1, WayDown DEF Behind
<1>2. CASE body = NodeBody(part["yaw_bearing"]) BY <1>2, WayDown DEF Behind
<1>3. CASE body = BeamBody(input.blades + 1) BY <1>3, WayDown DEF Behind
<1>4. CASE body = Ground BY <1>4, WayDown DEF Behind
<1>5. CASE input.nacelleMass /\ body = NodeBody(part["nacelle_cm"]) BY <1>5, WayDown DEF Behind
<1>6. QED BY <1>1, <1>2, <1>3, <1>4, <1>5 DEF Behind

LEMMA NotBehind ==
    ASSUME AssemblyAssumption, AssemblyInv, pc = "built"
    PROVE  /\ NodeBody(part["hub"]) \notin Behind /\ NodeBody(part["azimuth"]) \notin Behind
           /\ \A i \in 1 .. input.blades :
                NodeBody(apexes[i]) \notin Behind /\ BeamBody(i) \notin Behind
<1> DEFINE h == part["hub"]
           count == input.blades
<1>1. /\ h \in Nat /\ count \in Nat /\ First \in {4, 5} /\ (input.nacelleMass <=> First = 5)
      /\ Len(nodes) = h + First + count
      /\ part["azimuth"] = h + 1 /\ part["shaft_base"] = h + 2 /\ part["yaw_bearing"] = h + 3
      /\ input.nacelleMass => part["nacelle_cm"] = h + 4
  BY WhereBodiesAre
<1>2. \A i \in 1 .. count : apexes[i] \in h + First .. Len(nodes) - 1
  BY WhenBuilt, WhereNodesAre
<1> HIDE DEF h, count
<1>3. Behind \subseteq {NodeBody(h + 2), NodeBody(h + 3), BeamBody(count + 1), Ground}
                       \cup (IF First = 5 THEN {NodeBody(h + 4)} ELSE {})
  BY <1>1 DEF Behind, count
<1>4. ASSUME NEW id, id # h + 2, id # h + 3, First = 5 => id # h + 4
      PROVE  NodeBody(id) \notin Behind
  BY <1>3, <1>4, BodiesApart
<1>5. ASSUME NEW b, b # count + 1 PROVE BeamBody(b) \notin Behind
  BY <1>3, <1>5, BodiesApart
<1>6. h # h + 2 /\ h # h + 3 /\ h # h + 4 BY <1>1
<1>7. h + 1 # h + 2 /\ h + 1 # h + 3 /\ h + 1 # h + 4 BY <1>1
<1>8. NodeBody(h) \notin Behind /\ NodeBody(h + 1) \notin Behind BY <1>4, <1>6, <1>7
<1>9. ASSUME NEW i \in 1 .. count
      PROVE  NodeBody(apexes[i]) \notin Behind /\ BeamBody(i) \notin Behind
  <2> DEFINE x == apexes[i]
  <2>1. x \in h + First .. Len(nodes) - 1 BY <1>2
  <2> HIDE DEF x
  <2>2. Len(nodes) \in Nat BY <1>1
  <2>3. x # h + 2 /\ x # h + 3 /\ (First = 5 => x # h + 4) BY <1>1, <2>1, <2>2
  <2>4. NodeBody(x) \notin Behind BY <1>4, <2>3
  <2>5. i # count + 1 BY <1>1
  <2>6. QED BY <1>5, <2>4, <2>5 DEF x
<1>10. QED BY <1>1, <1>8, <1>9 DEF h, count

LEMMA WhichBodies ==
    ASSUME AssemblyAssumption, AssemblyInv, pc = "built", NEW body \in Bodies
    PROVE  \/ \E i \in 1 .. input.blades : body = BeamBody(i)
           \/ \E i \in 1 .. input.blades : body = NodeBody(apexes[i])
           \/ body = NodeBody(part["hub"]) \/ body = NodeBody(part["azimuth"])
           \/ body \in Behind /\ body # Ground
<1>1. input.blades \in Nat BY WhereBodiesAre
<1>2. CASE \E b \in 1 .. input.blades + 1 : body = BeamBody(b)
  <2>1. PICK b \in 1 .. input.blades + 1 : body = BeamBody(b) BY <1>2
  <2>2. CASE b = input.blades + 1 BY <2>1, <2>2, BodiesApart DEF Behind
  <2>3. CASE b # input.blades + 1
    <3>1. b \in 1 .. input.blades BY <1>1, <2>3
    <3>2. QED BY <2>1, <3>1
  <2>4. QED BY <2>2, <2>3
<1>3. CASE \E id \in part["hub"] .. Len(nodes) - 1 : body = NodeBody(id)
  <2>1. PICK id \in part["hub"] .. Len(nodes) - 1 : body = NodeBody(id) BY <1>3
  <2>2. body # Ground BY <2>1, BodiesApart
  <2>3. CASE id = part["hub"] \/ id = part["azimuth"] BY <2>1, <2>3
  <2>4. CASE id = part["shaft_base"] \/ id = part["yaw_bearing"] BY <2>1, <2>2, <2>4 DEF Behind
  <2>5. CASE input.nacelleMass /\ id = part["nacelle_cm"] BY <2>1, <2>2, <2>5 DEF Behind
  <2>6. CASE \E i \in 1 .. input.blades : id = apexes[i] BY <2>1, <2>6
  <2>7. QED BY <2>3, <2>4, <2>5, <2>6, NodesAre
<1>4. QED BY <1>2, <1>3, BodiesAre

\* Where a chain gets to: down to the ground, through the azimuth node from all that is
\* not behind it.
LEMMA WaysOfChains ==
    ASSUME AssemblyAssumption, AssemblyInv, pc = "built", ~ input.prescribedRoots,
           NEW body \in Bodies
    PROVE  /\ Ground \in Chain(body)
           /\ NodeBody(part["azimuth"]) \in Chain(body) <=> body \notin Behind
<1> DEFINE n == Cardinality(Bodies)
           T == BeamBody(input.blades + 1)
           Y == NodeBody(part["yaw_bearing"])
           S == NodeBody(part["shaft_base"])
           A == NodeBody(part["azimuth"])
           H == NodeBody(part["hub"])
<1>1. n \in Nat /\ n >= 7 BY EnoughBodies
<1>2. PICK g : Climbs(g, body, n) /\ Chain(body) = {g[k] : k \in 0 .. n} BY <1>1, ChainIs
<1>3. g[0] = body /\ \A k \in 0 .. n - 1 : g[k + 1] = NextOf(g[k]) BY <1>1, <1>2, ClimbSteps
<1>4. /\ \A i \in 1 .. input.blades :
           /\ NextOf(BeamBody(i)) = NodeBody(apexes[i])
           /\ NextOf(NodeBody(apexes[i])) = H
      /\ NextOf(H) = A /\ NextOf(A) = S /\ NextOf(S) = Y /\ NextOf(Y) = T /\ NextOf(T) = Ground
  BY WayDown
<1>5. A \notin Behind /\ H \notin Behind BY NotBehind
<1>6. \A i \in 1 .. input.blades : NodeBody(apexes[i]) \notin Behind /\ BeamBody(i) \notin Behind
  BY NotBehind
<1>7. body \in Behind /\ body # Ground =>
        \/ body = S \/ body = Y \/ body = T
        \/ input.nacelleMass /\ body = NodeBody(part["nacelle_cm"])
  BY DEF Behind
<1>8. input.nacelleMass => NextOf(NodeBody(part["nacelle_cm"])) = Y BY WayDown
<1> HIDE DEF n, T, Y, S, A, H
<1>9. /\ g[1] = NextOf(g[0]) /\ g[2] = NextOf(g[1]) /\ g[3] = NextOf(g[2]) /\ g[4] = NextOf(g[3])
      /\ g[5] = NextOf(g[4]) /\ g[6] = NextOf(g[5]) /\ g[7] = NextOf(g[6])
  <2>1. /\ 0 \in 0 .. n - 1 /\ 1 \in 0 .. n - 1 /\ 2 \in 0 .. n - 1 /\ 3 \in 0 .. n - 1
        /\ 4 \in 0 .. n - 1 /\ 5 \in 0 .. n - 1 /\ 6 \in 0 .. n - 1
    BY <1>1
  <2>2. g[0 + 1] = NextOf(g[0]) /\ g[1 + 1] = NextOf(g[1]) BY <1>3, <2>1
  <2>3. g[2 + 1] = NextOf(g[2]) /\ g[3 + 1] = NextOf(g[3]) BY <1>3, <2>1
  <2>4. g[4 + 1] = NextOf(g[4]) /\ g[5 + 1] = NextOf(g[5]) BY <1>3, <2>1
  <2>5. g[6 + 1] = NextOf(g[6]) BY <1>3, <2>1
  <2>6. QED BY <2>2, <2>3, <2>4, <2>5
<1>10. \A k \in 0 .. 7 : g[k] \in Chain(body)
  <2>1. \A k \in 0 .. 7 : k \in 0 .. n BY <1>1
  <2>2. QED BY <1>2, <2>1
<1>11. /\ g[0] \in Chain(body) /\ g[1] \in Chain(body) /\ g[2] \in Chain(body)
       /\ g[3] \in Chain(body) /\ g[4] \in Chain(body) /\ g[5] \in Chain(body)
       /\ g[6] \in Chain(body) /\ g[7] \in Chain(body)
  BY <1>10
<1>12. CASE \E i \in 1 .. input.blades : body = BeamBody(i)
  <2>1. PICK i \in 1 .. input.blades : body = BeamBody(i) BY <1>12
  <2>2. g[1] = NodeBody(apexes[i]) BY <1>3, <1>4, <1>9, <2>1
  <2>3. g[2] = H /\ g[3] = A BY <1>4, <1>9, <2>2
  <2>4. g[4] = S /\ g[5] = Y /\ g[6] = T /\ g[7] = Ground BY <1>4, <1>9, <2>3
  <2>5. body \notin Behind BY <1>6, <2>1
  <2>6. QED BY <1>11, <2>3, <2>4, <2>5 DEF A
<1>13. CASE \E i \in 1 .. input.blades : body = NodeBody(apexes[i])
  <2>1. PICK i \in 1 .. input.blades : body = NodeBody(apexes[i]) BY <1>13
  <2>2. g[1] = H BY <1>3, <1>4, <1>9, <2>1
  <2>3. g[2] = A /\ g[3] = S BY <1>4, <1>9, <2>2
  <2>4. g[4] = Y /\ g[5] = T /\ g[6] = Ground BY <1>4, <1>9, <2>3
  <2>5. body \notin Behind BY <1>6, <2>1
  <2>6. QED BY <1>11, <2>3, <2>4, <2>5 DEF A
<1>14. CASE body = H
  <2>1. g[1] = A /\ g[2] = S /\ g[3] = Y /\ g[4] = T /\ g[5] = Ground BY <1>3, <1>4, <1>9, <1>14
  <2>2. QED BY <1>5, <1>11, <1>14, <2>1 DEF A
<1>15. CASE body = A
  <2>1. g[1] = S /\ g[2] = Y /\ g[3] = T /\ g[4] = Ground BY <1>3, <1>4, <1>9, <1>15
  <2>2. QED BY <1>3, <1>5, <1>11, <1>15, <2>1 DEF A
<1>16. CASE body \in Behind /\ body # Ground
  <2>1. \A k \in 0 .. n : g[k] \in Behind
    <3> DEFINE Q == {k \in Nat : k \in 0 .. n => g[k] \in Behind}
    <3>1. 0 \in Q BY <1>3, <1>16
    <3>2. ASSUME NEW k \in 1 .. n, k - 1 \in Q PROVE k \in Q
      <4>1. k - 1 \in 0 .. n - 1 /\ k - 1 \in 0 .. n /\ (k - 1) + 1 = k BY <1>1
      <4>2. g[k - 1] \in Behind BY <3>2, <4>1
      <4>3. g[(k - 1) + 1] = NextOf(g[k - 1]) BY <1>3, <4>1
      <4>4. NextOf(g[k - 1]) \in Behind BY <4>2, BehindStays
      <4>5. g[k] \in Behind BY <4>1, <4>3, <4>4
      <4>6. QED BY <1>1, <4>5
    <3> HIDE DEF Q
    <3>3. ASSUME NEW k \in 0 .. n PROVE k \in Q
      <4>1. k \in Nat /\ \A j \in 1 .. k : j \in 1 .. n BY <1>1
      <4>2. \A j \in 1 .. k : j - 1 \in Q => j \in Q BY <3>2, <4>1
      <4>3. QED BY <3>1, <4>1, <4>2, Segments
    <3>4. QED BY <3>3 DEF Q
  <2>2. A \notin Chain(body) BY <1>2, <1>5, <2>1
  <2>3. Ground \in Chain(body)
    <3>1. CASE body = S
      <4>1. g[1] = Y /\ g[2] = T /\ g[3] = Ground BY <1>3, <1>4, <1>9, <3>1
      <4>2. QED BY <1>11, <4>1
    <3>2. CASE body = Y
      <4>1. g[1] = T /\ g[2] = Ground BY <1>3, <1>4, <1>9, <3>2
      <4>2. QED BY <1>11, <4>1
    <3>3. CASE body = T
      <4>1. g[1] = Ground BY <1>3, <1>4, <1>9, <3>3
      <4>2. QED BY <1>11, <4>1
    <3>4. CASE input.nacelleMass /\ body = NodeBody(part["nacelle_cm"])
      <4>1. g[1] = Y /\ g[2] = T /\ g[3] = Ground BY <1>3, <1>4, <1>8, <1>9, <3>4
      <4>2. QED BY <1>11, <4>1
    <3>5. QED BY <1>7, <1>16, <3>1, <3>2, <3>3, <3>4
  <2>4. QED BY <1>16, <2>2, <2>3 DEF A
<1>17. QED BY <1>12, <1>13, <1>14, <1>15, <1>16, WhichBodies DEF A, H

LEMMA BodiesAreHeldOnce ==
    ASSUME AssemblyAssumption, AssemblyInv
    PROVE  HeldOnce
<1> SUFFICES ASSUME pc = "built", ~ input.prescribedRoots, NEW body \in Bodies
             PROVE  Cardinality(HoldersOf(body)) = 1 /\ Ground \in Chain(body)
  BY DEF HeldOnce
<1>1. \E k : HoldersOf(body) = {k}
  <2>1. CASE \E b \in 1 .. input.blades + 1 : body = BeamBody(b) BY <2>1, BeamIsHeld
  <2>2. CASE \E id \in part["hub"] .. Len(nodes) - 1 : body = NodeBody(id) BY <2>2, NodeIsHeld
  <2>3. QED BY <2>1, <2>2, BodiesAre
<1>2. Cardinality(HoldersOf(body)) = 1 BY <1>1, FS_Singleton
<1>3. Ground \in Chain(body) BY WaysOfChains
<1>4. QED BY <1>2, <1>3

\* Every beam and every node between the beams is held by one constraint, and in the end
\* by the ground: whatever the number of blades and the inputs, when no root of a beam is
\* prescribed by itself.
THEOREM EveryBodyIsHeldOnce ==
    ASSUME AssemblyAssumption
    PROVE  (Spec => []HeldOnce) /\ (InterfaceSpec => []HeldOnce)
<1>1. AssemblyInv => HeldOnce BY BodiesAreHeldOnce
<1>2. AsTurbine => HeldOnce
  <2>1. pc = "built" => pc \in Phases BY DEF Phases
  <2>2. QED BY <1>1, <2>1, Zenon DEF AsTurbine, HeldOnce
<1>3. Spec => []HeldOnce BY <1>1, TurbineIsBuiltRight, PTL
<1>4. InterfaceSpec => []HeldOnce BY <1>2, TurbineIsBuiltRight, PTL
<1>5. QED BY <1>3, <1>4

\* The nodes that turn are those of the bodies that are not behind the shaft hinge.
LEMMA WhoSpins ==
    ASSUME AssemblyAssumption, AssemblyInv, pc = "built", NEW id \in TurbineIds
    PROVE  id \in Spinning <=> Body(id) \notin Behind
<1> DEFINE h == part["hub"]
           m == Len(nodes)
           a == input.prior
           count == input.blades
<1>1. /\ h \in Nat /\ a \in Nat /\ a <= h /\ count \in Nat /\ First \in {4, 5}
      /\ m = h + First + count
      /\ part["azimuth"] = h + 1 /\ part["shaft_base"] = h + 2 /\ part["yaw_bearing"] = h + 3
      /\ input.nacelleMass => part["nacelle_cm"] = h + 4
      /\ (input.nacelleMass <=> First = 5)
  BY WhereBodiesAre
<1>2. Apexes = h + First .. m - 1 BY WhenBuilt, WhereNodesAre
<1>3. BladeNodes \subseteq a .. h - 1
  <2>1. \A i \in 1 .. count : ToSet(blades[i]) \subseteq a .. h - 1 BY WhenBuilt, WhereNodesAre
  <2>2. QED BY <2>1 DEF BladeNodes
<1>4. id \in a .. m - 1 BY DEF TurbineIds
<1>5. \A b \in 1 .. count : blades[b] = beams[b] BY WhenBuilt DEF Assembled, BladesAre
<1>6. Spinning = {h, part["azimuth"]} \cup (BladeNodes \cup Apexes) BY DEF Spinning
<1> HIDE DEF h, m, a, count
<1>7. id \in a .. h - 1 \/ id \in h .. m - 1 BY <1>1, <1>4
<1>8. CASE id \in a .. h - 1
  <2>1. PICK b \in 1 .. count + 1 : id \in ToSet(beams[b]) BY <1>8, WhereBeamsAre DEF a, h, count
  <2>2. Body(id) = BeamBody(b) BY <2>1, BodyOfBeam DEF count
  <2>3. id \notin h .. m - 1 /\ h \in h .. m - 1 /\ h + 1 \in h .. m - 1
        /\ h + First .. m - 1 \subseteq h .. m - 1
    BY <1>1, <1>8
  <2>4. id \in Spinning <=> id \in BladeNodes BY <1>1, <1>2, <1>6, <2>3
  <2>5. CASE b = count + 1
    <3>1. Body(id) \in Behind BY <2>2, <2>5 DEF Behind, count
    <3>2. id \notin BladeNodes
      <4>1. \A i \in 1 .. count : i \in 1 .. count + 1 /\ i # b BY <1>1, <2>5
      <4>2. \A i \in 1 .. count : ToSet(beams[i]) \cap ToSet(beams[b]) = {}
        BY <4>1, WhereBeamsAre DEF count
      <4>3. \A i \in 1 .. count : id \notin ToSet(blades[i]) BY <1>5, <2>1, <4>2
      <4>4. QED BY <4>3 DEF BladeNodes, count
    <3>3. QED BY <2>4, <3>1, <3>2
  <2>6. CASE b # count + 1
    <3>1. b \in 1 .. count BY <1>1, <2>6
    <3>2. Body(id) \notin Behind BY <2>2, <3>1, NotBehind DEF count
    <3>3. id \in BladeNodes BY <1>5, <2>1, <3>1 DEF BladeNodes, count
    <3>4. QED BY <2>4, <3>2, <3>3
  <2>7. QED BY <2>5, <2>6
<1>9. CASE id \in h .. m - 1
  <2>1. Body(id) = NodeBody(id) BY <1>9, BodyOfNode DEF h, m
  <2>2. id \notin BladeNodes BY <1>1, <1>3, <1>9
  <2>3. id \in Spinning <=> id = h \/ id = h + 1 \/ id \in Apexes BY <1>1, <1>6, <2>2
  <2>4. CASE id = h \/ id = h + 1
    <3>1. Body(id) \notin Behind BY <1>1, <2>1, <2>4, NotBehind DEF h
    <3>2. QED BY <2>3, <2>4, <3>1
  <2>5. CASE id \in Apexes
    <3>1. PICK i \in 1 .. count : id = apexes[i] BY <2>5 DEF Apexes, count
    <3>2. Body(id) \notin Behind BY <2>1, <3>1, NotBehind DEF count
    <3>3. QED BY <2>3, <2>5, <3>2
  <2>6. CASE id # h /\ id # h + 1 /\ id \notin Apexes
    <3>1. id = h + 2 \/ id = h + 3 \/ (First = 5 /\ id = h + 4) BY <1>1, <1>2, <1>9, <2>6
    <3>2. Body(id) \in Behind BY <1>1, <2>1, <3>1 DEF Behind
    <3>3. QED BY <2>3, <2>6, <3>2
  <2>7. QED BY <2>4, <2>5, <2>6
<1>10. QED BY <1>7, <1>8, <1>9

LEMMA RotorIsOneBody ==
    ASSUME AssemblyAssumption, AssemblyInv
    PROVE  RotorTurnsAsOneBody
<1> SUFFICES ASSUME pc = "built", ~ input.prescribedRoots, NEW id \in TurbineIds
             PROVE  Node(nodes, id).v =
                      IF Body(part["azimuth"]) \in Chain(Body(id))
                      THEN <<ShaftSpin(nodes), DisplacedPosition(Node(nodes, id))>> ELSE <<>>
  BY DEF RotorTurnsAsOneBody
<1>1. Body(part["azimuth"]) = NodeBody(part["azimuth"]) BY PartsAreNodes, BodyOfNode
<1>2. Body(id) \in Bodies BY DEF Bodies
<1>3. Body(part["azimuth"]) \in Chain(Body(id)) <=> id \in Spinning
  BY <1>1, <1>2, WaysOfChains, WhoSpins
<1>4. RotorTurns BY WhenBuilt
<1>5. nodes[id + 1].v = IF id \in Spinning
                        THEN <<ShaftSpin(nodes), DisplacedPosition(nodes[id + 1])>> ELSE <<>>
  BY <1>4 DEF RotorTurns, TurbineIds
<1>6. QED BY <1>3, <1>5 DEF Node

\* The nodes that turn at the start are those that the constraints hold at the shaft
\* hinge, and no others.
THEOREM RotorTurnsTogether ==
    ASSUME AssemblyAssumption
    PROVE  (Spec => []RotorTurnsAsOneBody) /\ (InterfaceSpec => []RotorTurnsAsOneBody)
<1>1. AssemblyInv => RotorTurnsAsOneBody BY RotorIsOneBody
<1>2. AsTurbine => RotorTurnsAsOneBody
  <2>1. pc = "built" => pc \in Phases BY DEF Phases
  <2>2. QED BY <1>1, <2>1, Zenon DEF AsTurbine, RotorTurnsAsOneBody
<1>3. Spec => []RotorTurnsAsOneBody BY <1>1, TurbineIsBuiltRight, PTL
<1>4. InterfaceSpec => []RotorTurnsAsOneBody BY <1>2, TurbineIsBuiltRight, PTL
<1>5. QED BY <1>3, <1>4

-----------------------------------------------------------------------------
(* Several sequences, one after the other: where each of them begins.        *)

StartOf(q, i) == Len(FlattenSeq(SubSeq(q, 1, i - 1)))

LEMMA JoinsAgree ==
    ASSUME NEW q, NEW p, NEW n \in Nat, NEW m \in 0 .. n, NEW g, Joins(g, q, n),
           NEW h, Joins(h, p, m), \A i \in 1 .. m : p[i] = q[i]
    PROVE  \A i \in 1 .. m : h[i] = g[i]
<1> DEFINE Q == {i \in Nat : i \in 1 .. m => h[i] = g[i]}
<1>1. \A i \in 1 .. m : h[i] = IF i = 1 THEN p[i] ELSE h[i - 1] \o p[i] BY Zenon DEF Joins
<1>2. \A i \in 1 .. m : g[i] = IF i = 1 THEN q[i] ELSE g[i - 1] \o q[i]
  <2>1. \A i \in 1 .. n : g[i] = IF i = 1 THEN q[i] ELSE g[i - 1] \o q[i] BY Zenon DEF Joins
  <2>2. \A i \in 1 .. m : i \in 1 .. n OBVIOUS
  <2>3. QED BY <2>1, <2>2, Zenon
<1>3. 0 \in Q OBVIOUS
<1>4. ASSUME NEW i \in 1 .. m, i - 1 \in Q PROVE i \in Q
  <2>1. p[i] = q[i] /\ i \in Nat OBVIOUS
  <2>2. CASE i = 1
    <3>1. h[i] = p[i] /\ g[i] = q[i] BY <1>1, <1>2, <2>2
    <3>2. QED BY <2>1, <3>1
  <2>3. CASE i # 1
    <3>1. i - 1 \in 1 .. m BY <2>3
    <3>2. h[i - 1] = g[i - 1] BY <1>4, <3>1
    <3>3. h[i] = h[i - 1] \o p[i] /\ g[i] = g[i - 1] \o q[i] BY <1>1, <1>2, <2>3
    <3>4. QED BY <2>1, <3>2, <3>3
  <2>4. QED BY <2>2, <2>3
<1>5. ASSUME NEW i \in 1 .. m PROVE h[i] = g[i]
  <2>1. \A j \in 1 .. i : j - 1 \in Q => j \in Q
    <3>1. \A j \in 1 .. i : j \in 1 .. m OBVIOUS
    <3> HIDE DEF Q
    <3>2. QED BY <1>4, <3>1
  <2>2. i \in Nat OBVIOUS
  <2>3. i \in Q
    <3> HIDE DEF Q
    <3>1. QED BY <1>3, <2>1, <2>2, Segments
  <2>4. QED BY <2>3
<1>6. QED BY <1>5

LEMMA FrontOf ==
    ASSUME NEW q, IsSequence(q), NEW m \in 0 .. Len(q)
    PROVE  /\ IsSequence(SubSeq(q, 1, m)) /\ Len(SubSeq(q, 1, m)) = m
           /\ \A i \in 1 .. m : SubSeq(q, 1, m)[i] = q[i]
<1> DEFINE S == {q[k] : k \in 1 .. Len(q)}
<1>1. q \in Seq(S) /\ Len(q) \in Nat BY Elements
<1> HIDE DEF S
<1>2. /\ SubSeq(q, 1, m) \in Seq(S) /\ Len(SubSeq(q, 1, m)) = m
      /\ \A i \in 1 .. m : SubSeq(q, 1, m)[i] = q[i]
  BY <1>1, SubSeqProperties
<1>3. QED BY <1>2, SequenceIn

LEMMA StartIs ==
    ASSUME NEW q, IsSequence(q), NEW g, Joins(g, q, Len(q)), NEW i \in 1 .. Len(q)
    PROVE  StartOf(q, i) = IF i = 1 THEN 0 ELSE Len(g[i - 1])
<1> DEFINE p == SubSeq(q, 1, i - 1)
<1>1. Len(q) \in Nat /\ i - 1 \in 0 .. Len(q) BY Elements
<1>2. IsSequence(p) /\ Len(p) = i - 1 /\ \A k \in 1 .. i - 1 : p[k] = q[k] BY <1>1, FrontOf
<1> HIDE DEF p
<1>3. CASE i = 1
  <2>1. Len(p) = 0 BY <1>2, <1>3
  <2>2. FlattenSeq(p) = p BY <2>1 DEF FlattenSeq
  <2>3. QED BY <1>3, <2>1, <2>2 DEF StartOf, p
<1>4. CASE i # 1
  <2> DEFINE h == CHOOSE x : Joins(x, p, Len(p))
  <2>1. Len(p) \in Nat /\ Len(p) # 0 /\ Len(p) \in 0 .. Len(q) /\ i - 1 \in 1 .. Len(p)
    BY <1>1, <1>2, <1>4
  <2>2. Joins(h, p, Len(p)) BY <2>1, JoinsExists
  <2>3. FlattenSeq(p) = h[Len(p)] BY <2>1, Zenon DEF FlattenSeq, Joins
  <2> HIDE DEF h
  <2>4. \A k \in 1 .. Len(p) : h[k] = g[k]
    <3>1. \A k \in 1 .. Len(p) : p[k] = q[k] BY <1>2
    <3>2. QED BY <1>1, <2>1, <2>2, <3>1, JoinsAgree
  <2>5. FlattenSeq(p) = g[i - 1] BY <1>2, <2>1, <2>3, <2>4
  <2>6. QED BY <1>4, <2>5 DEF StartOf, p
<1>5. QED BY <1>3, <1>4

\* Begin(g, i) is where the i-th of the joined parts begins.
Begin(g, i) == IF i = 1 THEN 0 ELSE Len(g[i - 1])
LiesIn(s, q, g, i) ==
    /\ Begin(g, i) \in Nat /\ Begin(g, i) + Len(q[i]) <= Len(s)
    /\ \A c \in 1 .. Len(q[i]) : s[Begin(g, i) + c] = q[i][c]
IsFilledBy(s, q, g, m) ==
    \A k \in 1 .. Len(s) : \E i \in 1 .. m : \E c \in 1 .. Len(q[i]) : k = Begin(g, i) + c

LEMMA JoinedParts ==
    ASSUME NEW q, NEW n \in Nat, DOMAIN q = 1 .. n, \A k \in 1 .. n : IsSequence(q[k]),
           NEW g, Joins(g, q, n)
    PROVE  \A m \in 1 .. n : /\ \A i \in 1 .. m : LiesIn(g[m], q, g, i)
                             /\ IsFilledBy(g[m], q, g, m)
<1> DEFINE Good(m) == /\ \A i \in 1 .. m : LiesIn(g[m], q, g, i)
                      /\ IsFilledBy(g[m], q, g, m)
           Q == {m \in Nat : m \in 1 .. n => Good(m)}
<1>1. 0 \in Q
  <2> HIDE DEF Good
  <2>1. QED OBVIOUS
<1>2. ASSUME NEW m \in 1 .. n, m - 1 \in Q PROVE Good(m)
  <2>1. g[m] = IF m = 1 THEN q[m] ELSE g[m - 1] \o q[m] BY Zenon DEF Joins
  <2>2. IsSequence(q[m]) /\ Len(q[m]) \in Nat BY Elements
  <2>3. CASE m = 1
    <3>1. g[m] = q[m] /\ 1 .. m = {m} /\ Begin(g, m) = 0 BY <2>1, <2>3 DEF Begin
    <3>2. LiesIn(g[m], q, g, m) BY <2>2, <3>1 DEF LiesIn
    <3>3. IsFilledBy(g[m], q, g, m) BY <2>2, <3>1 DEF IsFilledBy
    <3>4. QED BY <3>1, <3>2, <3>3
  <2>4. CASE m # 1
    <3>1. m - 1 \in 1 .. n /\ m \in Nat BY <2>4
    <3>2. Good(m - 1)
      <4> HIDE DEF Good
      <4>1. QED BY <1>2, <3>1
    <3>3. g[m] = g[m - 1] \o q[m] /\ Begin(g, m) = Len(g[m - 1]) BY <2>1, <2>4 DEF Begin
    <3>4. IsSequence(g[m - 1]) BY <3>1, JoinedEntries
    <3> DEFINE a == g[m - 1]
               b == q[m]
    <3>5. /\ IsSequence(g[m]) /\ Len(g[m]) = Len(a) + Len(b) /\ Len(a) \in Nat
          /\ \A k \in 1 .. Len(a) : g[m][k] = a[k]
          /\ \A k \in 1 .. Len(b) : g[m][Len(a) + k] = b[k]
      BY <2>2, <3>3, <3>4, Joined, Elements
    <3>6. LiesIn(g[m], q, g, m) BY <2>2, <3>3, <3>5 DEF LiesIn
    <3>7. ASSUME NEW i \in 1 .. m - 1 PROVE LiesIn(g[m], q, g, i)
      <4>1. LiesIn(a, q, g, i) BY <3>2
      <4>2. i \in 1 .. n OBVIOUS
      <4>3. Len(q[i]) \in Nat BY <4>2, Elements
      <4>4. \A c \in 1 .. Len(q[i]) : Begin(g, i) + c \in 1 .. Len(a)
        BY <3>5, <4>1, <4>3 DEF LiesIn
      <4>5. \A c \in 1 .. Len(q[i]) : g[m][Begin(g, i) + c] = q[i][c]
        BY <3>5, <4>1, <4>4 DEF LiesIn
      <4>6. Begin(g, i) \in Nat /\ Begin(g, i) + Len(q[i]) <= Len(a) BY <4>1 DEF LiesIn
      <4>7. Begin(g, i) + Len(q[i]) <= Len(g[m]) BY <2>2, <3>5, <4>3, <4>6
      <4>8. QED BY <4>5, <4>6, <4>7 DEF LiesIn
    <3>8. IsFilledBy(g[m], q, g, m)
      <4> SUFFICES ASSUME NEW k \in 1 .. Len(g[m])
                   PROVE  \E i \in 1 .. m : \E c \in 1 .. Len(q[i]) : k = Begin(g, i) + c
        BY DEF IsFilledBy
      <4>1. CASE k <= Len(a)
        <5>1. k \in 1 .. Len(a) BY <3>5, <4>1
        <5>2. PICK i \in 1 .. m - 1 : \E c \in 1 .. Len(q[i]) : k = Begin(g, i) + c
          BY <3>2, <5>1 DEF IsFilledBy
        <5>3. i \in 1 .. m OBVIOUS
        <5>4. QED BY <5>2, <5>3
      <4>2. CASE ~ (k <= Len(a))
        <5>1. k - Len(a) \in 1 .. Len(b) /\ k = Len(a) + (k - Len(a)) BY <2>2, <3>5, <4>2
        <5>2. m \in 1 .. m BY <3>1
        <5>3. QED BY <3>3, <5>1, <5>2
      <4>3. QED BY <4>1, <4>2
    <3>9. \A i \in 1 .. m : i = m \/ i \in 1 .. m - 1 OBVIOUS
    <3>10. QED BY <3>6, <3>7, <3>8, <3>9
  <2>5. QED BY <2>3, <2>4
<1>3. ASSUME NEW m \in 1 .. n PROVE Good(m)
  <2>1. m \in Q
    <3>1. \A k \in 1 .. m : k \in 1 .. n /\ k \in Nat OBVIOUS
    <3>2. \A k \in 1 .. m : k - 1 \in Q => k \in Q
      <4> HIDE DEF Good
      <4>1. QED BY <1>2, <3>1
    <3> HIDE DEF Q, Good
    <3>3. QED BY <1>1, <3>2, Segments
  <2> HIDE DEF Good
  <2>2. QED BY <2>1
<1>4. QED BY <1>3

\* Every part lies in the whole from where it begins, and nothing else is in the whole.
LEMMA FlattenedParts ==
    ASSUME NEW q, IsSequence(q), \A k \in 1 .. Len(q) : IsSequence(q[k])
    PROVE  LET s == FlattenSeq(q)
           IN  /\ \A i \in 1 .. Len(q) :
                    /\ StartOf(q, i) \in Nat /\ StartOf(q, i) + Len(q[i]) <= Len(s)
                    /\ \A c \in 1 .. Len(q[i]) : s[StartOf(q, i) + c] = q[i][c]
               /\ \A k \in 1 .. Len(s) : \E i \in 1 .. Len(q) : \E c \in 1 .. Len(q[i]) :
                    k = StartOf(q, i) + c
<1>1. Len(q) \in Nat /\ DOMAIN q = 1 .. Len(q) BY Elements
<1>2. CASE Len(q) = 0
  <2>1. FlattenSeq(q) = q BY <1>2 DEF FlattenSeq
  <2>2. 1 .. Len(q) = {} BY <1>2
  <2>3. QED BY <2>1, <2>2
<1>3. CASE Len(q) # 0
  <2> DEFINE joined == CHOOSE g : Joins(g, q, Len(q))
             n == Len(q)
             s == FlattenSeq(q)
  <2>1. Joins(joined, q, Len(q)) BY <1>1, JoinsExists
  <2>2. s = joined[n] BY <1>3, Zenon DEF FlattenSeq, Joins
  <2> HIDE DEF joined
  <2>3. \A i \in 1 .. n : StartOf(q, i) = Begin(joined, i) BY <2>1, StartIs DEF Begin
  <2>4. n \in 1 .. n BY <1>1, <1>3
  <2>5. (\A i \in 1 .. n : LiesIn(s, q, joined, i)) /\ IsFilledBy(s, q, joined, n)
    BY <1>1, <2>1, <2>2, <2>4, JoinedParts
  <2> HIDE DEF s, n
  <2>6. \A i \in 1 .. n : /\ StartOf(q, i) \in Nat /\ StartOf(q, i) + Len(q[i]) <= Len(s)
                          /\ \A c \in 1 .. Len(q[i]) : s[StartOf(q, i) + c] = q[i][c]
    BY <2>3, <2>5 DEF LiesIn
  <2>7. \A k \in 1 .. Len(s) : \E i \in 1 .. n : \E c \in 1 .. Len(q[i]) : k = StartOf(q, i) + c
    BY <2>3, <2>5 DEF IsFilledBy
  <2>8. QED BY <2>6, <2>7 DEF s, n
<1>4. QED BY <1>2, <1>3

\* Parts of the same length begin at its multiples.
LEMMA EqualParts ==
    ASSUME NEW q, IsSequence(q), NEW size \in Nat,
           \A k \in 1 .. Len(q) : IsSequence(q[k]) /\ Len(q[k]) = size
    PROVE  /\ \A i \in 1 .. Len(q) : StartOf(q, i) = (i - 1) * size
           /\ Len(FlattenSeq(q)) = Len(q) * size
<1>1. Len(q) \in Nat /\ DOMAIN q = 1 .. Len(q) BY Elements
<1>2. CASE Len(q) = 0
  <2>1. FlattenSeq(q) = q BY <1>2 DEF FlattenSeq
  <2>2. 1 .. Len(q) = {} BY <1>2
  <2>3. QED BY <1>2, <2>1, <2>2
<1>3. CASE Len(q) # 0
  <2> DEFINE g == CHOOSE x : Joins(x, q, Len(q))
             n == Len(q)
             Q == {m \in Nat : m \in 1 .. n => Len(g[m]) = m * size}
  <2>1. Joins(g, q, n) BY <1>1, JoinsExists
  <2>2. FlattenSeq(q) = g[n] BY <1>3, Zenon DEF FlattenSeq, Joins
  <2> HIDE DEF g
  <2>3. 0 \in Q OBVIOUS
  <2>4. ASSUME NEW m \in 1 .. n, m - 1 \in Q PROVE m \in Q
    <3>1. g[m] = IF m = 1 THEN q[m] ELSE g[m - 1] \o q[m] BY <2>1, Zenon DEF Joins
    <3>2. IsSequence(q[m]) /\ Len(q[m]) = size /\ m \in Nat OBVIOUS
    <3>3. CASE m = 1
      <4>1. Len(g[m]) = size BY <3>1, <3>2, <3>3
      <4>2. 1 * size = size OBVIOUS
      <4>3. QED BY <3>3, <4>1, <4>2
    <3>4. CASE m # 1
      <4>1. m - 1 \in 1 .. n BY <3>4
      <4>2. Len(g[m - 1]) = (m - 1) * size BY <2>4, <4>1
      <4>3. IsSequence(g[m - 1]) BY <1>1, <2>1, <4>1, JoinedEntries
      <4>4. Len(g[m]) = Len(g[m - 1]) + Len(q[m])
        <5>1. g[m] = g[m - 1] \o q[m] BY <3>1, <3>4
        <5>2. IsSequence(q[m]) BY <3>2
        <5>3. Len(g[m - 1] \o q[m]) = Len(g[m - 1]) + Len(q[m]) BY <4>3, <5>2, Joined
        <5>4. QED BY <5>1, <5>3
      <4>5. (m - 1) * size + size = m * size BY <3>2
      <4>6. Len(g[m]) = m * size BY <3>2, <4>2, <4>4, <4>5
      <4>7. QED BY <3>2, <4>6
    <3>5. QED BY <3>3, <3>4
  <2>5. ASSUME NEW m \in 1 .. n PROVE Len(g[m]) = m * size
    <3>1. \A k \in 1 .. m : k \in 1 .. n /\ m \in Nat OBVIOUS
    <3>2. \A k \in 1 .. m : k - 1 \in Q => k \in Q
      <4> HIDE DEF Q
      <4>1. QED BY <2>4, <3>1
    <3>3. m \in Q
      <4> HIDE DEF Q
      <4>1. QED BY <2>3, <3>1, <3>2, Segments
    <3>4. QED BY <3>3
  <2>6. n \in 1 .. n BY <1>1, <1>3
  <2>7. ASSUME NEW i \in 1 .. n PROVE StartOf(q, i) = (i - 1) * size
    <3>1. StartOf(q, i) = IF i = 1 THEN 0 ELSE Len(g[i - 1]) BY <2>1, StartIs
    <3>2. CASE i = 1
      <4>1. (1 - 1) * size = 0 OBVIOUS
      <4>2. QED BY <3>1, <3>2, <4>1
    <3>3. CASE i # 1
      <4>1. i - 1 \in 1 .. n BY <3>3
      <4>2. QED BY <2>5, <3>1, <3>3, <4>1
    <3>4. QED BY <3>2, <3>3
  <2>8. QED BY <2>2, <2>5, <2>6, <2>7
<1>4. QED BY <1>2, <1>3

\* A list without repetition has as many members as entries.
LEMMA DistinctMembers ==
    ASSUME NEW s, IsSequence(s), IsInjective(s)
    PROVE  Cardinality(ToSet(s)) = Len(s)
<1>1. Len(s) \in Nat /\ DOMAIN s = 1 .. Len(s) /\ s = [k \in 1 .. Len(s) |-> s[k]]
  BY Elements DEF IsSequence
<1>2. s \in Bijection(1 .. Len(s), ToSet(s))
  <2>1. s \in [1 .. Len(s) -> ToSet(s)] BY <1>1 DEF ToSet
  <2>2. \A j, k \in 1 .. Len(s) : s[j] = s[k] => j = k BY <1>1 DEF IsInjective
  <2>3. \A v \in ToSet(s) : \E k \in 1 .. Len(s) : s[k] = v BY <1>1 DEF ToSet
  <2>4. QED BY <2>1, <2>2, <2>3, Zenon DEF Bijection, Injection, Surjection, IsInjective
<1>3. IsFiniteSet(1 .. Len(s)) /\ Cardinality(1 .. Len(s)) = Len(s)
  <2>1. ASSUME NEW n \in Nat PROVE IsFiniteSet(1 .. n) /\ Cardinality(1 .. n) = n
    BY FS_Interval
  <2>2. QED BY <1>1, <2>1
<1>4. ExistsBijection(1 .. Len(s), ToSet(s)) BY <1>2, Zenon DEF ExistsBijection
<1>5. QED BY <1>3, <1>4, FS_Bijection

-----------------------------------------------------------------------------
(* Values written into a row one after the other.  Whatever their order,     *)
(* when each is the one a row R has in its place, the places that are        *)
(* written to at all end as those of R.                                      *)

Reaches(w, k) == k \in w.base .. w.base + Len(w.values) - 1
Agrees(w, R) ==
    /\ w.base \in Int /\ Len(w.values) \in Nat
    /\ \A c \in 1 .. Len(w.values) : R[w.base + c - 1] = w.values[c]

WrittenSteps(g, r, ws, n) ==
    g = [s \in SUBSET (1 .. n) |->
           IF s = {} THEN r ELSE Written(g[s \ {Max(s)}], ws[Max(s)])]

LEMMA RowIsStepped ==
    ASSUME NEW r, NEW ws, DOMAIN ws = 1 .. Len(ws)
    PROVE  FoldLeft(Written, r, ws) = (CHOOSE g : WrittenSteps(g, r, ws, Len(ws)))[1 .. Len(ws)]
BY Zenon DEF FoldLeft, MapThenFoldSet, WrittenSteps

\* The row after the writes at the positions s.
RowAfter(D, r, ws, R, s) == [k \in D |-> IF \E i \in s : Reaches(ws[i], k) THEN R[k] ELSE r[k]]

LEMMA OneMoreWrite ==
    ASSUME NEW D \in SUBSET Int, NEW r, NEW ws, NEW R, NEW s, NEW m \in s, Agrees(ws[m], R)
    PROVE  RowAfter(D, r, ws, R, s) = Written(RowAfter(D, r, ws, R, s \ {m}), ws[m])
<1> DEFINE w == ws[m]
           before == RowAfter(D, r, ws, R, s \ {m})
<1>1. DOMAIN before = D BY DEF RowAfter
<1>2. ASSUME NEW k \in D
      PROVE  RowAfter(D, r, ws, R, s)[k] =
               IF k \in w.base .. w.base + Len(w.values) - 1
               THEN w.values[k - w.base + 1] ELSE before[k]
  <2>1. CASE Reaches(w, k)
    <3>0. k \in Int /\ w.base \in Int /\ Len(w.values) \in Nat BY DEF Agrees
    <3>1. k - w.base + 1 \in 1 .. Len(w.values)
      <4>1. k >= w.base /\ k <= w.base + Len(w.values) - 1 BY <2>1, <3>0 DEF Reaches
      <4> HIDE DEF w
      <4>2. QED BY <3>0, <4>1
    <3>2. R[w.base + (k - w.base + 1) - 1] = w.values[k - w.base + 1] BY <3>1 DEF Agrees
    <3>3. w.base + (k - w.base + 1) - 1 = k
      <4>1. w.base \in Int /\ k \in Int BY DEF Agrees
      <4>2. QED BY <4>1
    <3>4. R[k] = w.values[k - w.base + 1] BY <3>2, <3>3
    <3>5. RowAfter(D, r, ws, R, s)[k] = R[k] BY <2>1 DEF RowAfter
    <3>6. QED BY <2>1, <3>4, <3>5 DEF Reaches
  <2>2. CASE ~ Reaches(w, k)
    <3>1. (\E i \in s : Reaches(ws[i], k)) <=> \E i \in s \ {m} : Reaches(ws[i], k) BY <2>2
    <3>2. RowAfter(D, r, ws, R, s)[k] = before[k] BY <3>1 DEF RowAfter
    <3>3. QED BY <2>2, <3>2 DEF Reaches
  <2>3. QED BY <2>1, <2>2
<1>3. RowAfter(D, r, ws, R, s) = [k \in D |-> RowAfter(D, r, ws, R, s)[k]] BY DEF RowAfter
<1>4. Written(before, w) = [k \in D |-> IF k \in w.base .. w.base + Len(w.values) - 1
                                        THEN w.values[k - w.base + 1] ELSE before[k]]
  BY <1>1 DEF Written
<1> HIDE DEF w, before
<1>5. RowAfter(D, r, ws, R, s) = Written(before, w) BY <1>2, <1>3, <1>4
<1>6. QED BY <1>5 DEF w, before

LEMMA RowAfterWrites ==
    ASSUME NEW D \in SUBSET Int, NEW r, r = [k \in D |-> r[k]], NEW ws, IsSequence(ws), NEW R,
           \A i \in 1 .. Len(ws) : Agrees(ws[i], R)
    PROVE  FoldLeft(Written, r, ws) = RowAfter(D, r, ws, R, 1 .. Len(ws))
<1> DEFINE n == Len(ws)
           all == [s \in SUBSET (1 .. n) |-> RowAfter(D, r, ws, R, s)]
<1>1. n \in Nat /\ DOMAIN ws = 1 .. n BY Elements
<1>2. ASSUME NEW s \in SUBSET (1 .. n), s # {}
      PROVE  all[s] = Written(all[s \ {Max(s)}], ws[Max(s)])
  <2>1. Max(s) \in s BY <1>1, <1>2, HighestIn
  <2> DEFINE m == Max(s)
  <2>2. s \ {m} \in SUBSET (1 .. n) /\ m \in 1 .. n BY <2>1
  <2>3. all[s \ {m}] = RowAfter(D, r, ws, R, s \ {m}) /\ all[s] = RowAfter(D, r, ws, R, s) BY <2>2
  <2>4. m \in s BY <2>1
  <2> HIDE DEF m, all
  <2>5. Agrees(ws[m], R) BY <2>2
  <2>6. RowAfter(D, r, ws, R, s) = Written(RowAfter(D, r, ws, R, s \ {m}), ws[m])
    BY <2>4, <2>5, OneMoreWrite
  <2>7. QED BY <2>3, <2>6 DEF m
<1>3. all[{}] = r
  <2>1. all[{}] = RowAfter(D, r, ws, R, {}) OBVIOUS
  <2> HIDE DEF all
  <2>2. QED BY <2>1 DEF RowAfter
<1>4. WrittenSteps(all, r, ws, n)
  <2>1. all = [s \in SUBSET (1 .. n) |-> all[s]] OBVIOUS
  <2> HIDE DEF all
  <2>2. \A s \in SUBSET (1 .. n) :
          all[s] = IF s = {} THEN r ELSE Written(all[s \ {Max(s)}], ws[Max(s)])
    BY <1>2, <1>3
  <2>3. all = [s \in SUBSET (1 .. n) |->
                 IF s = {} THEN r ELSE Written(all[s \ {Max(s)}], ws[Max(s)])]
    BY <2>1, <2>2
  <2>4. QED BY <2>3 DEF WrittenSteps
<1>5. all[1 .. n] = RowAfter(D, r, ws, R, 1 .. n) OBVIOUS
<1> DEFINE g == CHOOSE x : WrittenSteps(x, r, ws, n)
<1> HIDE DEF all
<1>6. WrittenSteps(g, r, ws, n) BY <1>4
<1>7. FoldLeft(Written, r, ws) = g[1 .. n] BY <1>1, RowIsStepped
<1> HIDE DEF g, n
<1>8. g[1 .. n] = all[1 .. n]
  <2> DEFINE Q == {m \in Nat : m <= n => g[1 .. m] = all[1 .. m]}
  <2>1. ASSUME NEW s \in SUBSET (1 .. n)
        PROVE  /\ g[s] = IF s = {} THEN r ELSE Written(g[s \ {Max(s)}], ws[Max(s)])
               /\ all[s] = IF s = {} THEN r ELSE Written(all[s \ {Max(s)}], ws[Max(s)])
    BY <1>4, <1>6, Zenon DEF WrittenSteps
  <2>2. 0 \in Q
    <3>1. 1 .. 0 = {} OBVIOUS
    <3>2. g[1 .. 0] = all[1 .. 0] BY <2>1, <3>1
    <3>3. QED BY <3>2
  <2>3. ASSUME NEW m \in 1 .. n, m - 1 \in Q PROVE m \in Q
    <3>1. m \in Nat /\ m # 0 /\ m - 1 <= n BY <1>1
    <3>2. 1 .. m # {} /\ (1 .. m) \ {Max(1 .. m)} = 1 .. m - 1 BY <3>1, HighestOf
    <3>3. g[1 .. m - 1] = all[1 .. m - 1] BY <2>3, <3>1
    <3>4. 1 .. m \in SUBSET (1 .. n) BY <1>1
    <3> DEFINE top == Max(1 .. m)
               rest == (1 .. m) \ {top}
    <3>5. g[1 .. m] = Written(g[rest], ws[top]) /\ all[1 .. m] = Written(all[rest], ws[top])
      BY <2>1, <3>2, <3>4
    <3>6. g[rest] = all[rest] BY <3>2, <3>3
    <3> HIDE DEF top, rest
    <3>7. g[1 .. m] = all[1 .. m] BY <3>5, <3>6
    <3>8. QED BY <3>1, <3>7
  <2> HIDE DEF Q
  <2>4. n \in Q BY <1>1, <2>2, <2>3, Segments
  <2>5. QED BY <1>1, <2>4 DEF Q
<1>9. QED BY <1>5, <1>7, <1>8 DEF n

-----------------------------------------------------------------------------
(* Groups of channels: the index of a group leads to its names.              *)

IndexOf(groups) ==
    [key \in {groups[g].key : g \in DOMAIN groups} |->
       Len(NamesOf(SubSeq(groups, 1, (CHOOSE g \in DOMAIN groups : groups[g].key = key) - 1)))]

AreGroups(groups) ==
    /\ IsSequence(groups)
    /\ \A g \in 1 .. Len(groups) : IsSequence(groups[g].names)
    /\ \A g, h \in 1 .. Len(groups) : groups[g].key = groups[h].key => g = h

NamesIn(groups) == [g \in DOMAIN groups |-> groups[g].names]

LEMMA NamesOfFront ==
    ASSUME NEW groups, IsSequence(groups), NEW m \in 0 .. Len(groups)
    PROVE  NamesOf(SubSeq(groups, 1, m)) = FlattenSeq(SubSeq(NamesIn(groups), 1, m))
<1> DEFINE front == SubSeq(groups, 1, m)
           q == NamesIn(groups)
           a == NamesIn(front)
           b == SubSeq(q, 1, m)
<1>1. Len(groups) \in Nat /\ DOMAIN groups = 1 .. Len(groups) BY Elements
<1>2. IsSequence(q) /\ Len(q) = Len(groups) BY <1>1, SequenceOf DEF NamesIn
<1>3. IsSequence(front) /\ Len(front) = m /\ \A i \in 1 .. m : front[i] = groups[i] BY FrontOf
<1>4. m \in Nat /\ DOMAIN front = 1 .. m BY <1>3, Elements
<1>5. IsSequence(a) /\ Len(a) = m BY <1>4, SequenceOf DEF NamesIn
<1>6. IsSequence(b) /\ Len(b) = m /\ \A i \in 1 .. m : b[i] = q[i] BY <1>2, FrontOf
<1>7. \A i \in 1 .. m : a[i] = front[i].names /\ q[i] = groups[i].names
  BY <1>1, <1>4 DEF NamesIn
<1> HIDE DEF front, q, a, b
<1>8. a = b BY <1>3, <1>5, <1>6, <1>7, Same
<1>9. QED BY <1>8 DEF NamesOf, NamesIn, front, q, a, b

LEMMA GroupsInOrder ==
    ASSUME NEW groups, AreGroups(groups)
    PROVE  LET names == NamesOf(groups)
               index_ == IndexOf(groups)
           IN  /\ IsSequence(names)
               /\ \A group \in ToSet(groups) :
                    /\ index_[group.key] \in Nat
                    /\ index_[group.key] + Len(group.names) <= Len(names)
                    /\ \A c \in 1 .. Len(group.names) : names[index_[group.key] + c] = group.names[c]
               /\ \A k \in 1 .. Len(names) : \E group \in ToSet(groups) :
                    \E c \in 1 .. Len(group.names) : k = index_[group.key] + c
<1> DEFINE q == NamesIn(groups)
           names == NamesOf(groups)
           idx == IndexOf(groups)
           n == Len(groups)
<1>1. n \in Nat /\ DOMAIN groups = 1 .. n /\ IsSequence(groups) BY Elements DEF AreGroups
<1>2. IsSequence(q) /\ Len(q) = n /\ \A g \in 1 .. n : q[g] = groups[g].names
  BY <1>1, SequenceOf DEF NamesIn
<1>3. \A g \in 1 .. n : IsSequence(q[g]) BY <1>2 DEF AreGroups
<1>4. names = FlattenSeq(q) BY DEF NamesOf, NamesIn
<1>5. \A g \in 1 .. n : idx[groups[g].key] = StartOf(q, g)
  <2> SUFFICES ASSUME NEW g \in 1 .. n PROVE idx[groups[g].key] = StartOf(q, g) OBVIOUS
  <2> DEFINE of(key) == CHOOSE h \in DOMAIN groups : groups[h].key = key
             key == groups[g].key
  <2>1. of(key) \in DOMAIN groups /\ groups[of(key)].key = key BY <1>1
  <2>2. of(key) = g BY <1>1, <2>1 DEF AreGroups
  <2>3. idx[key] = Len(NamesOf(SubSeq(groups, 1, of(key) - 1))) BY <1>1 DEF IndexOf
  <2>4. g - 1 \in 0 .. n BY <1>1
  <2>5. NamesOf(SubSeq(groups, 1, g - 1)) = FlattenSeq(SubSeq(q, 1, g - 1))
    BY <1>1, <2>4, NamesOfFront
  <2> HIDE DEF of, key, idx, q
  <2>6. idx[key] = StartOf(q, g) BY <2>2, <2>3, <2>5 DEF StartOf
  <2>7. QED BY <2>6 DEF key
<1>6. IsSequence(names) BY <1>2, <1>3, <1>4, FlattenedEntries
<1>7. /\ \A g \in 1 .. n :
           /\ StartOf(q, g) \in Nat /\ StartOf(q, g) + Len(q[g]) <= Len(names)
           /\ \A c \in 1 .. Len(q[g]) : names[StartOf(q, g) + c] = q[g][c]
      /\ \A k \in 1 .. Len(names) : \E g \in 1 .. n : \E c \in 1 .. Len(q[g]) :
           k = StartOf(q, g) + c
  BY <1>2, <1>3, <1>4, FlattenedParts
<1> HIDE DEF q, names, idx, n
<1>8. ASSUME NEW group \in ToSet(groups)
      PROVE  /\ idx[group.key] \in Nat
             /\ idx[group.key] + Len(group.names) <= Len(names)
             /\ \A c \in 1 .. Len(group.names) : names[idx[group.key] + c] = group.names[c]
  <2>1. PICK g \in 1 .. n : group = groups[g] BY <1>1 DEF ToSet
  <2>2. idx[group.key] = StartOf(q, g) /\ group.names = q[g] BY <1>2, <1>5, <2>1
  <2>3. QED BY <1>7, <2>2
<1>9. ASSUME NEW k \in 1 .. Len(names)
      PROVE  \E group \in ToSet(groups) : \E c \in 1 .. Len(group.names) : k = idx[group.key] + c
  <2>1. PICK g \in 1 .. n : \E c \in 1 .. Len(q[g]) : k = StartOf(q, g) + c BY <1>7
  <2>2. groups[g] \in ToSet(groups) BY <1>1 DEF ToSet
  <2>3. QED BY <1>2, <1>5, <2>1, <2>2
<1>10. QED BY <1>6, <1>8, <1>9 DEF names, idx

\* The key of the group a channel belongs to can be told from its name.
BladeKinds == {"RootF", "RootM", "BldPitch", "TipTV", "TipRV"}
AeroKinds == {"Vrel", "Alpha", "Cn", "Ct", "Cm", "Fi", "Mi"}
KeyOf(name) ==
    IF name[1] \in BladeKinds THEN <<"blade", name[2]>>
    ELSE IF name[1] \in AeroKinds THEN <<"aero", name[2]>> ELSE <<name[1]>>
NamesAreOf(group) ==
    /\ IsSequence(group.names) /\ IsInjective(group.names)
    /\ \A c \in 1 .. Len(group.names) : KeyOf(group.names[c]) = group.key

LEMMA NoNameTwice ==
    ASSUME NEW groups, AreGroups(groups), \A g \in 1 .. Len(groups) : NamesAreOf(groups[g])
    PROVE  IsInjective(NamesOf(groups))
<1> DEFINE q == NamesIn(groups)
           n == Len(groups)
<1>1. n \in Nat /\ DOMAIN groups = 1 .. n /\ IsSequence(groups) BY Elements DEF AreGroups
<1>2. IsSequence(q) /\ Len(q) = n /\ DOMAIN q = 1 .. n /\ \A g \in 1 .. n : q[g] = groups[g].names
  BY <1>1, SequenceOf DEF NamesIn
<1>3. \A g \in 1 .. n : /\ IsSequence(q[g]) /\ IsInjective(q[g])
                        /\ \A c \in 1 .. Len(q[g]) : KeyOf(q[g][c]) = groups[g].key
  BY <1>2 DEF NamesAreOf
<1>4. NamesOf(groups) = FlattenSeq(q) BY DEF NamesOf, NamesIn
<1> HIDE DEF q, n
<1>5. ASSUME NEW g \in 1 .. n, NEW v \in ToSet(q[g]) PROVE KeyOf(v) = groups[g].key
  <2>1. DOMAIN q[g] = 1 .. Len(q[g]) BY <1>3, Elements
  <2>2. PICK c \in 1 .. Len(q[g]) : v = q[g][c] BY <2>1 DEF ToSet
  <2>3. QED BY <1>3, <2>2
<1>6. ASSUME NEW g \in 1 .. n, NEW h \in 1 .. n, g # h PROVE ToSet(q[g]) \cap ToSet(q[h]) = {}
  <2> SUFFICES ASSUME NEW v \in ToSet(q[g]), v \in ToSet(q[h]) PROVE FALSE OBVIOUS
  <2>1. KeyOf(v) = groups[g].key /\ KeyOf(v) = groups[h].key BY <1>5
  <2>2. g = h BY <2>1 DEF AreGroups, n
  <2>3. QED BY <1>6, <2>2
<1>7. PartsApart(q) BY <1>2, <1>3, <1>6 DEF PartsApart
<1>8. QED BY <1>2, <1>3, <1>4, <1>7, FlattenedEntries

LEMMA NumberedNames ==
    ASSUME NEW name, NEW i
    PROVE  /\ IsSequence(Numbered(name, i)) /\ Len(Numbered(name, i)) = 3
           /\ \A c \in 1 .. 3 : Numbered(name, i)[c] = <<name, i, c>>
<1> DEFINE s == Numbered(name, i)
<1>1. DOMAIN s = 1 .. 3 /\ s = [c \in 1 .. 3 |-> s[c]] BY DEF Numbered
<1>2. \A c \in 1 .. 3 : s[c] = <<name, i, c>> BY DEF Numbered
<1> HIDE DEF s
<1>3. IsSequence(s) /\ Len(s) = 3 BY <1>1, SequenceOf
<1>4. QED BY <1>2, <1>3 DEF s

LEMMA BladeNames ==
    ASSUME NEW i
    PROVE  LET names == BladeGroup(i).names
           IN  /\ IsSequence(names) /\ Len(names) = 13
               /\ \A c \in 1 .. 3 : names[c] = <<"RootF", i, c>>
               /\ \A c \in 1 .. 3 : names[3 + c] = <<"RootM", i, c>>
               /\ names[7] = <<"BldPitch", i>>
               /\ \A c \in 1 .. 3 : names[7 + c] = <<"TipTV", i, c>>
               /\ \A c \in 1 .. 3 : names[10 + c] = <<"TipRV", i, c>>
<1> DEFINE a == Numbered("RootF", i)
           b == Numbered("RootM", i)
           p == << <<"BldPitch", i>> >>
           d == Numbered("TipTV", i)
           e == Numbered("TipRV", i)
           ab == a \o b
           abp == ab \o p
           abpd == abp \o d
           names == abpd \o e
<1>1. /\ \A c \in 1 .. 3 : a[c] = <<"RootF", i, c>>
      /\ \A c \in 1 .. 3 : b[c] = <<"RootM", i, c>>
      /\ \A c \in 1 .. 3 : d[c] = <<"TipTV", i, c>>
      /\ \A c \in 1 .. 3 : e[c] = <<"TipRV", i, c>>
  BY NumberedNames
<1>a. IsSequence(a) /\ Len(a) = 3 BY NumberedNames
<1>b. IsSequence(b) /\ Len(b) = 3 BY NumberedNames
<1>d. IsSequence(d) /\ Len(d) = 3 BY NumberedNames
<1>e. IsSequence(e) /\ Len(e) = 3 BY NumberedNames
<1>2. IsSequence(p) /\ Len(p) = 1 /\ p[1] = <<"BldPitch", i>> BY List1
<1> HIDE DEF a, b, p, d, e
<1>3. /\ IsSequence(ab) /\ Len(ab) = 3 + 3 /\ \A c \in 1 .. 3 : ab[c] = a[c]
      /\ \A c \in 1 .. 3 : ab[3 + c] = b[c]
  <2>1. /\ IsSequence(a \o b) /\ Len(a \o b) = Len(a) + Len(b)
        /\ \A c \in 1 .. Len(a) : (a \o b)[c] = a[c]
        /\ \A c \in 1 .. Len(b) : (a \o b)[Len(a) + c] = b[c]
    <3>1. IsSequence(a) BY <1>a
    <3>2. IsSequence(b) BY <1>b
    <3>3. QED BY <3>1, <3>2, Joined
  <2>2. QED BY <1>a, <1>b, <2>1
<1>ab. IsSequence(ab) /\ Len(ab) = 6 BY <1>3
<1> HIDE DEF ab
<1>4. /\ IsSequence(abp) /\ Len(abp) = 6 + 1 /\ \A c \in 1 .. 6 : abp[c] = ab[c]
      /\ \A c \in 1 .. 1 : abp[6 + c] = p[c]
  <2>1. /\ IsSequence(ab \o p) /\ Len(ab \o p) = Len(ab) + Len(p)
        /\ \A c \in 1 .. Len(ab) : (ab \o p)[c] = ab[c]
        /\ \A c \in 1 .. Len(p) : (ab \o p)[Len(ab) + c] = p[c]
    <3>1. IsSequence(ab) BY <1>ab
    <3>2. IsSequence(p) BY <1>2
    <3>3. QED BY <3>1, <3>2, Joined
  <2>2. QED BY <1>ab, <1>2, <2>1
<1>abp. IsSequence(abp) /\ Len(abp) = 7 BY <1>4
<1> HIDE DEF abp
<1>4a. abp[7] = p[1]
  <2>1. abp[6 + 1] = p[1] BY <1>4
  <2>2. QED BY <2>1
<1>5. /\ IsSequence(abpd) /\ Len(abpd) = 7 + 3 /\ \A c \in 1 .. 7 : abpd[c] = abp[c]
      /\ \A c \in 1 .. 3 : abpd[7 + c] = d[c]
  <2>1. /\ IsSequence(abp \o d) /\ Len(abp \o d) = Len(abp) + Len(d)
        /\ \A c \in 1 .. Len(abp) : (abp \o d)[c] = abp[c]
        /\ \A c \in 1 .. Len(d) : (abp \o d)[Len(abp) + c] = d[c]
    <3>1. IsSequence(abp) BY <1>abp
    <3>2. IsSequence(d) BY <1>d
    <3>3. QED BY <3>1, <3>2, Joined
  <2>2. QED BY <1>abp, <1>d, <2>1
<1>abpd. IsSequence(abpd) /\ Len(abpd) = 10 BY <1>5
<1> HIDE DEF abpd
<1>6. /\ IsSequence(names) /\ Len(names) = 10 + 3 /\ \A c \in 1 .. 10 : names[c] = abpd[c]
      /\ \A c \in 1 .. 3 : names[10 + c] = e[c]
  <2>1. /\ IsSequence(abpd \o e) /\ Len(abpd \o e) = Len(abpd) + Len(e)
        /\ \A c \in 1 .. Len(abpd) : (abpd \o e)[c] = abpd[c]
        /\ \A c \in 1 .. Len(e) : (abpd \o e)[Len(abpd) + c] = e[c]
    <3>1. IsSequence(abpd) BY <1>abpd
    <3>2. IsSequence(e) BY <1>e
    <3>3. QED BY <3>1, <3>2, Joined
  <2>2. QED BY <1>abpd, <1>e, <2>1
<1>7. BladeGroup(i).names = names BY DEF BladeGroup, Group, names, abpd, abp, ab, a, b, p, d, e
<1> HIDE DEF names
<1>8. \A c \in 1 .. 3 : /\ c \in 1 .. 6 /\ 3 + c \in 1 .. 6 /\ c \in 1 .. 7 /\ 3 + c \in 1 .. 7
                        /\ 7 + c \in 1 .. 10 /\ c \in 1 .. 10 /\ 3 + c \in 1 .. 10
  OBVIOUS
<1>9. \A c \in 1 .. 3 : names[c] = a[c] /\ names[3 + c] = b[c] /\ names[7 + c] = d[c]
  BY <1>3, <1>4, <1>5, <1>6, <1>8
<1>10. names[7] = p[1] BY <1>4a, <1>5, <1>6
<1>11. QED BY <1>1, <1>2, <1>6, <1>7, <1>9, <1>10

\* The place of a channel in the group of its blade.
BladePlace(name) ==
    IF name[1] = "RootF" THEN name[3] ELSE IF name[1] = "RootM" THEN 3 + name[3]
    ELSE IF name[1] = "BldPitch" THEN 7 ELSE IF name[1] = "TipTV" THEN 7 + name[3] ELSE 10 + name[3]

LEMMA ThirteenPlaces ==
    ASSUME NEW c \in 1 .. 13
    PROVE  \/ c \in 1 .. 3
           \/ \E d \in 1 .. 3 : c = 3 + d
           \/ c = 7
           \/ \E d \in 1 .. 3 : c = 7 + d
           \/ \E d \in 1 .. 3 : c = 10 + d
<1>1. c \in 4 .. 6 => c - 3 \in 1 .. 3 /\ c = 3 + (c - 3) OBVIOUS
<1>2. c \in 8 .. 10 => c - 7 \in 1 .. 3 /\ c = 7 + (c - 7) OBVIOUS
<1>3. c \in 11 .. 13 => c - 10 \in 1 .. 3 /\ c = 10 + (c - 10) OBVIOUS
<1>4. c \in 1 .. 3 \/ c \in 4 .. 6 \/ c = 7 \/ c \in 8 .. 10 \/ c \in 11 .. 13 OBVIOUS
<1>5. QED BY <1>1, <1>2, <1>3, <1>4

LEMMA BladeGroupIs ==
    ASSUME NEW i
    PROVE  NamesAreOf(BladeGroup(i)) /\ BladeGroup(i).key = <<"blade", i>>
<1> DEFINE names == BladeGroup(i).names
<1>1. /\ IsSequence(names) /\ Len(names) = 13 /\ DOMAIN names = 1 .. 13
      /\ \A c \in 1 .. 3 : names[c] = <<"RootF", i, c>>
      /\ \A c \in 1 .. 3 : names[3 + c] = <<"RootM", i, c>>
      /\ names[7] = <<"BldPitch", i>>
      /\ \A c \in 1 .. 3 : names[7 + c] = <<"TipTV", i, c>>
      /\ \A c \in 1 .. 3 : names[10 + c] = <<"TipRV", i, c>>
  BY BladeNames, Elements
<1>2. BladeGroup(i).key = <<"blade", i>> BY DEF BladeGroup, Group
<1> HIDE DEF names
<1>3. ASSUME NEW c \in 1 .. 13 PROVE BladePlace(names[c]) = c /\ KeyOf(names[c]) = <<"blade", i>>
  <2>1. CASE c \in 1 .. 3
    <3>1. names[c] = <<"RootF", i, c>> BY <1>1, <2>1
    <3>2. QED BY <3>1 DEF BladePlace, KeyOf, BladeKinds
  <2>2. CASE \E d \in 1 .. 3 : c = 3 + d
    <3>1. PICK d \in 1 .. 3 : c = 3 + d BY <2>2
    <3>2. names[c] = <<"RootM", i, d>> BY <1>1, <3>1
    <3>3. QED BY <3>1, <3>2 DEF BladePlace, KeyOf, BladeKinds
  <2>3. CASE c = 7
    <3>1. names[c] = <<"BldPitch", i>> BY <1>1, <2>3
    <3>2. QED BY <2>3, <3>1 DEF BladePlace, KeyOf, BladeKinds
  <2>4. CASE \E d \in 1 .. 3 : c = 7 + d
    <3>1. PICK d \in 1 .. 3 : c = 7 + d BY <2>4
    <3>2. names[c] = <<"TipTV", i, d>> BY <1>1, <3>1
    <3>3. QED BY <3>1, <3>2 DEF BladePlace, KeyOf, BladeKinds
  <2>5. CASE \E d \in 1 .. 3 : c = 10 + d
    <3>1. PICK d \in 1 .. 3 : c = 10 + d BY <2>5
    <3>2. names[c] = <<"TipRV", i, d>> BY <1>1, <3>1
    <3>3. QED BY <3>1, <3>2 DEF BladePlace, KeyOf, BladeKinds
  <2>6. QED BY <2>1, <2>2, <2>3, <2>4, <2>5, ThirteenPlaces
<1>4. IsInjective(names) BY <1>1, <1>3 DEF IsInjective
<1>5. QED BY <1>1, <1>2, <1>3, <1>4 DEF NamesAreOf, names

LEMMA SectionNamesAre ==
    ASSUME NEW b, NEW s
    PROVE  LET names == SectionNames(b, s)
           IN  /\ IsSequence(names) /\ Len(names) = 11
               /\ names[1] = <<"Vrel", b, s>> /\ names[2] = <<"Alpha", b, s>>
               /\ names[3] = <<"Cn", b, s>> /\ names[4] = <<"Ct", b, s>> /\ names[5] = <<"Cm", b, s>>
               /\ \A c \in 1 .. 3 : names[5 + c] = <<"Fi", b, s, c>>
               /\ \A c \in 1 .. 3 : names[8 + c] = <<"Mi", b, s, c>>
<1> DEFINE x == << <<"Vrel", b, s>>, <<"Alpha", b, s>>, <<"Cn", b, s>>, <<"Ct", b, s>>, <<"Cm", b, s>> >>
           y == [c \in 1 .. 3 |-> <<"Fi", b, s, c>>]
           z == [c \in 1 .. 3 |-> <<"Mi", b, s, c>>]
           xy == x \o y
           names == xy \o z
<1>1. IsSequence(x) /\ Len(x) = 5 BY List5
<1>2. IsSequence(y) /\ Len(y) = 3
  <2>1. y = [c \in 1 .. 3 |-> y[c]] OBVIOUS
  <2> HIDE DEF y
  <2>2. QED BY <2>1, SequenceOf
<1>3. IsSequence(z) /\ Len(z) = 3
  <2>1. z = [c \in 1 .. 3 |-> z[c]] OBVIOUS
  <2> HIDE DEF z
  <2>2. QED BY <2>1, SequenceOf
<1>4. /\ x[1] = <<"Vrel", b, s>> /\ x[2] = <<"Alpha", b, s>>
      /\ x[3] = <<"Cn", b, s>> /\ x[4] = <<"Ct", b, s>> /\ x[5] = <<"Cm", b, s>>
  OBVIOUS
<1>5. (\A c \in 1 .. 3 : y[c] = <<"Fi", b, s, c>>) /\ (\A c \in 1 .. 3 : z[c] = <<"Mi", b, s, c>>)
  OBVIOUS
<1>6. SectionNames(b, s) = names BY DEF SectionNames
<1> HIDE DEF x, y, z
<1>7. /\ IsSequence(xy) /\ Len(xy) = 8 /\ \A c \in 1 .. 5 : xy[c] = x[c]
      /\ \A c \in 1 .. 3 : xy[5 + c] = y[c]
  <2>1. IsSequence(x) BY <1>1
  <2>2. IsSequence(y) BY <1>2
  <2>3. /\ IsSequence(xy) /\ Len(xy) = Len(x) + Len(y) /\ \A c \in 1 .. Len(x) : xy[c] = x[c]
        /\ \A c \in 1 .. Len(y) : xy[Len(x) + c] = y[c]
    BY <2>1, <2>2, Joined
  <2> HIDE DEF xy
  <2>4. QED BY <1>1, <1>2, <2>3
<1> HIDE DEF xy
<1>8. /\ IsSequence(names) /\ Len(names) = 11 /\ \A c \in 1 .. 8 : names[c] = xy[c]
      /\ \A c \in 1 .. 3 : names[8 + c] = z[c]
  <2>1. IsSequence(xy) BY <1>7
  <2>2. IsSequence(z) BY <1>3
  <2>3. /\ IsSequence(names) /\ Len(names) = Len(xy) + Len(z)
        /\ \A c \in 1 .. Len(xy) : names[c] = xy[c]
        /\ \A c \in 1 .. Len(z) : names[Len(xy) + c] = z[c]
    BY <2>1, <2>2, Joined
  <2> HIDE DEF names
  <2>4. QED BY <1>3, <1>7, <2>3
<1> HIDE DEF names
<1>9. \A c \in 1 .. 3 : 5 + c \in 1 .. 8 OBVIOUS
<1>10. \A c \in 1 .. 3 : names[5 + c] = y[c] BY <1>7, <1>8, <1>9
<1>11. names[1] = x[1] /\ names[2] = x[2] /\ names[3] = x[3] /\ names[4] = x[4] /\ names[5] = x[5]
  BY <1>7, <1>8
<1>12. QED BY <1>4, <1>5, <1>6, <1>8, <1>10, <1>11

\* The place of a channel among those of its section.
SectionPlace(name) ==
    IF name[1] = "Vrel" THEN 1 ELSE IF name[1] = "Alpha" THEN 2 ELSE IF name[1] = "Cn" THEN 3
    ELSE IF name[1] = "Ct" THEN 4 ELSE IF name[1] = "Cm" THEN 5
    ELSE IF name[1] = "Fi" THEN 5 + name[4] ELSE 8 + name[4]

LEMMA ElevenPlaces ==
    ASSUME NEW c \in 1 .. 11
    PROVE  \/ c = 1 \/ c = 2 \/ c = 3 \/ c = 4 \/ c = 5
           \/ \E d \in 1 .. 3 : c = 5 + d
           \/ \E d \in 1 .. 3 : c = 8 + d
<1>1. c \in 6 .. 8 => c - 5 \in 1 .. 3 /\ c = 5 + (c - 5) OBVIOUS
<1>2. c \in 9 .. 11 => c - 8 \in 1 .. 3 /\ c = 8 + (c - 8) OBVIOUS
<1>3. c = 1 \/ c = 2 \/ c = 3 \/ c = 4 \/ c = 5 \/ c \in 6 .. 8 \/ c \in 9 .. 11 OBVIOUS
<1>4. QED BY <1>1, <1>2, <1>3

LEMMA SectionPlaces ==
    ASSUME NEW b, NEW s, NEW c \in 1 .. 11
    PROVE  LET name == SectionNames(b, s)[c]
           IN  SectionPlace(name) = c /\ name[3] = s /\ KeyOf(name) = <<"aero", b>>
<1> DEFINE names == SectionNames(b, s)
<1>1. /\ names[1] = <<"Vrel", b, s>> /\ names[2] = <<"Alpha", b, s>>
      /\ names[3] = <<"Cn", b, s>> /\ names[4] = <<"Ct", b, s>> /\ names[5] = <<"Cm", b, s>>
      /\ \A d \in 1 .. 3 : names[5 + d] = <<"Fi", b, s, d>>
      /\ \A d \in 1 .. 3 : names[8 + d] = <<"Mi", b, s, d>>
  BY SectionNamesAre
<1> HIDE DEF names
<1> DEFINE Good == SectionPlace(names[c]) = c /\ names[c][3] = s /\ KeyOf(names[c]) = <<"aero", b>>
<1>2. c = 1 => Good BY <1>1 DEF SectionPlace, KeyOf, BladeKinds, AeroKinds
<1>3. c = 2 => Good BY <1>1 DEF SectionPlace, KeyOf, BladeKinds, AeroKinds
<1>4. c = 3 => Good BY <1>1 DEF SectionPlace, KeyOf, BladeKinds, AeroKinds
<1>5. c = 4 => Good BY <1>1 DEF SectionPlace, KeyOf, BladeKinds, AeroKinds
<1>6. c = 5 => Good BY <1>1 DEF SectionPlace, KeyOf, BladeKinds, AeroKinds
<1>7. ASSUME \E d \in 1 .. 3 : c = 5 + d PROVE Good
  <2>1. PICK d \in 1 .. 3 : c = 5 + d BY <1>7
  <2>2. names[c] = <<"Fi", b, s, d>> BY <1>1, <2>1
  <2>3. QED BY <2>1, <2>2 DEF SectionPlace, KeyOf, BladeKinds, AeroKinds
<1>8. ASSUME \E d \in 1 .. 3 : c = 8 + d PROVE Good
  <2>1. PICK d \in 1 .. 3 : c = 8 + d BY <1>8
  <2>2. names[c] = <<"Mi", b, s, d>> BY <1>1, <2>1
  <2>3. QED BY <2>1, <2>2 DEF SectionPlace, KeyOf, BladeKinds, AeroKinds
<1>9. Good
  <2> HIDE DEF Good
  <2>1. QED BY <1>2, <1>3, <1>4, <1>5, <1>6, <1>7, <1>8, ElevenPlaces
<1>10. QED BY <1>9 DEF names

\* What the groups of bodies need to know: their sections are lists.
AreBodies == IsSequence(bodies) /\ \A b \in 1 .. Len(bodies) : IsSequence(bodies[b].sections)

SectionsOf(b) == [s \in DOMAIN bodies[b].sections |-> SectionNames(b, s)]

LEMMA SectionsInOrder ==
    ASSUME NEW b, IsSequence(bodies[b].sections)
    PROVE  LET n == Len(bodies[b].sections)
               q == SectionsOf(b)
               names == AeroGroup(b).names
           IN  /\ n \in Nat /\ DOMAIN bodies[b].sections = 1 .. n
               /\ IsSequence(q) /\ Len(q) = n /\ \A s \in 1 .. n : q[s] = SectionNames(b, s)
               /\ names = FlattenSeq(q) /\ IsSequence(names) /\ Len(names) = n * 11
               /\ \A s \in 1 .. n :
                    /\ (s - 1) * 11 \in Nat /\ (s - 1) * 11 + 11 <= n * 11
                    /\ \A c \in 1 .. 11 : names[(s - 1) * 11 + c] = SectionNames(b, s)[c]
               /\ \A k \in 1 .. Len(names) : \E s \in 1 .. n : \E c \in 1 .. 11 : k = (s - 1) * 11 + c
<1> DEFINE n == Len(bodies[b].sections)
           q == SectionsOf(b)
           names == AeroGroup(b).names
<1>1. n \in Nat /\ DOMAIN bodies[b].sections = 1 .. n BY Elements
<1>2. IsSequence(q) /\ Len(q) = n /\ \A s \in 1 .. n : q[s] = SectionNames(b, s)
  BY <1>1, SequenceOf DEF SectionsOf
<1>3. names = FlattenSeq(q) BY DEF AeroGroup, Group, SectionsOf
<1> HIDE DEF n, q, names
<1>4. \A s \in 1 .. n : IsSequence(q[s]) /\ Len(q[s]) = 11 BY <1>2, SectionNamesAre
<1>5. IsSequence(names) BY <1>2, <1>3, <1>4, FlattenedEntries
<1>5a. IsSequence(q) /\ \A s \in 1 .. Len(q) : IsSequence(q[s]) /\ Len(q[s]) = 11
  BY <1>2, <1>4
<1>6. /\ \A s \in 1 .. n : StartOf(q, s) = (s - 1) * 11
      /\ Len(names) = n * 11
  <2>1. (\A s \in 1 .. Len(q) : StartOf(q, s) = (s - 1) * 11) /\ Len(FlattenSeq(q)) = Len(q) * 11
    BY <1>5a, EqualParts
  <2>2. QED BY <1>2, <1>3, <2>1
<1>7. /\ \A s \in 1 .. n : \A c \in 1 .. 11 : names[StartOf(q, s) + c] = q[s][c]
      /\ \A k \in 1 .. Len(names) : \E s \in 1 .. n : \E c \in 1 .. 11 : k = StartOf(q, s) + c
  <2>1. \A s \in 1 .. Len(q) : IsSequence(q[s]) BY <1>5a
  <2>2. /\ \A s \in 1 .. Len(q) : \A c \in 1 .. Len(q[s]) :
             FlattenSeq(q)[StartOf(q, s) + c] = q[s][c]
        /\ \A k \in 1 .. Len(FlattenSeq(q)) : \E s \in 1 .. Len(q) : \E c \in 1 .. Len(q[s]) :
             k = StartOf(q, s) + c
    BY <1>2, <2>1, FlattenedParts
  <2>3. QED BY <1>2, <1>3, <1>4, <2>2
<1>8. ASSUME NEW s \in 1 .. n
      PROVE  /\ (s - 1) * 11 \in Nat /\ (s - 1) * 11 + 11 <= n * 11
             /\ \A c \in 1 .. 11 : names[(s - 1) * 11 + c] = SectionNames(b, s)[c]
  <2>1. (s - 1) * 11 \in Nat /\ (s - 1) * 11 + 11 <= n * 11 BY <1>1
  <2>2. \A c \in 1 .. 11 : names[(s - 1) * 11 + c] = q[s][c] BY <1>6, <1>7
  <2>3. QED BY <1>2, <2>1, <2>2
<1>9. ASSUME NEW k \in 1 .. Len(names)
      PROVE  \E s \in 1 .. n : \E c \in 1 .. 11 : k = (s - 1) * 11 + c
  <2>1. PICK s \in 1 .. n, c \in 1 .. 11 : k = StartOf(q, s) + c BY <1>7
  <2>2. k = (s - 1) * 11 + c BY <1>6, <2>1
  <2>3. QED BY <2>2
<1>10. QED BY <1>1, <1>2, <1>3, <1>5, <1>6, <1>8, <1>9 DEF n, q, names

LEMMA AeroGroupIs ==
    ASSUME NEW b, IsSequence(bodies[b].sections)
    PROVE  NamesAreOf(AeroGroup(b)) /\ AeroGroup(b).key = <<"aero", b>>
<1> DEFINE n == Len(bodies[b].sections)
           q == SectionsOf(b)
           names == AeroGroup(b).names
<1>1. /\ n \in Nat /\ IsSequence(q) /\ Len(q) = n /\ \A s \in 1 .. n : q[s] = SectionNames(b, s)
      /\ names = FlattenSeq(q) /\ IsSequence(names)
      /\ \A s \in 1 .. n : \A c \in 1 .. 11 : names[(s - 1) * 11 + c] = SectionNames(b, s)[c]
      /\ \A k \in 1 .. Len(names) : \E s \in 1 .. n : \E c \in 1 .. 11 : k = (s - 1) * 11 + c
  BY SectionsInOrder
<1>2. AeroGroup(b).key = <<"aero", b>> BY DEF AeroGroup, Group
<1> HIDE DEF n, q, names
<1>3. ASSUME NEW s \in 1 .. n
      PROVE  /\ IsSequence(q[s]) /\ DOMAIN q[s] = 1 .. 11
             /\ \A c \in 1 .. 11 : SectionPlace(q[s][c]) = c /\ q[s][c][3] = s
  <2> DEFINE names_ == SectionNames(b, s)
  <2>1. IsSequence(names_) /\ Len(names_) = 11 BY SectionNamesAre
  <2>2. DOMAIN names_ = 1 .. Len(names_)
    <3> HIDE DEF names_
    <3>1. QED BY <2>1, Elements
  <2>3. \A c \in 1 .. 11 : SectionPlace(names_[c]) = c /\ names_[c][3] = s BY SectionPlaces
  <2>4. q[s] = names_ BY <1>1
  <2> HIDE DEF names_
  <2>5. QED BY <2>1, <2>2, <2>3, <2>4
<1>4. \A s \in 1 .. n : IsInjective(q[s]) BY <1>3 DEF IsInjective
<1>5. ASSUME NEW s \in 1 .. n, NEW t \in 1 .. n, s # t PROVE ToSet(q[s]) \cap ToSet(q[t]) = {}
  <2> SUFFICES ASSUME NEW v \in ToSet(q[s]), v \in ToSet(q[t]) PROVE FALSE OBVIOUS
  <2>1. v[3] = s /\ v[3] = t BY <1>3 DEF ToSet
  <2>2. QED BY <1>5, <2>1
<1>6. DOMAIN q = 1 .. n BY <1>1, Elements
<1>7. PartsApart(q) BY <1>4, <1>5, <1>6 DEF PartsApart
<1>8. IsInjective(names) BY <1>1, <1>3, <1>7, FlattenedEntries
<1>9. ASSUME NEW k \in 1 .. Len(names) PROVE KeyOf(names[k]) = <<"aero", b>>
  <2>1. PICK s \in 1 .. n, c \in 1 .. 11 : k = (s - 1) * 11 + c BY <1>1
  <2>2. names[k] = SectionNames(b, s)[c] BY <1>1, <2>1
  <2>3. KeyOf(SectionNames(b, s)[c]) = <<"aero", b>> BY SectionPlaces, Zenon
  <2>4. QED BY <2>2, <2>3
<1>10. QED BY <1>1, <1>2, <1>8, <1>9 DEF NamesAreOf, names

-----------------------------------------------------------------------------
(* The schema, group by group.                                               *)

HeadKinds == {"Time", "ConvIter", "ConvError", "Azimuth", "RotSpeed", "YawPzn", "YawBrTD",
              "YawBrTV", "YawBrTA", "TwrBsF", "TwrBsM", "RotThrust"}
TripleKinds == {"YawBrTD", "YawBrTV", "YawBrTA", "TwrBsF", "TwrBsM", "WindHubVel"}
GroupOf(key) ==
    IF key[1] = "blade" THEN BladeGroup(key[2])
    ELSE IF key[1] = "aero" THEN AeroGroup(key[2])
    ELSE IF key[1] \in TripleKinds THEN Triple(key[1]) ELSE Single(key[1])
IsGroup(group) == NamesAreOf(group) /\ group = GroupOf(group.key)

LEMMA SingleIs ==
    ASSUME NEW name, name \notin BladeKinds \cup AeroKinds \cup TripleKinds \cup {"blade", "aero"}
    PROVE  /\ IsGroup(Single(name)) /\ Single(name).key = <<name>>
           /\ Len(Single(name).names) = 1 /\ Single(name).names[1] = <<name>>
<1> DEFINE names == Single(name).names
<1>1. names = << <<name>> >> /\ Single(name).key = <<name>> BY DEF Single, Group
<1>2. names[1] = <<name>> /\ Single(name).key[1] = name BY <1>1
<1>3. IsSequence(names) /\ Len(names) = 1
  <2>1. IsSequence(<< <<name>> >>) /\ Len(<< <<name>> >>) = 1 BY List1
  <2> HIDE DEF names
  <2>2. QED BY <1>1, <2>1
<1>4. KeyOf(names[1]) = <<name>> BY <1>2 DEF KeyOf
<1> HIDE DEF names
<1>5. DOMAIN names = {1}
  <2>1. DOMAIN names = 1 .. Len(names) BY <1>3, Elements
  <2>2. QED BY <1>3, <2>1
<1>6. IsInjective(names) BY <1>5 DEF IsInjective
<1>7. \A c \in 1 .. Len(names) : KeyOf(names[c]) = <<name>>
  <2>1. \A c \in 1 .. 1 : c = 1 OBVIOUS
  <2>2. QED BY <1>3, <1>4, <2>1
<1>8. GroupOf(Single(name).key) = Single(name) BY <1>2 DEF GroupOf
<1>9. QED BY <1>1, <1>2, <1>3, <1>6, <1>7, <1>8 DEF IsGroup, NamesAreOf, names

LEMMA TripleIs ==
    ASSUME NEW name \in TripleKinds
    PROVE  /\ IsGroup(Triple(name)) /\ Triple(name).key = <<name>>
           /\ Len(Triple(name).names) = 3
           /\ \A c \in 1 .. 3 : Triple(name).names[c] = <<name, c>>
<1> DEFINE names == Triple(name).names
<1>1. names = [c \in 1 .. 3 |-> <<name, c>>] /\ Triple(name).key = <<name>> BY DEF Triple, Group
<1>2. \A c \in 1 .. 3 : names[c] = <<name, c>> BY <1>1
<1>3. Triple(name).key[1] = name BY <1>1
<1>4. name \notin BladeKinds \cup AeroKinds \cup {"blade", "aero"}
  BY DEF BladeKinds, AeroKinds, TripleKinds
<1>5. DOMAIN names = 1 .. 3 /\ names = [c \in 1 .. 3 |-> names[c]] BY <1>1
<1> HIDE DEF names
<1>6. IsSequence(names) /\ Len(names) = 3 BY <1>5, SequenceOf
<1>7. \A c \in 1 .. 3 : names[c][1] = name /\ names[c][2] = c BY <1>2
<1>8. \A c \in 1 .. 3 : KeyOf(names[c]) = <<name>> BY <1>4, <1>7 DEF KeyOf
<1>9. IsInjective(names) BY <1>5, <1>7 DEF IsInjective
<1>10. GroupOf(Triple(name).key) = Triple(name) BY <1>3, <1>4 DEF GroupOf
<1>11. QED BY <1>1, <1>2, <1>6, <1>8, <1>9, <1>10 DEF IsGroup, NamesAreOf, names

Heads == <<Single("Time"), Single("ConvIter"), Single("ConvError"), Single("Azimuth"),
           Single("RotSpeed"), Single("YawPzn"), Triple("YawBrTD"), Triple("YawBrTV"),
           Triple("YawBrTA"), Triple("TwrBsF"), Triple("TwrBsM"), Single("RotThrust")>>
BladeGroups == [i \in DOMAIN blades |-> BladeGroup(i)]
Generator == IF hasController THEN <<Single("GenTq"), Single("GenPwr")>> ELSE <<>>
Wind == <<Triple("WindHubVel")>>
AeroGroups == [b \in AeroBodies |-> AeroGroup(b)]

LEMMA SchemaParts == Schema = (((Heads \o BladeGroups) \o Generator) \o Wind) \o AeroGroups
BY Zenon DEF Schema, Heads, BladeGroups, Generator, Wind, AeroGroups

\* Groups of the kinds of a set, none of them twice.
AreOfKinds(groups, kinds) ==
    /\ IsSequence(groups) /\ IsInjective(groups)
    /\ \A group \in ToSet(groups) : IsGroup(group) /\ group.key[1] \in kinds

LEMMA HeadsAre ==
    /\ AreOfKinds(Heads, HeadKinds) /\ Len(Heads) = 12
    /\ \A i \in {1, 2, 3, 4, 5, 6, 12} : Heads[i] = Single(Heads[i].key[1])
    /\ \A i \in {7, 8, 9, 10, 11} : Heads[i] = Triple(Heads[i].key[1])
<1> DEFINE kind == [i \in 1 .. 12 |-> Heads[i].key[1]]
<1>1. DOMAIN Heads = 1 .. 12 /\ Heads = [k \in 1 .. 12 |-> Heads[k]] BY DEF Heads
<1>2. IsSequence(Heads) /\ Len(Heads) = 12 BY <1>1, SequenceOf
<1>3. /\ Heads[1] = Single("Time") /\ Heads[2] = Single("ConvIter")
      /\ Heads[3] = Single("ConvError") /\ Heads[4] = Single("Azimuth")
      /\ Heads[5] = Single("RotSpeed") /\ Heads[6] = Single("YawPzn")
      /\ Heads[7] = Triple("YawBrTD") /\ Heads[8] = Triple("YawBrTV")
      /\ Heads[9] = Triple("YawBrTA") /\ Heads[10] = Triple("TwrBsF")
      /\ Heads[11] = Triple("TwrBsM") /\ Heads[12] = Single("RotThrust")
  BY DEF Heads
<1>4. \A name : Single(name).key[1] = name /\ Triple(name).key[1] = name
  BY DEF Single, Triple, Group
<1>5. /\ kind[1] = "Time" /\ kind[2] = "ConvIter" /\ kind[3] = "ConvError" /\ kind[4] = "Azimuth"
      /\ kind[5] = "RotSpeed" /\ kind[6] = "YawPzn" /\ kind[7] = "YawBrTD" /\ kind[8] = "YawBrTV"
      /\ kind[9] = "YawBrTA" /\ kind[10] = "TwrBsF" /\ kind[11] = "TwrBsM"
      /\ kind[12] = "RotThrust"
  BY <1>3, <1>4
<1>6. \A i \in 1 .. 12 : kind[i] = Heads[i].key[1] OBVIOUS
<1> HIDE DEF kind
<1>7. \A i \in 1 .. 12 : \/ i = 1 \/ i = 2 \/ i = 3 \/ i = 4 \/ i = 5 \/ i = 6
                         \/ i = 7 \/ i = 8 \/ i = 9 \/ i = 10 \/ i = 11 \/ i = 12
  OBVIOUS
<1>8. ASSUME NEW i \in 1 .. 12, NEW j \in 1 .. 12, kind[i] = kind[j] PROVE i = j
  BY <1>5, <1>7, <1>8
<1>9. IsInjective(Heads) BY <1>1, <1>6, <1>8 DEF IsInjective
<1>10. \A i \in 1 .. 12 : kind[i] \in HeadKinds BY <1>5, <1>7 DEF HeadKinds
<1>11. \A i \in {1, 2, 3, 4, 5, 6, 12} : Heads[i] = Single(kind[i]) /\ i \in 1 .. 12 BY <1>3, <1>5
<1>12. \A i \in {7, 8, 9, 10, 11} : Heads[i] = Triple(kind[i]) /\ i \in 1 .. 12 BY <1>3, <1>5
<1>13. ASSUME NEW i \in 1 .. 12 PROVE IsGroup(Heads[i])
  <2>1. CASE i \in {1, 2, 3, 4, 5, 6, 12}
    <3>1. kind[i] \notin BladeKinds \cup AeroKinds \cup TripleKinds \cup {"blade", "aero"}
      BY <1>5, <2>1 DEF BladeKinds, AeroKinds, TripleKinds
    <3>2. IsGroup(Single(kind[i])) BY <3>1, SingleIs
    <3>3. QED BY <1>11, <2>1, <3>2
  <2>2. CASE i \in {7, 8, 9, 10, 11}
    <3>1. kind[i] \in TripleKinds BY <1>5, <2>2 DEF TripleKinds
    <3>2. IsGroup(Triple(kind[i])) BY <3>1, TripleIs
    <3>3. QED BY <1>12, <2>2, <3>2
  <2>3. QED BY <1>7, <2>1, <2>2
<1>14. \A group \in ToSet(Heads) : IsGroup(group) /\ group.key[1] \in HeadKinds
  <2>1. \A group \in ToSet(Heads) : \E i \in 1 .. 12 : group = Heads[i] BY <1>1 DEF ToSet
  <2>2. QED BY <1>6, <1>10, <1>13, <2>1
<1>15. QED BY <1>2, <1>6, <1>9, <1>11, <1>12, <1>14 DEF AreOfKinds

LEMMA KindsJoined ==
    ASSUME NEW a, NEW b, NEW A, NEW B, AreOfKinds(a, A), AreOfKinds(b, B), A \cap B = {}
    PROVE  AreOfKinds(a \o b, A \cup B) /\ ToSet(a \o b) = ToSet(a) \cup ToSet(b)
<1>1. IsSequence(a) /\ IsSequence(b) /\ IsInjective(a) /\ IsInjective(b) BY DEF AreOfKinds
<1>2. ToSet(a) \cap ToSet(b) = {}
  <2>1. \A v \in ToSet(a) : v.key[1] \in A BY DEF AreOfKinds
  <2>2. \A v \in ToSet(b) : v.key[1] \in B BY DEF AreOfKinds
  <2>3. QED BY <2>1, <2>2
<1>3. IsSequence(a \o b) BY <1>1, Joined
<1>4. ToSet(a \o b) = ToSet(a) \cup ToSet(b) /\ IsInjective(a \o b)
  <2>1. /\ ToSet(a \o b) = ToSet(a) \cup ToSet(b)
        /\ IsInjective(a) /\ IsInjective(b) /\ ToSet(a) \cap ToSet(b) = {} => IsInjective(a \o b)
    BY <1>1, JoinedSets
  <2>2. QED BY <1>1, <1>2, <2>1
<1> DEFINE c == a \o b
<1>5. IsSequence(c) /\ IsInjective(c) /\ ToSet(c) = ToSet(a) \cup ToSet(b) BY <1>3, <1>4
<1> HIDE DEF c
<1>6. AreOfKinds(c, A \cup B) BY <1>5 DEF AreOfKinds
<1>7. QED BY <1>5, <1>6 DEF c

LEMMA BladeGroupsAre ==
    ASSUME IsSequence(blades)
    PROVE  /\ AreOfKinds(BladeGroups, {"blade"})
           /\ ToSet(BladeGroups) = {BladeGroup(i) : i \in 1 .. Len(blades)}
<1>1. DOMAIN blades = 1 .. Len(blades) /\ Len(blades) \in Nat BY Elements
<1> DEFINE g == BladeGroups
<1>2. /\ DOMAIN g = 1 .. Len(blades) /\ g = [i \in 1 .. Len(blades) |-> g[i]]
      /\ \A i \in 1 .. Len(blades) : g[i] = BladeGroup(i)
  BY <1>1 DEF BladeGroups
<1> HIDE DEF g
<1>3. IsSequence(g) /\ Len(g) = Len(blades) BY <1>1, <1>2, SequenceOf
<1>4. ToSet(g) = {BladeGroup(i) : i \in 1 .. Len(blades)} BY <1>2 DEF ToSet
<1>5. \A i : /\ NamesAreOf(BladeGroup(i)) /\ BladeGroup(i).key = <<"blade", i>>
  BY BladeGroupIs
<1>6. \A i : BladeGroup(i).key[1] = "blade" /\ BladeGroup(i).key[2] = i BY <1>5
<1>7. \A i : GroupOf(BladeGroup(i).key) = BladeGroup(i) BY <1>6 DEF GroupOf
<1>8. IsInjective(g)
  <2>1. \A i \in 1 .. Len(blades) : g[i].key[2] = i BY <1>2, <1>6
  <2>2. QED BY <1>2, <2>1 DEF IsInjective
<1>9. \A group \in ToSet(g) : IsGroup(group) /\ group.key[1] \in {"blade"}
  BY <1>4, <1>5, <1>6, <1>7 DEF IsGroup
<1>10. QED BY <1>3, <1>4, <1>8, <1>9 DEF AreOfKinds, g

LEMMA AeroBodiesAre ==
    ASSUME IsSequence(blades), AreBodies
    PROVE  \E n \in Nat : AeroBodies = 1 .. n /\ n <= Len(bodies)
<1>1. Len(blades) \in Nat /\ Len(bodies) \in Nat BY Elements DEF AreBodies
<1>2. QED BY <1>1 DEF AeroBodies

LEMMA AeroGroupsAre ==
    ASSUME IsSequence(blades), AreBodies
    PROVE  /\ AreOfKinds(AeroGroups, {"aero"})
           /\ ToSet(AeroGroups) = {AeroGroup(b) : b \in AeroBodies}
<1>1. PICK n \in Nat : AeroBodies = 1 .. n /\ n <= Len(bodies) BY AeroBodiesAre
<1> DEFINE g == AeroGroups
<1>2. /\ DOMAIN g = 1 .. n /\ g = [b \in 1 .. n |-> g[b]]
      /\ \A b \in 1 .. n : g[b] = AeroGroup(b)
  BY <1>1 DEF AeroGroups
<1> HIDE DEF g
<1>3. IsSequence(g) /\ Len(g) = n BY <1>2, SequenceOf
<1>4. ToSet(g) = {AeroGroup(b) : b \in 1 .. n} BY <1>2 DEF ToSet
<1>5. \A b \in 1 .. n : IsSequence(bodies[b].sections)
  <2>1. Len(bodies) \in Nat BY Elements DEF AreBodies
  <2>2. \A b \in 1 .. n : b \in 1 .. Len(bodies) BY <1>1, <2>1
  <2>3. QED BY <2>2 DEF AreBodies
<1>6. \A b \in 1 .. n : NamesAreOf(AeroGroup(b)) /\ AeroGroup(b).key = <<"aero", b>>
  BY <1>5, AeroGroupIs
<1>7. \A b \in 1 .. n : AeroGroup(b).key[1] = "aero" /\ AeroGroup(b).key[2] = b BY <1>6
<1>8. \A b \in 1 .. n : GroupOf(AeroGroup(b).key) = AeroGroup(b) BY <1>7 DEF GroupOf
<1>9. IsInjective(g)
  <2>1. \A b \in 1 .. n : g[b].key[2] = b BY <1>2, <1>7
  <2>2. QED BY <1>2, <2>1 DEF IsInjective
<1>10. \A group \in ToSet(g) : IsGroup(group) /\ group.key[1] \in {"aero"}
  BY <1>4, <1>6, <1>7, <1>8 DEF IsGroup
<1>11. QED BY <1>1, <1>3, <1>4, <1>9, <1>10 DEF AreOfKinds, g

LEMMA GeneratorIs ==
    /\ AreOfKinds(Generator, {"GenTq", "GenPwr"})
    /\ ToSet(Generator) = IF hasController THEN {Single("GenTq"), Single("GenPwr")} ELSE {}
<1> DEFINE a == Single("GenTq")
           b == Single("GenPwr")
<1>1. IsGroup(a) /\ a.key = <<"GenTq">> /\ IsGroup(b) /\ b.key = <<"GenPwr">>
  <2>1. /\ "GenTq" \notin BladeKinds \cup AeroKinds \cup TripleKinds \cup {"blade", "aero"}
        /\ "GenPwr" \notin BladeKinds \cup AeroKinds \cup TripleKinds \cup {"blade", "aero"}
    BY DEF BladeKinds, AeroKinds, TripleKinds
  <2>2. QED BY <2>1, SingleIs
<1>2. a.key[1] = "GenTq" /\ b.key[1] = "GenPwr" BY <1>1
<1> HIDE DEF a, b
<1>3. CASE hasController
  <2> DEFINE g == <<a, b>>
  <2>1. IsSequence(g) /\ Len(g) = 2 BY List2
  <2>2. DOMAIN g = {1, 2} /\ g[1] = a /\ g[2] = b OBVIOUS
  <2>3. Generator = g BY <1>3 DEF Generator, a, b
  <2> HIDE DEF g
  <2>4. ToSet(g) = {a, b} BY <2>2 DEF ToSet
  <2>5. IsInjective(g) BY <1>2, <2>2 DEF IsInjective
  <2>6. AreOfKinds(g, {"GenTq", "GenPwr"}) BY <1>1, <1>2, <2>1, <2>4, <2>5 DEF AreOfKinds
  <2>7. QED BY <1>3, <2>3, <2>4, <2>6 DEF a, b
<1>4. CASE ~ hasController
  <2> DEFINE g == <<>>
  <2>1. DOMAIN g = 1 .. 0 /\ g = [k \in 1 .. 0 |-> g[k]] /\ DOMAIN g = {} OBVIOUS
  <2>2. Generator = g BY <1>4 DEF Generator
  <2> HIDE DEF g
  <2>3. IsSequence(g) BY <2>1, SequenceOf
  <2>4. ToSet(g) = {} /\ IsInjective(g) BY <2>1 DEF ToSet, IsInjective
  <2>5. QED BY <1>4, <2>2, <2>3, <2>4 DEF AreOfKinds
<1>5. QED BY <1>3, <1>4

LEMMA WindIs ==
    AreOfKinds(Wind, {"WindHubVel"}) /\ ToSet(Wind) = {Triple("WindHubVel")}
<1> DEFINE a == Triple("WindHubVel")
           g == <<a>>
<1>1. IsGroup(a) /\ a.key = <<"WindHubVel">>
  <2>1. "WindHubVel" \in TripleKinds BY DEF TripleKinds
  <2>2. QED BY <2>1, TripleIs
<1>2. a.key[1] = "WindHubVel" BY <1>1
<1>3. Wind = g BY DEF Wind
<1> HIDE DEF a
<1>4. IsSequence(g) BY List1
<1>5. DOMAIN g = {1} /\ g[1] = a OBVIOUS
<1> HIDE DEF g
<1>6. ToSet(g) = {a} /\ IsInjective(g) BY <1>5 DEF ToSet, IsInjective
<1>7. QED BY <1>1, <1>2, <1>3, <1>4, <1>6 DEF AreOfKinds, a

LEMMA SchemaIs ==
    ASSUME IsSequence(blades), AreBodies
    PROVE  /\ AreGroups(Schema) /\ \A g \in 1 .. Len(Schema) : NamesAreOf(Schema[g])
           /\ ToSet(Schema) = ToSet(Heads) \cup ToSet(BladeGroups) \cup ToSet(Generator)
                              \cup ToSet(Wind) \cup ToSet(AeroGroups)
<1> DEFINE hb == Heads \o BladeGroups
           hbg == hb \o Generator
           hbgw == hbg \o Wind
           all == hbgw \o AeroGroups
           K1 == HeadKinds \cup {"blade"}
           K2 == K1 \cup {"GenTq", "GenPwr"}
           K3 == K2 \cup {"WindHubVel"}
           K4 == K3 \cup {"aero"}
<1>1. /\ HeadKinds \cap {"blade"} = {} /\ K1 \cap {"GenTq", "GenPwr"} = {}
      /\ K2 \cap {"WindHubVel"} = {} /\ K3 \cap {"aero"} = {}
  BY DEF HeadKinds
<1> HIDE DEF K1, K2, K3, K4
<1>2. AreOfKinds(hb, K1) /\ ToSet(hb) = ToSet(Heads) \cup ToSet(BladeGroups)
  BY <1>1, HeadsAre, BladeGroupsAre, KindsJoined DEF K1
<1> HIDE DEF hb
<1>3. AreOfKinds(hbg, K2) /\ ToSet(hbg) = ToSet(hb) \cup ToSet(Generator)
  BY <1>1, <1>2, GeneratorIs, KindsJoined DEF K2
<1> HIDE DEF hbg
<1>4. AreOfKinds(hbgw, K3) /\ ToSet(hbgw) = ToSet(hbg) \cup ToSet(Wind)
  BY <1>1, <1>3, WindIs, KindsJoined DEF K3
<1> HIDE DEF hbgw
<1>5. AreOfKinds(all, K4) /\ ToSet(all) = ToSet(hbgw) \cup ToSet(AeroGroups)
  BY <1>1, <1>4, AeroGroupsAre, KindsJoined DEF K4
<1> HIDE DEF all
<1>6. Schema = all BY SchemaParts DEF all, hbgw, hbg, hb
<1>7. IsSequence(all) /\ IsInjective(all) /\ DOMAIN all = 1 .. Len(all)
  BY <1>5, Elements DEF AreOfKinds
<1>8. \A g \in 1 .. Len(all) : IsGroup(all[g])
  <2>1. \A g \in 1 .. Len(all) : all[g] \in ToSet(all) BY <1>7 DEF ToSet
  <2>2. QED BY <1>5, <2>1 DEF AreOfKinds
<1>9. \A g \in 1 .. Len(all) : NamesAreOf(all[g]) /\ all[g] = GroupOf(all[g].key)
  BY <1>8 DEF IsGroup
<1>10. ASSUME NEW g \in 1 .. Len(all), NEW h \in 1 .. Len(all), all[g].key = all[h].key PROVE g = h
  <2>1. all[g] = all[h] BY <1>9, <1>10
  <2>2. QED BY <1>7, <2>1 DEF IsInjective
<1>11. AreGroups(all)
  <2>1. \A g \in 1 .. Len(all) : IsSequence(all[g].names) BY <1>9 DEF NamesAreOf
  <2>2. QED BY <1>7, <1>10, <2>1 DEF AreGroups
<1>12. ToSet(all) = ToSet(Heads) \cup ToSet(BladeGroups) \cup ToSet(Generator)
                    \cup ToSet(Wind) \cup ToSet(AeroGroups)
  BY <1>2, <1>3, <1>4, <1>5
<1>13. QED BY <1>6, <1>9, <1>11, <1>12

-----------------------------------------------------------------------------
(* What the names mean.                                                      *)

LEMMA MeaningByKind ==
    ASSUME NEW name
    PROVE  /\ name[1] = "Time" => Meaning(name) = <<"time">>
           /\ name[1] = "ConvIter" => Meaning(name) = <<"iterations">>
           /\ name[1] = "ConvError" => Meaning(name) = <<"last error">>
           /\ name[1] = "Azimuth" => Meaning(name) = <<"output", 0>>
           /\ name[1] = "RotSpeed" => Meaning(name) = <<"output", 1>>
           /\ name[1] = "YawPzn" => Meaning(name) = <<"yaw control">>
           /\ name[1] = "YawBrTD" => Meaning(name) = <<"u", part["yaw_bearing"], name[2]>>
           /\ name[1] = "YawBrTV" => Meaning(name) = <<"v", part["yaw_bearing"], name[2]>>
           /\ name[1] = "YawBrTA" => Meaning(name) = <<"vd", part["yaw_bearing"], name[2]>>
           /\ name[1] = "TwrBsF" => Meaning(name) = <<"base load", name[2]>>
           /\ name[1] = "TwrBsM" => Meaning(name) = <<"base load", name[2] + 3>>
           /\ name[1] = "RotThrust" => Meaning(name) = <<"shaft force along the shaft">>
           /\ name[1] = "RootF" => Meaning(name) = <<"root load", name[2], name[3]>>
           /\ name[1] = "RootM" => Meaning(name) = <<"root load", name[2], name[3] + 3>>
           /\ name[1] = "BldPitch" => Meaning(name) = <<"pitch control", name[2]>>
           /\ name[1] = "TipTV" => Meaning(name) = <<"v", Last(blades[name[2]]), name[3]>>
           /\ name[1] = "TipRV" => Meaning(name) = <<"v", Last(blades[name[2]]), name[3] + 3>>
           /\ name[1] = "GenTq" => Meaning(name) = <<"torque command">>
           /\ name[1] = "GenPwr" => Meaning(name) = <<"torque command by speed">>
           /\ name[1] = "WindHubVel" => Meaning(name) = <<"hub inflow", name[2]>>
           /\ name[1] = "Vrel" => Meaning(name) = <<"v_rel", name[2], name[3]>>
           /\ name[1] = "Alpha" => Meaning(name) = <<"alpha", name[2], name[3]>>
           /\ name[1] = "Cn" => Meaning(name) = <<"cn", name[2], name[3]>>
           /\ name[1] = "Ct" => Meaning(name) = <<"ct", name[2], name[3]>>
           /\ name[1] = "Cm" => Meaning(name) = <<"cm", name[2], name[3]>>
           /\ name[1] = "Fi" => Meaning(name) = <<"load by width", name[2], name[3], name[4]>>
           /\ name[1] = "Mi" => Meaning(name) = <<"load by width", name[2], name[3], name[4] + 3>>
<1>1. name[1] = "Time" => Meaning(name) = <<"time">>
  BY Zenon DEF Meaning
<1>2. name[1] = "ConvIter" => Meaning(name) = <<"iterations">>
  BY Zenon DEF Meaning
<1>3. name[1] = "ConvError" => Meaning(name) = <<"last error">>
  BY Zenon DEF Meaning
<1>4. name[1] = "Azimuth" => Meaning(name) = <<"output", 0>>
  BY Zenon DEF Meaning
<1>5. name[1] = "RotSpeed" => Meaning(name) = <<"output", 1>>
  BY Zenon DEF Meaning
<1>6. name[1] = "YawPzn" => Meaning(name) = <<"yaw control">>
  BY Zenon DEF Meaning
<1>7. name[1] = "YawBrTD" => Meaning(name) = <<"u", part["yaw_bearing"], name[2]>>
  BY Zenon DEF Meaning
<1>8. name[1] = "YawBrTV" => Meaning(name) = <<"v", part["yaw_bearing"], name[2]>>
  BY Zenon DEF Meaning
<1>9. name[1] = "YawBrTA" => Meaning(name) = <<"vd", part["yaw_bearing"], name[2]>>
  BY Zenon DEF Meaning
<1>10. name[1] = "TwrBsF" => Meaning(name) = <<"base load", name[2]>>
  BY Zenon DEF Meaning
<1>11. name[1] = "TwrBsM" => Meaning(name) = <<"base load", name[2] + 3>>
  BY Zenon DEF Meaning
<1>12. name[1] = "RotThrust" => Meaning(name) = <<"shaft force along the shaft">>
  BY Zenon DEF Meaning
<1>13. name[1] = "RootF" => Meaning(name) = <<"root load", name[2], name[3]>>
  BY Zenon DEF Meaning
<1>14. name[1] = "RootM" => Meaning(name) = <<"root load", name[2], name[3] + 3>>
  BY Zenon DEF Meaning
<1>15. name[1] = "BldPitch" => Meaning(name) = <<"pitch control", name[2]>>
  BY Zenon DEF Meaning
<1>16. name[1] = "TipTV" => Meaning(name) = <<"v", Last(blades[name[2]]), name[3]>>
  BY Zenon DEF Meaning
<1>17. name[1] = "TipRV" => Meaning(name) = <<"v", Last(blades[name[2]]), name[3] + 3>>
  BY Zenon DEF Meaning
<1>18. name[1] = "GenTq" => Meaning(name) = <<"torque command">>
  BY Zenon DEF Meaning
<1>19. name[1] = "GenPwr" => Meaning(name) = <<"torque command by speed">>
  BY Zenon DEF Meaning
<1>20. name[1] = "WindHubVel" => Meaning(name) = <<"hub inflow", name[2]>>
  BY Zenon DEF Meaning
<1>21. name[1] = "Vrel" => Meaning(name) = <<"v_rel", name[2], name[3]>>
  BY Zenon DEF Meaning
<1>22. name[1] = "Alpha" => Meaning(name) = <<"alpha", name[2], name[3]>>
  BY Zenon DEF Meaning
<1>23. name[1] = "Cn" => Meaning(name) = <<"cn", name[2], name[3]>>
  BY Zenon DEF Meaning
<1>24. name[1] = "Ct" => Meaning(name) = <<"ct", name[2], name[3]>>
  BY Zenon DEF Meaning
<1>25. name[1] = "Cm" => Meaning(name) = <<"cm", name[2], name[3]>>
  BY Zenon DEF Meaning
<1>26. name[1] = "Fi" => Meaning(name) = <<"load by width", name[2], name[3], name[4]>>
  BY Zenon DEF Meaning
<1>27. name[1] = "Mi" => Meaning(name) = <<"load by width", name[2], name[3], name[4] + 3>>
  BY Zenon DEF Meaning
<1>28. QED
  BY <1>1, <1>2, <1>3, <1>4, <1>5, <1>6, <1>7, <1>8, <1>9, <1>10, <1>11, <1>12, <1>13, <1>14,
     <1>15, <1>16, <1>17, <1>18, <1>19, <1>20, <1>21, <1>22, <1>23, <1>24, <1>25, <1>26, <1>27, Zenon

LEMMA SingleMeanings ==
    /\ Meaning(<<"Time">>) = <<"time">>
    /\ Meaning(<<"ConvIter">>) = <<"iterations">>
    /\ Meaning(<<"ConvError">>) = <<"last error">>
    /\ Meaning(<<"Azimuth">>) = <<"output", 0>>
    /\ Meaning(<<"RotSpeed">>) = <<"output", 1>>
    /\ Meaning(<<"YawPzn">>) = <<"yaw control">>
    /\ Meaning(<<"RotThrust">>) = <<"shaft force along the shaft">>
    /\ Meaning(<<"GenTq">>) = <<"torque command">>
    /\ Meaning(<<"GenPwr">>) = <<"torque command by speed">>
<1>1. Meaning(<<"Time">>) = <<"time">>
  <2> DEFINE name == <<"Time">>
  <2>1. name[1] = "Time" OBVIOUS
  <2> HIDE DEF name
  <2>2. Meaning(name) = <<"time">> BY <2>1, MeaningByKind, Zenon
  <2>4. QED BY <2>2, Zenon DEF name
<1>2. Meaning(<<"ConvIter">>) = <<"iterations">>
  <2> DEFINE name == <<"ConvIter">>
  <2>1. name[1] = "ConvIter" OBVIOUS
  <2> HIDE DEF name
  <2>2. Meaning(name) = <<"iterations">> BY <2>1, MeaningByKind, Zenon
  <2>4. QED BY <2>2, Zenon DEF name
<1>3. Meaning(<<"ConvError">>) = <<"last error">>
  <2> DEFINE name == <<"ConvError">>
  <2>1. name[1] = "ConvError" OBVIOUS
  <2> HIDE DEF name
  <2>2. Meaning(name) = <<"last error">> BY <2>1, MeaningByKind, Zenon
  <2>4. QED BY <2>2, Zenon DEF name
<1>4. Meaning(<<"Azimuth">>) = <<"output", 0>>
  <2> DEFINE name == <<"Azimuth">>
  <2>1. name[1] = "Azimuth" OBVIOUS
  <2> HIDE DEF name
  <2>2. Meaning(name) = <<"output", 0>> BY <2>1, MeaningByKind, Zenon
  <2>4. QED BY <2>2, Zenon DEF name
<1>5. Meaning(<<"RotSpeed">>) = <<"output", 1>>
  <2> DEFINE name == <<"RotSpeed">>
  <2>1. name[1] = "RotSpeed" OBVIOUS
  <2> HIDE DEF name
  <2>2. Meaning(name) = <<"output", 1>> BY <2>1, MeaningByKind, Zenon
  <2>4. QED BY <2>2, Zenon DEF name
<1>6. Meaning(<<"YawPzn">>) = <<"yaw control">>
  <2> DEFINE name == <<"YawPzn">>
  <2>1. name[1] = "YawPzn" OBVIOUS
  <2> HIDE DEF name
  <2>2. Meaning(name) = <<"yaw control">> BY <2>1, MeaningByKind, Zenon
  <2>4. QED BY <2>2, Zenon DEF name
<1>7. Meaning(<<"RotThrust">>) = <<"shaft force along the shaft">>
  <2> DEFINE name == <<"RotThrust">>
  <2>1. name[1] = "RotThrust" OBVIOUS
  <2> HIDE DEF name
  <2>2. Meaning(name) = <<"shaft force along the shaft">> BY <2>1, MeaningByKind, Zenon
  <2>4. QED BY <2>2, Zenon DEF name
<1>8. Meaning(<<"GenTq">>) = <<"torque command">>
  <2> DEFINE name == <<"GenTq">>
  <2>1. name[1] = "GenTq" OBVIOUS
  <2> HIDE DEF name
  <2>2. Meaning(name) = <<"torque command">> BY <2>1, MeaningByKind, Zenon
  <2>4. QED BY <2>2, Zenon DEF name
<1>9. Meaning(<<"GenPwr">>) = <<"torque command by speed">>
  <2> DEFINE name == <<"GenPwr">>
  <2>1. name[1] = "GenPwr" OBVIOUS
  <2> HIDE DEF name
  <2>2. Meaning(name) = <<"torque command by speed">> BY <2>1, MeaningByKind, Zenon
  <2>4. QED BY <2>2, Zenon DEF name
<1>10. QED BY <1>1, <1>2, <1>3, <1>4, <1>5, <1>6, <1>7, <1>8, <1>9, Zenon

LEMMA TripleMeanings ==
    ASSUME NEW c \in 1 .. 3
    PROVE  /\ Meaning(<<"YawBrTD", c>>) = <<"u", part["yaw_bearing"], c>>
           /\ Meaning(<<"YawBrTV", c>>) = <<"v", part["yaw_bearing"], c>>
           /\ Meaning(<<"YawBrTA", c>>) = <<"vd", part["yaw_bearing"], c>>
           /\ Meaning(<<"TwrBsF", c>>) = <<"base load", c>>
           /\ Meaning(<<"TwrBsM", c>>) = <<"base load", c + 3>>
           /\ Meaning(<<"WindHubVel", c>>) = <<"hub inflow", c>>
<1>1. Meaning(<<"YawBrTD", c>>) = <<"u", part["yaw_bearing"], c>>
  <2> DEFINE name == <<"YawBrTD", c>>
  <2>1. name[1] = "YawBrTD" /\ name[2] = c OBVIOUS
  <2> HIDE DEF name
  <2>2. Meaning(name) = <<"u", part["yaw_bearing"], name[2]>> BY <2>1, MeaningByKind, Zenon
  <2>3. Meaning(name) = <<"u", part["yaw_bearing"], c>> BY <2>1, <2>2, Zenon
  <2>4. QED BY <2>3, Zenon DEF name
<1>2. Meaning(<<"YawBrTV", c>>) = <<"v", part["yaw_bearing"], c>>
  <2> DEFINE name == <<"YawBrTV", c>>
  <2>1. name[1] = "YawBrTV" /\ name[2] = c OBVIOUS
  <2> HIDE DEF name
  <2>2. Meaning(name) = <<"v", part["yaw_bearing"], name[2]>> BY <2>1, MeaningByKind, Zenon
  <2>3. Meaning(name) = <<"v", part["yaw_bearing"], c>> BY <2>1, <2>2, Zenon
  <2>4. QED BY <2>3, Zenon DEF name
<1>3. Meaning(<<"YawBrTA", c>>) = <<"vd", part["yaw_bearing"], c>>
  <2> DEFINE name == <<"YawBrTA", c>>
  <2>1. name[1] = "YawBrTA" /\ name[2] = c OBVIOUS
  <2> HIDE DEF name
  <2>2. Meaning(name) = <<"vd", part["yaw_bearing"], name[2]>> BY <2>1, MeaningByKind, Zenon
  <2>3. Meaning(name) = <<"vd", part["yaw_bearing"], c>> BY <2>1, <2>2, Zenon
  <2>4. QED BY <2>3, Zenon DEF name
<1>4. Meaning(<<"TwrBsF", c>>) = <<"base load", c>>
  <2> DEFINE name == <<"TwrBsF", c>>
  <2>1. name[1] = "TwrBsF" /\ name[2] = c OBVIOUS
  <2> HIDE DEF name
  <2>2. Meaning(name) = <<"base load", name[2]>> BY <2>1, MeaningByKind, Zenon
  <2>3. Meaning(name) = <<"base load", c>> BY <2>1, <2>2, Zenon
  <2>4. QED BY <2>3, Zenon DEF name
<1>5. Meaning(<<"TwrBsM", c>>) = <<"base load", c + 3>>
  <2> DEFINE name == <<"TwrBsM", c>>
  <2>1. name[1] = "TwrBsM" /\ name[2] = c OBVIOUS
  <2> HIDE DEF name
  <2>2. Meaning(name) = <<"base load", name[2] + 3>> BY <2>1, MeaningByKind, Zenon
  <2>3. Meaning(name) = <<"base load", c + 3>> BY <2>1, <2>2, Zenon
  <2>4. QED BY <2>3, Zenon DEF name
<1>6. Meaning(<<"WindHubVel", c>>) = <<"hub inflow", c>>
  <2> DEFINE name == <<"WindHubVel", c>>
  <2>1. name[1] = "WindHubVel" /\ name[2] = c OBVIOUS
  <2> HIDE DEF name
  <2>2. Meaning(name) = <<"hub inflow", name[2]>> BY <2>1, MeaningByKind, Zenon
  <2>3. Meaning(name) = <<"hub inflow", c>> BY <2>1, <2>2, Zenon
  <2>4. QED BY <2>3, Zenon DEF name
<1>7. QED BY <1>1, <1>2, <1>3, <1>4, <1>5, <1>6, Zenon

LEMMA BladeMeanings ==
    ASSUME NEW i, NEW c \in 1 .. 3
    PROVE  /\ Meaning(<<"RootF", i, c>>) = <<"root load", i, c>>
           /\ Meaning(<<"RootM", i, c>>) = <<"root load", i, c + 3>>
           /\ Meaning(<<"BldPitch", i>>) = <<"pitch control", i>>
           /\ Meaning(<<"TipTV", i, c>>) = <<"v", Last(blades[i]), c>>
           /\ Meaning(<<"TipRV", i, c>>) = <<"v", Last(blades[i]), c + 3>>
<1>1. Meaning(<<"RootF", i, c>>) = <<"root load", i, c>>
  <2> DEFINE name == <<"RootF", i, c>>
  <2>1. name[1] = "RootF" /\ name[2] = i /\ name[3] = c OBVIOUS
  <2> HIDE DEF name
  <2>2. Meaning(name) = <<"root load", name[2], name[3]>> BY <2>1, MeaningByKind, Zenon
  <2>3. Meaning(name) = <<"root load", i, c>> BY <2>1, <2>2, Zenon
  <2>4. QED BY <2>3, Zenon DEF name
<1>2. Meaning(<<"RootM", i, c>>) = <<"root load", i, c + 3>>
  <2> DEFINE name == <<"RootM", i, c>>
  <2>1. name[1] = "RootM" /\ name[2] = i /\ name[3] = c OBVIOUS
  <2> HIDE DEF name
  <2>2. Meaning(name) = <<"root load", name[2], name[3] + 3>> BY <2>1, MeaningByKind, Zenon
  <2>3. Meaning(name) = <<"root load", i, c + 3>> BY <2>1, <2>2, Zenon
  <2>4. QED BY <2>3, Zenon DEF name
<1>3. Meaning(<<"BldPitch", i>>) = <<"pitch control", i>>
  <2> DEFINE name == <<"BldPitch", i>>
  <2>1. name[1] = "BldPitch" /\ name[2] = i OBVIOUS
  <2> HIDE DEF name
  <2>2. Meaning(name) = <<"pitch control", name[2]>> BY <2>1, MeaningByKind, Zenon
  <2>3. Meaning(name) = <<"pitch control", i>> BY <2>1, <2>2, Zenon
  <2>4. QED BY <2>3, Zenon DEF name
<1>4. Meaning(<<"TipTV", i, c>>) = <<"v", Last(blades[i]), c>>
  <2> DEFINE name == <<"TipTV", i, c>>
  <2>1. name[1] = "TipTV" /\ name[2] = i /\ name[3] = c OBVIOUS
  <2> HIDE DEF name
  <2>2. Meaning(name) = <<"v", Last(blades[name[2]]), name[3]>> BY <2>1, MeaningByKind, Zenon
  <2>3. Meaning(name) = <<"v", Last(blades[i]), c>> BY <2>1, <2>2, Zenon
  <2>4. QED BY <2>3, Zenon DEF name
<1>5. Meaning(<<"TipRV", i, c>>) = <<"v", Last(blades[i]), c + 3>>
  <2> DEFINE name == <<"TipRV", i, c>>
  <2>1. name[1] = "TipRV" /\ name[2] = i /\ name[3] = c OBVIOUS
  <2> HIDE DEF name
  <2>2. Meaning(name) = <<"v", Last(blades[name[2]]), name[3] + 3>> BY <2>1, MeaningByKind, Zenon
  <2>3. Meaning(name) = <<"v", Last(blades[i]), c + 3>> BY <2>1, <2>2, Zenon
  <2>4. QED BY <2>3, Zenon DEF name
<1>6. QED BY <1>1, <1>2, <1>3, <1>4, <1>5, Zenon

LEMMA SectionMeanings ==
    ASSUME NEW b, NEW s, NEW c \in 1 .. 3
    PROVE  /\ Meaning(<<"Vrel", b, s>>) = <<"v_rel", b, s>>
           /\ Meaning(<<"Alpha", b, s>>) = <<"alpha", b, s>>
           /\ Meaning(<<"Cn", b, s>>) = <<"cn", b, s>>
           /\ Meaning(<<"Ct", b, s>>) = <<"ct", b, s>>
           /\ Meaning(<<"Cm", b, s>>) = <<"cm", b, s>>
           /\ Meaning(<<"Fi", b, s, c>>) = <<"load by width", b, s, c>>
           /\ Meaning(<<"Mi", b, s, c>>) = <<"load by width", b, s, c + 3>>
<1>1. Meaning(<<"Vrel", b, s>>) = <<"v_rel", b, s>>
  <2> DEFINE name == <<"Vrel", b, s>>
  <2>1. name[1] = "Vrel" /\ name[2] = b /\ name[3] = s OBVIOUS
  <2> HIDE DEF name
  <2>2. Meaning(name) = <<"v_rel", name[2], name[3]>> BY <2>1, MeaningByKind, Zenon
  <2>3. Meaning(name) = <<"v_rel", b, s>> BY <2>1, <2>2, Zenon
  <2>4. QED BY <2>3, Zenon DEF name
<1>2. Meaning(<<"Alpha", b, s>>) = <<"alpha", b, s>>
  <2> DEFINE name == <<"Alpha", b, s>>
  <2>1. name[1] = "Alpha" /\ name[2] = b /\ name[3] = s OBVIOUS
  <2> HIDE DEF name
  <2>2. Meaning(name) = <<"alpha", name[2], name[3]>> BY <2>1, MeaningByKind, Zenon
  <2>3. Meaning(name) = <<"alpha", b, s>> BY <2>1, <2>2, Zenon
  <2>4. QED BY <2>3, Zenon DEF name
<1>3. Meaning(<<"Cn", b, s>>) = <<"cn", b, s>>
  <2> DEFINE name == <<"Cn", b, s>>
  <2>1. name[1] = "Cn" /\ name[2] = b /\ name[3] = s OBVIOUS
  <2> HIDE DEF name
  <2>2. Meaning(name) = <<"cn", name[2], name[3]>> BY <2>1, MeaningByKind, Zenon
  <2>3. Meaning(name) = <<"cn", b, s>> BY <2>1, <2>2, Zenon
  <2>4. QED BY <2>3, Zenon DEF name
<1>4. Meaning(<<"Ct", b, s>>) = <<"ct", b, s>>
  <2> DEFINE name == <<"Ct", b, s>>
  <2>1. name[1] = "Ct" /\ name[2] = b /\ name[3] = s OBVIOUS
  <2> HIDE DEF name
  <2>2. Meaning(name) = <<"ct", name[2], name[3]>> BY <2>1, MeaningByKind, Zenon
  <2>3. Meaning(name) = <<"ct", b, s>> BY <2>1, <2>2, Zenon
  <2>4. QED BY <2>3, Zenon DEF name
<1>5. Meaning(<<"Cm", b, s>>) = <<"cm", b, s>>
  <2> DEFINE name == <<"Cm", b, s>>
  <2>1. name[1] = "Cm" /\ name[2] = b /\ name[3] = s OBVIOUS
  <2> HIDE DEF name
  <2>2. Meaning(name) = <<"cm", name[2], name[3]>> BY <2>1, MeaningByKind, Zenon
  <2>3. Meaning(name) = <<"cm", b, s>> BY <2>1, <2>2, Zenon
  <2>4. QED BY <2>3, Zenon DEF name
<1>6. Meaning(<<"Fi", b, s, c>>) = <<"load by width", b, s, c>>
  <2> DEFINE name == <<"Fi", b, s, c>>
  <2>1. name[1] = "Fi" /\ name[2] = b /\ name[3] = s /\ name[4] = c OBVIOUS
  <2> HIDE DEF name
  <2>2. Meaning(name) = <<"load by width", name[2], name[3], name[4]>> BY <2>1, MeaningByKind, Zenon
  <2>3. Meaning(name) = <<"load by width", b, s, c>> BY <2>1, <2>2, Zenon
  <2>4. QED BY <2>3, Zenon DEF name
<1>7. Meaning(<<"Mi", b, s, c>>) = <<"load by width", b, s, c + 3>>
  <2> DEFINE name == <<"Mi", b, s, c>>
  <2>1. name[1] = "Mi" /\ name[2] = b /\ name[3] = s /\ name[4] = c OBVIOUS
  <2> HIDE DEF name
  <2>2. Meaning(name) = <<"load by width", name[2], name[3], name[4] + 3>> BY <2>1, MeaningByKind, Zenon
  <2>3. Meaning(name) = <<"load by width", b, s, c + 3>> BY <2>1, <2>2, Zenon
  <2>4. QED BY <2>3, Zenon DEF name
<1>8. QED BY <1>1, <1>2, <1>3, <1>4, <1>5, <1>6, <1>7, Zenon

LEMMA ComponentsAre ==
    ASSUME NEW quantity, NEW from \in Nat, NEW to \in Nat, from <= to
    PROVE  LET values == Components(quantity, from, to)
           IN  /\ IsSequence(values) /\ Len(values) = to - from + 1
               /\ \A c \in 1 .. to - from + 1 : values[c] = <<quantity, from + c - 1>>
<1> DEFINE n == to - from + 1
           values == Components(quantity, from, to)
<1>1. n \in Nat OBVIOUS
<1>2. /\ values = [c \in 1 .. n |-> values[c]]
      /\ \A c \in 1 .. n : values[c] = <<quantity, from + c - 1>>
  BY DEF Components
<1> HIDE DEF n, values
<1>3. IsSequence(values) /\ Len(values) = n BY <1>1, <1>2, SequenceOf
<1>4. QED BY <1>2, <1>3 DEF n, values

LEMMA ValuesOf ==
    ASSUME NEW quantity, NEW id, NEW n \in Nat, n >= 1
    PROVE  LET values == Of(quantity, id, 1, n)
           IN  /\ IsSequence(values) /\ Len(values) = n
               /\ \A c \in 1 .. n : values[c] = <<quantity, id, c>>
<1> DEFINE values == Of(quantity, id, 1, n)
<1>1. values = [c \in 1 .. n - 1 + 1 |-> <<quantity, id, 1 + c - 1>>] BY DEF Of
<1>2. n - 1 + 1 = n /\ \A c \in 1 .. n : 1 + c - 1 = c OBVIOUS
<1>3. values = [c \in 1 .. n |-> <<quantity, id, c>>] BY <1>1, <1>2
<1> HIDE DEF values
<1>4. values = [c \in 1 .. n |-> values[c]] /\ \A c \in 1 .. n : values[c] = <<quantity, id, c>>
  BY <1>3
<1>5. IsSequence(values) /\ Len(values) = n BY <1>4, SequenceOf
<1>6. QED BY <1>4, <1>5 DEF values

-----------------------------------------------------------------------------
(* The writes: each tells some names of a group, from the o-th on, and every *)
(* name of every group is told.                                              *)

Tells(w, group, o) ==
    /\ w.base = index[group.key] + o
    /\ Len(w.values) \in Nat /\ o + Len(w.values) <= Len(group.names)
    /\ \A c \in 1 .. Len(w.values) : w.values[c] = Meaning(group.names[o + c])
TellsAll(w, group) ==
    /\ w.base = index[group.key] /\ Len(w.values) = Len(group.names)
    /\ \A c \in 1 .. Len(group.names) : w.values[c] = Meaning(group.names[c])

LEMMA AllIsTold ==
    ASSUME NEW w, NEW group, TellsAll(w, group), IsSequence(group.names),
           index[group.key] \in Nat
    PROVE  /\ Tells(w, group, 0)
           /\ \A c \in 1 .. Len(group.names) : 0 < c /\ c <= 0 + Len(w.values)
<1>1. Len(group.names) \in Nat BY Elements
<1>2. \A c \in 1 .. Len(group.names) : 0 + c = c BY <1>1
<1>3. 0 + Len(w.values) = Len(group.names) BY <1>1 DEF TellsAll
<1>4. w.base = index[group.key] + 0 BY DEF TellsAll
<1>5. QED BY <1>1, <1>2, <1>3, <1>4 DEF Tells, TellsAll

LEMMA SingleTold ==
    ASSUME NEW name, NEW value, Meaning(<<name>>) = value,
           Single(name).key = <<name>>, Len(Single(name).names) = 1,
           Single(name).names[1] = <<name>>
    PROVE  TellsAll(Write(Start(name), <<value>>), Single(name))
<1> DEFINE w == Write(Start(name), <<value>>)
<1>1. w.base = index[<<name>>] /\ w.values = <<value>> BY DEF Write, Start
<1>2. w.values[1] = value BY <1>1
<1>3. Len(<<value>>) = 1 BY List1
<1> HIDE DEF w
<1>4. Len(w.values) = 1 BY <1>1, <1>3
<1>5. \A c \in 1 .. 1 : c = 1 OBVIOUS
<1>6. QED BY <1>1, <1>2, <1>4, <1>5 DEF TellsAll, w

LEMMA TripleTold ==
    ASSUME NEW name \in TripleKinds, NEW values, Len(values) = 3,
           \A c \in 1 .. 3 : values[c] = Meaning(<<name, c>>)
    PROVE  TellsAll(Write(Start(name), values), Triple(name))
<1> DEFINE w == Write(Start(name), values)
<1>1. w.base = index[<<name>>] /\ w.values = values BY DEF Write, Start
<1>2. /\ Triple(name).key = <<name>> /\ Len(Triple(name).names) = 3
      /\ \A c \in 1 .. 3 : Triple(name).names[c] = <<name, c>>
  BY TripleIs
<1> HIDE DEF w
<1>3. QED BY <1>1, <1>2 DEF TellsAll, w

\* Writes and the groups they tell, as sets.
Told(ws, groups) ==
    /\ \A w \in ws : \E group \in groups : \E o \in Nat : Tells(w, group, o)
    /\ \A group \in groups : \A c \in 1 .. Len(group.names) :
         \E w \in ws : \E o \in Nat : Tells(w, group, o) /\ o < c /\ c <= o + Len(w.values)

LEMMA ToldTogether ==
    ASSUME NEW A, NEW B, NEW G, NEW H, Told(A, G), Told(B, H)
    PROVE  Told(A \cup B, G \cup H)
<1>1. \A w \in A \cup B : \E group \in G \cup H : \E o \in Nat : Tells(w, group, o)
  BY DEF Told
<1>2. \A group \in G \cup H : \A c \in 1 .. Len(group.names) :
        \E w \in A \cup B : \E o \in Nat : Tells(w, group, o) /\ o < c /\ c <= o + Len(w.values)
  BY DEF Told
<1>3. QED BY <1>1, <1>2 DEF Told

\* Write by write.
LEMMA ToldInPairs ==
    ASSUME NEW ws, NEW groups, NEW n \in Nat, DOMAIN ws = 1 .. n, DOMAIN groups = 1 .. n,
           \A i \in 1 .. n : /\ TellsAll(ws[i], groups[i])
                             /\ IsSequence(groups[i].names) /\ index[groups[i].key] \in Nat
    PROVE  Told(ToSet(ws), ToSet(groups))
<1>1. ASSUME NEW i \in 1 .. n
      PROVE  /\ Tells(ws[i], groups[i], 0)
             /\ \A c \in 1 .. Len(groups[i].names) : 0 < c /\ c <= 0 + Len(ws[i].values)
  BY AllIsTold
<1>2. ASSUME NEW w \in ToSet(ws)
      PROVE  \E group \in ToSet(groups) : \E o \in Nat : Tells(w, group, o)
  <2>1. PICK i \in 1 .. n : w = ws[i] BY DEF ToSet
  <2>2. Tells(w, groups[i], 0) /\ groups[i] \in ToSet(groups) /\ 0 \in Nat BY <1>1, <2>1 DEF ToSet
  <2>3. QED BY <2>2
<1>3. ASSUME NEW group \in ToSet(groups), NEW c \in 1 .. Len(group.names)
      PROVE  \E w \in ToSet(ws) : \E o \in Nat : Tells(w, group, o) /\ o < c /\ c <= o + Len(w.values)
  <2>1. PICK i \in 1 .. n : group = groups[i] BY DEF ToSet
  <2>2. /\ Tells(ws[i], group, 0) /\ 0 < c /\ c <= 0 + Len(ws[i].values)
        /\ ws[i] \in ToSet(ws) /\ 0 \in Nat
    BY <1>1, <2>1 DEF ToSet
  <2>3. QED BY <2>2
<1>4. QED BY <1>2, <1>3 DEF Told

\* index leads to every group of the schema.
IndexIsNat == \A group \in ToSet(Schema) : index[group.key] \in Nat

HeadWrites ==
    <<Write(Start("Time"), << <<"time">> >>),
      Write(Start("ConvIter"), << <<"iterations">> >>),
      Write(Start("ConvError"), << <<"last error">> >>),
      Write(Start("Azimuth"), << <<"output", 0>> >>),
      Write(Start("RotSpeed"), << <<"output", 1>> >>),
      Write(Start("YawPzn"), << <<"yaw control">> >>),
      Write(Start("YawBrTD"), Of("u", part["yaw_bearing"], 1, 3)),
      Write(Start("YawBrTV"), Of("v", part["yaw_bearing"], 1, 3)),
      Write(Start("YawBrTA"), Of("vd", part["yaw_bearing"], 1, 3)),
      Write(Start("TwrBsF"), Components("base load", 1, 3)),
      Write(Start("TwrBsM"), Components("base load", 4, 6)),
      Write(Start("RotThrust"), << <<"shaft force along the shaft">> >>)>>
BladeWrite(i) ==
    Write(index[<<"blade", i>>],
          Of("root load", i, 1, 6) \o << <<"pitch control", i>> >> \o Of("v", Last(blades[i]), 1, 6))
BladeWrites == [i \in DOMAIN blades |-> BladeWrite(i)]
GeneratorWrites ==
    IF hasController
    THEN <<Write(Start("GenTq"), << <<"torque command">> >>),
           Write(Start("GenPwr"), << <<"torque command by speed">> >>)>> ELSE <<>>
WindWrites == <<Write(Start("WindHubVel"), Components("hub inflow", 1, 3))>>
SectionWrite(b, s) == Write(index[<<"aero", b>>] + (s - 1) * AeroChannelStride, SectionValues(b, s))
BodyWrites == [b \in AeroBodies |-> [s \in DOMAIN bodies[b].sections |-> SectionWrite(b, s)]]

LEMMA WritesParts ==
    RowWrites = (((HeadWrites \o BladeWrites) \o GeneratorWrites) \o WindWrites)
                \o FlattenSeq(BodyWrites)
BY Zenon DEF RowWrites, HeadWrites, BladeWrites, BladeWrite, GeneratorWrites, WindWrites,
   BodyWrites, SectionWrite

LEMMA SinglesTold ==
    /\ TellsAll(Write(Start("Time"), << <<"time">> >>), Single("Time"))
    /\ TellsAll(Write(Start("ConvIter"), << <<"iterations">> >>), Single("ConvIter"))
    /\ TellsAll(Write(Start("ConvError"), << <<"last error">> >>), Single("ConvError"))
    /\ TellsAll(Write(Start("Azimuth"), << <<"output", 0>> >>), Single("Azimuth"))
    /\ TellsAll(Write(Start("RotSpeed"), << <<"output", 1>> >>), Single("RotSpeed"))
    /\ TellsAll(Write(Start("YawPzn"), << <<"yaw control">> >>), Single("YawPzn"))
    /\ TellsAll(Write(Start("RotThrust"), << <<"shaft force along the shaft">> >>),
                Single("RotThrust"))
    /\ TellsAll(Write(Start("GenTq"), << <<"torque command">> >>), Single("GenTq"))
    /\ TellsAll(Write(Start("GenPwr"), << <<"torque command by speed">> >>), Single("GenPwr"))
<1> DEFINE Kinds == {"Time", "ConvIter", "ConvError", "Azimuth", "RotSpeed", "YawPzn",
                     "RotThrust", "GenTq", "GenPwr"}
<1>1. \A name \in Kinds :
        name \notin BladeKinds \cup AeroKinds \cup TripleKinds \cup {"blade", "aero"}
  BY DEF BladeKinds, AeroKinds, TripleKinds
<1>2. \A name \in Kinds : /\ Single(name).key = <<name>> /\ Len(Single(name).names) = 1
                          /\ Single(name).names[1] = <<name>>
  <2> HIDE DEF Kinds
  <2>1. QED BY <1>1, SingleIs
<1>3. ASSUME NEW name \in Kinds
      PROVE  TellsAll(Write(Start(name), <<Meaning(<<name>>)>>), Single(name))
  <2> HIDE DEF Kinds
  <2>1. QED BY <1>2, SingleTold
<1>4. \A name \in Kinds : TellsAll(Write(Start(name), <<Meaning(<<name>>)>>), Single(name)) BY <1>3
<1>5. /\ "Time" \in Kinds /\ "ConvIter" \in Kinds /\ "ConvError" \in Kinds /\ "Azimuth" \in Kinds
      /\ "RotSpeed" \in Kinds /\ "YawPzn" \in Kinds /\ "RotThrust" \in Kinds
      /\ "GenTq" \in Kinds /\ "GenPwr" \in Kinds
  OBVIOUS
<1> HIDE DEF Kinds
<1>6. QED BY <1>4, <1>5, SingleMeanings, Zenon

LEMMA ThreeValues ==
    ASSUME NEW values, values = [c \in 1 .. 3 |-> values[c]]
    PROVE  IsSequence(values) /\ Len(values) = 3
<1>1. 3 \in Nat OBVIOUS
<1>2. QED BY <1>1, SequenceOf

LEMMA VectorOfNode ==
    ASSUME NEW quantity, NEW id
    PROVE  /\ Len(Of(quantity, id, 1, 3)) = 3
           /\ \A c \in 1 .. 3 : Of(quantity, id, 1, 3)[c] = <<quantity, id, c>>
<1> DEFINE values == Of(quantity, id, 1, 3)
<1>1. values = [c \in 1 .. 3 |-> <<quantity, id, 1 + c - 1>>] BY DEF Of
<1>2. \A c \in 1 .. 3 : 1 + c - 1 = c OBVIOUS
<1> HIDE DEF values
<1>3. values = [c \in 1 .. 3 |-> values[c]] /\ \A c \in 1 .. 3 : values[c] = <<quantity, id, c>>
  BY <1>1, <1>2
<1>4. Len(values) = 3 BY <1>3, ThreeValues
<1>5. QED BY <1>3, <1>4 DEF values

LEMMA FirstComponents ==
    ASSUME NEW quantity
    PROVE  /\ Len(Components(quantity, 1, 3)) = 3
           /\ \A c \in 1 .. 3 : Components(quantity, 1, 3)[c] = <<quantity, c>>
<1> DEFINE values == Components(quantity, 1, 3)
<1>1. values = [c \in 1 .. 3 |-> <<quantity, 1 + c - 1>>] BY DEF Components
<1>2. \A c \in 1 .. 3 : 1 + c - 1 = c OBVIOUS
<1> HIDE DEF values
<1>3. values = [c \in 1 .. 3 |-> values[c]] /\ \A c \in 1 .. 3 : values[c] = <<quantity, c>>
  BY <1>1, <1>2
<1>4. Len(values) = 3 BY <1>3, ThreeValues
<1>5. QED BY <1>3, <1>4 DEF values

LEMMA LastComponents ==
    ASSUME NEW quantity
    PROVE  /\ Len(Components(quantity, 4, 6)) = 3
           /\ \A c \in 1 .. 3 : Components(quantity, 4, 6)[c] = <<quantity, c + 3>>
<1> DEFINE values == Components(quantity, 4, 6)
<1>1. values = [c \in 1 .. 3 |-> <<quantity, 4 + c - 1>>] BY DEF Components
<1>2. \A c \in 1 .. 3 : 4 + c - 1 = c + 3 OBVIOUS
<1> HIDE DEF values
<1>3. values = [c \in 1 .. 3 |-> values[c]] /\ \A c \in 1 .. 3 : values[c] = <<quantity, c + 3>>
  BY <1>1, <1>2
<1>4. Len(values) = 3 BY <1>3, ThreeValues
<1>5. QED BY <1>3, <1>4 DEF values

LEMMA TriplesTold ==
    /\ TellsAll(Write(Start("YawBrTD"), Of("u", part["yaw_bearing"], 1, 3)), Triple("YawBrTD"))
    /\ TellsAll(Write(Start("YawBrTV"), Of("v", part["yaw_bearing"], 1, 3)), Triple("YawBrTV"))
    /\ TellsAll(Write(Start("YawBrTA"), Of("vd", part["yaw_bearing"], 1, 3)), Triple("YawBrTA"))
    /\ TellsAll(Write(Start("TwrBsF"), Components("base load", 1, 3)), Triple("TwrBsF"))
    /\ TellsAll(Write(Start("TwrBsM"), Components("base load", 4, 6)), Triple("TwrBsM"))
    /\ TellsAll(Write(Start("WindHubVel"), Components("hub inflow", 1, 3)), Triple("WindHubVel"))
<1>1. /\ "YawBrTD" \in TripleKinds /\ "YawBrTV" \in TripleKinds /\ "YawBrTA" \in TripleKinds
      /\ "TwrBsF" \in TripleKinds /\ "TwrBsM" \in TripleKinds /\ "WindHubVel" \in TripleKinds
  BY DEF TripleKinds
<1>2. TellsAll(Write(Start("YawBrTD"), Of("u", part["yaw_bearing"], 1, 3)), Triple("YawBrTD"))
  <2> DEFINE values == Of("u", part["yaw_bearing"], 1, 3)
  <2>1. Len(values) = 3 BY VectorOfNode, Zenon
  <2>2. ASSUME NEW c \in 1 .. 3 PROVE values[c] = Meaning(<<"YawBrTD", c>>)
    BY VectorOfNode, TripleMeanings, Zenon
  <2> HIDE DEF values
  <2>3. TellsAll(Write(Start("YawBrTD"), values), Triple("YawBrTD")) BY <1>1, <2>1, <2>2, TripleTold
  <2>4. QED BY <2>3, Zenon DEF values
<1>3. TellsAll(Write(Start("YawBrTV"), Of("v", part["yaw_bearing"], 1, 3)), Triple("YawBrTV"))
  <2> DEFINE values == Of("v", part["yaw_bearing"], 1, 3)
  <2>1. Len(values) = 3 BY VectorOfNode, Zenon
  <2>2. ASSUME NEW c \in 1 .. 3 PROVE values[c] = Meaning(<<"YawBrTV", c>>)
    BY VectorOfNode, TripleMeanings, Zenon
  <2> HIDE DEF values
  <2>3. TellsAll(Write(Start("YawBrTV"), values), Triple("YawBrTV")) BY <1>1, <2>1, <2>2, TripleTold
  <2>4. QED BY <2>3, Zenon DEF values
<1>4. TellsAll(Write(Start("YawBrTA"), Of("vd", part["yaw_bearing"], 1, 3)), Triple("YawBrTA"))
  <2> DEFINE values == Of("vd", part["yaw_bearing"], 1, 3)
  <2>1. Len(values) = 3 BY VectorOfNode, Zenon
  <2>2. ASSUME NEW c \in 1 .. 3 PROVE values[c] = Meaning(<<"YawBrTA", c>>)
    BY VectorOfNode, TripleMeanings, Zenon
  <2> HIDE DEF values
  <2>3. TellsAll(Write(Start("YawBrTA"), values), Triple("YawBrTA")) BY <1>1, <2>1, <2>2, TripleTold
  <2>4. QED BY <2>3, Zenon DEF values
<1>5. TellsAll(Write(Start("TwrBsF"), Components("base load", 1, 3)), Triple("TwrBsF"))
  <2> DEFINE values == Components("base load", 1, 3)
  <2>1. Len(values) = 3 BY FirstComponents, Zenon
  <2>2. ASSUME NEW c \in 1 .. 3 PROVE values[c] = Meaning(<<"TwrBsF", c>>)
    BY FirstComponents, TripleMeanings, Zenon
  <2> HIDE DEF values
  <2>3. TellsAll(Write(Start("TwrBsF"), values), Triple("TwrBsF")) BY <1>1, <2>1, <2>2, TripleTold
  <2>4. QED BY <2>3, Zenon DEF values
<1>6. TellsAll(Write(Start("TwrBsM"), Components("base load", 4, 6)), Triple("TwrBsM"))
  <2> DEFINE values == Components("base load", 4, 6)
  <2>1. Len(values) = 3 BY LastComponents, Zenon
  <2>2. ASSUME NEW c \in 1 .. 3 PROVE values[c] = Meaning(<<"TwrBsM", c>>)
    BY LastComponents, TripleMeanings, Zenon
  <2> HIDE DEF values
  <2>3. TellsAll(Write(Start("TwrBsM"), values), Triple("TwrBsM")) BY <1>1, <2>1, <2>2, TripleTold
  <2>4. QED BY <2>3, Zenon DEF values
<1>7. TellsAll(Write(Start("WindHubVel"), Components("hub inflow", 1, 3)), Triple("WindHubVel"))
  <2> DEFINE values == Components("hub inflow", 1, 3)
  <2>1. Len(values) = 3 BY FirstComponents, Zenon
  <2>2. ASSUME NEW c \in 1 .. 3 PROVE values[c] = Meaning(<<"WindHubVel", c>>)
    BY FirstComponents, TripleMeanings, Zenon
  <2> HIDE DEF values
  <2>3. TellsAll(Write(Start("WindHubVel"), values), Triple("WindHubVel")) BY <1>1, <2>1, <2>2, TripleTold
  <2>4. QED BY <2>3, Zenon DEF values
<1>8. QED BY <1>2, <1>3, <1>4, <1>5, <1>6, <1>7, Zenon

\* A part of the schema and the writes that fill it, one by one.
LEMMA PartTold ==
    ASSUME NEW ws, NEW groups, NEW kinds, AreOfKinds(groups, kinds), DOMAIN ws = DOMAIN groups,
           IndexIsNat, ToSet(groups) \subseteq ToSet(Schema),
           \A i \in DOMAIN groups : TellsAll(ws[i], groups[i])
    PROVE  Told(ToSet(ws), ToSet(groups))
<1> DEFINE n == Len(groups)
<1>1. n \in Nat /\ DOMAIN groups = 1 .. n BY Elements DEF AreOfKinds
<1>2. ASSUME NEW i \in 1 .. n
      PROVE  /\ TellsAll(ws[i], groups[i])
             /\ IsSequence(groups[i].names) /\ index[groups[i].key] \in Nat
  <2>1. groups[i] \in ToSet(groups) BY <1>1 DEF ToSet
  <2>2. IsSequence(groups[i].names) BY <2>1 DEF AreOfKinds, IsGroup, NamesAreOf
  <2>3. index[groups[i].key] \in Nat BY <2>1 DEF IndexIsNat
  <2>4. QED BY <1>1, <2>2, <2>3
<1> HIDE DEF n
<1>3. QED BY <1>1, <1>2, ToldInPairs

LEMMA HeadsTold ==
    ASSUME IsSequence(blades), AreBodies, IndexIsNat
    PROVE  IsSequence(HeadWrites) /\ Told(ToSet(HeadWrites), ToSet(Heads))
<1> DEFINE w == HeadWrites
<1>1. DOMAIN w = 1 .. 12 /\ w = [k \in 1 .. 12 |-> w[k]] BY DEF HeadWrites
<1>2. /\ w[1] = Write(Start("Time"), << <<"time">> >>)
      /\ w[2] = Write(Start("ConvIter"), << <<"iterations">> >>)
      /\ w[3] = Write(Start("ConvError"), << <<"last error">> >>)
      /\ w[4] = Write(Start("Azimuth"), << <<"output", 0>> >>)
      /\ w[5] = Write(Start("RotSpeed"), << <<"output", 1>> >>)
      /\ w[6] = Write(Start("YawPzn"), << <<"yaw control">> >>)
      /\ w[7] = Write(Start("YawBrTD"), Of("u", part["yaw_bearing"], 1, 3))
      /\ w[8] = Write(Start("YawBrTV"), Of("v", part["yaw_bearing"], 1, 3))
      /\ w[9] = Write(Start("YawBrTA"), Of("vd", part["yaw_bearing"], 1, 3))
      /\ w[10] = Write(Start("TwrBsF"), Components("base load", 1, 3))
      /\ w[11] = Write(Start("TwrBsM"), Components("base load", 4, 6))
      /\ w[12] = Write(Start("RotThrust"), << <<"shaft force along the shaft">> >>)
  BY DEF HeadWrites
<1>3. /\ Heads[1] = Single("Time") /\ Heads[2] = Single("ConvIter")
      /\ Heads[3] = Single("ConvError") /\ Heads[4] = Single("Azimuth")
      /\ Heads[5] = Single("RotSpeed") /\ Heads[6] = Single("YawPzn")
      /\ Heads[7] = Triple("YawBrTD") /\ Heads[8] = Triple("YawBrTV")
      /\ Heads[9] = Triple("YawBrTA") /\ Heads[10] = Triple("TwrBsF")
      /\ Heads[11] = Triple("TwrBsM") /\ Heads[12] = Single("RotThrust")
  BY DEF Heads
<1> HIDE DEF w
<1>4. /\ TellsAll(w[1], Heads[1]) /\ TellsAll(w[2], Heads[2]) /\ TellsAll(w[3], Heads[3])
      /\ TellsAll(w[4], Heads[4]) /\ TellsAll(w[5], Heads[5]) /\ TellsAll(w[6], Heads[6])
      /\ TellsAll(w[12], Heads[12])
  BY <1>2, <1>3, SinglesTold, Zenon
<1>5. /\ TellsAll(w[7], Heads[7]) /\ TellsAll(w[8], Heads[8]) /\ TellsAll(w[9], Heads[9])
      /\ TellsAll(w[10], Heads[10]) /\ TellsAll(w[11], Heads[11])
  BY <1>2, <1>3, TriplesTold, Zenon
<1>6. \A i \in 1 .. 12 : \/ i = 1 \/ i = 2 \/ i = 3 \/ i = 4 \/ i = 5 \/ i = 6
                         \/ i = 7 \/ i = 8 \/ i = 9 \/ i = 10 \/ i = 11 \/ i = 12
  OBVIOUS
<1>7. \A i \in 1 .. 12 : TellsAll(w[i], Heads[i]) BY <1>4, <1>5, <1>6
<1>8. IsSequence(w) BY <1>1, SequenceOf
<1>9. AreOfKinds(Heads, HeadKinds) /\ DOMAIN Heads = 1 .. 12
  <2>1. AreOfKinds(Heads, HeadKinds) /\ Len(Heads) = 12 BY HeadsAre
  <2>2. DOMAIN Heads = 1 .. Len(Heads) BY <2>1, Elements DEF AreOfKinds
  <2>3. QED BY <2>1, <2>2
<1>10. ToSet(Heads) \subseteq ToSet(Schema) BY SchemaIs
<1>11. Told(ToSet(w), ToSet(Heads)) BY <1>1, <1>7, <1>9, <1>10, PartTold
<1>12. QED BY <1>8, <1>11 DEF w

LEMMA WindTold ==
    ASSUME IsSequence(blades), AreBodies, IndexIsNat
    PROVE  IsSequence(WindWrites) /\ Told(ToSet(WindWrites), ToSet(Wind))
<1> DEFINE w == WindWrites
           a == Write(Start("WindHubVel"), Components("hub inflow", 1, 3))
           g == Wind
<1>1. TellsAll(a, Triple("WindHubVel")) BY TriplesTold, Zenon
<1>2. w = <<a>> /\ g = <<Triple("WindHubVel")>> BY DEF WindWrites, Wind
<1> HIDE DEF a
<1>3. IsSequence(w) BY <1>2, List1
<1>4. DOMAIN w = {1} /\ DOMAIN g = {1} /\ w[1] = a /\ g[1] = Triple("WindHubVel") BY <1>2
<1>5. AreOfKinds(g, {"WindHubVel"}) BY WindIs
<1>6. ToSet(g) \subseteq ToSet(Schema) BY SchemaIs
<1> HIDE DEF w, g
<1>7. \A i \in DOMAIN g : TellsAll(w[i], g[i]) BY <1>1, <1>4
<1>8. Told(ToSet(w), ToSet(g)) BY <1>4, <1>5, <1>6, <1>7, PartTold
<1>9. QED BY <1>3, <1>8 DEF w, g

LEMMA GeneratorTold ==
    ASSUME IsSequence(blades), AreBodies, IndexIsNat
    PROVE  IsSequence(GeneratorWrites) /\ Told(ToSet(GeneratorWrites), ToSet(Generator))
<1> DEFINE w == GeneratorWrites
           a == Write(Start("GenTq"), << <<"torque command">> >>)
           b == Write(Start("GenPwr"), << <<"torque command by speed">> >>)
           x == Single("GenTq")
           y == Single("GenPwr")
           g == Generator
<1>1. TellsAll(a, x) /\ TellsAll(b, y) BY SinglesTold, Zenon
<1>2. w = IF hasController THEN <<a, b>> ELSE <<>> BY DEF GeneratorWrites
<1>3. g = IF hasController THEN <<x, y>> ELSE <<>> BY DEF Generator
<1> HIDE DEF a, b, x, y
<1>4. AreOfKinds(g, {"GenTq", "GenPwr"}) BY GeneratorIs
<1>5. ToSet(g) \subseteq ToSet(Schema) BY SchemaIs
<1> HIDE DEF w, g
<1>6. IsSequence(w) /\ DOMAIN w = DOMAIN g /\ \A i \in DOMAIN g : TellsAll(w[i], g[i])
  <2>1. CASE hasController
    <3>1. w = <<a, b>> /\ g = <<x, y>> BY <1>2, <1>3, <2>1
    <3>2. IsSequence(w) BY <3>1, List2
    <3>3. /\ DOMAIN w = {1, 2} /\ DOMAIN g = {1, 2}
          /\ w[1] = a /\ w[2] = b /\ g[1] = x /\ g[2] = y
      BY <3>1
    <3>4. QED BY <1>1, <3>2, <3>3
  <2>2. CASE ~ hasController
    <3>1. w = <<>> /\ g = <<>> BY <1>2, <1>3, <2>2
    <3>2. DOMAIN w = 1 .. 0 /\ w = [k \in 1 .. 0 |-> w[k]] /\ DOMAIN g = {} BY <3>1
    <3>3. IsSequence(w) BY <3>2, SequenceOf
    <3>4. QED BY <3>2, <3>3
  <2>3. QED BY <2>1, <2>2
<1>7. Told(ToSet(w), ToSet(g)) BY <1>4, <1>5, <1>6, PartTold
<1>8. QED BY <1>6, <1>7 DEF w, g

ValuesOfBlade(i, tip) ==
    Of("root load", i, 1, 6) \o << <<"pitch control", i>> >> \o Of("v", tip, 1, 6)
AreOfBlade(values, i, tip) ==
    /\ Len(values) = 13
    /\ \A c \in 1 .. 3 : values[c] = <<"root load", i, c>>
    /\ \A c \in 1 .. 3 : values[3 + c] = <<"root load", i, c + 3>>
    /\ values[7] = <<"pitch control", i>>
    /\ \A c \in 1 .. 3 : values[7 + c] = <<"v", tip, c>>
    /\ \A c \in 1 .. 3 : values[10 + c] = <<"v", tip, c + 3>>

LEMMA BladeValues ==
    ASSUME NEW i, NEW tip
    PROVE  AreOfBlade(ValuesOfBlade(i, tip), i, tip)
<1> DEFINE a == Of("root load", i, 1, 6)
           p == << <<"pitch control", i>> >>
           d == Of("v", tip, 1, 6)
           ap == a \o p
           values == ap \o d
<1>0. 6 \in Nat /\ 6 >= 1 OBVIOUS
<1>1. IsSequence(a) /\ Len(a) = 6 /\ \A c \in 1 .. 6 : a[c] = <<"root load", i, c>>
  BY <1>0, ValuesOf
<1>2. IsSequence(d) /\ Len(d) = 6 /\ \A c \in 1 .. 6 : d[c] = <<"v", tip, c>>
  BY <1>0, ValuesOf
<1>3. IsSequence(p) /\ Len(p) = 1 BY List1
<1>4. p[1] = <<"pitch control", i>> OBVIOUS
<1> HIDE DEF a, p, d
<1>5. /\ IsSequence(ap) /\ Len(ap) = 7 /\ \A c \in 1 .. 6 : ap[c] = a[c]
      /\ \A c \in 1 .. 1 : ap[6 + c] = p[c]
  <2>1. IsSequence(a) BY <1>1
  <2>2. IsSequence(p) BY <1>3
  <2>3. /\ IsSequence(ap) /\ Len(ap) = Len(a) + Len(p) /\ \A c \in 1 .. Len(a) : ap[c] = a[c]
        /\ \A c \in 1 .. Len(p) : ap[Len(a) + c] = p[c]
    BY <2>1, <2>2, Joined
  <2> HIDE DEF ap
  <2>4. Len(a) = 6 /\ Len(p) = 1 BY <1>1, <1>3
  <2>5. Len(ap) = 7 BY <2>3, <2>4
  <2>6. QED BY <2>3, <2>4, <2>5
<1> HIDE DEF ap
<1>5a. ap[7] = p[1]
  <2>1. ap[6 + 1] = p[1] BY <1>5
  <2>2. QED BY <2>1
<1>6. /\ Len(values) = 13 /\ \A c \in 1 .. 7 : values[c] = ap[c]
      /\ \A c \in 1 .. 6 : values[7 + c] = d[c]
  <2>1. IsSequence(ap) BY <1>5
  <2>2. IsSequence(d) BY <1>2
  <2>3. /\ Len(values) = Len(ap) + Len(d)
        /\ \A c \in 1 .. Len(ap) : values[c] = ap[c]
        /\ \A c \in 1 .. Len(d) : values[Len(ap) + c] = d[c]
    BY <2>1, <2>2, Joined
  <2> HIDE DEF values
  <2>4. QED BY <1>2, <1>5, <2>3
<1> HIDE DEF values
<1>7. ASSUME NEW c \in 1 .. 3
      PROVE  /\ values[c] = <<"root load", i, c>> /\ values[3 + c] = <<"root load", i, c + 3>>
             /\ values[7 + c] = <<"v", tip, c>> /\ values[10 + c] = <<"v", tip, c + 3>>
  <2>1. /\ c \in 1 .. 6 /\ 3 + c \in 1 .. 6 /\ c \in 1 .. 7 /\ 3 + c \in 1 .. 7
        /\ 3 + c = c + 3 /\ 10 + c = 7 + (3 + c)
    OBVIOUS
  <2>2. values[c] = a[c] /\ values[3 + c] = a[3 + c] BY <1>5, <1>6, <2>1
  <2>3. values[7 + c] = d[c] /\ values[10 + c] = d[3 + c] BY <1>6, <2>1
  <2>4. QED BY <1>1, <1>2, <2>1, <2>2, <2>3
<1>8. values[7] = <<"pitch control", i>>
  <2>1. 7 \in 1 .. 7 OBVIOUS
  <2>2. values[7] = ap[7] BY <1>6, <2>1
  <2>3. QED BY <1>4, <1>5a, <2>2, Zenon
<1>9. AreOfBlade(values, i, tip) BY <1>6, <1>7, <1>8 DEF AreOfBlade
<1>10. QED BY <1>9 DEF ValuesOfBlade, values, ap, a, p, d

LEMMA BladeWriteTold ==
    ASSUME NEW i
    PROVE  TellsAll(BladeWrite(i), BladeGroup(i))
<1> DEFINE tip == Last(blades[i])
           values == ValuesOfBlade(i, tip)
           names == BladeGroup(i).names
           w == BladeWrite(i)
<1>1. w.base = index[<<"blade", i>>] /\ w.values = values BY DEF BladeWrite, Write, ValuesOfBlade
<1>2. BladeGroup(i).key = <<"blade", i>> BY BladeGroupIs
<1>3. /\ Len(names) = 13
      /\ \A c \in 1 .. 3 : names[c] = <<"RootF", i, c>>
      /\ \A c \in 1 .. 3 : names[3 + c] = <<"RootM", i, c>>
      /\ names[7] = <<"BldPitch", i>>
      /\ \A c \in 1 .. 3 : names[7 + c] = <<"TipTV", i, c>>
      /\ \A c \in 1 .. 3 : names[10 + c] = <<"TipRV", i, c>>
  BY BladeNames
<1>4. AreOfBlade(values, i, tip) BY BladeValues
<1>5. \A c \in 1 .. 3 : /\ Meaning(<<"RootF", i, c>>) = <<"root load", i, c>>
                        /\ Meaning(<<"RootM", i, c>>) = <<"root load", i, c + 3>>
                        /\ Meaning(<<"TipTV", i, c>>) = <<"v", tip, c>>
                        /\ Meaning(<<"TipRV", i, c>>) = <<"v", tip, c + 3>>
  BY BladeMeanings
<1>6. Meaning(<<"BldPitch", i>>) = <<"pitch control", i>>
  <2>1. 1 \in 1 .. 3 OBVIOUS
  <2>2. QED BY <2>1, BladeMeanings
<1> HIDE DEF tip, values, names, w
<1>7. ASSUME NEW c \in 1 .. 13 PROVE values[c] = Meaning(names[c])
  <2> DEFINE Good(k) == values[k] = Meaning(names[k])
  <2>1. \A d \in 1 .. 3 : Good(d) BY <1>3, <1>4, <1>5, Zenon DEF AreOfBlade
  <2>2. \A d \in 1 .. 3 : Good(3 + d) BY <1>3, <1>4, <1>5, Zenon DEF AreOfBlade
  <2>3. Good(7) BY <1>3, <1>4, <1>6, Zenon DEF AreOfBlade
  <2>4. \A d \in 1 .. 3 : Good(7 + d) BY <1>3, <1>4, <1>5, Zenon DEF AreOfBlade
  <2>5. \A d \in 1 .. 3 : Good(10 + d) BY <1>3, <1>4, <1>5, Zenon DEF AreOfBlade
  <2> HIDE DEF Good
  <2>7. Good(c) BY <2>1, <2>2, <2>3, <2>4, <2>5, ThirteenPlaces
  <2>8. QED BY <2>7 DEF Good
<1>8. Len(values) = 13 BY <1>4 DEF AreOfBlade
<1>9. QED BY <1>1, <1>2, <1>3, <1>7, <1>8 DEF TellsAll, w, names

LEMMA BladesTold ==
    ASSUME IsSequence(blades), AreBodies, IndexIsNat
    PROVE  IsSequence(BladeWrites) /\ Told(ToSet(BladeWrites), ToSet(BladeGroups))
<1> DEFINE w == BladeWrites
           g == BladeGroups
           n == Len(blades)
<1>1. n \in Nat /\ DOMAIN blades = 1 .. n BY Elements
<1>2. DOMAIN w = 1 .. n /\ DOMAIN g = 1 .. n BY <1>1 DEF BladeWrites, BladeGroups
<1>3. \A i \in 1 .. n : w[i] = BladeWrite(i) /\ g[i] = BladeGroup(i)
  BY <1>1 DEF BladeWrites, BladeGroups
<1>4. w = [i \in 1 .. n |-> w[i]] BY <1>1 DEF BladeWrites
<1>5. AreOfKinds(g, {"blade"}) /\ ToSet(g) \subseteq ToSet(Schema) BY BladeGroupsAre, SchemaIs
<1> HIDE DEF w, g, n
<1>6. IsSequence(w) BY <1>1, <1>4, SequenceOf
<1>7. \A i \in 1 .. n : TellsAll(w[i], g[i]) BY <1>3, BladeWriteTold
<1>8. Told(ToSet(w), ToSet(g)) BY <1>2, <1>5, <1>7, PartTold
<1>9. QED BY <1>6, <1>8 DEF w, g

AreOfSection(values, b, s) ==
    /\ IsSequence(values) /\ Len(values) = 11
    /\ values[1] = <<"v_rel", b, s>> /\ values[2] = <<"alpha", b, s>>
    /\ values[3] = <<"cn", b, s>> /\ values[4] = <<"ct", b, s>> /\ values[5] = <<"cm", b, s>>
    /\ \A c \in 1 .. 6 : values[5 + c] = <<"load by width", b, s, c>>

LEMMA SectionValuesAre ==
    ASSUME NEW b, NEW s
    PROVE  AreOfSection(SectionValues(b, s), b, s)
<1> DEFINE x == << <<"v_rel", b, s>>, <<"alpha", b, s>>, <<"cn", b, s>>, <<"ct", b, s>>, <<"cm", b, s>> >>
           y == [c \in 1 .. 6 |-> <<"load by width", b, s, c>>]
           values == x \o y
<1>1. IsSequence(x) /\ Len(x) = 5 BY List5
<1>2. IsSequence(y) /\ Len(y) = 6
  <2>1. y = [c \in 1 .. 6 |-> y[c]] OBVIOUS
  <2> HIDE DEF y
  <2>2. QED BY <2>1, SequenceOf
<1>3. /\ x[1] = <<"v_rel", b, s>> /\ x[2] = <<"alpha", b, s>>
      /\ x[3] = <<"cn", b, s>> /\ x[4] = <<"ct", b, s>> /\ x[5] = <<"cm", b, s>>
  OBVIOUS
<1>4. \A c \in 1 .. 6 : y[c] = <<"load by width", b, s, c>> OBVIOUS
<1>5. SectionValues(b, s) = values BY DEF SectionValues
<1> HIDE DEF x, y
<1>6. /\ IsSequence(values) /\ Len(values) = 11 /\ \A c \in 1 .. 5 : values[c] = x[c]
      /\ \A c \in 1 .. 6 : values[5 + c] = y[c]
  <2>1. IsSequence(x) BY <1>1
  <2>2. IsSequence(y) BY <1>2
  <2>3. /\ IsSequence(values) /\ Len(values) = Len(x) + Len(y)
        /\ \A c \in 1 .. Len(x) : values[c] = x[c]
        /\ \A c \in 1 .. Len(y) : values[Len(x) + c] = y[c]
    BY <2>1, <2>2, Joined
  <2> HIDE DEF values
  <2>4. QED BY <1>1, <1>2, <2>3
<1> HIDE DEF values
<1>7. /\ values[1] = x[1] /\ values[2] = x[2] /\ values[3] = x[3] /\ values[4] = x[4]
      /\ values[5] = x[5]
  BY <1>6
<1>8. AreOfSection(values, b, s) BY <1>3, <1>4, <1>6, <1>7, Zenon DEF AreOfSection
<1>9. QED BY <1>5, <1>8

LEMMA SectionTold ==
    ASSUME NEW b, NEW s, NEW c \in 1 .. 11
    PROVE  SectionValues(b, s)[c] = Meaning(SectionNames(b, s)[c])
<1> DEFINE names == SectionNames(b, s)
           values == SectionValues(b, s)
           Good(k) == values[k] = Meaning(names[k])
<1>1. /\ names[1] = <<"Vrel", b, s>> /\ names[2] = <<"Alpha", b, s>>
      /\ names[3] = <<"Cn", b, s>> /\ names[4] = <<"Ct", b, s>> /\ names[5] = <<"Cm", b, s>>
      /\ \A d \in 1 .. 3 : names[5 + d] = <<"Fi", b, s, d>>
      /\ \A d \in 1 .. 3 : names[8 + d] = <<"Mi", b, s, d>>
  BY SectionNamesAre
<1>2. AreOfSection(values, b, s) BY SectionValuesAre
<1>3. \A d \in 1 .. 3 :
        /\ Meaning(<<"Vrel", b, s>>) = <<"v_rel", b, s>>
        /\ Meaning(<<"Alpha", b, s>>) = <<"alpha", b, s>>
        /\ Meaning(<<"Cn", b, s>>) = <<"cn", b, s>>
        /\ Meaning(<<"Ct", b, s>>) = <<"ct", b, s>>
        /\ Meaning(<<"Cm", b, s>>) = <<"cm", b, s>>
        /\ Meaning(<<"Fi", b, s, d>>) = <<"load by width", b, s, d>>
        /\ Meaning(<<"Mi", b, s, d>>) = <<"load by width", b, s, d + 3>>
  BY SectionMeanings
<1> HIDE DEF names, values
<1>4. 1 \in 1 .. 3 OBVIOUS
<1>5. Good(1) /\ Good(2) /\ Good(3) /\ Good(4) /\ Good(5)
  BY <1>1, <1>2, <1>3, <1>4, Zenon DEF AreOfSection
<1>6. ASSUME NEW d \in 1 .. 3 PROVE Good(5 + d) /\ Good(8 + d)
  <2>1. d \in 1 .. 6 /\ d + 3 \in 1 .. 6 /\ 5 + (d + 3) = 8 + d OBVIOUS
  <2>2. values[5 + d] = <<"load by width", b, s, d>> BY <1>2, <2>1 DEF AreOfSection
  <2>3. values[5 + (d + 3)] = <<"load by width", b, s, d + 3>> BY <1>2, <2>1 DEF AreOfSection
  <2>4. values[8 + d] = <<"load by width", b, s, d + 3>> BY <2>1, <2>3
  <2>5. QED BY <1>1, <1>3, <2>2, <2>4, Zenon
<1> HIDE DEF Good
<1>7. Good(c) BY <1>5, <1>6, ElevenPlaces
<1>8. QED BY <1>7 DEF Good, values, names

LEMMA SectionWriteTold ==
    ASSUME NEW b, IsSequence(bodies[b].sections), NEW s \in 1 .. Len(bodies[b].sections)
    PROVE  /\ Tells(SectionWrite(b, s), AeroGroup(b), (s - 1) * 11) /\ (s - 1) * 11 \in Nat
           /\ Len(SectionWrite(b, s).values) = 11
<1> DEFINE w == SectionWrite(b, s)
           n == Len(bodies[b].sections)
           names == AeroGroup(b).names
           o == (s - 1) * 11
<1>1. w.values = SectionValues(b, s) /\ w.base = index[<<"aero", b>>] + (s - 1) * AeroChannelStride
  BY DEF SectionWrite, Write
<1>2. w.base = index[<<"aero", b>>] + o BY <1>1 DEF AeroChannelStride
<1>3. AeroGroup(b).key = <<"aero", b>> BY AeroGroupIs
<1>4. /\ Len(names) = n * 11 /\ o \in Nat /\ o + 11 <= n * 11
      /\ \A c \in 1 .. 11 : names[o + c] = SectionNames(b, s)[c]
  BY SectionsInOrder
<1>5. Len(w.values) = 11
  <2>1. AreOfSection(SectionValues(b, s), b, s) BY SectionValuesAre
  <2>2. Len(SectionValues(b, s)) = 11 BY <2>1 DEF AreOfSection
  <2> HIDE DEF w
  <2>3. QED BY <1>1, <2>2
<1>6. ASSUME NEW c \in 1 .. 11 PROVE w.values[c] = Meaning(names[o + c])
  <2>1. SectionValues(b, s)[c] = Meaning(SectionNames(b, s)[c]) BY SectionTold
  <2> HIDE DEF w, names, o
  <2>2. QED BY <1>1, <1>4, <2>1
<1> HIDE DEF w, names, o, n
<1>7. Tells(w, AeroGroup(b), o)
  <2>1. w.base = index[AeroGroup(b).key] + o BY <1>2, <1>3
  <2>2. Len(w.values) \in Nat /\ o + Len(w.values) <= Len(names) BY <1>4, <1>5
  <2>3. \A c \in 1 .. Len(w.values) : w.values[c] = Meaning(names[o + c]) BY <1>5, <1>6
  <2>4. QED BY <2>1, <2>2, <2>3 DEF Tells, names
<1>8. QED BY <1>4, <1>5, <1>7 DEF w, o

SectionCount(b) == Len(bodies[b].sections)

LEMMA BodiesTold ==
    ASSUME IsSequence(blades), AreBodies
    PROVE  /\ IsSequence(FlattenSeq(BodyWrites))
           /\ Told(ToSet(FlattenSeq(BodyWrites)), ToSet(AeroGroups))
<1> DEFINE q == BodyWrites
           flat == FlattenSeq(q)
<1>1. PICK n \in Nat : AeroBodies = 1 .. n /\ n <= Len(bodies) BY AeroBodiesAre
<1>2. \A b \in 1 .. n : IsSequence(bodies[b].sections)
  <2>1. Len(bodies) \in Nat BY Elements DEF AreBodies
  <2>2. \A b \in 1 .. n : b \in 1 .. Len(bodies) BY <1>1, <2>1
  <2>3. QED BY <2>2 DEF AreBodies
<1>3. \A b \in 1 .. n : DOMAIN bodies[b].sections = 1 .. SectionCount(b) /\ SectionCount(b) \in Nat
  BY <1>2, Elements DEF SectionCount
<1>4. DOMAIN q = 1 .. n /\ q = [b \in 1 .. n |-> q[b]] BY <1>1 DEF BodyWrites
<1>5. \A b \in 1 .. n : q[b] = [s \in 1 .. SectionCount(b) |-> SectionWrite(b, s)]
  BY <1>1, <1>3 DEF BodyWrites
<1> HIDE DEF q
<1>6. IsSequence(q) /\ Len(q) = n BY <1>4, SequenceOf
<1>7. ASSUME NEW b \in 1 .. n
      PROVE  /\ IsSequence(q[b]) /\ DOMAIN q[b] = 1 .. SectionCount(b)
             /\ \A s \in 1 .. SectionCount(b) : q[b][s] = SectionWrite(b, s)
  <2>1. /\ DOMAIN q[b] = 1 .. SectionCount(b) /\ q[b] = [s \in 1 .. SectionCount(b) |-> q[b][s]]
        /\ \A s \in 1 .. SectionCount(b) : q[b][s] = SectionWrite(b, s)
    BY <1>5
  <2>2. SectionCount(b) \in Nat BY <1>3
  <2>3. IsSequence(q[b]) BY <2>1, <2>2, SequenceOf
  <2>4. QED BY <2>1, <2>3
<1>8. IsSequence(flat) /\ ToSet(flat) = EntriesOf(q, n)
  <2>1. \A k \in 1 .. Len(q) : IsSequence(q[k]) BY <1>6, <1>7
  <2>2. IsSequence(flat) /\ ToSet(flat) = EntriesOf(q, Len(q)) BY <1>6, <2>1, FlattenedEntries
  <2>3. QED BY <1>6, <2>2
<1>9. ASSUME NEW w \in ToSet(flat)
      PROVE  \E b \in 1 .. n : \E s \in 1 .. SectionCount(b) : w = SectionWrite(b, s)
  <2>1. PICK b \in 1 .. n : w \in ToSet(q[b]) BY <1>8 DEF EntriesOf
  <2>2. DOMAIN q[b] = 1 .. SectionCount(b) /\ \A s \in 1 .. SectionCount(b) : q[b][s] = SectionWrite(b, s)
    BY <1>7
  <2>3. PICK s \in DOMAIN q[b] : w = q[b][s] BY <2>1 DEF ToSet
  <2>4. QED BY <2>2, <2>3
<1>10. ASSUME NEW b \in 1 .. n, NEW s \in 1 .. SectionCount(b)
       PROVE  SectionWrite(b, s) \in ToSet(flat)
  <2>1. DOMAIN q[b] = 1 .. SectionCount(b) /\ q[b][s] = SectionWrite(b, s) BY <1>7
  <2>2. SectionWrite(b, s) \in ToSet(q[b]) BY <2>1 DEF ToSet
  <2>3. QED BY <1>8, <2>2 DEF EntriesOf
<1>11. ToSet(AeroGroups) = {AeroGroup(b) : b \in 1 .. n} BY <1>1, AeroGroupsAre
<1> HIDE DEF flat
<1>12. ASSUME NEW b \in 1 .. n, NEW s \in 1 .. SectionCount(b)
       PROVE  /\ Tells(SectionWrite(b, s), AeroGroup(b), (s - 1) * 11) /\ (s - 1) * 11 \in Nat
              /\ Len(SectionWrite(b, s).values) = 11
  <2>1. IsSequence(bodies[b].sections) BY <1>2
  <2>2. s \in 1 .. Len(bodies[b].sections) BY DEF SectionCount
  <2>3. QED BY <2>1, <2>2, SectionWriteTold
<1>13. ASSUME NEW w \in ToSet(flat)
       PROVE  \E group \in ToSet(AeroGroups) : \E o \in Nat : Tells(w, group, o)
  <2>0. PICK b \in 1 .. n : \E s \in 1 .. SectionCount(b) : w = SectionWrite(b, s) BY <1>9
  <2>1. PICK s \in 1 .. SectionCount(b) : w = SectionWrite(b, s) BY <2>0
  <2>2. Tells(w, AeroGroup(b), (s - 1) * 11) /\ (s - 1) * 11 \in Nat BY <1>12, <2>1
  <2>3. AeroGroup(b) \in ToSet(AeroGroups) BY <1>11
  <2>4. QED BY <2>2, <2>3
<1>14. ASSUME NEW group \in ToSet(AeroGroups), NEW c \in 1 .. Len(group.names)
       PROVE  \E w \in ToSet(flat) : \E o \in Nat :
                Tells(w, group, o) /\ o < c /\ c <= o + Len(w.values)
  <2>1. PICK b \in 1 .. n : group = AeroGroup(b) BY <1>11
  <2>2. IsSequence(bodies[b].sections) BY <1>2
  <2>3. \A k \in 1 .. Len(AeroGroup(b).names) : \E s \in 1 .. SectionCount(b) : \E d \in 1 .. 11 :
          k = (s - 1) * 11 + d
    BY <2>2, SectionsInOrder DEF SectionCount
  <2>4. PICK s \in 1 .. SectionCount(b), d \in 1 .. 11 : c = (s - 1) * 11 + d BY <2>1, <2>3
  <2> DEFINE o == (s - 1) * 11
             w == SectionWrite(b, s)
  <2>5. Tells(w, group, o) /\ o \in Nat /\ Len(w.values) = 11 BY <1>12, <2>1
  <2>6. c = o + d BY <2>4
  <2>7. w \in ToSet(flat) BY <1>10
  <2> HIDE DEF o, w
  <2>8. o < c /\ c <= o + Len(w.values) BY <2>5, <2>6
  <2>9. QED BY <2>5, <2>7, <2>8
<1>15. Told(ToSet(flat), ToSet(AeroGroups)) BY <1>13, <1>14 DEF Told
<1>16. QED BY <1>8, <1>15 DEF flat, q

LEMMA WritesJoined ==
    ASSUME NEW a, NEW b, NEW G, NEW H, IsSequence(a), IsSequence(b),
           Told(ToSet(a), G), Told(ToSet(b), H)
    PROVE  IsSequence(a \o b) /\ Told(ToSet(a \o b), G \cup H)
<1>1. IsSequence(a \o b) BY Joined
<1>2. ToSet(a \o b) = ToSet(a) \cup ToSet(b) BY JoinedSets
<1>3. Told(ToSet(a) \cup ToSet(b), G \cup H) BY ToldTogether
<1>4. QED BY <1>1, <1>2, <1>3

LEMMA RowIsTold ==
    ASSUME IsSequence(blades), AreBodies, IndexIsNat
    PROVE  IsSequence(RowWrites) /\ Told(ToSet(RowWrites), ToSet(Schema))
<1> DEFINE x == FlattenSeq(BodyWrites)
           hb == HeadWrites \o BladeWrites
           hbg == hb \o GeneratorWrites
           hbgw == hbg \o WindWrites
           all == hbgw \o x
           G1 == ToSet(Heads) \cup ToSet(BladeGroups)
           G2 == G1 \cup ToSet(Generator)
           G3 == G2 \cup ToSet(Wind)
           G4 == G3 \cup ToSet(AeroGroups)
<1>1. IsSequence(hb) /\ Told(ToSet(hb), G1) BY HeadsTold, BladesTold, WritesJoined
<1>2. IsSequence(x) /\ Told(ToSet(x), ToSet(AeroGroups)) BY BodiesTold
<1>3. RowWrites = all BY WritesParts
<1>4. ToSet(Schema) = G4 BY SchemaIs
<1> HIDE DEF x, hb, G1
<1>5. IsSequence(hbg) /\ Told(ToSet(hbg), G2) BY <1>1, GeneratorTold, WritesJoined
<1> HIDE DEF hbg, G2
<1>6. IsSequence(hbgw) /\ Told(ToSet(hbgw), G3) BY <1>5, WindTold, WritesJoined
<1> HIDE DEF hbgw, G3
<1>7. IsSequence(all) /\ Told(ToSet(all), G4) BY <1>2, <1>6, WritesJoined
<1> HIDE DEF all, G4
<1>8. QED BY <1>3, <1>4, <1>7

\* The row every channel of which has the value of its name.
RightRow == [k \in 0 .. Len(channels) - 1 |-> Meaning(channels[k + 1])]

LEMMA WriteAgrees ==
    ASSUME NEW w, NEW group, NEW o \in Nat, Tells(w, group, o), Len(channels) \in Nat,
           index[group.key] \in Nat, Len(group.names) \in Nat,
           index[group.key] + Len(group.names) <= Len(channels),
           \A c \in 1 .. Len(group.names) : channels[index[group.key] + c] = group.names[c]
    PROVE  Agrees(w, RightRow)
<1> DEFINE at == index[group.key]
           n == Len(w.values)
           N == Len(channels)
<1>1. /\ w.base = at + o /\ n \in Nat /\ o + n <= Len(group.names)
      /\ \A c \in 1 .. n : w.values[c] = Meaning(group.names[o + c])
  BY DEF Tells
<1>2. at \in Nat /\ at + Len(group.names) <= N /\ N \in Nat OBVIOUS
<1>3. \A c \in 1 .. Len(group.names) : channels[at + c] = group.names[c] OBVIOUS
<1>4. \A k \in 0 .. N - 1 : RightRow[k] = Meaning(channels[k + 1]) BY DEF RightRow
<1> HIDE DEF at, n, N
<1>5. ASSUME NEW c \in 1 .. n PROVE RightRow[w.base + c - 1] = w.values[c]
  <2>1. o + c \in 1 .. Len(group.names) BY <1>1
  <2>2. w.base + c - 1 \in 0 .. N - 1
    <3> DEFINE names == Len(group.names)
               base == w.base
    <3>1. /\ o + c >= 1 /\ o + c <= names /\ at + names <= N /\ base = at + o
          /\ o \in Nat /\ c \in Nat /\ c >= 1 /\ names \in Nat /\ at \in Nat /\ N \in Nat
      BY <1>1, <1>2, <2>1
    <3> HIDE DEF names, base
    <3>2. base + c - 1 \in 0 .. N - 1 BY <3>1
    <3>3. QED BY <3>2 DEF base
  <2>3. (w.base + c - 1) + 1 = at + (o + c) BY <1>1, <1>2
  <2>4. RightRow[w.base + c - 1] = Meaning(channels[at + (o + c)])
    <3>1. RightRow[w.base + c - 1] = Meaning(channels[(w.base + c - 1) + 1]) BY <1>4, <2>2
    <3>2. QED BY <2>3, <3>1
  <2>5. channels[at + (o + c)] = group.names[o + c] BY <1>3, <2>1
  <2>6. QED BY <1>1, <2>4, <2>5
<1>6. w.base \in Int BY <1>1, <1>2
<1>7. QED BY <1>1, <1>5, <1>6 DEF Agrees, n

LEMMA RowIsRight ==
    ASSUME IsSequence(blades), AreBodies, channels = NamesOf(Schema), index = IndexOf(Schema),
           DOMAIN row = 0 .. Len(channels) - 1
    PROVE  FoldLeft(Written, [k \in DOMAIN row |-> <<>>], RowWrites) = RightRow
<1> DEFINE D == 0 .. Len(channels) - 1
           r == [k \in DOMAIN row |-> <<>>]
<1>1. AreGroups(Schema) /\ \A g \in 1 .. Len(Schema) : NamesAreOf(Schema[g]) BY SchemaIs
<1>2. /\ IsSequence(channels)
      /\ \A group \in ToSet(Schema) :
           /\ index[group.key] \in Nat
           /\ index[group.key] + Len(group.names) <= Len(channels)
           /\ \A c \in 1 .. Len(group.names) : channels[index[group.key] + c] = group.names[c]
      /\ \A k \in 1 .. Len(channels) : \E group \in ToSet(Schema) :
           \E c \in 1 .. Len(group.names) : k = index[group.key] + c
  BY <1>1, GroupsInOrder
<1>3. Len(channels) \in Nat BY <1>2, Elements
<1>4. \A group \in ToSet(Schema) : Len(group.names) \in Nat
  <2>1. IsSequence(Schema) BY <1>1 DEF AreGroups
  <2>2. DOMAIN Schema = 1 .. Len(Schema) BY <2>1, Elements
  <2>3. \A group \in ToSet(Schema) : IsSequence(group.names) BY <1>1, <2>2 DEF AreGroups, ToSet
  <2>4. QED BY <2>3, Elements
<1>5. IsSequence(RowWrites) /\ Told(ToSet(RowWrites), ToSet(Schema))
  <2>1. IndexIsNat BY <1>2 DEF IndexIsNat
  <2>2. QED BY <2>1, RowIsTold
<1> DEFINE ws == RowWrites
           groups == ToSet(Schema)
           n == Len(ws)
<1>6. DOMAIN ws = 1 .. n BY <1>5, Elements
<1> HIDE DEF ws, groups, n
<1>7. ASSUME NEW i \in 1 .. n PROVE Agrees(ws[i], RightRow)
  <2>1. ws[i] \in ToSet(ws) BY <1>6 DEF ToSet
  <2>2. PICK group \in groups : \E o \in Nat : Tells(ws[i], group, o)
    BY <1>5, <2>1 DEF Told, ws, groups
  <2>3. PICK o \in Nat : Tells(ws[i], group, o) BY <2>2
  <2>4. /\ index[group.key] \in Nat /\ Len(group.names) \in Nat
        /\ index[group.key] + Len(group.names) <= Len(channels)
        /\ \A c \in 1 .. Len(group.names) : channels[index[group.key] + c] = group.names[c]
    BY <1>2, <1>4 DEF groups
  <2>5. QED BY <1>3, <2>3, <2>4, WriteAgrees
<1>8. ASSUME NEW k \in D PROVE \E i \in 1 .. n : Reaches(ws[i], k)
  <2>1. k + 1 \in 1 .. Len(channels) /\ k \in Int BY <1>3
  <2>2. PICK group \in groups : \E c \in 1 .. Len(group.names) : k + 1 = index[group.key] + c
    BY <1>2, <2>1 DEF groups
  <2>3. PICK c \in 1 .. Len(group.names) : k + 1 = index[group.key] + c BY <2>2
  <2>4. PICK w \in ToSet(ws) : \E o \in Nat : Tells(w, group, o) /\ o < c /\ c <= o + Len(w.values)
    BY <1>5 DEF Told, ws, groups
  <2>5. PICK o \in Nat : Tells(w, group, o) /\ o < c /\ c <= o + Len(w.values) BY <2>4
  <2>6. PICK i \in 1 .. n : w = ws[i] BY <1>6 DEF ToSet
  <2>7. w.base = index[group.key] + o /\ Len(w.values) \in Nat BY <2>5 DEF Tells
  <2>8. index[group.key] \in Nat /\ Len(group.names) \in Nat BY <1>2, <1>4 DEF groups
  <2>9. k >= w.base /\ k <= w.base + Len(w.values) - 1
    <3> DEFINE at == index[group.key]
               base == w.base
               m == Len(w.values)
    <3>1. /\ k \in Int /\ k + 1 = at + c /\ base = at + o /\ o < c /\ c <= o + m
          /\ at \in Nat /\ o \in Nat /\ m \in Nat
      BY <2>1, <2>3, <2>5, <2>7, <2>8
    <3>2. c \in Nat BY <2>8
    <3> HIDE DEF at, base, m
    <3>3. k >= base /\ k <= base + m - 1 BY <3>1, <3>2
    <3>4. QED BY <3>3 DEF base, m
  <2>10. w.base \in Int BY <2>7, <2>8
  <2>11. Reaches(w, k) BY <2>1, <2>7, <2>9, <2>10 DEF Reaches
  <2>12. QED BY <2>6, <2>11
<1>9. r = [k \in D |-> <<>>] OBVIOUS
<1>10. r = [k \in D |-> r[k]] OBVIOUS
<1>11. D \in SUBSET Int BY <1>3
<1> HIDE DEF r, D
<1>12. FoldLeft(Written, r, ws) = RowAfter(D, r, ws, RightRow, 1 .. n)
  <2>1. \A i \in 1 .. Len(ws) : Agrees(ws[i], RightRow) BY <1>7 DEF n
  <2>2. IsSequence(ws) BY <1>5 DEF ws
  <2>3. FoldLeft(Written, r, ws) = RowAfter(D, r, ws, RightRow, 1 .. Len(ws))
    BY <1>10, <1>11, <2>1, <2>2, RowAfterWrites
  <2>4. QED BY <2>3 DEF n
<1>13. RowAfter(D, r, ws, RightRow, 1 .. n) = [k \in D |-> RightRow[k]] BY <1>8 DEF RowAfter
<1>14. RightRow = [k \in D |-> RightRow[k]] BY DEF RightRow, D
<1>15. QED BY <1>12, <1>13, <1>14 DEF r, ws

-----------------------------------------------------------------------------
(* The phases of the interface.                                              *)

Wired == pc \in {"controller", "outputs", "row", "written"} => IsSequence(blades) /\ AreBodies
ChannelsInOrder ==
    pc \in {"row", "written"} =>
      /\ channels = NamesOf(Schema) /\ index = IndexOf(Schema)
      /\ DOMAIN row = 0 .. Len(channels) - 1
RowIsFilled == pc = "written" => row = RightRow
OutputInv == AsTurbine /\ Wired /\ ChannelsInOrder /\ RowIsFilled

LEMMA BodiesAreWired ==
    ASSUME AssemblyAssumption, AerodynamicsAssumption, AsTurbine, CreateAerodynamics
    PROVE  IsSequence(blades) /\ AreBodies'
<1>1. pc \in Phases /\ pc = "built" BY DEF CreateAerodynamics, Phases
<1>2. AssemblyInv BY <1>1 DEF AsTurbine
<1>3. IsSequence(blades) /\ DOMAIN blades = 1 .. Len(blades) /\ Len(blades) \in Nat
  <2>1. input \in Inputs /\ Assembled BY <1>1, <1>2 DEF AssemblyInv, Built
  <2>2. IsSequence(blades) BY <2>1, WhereNodesAre
  <2>3. QED BY <2>2, Elements
<1>4. PICK map \in AirfoilMaps :
        /\ map = <<>> \/ Len(map) >= Len(blades)
        /\ bodies' =
             IF map = <<>> THEN <<>>
             ELSE [i \in DOMAIN blades |-> BodyOf(map, blades[i], i)]
                  \o (IF Len(map) > Len(blades) THEN <<BodyOf(map, tower, Len(map))>> ELSE <<>>)
  BY DEF CreateAerodynamics
<1>5. IsSequence(map) /\ \A e \in 1 .. Len(map) : map[e] \in DOMAIN Airfoils
  <2>1. map \in Seq(DOMAIN Airfoils) BY DEF AerodynamicsAssumption
  <2>2. QED BY <2>1, SequenceIn
<1>6. Len(map) \in Nat BY <1>5, Elements
<1>7. ASSUME NEW ids, NEW e \in 1 .. Len(map) PROVE IsSequence(BodyOf(map, ids, e).sections)
  <2>1. BodyOf(map, ids, e).sections = Airfoils[map[e]] BY DEF BodyOf, AerodynamicBody
  <2>2. Airfoils[map[e]] \in Seq([s : 0 .. 4, arm : Seq(Int), ref : Seq(Int)])
    BY <1>5 DEF AerodynamicsAssumption
  <2>3. QED BY <2>1, <2>2, SequenceIn
<1> DEFINE n == Len(blades)
           a == [i \in DOMAIN blades |-> BodyOf(map, blades[i], i)]
           last == BodyOf(map, tower, Len(map))
           b == IF Len(map) > Len(blades) THEN <<last>> ELSE <<>>
           Lists(q) == IsSequence(q) /\ \A k \in 1 .. Len(q) : IsSequence(q[k].sections)
<1>8. Lists(<<>>) /\ Len(<<>>) = 0
  <2> DEFINE q == <<>>
  <2>1. q = [k \in 1 .. 0 |-> q[k]] OBVIOUS
  <2> HIDE DEF q
  <2>2. IsSequence(q) /\ Len(q) = 0 BY <2>1, SequenceOf
  <2>3. QED BY <2>2 DEF q
<1>9. CASE map # <<>>
  <2>1. Len(map) >= n BY <1>4, <1>9
  <2>2. Lists(a)
    <3>1. a = [i \in 1 .. n |-> a[i]] /\ \A i \in 1 .. n : a[i] = BodyOf(map, blades[i], i) BY <1>3
    <3>2. \A i \in 1 .. n : i \in 1 .. Len(map) BY <1>3, <1>6, <2>1
    <3>3. \A i \in 1 .. n : IsSequence(a[i].sections) BY <1>7, <3>1, <3>2
    <3> HIDE DEF a
    <3>4. IsSequence(a) /\ Len(a) = n BY <1>3, <3>1, SequenceOf
    <3>5. QED BY <3>3, <3>4
  <2>3. Lists(b)
    <3>1. CASE Len(map) > n
      <4>1. Len(map) \in 1 .. Len(map) BY <1>3, <1>6, <3>1
      <4>2. IsSequence(last.sections) BY <1>7, <4>1
      <4> HIDE DEF last
      <4>3. IsSequence(<<last>>) /\ Len(<<last>>) = 1 BY List1
      <4>4. <<last>>[1] = last OBVIOUS
      <4>5. b = <<last>> BY <3>1
      <4>6. \A k \in 1 .. 1 : k = 1 OBVIOUS
      <4>7. QED BY <4>2, <4>3, <4>4, <4>5, <4>6
    <3>2. CASE ~ (Len(map) > n) BY <1>8, <3>2
    <3>3. QED BY <3>1, <3>2
  <2> HIDE DEF a, b
  <2>4. /\ IsSequence(a \o b) /\ Len(a \o b) = Len(a) + Len(b)
        /\ \A k \in 1 .. Len(a) : (a \o b)[k] = a[k]
        /\ \A k \in 1 .. Len(b) : (a \o b)[Len(a) + k] = b[k]
    BY <2>2, <2>3, Joined
  <2> DEFINE q == a \o b
  <2>5. Len(a) \in Nat /\ Len(b) \in Nat BY <2>2, <2>3, Elements
  <2>6. ASSUME NEW k \in 1 .. Len(q) PROVE IsSequence(q[k].sections)
    <3>1. CASE k \in 1 .. Len(a) BY <2>2, <2>4, <3>1
    <3>2. CASE k \notin 1 .. Len(a)
      <4>1. k - Len(a) \in 1 .. Len(b) /\ Len(a) + (k - Len(a)) = k
        <5> HIDE DEF q
        <5>1. Len(q) = Len(a) + Len(b) BY <2>4 DEF q
        <5>2. QED BY <2>5, <3>2, <5>1
      <4>2. q[Len(a) + (k - Len(a))] = b[k - Len(a)] BY <2>4, <4>1
      <4>3. q[k] = b[k - Len(a)] BY <4>1, <4>2
      <4> HIDE DEF q
      <4>4. QED BY <2>3, <4>1, <4>3
    <3>3. QED BY <3>1, <3>2
  <2>7. IsSequence(q) BY <2>4
  <2>8. bodies' = q BY <1>4, <1>9 DEF a, b
  <2> HIDE DEF q
  <2>9. Lists(bodies') BY <2>6, <2>7, <2>8
  <2>10. QED BY <1>3, <2>9 DEF AreBodies, IsSequence
<1>10. CASE map = <<>>
  <2>1. bodies' = <<>> BY <1>4, <1>10
  <2>2. Lists(bodies') BY <1>8, <2>1
  <2>3. QED BY <1>3, <2>2 DEF AreBodies, IsSequence
<1>11. QED BY <1>9, <1>10

LEMMA SchemaStays ==
    ASSUME UNCHANGED <<blades, bodies, hasController>>
    PROVE  Schema' = Schema
<1>1. blades' = blades /\ bodies' = bodies /\ hasController' = hasController OBVIOUS
<1>2. AeroBodies' = AeroBodies BY <1>1 DEF AeroBodies
<1>3. \A b : AeroGroup(b)' = AeroGroup(b) BY <1>1 DEF AeroGroup
<1>4. AeroGroups' = AeroGroups BY <1>2, <1>3 DEF AeroGroups
<1>5. BladeGroups' = BladeGroups BY <1>1 DEF BladeGroups
<1>6. Generator' = Generator BY <1>1 DEF Generator
<1>7. Schema' = (((Heads \o BladeGroups') \o Generator') \o Wind) \o AeroGroups'
  BY Zenon DEF Schema, Heads, BladeGroups, Generator, Wind, AeroGroups
<1>8. QED BY <1>4, <1>5, <1>6, <1>7, SchemaParts

LEMMA ChannelsAreBuilt ==
    ASSUME BuildTimeSeriesSchema
    PROVE  ChannelsInOrder'
<1>1. Schema' = Schema BY SchemaStays DEF BuildTimeSeriesSchema
<1>2. channels' = NamesOf(Schema) /\ row' = [k \in 0 .. Len(channels') - 1 |-> <<>>]
  BY DEF BuildTimeSeriesSchema
<1>3. index' = IndexOf(Schema) BY Zenon DEF BuildTimeSeriesSchema, IndexOf
<1>4. channels' = NamesOf(Schema)' /\ index' = IndexOf(Schema)' BY <1>1, <1>2, <1>3
<1>5. DOMAIN row' = 0 .. Len(channels') - 1 BY <1>2
<1>6. QED BY <1>4, <1>5 DEF ChannelsInOrder

LEMMA RightRowStays ==
    ASSUME UNCHANGED <<part, blades, channels>>
    PROVE  RightRow' = RightRow
<1>1. part' = part /\ blades' = blades /\ channels' = channels OBVIOUS
<1>2. \A name : Meaning(name)' = Meaning(name) BY <1>1, Zenon DEF Meaning
<1>3. QED BY <1>1, <1>2 DEF RightRow

LEMMA RowIsWritten ==
    ASSUME OutputInv, WriteTimeSeriesData
    PROVE  RowIsFilled'
<1>1. pc = "row" /\ row' = FoldLeft(Written, [k \in DOMAIN row |-> <<>>], RowWrites)
  BY DEF WriteTimeSeriesData
<1>2. /\ IsSequence(blades) /\ AreBodies /\ channels = NamesOf(Schema) /\ index = IndexOf(Schema)
      /\ DOMAIN row = 0 .. Len(channels) - 1
  BY <1>1 DEF OutputInv, Wired, ChannelsInOrder
<1>3. row' = RightRow BY <1>1, <1>2, RowIsRight
<1>4. RightRow' = RightRow BY RightRowStays DEF WriteTimeSeriesData
<1>5. QED BY <1>3, <1>4 DEF RowIsFilled

LEMMA OutputStepKeeps ==
    ASSUME AssemblyAssumption, AerodynamicsAssumption, OutputInv, [InterfaceNext]_interfaceVars
    PROVE  OutputInv'
<1>1. AsTurbine /\ AsTurbine' BY InterfaceStepKeeps DEF OutputInv
<1>2. CASE Next
  <2>1. pc \in Phases /\ AssemblyInv BY <1>1, <1>2, NextIsOfPhases DEF AsTurbine
  <2>2. AssemblyInv' BY <1>2, <2>1, TurbineStepKeeps
  <2>3. (pc \in Phases)' BY <2>2 DEF AssemblyInv
  <2>4. pc' \notin {"controller", "outputs", "row", "written"} BY <2>3 DEF Phases
  <2>5. QED BY <1>1, <2>4 DEF OutputInv, Wired, ChannelsInOrder, RowIsFilled
<1>3. CASE CreateAerodynamics
  <2>1. IsSequence(blades) /\ AreBodies' BY <1>1, <1>3, BodiesAreWired
  <2>2. blades' = blades /\ pc' = "controller" BY <1>3 DEF CreateAerodynamics
  <2>3. IsSequence(blades') BY <2>1, <2>2
  <2>4. QED BY <1>1, <2>1, <2>2, <2>3 DEF OutputInv, Wired, ChannelsInOrder, RowIsFilled
<1>4. CASE CreateController
  <2>1. pc = "controller" /\ pc' = "outputs" /\ UNCHANGED <<blades, bodies>>
    BY <1>4 DEF CreateController
  <2>2. IsSequence(blades) /\ AreBodies BY <2>1 DEF OutputInv, Wired
  <2>3. IsSequence(blades') /\ AreBodies' BY <2>1, <2>2 DEF AreBodies
  <2>4. QED BY <1>1, <2>1, <2>3 DEF OutputInv, Wired, ChannelsInOrder, RowIsFilled
<1>5. CASE BuildTimeSeriesSchema
  <2>1. pc = "outputs" /\ pc' = "row" /\ UNCHANGED <<blades, bodies>>
    BY <1>5 DEF BuildTimeSeriesSchema
  <2>2. IsSequence(blades) /\ AreBodies BY <2>1 DEF OutputInv, Wired
  <2>3. IsSequence(blades') /\ AreBodies' BY <2>1, <2>2 DEF AreBodies
  <2>4. ChannelsInOrder' BY <1>5, ChannelsAreBuilt
  <2>5. QED BY <1>1, <2>1, <2>3, <2>4 DEF OutputInv, Wired, RowIsFilled
<1>6. CASE WriteTimeSeriesData
  <2>1. /\ pc = "row" /\ pc' = "written"
        /\ UNCHANGED <<blades, bodies, hasController>> /\ UNCHANGED <<channels, index>>
    BY <1>6 DEF WriteTimeSeriesData
  <2>2. IsSequence(blades) /\ AreBodies BY <2>1 DEF OutputInv, Wired
  <2>3. IsSequence(blades') /\ AreBodies' BY <2>1, <2>2 DEF AreBodies
  <2>4. /\ channels = NamesOf(Schema) /\ index = IndexOf(Schema)
        /\ DOMAIN row = 0 .. Len(channels) - 1
    BY <2>1 DEF OutputInv, ChannelsInOrder
  <2>5. Schema' = Schema BY <2>1, SchemaStays
  <2>6. channels' = NamesOf(Schema)' /\ index' = IndexOf(Schema)' BY <2>1, <2>4, <2>5
  <2>7. RowIsFilled' BY <1>6, RowIsWritten
  <2>8. DOMAIN row' = 0 .. Len(channels') - 1
    <3>1. row' = RightRow' BY <2>1, <2>7 DEF RowIsFilled
    <3>2. QED BY <3>1 DEF RightRow
  <2>9. QED BY <1>1, <2>3, <2>6, <2>7, <2>8 DEF OutputInv, Wired, ChannelsInOrder
<1>7. CASE Fly \/ UpdateAerodynamicLoads \/ SetNodeLoads \/ Step
  <2>1. pc' \in {"flight", "updated", "stepped"}
    BY <1>7, Zenon DEF Fly, UpdateAerodynamicLoads, SetNodeLoads, Step
  <2>2. pc' \notin {"controller", "outputs", "row", "written"} BY <2>1
  <2>3. QED BY <1>1, <2>2 DEF OutputInv, Wired, ChannelsInOrder, RowIsFilled
<1>8. CASE UNCHANGED interfaceVars
  <2>1. /\ pc' = pc /\ UNCHANGED <<part, blades, channels>>
        /\ UNCHANGED <<blades, bodies, hasController>> /\ UNCHANGED <<channels, index, row>>
    BY <1>8 DEF interfaceVars, vars, output
  <2>2. Schema' = Schema /\ RightRow' = RightRow BY <2>1, SchemaStays, RightRowStays
  <2>3. AreBodies' <=> AreBodies BY <2>1 DEF AreBodies
  <2>4. Wired' BY <2>1, <2>3 DEF OutputInv, Wired
  <2>5. ChannelsInOrder' BY <2>1, <2>2 DEF OutputInv, ChannelsInOrder
  <2>6. RowIsFilled' BY <2>1, <2>2 DEF OutputInv, RowIsFilled
  <2>7. QED BY <1>1, <2>4, <2>5, <2>6 DEF OutputInv
<1>9. QED
  BY <1>2, <1>3, <1>4, <1>5, <1>6, <1>7, <1>8 DEF InterfaceNext

LEMMA FilledRowIsRight ==
    ASSUME OutputInv
    PROVE  ChannelsHoldTheirValue
<1> SUFFICES ASSUME pc = "written"
             PROVE  /\ \A k \in 1 .. Len(channels) : row[k - 1] = Meaning(channels[k])
                    /\ Cardinality(ToSet(channels)) = Len(channels)
  BY DEF ChannelsHoldTheirValue
<1>1. /\ IsSequence(blades) /\ AreBodies
      /\ channels = NamesOf(Schema) /\ row = RightRow
  BY DEF OutputInv, Wired, ChannelsInOrder, RowIsFilled
<1>2. AreGroups(Schema) /\ \A g \in 1 .. Len(Schema) : NamesAreOf(Schema[g]) BY <1>1, SchemaIs
<1>3. IsSequence(channels) BY <1>1, <1>2, GroupsInOrder
<1>4. Len(channels) \in Nat BY <1>3, Elements
<1>5. ASSUME NEW k \in 1 .. Len(channels) PROVE row[k - 1] = Meaning(channels[k])
  <2>1. k - 1 \in 0 .. Len(channels) - 1 /\ (k - 1) + 1 = k BY <1>4
  <2>2. RightRow[k - 1] = Meaning(channels[(k - 1) + 1]) BY <2>1 DEF RightRow
  <2>3. QED BY <1>1, <2>1, <2>2
<1>6. IsInjective(channels) BY <1>1, <1>2, NoNameTwice
<1>7. Cardinality(ToSet(channels)) = Len(channels) BY <1>3, <1>6, DistinctMembers
<1>8. QED BY <1>5, <1>7

\* Whatever the numbers of blades and of sections, with a controller or not, with
\* aerodynamics or not, with the tower among their bodies or not: a row of the time series
\* has, under the name of every channel, what the name says, and no two channels have the
\* same name.
THEOREM EveryChannelIsRight ==
    ASSUME AssemblyAssumption, AerodynamicsAssumption
    PROVE  InterfaceSpec => []ChannelsHoldTheirValue
<1>1. InterfaceInit => OutputInv
  <2> SUFFICES ASSUME InterfaceInit PROVE OutputInv OBVIOUS
  <2>1. AssemblyInv BY InitEstablishes DEF InterfaceInit
  <2>2. AsTurbine BY <2>1 DEF AsTurbine, AssemblyInv
  <2>3. pc \notin {"controller", "outputs", "row", "written"} BY <2>1 DEF AssemblyInv, Phases
  <2>4. QED BY <2>2, <2>3 DEF OutputInv, Wired, ChannelsInOrder, RowIsFilled
<1>2. OutputInv /\ [InterfaceNext]_interfaceVars => OutputInv' BY OutputStepKeeps
<1>3. OutputInv => ChannelsHoldTheirValue BY FilledRowIsRight
<1>4. QED BY <1>1, <1>2, <1>3, PTL DEF InterfaceSpec
==============================================================================
