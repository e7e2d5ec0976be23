--------------------------- MODULE Outputs_proofs ---------------------------
(***************************************************************************)
(* Proofs about Outputs: of the two writers and of the calls that drive    *)
(* them both, for any components, buffer sizes, timesteps and numbers of   *)
(* writes.                                                                 *)
(***************************************************************************)
EXTENDS Outputs, FiniteSetTheorems, WellFoundedInduction, SequenceTheorems, TLAPS

-----------------------------------------------------------------------------
(* The invariant.  Of the time-series writer: no row is lost, and what its   *)
(* file and its buffer hold until a second batch is written.                 *)

Values == Nat \ {0}

\* The rows that n values of a batch from s on stand for.
Batch(s, n) == s .. s + n - 1

\* Before the first batch is written, each row was given once, and waits.
Waits(f, d, s, n, g, t) ==
    /\ f[t] = 0
    /\ t \in Batch(s, n) => g[t] = <<d[t - s + 1]>>
    /\ t \notin Batch(s, n) => g[t] = <<>>

\* After it, the file holds the values given first.
OfFirstBatch(f, s, n, g, t) ==
    f[t] # 0 => /\ g[t] # <<>> /\ f[t] = g[t][1]
                /\ t \notin Batch(s, n) => Len(g[t]) = 1

\* A file f, a buffer of n rows from s on at the front of the data d, the
\* values g given and k batches written.
Sound(f, d, s, n, g, k) ==
    /\ f \in [Timesteps -> Nat] /\ d \in Seq(Values) /\ s \in Timesteps
    /\ n \in Nat /\ n <= Len(d) /\ s + n - 1 <= MaxStep
    /\ g \in [Timesteps -> Seq(Values)] /\ k \in Nat
    /\ \A t \in Timesteps : g[t] # <<>> => f[t] # 0 \/ t \in Batch(s, n)
    /\ k = 0 => Len(d) = n /\ \A t \in Timesteps : Waits(f, d, s, n, g, t)
    /\ k = 1 => \A t \in Timesteps : OfFirstBatch(f, s, n, g, t)

\* Without a buffer, the file holds the last value given.
Plain(f, g) ==
    /\ f \in [Timesteps -> Nat] /\ g \in [Timesteps -> Seq(Values)]
    /\ \A t \in Timesteps : /\ g[t] = <<>> => f[t] = 0
                            /\ g[t] # <<>> => f[t] = g[t][Len(g[t])]

SeriesInv ==
    /\ sBufferSize \in Nat /\ sOpen \in BOOLEAN /\ sWrites \in Nat /\ start \in Timesteps
    /\ sBufferSize = 0 => numRows = 0 /\ Plain(sFile, given)
    /\ sBufferSize # 0 => Sound(sFile, data, start, numRows, given, flushes)

-----------------------------------------------------------------------------
(* The time-series writer. *)

LEMMA FlushIsSound ==
    ASSUME OutputsAssumption, NEW f, NEW d, NEW s, NEW n, NEW g, NEW k,
           Sound(f, d, s, n, g, k), n # 0
    PROVE  Sound(Series!FileWith(f, s, n, d), d, s, 0, g, k + 1)
<1> DEFINE F == Series!FileWith(f, s, n, d)
<1>1. /\ f \in [Timesteps -> Nat] /\ d \in Seq(Values) /\ s \in Timesteps
      /\ n \in Nat /\ n <= Len(d) /\ s + n - 1 <= MaxStep
      /\ g \in [Timesteps -> Seq(Values)] /\ k \in Nat
      /\ \A t \in Timesteps : g[t] # <<>> => f[t] # 0 \/ t \in Batch(s, n)
      /\ k = 0 => Len(d) = n /\ \A t \in Timesteps : Waits(f, d, s, n, g, t)
  BY DEF Sound
<1>2. \A t \in Timesteps : F[t] = IF t \in Batch(s, n) THEN d[t - s + 1] ELSE f[t]
  BY DEF Series!FileWith, Series!Rows, Timesteps, Batch
<1>3. MaxStep \in Nat /\ s \in Nat /\ Len(d) \in Nat BY <1>1 DEF OutputsAssumption, Timesteps
<1>4. \A t \in Batch(s, n) : d[t - s + 1] \in Values
  <2> SUFFICES ASSUME NEW t \in Batch(s, n) PROVE d[t - s + 1] \in Values OBVIOUS
  <2>1. t - s + 1 \in 1 .. Len(d) BY <1>1, <1>3 DEF Batch
  <2>2. QED BY <1>1, <2>1, ElementOfSeq
<1>5. F \in [Timesteps -> Nat]
  BY <1>1, <1>4 DEF Series!FileWith, Series!Rows, Timesteps, Batch, Values
<1>6. s + 0 - 1 <= MaxStep /\ 0 <= Len(d) /\ k + 1 \in Nat BY <1>1, <1>3 DEF Timesteps
<1>7. \A t \in Timesteps : g[t] # <<>> => F[t] # 0 BY <1>1, <1>2, <1>4 DEF Values
<1>8. k + 1 = 1 => \A t \in Timesteps : OfFirstBatch(F, s, 0, g, t)
  <2> SUFFICES ASSUME k = 0, NEW t \in Timesteps, F[t] # 0
               PROVE  g[t] # <<>> /\ F[t] = g[t][1] /\ Len(g[t]) = 1
    BY <1>1 DEF OfFirstBatch
  <2>1. Waits(f, d, s, n, g, t) BY <1>1
  <2>2. t \in Batch(s, n) BY <1>2, <2>1 DEF Waits
  <2>3. g[t] = <<d[t - s + 1]>> /\ F[t] = d[t - s + 1] BY <1>2, <2>1, <2>2 DEF Waits
  <2>4. QED BY <2>3
<1> HIDE DEF F
<1>9. k + 1 # 0 BY <1>1
<1>10. Sound(F, d, s, 0, g, k + 1) BY <1>1, <1>5, <1>6, <1>7, <1>8, <1>9 DEF Sound
<1>11. QED BY <1>10 DEF F

\* A row that starts a batch or continues it.
LEMMA AppendIsSound ==
    ASSUME OutputsAssumption, NEW f, NEW d, NEW s, NEW n, NEW g, NEW k,
           Sound(f, d, s, n, g, k), NEW t \in Timesteps, NEW w \in Values,
           n = 0 \/ t = s + n
    PROVE  Sound(f, Append(d, w), IF n = 0 THEN t ELSE s, n + 1,
                 [g EXCEPT ![t] = Append(g[t], w)], k)
<1> DEFINE D == Append(d, w)
           S == IF n = 0 THEN t ELSE s
           G == [g EXCEPT ![t] = Append(g[t], w)]
           old == Batch(s, n)
           new == Batch(S, n + 1)
<1>1. /\ f \in [Timesteps -> Nat] /\ d \in Seq(Values) /\ s \in Timesteps
      /\ n \in Nat /\ n <= Len(d) /\ s + n - 1 <= MaxStep
      /\ g \in [Timesteps -> Seq(Values)] /\ k \in Nat
      /\ \A u \in Timesteps : g[u] # <<>> => f[u] # 0 \/ u \in old
      /\ k = 0 => Len(d) = n /\ \A u \in Timesteps : Waits(f, d, s, n, g, u)
      /\ k = 1 => \A u \in Timesteps : OfFirstBatch(f, s, n, g, u)
  BY DEF Sound
<1>2. MaxStep \in Nat /\ s \in Nat /\ t \in Nat /\ t <= MaxStep /\ Len(d) \in Nat
  BY <1>1 DEF OutputsAssumption, Timesteps
<1>3. /\ D \in Seq(Values) /\ Len(D) = Len(d) + 1 /\ D[Len(d) + 1] = w
      /\ \A i \in 1 .. Len(d) : D[i] = d[i]
  BY <1>1, AppendProperties
<1>4. G \in [Timesteps -> Seq(Values)] /\ G[t] = Append(g[t], w)
      /\ \A u \in Timesteps : u # t => G[u] = g[u]
  <2>1. Append(g[t], w) \in Seq(Values) BY <1>1, AppendProperties
  <2>2. QED BY <1>1, <2>1
<1>5. \A u \in Timesteps : u \in new <=> u \in old \/ u = t
  <2> SUFFICES ASSUME NEW u \in Timesteps PROVE u \in new <=> u \in old \/ u = t OBVIOUS
  <2>1. u \in Nat BY DEF Timesteps
  <2>2. QED BY <1>1, <1>2, <2>1 DEF Batch
<1>6. t \notin old BY <1>1, <1>2 DEF Batch
<1>7. S \in Timesteps /\ S + (n + 1) - 1 <= MaxStep /\ n + 1 \in Nat /\ n + 1 <= Len(D)
  BY <1>1, <1>2, <1>3 DEF Timesteps
<1>8. \A u \in Timesteps : G[u] # <<>> => f[u] # 0 \/ u \in new BY <1>1, <1>4, <1>5
<1>9. ASSUME k = 0 PROVE Len(D) = n + 1 /\ \A u \in Timesteps : Waits(f, D, S, n + 1, G, u)
  <2>1. Len(D) = n + 1 /\ Len(d) = n BY <1>1, <1>3, <1>9
  <2> SUFFICES ASSUME NEW u \in Timesteps PROVE Waits(f, D, S, n + 1, G, u) BY <2>1
  <2>2. Waits(f, d, s, n, g, u) BY <1>1, <1>9
  <2>3. f[u] = 0 BY <2>2 DEF Waits
  <2>4. u \notin new => G[u] = <<>> BY <1>4, <1>5, <2>2 DEF Waits
  <2>5. ASSUME u = t PROVE G[u] = <<D[u - S + 1]>>
    <3>1. g[u] = <<>> BY <1>6, <2>2, <2>5 DEF Waits
    <3>2. u - S + 1 = n + 1 BY <1>1, <1>2, <2>5
    <3>3. D[u - S + 1] = w BY <1>3, <2>1, <3>2
    <3>4. G[u] = Append(<<>>, w) BY <1>4, <2>5, <3>1
    <3> HIDE DEF D, S, G
    <3>5. QED BY <3>3, <3>4
  <2>6. ASSUME u # t, u \in old PROVE G[u] = <<D[u - S + 1]>>
    <3>1. g[u] = <<d[u - s + 1]>> BY <2>2, <2>6 DEF Waits
    <3>2. S = s /\ u - s + 1 \in 1 .. Len(d)
      <4>1. u \in Nat BY DEF Timesteps
      <4>2. QED BY <1>1, <1>2, <2>1, <2>6, <4>1 DEF Batch
    <3>3. D[u - S + 1] = d[u - s + 1] BY <1>3, <3>2
    <3>4. G[u] = g[u] BY <1>4, <2>6
    <3> HIDE DEF D, S, G
    <3>5. QED BY <3>1, <3>3, <3>4
  <2> HIDE DEF D, S, G
  <2>7. QED BY <1>5, <2>3, <2>4, <2>5, <2>6 DEF Waits
<1>10. ASSUME k = 1 PROVE \A u \in Timesteps : OfFirstBatch(f, S, n + 1, G, u)
  <2> SUFFICES ASSUME NEW u \in Timesteps, f[u] # 0
               PROVE  /\ G[u] # <<>> /\ f[u] = G[u][1]
                      /\ u \notin new => Len(G[u]) = 1
    BY DEF OfFirstBatch
  <2>1. g[u] # <<>> /\ f[u] = g[u][1] /\ (u \notin old => Len(g[u]) = 1)
    BY <1>1, <1>10 DEF OfFirstBatch
  <2>2. CASE u # t BY <1>4, <1>5, <2>1, <2>2
  <2>3. CASE u = t
    <3>1. u \in new BY <1>5, <2>3
    <3>2. g[u] \in Seq(Values) /\ Len(g[u]) \in Nat /\ Len(g[u]) # 0 BY <1>1, <2>1, EmptySeq
    <3>3. /\ Len(Append(g[u], w)) = Len(g[u]) + 1 /\ Append(g[u], w)[1] = g[u][1]
          /\ Append(g[u], w) # <<>>
      BY <3>2, AppendProperties
    <3>4. QED BY <1>4, <2>1, <2>3, <3>1, <3>3
  <2>4. QED BY <2>2, <2>3
<1> HIDE DEF D, S, G
<1>11. Sound(f, D, S, n + 1, G, k)
  BY <1>1, <1>3, <1>4, <1>7, <1>8, <1>9, <1>10 DEF Sound
<1>12. QED BY <1>11 DEF D, S, G

LEMMA NothingToFlush ==
    ASSUME NEW V, NEW f \in [Timesteps -> V], NEW s \in Timesteps, NEW d
    PROVE  Series!FileWith(f, s, 0, d) = f
<1>1. \A t : t \notin s .. s + 0 - 1 BY DEF Timesteps
<1>2. QED BY <1>1 DEF Series!FileWith, Series!Rows, Timesteps

LEMMA FlushBufferKeepsInv ==
    ASSUME OutputsAssumption, SeriesInv, Series!FlushBuffer,
           sBufferSize' = sBufferSize, sOpen' \in BOOLEAN, sWrites' = sWrites, given' = given
    PROVE  SeriesInv'
<1>1. /\ sFile' = IF sOpen THEN Series!FileWith(sFile, start, numRows, data) ELSE sFile
      /\ flushes' = IF numRows > 0 /\ sOpen THEN flushes + 1 ELSE flushes
      /\ numRows' = IF numRows > 0 /\ ~ sOpen THEN numRows ELSE 0
      /\ data' = data /\ start' = start
  BY DEF Series!FlushBuffer, Series!Flushed, Series!RowsAfterFlush, Series!FlushFails
<1>2. sBufferSize \in Nat /\ sWrites \in Nat /\ start \in Timesteps BY DEF SeriesInv
<1>3. CASE sBufferSize = 0
  <2>1. numRows = 0 /\ Plain(sFile, given) BY <1>3 DEF SeriesInv
  <2>2. sFile' = sFile BY <1>1, <1>2, <2>1, NothingToFlush DEF Plain
  <2>3. numRows' = 0 BY <1>1, <2>1
  <2>4. QED BY <1>1, <1>2, <1>3, <2>1, <2>2, <2>3 DEF SeriesInv, Plain
<1>4. CASE sBufferSize # 0
  <2>1. Sound(sFile, data, start, numRows, given, flushes) BY <1>4 DEF SeriesInv
  <2>2. numRows \in Nat /\ sFile \in [Timesteps -> Nat] BY <2>1 DEF Sound
  <2>3. Sound(sFile', data, start, numRows', given, flushes')
    <3>1. CASE numRows = 0
      <4>1. sFile' = sFile BY <1>1, <1>2, <2>2, <3>1, NothingToFlush
      <4>2. numRows' = numRows /\ flushes' = flushes BY <1>1, <3>1
      <4>3. QED BY <2>1, <4>1, <4>2
    <3>2. CASE numRows # 0 /\ sOpen
      <4>1. /\ sFile' = Series!FileWith(sFile, start, numRows, data)
            /\ flushes' = flushes + 1 /\ numRows' = 0
        BY <1>1, <2>2, <3>2
      <4>2. QED BY <2>1, <3>2, <4>1, FlushIsSound
    <3>3. CASE numRows # 0 /\ ~ sOpen
      <4>1. sFile' = sFile /\ flushes' = flushes /\ numRows' = numRows BY <1>1, <2>2, <3>3
      <4>2. QED BY <2>1, <4>1
    <3>4. QED BY <3>1, <3>2, <3>3
  <2>4. Sound(sFile', data', start', numRows', given', flushes') BY <1>1, <2>3
  <2> QED
    <3>1. sBufferSize' \in Nat /\ sWrites' \in Nat /\ start' \in Timesteps /\ sBufferSize' # 0
      BY <1>1, <1>2, <1>4
    <3>2. QED BY <2>4, <3>1 DEF SeriesInv, Sound, Waits, OfFirstBatch
<1>5. QED BY <1>3, <1>4

LEMMA BufferedIsSound ==
    ASSUME OutputsAssumption, NEW f, NEW n, NEW k, NEW t \in Timesteps, sWrites \in Nat,
           Sound(f, data, start, n, given, k), n = 0 \/ t = start + n,
           Series!Buffered(t, f, n, k)
    PROVE  Sound(sFile', data', start', numRows', given', flushes')
<1> DEFINE first == IF n = 0 THEN t ELSE start
           D == Append(data, sWrites + 1)
           G == [given EXCEPT ![t] = Append(given[t], sWrites + 1)]
           full == n + 1 >= sBufferSize
<1>1. /\ data' = D /\ start' = first /\ given' = G
      /\ IF full /\ sOpen
         THEN sFile' = Series!FileWith(f, first, n + 1, D) /\ flushes' = k + 1
         ELSE sFile' = f /\ flushes' = k
      /\ numRows' = IF full THEN (IF n + 1 > 0 /\ ~ sOpen THEN n + 1 ELSE 0) ELSE n + 1
  BY DEF Series!Buffered, Series!BatchStart, Series!IsFull, Series!RowsAfterFlush,
         Series!FlushFails
<1>2. n \in Nat BY DEF Sound
<1>3. n + 1 # 0 /\ n + 1 > 0 /\ sWrites + 1 \in Values BY <1>2 DEF Values
<1>4. Sound(f, D, first, n + 1, G, k) BY <1>3, AppendIsSound
<1> HIDE DEF first, D, G, full
<1>5. CASE full /\ sOpen
  <2>1. Sound(Series!FileWith(f, first, n + 1, D), D, first, 0, G, k + 1)
    BY <1>3, <1>4, FlushIsSound
  <2>2. numRows' = 0 BY <1>1, <1>5
  <2>3. QED BY <1>1, <1>5, <2>1, <2>2
<1>6. CASE ~ (full /\ sOpen)
  <2>1. numRows' = n + 1 BY <1>1, <1>3, <1>6
  <2>2. QED BY <1>1, <1>4, <1>6, <2>1
<1>7. QED BY <1>5, <1>6

LEMMA SeriesUnchanged ==
    ASSUME SeriesInv, sBufferSize' = sBufferSize, sOpen' \in BOOLEAN, sWrites' \in Nat,
           sFile' = sFile, data' = data, start' = start, numRows' = numRows,
           given' = given, flushes' = flushes
    PROVE  SeriesInv'
BY DEF SeriesInv, Sound, Waits, OfFirstBatch, Plain

LEMMA SeriesWriteKeepsInv ==
    ASSUME OutputsAssumption, SeriesInv, NEW t \in Timesteps,
           \/ Series!WriteUnbuffered(t)
           \/ Series!WriteContiguous(t)
           \/ Series!WriteElsewhere(t)
    PROVE  SeriesInv'
<1>1. /\ sBufferSize \in Nat /\ sOpen \in BOOLEAN /\ sWrites \in Nat /\ start \in Timesteps
      /\ sBufferSize = 0 => numRows = 0 /\ Plain(sFile, given)
      /\ sBufferSize # 0 => Sound(sFile, data, start, numRows, given, flushes)
  BY DEF SeriesInv
<1>2. /\ sBufferSize' = sBufferSize /\ sOpen' = sOpen /\ sWrites' = sWrites + 1
      /\ sBufferSize' \in Nat /\ sWrites' \in Nat
  BY <1>1 DEF Series!WriteUnbuffered, Series!WriteContiguous, Series!WriteElsewhere, Series!Give
<1>3. ASSUME sBufferSize # 0, Sound(sFile', data', start', numRows', given', flushes')
      PROVE  SeriesInv'
  <2>1. start' \in Timesteps BY <1>3 DEF Sound
  <2>2. QED BY <1>1, <1>2, <1>3, <2>1 DEF SeriesInv, Sound, Waits, OfFirstBatch
<1>4. CASE Series!WriteUnbuffered(t)
  <2>1. /\ sBufferSize = 0 /\ numRows' = numRows /\ start' = start
        /\ sFile' = IF sOpen THEN [sFile EXCEPT ![t] = sWrites + 1] ELSE sFile
        /\ given' = IF sOpen THEN [given EXCEPT ![t] = Append(given[t], sWrites + 1)] ELSE given
    BY <1>4 DEF Series!WriteUnbuffered, Series!Unbuffered, Series!buffer
  <2>2. sFile \in [Timesteps -> Nat] /\ given \in [Timesteps -> Seq(Values)]
        /\ \A u \in Timesteps : /\ given[u] = <<>> => sFile[u] = 0
                                /\ given[u] # <<>> => sFile[u] = given[u][Len(given[u])]
    BY <1>1, <2>1 DEF Plain
  <2>3. sWrites + 1 \in Values /\ sWrites + 1 \in Nat BY <1>1 DEF Values
  <2> DEFINE longer == Append(given[t], sWrites + 1)
  <2>4. /\ longer \in Seq(Values) /\ longer # <<>> /\ longer[Len(longer)] = sWrites + 1
    <3>1. given[t] \in Seq(Values) BY <2>2
    <3>2. QED BY <2>3, <3>1, AppendProperties
  <2> HIDE DEF longer
  <2>5. CASE sOpen
    <3>1. sFile' \in [Timesteps -> Nat] /\ given' \in [Timesteps -> Seq(Values)]
      BY <2>1, <2>2, <2>3, <2>4, <2>5 DEF longer
    <3>2. \A u \in Timesteps :
            /\ sFile'[u] = IF u = t THEN sWrites + 1 ELSE sFile[u]
            /\ given'[u] = IF u = t THEN longer ELSE given[u]
      BY <2>1, <2>2, <2>5 DEF longer
    <3>3. \A u \in Timesteps : /\ given'[u] = <<>> => sFile'[u] = 0
                               /\ given'[u] # <<>> => sFile'[u] = given'[u][Len(given'[u])]
      BY <2>2, <2>4, <3>2
    <3>4. Plain(sFile', given') BY <3>1, <3>3 DEF Plain
    <3>5. QED BY <1>1, <1>2, <2>1, <3>4 DEF SeriesInv, Plain
  <2>6. CASE ~ sOpen
    <3>1. sFile' = sFile /\ given' = given BY <2>1, <2>6
    <3>2. QED BY <1>1, <1>2, <2>1, <3>1 DEF SeriesInv, Plain
  <2>7. QED BY <2>5, <2>6
<1>5. CASE Series!WriteContiguous(t)
  <2>1. /\ sBufferSize # 0
        /\ numRows = 0 \/ t = start + numRows
        /\ Series!Buffered(t, sFile, numRows, flushes)
    BY <1>5 DEF Series!WriteContiguous, Series!Unbuffered, Series!ContinuesBatch
  <2>2. Sound(sFile', data', start', numRows', given', flushes')
    BY <1>1, <2>1, BufferedIsSound
  <2>3. QED BY <1>3, <2>1, <2>2
<1>6. CASE Series!WriteElsewhere(t)
  <2>1. sBufferSize # 0 /\ numRows # 0
    BY <1>6 DEF Series!WriteElsewhere, Series!Unbuffered, Series!ContinuesBatch
  <2>2. CASE sOpen
    <3>1. Series!Buffered(t, Series!FileWith(sFile, start, numRows, data), 0, flushes + 1)
      BY <1>6, <2>2 DEF Series!WriteElsewhere
    <3>2. Sound(Series!FileWith(sFile, start, numRows, data), data, start, 0, given, flushes + 1)
      BY <1>1, <2>1, FlushIsSound
    <3>3. Sound(sFile', data', start', numRows', given', flushes')
      BY <1>1, <3>1, <3>2, BufferedIsSound
    <3>4. QED BY <1>3, <2>1, <3>3
  <2>3. CASE ~ sOpen
    <3>1. /\ sFile' = sFile /\ data' = data /\ start' = start /\ numRows' = numRows
          /\ given' = given /\ flushes' = flushes
      BY <1>6, <2>3 DEF Series!WriteElsewhere, Series!buffer
    <3>2. QED BY <1>1, <1>2, <3>1, SeriesUnchanged
  <2>4. QED BY <2>2, <2>3
<1>7. QED BY <1>4, <1>5, <1>6

\* A set of naturals has a least member.
LEMMA LeastOfNat ==
    ASSUME NEW T \in SUBSET Nat, T # {}
    PROVE  \E n \in T : \A m \in T : n <= m
<1> DEFINE R == {ss \in Nat \X Nat : ss[1] < ss[2]}
<1>1. IsWellFoundedOn(R, Nat) BY NatLessThanWellFounded, Zenon DEF OpToRel
<1>2. \A x, y \in Nat : <<y, x>> \in R <=> y < x OBVIOUS
<1> HIDE DEF R
<1>3. PICK n \in T : \A m \in T : ~ (<<m, n>> \in R) BY <1>1, WFMin
<1>4. ASSUME NEW m \in T PROVE n <= m
  <2>1. m \in Nat /\ n \in Nat OBVIOUS
  <2>2. ~ (m < n) BY <1>2, <1>3, <2>1
  <2>3. QED BY <2>1, <2>2
<1>5. QED BY <1>4

-----------------------------------------------------------------------------
(* The invariant of the node-state writer: a record in a buffer is a value   *)
(* still to come, and with all of them written the file would hold what was  *)
(* accepted last.                                                            *)

Records == [t : Timesteps, v : 1 .. MaxRecords]
Contents == [Node!Places -> 0 .. MaxRecords]

\* What the file f holds for c at t, now and once the records are written.
Held(f, c, t) == f[<<c, t>>]
Final(f, c, records, t) == Held(Node!Write(f, c, records), c, t)

NodeTypeOK ==
    /\ nBufferSize \in Nat
    /\ enabled \in SUBSET Components
    /\ nOpen \in BOOLEAN
    /\ nFile \in Contents
    /\ latest \in Contents
    /\ buffers \in [Components -> Seq(Records)]
    /\ nWrites \in 0 .. MaxRecords

NodeInv ==
    /\ NodeTypeOK
    /\ \A c \in Components : nBufferSize = 0 => buffers[c] = <<>>
    /\ \A c \in Components : \A t \in Timesteps :
          Final(nFile, c, buffers[c], t) = Held(latest, c, t)

LEMMA NodePlaces ==
    /\ Node!Components = Components /\ Node!Timesteps = Timesteps
    /\ \A c \in Components : \A t \in Timesteps : <<c, t>> \in Node!Places
    /\ \A p \in Node!Places : /\ p[1] \in Components /\ p[2] \in Timesteps
                              /\ p = <<p[1], p[2]>>
BY DEF Node!Components, Components, Node!Timesteps, Timesteps, Node!Places

\* The index of the last record of a timestep.
LastAt(records, t) ==
    CHOOSE i \in Node!RecordsAt(records, t) : \A j \in Node!RecordsAt(records, t) : j <= i

LEMMA LastRecord ==
    ASSUME NEW records \in Seq(Records), NEW t, Node!RecordsAt(records, t) # {}
    PROVE  /\ LastAt(records, t) \in Node!RecordsAt(records, t)
           /\ \A j \in Node!RecordsAt(records, t) : j <= LastAt(records, t)
<1> DEFINE R == Node!RecordsAt(records, t)
           Over == {n \in Nat : \A i \in R : i <= n}
<1>1. \A i \in R : i \in 1 .. Len(records) BY DEF Node!RecordsAt
<1>2. Len(records) \in Nat OBVIOUS
<1>3. Over \in SUBSET Nat /\ Over # {}
  <2>1. Len(records) \in Over BY <1>1, <1>2
  <2>2. QED BY <2>1
<1>4. PICK n \in Over : \A m \in Over : n <= m
  <2> HIDE DEF Over
  <2>1. QED BY <1>3, LeastOfNat
<1>5. n \in Nat /\ \A i \in R : i <= n BY <1>4
<1>6. n \in R
  <2> SUFFICES ASSUME n \notin R PROVE FALSE OBVIOUS
  <2>1. \A i \in R : i <= n - 1 /\ i >= 1 BY <1>1, <1>2, <1>5
  <2>2. n - 1 \in Nat
    <3>1. PICK i \in R : TRUE OBVIOUS
    <3>2. i \in Nat /\ i >= 1 /\ i <= n - 1 BY <1>1, <1>2, <2>1
    <3>3. QED BY <1>5, <3>2
  <2>3. n - 1 \in Over BY <2>1, <2>2
  <2>4. n <= n - 1 BY <1>4, <2>3
  <2>5. QED BY <1>5, <2>4
<1>7. \E i \in R : \A j \in R : j <= i BY <1>5, <1>6
<1> HIDE DEF Over
<1>8. QED BY <1>7, Zenon DEF LastAt

LEMMA FinalIs ==
    ASSUME NEW f, NEW c \in Components, NEW t \in Timesteps, NEW records
    PROVE  Final(f, c, records, t) =
             IF Node!RecordsAt(records, t) = {} THEN Held(f, c, t)
             ELSE records[LastAt(records, t)].v
<1>1. /\ <<c, t>> \in Node!Places /\ <<c, t>>[1] = c /\ <<c, t>>[2] = t
  BY NodePlaces
<1> DEFINE place == <<c, t>>
<1>2. place \in Node!Places /\ place[1] = c /\ place[2] = t BY <1>1
<1> HIDE DEF place
<1>3. Node!Write(f, c, records)[place] =
        IF place[1] # c \/ Node!RecordsAt(records, place[2]) = {} THEN f[place]
        ELSE records[LastAt(records, place[2])].v
  BY <1>2, Zenon DEF Node!Write, LastAt
<1>4. QED BY <1>2, <1>3 DEF Final, Held, place

LEMMA NoRecords ==
    ASSUME NEW f, NEW c \in Components, NEW t \in Timesteps
    PROVE  Final(f, c, <<>>, t) = Held(f, c, t)
<1>1. Node!RecordsAt(<<>>, t) = {} BY DEF Node!RecordsAt
<1>2. QED BY <1>1, FinalIs

\* What is final at a place does not depend on the file elsewhere.
LEMMA SameFinal ==
    ASSUME NEW f, NEW g, NEW c \in Components, NEW t \in Timesteps, NEW records,
           Held(f, c, t) = Held(g, c, t)
    PROVE  Final(f, c, records, t) = Final(g, c, records, t)
BY FinalIs

LEMMA AppendedRecord ==
    ASSUME NEW f, NEW c \in Components, NEW t \in Timesteps,
           NEW records \in Seq(Records), NEW r \in Records
    PROVE  Final(f, c, Append(records, r), t) =
             IF r.t = t THEN r.v ELSE Final(f, c, records, t)
<1> DEFINE longer == Append(records, r)
           n == Len(records) + 1
<1>1. /\ longer \in Seq(Records) /\ Len(longer) = n /\ longer[n] = r
      /\ \A i \in 1 .. Len(records) : longer[i] = records[i]
      /\ DOMAIN longer = 1 .. n /\ DOMAIN records = 1 .. Len(records) /\ Len(records) \in Nat
  BY AppendProperties, LenProperties
<1>2. \A i : i \in 1 .. n <=> i \in 1 .. Len(records) \/ i = n BY <1>1
<1> HIDE DEF longer, n
<1>3. \A i : i \in Node!RecordsAt(longer, t) <=>
        i \in Node!RecordsAt(records, t) \/ (i = n /\ r.t = t)
  BY <1>1, <1>2 DEF Node!RecordsAt
<1>4. \A i \in Node!RecordsAt(records, t) : i \in 1 .. Len(records) BY <1>1 DEF Node!RecordsAt
<1>5. CASE r.t = t
  <2>1. n \in Node!RecordsAt(longer, t) BY <1>3, <1>5
  <2>2. LastAt(longer, t) \in Node!RecordsAt(longer, t) /\ n <= LastAt(longer, t)
    BY <1>1, <2>1, LastRecord
  <2>3. LastAt(longer, t) = n
    <3>1. LastAt(longer, t) \in 1 .. n BY <1>2, <1>3, <1>4, <2>2
    <3>2. n \in Nat BY <1>1 DEF n
    <3>3. QED BY <2>2, <3>1, <3>2
  <2>4. Final(f, c, longer, t) = longer[n].v BY <2>1, <2>3, FinalIs
  <2>5. QED BY <1>1, <1>5, <2>4 DEF longer
<1>6. CASE r.t # t
  <2>1. Node!RecordsAt(longer, t) = Node!RecordsAt(records, t) BY <1>3, <1>6
  <2>2. LastAt(longer, t) = LastAt(records, t) BY <2>1 DEF LastAt
  <2>3. ASSUME Node!RecordsAt(records, t) # {}
        PROVE  longer[LastAt(records, t)] = records[LastAt(records, t)]
    <3>1. LastAt(records, t) \in 1 .. Len(records) BY <1>4, <2>3, LastRecord
    <3>2. QED BY <1>1, <3>1
  <2>4. Final(f, c, longer, t) = Final(f, c, records, t)
    <3> DEFINE R == Node!RecordsAt(records, t)
               last == LastAt(records, t)
    <3>1. Final(f, c, longer, t) = IF R = {} THEN Held(f, c, t) ELSE longer[last].v
      BY <2>1, <2>2, FinalIs
    <3>2. Final(f, c, records, t) = IF R = {} THEN Held(f, c, t) ELSE records[last].v
      BY FinalIs
    <3> HIDE DEF R, last
    <3>3. R # {} => longer[last] = records[last] BY <2>3 DEF R, last
    <3>4. QED BY <3>1, <3>2, <3>3
  <2>5. QED BY <1>6, <2>4 DEF longer
<1>7. QED BY <1>5, <1>6

LEMMA FinalElsewhere ==
    ASSUME NEW f, NEW c, NEW d \in Components, NEW t \in Timesteps, NEW records, c # d
    PROVE  Held(Node!Write(f, c, records), d, t) = Held(f, d, t)
<1> DEFINE place == <<d, t>>
<1>1. place \in Node!Places /\ place[1] # c BY NodePlaces
<1> HIDE DEF place
<1>2. Node!Write(f, c, records)[place] = f[place] BY <1>1, Zenon DEF Node!Write
<1>3. QED BY <1>2 DEF place, Held

LEMMA WriteIsFunction ==
    ASSUME NEW f, NEW c, NEW records
    PROVE  Node!Write(f, c, records) = [p \in Node!Places |-> Node!Write(f, c, records)[p]]
<1> DEFINE value(p) ==
             IF p[1] # c \/ Node!RecordsAt(records, p[2]) = {} THEN f[p]
             ELSE records[LastAt(records, p[2])].v
<1>1. Node!Write(f, c, records) = [p \in Node!Places |-> value(p)]
  BY Zenon DEF Node!Write, LastAt
<1> HIDE DEF value
<1>2. QED BY <1>1

\* Two files that agree at every component and timestep are the same.
LEMMA SamePlaces ==
    ASSUME NEW f, NEW g, f = [p \in Node!Places |-> f[p]], g = [p \in Node!Places |-> g[p]],
           \A c \in Components : \A t \in Timesteps : Held(f, c, t) = Held(g, c, t)
    PROVE  f = g
<1>1. \A p \in Node!Places : f[p] = g[p]
  <2> SUFFICES ASSUME NEW p \in Node!Places PROVE f[p] = g[p] OBVIOUS
  <2>1. p[1] \in Components /\ p[2] \in Timesteps /\ p = <<p[1], p[2]>> BY NodePlaces
  <2>2. Held(f, p[1], p[2]) = Held(g, p[1], p[2]) BY <2>1, Zenon
  <2>3. QED BY <2>1, <2>2, Zenon DEF Held
<1>2. QED BY <1>1, Zenon

\* Contents, place by place.
LEMMA IsContents ==
    ASSUME NEW f, f = [p \in Node!Places |-> f[p]],
           \A c \in Components : \A t \in Timesteps : Held(f, c, t) \in 0 .. MaxRecords
    PROVE  f \in Contents
<1>1. \A p \in Node!Places : f[p] \in 0 .. MaxRecords
  <2> SUFFICES ASSUME NEW p \in Node!Places PROVE f[p] \in 0 .. MaxRecords OBVIOUS
  <2>1. p[1] \in Components /\ p[2] \in Timesteps /\ p = <<p[1], p[2]>> BY NodePlaces
  <2>2. Held(f, p[1], p[2]) \in 0 .. MaxRecords BY <2>1, Zenon
  <2>3. QED BY <2>1, <2>2, Zenon DEF Held
<1>2. QED BY <1>1, Zenon DEF Contents

LEMMA ContentsAt ==
    ASSUME NEW f \in Contents
    PROVE  /\ f = [p \in Node!Places |-> f[p]]
           /\ \A c \in Components : \A t \in Timesteps : Held(f, c, t) \in 0 .. MaxRecords
BY NodePlaces DEF Contents, Held

Put(f, c, t, w) == [f EXCEPT ![<<c, t>>] = w]

LEMMA UpdatedAt ==
    ASSUME NEW f \in Contents, NEW c \in Components, NEW t \in Timesteps,
           NEW w \in 0 .. MaxRecords
    PROVE  /\ Put(f, c, t, w) \in Contents
           /\ \A d \in Components : \A u \in Timesteps :
                Held(Put(f, c, t, w), d, u) = IF d = c /\ u = t THEN w ELSE Held(f, d, u)
<1> DEFINE g == Put(f, c, t, w)
<1> DEFINE place == <<c, t>>
<1>1. place \in Node!Places BY NodePlaces
<1>2. \A d \in Components : \A u \in Timesteps :
        <<d, u>> \in Node!Places /\ (<<d, u>> = place <=> d = c /\ u = t)
  BY NodePlaces
<1>3. g = [f EXCEPT ![place] = w] BY DEF Put
<1> HIDE DEF place, g
<1>4. g \in Contents /\ \A p \in Node!Places : g[p] = IF p = place THEN w ELSE f[p]
  BY <1>1, <1>3 DEF Contents
<1>5. \A d \in Components : \A u \in Timesteps :
        Held(g, d, u) = IF d = c /\ u = t THEN w ELSE Held(f, d, u)
  BY <1>2, <1>4, Zenon DEF Held
<1>6. QED BY <1>4, <1>5 DEF g

LEMMA WriteHolds ==
    ASSUME NEW f, NEW c, NEW records, NEW g, g = Node!Write(f, c, records)
    PROVE  /\ \A t : Held(g, c, t) = Final(f, c, records, t)
           /\ \A d \in Components : \A t \in Timesteps :
                d # c => Held(g, d, t) = Held(f, d, t)
<1>1. \A t : Held(g, c, t) = Final(f, c, records, t) BY Zenon DEF Final
<1>2. ASSUME NEW d \in Components, NEW t \in Timesteps, d # c
      PROVE  Held(g, d, t) = Held(f, d, t)
  <2>1. Held(Node!Write(f, c, records), d, t) = Held(f, d, t) BY <1>2, FinalElsewhere
  <2>2. QED BY <2>1, Zenon
<1>3. QED BY <1>1, <1>2

(* What a step of the writer looks like to the promise. *)

Settled == nCall \in {"close", "destroy"} /\ ~ nThrew
PromiseStep == [Node!Store!Next]_(Node!Store!vars)

\* The file after the step holds the old value or the accepted one.
Mixed(accepted) ==
    /\ nFile' \in Contents
    /\ \A p \in Node!Places : nFile'[p] = nFile[p] \/ nFile'[p] = accepted[p]

LEMMA MixedAt ==
    ASSUME NEW accepted, nFile' = [p \in Node!Places |-> nFile'[p]],
           \A c \in Components : \A t \in Timesteps :
             /\ Held(nFile', c, t) \in 0 .. MaxRecords
             /\ Held(nFile', c, t) = Held(nFile, c, t) \/ Held(nFile', c, t) = Held(accepted, c, t)
    PROVE  Mixed(accepted)
<1>1. nFile' \in Contents BY IsContents
<1>2. ASSUME NEW p \in Node!Places PROVE nFile'[p] = nFile[p] \/ nFile'[p] = accepted[p]
  <2>1. p[1] \in Components /\ p[2] \in Timesteps /\ p = <<p[1], p[2]>> BY NodePlaces
  <2>2. \/ Held(nFile', p[1], p[2]) = Held(nFile, p[1], p[2])
        \/ Held(nFile', p[1], p[2]) = Held(accepted, p[1], p[2])
    BY <2>1, Zenon
  <2>3. QED BY <2>1, <2>2, Zenon DEF Held
<1>3. QED BY <1>1, <1>2 DEF Mixed

LEMMA PersistStep ==
    ASSUME OutputsAssumption, latest' = latest, Mixed(latest), ~ Settled'
    PROVE  PromiseStep
<1>1. 1 .. MaxRecords \cup {Node!Missing} = 0 .. MaxRecords
  BY DEF OutputsAssumption, Node!Missing
<1>2. Node!Store!SomeStored(latest)
  BY <1>1 DEF Node!Store!SomeStored, Node!Store!Contents, Mixed, Contents
<1>3. Node!Store!Persist BY <1>2 DEF Node!Store!Persist, Settled
<1>4. QED BY <1>3 DEF PromiseStep, Node!Store!Next

LEMMA SettleStep ==
    ASSUME latest' = latest, nFile' = latest, Settled' PROVE PromiseStep
<1>1. Node!Store!Settle BY DEF Node!Store!Settle, Settled
<1>2. QED BY <1>1 DEF PromiseStep, Node!Store!Next

LEMMA AcceptStep ==
    ASSUME OutputsAssumption, NEW c \in Components, NEW t \in Timesteps,
           NEW v \in 1 .. MaxRecords,
           latest' = Put(latest, c, t, v), Mixed(latest'), ~ Settled'
    PROVE  PromiseStep
<1>1. 1 .. MaxRecords \cup {Node!Missing} = 0 .. MaxRecords
  BY DEF OutputsAssumption, Node!Missing
<1>2. Node!Store!SomeStored(latest')
  BY <1>1 DEF Node!Store!SomeStored, Node!Store!Contents, Mixed, Contents
<1>3. <<c, t>> \in Node!Places BY NodePlaces
<1>4. Node!Store!Accept(<<c, t>>, v) BY <1>2 DEF Node!Store!Accept, Settled, Put
<1>5. QED BY <1>3, <1>4 DEF PromiseStep, Node!Store!Next

(* The steps of the node-state writer keep its invariant and its promise. *)

LEMMA NodeFacts ==
    ASSUME NodeInv
    PROVE  /\ nBufferSize \in Nat /\ enabled \in SUBSET Components /\ nOpen \in BOOLEAN
           /\ nFile \in Contents /\ latest \in Contents
           /\ buffers \in [Components -> Seq(Records)] /\ nWrites \in 0 .. MaxRecords
           /\ \A c \in Components : nBufferSize = 0 => buffers[c] = <<>>
           /\ \A c \in Components : \A t \in Timesteps :
                /\ Final(nFile, c, buffers[c], t) = Held(latest, c, t)
                /\ <<c, t>> \in Node!Places
BY NodePlaces DEF NodeInv, NodeTypeOK

\* A step that leaves the file alone.
LEMMA NodeIdle ==
    ASSUME OutputsAssumption, NodeInv, nBufferSize' = nBufferSize, enabled' = enabled,
           nOpen' \in BOOLEAN, nFile' = nFile, buffers' = buffers, latest' = latest,
           nWrites' \in 0 .. MaxRecords
    PROVE  NodeInv' /\ (~ Settled' => PromiseStep)
<1>1. NodeInv' BY DEF NodeInv, NodeTypeOK
<1>2. Mixed(latest) BY DEF Mixed, NodeInv, NodeTypeOK
<1>3. QED BY <1>1, <1>2, PersistStep

LEMMA NodeWriteUnbuffered ==
    ASSUME OutputsAssumption, NodeInv, NEW c \in Components, NEW t \in Timesteps,
           Node!WriteUnbuffered(c, t)
    PROVE  NodeInv' /\ PromiseStep
<1> DEFINE w == nWrites + 1
<1>1. /\ nBufferSize = 0 /\ nWrites < MaxRecords /\ nWrites' = w /\ nCall' = "write"
      /\ nBufferSize' = nBufferSize /\ enabled' = enabled /\ nOpen' = nOpen
      /\ buffers' = buffers
      /\ IF Node!Writable(c)
         THEN nFile' = Put(nFile, c, t, w) /\ latest' = Put(latest, c, t, w)
         ELSE nFile' = nFile /\ latest' = latest
  BY DEF Node!WriteUnbuffered, Put
<1>2. w \in 1 .. MaxRecords /\ w \in 0 .. MaxRecords BY <1>1, NodeFacts DEF OutputsAssumption
<1>3. ~ Settled' BY <1>1 DEF Settled
<1>4. \A d \in Components : buffers[d] = <<>> BY <1>1, NodeFacts
<1>5. \A d \in Components : \A u \in Timesteps : Held(nFile, d, u) = Held(latest, d, u)
  BY <1>4, NodeFacts, NoRecords
<1> HIDE DEF w
<1>7. CASE Node!Writable(c)
  <2>1. /\ nFile' \in Contents /\ latest' \in Contents
        /\ \A d \in Components : \A u \in Timesteps :
             /\ Held(nFile', d, u) = IF d = c /\ u = t THEN w ELSE Held(nFile, d, u)
             /\ Held(latest', d, u) = IF d = c /\ u = t THEN w ELSE Held(latest, d, u)
    BY <1>1, <1>2, <1>7, NodeFacts, UpdatedAt
  <2>2. \A d \in Components : \A u \in Timesteps : Held(nFile', d, u) = Held(latest', d, u)
    BY <1>5, <2>1
  <2>3. \A d \in Components : \A u \in Timesteps :
          Final(nFile', d, buffers'[d], u) = Held(latest', d, u)
    BY <1>1, <1>4, <2>2, NoRecords
  <2>4. NodeTypeOK' BY <1>1, <1>2, <2>1, NodeFacts DEF NodeTypeOK
  <2>5. NodeInv' BY <1>1, <1>4, <2>3, <2>4 DEF NodeInv
  <2>6. \A d \in Components : \A u \in Timesteps : Held(nFile', d, u) \in 0 .. MaxRecords
    BY <2>1, ContentsAt
  <2>7. Mixed(latest') BY <2>1, <2>2, <2>6, MixedAt, ContentsAt
  <2>8. PromiseStep BY <1>1, <1>2, <1>3, <1>7, <2>7, AcceptStep
  <2>9. QED BY <2>5, <2>8
<1>8. CASE ~ Node!Writable(c)
  <2>1. nFile' = nFile /\ latest' = latest BY <1>1, <1>8
  <2>2. QED BY <1>1, <1>2, <1>3, <2>1, NodeIdle, NodeFacts
<1>9. QED BY <1>7, <1>8

LEMMA NodeWriteBuffered ==
    ASSUME OutputsAssumption, NodeInv, NEW c \in Components, NEW t \in Timesteps,
           Node!WriteBuffered(c, t)
    PROVE  NodeInv' /\ PromiseStep
<1> DEFINE w == nWrites + 1
           record == [t |-> t, v |-> w]
           records == Append(buffers[c], record)
           flushes_now == Len(records) >= nBufferSize /\ Node!Writable(c)
<1>1. /\ nBufferSize > 0 /\ nWrites < MaxRecords /\ nWrites' = w /\ nCall' = "write"
      /\ nBufferSize' = nBufferSize /\ enabled' = enabled /\ nOpen' = nOpen
      /\ latest' = Put(latest, c, t, w)
      /\ IF flushes_now
         THEN nFile' = Node!Write(nFile, c, records) /\ buffers' = [buffers EXCEPT ![c] = <<>>]
         ELSE buffers' = [buffers EXCEPT ![c] = records] /\ nFile' = nFile
  BY DEF Node!WriteBuffered, Put
<1>2. w \in 1 .. MaxRecords /\ w \in 0 .. MaxRecords BY <1>1, NodeFacts DEF OutputsAssumption
<1>3. ~ Settled' BY <1>1 DEF Settled
<1>5. record \in Records /\ record.t = t /\ record.v = w BY <1>2 DEF Records
<1>6. buffers[c] \in Seq(Records) /\ buffers \in [Components -> Seq(Records)] BY NodeFacts
<1>7. records \in Seq(Records)
  <2> HIDE DEF record
  <2>1. QED BY <1>5, <1>6, AppendProperties
<1>9. /\ latest' \in Contents
      /\ \A d \in Components : \A u \in Timesteps :
           Held(latest', d, u) = IF d = c /\ u = t THEN w ELSE Held(latest, d, u)
  <2>1. latest' = Put(latest, c, t, w) BY <1>1
  <2>2. latest \in Contents BY NodeFacts
  <2> HIDE DEF w
  <2>3. QED BY <1>2, <2>1, <2>2, UpdatedAt
<1>10. \A u \in Timesteps : Final(nFile, c, records, u) = Held(latest', c, u)
  <2> SUFFICES ASSUME NEW u \in Timesteps PROVE Final(nFile, c, records, u) = Held(latest', c, u)
    OBVIOUS
  <2>1. Final(nFile, c, buffers[c], u) = Held(latest, c, u) BY NodeFacts
  <2>2. Final(nFile, c, records, u) =
          IF record.t = u THEN record.v ELSE Final(nFile, c, buffers[c], u)
    <3> HIDE DEF record
    <3>1. QED BY <1>5, <1>6, AppendedRecord
  <2> HIDE DEF w, record, records
  <2>3. QED BY <1>5, <1>9, <2>1, <2>2
<1> HIDE DEF w, record, records
<1>11. CASE flushes_now
  <2>1. /\ nFile' = Node!Write(nFile, c, records)
        /\ buffers' \in [Components -> Seq(Records)]
        /\ \A d \in Components : buffers'[d] = IF d = c THEN <<>> ELSE buffers[d]
    <3>1. <<>> \in Seq(Records) OBVIOUS
    <3>2. QED BY <1>1, <1>6, <1>11, <3>1
  <2>2. \A u \in Timesteps : Held(nFile', c, u) = Held(latest', c, u)
    BY <1>10, <2>1, WriteHolds
  <2>3. \A d \in Components : \A u \in Timesteps : d # c => Held(nFile', d, u) = Held(nFile, d, u)
    BY <2>1, WriteHolds
  <2>4. \A d \in Components : \A u \in Timesteps :
          /\ Held(nFile', d, u) \in 0 .. MaxRecords
          /\ Held(nFile', d, u) = Held(nFile, d, u) \/ Held(nFile', d, u) = Held(latest', d, u)
    <3>1. \A d \in Components : \A u \in Timesteps :
            Held(nFile, d, u) \in 0 .. MaxRecords /\ Held(latest', d, u) \in 0 .. MaxRecords
      BY <1>9, NodeFacts, ContentsAt
    <3>2. QED BY <2>2, <2>3, <3>1
  <2>5. nFile' = [p \in Node!Places |-> nFile'[p]] BY <2>1, WriteIsFunction
  <2>6. Mixed(latest') BY <2>4, <2>5, MixedAt
  <2>7. PromiseStep BY <1>1, <1>2, <1>3, <2>6, AcceptStep
  <2>8. \A d \in Components : \A u \in Timesteps :
          Final(nFile', d, buffers'[d], u) = Held(latest', d, u)
    <3> SUFFICES ASSUME NEW d \in Components, NEW u \in Timesteps
                 PROVE  Final(nFile', d, buffers'[d], u) = Held(latest', d, u)
      OBVIOUS
    <3>1. CASE d = c BY <2>1, <2>2, <3>1, NoRecords
    <3>2. CASE d # c
      <4>1. Held(latest', d, u) = Held(latest, d, u) /\ buffers'[d] = buffers[d]
        BY <1>9, <2>1, <3>2
      <4>2. Final(nFile', d, buffers[d], u) = Final(nFile, d, buffers[d], u)
        BY <2>3, <3>2, SameFinal
      <4>3. Final(nFile, d, buffers[d], u) = Held(latest, d, u) BY NodeFacts
      <4>4. QED BY <4>1, <4>2, <4>3
    <3>3. QED BY <3>1, <3>2
  <2>9. nFile' \in Contents BY <2>6 DEF Mixed
  <2>10. NodeTypeOK' BY <1>1, <1>2, <1>9, <2>1, <2>9, NodeFacts DEF NodeTypeOK
  <2>11. nBufferSize' # 0 BY <1>1, NodeFacts
  <2>12. QED BY <2>7, <2>8, <2>10, <2>11 DEF NodeInv
<1>12. CASE ~ flushes_now
  <2>1. /\ nFile' = nFile
        /\ buffers' \in [Components -> Seq(Records)]
        /\ \A d \in Components : buffers'[d] = IF d = c THEN records ELSE buffers[d]
    BY <1>1, <1>6, <1>7, <1>12
  <2>2. Mixed(latest') BY <2>1, NodeFacts DEF Mixed
  <2>3. PromiseStep BY <1>1, <1>2, <1>3, <2>2, AcceptStep
  <2>4. \A d \in Components : \A u \in Timesteps :
          Final(nFile', d, buffers'[d], u) = Held(latest', d, u)
    <3> SUFFICES ASSUME NEW d \in Components, NEW u \in Timesteps
                 PROVE  Final(nFile', d, buffers'[d], u) = Held(latest', d, u)
      OBVIOUS
    <3>1. CASE d = c BY <1>10, <2>1, <3>1
    <3>2. CASE d # c BY <1>9, <2>1, <3>2, NodeFacts
    <3>3. QED BY <3>1, <3>2
  <2>5. NodeTypeOK' BY <1>1, <1>2, <1>9, <2>1, NodeFacts DEF NodeTypeOK
  <2>6. nBufferSize' # 0 BY <1>1, NodeFacts
  <2>7. QED BY <2>3, <2>4, <2>5, <2>6 DEF NodeInv
<1>13. QED BY <1>11, <1>12

\* A flush of all buffers stores what the flushed components still had to
\* come, and leaves the rest as it was.
LEMMA NodeFlush ==
    ASSUME OutputsAssumption, NodeInv, Node!FlushAllBuffers,
           nBufferSize' = nBufferSize, nBufferSize # 0, enabled' = enabled,
           nOpen' \in BOOLEAN, latest' = latest, nWrites' = nWrites
    PROVE  /\ NodeInv' /\ Mixed(latest)
           /\ ~ Node!FlushAllThrows => nFile' = latest
<1> DEFINE value(p) == IF p[1] \in Node!Flushed
                       THEN Node!Write(nFile, p[1], buffers[p[1]])[p] ELSE nFile[p]
<1>1. /\ nFile' = [p \in Node!Places |-> value(p)]
      /\ buffers' = [c \in Components |-> IF c \in Node!Flushed THEN <<>> ELSE buffers[c]]
  BY NodePlaces DEF Node!FlushAllBuffers
<1>2. ASSUME NEW c \in Components, NEW t \in Timesteps
      PROVE  Held(nFile', c, t) = IF c \in Node!Flushed THEN Held(latest, c, t)
                                  ELSE Held(nFile, c, t)
  <2> DEFINE place == <<c, t>>
  <2>1. place \in Node!Places /\ place[1] = c BY NodePlaces
  <2>2. Final(nFile, c, buffers[c], t) = Held(latest, c, t) BY NodeFacts
  <2>3. Node!Write(nFile, c, buffers[c])[place] = Held(latest, c, t) BY <2>2 DEF Final, Held
  <2> HIDE DEF place
  <2>4. nFile'[place] = value(place) BY <1>1, <2>1
  <2>5. nFile'[place] = IF c \in Node!Flushed THEN Held(latest, c, t) ELSE nFile[place]
    BY <2>1, <2>3, <2>4
  <2>6. QED BY <2>5 DEF place, Held
<1>3. nFile' = [p \in Node!Places |-> nFile'[p]]
  <2> HIDE DEF value
  <2>1. QED BY <1>1
<1>4. /\ buffers' \in [Components -> Seq(Records)]
      /\ \A c \in Components : buffers'[c] = IF c \in Node!Flushed THEN <<>> ELSE buffers[c]
  <2>1. <<>> \in Seq(Records) OBVIOUS
  <2>2. QED BY <1>1, <2>1, NodeFacts
<1> HIDE DEF value
<1>5. \A c \in Components : \A t \in Timesteps :
        Held(nFile, c, t) \in 0 .. MaxRecords /\ Held(latest, c, t) \in 0 .. MaxRecords
  BY NodeFacts, ContentsAt
<1>6. Mixed(latest)
  <2>1. \A c \in Components : \A t \in Timesteps :
          /\ Held(nFile', c, t) \in 0 .. MaxRecords
          /\ Held(nFile', c, t) = Held(nFile, c, t) \/ Held(nFile', c, t) = Held(latest, c, t)
    BY <1>2, <1>5
  <2>2. QED BY <1>3, <2>1, MixedAt
<1>7. ASSUME NEW c \in Components, NEW t \in Timesteps
      PROVE  Final(nFile', c, buffers'[c], t) = Held(latest, c, t)
  <2>1. CASE c \in Node!Flushed BY <1>2, <1>4, <2>1, NoRecords
  <2>2. CASE c \notin Node!Flushed
    <3>1. Held(nFile', c, t) = Held(nFile, c, t) /\ buffers'[c] = buffers[c]
      BY <1>2, <1>4, <2>2
    <3>2. Final(nFile', c, buffers[c], t) = Final(nFile, c, buffers[c], t) BY <3>1, SameFinal
    <3>3. Final(nFile, c, buffers[c], t) = Held(latest, c, t) BY NodeFacts
    <3>4. QED BY <3>1, <3>2, <3>3
  <2>3. QED BY <2>1, <2>2
<1>8. NodeTypeOK' BY <1>4, <1>6, NodeFacts DEF NodeTypeOK, Mixed
<1>9. NodeInv' BY <1>7, <1>8 DEF NodeInv
<1>10. ASSUME ~ Node!FlushAllThrows PROVE nFile' = latest
  <2>1. Node!Blocked = {} BY <1>10 DEF Node!FlushAllThrows
  <2>2. \A c \in Components : c \in Node!Flushed
    BY <2>1 DEF Node!Flushed, Components
  <2>3. \A c \in Components : \A t \in Timesteps : Held(nFile', c, t) = Held(latest, c, t)
    BY <1>2, <2>2
  <2>4. latest = [p \in Node!Places |-> latest[p]] BY NodeFacts, ContentsAt
  <2>5. QED BY <1>3, <2>3, <2>4, SamePlaces
<1>11. QED BY <1>6, <1>9, <1>10

\* Without buffers, the file always holds what was accepted.
LEMMA NodeUnbuffered ==
    ASSUME NodeInv, nBufferSize = 0 PROVE nFile = latest
<1>1. \A c \in Components : \A t \in Timesteps : Held(nFile, c, t) = Held(latest, c, t)
  BY NodeFacts, NoRecords
<1>2. nFile = [p \in Node!Places |-> nFile[p]] /\ latest = [p \in Node!Places |-> latest[p]]
  BY NodeFacts, ContentsAt
<1>3. QED BY <1>1, <1>2, SamePlaces

\* What Close and the destructor have in common: a flush if there are
\* buffers, and the promise that everything is stored if it did not throw.
LEMMA NodeEnding ==
    ASSUME OutputsAssumption, NodeInv,
           nBufferSize' = nBufferSize, enabled' = enabled, nOpen' \in BOOLEAN,
           latest' = latest, nWrites' = nWrites, nCall' \in {"close", "destroy"},
           \/ nBufferSize > 0 /\ Node!FlushAllBuffers /\ nThrew' = Node!FlushAllThrows
           \/ nBufferSize = 0 /\ nThrew' = FALSE /\ nFile' = nFile /\ buffers' = buffers
    PROVE  NodeInv' /\ PromiseStep
<1>1. CASE nBufferSize > 0
  <2>1. nBufferSize # 0 /\ Node!FlushAllBuffers /\ nThrew' = Node!FlushAllThrows
    BY <1>1, NodeFacts
  <2>2. NodeInv' /\ Mixed(latest) /\ (~ Node!FlushAllThrows => nFile' = latest)
    BY <2>1, NodeFlush
  <2>3. CASE Node!FlushAllThrows
    <3>1. ~ Settled' BY <2>1, <2>3 DEF Settled
    <3>2. QED BY <2>2, <3>1, PersistStep
  <2>4. CASE ~ Node!FlushAllThrows
    <3>1. Settled' BY <2>1, <2>4 DEF Settled
    <3>2. QED BY <2>2, <2>4, <3>1, SettleStep
  <2>5. QED BY <2>3, <2>4
<1>2. CASE ~ (nBufferSize > 0)
  <2>1. nBufferSize = 0 /\ nThrew' = FALSE /\ nFile' = nFile /\ buffers' = buffers BY <1>2
  <2>2. nFile' = latest BY <2>1, NodeUnbuffered
  <2>3. nWrites' \in 0 .. MaxRecords BY NodeFacts
  <2>4. NodeInv' BY <2>1, <2>3, NodeIdle
  <2>5. Settled' BY <2>1 DEF Settled
  <2>6. QED BY <2>2, <2>4, <2>5, SettleStep
<1>3. QED BY <1>1, <1>2

LEMMA NodeClose ==
    ASSUME OutputsAssumption, NodeInv, Node!Close PROVE NodeInv' /\ PromiseStep
<1>1. /\ nBufferSize' = nBufferSize /\ enabled' = enabled /\ latest' = latest
      /\ nWrites' = nWrites /\ nCall' \in {"close", "destroy"}
      /\ \/ nBufferSize > 0 /\ Node!FlushAllBuffers /\ nThrew' = Node!FlushAllThrows
         \/ nBufferSize = 0 /\ nThrew' = FALSE /\ nFile' = nFile /\ buffers' = buffers
  BY DEF Node!Close
<1>2. nOpen' \in BOOLEAN BY DEF Node!Close
<1>3. QED BY <1>1, <1>2, NodeEnding

LEMMA NodeDestroy ==
    ASSUME OutputsAssumption, NodeInv, Node!Destroy PROVE NodeInv' /\ PromiseStep
<1>1. /\ nBufferSize' = nBufferSize /\ enabled' = enabled /\ latest' = latest
      /\ nWrites' = nWrites /\ nCall' \in {"close", "destroy"} /\ nOpen' \in BOOLEAN
      /\ \/ nBufferSize > 0 /\ Node!FlushAllBuffers /\ nThrew' = Node!FlushAllThrows
         \/ nBufferSize = 0 /\ nThrew' = FALSE /\ nFile' = nFile /\ buffers' = buffers
  BY DEF Node!Destroy
<1>2. QED BY <1>1, NodeEnding

LEMMA NodeOpen ==
    ASSUME OutputsAssumption, NodeInv, Node!Open PROVE NodeInv' /\ PromiseStep
<1>1. /\ nBufferSize' = nBufferSize /\ enabled' = enabled /\ latest' = latest
      /\ nWrites' = nWrites /\ nCall' = "open" /\ nOpen' \in BOOLEAN
      /\ nFile' = nFile /\ buffers' = buffers
  BY DEF Node!Open
<1>2. ~ Settled' BY <1>1 DEF Settled
<1>3. QED BY <1>1, <1>2, NodeIdle, NodeFacts

LEMMA NodeRefuseData ==
    ASSUME OutputsAssumption, NodeInv, Node!RefuseData PROVE NodeInv' /\ PromiseStep
<1>1. /\ nBufferSize' = nBufferSize /\ enabled' = enabled /\ latest' = latest
      /\ nWrites' = nWrites /\ nCall' = "write" /\ nOpen' = nOpen
      /\ nFile' = nFile /\ buffers' = buffers
  BY DEF Node!RefuseData
<1>2. ~ Settled' BY <1>1 DEF Settled
<1>3. QED BY <1>1, <1>2, NodeIdle, NodeFacts

LEMMA NodeUnchanged ==
    ASSUME OutputsAssumption, NodeInv, UNCHANGED node PROVE NodeInv' /\ PromiseStep
<1>1. /\ nBufferSize' = nBufferSize /\ enabled' = enabled /\ latest' = latest
      /\ nWrites' = nWrites /\ nCall' = nCall /\ nThrew' = nThrew /\ nOpen' = nOpen
      /\ nFile' = nFile /\ buffers' = buffers
  BY DEF node
<1>2. NodeInv' BY <1>1, NodeIdle, NodeFacts
<1>3. PromiseStep BY <1>1 DEF PromiseStep, Node!Store!vars
<1>4. QED BY <1>2, <1>3

-----------------------------------------------------------------------------
(* Both writers and the calls: what a call has written of a timestep before  *)
(* it gets to the row of the time series.                                    *)

CallInv ==
    /\ at \in Timesteps
    /\ pending \subseteq enabled \cup {Row}
    /\ pending # {} => \A c \in enabled : c \in pending \/ Held(latest, c, at) # 0
    /\ \A t \in Timesteps : given[t] # <<>> => \A c \in enabled : Held(latest, c, t) # 0

OutputsInv == NodeInv /\ SeriesInv /\ CallInv

LEMMA SeriesIdle ==
    ASSUME OutputsAssumption, SeriesInv,
           Series!Flush \/ Series!RefuseRow \/ Series!Close \/ Series!Open \/ Series!Destroy
           \/ UNCHANGED series
    PROVE  SeriesInv' /\ given' = given
<1>1. sOpen \in BOOLEAN /\ sWrites \in Nat BY DEF SeriesInv
<1>2. CASE Series!Flush \/ Series!Close \/ Series!Destroy
  <2>1. /\ Series!FlushBuffer /\ sBufferSize' = sBufferSize /\ sWrites' = sWrites
        /\ given' = given /\ sOpen' \in BOOLEAN
    BY <1>1, <1>2 DEF Series!Flush, Series!Close, Series!Destroy
  <2>2. QED BY <2>1, FlushBufferKeepsInv
<1>3. CASE Series!RefuseRow \/ Series!Open \/ UNCHANGED series
  <2>1. /\ sBufferSize' = sBufferSize /\ sWrites' = sWrites /\ given' = given
        /\ sFile' = sFile /\ data' = data /\ start' = start /\ numRows' = numRows
        /\ flushes' = flushes /\ sOpen' \in BOOLEAN
    BY <1>1, <1>3 DEF Series!RefuseRow, Series!Open, Series!buffer, series
  <2>2. QED BY <1>1, <2>1, SeriesUnchanged
<1>4. QED BY <1>2, <1>3

\* A row is given for one timestep.
LEMMA GivenAt ==
    ASSUME SeriesInv, NEW t \in Timesteps,
           \/ Series!WriteUnbuffered(t)
           \/ Series!WriteContiguous(t)
           \/ Series!WriteElsewhere(t)
    PROVE  \A u \in Timesteps : u # t => given'[u] = given[u]
<1>1. given \in [Timesteps -> Seq(Values)] BY DEF SeriesInv, Sound, Plain
<1>2. given' = given \/ given' = [given EXCEPT ![t] = Append(given[t], sWrites + 1)]
  BY DEF Series!WriteUnbuffered, Series!WriteContiguous, Series!WriteElsewhere, Series!Buffered
<1>3. QED BY <1>1, <1>2

\* What was accepted for a place never goes away again.
LEMMA LatestStays ==
    ASSUME OutputsAssumption, NodeInv, NEW c \in Components, NEW t \in Timesteps,
           Node!WriteUnbuffered(c, t) \/ Node!WriteBuffered(c, t)
    PROVE  /\ enabled' = enabled
           /\ \A d \in Components : \A u \in Timesteps :
                Held(latest, d, u) # 0 => Held(latest', d, u) # 0
           /\ ~ nThrew' => Held(latest', c, t) # 0
<1> DEFINE w == nWrites + 1
<1>1. /\ enabled' = enabled /\ nWrites < MaxRecords
      /\ latest' = latest \/ latest' = Put(latest, c, t, w)
      /\ ~ nThrew' => latest' = Put(latest, c, t, w)
  BY DEF Node!WriteUnbuffered, Node!WriteBuffered, Put
<1>2. latest \in Contents BY NodeFacts
<1>3. w \in 0 .. MaxRecords /\ w # 0 BY <1>1, NodeFacts DEF OutputsAssumption
<1> HIDE DEF w
<1>4. \A d \in Components : \A u \in Timesteps :
        Held(Put(latest, c, t, w), d, u) = IF d = c /\ u = t THEN w ELSE Held(latest, d, u)
  BY <1>2, <1>3, UpdatedAt
<1>5. QED BY <1>1, <1>3, <1>4

\* When the row is due, nothing else is left of the call.
LEMMA RowIsLast ==
    ASSUME OutputsAssumption, NodeInv, CallInv, Due(Row) PROVE pending = {Row}
<1> DEFINE S == Components \cup {Row}
<1>1. Order \in Seq(STRING) /\ Row \notin Components BY DEF OutputsAssumption
<1>2. /\ Len(Order) \in Nat /\ DOMAIN Order = 1 .. Len(Order)
      /\ DOMAIN Writes = 1 .. Len(Order) + 1
      /\ \A j \in 1 .. Len(Order) : Writes[j] = Order[j]
  <2>1. Len(Order) \in Nat /\ DOMAIN Order = 1 .. Len(Order)
        /\ Order = [i \in 1 .. Len(Order) |-> Order[i]]
    BY <1>1, LenProperties
  <2>2. \A i \in 1 .. Len(Order) : Order[i] \in S BY <2>1 DEF Components
  <2>3. Order \in Seq(S) BY <2>1, <2>2
  <2>4. QED BY <2>1, <2>3, AppendProperties DEF Writes
<1>3. Row \in pending BY DEF Due
<1>4. PICK i \in DOMAIN Writes : Row = Writes[i] /\ \A j \in 1 .. i - 1 : Writes[j] \notin pending
  BY DEF Due
<1>5. i = Len(Order) + 1
  <2> SUFFICES ASSUME i # Len(Order) + 1 PROVE FALSE OBVIOUS
  <2>1. i \in 1 .. Len(Order) BY <1>2
  <2>2. Row = Order[i] BY <1>2, <1>4, <2>1
  <2>3. QED BY <1>1, <1>2, <2>1, <2>2 DEF Components
<1>6. ASSUME NEW c \in pending, c # Row PROVE FALSE
  <2>1. c \in Components BY <1>6, NodeFacts DEF CallInv
  <2>2. PICK j \in 1 .. Len(Order) : c = Order[j] BY <1>2, <2>1 DEF Components
  <2>3. j \in 1 .. i - 1 BY <1>2, <1>5
  <2>4. QED BY <1>2, <1>4, <2>2, <2>3
<1>7. QED BY <1>3, <1>6

LEMMA InitOutputs ==
    ASSUME OutputsAssumption, Init PROVE OutputsInv /\ Node!Store!Init
<1>1. 0 \in Timesteps /\ MaxRecords \in Nat BY DEF OutputsAssumption, Timesteps
<1>2. /\ nFile = [p \in Node!Places |-> 0] /\ latest = [p \in Node!Places |-> 0]
      /\ nOpen = TRUE /\ enabled \in SUBSET Components /\ nWrites = 0 /\ nCall = "create"
      /\ buffers = [c \in Components |-> <<>>] /\ nBufferSize \in {sizes[1] : sizes \in BufferSizes}
  BY NodePlaces DEF Init, Node!Init, Node!Missing
<1>3. /\ sOpen = TRUE /\ sWrites = 0 /\ sBufferSize \in {sizes[2] : sizes \in BufferSizes}
      /\ sFile = [t \in Timesteps |-> 0] /\ data = <<>> /\ start = 0 /\ numRows = 0
      /\ given = [t \in Timesteps |-> <<>>] /\ flushes = 0
  BY DEF Init, Series!Init, Series!Rows, Timesteps, Series!Missing
<1>4. nBufferSize \in Nat /\ sBufferSize \in Nat
  <2>1. \A sizes \in BufferSizes : sizes[1] \in Nat /\ sizes[2] \in Nat
    BY DEF OutputsAssumption
  <2>2. QED BY <1>2, <1>3, <2>1
<1>5. NodeInv
  <2>1. nFile \in Contents /\ latest \in Contents BY <1>1, <1>2 DEF Contents
  <2>2. buffers \in [Components -> Seq(Records)] /\ \A c \in Components : buffers[c] = <<>>
    BY <1>2
  <2>3. nFile = latest BY <1>2
  <2>4. \A c \in Components : \A t \in Timesteps :
          Final(nFile, c, buffers[c], t) = Held(latest, c, t)
    BY <2>2, <2>3, NoRecords
  <2>5. NodeTypeOK BY <1>1, <1>2, <1>4, <2>1, <2>2 DEF NodeTypeOK
  <2>6. QED BY <2>2, <2>4, <2>5 DEF NodeInv
<1>6. SeriesInv
  <2>1. \A t \in Timesteps : t \in Nat BY DEF Timesteps
  <2>2. \A t \in Timesteps : t \notin Batch(0, 0) BY <2>1 DEF Batch
  <2>3. <<>> \in Seq(Values) /\ Len(<<>>) = 0 OBVIOUS
  <2>4. sFile \in [Timesteps -> Nat] /\ given \in [Timesteps -> Seq(Values)]
        /\ \A t \in Timesteps : sFile[t] = 0 /\ given[t] = <<>>
    BY <1>3, <2>3
  <2>5. Plain(sFile, given) BY <2>4 DEF Plain
  <2>6. \A t \in Timesteps : Waits(sFile, data, 0, 0, given, t) BY <2>2, <2>4 DEF Waits
  <2>7. 0 + 0 - 1 <= MaxStep BY DEF OutputsAssumption
  <2>8. Sound(sFile, <<>>, 0, 0, given, 0) BY <1>1, <1>3, <2>3, <2>4, <2>6, <2>7 DEF Sound
  <2>9. QED BY <1>1, <1>3, <1>4, <2>5, <2>8 DEF SeriesInv
<1>7. CallInv BY <1>1, <1>3 DEF Init, CallInv
<1>8. Node!Store!Init BY <1>2 DEF Node!Store!Init, Node!Missing
<1>9. QED BY <1>5, <1>6, <1>7, <1>8 DEF OutputsInv

-----------------------------------------------------------------------------
(* The calls.                                                                *)

\* A call of the node-state writer that only opens, closes or refuses.
LEMMA NodeKeeps ==
    ASSUME Node!Close \/ Node!Open \/ Node!Destroy \/ Node!RefuseData
    PROVE  latest' = latest /\ enabled' = enabled
BY DEF Node!Close, Node!Open, Node!Destroy, Node!RefuseData

\* A step that accepts nothing and gives no row.
LEMMA CallIdle ==
    ASSUME CallInv, latest' = latest, enabled' = enabled, given' = given,
           pending' = pending, at' = at
    PROVE  CallInv'
BY DEF CallInv, Held

LEMMA WriteOutputStep ==
    ASSUME OutputsAssumption, OutputsInv, NEW t \in Timesteps, WriteOutput(t)
    PROVE  OutputsInv' /\ PromiseStep
<1>1. UNCHANGED node /\ UNCHANGED series /\ at' = t BY DEF WriteOutput
<1>2. NodeInv' /\ PromiseStep BY <1>1, NodeUnchanged DEF OutputsInv
<1>3. SeriesInv' /\ given' = given BY <1>1, SeriesIdle DEF OutputsInv
<1>4. latest' = latest /\ enabled' = enabled BY <1>1 DEF node
<1>5. enabled \subseteq Components BY NodeFacts DEF OutputsInv
<1>6. pending' \subseteq enabled \cup {Row} /\ enabled \subseteq pending'
  BY <1>5 DEF WriteOutput, IsStateComponentEnabled
<1>7. \A u \in Timesteps : given[u] # <<>> => \A c \in enabled : Held(latest, c, u) # 0
  BY DEF OutputsInv, CallInv
<1>8. CallInv' BY <1>1, <1>3, <1>4, <1>6, <1>7 DEF CallInv, Held
<1>9. QED BY <1>2, <1>3, <1>8 DEF OutputsInv

LEMMA WriteComponentStep ==
    ASSUME OutputsAssumption, OutputsInv, NEW c \in Components, WriteComponent(c)
    PROVE  OutputsInv' /\ PromiseStep
<1>1. /\ Node!WriteUnbuffered(c, at) \/ Node!WriteBuffered(c, at)
      /\ UNCHANGED series /\ at' = at /\ c \in pending
      /\ pending' = AfterWrite(c)
  BY DEF WriteComponent, Due
<1>2. at \in Timesteps BY DEF OutputsInv, CallInv
<1>3. NodeInv' /\ PromiseStep
  BY <1>1, <1>2, NodeWriteUnbuffered, NodeWriteBuffered DEF OutputsInv
<1>4. SeriesInv' /\ given' = given BY <1>1, SeriesIdle DEF OutputsInv
<1>5. /\ enabled' = enabled
      /\ \A d \in Components : \A u \in Timesteps :
           Held(latest, d, u) # 0 => Held(latest', d, u) # 0
      /\ ~ nThrew' => Held(latest', c, at) # 0
  BY <1>1, <1>2, LatestStays DEF OutputsInv
<1>6. enabled \subseteq Components BY NodeFacts DEF OutputsInv
<1>7. pending' \subseteq enabled \cup {Row}
  BY <1>1 DEF AfterWrite, OutputsInv, CallInv
<1>8. ASSUME pending' # {}, NEW d \in enabled
      PROVE  d \in pending' \/ Held(latest', d, at) # 0
  <2>1. pending' = pending \ {c} /\ ~ nThrew' BY <1>1, <1>8 DEF AfterWrite
  <2>2. d \in pending \/ Held(latest, d, at) # 0 BY <1>1 DEF OutputsInv, CallInv
  <2>3. QED BY <1>2, <1>5, <1>6, <2>1, <2>2
<1>9. ASSUME NEW u \in Timesteps, given[u] # <<>>, NEW d \in enabled
      PROVE  Held(latest', d, u) # 0
  <2>1. Held(latest, d, u) # 0 BY <1>9 DEF OutputsInv, CallInv
  <2>2. QED BY <1>5, <1>6, <2>1
<1>10. CallInv' BY <1>1, <1>2, <1>4, <1>5, <1>7, <1>8, <1>9 DEF CallInv, Held
<1>11. QED BY <1>3, <1>4, <1>10 DEF OutputsInv

LEMMA WriteRowStep ==
    ASSUME OutputsAssumption, OutputsInv, WriteTimeSeriesRowAtTimestep
    PROVE  OutputsInv' /\ PromiseStep
<1>1. /\ Due(Row) /\ UNCHANGED node /\ at' = at /\ pending' = {}
      /\ Series!WriteUnbuffered(at) \/ Series!WriteContiguous(at) \/ Series!WriteElsewhere(at)
  BY DEF WriteTimeSeriesRowAtTimestep
<1>2. at \in Timesteps BY DEF OutputsInv, CallInv
<1>3. NodeInv' /\ PromiseStep BY <1>1, NodeUnchanged DEF OutputsInv
<1>4. SeriesInv' /\ \A u \in Timesteps : u # at => given'[u] = given[u]
  BY <1>1, <1>2, SeriesWriteKeepsInv, GivenAt DEF OutputsInv
<1>5. latest' = latest /\ enabled' = enabled BY <1>1 DEF node
<1>6. pending = {Row} BY <1>1, RowIsLast DEF OutputsInv
<1>7. enabled \subseteq Components /\ Row \notin Components
  BY NodeFacts DEF OutputsInv, OutputsAssumption
<1>8. \A c \in enabled : Held(latest, c, at) # 0 BY <1>6, <1>7 DEF OutputsInv, CallInv
<1>9. ASSUME NEW u \in Timesteps, given'[u] # <<>>, NEW c \in enabled
      PROVE  Held(latest, c, u) # 0
  BY <1>4, <1>8, <1>9 DEF OutputsInv, CallInv
<1>10. CallInv' BY <1>1, <1>2, <1>5, <1>9 DEF CallInv, Held
<1>11. QED BY <1>3, <1>4, <1>10 DEF OutputsInv

LEMMA OtherCallStep ==
    ASSUME OutputsAssumption, OutputsInv, Close \/ Open \/ Destroy \/ UNCHANGED vars
    PROVE  OutputsInv' /\ PromiseStep
<1>1. \/ Node!Close \/ Node!Open \/ Node!Destroy
      \/ UNCHANGED node
  BY DEF Close, Open, Destroy, vars
<1>2. NodeInv' /\ PromiseStep
  BY <1>1, NodeClose, NodeOpen, NodeDestroy, NodeUnchanged DEF OutputsInv
<1>3. latest' = latest /\ enabled' = enabled BY <1>1, NodeKeeps DEF node
<1>4. Series!Close \/ Series!Open \/ Series!Destroy \/ UNCHANGED series
  BY DEF Close, Open, Destroy, vars
<1>5. SeriesInv' /\ given' = given BY <1>4, SeriesIdle DEF OutputsInv
<1>6. pending' = pending /\ at' = at BY DEF Close, Open, Destroy, vars
<1>7. CallInv' BY <1>3, <1>5, <1>6, CallIdle DEF OutputsInv
<1>8. QED BY <1>2, <1>5, <1>7 DEF OutputsInv

LEMMA UseOutputWriterStep ==
    ASSUME OutputsAssumption, OutputsInv, UseOutputWriter
    PROVE  OutputsInv' /\ PromiseStep
<1>1. UNCHANGED series /\ pending' = pending /\ at' = at /\ pending = {}
  BY DEF UseOutputWriter, BetweenCalls
<1>2. SeriesInv' /\ given' = given BY <1>1, SeriesIdle DEF OutputsInv
<1>3. CASE Node!RefuseData
  <2>1. NodeInv' /\ PromiseStep BY <1>3, NodeRefuseData DEF OutputsInv
  <2>2. CallInv' BY <1>1, <1>2, <1>3, NodeKeeps, CallIdle DEF OutputsInv
  <2>3. QED BY <1>2, <2>1, <2>2 DEF OutputsInv
<1>4. ASSUME NEW c \in Components, NEW t \in Timesteps,
             Node!WriteUnbuffered(c, t) \/ Node!WriteBuffered(c, t)
      PROVE  OutputsInv' /\ PromiseStep
  <2>1. NodeInv' /\ PromiseStep
    BY <1>4, NodeWriteUnbuffered, NodeWriteBuffered DEF OutputsInv
  <2>2. /\ enabled' = enabled
        /\ \A d \in Components : \A u \in Timesteps :
             Held(latest, d, u) # 0 => Held(latest', d, u) # 0
    BY <1>4, LatestStays DEF OutputsInv
  <2>3. enabled \subseteq Components BY NodeFacts DEF OutputsInv
  <2>4. \A u \in Timesteps : given[u] # <<>> => \A d \in enabled : Held(latest', d, u) # 0
    BY <2>2, <2>3 DEF OutputsInv, CallInv
  <2>5. CallInv' BY <1>1, <1>2, <2>2, <2>4 DEF CallInv, OutputsInv, Held
  <2>6. QED BY <1>2, <2>1, <2>5 DEF OutputsInv
<1>5. QED BY <1>3, <1>4 DEF UseOutputWriter

LEMMA UseTimeSeriesWriterStep ==
    ASSUME OutputsAssumption, OutputsInv, UseTimeSeriesWriter
    PROVE  OutputsInv' /\ PromiseStep
<1>1. /\ UNCHANGED node /\ pending' = pending /\ at' = at
      /\ Series!Flush \/ Series!RefuseRow
  BY DEF UseTimeSeriesWriter
<1>2. NodeInv' /\ PromiseStep BY <1>1, NodeUnchanged DEF OutputsInv
<1>3. SeriesInv' /\ given' = given BY <1>1, SeriesIdle DEF OutputsInv
<1>4. latest' = latest /\ enabled' = enabled BY <1>1 DEF node
<1>5. CallInv' BY <1>1, <1>3, <1>4, CallIdle DEF OutputsInv
<1>6. QED BY <1>2, <1>3, <1>5 DEF OutputsInv

LEMMA OutputsStep ==
    ASSUME OutputsAssumption, OutputsInv, [Next]_vars
    PROVE  OutputsInv' /\ PromiseStep
<1>1. CASE \E t \in Timesteps : WriteOutput(t) BY <1>1, WriteOutputStep
<1>2. CASE \E c \in Components : WriteComponent(c) BY <1>2, WriteComponentStep
<1>3. CASE WriteTimeSeriesRowAtTimestep BY <1>3, WriteRowStep
<1>4. CASE Close \/ Open \/ Destroy \/ UNCHANGED vars BY <1>4, OtherCallStep
<1>5. CASE UseOutputWriter BY <1>5, UseOutputWriterStep
<1>6. CASE UseTimeSeriesWriter BY <1>6, UseTimeSeriesWriterStep
<1>7. QED BY <1>1, <1>2, <1>3, <1>4, <1>5, <1>6 DEF Next

-----------------------------------------------------------------------------
(* The theorems. *)

(* Through every order of calls, the file and the buffer of each writer    *)
(* account for what it accepted, and a row is given only for a timestep    *)
(* whose enabled components were all accepted (WriteOutput, Open, Close,   *)
(* the destructor, and direct use of both writers).                        *)
THEOREM OutputsAccountForTheirData == Spec => []OutputsInv
<1>1. Init => OutputsInv BY OutputsAssumption, InitOutputs
<1>2. OutputsInv /\ [Next]_vars => OutputsInv' BY OutputsAssumption, OutputsStep
<1>3. QED BY <1>1, <1>2, PTL DEF Spec

LEMMA BatchIsBuffered == Batch(start, numRows) = Series!BufferedRows
BY DEF Batch, Series!BufferedRows

LEMMA InvKeepsRows == ASSUME OutputsAssumption, OutputsInv PROVE AcceptedRowsAreKept
<1>1. SeriesInv BY DEF OutputsInv
<1>2. ASSUME NEW t \in Timesteps, given[t] # <<>>
      PROVE  sFile[t] # 0 \/ t \in Series!BufferedRows
  <2>1. CASE sBufferSize = 0
    <3>1. /\ sFile[t] = given[t][Len(given[t])] /\ given[t] \in Seq(Values)
      BY <1>1, <1>2, <2>1 DEF SeriesInv, Plain
    <3>2. Len(given[t]) \in DOMAIN given[t] BY <1>2, <3>1
    <3>3. given[t][Len(given[t])] \in Values BY <3>1, <3>2
    <3>4. QED BY <3>1, <3>3 DEF Values
  <2>2. CASE sBufferSize # 0
    BY <1>1, <1>2, <2>2, BatchIsBuffered DEF SeriesInv, Sound
  <2>3. QED BY <2>1, <2>2
<1>3. QED BY <1>2 DEF AcceptedRowsAreKept, Series!AcceptedRowsAreKept, Series!Rows,
                      Series!Missing, Timesteps

LEMMA InvIsFaithful == ASSUME OutputsAssumption, OutputsInv PROVE FirstBatchIsFaithful
<1>1. SeriesInv BY DEF OutputsInv
<1>2. ASSUME sBufferSize = 0 \/ flushes <= 1, NEW t \in Timesteps
      PROVE  /\ sFile[t] = 0 \/ \E i \in DOMAIN given[t] : given[t][i] = sFile[t]
             /\ sFile[t] # 0 /\ t \notin Batch(start, numRows) =>
                  sFile[t] = given[t][Len(given[t])]
  <2>1. given[t] \in Seq(Values) BY <1>1 DEF SeriesInv, Sound, Plain
  <2>2. given[t] # <<>> => 1 \in DOMAIN given[t] /\ Len(given[t]) \in DOMAIN given[t]
    BY <2>1
  <2>3. CASE sBufferSize = 0
    <3>1. /\ given[t] = <<>> => sFile[t] = 0
          /\ given[t] # <<>> => sFile[t] = given[t][Len(given[t])]
      BY <1>1, <2>3 DEF SeriesInv, Plain
    <3>2. QED BY <2>2, <3>1
  <2>4. CASE sBufferSize # 0 /\ flushes <= 1
    <3>1. Sound(sFile, data, start, numRows, given, flushes)
      BY <1>1, <2>4 DEF SeriesInv
    <3>2. flushes \in Nat BY <3>1 DEF Sound
    <3>3. CASE flushes = 0
      <4>1. Waits(sFile, data, start, numRows, given, t) BY <3>1, <3>3 DEF Sound
      <4>2. QED BY <4>1 DEF Waits
    <3>4. CASE flushes = 1
      <4>1. OfFirstBatch(sFile, start, numRows, given, t) BY <3>1, <3>4 DEF Sound
      <4>2. QED BY <2>2, <4>1 DEF OfFirstBatch
    <3>5. QED BY <2>4, <3>2, <3>3, <3>4
  <2>5. QED BY <1>2, <2>3, <2>4
<1>3. QED
  BY <1>2, BatchIsBuffered DEF FirstBatchIsFaithful, Series!FirstBatchIsFaithful,
     Series!Rows, Series!Missing, Series!Unbuffered, Timesteps

LEMMA InvLinksFiles == ASSUME OutputsInv PROVE RowsFollowNodeOutputs
BY DEF OutputsInv, CallInv, RowsFollowNodeOutputs, Held, Node!Missing

(* No row of the time series is lost while the program lives, whatever     *)
(* flush fails and whatever batch is cut short (WriteRowAtTimestep,        *)
(* FlushBuffer, Close and the destructor of time_series_writer.cpp).       *)
THEOREM NoRowIsLost == Spec => []AcceptedRowsAreKept
<1>1. OutputsInv => AcceptedRowsAreKept BY OutputsAssumption, InvKeepsRows
<1>2. QED BY <1>1, OutputsAccountForTheirData, PTL

(* The time series is faithful without a buffer and through its first      *)
(* batch: each row of the file holds the last value given for it, or that  *)
(* value waits in the buffer (FlushBuffer, which keeps the old data).      *)
THEOREM FirstBatchStaysFaithful == Spec => []FirstBatchIsFaithful
<1>1. OutputsInv => FirstBatchIsFaithful BY OutputsAssumption, InvIsFaithful
<1>2. QED BY <1>1, OutputsAccountForTheirData, PTL

(* The two files agree: a row of the time series implies that every        *)
(* enabled component of the nodal state was accepted for its timestep      *)
(* (WriteOutput, whose first write that throws ends the call).             *)
THEOREM FilesAgree == Spec => []RowsFollowNodeOutputs
<1>1. OutputsInv => RowsFollowNodeOutputs BY InvLinksFiles
<1>2. QED BY <1>1, OutputsAccountForTheirData, PTL

(* The node-state writer implements an output store while Outputs drives   *)
(* it: each step of either file, of a call cut short, of a flush that      *)
(* fails half way and of a destructor is a step of the store or none.      *)
THEOREM NodeOutputsKeepTheirPromise == Spec => KeepsOutputPromise
<1>1. Init => OutputsInv /\ Node!Store!Init BY OutputsAssumption, InitOutputs
<1>2. OutputsInv /\ [Next]_vars => OutputsInv' /\ [Node!Store!Next]_(Node!Store!vars)
  BY OutputsAssumption, OutputsStep DEF PromiseStep
<1>3. QED BY <1>1, <1>2, PTL DEF Spec, KeepsOutputPromise, Node!KeepsOutputPromise, Node!Store!Spec
=============================================================================
