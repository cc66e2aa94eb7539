-------------------------- MODULE ByteRangesProofs --------------------------
(***************************************************************************)
(* What merge_range returns and how take_batch cuts its claim, for files   *)
(* and chunks of every size.                                               *)
(***************************************************************************)
EXTENDS RangeList, SequenceTheorems, FiniteSetTheorems, WellFoundedInduction, TLAPS

\* The offsets of a file are finitely many.
LEMMA BytesFinite == IsFiniteSet(Bytes)
BY FS_Interval, RangeAssumption DEF Bytes

\* The offsets are natural numbers below the file's size.
LEMMA BytesNat == Bytes \subseteq Nat /\ \A b \in Bytes : b < FileSize
BY RangeAssumption DEF Bytes

\* A range [s, e) has e - s bytes.
LEMMA IntervalCardinality ==
  ASSUME NEW s \in Bytes, NEW e \in 1 .. FileSize, s < e
  PROVE  /\ IsFiniteSet(Interval(s, e))
         /\ Cardinality(Interval(s, e)) = e - s
<1>1. Interval(s, e) = s .. (e - 1)
  BY RangeAssumption DEF Interval, Bytes
<1>2. s \in Int /\ (e - 1) \in Int
  BY RangeAssumption DEF Bytes
<1> QED
  BY <1>1, <1>2, FS_Interval, RangeAssumption DEF Bytes

\* merge_range never returns less than the bytes it newly covers, and its
\* subtraction never underflows.
LEMMA MergeNotUnderstated ==
  ASSUME NEW D \in SUBSET Bytes, NEW s \in Bytes, NEW e \in 1 .. FileSize, s < e
  PROVE  /\ merge_range(D, s, e) \in Nat
         /\ Cardinality(D \cup Interval(s, e)) <= Cardinality(D) + merge_range(D, s, e)
<1> DEFINE I == Interval(s, e)
           M == MergedRange(D, s, e)
<1>1. IsFiniteSet(D) /\ IsFiniteSet(I) /\ IsFiniteSet(D \cap I) /\ IsFiniteSet(M)
  <2>1. I \subseteq Bytes /\ M \subseteq Bytes
    BY DEF Interval, MergedRange
  <2> QED
    BY <2>1, BytesFinite, FS_Subset, FS_Intersection
<1>2. I \subseteq M
  BY RangeAssumption DEF Interval, MergedRange, Bytes
<1>3. /\ Cardinality(I) <= Cardinality(M)
      /\ Cardinality(D \cap I) <= Cardinality(I)
  BY <1>1, <1>2, FS_Subset, FS_Intersection
<1>4. /\ Cardinality(D) \in Nat
      /\ Cardinality(I) \in Nat
      /\ Cardinality(M) \in Nat
      /\ Cardinality(D \cap I) \in Nat
  BY <1>1, FS_CardinalityType
<1>5. Cardinality(D \cup I) = Cardinality(D) + Cardinality(I) - Cardinality(D \cap I)
  BY <1>1, FS_Union
<1>6. merge_range(D, s, e) = Cardinality(M) - Cardinality(D \cap I)
  BY DEF merge_range
<1> HIDE DEF I, M
<1> QED
  BY <1>3, <1>4, <1>5, <1>6 DEF I

\* Two different chunks of one claim share no byte.
LEMMA ChunksDisjoint ==
  ASSUME NEW S \in SUBSET Bytes, NEW c \in Chunks(S), NEW d \in Chunks(S),
         NEW b \in Interval(c[1], c[2]), b \in Interval(d[1], d[2])
  PROVE  c = d
<1>1. PICK r \in Bytes, k \in 0 .. FileSize :
        /\ Interval(r, c[1] + 1) \subseteq S
        /\ r = 0 \/ (r - 1) \notin S
        /\ c[1] = r + k * CHUNK_MAX
  BY DEF Chunks
<1>2. PICK t \in Bytes, l \in 0 .. FileSize :
        /\ Interval(t, d[1] + 1) \subseteq S
        /\ t = 0 \/ (t - 1) \notin S
        /\ d[1] = t + l * CHUNK_MAX
  BY DEF Chunks
<1>3. /\ c[1] \in Nat /\ c[2] \in Nat /\ d[1] \in Nat /\ d[2] \in Nat
      /\ c = <<c[1], c[2]>> /\ d = <<d[1], d[2]>>
      /\ c[2] <= FileSize /\ d[2] <= FileSize
  BY RangeAssumption DEF Chunks, ByteRange, Bytes
<1>4. /\ Interval(c[1], c[2]) \subseteq S
      /\ Interval(d[1], d[2]) \subseteq S
      /\ c[2] = c[1] + CHUNK_MAX \/ (c[2] < c[1] + CHUNK_MAX /\ c[2] \notin S)
      /\ d[2] = d[1] + CHUNK_MAX \/ (d[2] < d[1] + CHUNK_MAX /\ d[2] \notin S)
  BY DEF Chunks
<1>5. /\ b \in Nat /\ b < FileSize
      /\ c[1] <= b /\ b < c[2] /\ d[1] <= b /\ b < d[2]
  BY RangeAssumption DEF Interval, Bytes
<1>6. r \in Nat /\ t \in Nat /\ k \in Nat /\ l \in Nat /\ CHUNK_MAX \in Nat /\ CHUNK_MAX > 0
  BY RangeAssumption DEF Bytes
<1>7. r <= c[1] /\ t <= d[1]
  <2>1. k * CHUNK_MAX \in Nat /\ l * CHUNK_MAX \in Nat
    BY <1>6
  <2> QED
    BY <2>1, <1>1, <1>2, <1>3, <1>6
<1>8. \A x \in Nat : r <= x /\ x <= b => x \in S
  <2> TAKE x \in Nat
  <2>1. HAVE r <= x /\ x <= b
  <2>2. x \in Bytes
    BY <2>1, <1>5, RangeAssumption DEF Bytes
  <2>3. CASE x <= c[1]
    BY <2>1, <2>2, <2>3, <1>1, <1>3 DEF Interval
  <2>4. CASE x > c[1]
    BY <2>1, <2>2, <2>4, <1>4, <1>5, <1>3 DEF Interval
  <2> QED
    BY <2>3, <2>4, <1>3
<1>9. \A x \in Nat : t <= x /\ x <= b => x \in S
  <2> TAKE x \in Nat
  <2>1. HAVE t <= x /\ x <= b
  <2>2. x \in Bytes
    BY <2>1, <1>5, RangeAssumption DEF Bytes
  <2>3. CASE x <= d[1]
    BY <2>1, <2>2, <2>3, <1>2, <1>3 DEF Interval
  <2>4. CASE x > d[1]
    BY <2>1, <2>2, <2>4, <1>4, <1>5, <1>3 DEF Interval
  <2> QED
    BY <2>3, <2>4, <1>3
<1>10. r = t
  <2>1. ~(r < t)
    <3> SUFFICES ASSUME r < t PROVE FALSE
      OBVIOUS
    <3>1. (t - 1) \in Nat /\ r <= t - 1 /\ t - 1 <= b
      BY <1>5, <1>6, <1>7, <1>3
    <3> QED
      BY <3>1, <1>8, <1>2, <1>6
  <2>2. ~(t < r)
    <3> SUFFICES ASSUME t < r PROVE FALSE
      OBVIOUS
    <3>1. (r - 1) \in Nat /\ t <= r - 1 /\ r - 1 <= b
      BY <1>5, <1>6, <1>7, <1>3
    <3> QED
      BY <3>1, <1>9, <1>1, <1>6
  <2> QED
    BY <2>1, <2>2, <1>6
<1>11. k = l
  <2>1. ASSUME NEW m \in Nat, NEW n \in Nat, m < n
        PROVE  n * CHUNK_MAX >= m * CHUNK_MAX + CHUNK_MAX
    <3>1. PICK j \in Nat : n = m + 1 + j
      <4>1. (n - m - 1) \in Nat /\ n = m + 1 + (n - m - 1)
        BY <2>1
      <4> QED
        BY <4>1
    <3>2. n * CHUNK_MAX = m * CHUNK_MAX + CHUNK_MAX + j * CHUNK_MAX
      BY <3>1, <1>6
    <3>3. j * CHUNK_MAX \in Nat /\ m * CHUNK_MAX \in Nat
      BY <1>6
    <3> QED
      BY <3>2, <3>3, <1>6
  <2>2. k * CHUNK_MAX \in Nat /\ l * CHUNK_MAX \in Nat
    BY <1>6
  <2>3. c[2] <= c[1] + CHUNK_MAX /\ d[2] <= d[1] + CHUNK_MAX
    BY <1>3, <1>4, <1>6
  <2>4. ~(k < l)
    <3>1. k < l => l * CHUNK_MAX >= k * CHUNK_MAX + CHUNK_MAX
      BY <2>1, <1>6
    <3> QED
      BY <3>1, <2>2, <2>3, <1>1, <1>2, <1>3, <1>5, <1>6, <1>10
  <2>5. ~(l < k)
    <3>1. l < k => k * CHUNK_MAX >= l * CHUNK_MAX + CHUNK_MAX
      BY <2>1, <1>6
    <3> QED
      BY <3>1, <2>2, <2>3, <1>1, <1>2, <1>3, <1>5, <1>6, <1>10
  <2> QED
    BY <2>4, <2>5, <1>6
<1>12. c[1] = d[1]
  BY <1>1, <1>2, <1>10, <1>11
<1>13. c[2] = d[2]
  <2>1. ~(c[2] < d[2])
    <3> SUFFICES ASSUME c[2] < d[2] PROVE FALSE
      OBVIOUS
    <3>1. c[2] \in Interval(d[1], d[2])
      BY <1>3, <1>5, <1>12, RangeAssumption DEF Interval, Bytes
    <3> QED
      BY <3>1, <1>3, <1>4, <1>6, <1>12
  <2>2. ~(d[2] < c[2])
    <3> SUFFICES ASSUME d[2] < c[2] PROVE FALSE
      OBVIOUS
    <3>1. d[2] \in Interval(c[1], c[2])
      BY <1>3, <1>5, <1>12, RangeAssumption DEF Interval, Bytes
    <3> QED
      BY <3>1, <1>3, <1>4, <1>6, <1>12
  <2> QED
    BY <2>1, <2>2, <1>3
<1> QED
  BY <1>3, <1>12, <1>13

\* A nonempty set of naturals has a least element.
LEMMA NatLeast ==
  ASSUME NEW T \in SUBSET Nat, T # {}
  PROVE  \E x \in T : \A y \in T : x <= y
<1> DEFINE R == {ss \in Nat \X Nat : ss[1] < ss[2]}
<1>1. OpToRel(<, Nat) = R
  BY Zenon DEF OpToRel
<1>2. IsWellFoundedOn(R, Nat)
  BY <1>1, NatLessThanWellFounded, Zenon
<1>3. PICK x \in T : \A y \in T : <<y, x>> \notin R
  <2> HIDE DEF R
  <2> QED
    BY <1>2, WFMin
<1>4. ASSUME NEW y \in T PROVE x <= y
  <2>1. <<y, x>> \notin R
    BY <1>3
  <2>2. x \in Nat /\ y \in Nat
    OBVIOUS
  <2>3. ~(y < x)
    BY <2>1, <2>2
  <2> QED
    BY <2>2, <2>3
<1> QED
  BY <1>4

\* The chunks of a claim cover it: no claimed byte is left out of the sends.
LEMMA ChunksCover ==
  ASSUME NEW S \in SUBSET Bytes, NEW b \in S
  PROVE  \E c \in Chunks(S) : b \in Interval(c[1], c[2])
<1>1. b \in Nat /\ b < FileSize /\ CHUNK_MAX \in Nat /\ CHUNK_MAX > 0 /\ FileSize \in Nat
  BY RangeAssumption DEF Bytes
<1>2. PICK r \in Nat :
        /\ r <= b
        /\ \A x \in Nat : r <= x /\ x <= b => x \in S
        /\ r = 0 \/ (r - 1) \notin S
  <2> DEFINE R == {r \in Nat : r <= b /\ \A x \in Nat : r <= x /\ x <= b => x \in S}
  <2>1. b \in R
    BY <1>1
  <2>2. PICK r \in R : \A y \in R : r <= y
    BY <2>1, NatLeast
  <2>3. r = 0 \/ (r - 1) \notin S
    <3> SUFFICES ASSUME r # 0, (r - 1) \in S PROVE FALSE
      OBVIOUS
    <3>1. (r - 1) \in Nat /\ r \in Nat
      BY <2>2
    <3>2. \A x \in Nat : r - 1 <= x /\ x <= b => x = r - 1 \/ (r <= x /\ x <= b)
      BY <3>1
    <3>3. (r - 1) \in R
      BY <3>1, <3>2, <2>2, <1>1
    <3> QED
      BY <3>1, <3>3, <2>2
  <2> QED
    BY <2>2, <2>3
<1>3. PICK k \in Nat, j \in Nat : b = r + k * CHUNK_MAX + j /\ j < CHUNK_MAX
  <2> DEFINE J == {j \in Nat : \E k \in Nat : b = r + k * CHUNK_MAX + j}
  <2>1. (b - r) \in J
    <3>1. (b - r) \in Nat /\ b = r + 0 * CHUNK_MAX + (b - r)
      BY <1>1, <1>2
    <3> QED
      BY <3>1
  <2>2. PICK j \in J : \A i \in J : j <= i
    BY <2>1, NatLeast
  <2>3. PICK k \in Nat : b = r + k * CHUNK_MAX + j
    BY <2>2
  <2>4. j < CHUNK_MAX
    <3> SUFFICES ASSUME j >= CHUNK_MAX PROVE FALSE
      BY <1>1, <2>2
    <3>1. (j - CHUNK_MAX) \in Nat /\ j \in Nat
      BY <1>1, <2>2
    <3>2. (k + 1) * CHUNK_MAX = k * CHUNK_MAX + CHUNK_MAX /\ k * CHUNK_MAX \in Nat
      BY <1>1
    <3>3. b = r + (k + 1) * CHUNK_MAX + (j - CHUNK_MAX)
      BY <3>1, <3>2, <2>3, <1>1
    <3>4. (j - CHUNK_MAX) \in J
      BY <3>1, <3>3
    <3> QED
      BY <3>1, <3>4, <2>2, <1>1
  <2> QED
    BY <2>2, <2>3, <2>4
<1> DEFINE s == r + k * CHUNK_MAX
<1>4. s \in Nat /\ r <= s /\ s <= b /\ b < s + CHUNK_MAX /\ k <= FileSize
  <2>1. k * CHUNK_MAX \in Nat /\ k <= k * CHUNK_MAX
    BY <1>1
  <2> QED
    BY <2>1, <1>1, <1>2, <1>3
<1> HIDE DEF s
<1>5. PICK e \in Nat :
        /\ s < e
        /\ e = s + CHUNK_MAX \/ e \notin S
        /\ \A x \in Nat : s < x /\ (x = s + CHUNK_MAX \/ x \notin S) => e <= x
  <2> DEFINE E == {x \in Nat : s < x /\ (x = s + CHUNK_MAX \/ x \notin S)}
  <2>1. (s + CHUNK_MAX) \in E
    BY <1>1, <1>4
  <2>2. PICK e \in E : \A x \in E : e <= x
    BY <2>1, NatLeast
  <2> QED
    BY <2>2
<1>6. e <= s + CHUNK_MAX /\ b < e
  <2>1. e <= s + CHUNK_MAX
    BY <1>1, <1>4, <1>5
  <2>2. b < e
    BY <1>1, <1>2, <1>4, <1>5
  <2> QED
    BY <2>1, <2>2
<1>7. \A x \in Nat : s <= x /\ x < e => x \in S
  <2> TAKE x \in Nat
  <2>1. HAVE s <= x /\ x < e
  <2>2. CASE x = s
    BY <2>2, <1>2, <1>4
  <2>3. CASE s < x
    BY <2>1, <2>3, <1>5
  <2> QED
    BY <2>1, <2>2, <2>3, <1>4
<1>8. e <= FileSize
  <2>1. (e - 1) \in Nat /\ s <= e - 1 /\ e - 1 < e
    BY <1>4, <1>5
  <2>2. (e - 1) \in S
    BY <2>1, <1>7
  <2> QED
    BY <2>1, <2>2, <1>1, <1>5, BytesNat
<1>9. <<s, e>> \in ByteRange
  BY <1>1, <1>4, <1>5, <1>8 DEF ByteRange, Bytes
<1>10. Interval(s, e) \subseteq S
  BY <1>7, BytesNat DEF Interval
<1>11. /\ Interval(r, s + 1) \subseteq S
       /\ r \in Bytes
  <2>1. \A x \in Nat : r <= x /\ x < s + 1 => x \in S
    BY <1>1, <1>2, <1>4
  <2> QED
    BY <2>1, <1>1, <1>2, BytesNat DEF Interval, Bytes
<1>12. <<s, e>> \in Chunks(S)
  <2> DEFINE c == <<s, e>>
  <2>1. c[1] = s /\ c[2] = e
    OBVIOUS
  <2>2. \E t \in Bytes, l \in 0 .. FileSize :
          /\ Interval(t, c[1] + 1) \subseteq S
          /\ t = 0 \/ (t - 1) \notin S
          /\ c[1] = t + l * CHUNK_MAX
    <3>1. k \in 0 .. FileSize
      BY <1>1, <1>4
    <3>2. s = r + k * CHUNK_MAX
      BY DEF s
    <3> HIDE DEF c
    <3> QED
      BY <3>1, <3>2, <2>1, <1>2, <1>11
  <2>3. \/ c[2] = c[1] + CHUNK_MAX
        \/ c[2] < c[1] + CHUNK_MAX /\ c[2] \notin S
    <3> HIDE DEF c
    <3> QED
      BY <2>1, <1>1, <1>4, <1>5, <1>6
  <2>4. c \in ByteRange /\ Interval(c[1], c[2]) \subseteq S
    BY <2>1, <1>9, <1>10
  <2> HIDE DEF c
  <2>5. c \in Chunks(S)
    BY <2>2, <2>3, <2>4 DEF Chunks
  <2> QED
    BY <2>5 DEF c
<1>13. b \in Interval(s, e)
  BY <1>1, <1>4, <1>6 DEF Interval
<1> QED
  BY <1>12, <1>13

-----------------------------------------------------------------------------
(* Loops.  A loop is a recursive function of the number of turns made.     *)

\* Induction over the turns of a loop.
LEMMA LoopInduction ==
  ASSUME NEW N \in Nat, NEW T, 0 \in T,
         \A n \in 1 .. N : n - 1 \in T => n \in T
  PROVE  \A n \in 0 .. N : n \in T
<1> DEFINE U == {n \in 0 .. N : n \notin T}
<1> SUFFICES ASSUME U # {}
             PROVE  FALSE
  OBVIOUS
<1>1. PICK m \in U : \A k \in U : m <= k
  <2>1. U \in SUBSET Nat
    OBVIOUS
  <2> HIDE DEF U
  <2> QED
    BY <2>1, NatLeast
<1>2. m \in 1 .. N /\ m \notin T
  OBVIOUS
<1>3. m - 1 \in 0 .. N /\ m - 1 \notin U
  BY <1>1, <1>2
<1> QED
  BY <1>2, <1>3

\* f is a loop of N turns on the states S that begins with x and whose n-th
\* turn is G[n].
IsTurns(G, N, S) == \A n \in 1 .. N : G[n] \in [S -> S]
IsLoop(f, N, S, x, G) ==
  f \in [0 .. N -> S] /\ f[0] = x /\ \A n \in 1 .. N : f[n] = G[n][f[n - 1]]

\* Such a loop exists.
LEMMA LoopExists ==
  ASSUME NEW N \in Nat, NEW S, NEW x \in S, NEW G, IsTurns(G, N, S)
  PROVE  \E f : IsLoop(f, N, S, x, G)
<1> USE DEF IsTurns, IsLoop
<1> DEFINE Runs(f, m) == f \in [0 .. m -> S] /\ f[0] = x /\ \A n \in 1 .. m : f[n] = G[n][f[n - 1]]
           T == {m \in 0 .. N : \E f : Runs(f, m)}
<1>1. 0 \in T
  <2> DEFINE f == [n \in 0 .. 0 |-> x]
  <2>1. Runs(f, 0)
    OBVIOUS
  <2> HIDE DEF f, Runs
  <2> QED
    BY <2>1
<1>2. ASSUME NEW m \in 1 .. N, m - 1 \in T
      PROVE  m \in T
  <2>1. PICK f : Runs(f, m - 1)
    BY <1>2
  <2> DEFINE g == [n \in 0 .. m |-> IF n = m THEN G[m][f[m - 1]] ELSE f[n]]
  <2>2. f[m - 1] \in S /\ G[m][f[m - 1]] \in S
    BY <2>1
  <2>3. g \in [0 .. m -> S] /\ g[0] = x
    BY <2>1, <2>2
  <2>4. ASSUME NEW n \in 1 .. m
        PROVE  g[n] = G[n][g[n - 1]]
    <3>1. n - 1 \in 0 .. m /\ n - 1 # m
      OBVIOUS
    <3>2. g[n - 1] = f[n - 1]
      BY <3>1
    <3>3. CASE n = m
      BY <3>2, <3>3
    <3>4. CASE n # m
      <4>1. n \in 1 .. m - 1 /\ g[n] = f[n]
        BY <3>4
      <4> HIDE DEF g
      <4> QED
        BY <2>1, <3>2, <4>1
    <3> QED
      BY <3>3, <3>4
  <2>5. Runs(g, m)
    BY <2>3, <2>4
  <2> HIDE DEF Runs
  <2> QED
    BY <2>5
<1> HIDE DEF Runs
<1>3. \A n \in 0 .. N : n \in T
  <2> HIDE DEF T
  <2> QED
    BY <1>1, <1>2, LoopInduction
<1>4. PICK f : Runs(f, N)
  BY <1>3
<1> QED
  BY <1>4 DEF Runs

\* Least is the minimum of a set of naturals.
LEMMA LeastFacts ==
  ASSUME NEW S \in SUBSET Nat, S # {}
  PROVE  Least(S) \in S /\ \A m \in S : Least(S) <= m
<1>1. \E n \in S : \A m \in S : n <= m
  BY NatLeast
<1> QED
  BY <1>1 DEF Least

\* The lesser and the greater of two numbers.
LEMMA OfTwo ==
  ASSUME NEW a \in Nat, NEW b \in Nat
  PROVE  /\ Least({a, b}) = IF a <= b THEN a ELSE b
         /\ Greatest({a, b}) = IF a <= b THEN b ELSE a
<1>1. \A m \in {a, b} : (IF a <= b THEN a ELSE b) <= m
  OBVIOUS
<1>2. \A m \in {a, b} : m <= (IF a <= b THEN b ELSE a)
  OBVIOUS
<1>3. \A n \in {a, b} : (\A m \in {a, b} : n <= m) => n = IF a <= b THEN a ELSE b
  OBVIOUS
<1>4. \A n \in {a, b} : (\A m \in {a, b} : m <= n) => n = IF a <= b THEN b ELSE a
  OBVIOUS
<1>5. Least({a, b}) = IF a <= b THEN a ELSE b
  BY <1>1, <1>3 DEF Least
<1>6. Greatest({a, b}) = IF a <= b THEN b ELSE a
  BY <1>2, <1>4 DEF Greatest
<1> QED
  BY <1>5, <1>6

-----------------------------------------------------------------------------
(* Range lists.                                                            *)

\* The list without its i-th range.
LEMMA RemoveFacts ==
  ASSUME NEW S, NEW q \in Seq(S), NEW i \in 1 .. Len(q)
  PROVE  /\ RemoveAt(q, i) \in Seq(S)
         /\ Len(RemoveAt(q, i)) = Len(q) - 1
         /\ \A j \in 1 .. Len(q) - 1 : RemoveAt(q, i)[j] = IF j < i THEN q[j] ELSE q[j + 1]
<1> DEFINE a == SubSeq(q, 1, i - 1)
           b == SubSeq(q, i + 1, Len(q))
<1>1. Len(q) \in Nat /\ \A j \in 1 .. Len(q) : q[j] \in S
  BY LenProperties, ElementOfSeq
<1>2. /\ a \in Seq(S) /\ Len(a) = i - 1
      /\ \A j \in 1 .. i - 1 : a[j] = q[j]
  <2>1. \A j \in 1 .. i - 1 : q[j] \in S
    BY <1>1
  <2>2. 1 \in Int /\ i - 1 \in Int /\ (i - 1) - 1 + 1 = i - 1
    BY <1>1
  <2>3. /\ a \in Seq(S)
        /\ Len(a) = IF 1 <= i - 1 THEN (i - 1) - 1 + 1 ELSE 0
        /\ \A j \in 1 .. (i - 1) - 1 + 1 : a[j] = q[1 + j - 1]
    BY <2>1, <2>2, SubSeqProperties
  <2> HIDE DEF a
  <2> QED
    BY <2>2, <2>3, <1>1
<1>3. /\ b \in Seq(S) /\ Len(b) = Len(q) - i
      /\ \A j \in 1 .. Len(q) - i : b[j] = q[i + j]
  <2>1. \A j \in i + 1 .. Len(q) : q[j] \in S
    BY <1>1
  <2>2. i + 1 \in Int /\ Len(q) \in Int
    BY <1>1
  <2>3. /\ b \in Seq(S)
        /\ Len(b) = IF i + 1 <= Len(q) THEN Len(q) - (i + 1) + 1 ELSE 0
        /\ \A j \in 1 .. Len(q) - (i + 1) + 1 : b[j] = q[(i + 1) + j - 1]
    BY <2>1, <2>2, SubSeqProperties
  <2> HIDE DEF b
  <2> QED
    BY <2>2, <2>3, <1>1
<1> HIDE DEF a, b
<1>4. /\ a \o b \in Seq(S) /\ Len(a \o b) = Len(a) + Len(b)
      /\ \A j \in 1 .. Len(a) + Len(b) : (a \o b)[j] = IF j <= Len(a) THEN a[j] ELSE b[j - Len(a)]
  BY <1>2, <1>3, ConcatProperties
<1>5. RemoveAt(q, i) = a \o b
  BY DEF RemoveAt, a, b
<1>6. ASSUME NEW j \in 1 .. Len(q) - 1
      PROVE  (a \o b)[j] = IF j < i THEN q[j] ELSE q[j + 1]
  <2>1. j \in 1 .. Len(a) + Len(b) /\ i \in Nat
    BY <1>1, <1>2, <1>3
  <2>2. CASE j < i
    BY <1>1, <1>2, <1>4, <2>1, <2>2
  <2>3. CASE j >= i
    <3>1. (a \o b)[j] = b[j - (i - 1)]
      BY <1>1, <1>2, <1>4, <2>1, <2>3
    <3>2. j - (i - 1) \in 1 .. Len(q) - i /\ i + (j - (i - 1)) = j + 1
      BY <1>1, <2>1, <2>3
    <3>3. b[j - (i - 1)] = q[i + (j - (i - 1))]
      BY <1>3, <3>2
    <3> QED
      BY <2>1, <2>3, <3>1, <3>2, <3>3
  <2> QED
    BY <2>1, <2>2, <2>3
<1>7. Len(a \o b) = Len(q) - 1
  BY <1>1, <1>2, <1>3, <1>4
<1> QED
  BY <1>4, <1>5, <1>6, <1>7

\* The list with a range put in as its i-th.
LEMMA InsertFacts ==
  ASSUME NEW S, NEW q \in Seq(S), NEW i \in 1 .. Len(q) + 1, NEW x \in S
  PROVE  /\ InsertAt(q, i, x) \in Seq(S)
         /\ Len(InsertAt(q, i, x)) = Len(q) + 1
         /\ \A j \in 1 .. Len(q) + 1 :
              InsertAt(q, i, x)[j] = IF j < i THEN q[j] ELSE IF j = i THEN x ELSE q[j - 1]
<1> DEFINE a == SubSeq(q, 1, i - 1)
           b == SubSeq(q, i, Len(q))
           ax == a \o <<x>>
<1>1. Len(q) \in Nat /\ \A j \in 1 .. Len(q) : q[j] \in S
  BY LenProperties, ElementOfSeq
<1>2. /\ a \in Seq(S) /\ Len(a) = i - 1
      /\ \A j \in 1 .. i - 1 : a[j] = q[j]
  <2>1. \A j \in 1 .. i - 1 : q[j] \in S
    BY <1>1
  <2>2. 1 \in Int /\ i - 1 \in Int /\ (i - 1) - 1 + 1 = i - 1
    BY <1>1
  <2>3. /\ a \in Seq(S)
        /\ Len(a) = IF 1 <= i - 1 THEN (i - 1) - 1 + 1 ELSE 0
        /\ \A j \in 1 .. (i - 1) - 1 + 1 : a[j] = q[1 + j - 1]
    BY <2>1, <2>2, SubSeqProperties
  <2> HIDE DEF a
  <2> QED
    BY <2>2, <2>3, <1>1
<1>3. /\ b \in Seq(S) /\ Len(b) = Len(q) - i + 1
      /\ \A j \in 1 .. Len(q) - i + 1 : b[j] = q[i + j - 1]
  <2>1. \A j \in i .. Len(q) : q[j] \in S
    BY <1>1
  <2>2. i \in Int /\ Len(q) \in Int
    BY <1>1
  <2>3. /\ b \in Seq(S)
        /\ Len(b) = IF i <= Len(q) THEN Len(q) - i + 1 ELSE 0
        /\ \A j \in 1 .. Len(q) - i + 1 : b[j] = q[i + j - 1]
    BY <2>1, <2>2, SubSeqProperties
  <2> HIDE DEF b
  <2> QED
    BY <2>2, <2>3, <1>1
<1> HIDE DEF a, b
<1>4. <<x>> \in Seq(S) /\ Len(<<x>>) = 1 /\ <<x>>[1] = x
  OBVIOUS
<1>5. /\ ax \in Seq(S) /\ Len(ax) = i
      /\ \A j \in 1 .. i : ax[j] = IF j < i THEN q[j] ELSE x
  <2>1. /\ ax \in Seq(S) /\ Len(ax) = Len(a) + 1
        /\ \A j \in 1 .. Len(a) + 1 : ax[j] = IF j <= Len(a) THEN a[j] ELSE <<x>>[j - Len(a)]
    BY <1>2, <1>4, ConcatProperties
  <2> HIDE DEF ax
  <2>2. Len(a) + 1 = i
    BY <1>1, <1>2
  <2>3. ASSUME NEW j \in 1 .. i
        PROVE  ax[j] = IF j < i THEN q[j] ELSE x
    <3>1. CASE j < i
      BY <1>1, <1>2, <2>1, <2>2, <3>1
    <3>2. CASE j = i
      <4>1. j - Len(a) = 1 /\ ~(j <= Len(a))
        BY <1>1, <1>2, <3>2
      <4> QED
        BY <1>4, <2>1, <2>2, <3>2, <4>1
    <3> QED
      BY <3>1, <3>2
  <2> QED
    BY <2>1, <2>2, <2>3
<1> HIDE DEF ax
<1>6. /\ ax \o b \in Seq(S) /\ Len(ax \o b) = Len(ax) + Len(b)
      /\ \A j \in 1 .. Len(ax) + Len(b) : (ax \o b)[j] = IF j <= Len(ax) THEN ax[j] ELSE b[j - Len(ax)]
  BY <1>3, <1>5, ConcatProperties
<1>7. InsertAt(q, i, x) = ax \o b
  BY DEF InsertAt, a, b, ax
<1>8. Len(ax \o b) = Len(q) + 1
  BY <1>1, <1>3, <1>5, <1>6
<1>9. ASSUME NEW j \in 1 .. Len(q) + 1
      PROVE  (ax \o b)[j] = IF j < i THEN q[j] ELSE IF j = i THEN x ELSE q[j - 1]
  <2>1. j \in 1 .. Len(ax) + Len(b)
    BY <1>6, <1>8
  <2>2. CASE j <= i
    BY <1>1, <1>5, <1>6, <2>1, <2>2
  <2>3. CASE j > i
    <3>1. (ax \o b)[j] = b[j - i]
      BY <1>1, <1>5, <1>6, <2>1, <2>3
    <3>2. j - i \in 1 .. Len(q) - i + 1 /\ i + (j - i) - 1 = j - 1
      BY <1>1, <2>3
    <3>3. b[j - i] = q[i + (j - i) - 1]
      BY <1>3, <3>2
    <3> QED
      BY <2>3, <3>1, <3>2, <3>3
  <2>4. j <= i \/ j > i
    BY <1>1
  <2> QED
    BY <2>2, <2>3, <2>4
<1> QED
  BY <1>6, <1>7, <1>8, <1>9

-----------------------------------------------------------------------------
(* merge_range.                                                            *)

\* The states of its loop.
MergeStates == [list : Seq(ByteRange), i : Nat, start : Nat, end : Nat]

\* A range is in the file and holds a byte.
LEMMA RangeFacts ==
  ASSUME NEW c \in ByteRange
  PROVE  /\ c[1] \in Nat /\ c[2] \in Nat /\ c[1] < c[2] /\ c[2] <= FileSize
         /\ c = <<c[1], c[2]>>
  BY RangeAssumption DEF ByteRange, Bytes

\* A turn leads from state to state of the loop.
LEMMA MergeTurnType ==
  ASSUME NEW at \in MergeStates
  PROVE  MergeTurn(at) \in MergeStates
<1> DEFINE c == at.list[at.i + 1]
<1>1. at.list \in Seq(ByteRange) /\ at.i \in Nat /\ at.start \in Nat /\ at.end \in Nat
  BY DEF MergeStates
<1>2. Len(at.list) \in Nat
  BY <1>1, LenProperties
<1>3. CASE at.i >= Len(at.list)
  BY <1>3 DEF MergeTurn
<1>4. CASE at.i < Len(at.list)
  <2>1. at.i + 1 \in 1 .. Len(at.list)
    BY <1>1, <1>2, <1>4
  <2>2. c \in ByteRange
    BY <1>1, <2>1, ElementOfSeq
  <2>3. c[1] \in Nat /\ c[2] \in Nat
    BY <2>2, RangeFacts
  <2>4. RemoveAt(at.list, at.i + 1) \in Seq(ByteRange)
    BY <1>1, <2>1, RemoveFacts
  <2>5. Least({at.start, c[1]}) \in Nat /\ Greatest({at.end, c[2]}) \in Nat
    BY <1>1, <2>3, OfTwo
  <2>6. [at EXCEPT !.i = at.i + 1] \in MergeStates
    BY <1>1 DEF MergeStates
  <2>7. [list |-> RemoveAt(at.list, at.i + 1), i |-> at.i,
         start |-> Least({at.start, c[1]}), end |-> Greatest({at.end, c[2]})] \in MergeStates
    BY <1>1, <2>4, <2>5 DEF MergeStates
  <2> HIDE DEF c
  <2>8. MergeTurn(at) \in {at, [at EXCEPT !.i = at.i + 1],
                           [list |-> RemoveAt(at.list, at.i + 1), i |-> at.i,
                            start |-> Least({at.start, c[1]}), end |-> Greatest({at.end, c[2]})]}
    BY DEF MergeTurn, c
  <2> QED
    BY <2>6, <2>7, <2>8
<1> QED
  BY <1>1, <1>2, <1>3, <1>4

\* merge_range's loop, turn by turn.
LEMMA ScanTurns ==
  ASSUME NEW L \in Seq(ByteRange), NEW s \in Nat, NEW e \in Nat
  PROVE  \E turn \in [0 .. Len(L) -> MergeStates] :
           /\ turn[0] = [list |-> L, i |-> 0, start |-> s, end |-> e]
           /\ \A n \in 1 .. Len(L) : turn[n] = MergeTurn(turn[n - 1])
           /\ Scan(L, s, e) = turn[Len(L)]
<1> DEFINE x == [list |-> L, i |-> 0, start |-> s, end |-> e]
           G == [n \in 1 .. Len(L) |-> [at \in MergeStates |-> MergeTurn(at)]]
           Turns(f) == f = [n \in 0 .. Len(L) |-> IF n = 0 THEN x ELSE MergeTurn(f[n - 1])]
           turn == CHOOSE f : Turns(f)
<1>1. Len(L) \in Nat
  BY LenProperties
<1>2. x \in MergeStates
  BY DEF MergeStates
<1>3. \A n \in 1 .. Len(L) : G[n] \in [MergeStates -> MergeStates]
  BY MergeTurnType
<1> HIDE DEF x
<1>4. PICK f \in [0 .. Len(L) -> MergeStates] :
        f[0] = x /\ \A n \in 1 .. Len(L) : f[n] = G[n][f[n - 1]]
  <2> HIDE DEF G
  <2>1. IsTurns(G, Len(L), MergeStates)
    BY <1>3 DEF IsTurns
  <2>2. \E f : IsLoop(f, Len(L), MergeStates, x, G)
    BY <1>1, <1>2, <2>1, LoopExists
  <2> QED
    BY <2>2 DEF IsLoop
<1>5. ASSUME NEW n \in 1 .. Len(L)
      PROVE  n - 1 \in 0 .. Len(L) /\ f[n] = MergeTurn(f[n - 1])
  <2>1. n - 1 \in 0 .. Len(L)
    BY <1>1
  <2>2. f[n - 1] \in MergeStates
    BY <1>4, <2>1
  <2>3. G[n][f[n - 1]] = MergeTurn(f[n - 1])
    BY <2>2
  <2> HIDE DEF G
  <2> QED
    BY <1>4, <2>1, <2>3
<1>6. Turns(f)
  BY <1>1, <1>4, <1>5
<1>7. Turns(turn)
  <2> HIDE DEF Turns
  <2> QED
    BY <1>6
<1>8. Scan(L, s, e) = turn[Len(L)]
  BY DEF Scan, x
<1> HIDE DEF turn
<1>9. \A n \in 0 .. Len(L) : turn[n] = IF n = 0 THEN x ELSE MergeTurn(turn[n - 1])
  BY <1>7
<1>10. DOMAIN turn = 0 .. Len(L)
  BY <1>7
<1> HIDE DEF Turns, G
<1>11. \A n \in 0 .. Len(L) : turn[n] \in MergeStates
  <2> DEFINE T == {n \in 0 .. Len(L) : turn[n] \in MergeStates}
  <2>1. 0 \in T
    BY <1>1, <1>2, <1>9
  <2>2. ASSUME NEW n \in 1 .. Len(L), n - 1 \in T PROVE n \in T
    <3>1. turn[n] = MergeTurn(turn[n - 1]) /\ turn[n - 1] \in MergeStates
      BY <1>1, <1>9, <2>2
    <3> QED
      BY <3>1, MergeTurnType
  <2>3. \A n \in 0 .. Len(L) : n \in T
    <3> HIDE DEF T
    <3> QED
      BY <1>1, <2>1, <2>2, LoopInduction
  <2> QED
    BY <2>3
<1>12. turn \in [0 .. Len(L) -> MergeStates]
  <2>1. turn = [n \in 0 .. Len(L) |-> turn[n]]
    BY <1>7, <1>10 DEF Turns
  <2> QED
    BY <1>11, <2>1
<1>13. /\ turn[0] = x
       /\ \A n \in 1 .. Len(L) : turn[n] = MergeTurn(turn[n - 1])
  BY <1>1, <1>9
<1> QED
  BY <1>8, <1>12, <1>13 DEF x

\* Where merge_range's loop is when it has used up the first m ranges of the
\* list L with the bytes D: those before index i are skipped, and the others
\* of the m absorbed into the merged range [start, end), which consists of
\* [s, e) and listed bytes next to it.
LeftOver(L, m, list, i) ==
  /\ i <= m /\ m <= Len(L)
  /\ Len(list) = i + (Len(L) - m)
  /\ \A j \in 1 .. i : list[j] = L[j]
  /\ \A j \in m + 1 .. Len(L) : list[i + j - m] = L[j]
Grown(D, s, e, start, end) ==
  /\ start <= s /\ e <= end /\ end <= FileSize
  /\ \A b \in Bytes : (start <= b /\ b < s) \/ (e <= b /\ b < end) => b \in D
Sided(L, m, i, start, end) ==
  /\ \A j \in 1 .. i : L[j][2] < start
  /\ \A j \in i + 1 .. m : start <= L[j][1] /\ L[j][2] <= end
MergeAt(L, D, s, e, m, at) ==
  /\ at \in MergeStates
  /\ LeftOver(L, m, at.list, at.i)
  /\ Grown(D, s, e, at.start, at.end)
  /\ Sided(L, m, at.i, at.start, at.end)

\* The loop has ended: the next range begins after the merged one.
MergeEnds(L, m, at) == m < Len(L) => at.end < L[m + 1][1]

\* The facts about a list's ranges, in order.
LEMMA ListFacts ==
  ASSUME NEW D, NEW L, IsListOf(L, D)
  PROVE  /\ Len(L) \in Nat /\ DOMAIN L = 1 .. Len(L)
         /\ \A j \in 1 .. Len(L) : /\ L[j] \in ByteRange
                                   /\ L[j][1] \in Nat /\ L[j][2] \in Nat
                                   /\ L[j][1] < L[j][2] /\ L[j][2] <= FileSize
         /\ \A j, k \in 1 .. Len(L) : j < k => L[j][2] < L[k][1]
         /\ \A b \in Bytes : b \in D <=> \E j \in 1 .. Len(L) : L[j][1] <= b /\ b < L[j][2]
<1>1. L \in Seq(ByteRange) /\ BytesOf(L) = D
  BY DEF IsListOf
<1>2. Len(L) \in Nat /\ DOMAIN L = 1 .. Len(L)
  BY <1>1, LenProperties
<1>3. \A j \in 1 .. Len(L) : L[j] \in ByteRange
  BY <1>1, ElementOfSeq
<1>4. \A j \in 1 .. Len(L) : L[j][1] \in Nat /\ L[j][2] \in Nat /\ L[j][1] < L[j][2] /\ L[j][2] <= FileSize
  BY <1>3, RangeFacts
<1>5. \A j, k \in 1 .. Len(L) : j < k => L[j][2] < L[k][1]
  BY <1>2 DEF IsListOf
<1>6. \A b \in Bytes : b \in D <=> \E j \in 1 .. Len(L) : L[j][1] <= b /\ b < L[j][2]
  BY <1>1, <1>2 DEF BytesOf, Interval
<1> QED
  BY <1>2, <1>3, <1>4, <1>5, <1>6

\* The range after the first m, and those.
LEMMA NextRange ==
  ASSUME NEW D, NEW L, IsListOf(L, D), NEW m \in Nat, m < Len(L)
  PROVE  /\ m + 1 \in 1 .. Len(L)
         /\ L[m + 1][1] \in Nat /\ L[m + 1][2] \in Nat
         /\ L[m + 1][1] < L[m + 1][2] /\ L[m + 1][2] <= FileSize
         /\ \A j \in 1 .. m : /\ L[j][1] \in Nat /\ L[j][2] \in Nat
                              /\ L[j][1] < L[j][2] /\ L[j][2] < L[m + 1][1]
         /\ \A b \in Bytes : L[m + 1][1] <= b /\ b < L[m + 1][2] => b \in D
<1>1. Len(L) \in Nat
  BY ListFacts
<1>2. m + 1 \in 1 .. Len(L)
  BY <1>1
<1>3. ASSUME NEW j \in 1 .. m
      PROVE  L[j][1] \in Nat /\ L[j][2] \in Nat /\ L[j][1] < L[j][2] /\ L[j][2] < L[m + 1][1]
  <2>1. j \in 1 .. Len(L) /\ j < m + 1
    BY <1>1
  <2> QED
    BY <1>2, <2>1, ListFacts
<1>4. /\ L[m + 1][1] \in Nat /\ L[m + 1][2] \in Nat
      /\ L[m + 1][1] < L[m + 1][2] /\ L[m + 1][2] <= FileSize
  BY <1>2, ListFacts
<1>5. ASSUME NEW b \in Bytes, L[m + 1][1] <= b, b < L[m + 1][2] PROVE b \in D
  BY <1>2, <1>5, ListFacts
<1> QED
  BY <1>2, <1>3, <1>4, <1>5

\* It is the one at the loop's index.
LEMMA AtIndex ==
  ASSUME NEW L, Len(L) \in Nat, NEW list, NEW i \in Nat, NEW m \in Nat, m < Len(L),
         LeftOver(L, m, list, i)
  PROVE  i + 1 \in 1 .. Len(list) /\ i < Len(list) /\ list[i + 1] = L[m + 1]
<1>1. i + (m + 1) - m = i + 1 /\ m + 1 \in m + 1 .. Len(L)
  OBVIOUS
<1>2. list[i + 1] = L[m + 1]
  BY <1>1 DEF LeftOver
<1>3. Len(list) = i + (Len(L) - m)
  BY DEF LeftOver
<1> QED
  BY <1>2, <1>3

\* The ranges left over when the next one is skipped, ...
LEMMA SkipLeft ==
  ASSUME NEW L, Len(L) \in Nat, NEW list, NEW m \in Nat, m < Len(L),
         LeftOver(L, m, list, m)
  PROVE  LeftOver(L, m + 1, list, m + 1)
<1>1. Len(list) = (m + 1) + (Len(L) - (m + 1))
  BY DEF LeftOver
<1>2. ASSUME NEW j \in 1 .. m + 1 PROVE list[j] = L[j]
  <2>1. CASE j = m + 1
    BY <2>1, AtIndex
  <2>2. CASE j # m + 1
    BY <2>2 DEF LeftOver
  <2> QED
    BY <2>1, <2>2
<1>3. ASSUME NEW j \in (m + 1) + 1 .. Len(L) PROVE list[(m + 1) + j - (m + 1)] = L[j]
  <2>1. j \in m + 1 .. Len(L) /\ (m + 1) + j - (m + 1) = m + j - m
    OBVIOUS
  <2> QED
    BY <2>1 DEF LeftOver
<1> QED
  BY <1>1, <1>2, <1>3 DEF LeftOver

\* ... and when it is absorbed.
LEMMA AbsorbLeft ==
  ASSUME NEW L, Len(L) \in Nat, NEW list \in Seq(ByteRange), NEW i \in Nat,
         NEW m \in Nat, m < Len(L), LeftOver(L, m, list, i)
  PROVE  LeftOver(L, m + 1, RemoveAt(list, i + 1), i)
<1> DEFINE to == RemoveAt(list, i + 1)
           n == i + (Len(L) - m)
<1>1. i \in 0 .. m /\ n \in Nat /\ Len(list) = n /\ i + 1 \in 1 .. n
  BY DEF LeftOver
<1>2. /\ Len(to) = n - 1
      /\ \A j \in 1 .. n - 1 : to[j] = IF j < i + 1 THEN list[j] ELSE list[j + 1]
  <2>1. i + 1 \in 1 .. Len(list)
    BY <1>1
  <2>2. /\ Len(to) = Len(list) - 1
        /\ \A j \in 1 .. Len(list) - 1 : to[j] = IF j < i + 1 THEN list[j] ELSE list[j + 1]
    BY <2>1, RemoveFacts
  <2> HIDE DEF to, n
  <2> QED
    BY <1>1, <2>2
<1> HIDE DEF to
<1>3. Len(to) = i + (Len(L) - (m + 1))
  BY <1>1, <1>2
<1>4. ASSUME NEW j \in 1 .. i PROVE to[j] = L[j]
  <2>1. j \in 1 .. n - 1 /\ j < i + 1
    BY <1>1
  <2>2. to[j] = list[j]
    BY <1>2, <2>1
  <2> QED
    BY <2>2 DEF LeftOver
<1>5. ASSUME NEW j \in (m + 1) + 1 .. Len(L) PROVE to[i + j - (m + 1)] = L[j]
  <2> DEFINE k == i + j - (m + 1)
  <2>1. k \in 1 .. n - 1 /\ ~(k < i + 1) /\ k + 1 = i + j - m /\ j \in m + 1 .. Len(L)
    BY <1>1
  <2> HIDE DEF k
  <2>2. to[k] = list[k + 1]
    BY <1>2, <2>1
  <2>3. list[k + 1] = L[j]
    BY <2>1 DEF LeftOver
  <2> QED
    BY <2>2, <2>3 DEF k
<1>6. i <= m + 1 /\ m + 1 <= Len(L)
  BY <1>1
<1>7. LeftOver(L, m + 1, to, i)
  BY <1>3, <1>4, <1>5, <1>6 DEF LeftOver
<1> QED
  BY <1>7 DEF to

\* What is absorbed are bytes of the list.
LEMMA AbsorbGrown ==
  ASSUME NEW D \in SUBSET Bytes, NEW s \in Nat, NEW e \in Nat, s < e,
         NEW start \in Nat, NEW end \in Nat, NEW c1 \in Nat, NEW c2 \in Nat,
         c1 < c2, c2 <= FileSize, start <= c2, c1 <= end,
         \A b \in Bytes : c1 <= b /\ b < c2 => b \in D,
         Grown(D, s, e, start, end)
  PROVE  Grown(D, s, e, IF start <= c1 THEN start ELSE c1, IF end <= c2 THEN c2 ELSE end)
<1> DEFINE ss == IF start <= c1 THEN start ELSE c1
           ee == IF end <= c2 THEN c2 ELSE end
<1>1. FileSize \in Nat /\ start <= s /\ e <= end /\ end <= FileSize
  BY RangeAssumption DEF Grown
<1>2. ss <= s /\ e <= ee /\ ee <= FileSize
  BY <1>1
<1>3. ASSUME NEW b \in Bytes, (ss <= b /\ b < s) \/ (e <= b /\ b < ee)
      PROVE  b \in D
  <2>1. b \in Nat
    BY BytesNat
  <2>2. CASE c1 <= b /\ b < c2
    BY <2>2
  <2>3. CASE ~(c1 <= b /\ b < c2)
    <3>1. (start <= b /\ b < s) \/ (e <= b /\ b < end)
      BY <1>1, <1>3, <2>1, <2>3
    <3> QED
      BY <3>1 DEF Grown
  <2> QED
    BY <2>2, <2>3
<1> HIDE DEF ss, ee
<1>4. Grown(D, s, e, ss, ee)
  BY <1>2, <1>3 DEF Grown
<1> QED
  BY <1>4 DEF ss, ee

\* A turn of the loop uses up a range, or the loop has ended.
LEMMA MergeTurnStep ==
  ASSUME NEW D \in SUBSET Bytes, NEW L, IsListOf(L, D), NEW s \in Nat, NEW e \in Nat, s < e,
         NEW m \in Nat, NEW at, MergeAt(L, D, s, e, m, at)
  PROVE  \/ MergeTurn(at) = at /\ MergeEnds(L, m, at)
         \/ m < Len(L) /\ MergeAt(L, D, s, e, m + 1, MergeTurn(at))
<1> DEFINE c == at.list[at.i + 1]
           list == at.list
           i == at.i
           start == at.start
           end == at.end
           c1 == L[m + 1][1]
           c2 == L[m + 1][2]
           to == MergeTurn(at)
<1>1. list \in Seq(ByteRange) /\ i \in Nat /\ start \in Nat /\ end \in Nat /\ at \in MergeStates
  BY DEF MergeAt, MergeStates
<1>2. Len(L) \in Nat /\ Len(list) \in Nat
  BY <1>1, ListFacts, LenProperties
<1>3. to \in MergeStates
  BY <1>1, MergeTurnType
<1>4. LeftOver(L, m, list, i) /\ Grown(D, s, e, start, end) /\ Sided(L, m, i, start, end)
  BY DEF MergeAt
<1>5. CASE ~(m < Len(L))
  <2>1. Len(list) = i + (Len(L) - m) /\ m <= Len(L)
    BY <1>4 DEF LeftOver
  <2> HIDE DEF list, i
  <2>2. i >= Len(list)
    BY <1>1, <1>2, <1>5, <2>1
  <2> QED
    BY <1>5, <2>2 DEF MergeTurn, MergeEnds, list, i
<1>6. CASE m < Len(L)
  <2> HIDE DEF list, i, start, end, c1, c2, to
  <2>1. i + 1 \in 1 .. Len(list) /\ i < Len(list) /\ list[i + 1] = L[m + 1]
    BY <1>1, <1>2, <1>4, <1>6, AtIndex
  <2>2. ~(i >= Len(list))
    BY <1>1, <1>2, <2>1
  <2>3. /\ c1 \in Nat /\ c2 \in Nat /\ c1 < c2 /\ c2 <= FileSize
        /\ \A j \in 1 .. m : L[j][1] \in Nat /\ L[j][2] \in Nat /\ L[j][1] < L[j][2] /\ L[j][2] < c1
        /\ \A b \in Bytes : c1 <= b /\ b < c2 => b \in D
    BY <1>6, NextRange DEF c1, c2
  <2>4. c[1] = c1 /\ c[2] = c2
    BY <2>1 DEF c1, c2, list, i
  <2> HIDE DEF c
  <2>5. to = IF c2 < start THEN [at EXCEPT !.i = at.i + 1]
             ELSE IF c1 > end THEN at
             ELSE [list |-> RemoveAt(list, i + 1), i |-> i,
                   start |-> Least({start, c1}), end |-> Greatest({end, c2})]
    BY <2>2, <2>4 DEF MergeTurn, Before, c, list, i, start, end, to
  <2>6. CASE c2 < start
    <3>1. to.list = list /\ to.i = i + 1 /\ to.start = start /\ to.end = end
      BY <1>1, <2>5, <2>6 DEF MergeStates, list, i, start, end
    <3>2. i = m
      <4> SUFFICES ASSUME i # m PROVE FALSE
        OBVIOUS
      <4>1. m \in i + 1 .. m /\ m \in 1 .. m
        BY <1>1, <1>4 DEF LeftOver
      <4>2. start <= L[m][1]
        BY <1>4, <4>1 DEF Sided
      <4>3. L[m][1] \in Nat /\ L[m][2] \in Nat /\ L[m][1] < L[m][2] /\ L[m][2] < c1
        BY <2>3, <4>1
      <4> QED
        BY <1>1, <2>3, <2>6, <4>2, <4>3
    <3>3. LeftOver(L, m + 1, list, i + 1)
      BY <1>2, <1>4, <1>6, <3>2, SkipLeft
    <3>4. ASSUME NEW j \in 1 .. i + 1 PROVE L[j][2] < start
      <4>1. CASE j = m + 1
        BY <2>6, <4>1 DEF c2
      <4>2. CASE j # m + 1
        <5>1. j \in 1 .. i
          BY <3>2, <4>2
        <5> QED
          BY <1>4, <5>1 DEF Sided
      <4> QED
        BY <4>1, <4>2
    <3>5. \A j \in (i + 1) + 1 .. m + 1 : FALSE
      BY <3>2
    <3>6. Sided(L, m + 1, i + 1, start, end)
      BY <3>4, <3>5 DEF Sided
    <3>7. MergeAt(L, D, s, e, m + 1, to)
      BY <1>3, <1>4, <3>1, <3>3, <3>6 DEF MergeAt
    <3> QED
      BY <1>6, <3>7 DEF to
  <2>7. CASE ~(c2 < start) /\ c1 > end
    <3>1. to = at
      BY <2>5, <2>7
    <3>2. end < c1
      BY <1>1, <2>3, <2>7
    <3> QED
      BY <3>1, <3>2 DEF MergeEnds, to, end, c1
  <2>8. CASE ~(c2 < start) /\ ~(c1 > end)
    <3> DEFINE ss == IF start <= c1 THEN start ELSE c1
               ee == IF end <= c2 THEN c2 ELSE end
    <3>1. to.list = RemoveAt(list, i + 1) /\ to.i = i /\ to.start = ss /\ to.end = ee
      <4>1. Least({start, c1}) = ss /\ Greatest({end, c2}) = ee
        BY <1>1, <2>3, OfTwo
      <4> HIDE DEF ss, ee
      <4> QED
        BY <2>5, <2>8, <4>1
    <3>2. LeftOver(L, m + 1, RemoveAt(list, i + 1), i)
      BY <1>1, <1>2, <1>4, <1>6, AbsorbLeft
    <3>3. start <= c2 /\ c1 <= end
      BY <1>1, <2>3, <2>8
    <3>4. Grown(D, s, e, ss, ee)
      BY <1>1, <1>4, <2>3, <3>3, AbsorbGrown
    <3>5. ss \in Nat /\ ee \in Nat /\ ss <= start /\ ss <= c1 /\ end <= ee /\ c2 <= ee
      BY <1>1, <2>3
    <3>6. ss = start \/ ss = c1
      OBVIOUS
    <3> HIDE DEF ss, ee
    <3>7. ASSUME NEW j \in 1 .. i PROVE L[j][2] < ss
      <4>1. j \in 1 .. m
        BY <1>1, <1>4 DEF LeftOver
      <4>2. L[j][2] < start
        BY <1>4 DEF Sided
      <4>3. L[j][2] < c1
        BY <2>3, <4>1
      <4> QED
        BY <3>6, <4>2, <4>3
    <3>8. ASSUME NEW j \in i + 1 .. m + 1 PROVE ss <= L[j][1] /\ L[j][2] <= ee
      <4>1. CASE j = m + 1
        BY <3>5, <4>1 DEF c1, c2
      <4>2. CASE j # m + 1
        <5>1. j \in i + 1 .. m /\ j \in 1 .. m
          BY <1>1, <4>2
        <5>2. start <= L[j][1] /\ L[j][2] <= end
          BY <1>4, <5>1 DEF Sided
        <5>3. L[j][1] \in Nat /\ L[j][2] \in Nat
          BY <2>3, <5>1
        <5>4. start \in Nat /\ end \in Nat
          BY <1>1
        <5>5. ss <= start /\ end <= ee /\ ss \in Nat /\ ee \in Nat
          BY <3>5
        <5> HIDE DEF start, end
        <5> QED
          BY <5>2, <5>3, <5>4, <5>5
      <4> QED
        BY <4>1, <4>2
    <3>9. Sided(L, m + 1, i, ss, ee)
      BY <3>7, <3>8 DEF Sided
    <3>10. MergeAt(L, D, s, e, m + 1, to)
      BY <1>3, <3>1, <3>2, <3>4, <3>9 DEF MergeAt
    <3> QED
      BY <1>6, <3>10 DEF to
  <2> QED
    BY <2>6, <2>7, <2>8
<1> QED
  BY <1>5, <1>6

\* The loop ends, and within as many turns as there are ranges.
LEMMA MergeLoop ==
  ASSUME NEW D \in SUBSET Bytes, NEW L, IsListOf(L, D),
         NEW s \in Nat, NEW e \in Nat, s < e, e <= FileSize
  PROVE  \E m \in 0 .. Len(L) : MergeAt(L, D, s, e, m, Scan(L, s, e)) /\ MergeEnds(L, m, Scan(L, s, e))
<1>1. L \in Seq(ByteRange) /\ Len(L) \in Nat
  BY ListFacts DEF IsListOf
<1>2. PICK turn \in [0 .. Len(L) -> MergeStates] :
        /\ turn[0] = [list |-> L, i |-> 0, start |-> s, end |-> e]
        /\ \A n \in 1 .. Len(L) : turn[n] = MergeTurn(turn[n - 1])
        /\ Scan(L, s, e) = turn[Len(L)]
  BY <1>1, ScanTurns
<1> DEFINE Ended(n) == \E m \in 0 .. Len(L) : MergeAt(L, D, s, e, m, turn[n]) /\ MergeEnds(L, m, turn[n])
           T == {n \in 0 .. Len(L) : MergeAt(L, D, s, e, n, turn[n]) \/ Ended(n)}
<1>3. 0 \in T
  <2> DEFINE at == turn[0]
  <2>1. at \in MergeStates
    BY <1>1, <1>2
  <2>2. at.list = L /\ at.i = 0 /\ at.start = s /\ at.end = e
    BY <1>2
  <2> HIDE DEF at
  <2>3. LeftOver(L, 0, L, 0)
    <3>1. \A j \in 0 + 1 .. Len(L) : 0 + j - 0 = j
      OBVIOUS
    <3> QED
      BY <1>1, <3>1 DEF LeftOver
  <2>4. Grown(D, s, e, s, e)
    <3>1. \A b \in Bytes : b \in Nat
      BY BytesNat
    <3>2. \A b \in Nat : ~((s <= b /\ b < s) \/ (e <= b /\ b < e))
      OBVIOUS
    <3> QED
      BY <3>1, <3>2 DEF Grown
  <2>5. Sided(L, 0, 0, s, e)
    BY DEF Sided
  <2>6. MergeAt(L, D, s, e, 0, at)
    BY <2>1, <2>2, <2>3, <2>4, <2>5 DEF MergeAt
  <2> QED
    BY <1>1, <2>6 DEF at
<1>4. ASSUME NEW n \in 1 .. Len(L), n - 1 \in T
      PROVE  n \in T
  <2>1. turn[n] = MergeTurn(turn[n - 1]) /\ n - 1 \in Nat /\ n - 1 \in 0 .. Len(L) /\ (n - 1) + 1 = n
    BY <1>1, <1>2
  <2>2. CASE MergeAt(L, D, s, e, n - 1, turn[n - 1])
    <3>1. \/ MergeTurn(turn[n - 1]) = turn[n - 1] /\ MergeEnds(L, n - 1, turn[n - 1])
          \/ MergeAt(L, D, s, e, (n - 1) + 1, MergeTurn(turn[n - 1]))
      BY <2>1, <2>2, MergeTurnStep
    <3> QED
      BY <2>1, <2>2, <3>1
  <2>3. CASE Ended(n - 1)
    <3>1. PICK m \in 0 .. Len(L) : MergeAt(L, D, s, e, m, turn[n - 1]) /\ MergeEnds(L, m, turn[n - 1])
      BY <2>3
    <3>2. m \in Nat
      BY <1>1
    <3> DEFINE at == turn[n - 1]
    <3>3. MergeTurn(at) = at
      <4> DEFINE list == at.list
                 i == at.i
                 start == at.start
                 end == at.end
                 c1 == L[m + 1][1]
                 c2 == L[m + 1][2]
      <4> HIDE DEF at
      <4>1. MergeAt(L, D, s, e, m, at) /\ MergeEnds(L, m, at)
        BY <3>1 DEF at
      <4>2. list \in Seq(ByteRange) /\ i \in Nat /\ start \in Nat /\ end \in Nat
        BY <4>1 DEF MergeAt, MergeStates
      <4>3. LeftOver(L, m, list, i) /\ start <= s /\ e <= end
        BY <4>1 DEF MergeAt, Grown
      <4>4. CASE ~(m < Len(L))
        BY <3>2, <4>1, <4>4, MergeTurnStep
      <4>5. CASE m < Len(L)
        <5> HIDE DEF list, i, start, end, c1, c2
        <5>1. list[i + 1] = L[m + 1]
          BY <1>1, <3>2, <4>2, <4>3, <4>5, AtIndex
        <5>2. c1 \in Nat /\ c2 \in Nat /\ c1 < c2
          BY <3>2, <4>5, NextRange DEF c1, c2
        <5>3. end < c1
          BY <4>1, <4>5 DEF MergeEnds, end, c1
        <5>4. ~(c2 < start) /\ c1 > end
          BY <4>2, <4>3, <5>2, <5>3
        <5> QED
          BY <5>1, <5>4 DEF MergeTurn, Before, list, i, start, end, c1, c2
      <4> QED
        BY <4>4, <4>5
    <3> QED
      BY <2>1, <3>1, <3>3
  <2> QED
    BY <1>4, <2>2, <2>3
<1>5. Len(L) \in T
  <2>1. \A n \in 0 .. Len(L) : n \in T
    <3> HIDE DEF T
    <3> QED
      BY <1>1, <1>3, <1>4, LoopInduction
  <2> HIDE DEF T
  <2> QED
    BY <1>1, <2>1
<1>6. MergeEnds(L, Len(L), turn[Len(L)])
  BY <1>1 DEF MergeEnds
<1> QED
  BY <1>1, <1>2, <1>5, <1>6

\* When the loop has ended every range of the list lies left of the merged one,
\* in it or right of it.
LEMMA MergeSides ==
  ASSUME NEW D, NEW L, IsListOf(L, D), NEW m \in Nat, m <= Len(L), NEW i \in Nat,
         NEW start \in Nat, NEW end \in Nat,
         Sided(L, m, i, start, end), m < Len(L) => end < L[m + 1][1]
  PROVE  \A j \in 1 .. Len(L) :
           /\ L[j][1] \in Nat /\ L[j][2] \in Nat /\ L[j][1] < L[j][2] /\ L[j][2] <= FileSize
           /\ j <= i => L[j][2] < start
           /\ i < j /\ j <= m => start <= L[j][1] /\ L[j][2] <= end
           /\ m < j => end < L[j][1]
<1> SUFFICES ASSUME NEW j \in 1 .. Len(L)
             PROVE  /\ L[j][1] \in Nat /\ L[j][2] \in Nat /\ L[j][1] < L[j][2] /\ L[j][2] <= FileSize
                    /\ j <= i => L[j][2] < start
                    /\ i < j /\ j <= m => start <= L[j][1] /\ L[j][2] <= end
                    /\ m < j => end < L[j][1]
  OBVIOUS
<1>1. Len(L) \in Nat
  BY ListFacts
<1>2. L[j][1] \in Nat /\ L[j][2] \in Nat /\ L[j][1] < L[j][2] /\ L[j][2] <= FileSize
  BY ListFacts
<1>3. j <= i => j \in 1 .. i
  BY <1>1
<1>4. i < j /\ j <= m => j \in i + 1 .. m
  BY <1>1
<1>5. ASSUME m < j PROVE end < L[j][1]
  <2>1. m < Len(L) /\ m + 1 \in 1 .. Len(L)
    BY <1>1, <1>5
  <2>2. end < L[m + 1][1] /\ L[m + 1][1] \in Nat /\ L[m + 1][2] \in Nat /\ L[m + 1][1] < L[m + 1][2]
    BY <2>1, NextRange
  <2>3. CASE j = m + 1
    BY <2>2, <2>3
  <2>4. CASE j # m + 1
    <3>1. m + 1 < j
      BY <1>1, <1>5, <2>4
    <3>2. L[m + 1][2] < L[j][1]
      <4>1. \A x, y \in 1 .. Len(L) : x < y => L[x][2] < L[y][1]
        BY ListFacts
      <4> QED
        BY <2>1, <3>1, <4>1
    <3>3. L[j][1] \in Nat
      BY <1>2
    <3> QED
      BY <2>2, <3>2, <3>3
  <2> QED
    BY <2>3, <2>4
<1> QED
  BY <1>2, <1>3, <1>4, <1>5 DEF Sided

\* The list in which the ranges beside index i give way to the merged one.
Replaced(L, m, i, start, end, R) ==
  /\ R \in Seq(ByteRange)
  /\ Len(R) = i + 1 + (Len(L) - m)
  /\ \A j \in 1 .. i : R[j] = L[j]
  /\ R[i + 1] = <<start, end>>
  /\ \A j \in m + 1 .. Len(L) : R[i + 1 + j - m] = L[j]

\* Where its ranges come from.
LEMMA ReplacedFrom ==
  ASSUME NEW L, Len(L) \in Nat, NEW m \in Nat, m <= Len(L), NEW i \in Nat, i <= m,
         NEW start, NEW end, NEW R, Replaced(L, m, i, start, end, R), NEW a \in 1 .. Len(R)
  PROVE  \/ a \in 1 .. i /\ R[a] = L[a]
         \/ a = i + 1
         \/ \E j \in m + 1 .. Len(L) : a = i + 1 + j - m /\ R[a] = L[j]
<1>1. Len(R) = i + 1 + (Len(L) - m)
  BY DEF Replaced
<1>2. CASE a <= i
  <2>1. a \in 1 .. i
    BY <1>1, <1>2
  <2> QED
    BY <2>1 DEF Replaced
<1>3. CASE a > i + 1
  <2> DEFINE j == a - (i + 1) + m
  <2>1. j \in m + 1 .. Len(L) /\ a = i + 1 + j - m
    BY <1>1, <1>3
  <2> HIDE DEF j
  <2>2. R[a] = L[j]
    BY <2>1 DEF Replaced
  <2> QED
    BY <2>1, <2>2
<1>4. a <= i \/ a = i + 1 \/ a > i + 1
  BY <1>1
<1> QED
  BY <1>2, <1>3, <1>4

\* It is sorted, with gaps, ...
LEMMA ReplacedSorted ==
  ASSUME NEW D, NEW L, IsListOf(L, D), NEW m \in Nat, m <= Len(L), NEW i \in Nat, i <= m,
         NEW start \in Nat, NEW end \in Nat, start < end,
         Sided(L, m, i, start, end), m < Len(L) => end < L[m + 1][1],
         NEW R, Replaced(L, m, i, start, end, R),
         NEW a \in 1 .. Len(R), NEW b \in 1 .. Len(R), a < b
  PROVE  R[a][2] < R[b][1]
<1>1. Len(L) \in Nat
  BY ListFacts
<1>2. \A j \in 1 .. Len(L) : /\ j <= i => L[j][2] < start
                             /\ m < j => end < L[j][1]
  <2>1. \A j \in 1 .. Len(L) :
          /\ L[j][1] \in Nat /\ L[j][2] \in Nat /\ L[j][1] < L[j][2] /\ L[j][2] <= FileSize
          /\ j <= i => L[j][2] < start
          /\ i < j /\ j <= m => start <= L[j][1] /\ L[j][2] <= end
          /\ m < j => end < L[j][1]
    BY MergeSides
  <2> QED
    BY <2>1
<1>3. \A j, k \in 1 .. Len(L) : j < k => L[j][2] < L[k][1]
  BY ListFacts
<1>4. R[i + 1][1] = start /\ R[i + 1][2] = end
  BY DEF Replaced
<1>5. \A x \in 1 .. Len(R) : x \in Nat
  OBVIOUS
<1>6. CASE a \in 1 .. i /\ R[a] = L[a]
  <2>1. a \in 1 .. Len(L) /\ a <= i
    BY <1>1, <1>6
  <2>2. CASE b \in 1 .. i /\ R[b] = L[b]
    <3>1. b \in 1 .. Len(L)
      BY <1>1, <2>2
    <3> QED
      BY <1>3, <1>6, <2>1, <2>2, <3>1
  <2>3. CASE b = i + 1
    BY <1>2, <1>4, <1>6, <2>1, <2>3
  <2>4. CASE \E j \in m + 1 .. Len(L) : b = i + 1 + j - m /\ R[b] = L[j]
    <3>1. PICK j \in m + 1 .. Len(L) : R[b] = L[j]
      BY <2>4
    <3>2. j \in 1 .. Len(L) /\ a < j
      BY <1>1, <2>1
    <3>3. L[a][2] < L[j][1]
      BY <1>3, <2>1, <3>2
    <3> QED
      BY <1>6, <3>1, <3>3
  <2> QED
    BY <1>1, <2>2, <2>3, <2>4, ReplacedFrom
<1>7. CASE a = i + 1
  <2>1. ~(b \in 1 .. i) /\ b # i + 1
    BY <1>5, <1>7
  <2>2. PICK j \in m + 1 .. Len(L) : R[b] = L[j]
    BY <1>1, <2>1, ReplacedFrom
  <2>3. j \in 1 .. Len(L) /\ m < j
    BY <1>1
  <2> QED
    BY <1>2, <1>4, <1>7, <2>2, <2>3
<1>8. CASE \E j \in m + 1 .. Len(L) : a = i + 1 + j - m /\ R[a] = L[j]
  <2>1. PICK j \in m + 1 .. Len(L) : a = i + 1 + j - m /\ R[a] = L[j]
    BY <1>8
  <2>2. j \in 1 .. Len(L) /\ j \in Nat /\ a > i + 1
    BY <1>1, <2>1
  <2>3. ~(b \in 1 .. i) /\ b # i + 1
    BY <1>5, <2>2
  <2>4. PICK k \in m + 1 .. Len(L) : b = i + 1 + k - m /\ R[b] = L[k]
    BY <1>1, <2>3, ReplacedFrom
  <2>5. k \in 1 .. Len(L) /\ j < k
    <3>1. k \in Nat /\ k \in 1 .. Len(L)
      BY <1>1
    <3>2. i + 1 + j - m < i + 1 + k - m
      BY <2>1, <2>4
    <3>3. j < k
      BY <2>2, <3>1, <3>2
    <3> QED
      BY <3>1, <3>3
  <2>6. L[j][2] < L[k][1]
    BY <1>3, <2>2, <2>5
  <2> QED
    BY <2>1, <2>4, <2>6
<1> QED
  BY <1>1, <1>6, <1>7, <1>8, ReplacedFrom

\* The byte b is one of those of [s, e) or of D just if it is in a range of R.
AddedTo(D, s, e, R, b) ==
  (b \in D \/ (s <= b /\ b < e)) <=> \E a \in 1 .. Len(R) : R[a][1] <= b /\ b < R[a][2]

\* ... and holds the bytes of the list and those of [s, e).
LEMMA ReplacedBytes ==
  ASSUME NEW D \in SUBSET Bytes, NEW L, IsListOf(L, D), NEW s \in Nat, NEW e \in Nat, s < e,
         NEW m \in Nat, m <= Len(L), NEW i \in Nat, i <= m,
         NEW start \in Nat, NEW end \in Nat, Grown(D, s, e, start, end),
         Sided(L, m, i, start, end), m < Len(L) => end < L[m + 1][1],
         NEW R, Replaced(L, m, i, start, end, R),
         NEW b \in Bytes
  PROVE  AddedTo(D, s, e, R, b)
<1>1. Len(L) \in Nat /\ b \in Nat /\ Len(R) = i + 1 + (Len(L) - m)
  BY ListFacts, BytesNat DEF Replaced
<1>2. \A j \in 1 .. Len(L) : i < j /\ j <= m => start <= L[j][1] /\ L[j][2] <= end
  BY MergeSides
<1>3. b \in D <=> \E j \in 1 .. Len(L) : L[j][1] <= b /\ b < L[j][2]
  BY ListFacts
<1>4. R[i + 1][1] = start /\ R[i + 1][2] = end /\ i + 1 \in 1 .. Len(R)
  BY <1>1 DEF Replaced
<1>5. start <= s /\ e <= end
  BY DEF Grown
<1>6. ASSUME s <= b, b < e
      PROVE  R[i + 1][1] <= b /\ b < R[i + 1][2]
  BY <1>1, <1>4, <1>5, <1>6
<1>7. ASSUME NEW j \in 1 .. Len(L), L[j][1] <= b, b < L[j][2]
      PROVE  \E a \in 1 .. Len(R) : R[a][1] <= b /\ b < R[a][2]
  <2>1. CASE j <= i
    <3>1. j \in 1 .. i /\ j \in 1 .. Len(R)
      BY <1>1, <2>1
    <3>2. R[j] = L[j]
      BY <3>1 DEF Replaced
    <3> QED
      BY <1>7, <3>1, <3>2
  <2>2. CASE i < j /\ j <= m
    <3>1. start <= L[j][1] /\ L[j][2] <= end
      BY <1>2, <2>2
    <3>2. L[j][1] \in Nat /\ L[j][2] \in Nat
      BY ListFacts
    <3>3. start <= b /\ b < end
      <4>1. b \in Nat
        BY <1>1
      <4>2. L[j][1] <= b /\ b < L[j][2]
        BY <1>7
      <4> QED
        BY <3>1, <3>2, <4>1, <4>2
    <3> QED
      BY <1>4, <3>3
  <2>3. CASE m < j
    <3> DEFINE a == i + 1 + j - m
    <3>1. a \in 1 .. Len(R) /\ j \in m + 1 .. Len(L)
      BY <1>1, <2>3
    <3>2. R[a] = L[j]
      BY <3>1 DEF Replaced
    <3> HIDE DEF a
    <3> QED
      BY <1>7, <3>1, <3>2
  <2>4. j <= i \/ (i < j /\ j <= m) \/ m < j
    BY <1>1
  <2> QED
    BY <2>1, <2>2, <2>3, <2>4
<1>8. ASSUME NEW a \in 1 .. Len(R), R[a][1] <= b, b < R[a][2]
      PROVE  b \in D \/ (s <= b /\ b < e)
  <2>1. CASE a = i + 1
    <3>1. start <= b /\ b < end
      BY <1>4, <1>8, <2>1
    <3>2. (start <= b /\ b < s) \/ (e <= b /\ b < end) \/ (s <= b /\ b < e)
      BY <1>1, <3>1
    <3>3. (start <= b /\ b < s) \/ (e <= b /\ b < end) => b \in D
      BY DEF Grown
    <3> QED
      BY <3>2, <3>3
  <2>2. CASE \E j \in 1 .. Len(L) : R[a] = L[j]
    BY <1>3, <1>8, <2>2
  <2>3. a = i + 1 \/ \E j \in 1 .. Len(L) : R[a] = L[j]
    <3>1. 1 .. i \subseteq 1 .. Len(L) /\ m + 1 .. Len(L) \subseteq 1 .. Len(L)
      <4>1. Len(L) \in Nat /\ i <= Len(L)
        BY <1>1
      <4>2. \A n \in 1 .. i : n \in 1 .. Len(L)
        BY <4>1
      <4>3. \A n \in m + 1 .. Len(L) : n \in 1 .. Len(L)
        BY <4>1
      <4> QED
        BY <4>2, <4>3
    <3> QED
      BY <1>1, <3>1, ReplacedFrom
  <2> QED
    BY <2>1, <2>2, <2>3
<1> QED
  BY <1>3, <1>4, <1>6, <1>7, <1>8 DEF AddedTo

\* The merged range is the one of the set form.
LEMMA MergedIs ==
  ASSUME NEW D \in SUBSET Bytes, NEW L, IsListOf(L, D), NEW s \in Nat, NEW e \in Nat, s < e,
         NEW m \in Nat, m <= Len(L), NEW i \in Nat, i <= m,
         NEW start \in Nat, NEW end \in Nat, Grown(D, s, e, start, end),
         Sided(L, m, i, start, end), m < Len(L) => end < L[m + 1][1]
  PROVE  MergedRange(D, s, e) = Interval(start, end)
<1>1. FileSize \in Nat /\ Len(L) \in Nat /\ start <= s /\ e <= end /\ end <= FileSize
  BY ListFacts, RangeAssumption DEF Grown
<1>2. \A b \in Bytes : b \in Nat /\ b < FileSize
  BY BytesNat
<1>3. ASSUME NEW j \in 1 .. Len(L)
      PROVE  /\ L[j][1] \in Nat /\ L[j][2] \in Nat /\ L[j][1] < L[j][2]
             /\ L[j][2] < start \/ (start <= L[j][1] /\ L[j][2] <= end) \/ end < L[j][1]
  <2>1. j <= i \/ (i < j /\ j <= m) \/ m < j
    BY <1>1
  <2> QED
    BY <2>1, MergeSides
<1>4. ASSUME NEW x \in Bytes, x = end \/ x + 1 = start PROVE x \notin D
  <2> SUFFICES ASSUME NEW j \in 1 .. Len(L), L[j][1] <= x, x < L[j][2] PROVE FALSE
    BY ListFacts
  <2>1. /\ L[j][1] \in Nat /\ L[j][2] \in Nat /\ L[j][1] < L[j][2]
        /\ L[j][2] < start \/ (start <= L[j][1] /\ L[j][2] <= end) \/ end < L[j][1]
    BY <1>3
  <2>2. x \in Nat /\ start < end
    BY <1>1, <1>2
  <2>3. CASE x = end
    BY <2>1, <2>2, <2>3
  <2>4. CASE x + 1 = start
    BY <2>1, <2>2, <2>4
  <2> QED
    BY <1>4, <2>3, <2>4
<1>5. ASSUME NEW b \in Bytes, start <= b, b < end
      PROVE  b \in MergedRange(D, s, e)
  <2>1. \A c \in Bytes : (b <= c /\ c < s) \/ (e <= c /\ c <= b) => c \in D
    <3> SUFFICES ASSUME NEW c \in Bytes, (b <= c /\ c < s) \/ (e <= c /\ c <= b) PROVE c \in D
      OBVIOUS
    <3>1. (start <= c /\ c < s) \/ (e <= c /\ c < end)
      BY <1>2, <1>5
    <3> QED
      BY <3>1 DEF Grown
  <2>2. (start <= b /\ b < s) \/ (e <= b /\ b < end) \/ (s <= b /\ b < e)
    BY <1>2, <1>5
  <2>3. b \in D \cup Interval(s, e)
    BY <2>2 DEF Grown, Interval
  <2> QED
    BY <2>1, <2>3 DEF MergedRange
<1>6. ASSUME NEW b \in Bytes, b \in MergedRange(D, s, e)
      PROVE  start <= b /\ b < end
  <2>1. \A c \in Bytes : (b <= c /\ c < s) \/ (e <= c /\ c <= b) => c \in D
    BY <1>6 DEF MergedRange
  <2>2. start <= b
    <3> SUFFICES ASSUME b < start PROVE FALSE
      BY <1>2
    <3> DEFINE x == start - 1
    <3>1. x \in Nat /\ b <= x /\ x < s /\ x + 1 = start /\ x < FileSize
      BY <1>1, <1>2
    <3> HIDE DEF x
    <3>2. x \in Bytes
      BY <1>1, <3>1 DEF Bytes
    <3> QED
      BY <1>4, <2>1, <3>1, <3>2
  <2>3. b < end
    <3> SUFFICES ASSUME end <= b PROVE FALSE
      BY <1>2
    <3>1. end \in Bytes
      BY <1>1, <1>2 DEF Bytes
    <3> QED
      BY <1>1, <1>4, <2>1, <3>1
  <2> QED
    BY <2>2, <2>3
<1>7. MergedRange(D, s, e) \subseteq Bytes
  BY DEF MergedRange, Interval
<1> QED
  BY <1>5, <1>6, <1>7 DEF Interval

\* The merge loop and the insert after it, on the list of the bytes D.
LEMMA MergedList ==
  ASSUME NEW D \in SUBSET Bytes, NEW L, IsListOf(L, D),
         NEW s \in Nat, NEW e \in Nat, s < e, e <= FileSize
  PROVE  LET at == Scan(L, s, e)
         IN  /\ IsListOf(InsertAt(at.list, at.i + 1, <<at.start, at.end>>), D \cup Interval(s, e))
             /\ at.end - at.start = Cardinality(MergedRange(D, s, e))
<1> DEFINE at == Scan(L, s, e)
           list == at.list
           i == at.i
           start == at.start
           end == at.end
           x == <<start, end>>
           R == InsertAt(list, i + 1, x)
<1>1. PICK m \in 0 .. Len(L) : MergeAt(L, D, s, e, m, at) /\ MergeEnds(L, m, at)
  BY MergeLoop
<1>2. /\ list \in Seq(ByteRange) /\ i \in Nat /\ start \in Nat /\ end \in Nat
      /\ LeftOver(L, m, list, i) /\ Grown(D, s, e, start, end) /\ Sided(L, m, i, start, end)
      /\ m < Len(L) => end < L[m + 1][1]
  BY <1>1 DEF MergeAt, MergeStates, MergeEnds
<1>3. Len(L) \in Nat /\ m \in Nat /\ m <= Len(L) /\ i <= m
  <2>1. Len(L) \in Nat
    BY ListFacts
  <2> QED
    BY <1>2, <2>1 DEF LeftOver
<1> HIDE DEF at, list, i, start, end
<1>4. /\ start \in Bytes /\ end \in 1 .. FileSize /\ start < end
      /\ x \in ByteRange
  <2>1. start <= s /\ e <= end /\ end <= FileSize
    BY <1>2 DEF Grown
  <2>2. FileSize \in Nat /\ start \in Nat /\ end \in Nat
    BY <1>2, RangeAssumption
  <2>3. start \in Bytes /\ end \in 1 .. FileSize /\ start < end
    BY <2>1, <2>2 DEF Bytes
  <2> QED
    BY <2>3 DEF ByteRange
<1> DEFINE n == i + (Len(L) - m)
<1>5. Len(list) = n /\ n \in Nat /\ i + 1 \in 1 .. n + 1
  BY <1>2, <1>3 DEF LeftOver
<1>6. Replaced(L, m, i, start, end, R)
  <2> HIDE DEF x
  <2>1. /\ R \in Seq(ByteRange)
        /\ Len(R) = n + 1
        /\ \A j \in 1 .. n + 1 : R[j] = IF j < i + 1 THEN list[j] ELSE IF j = i + 1 THEN x ELSE list[j - 1]
    <3>1. i + 1 \in 1 .. Len(list) + 1
      BY <1>5
    <3>2. /\ R \in Seq(ByteRange)
          /\ Len(R) = Len(list) + 1
          /\ \A j \in 1 .. Len(list) + 1 :
               R[j] = IF j < i + 1 THEN list[j] ELSE IF j = i + 1 THEN x ELSE list[j - 1]
      <4>1. list \in Seq(ByteRange) /\ x \in ByteRange
        BY <1>2, <1>4
      <4> DEFINE k == i + 1
      <4> HIDE DEF k
      <4>2. k \in 1 .. Len(list) + 1
        BY <3>1 DEF k
      <4>3. /\ InsertAt(list, k, x) \in Seq(ByteRange)
            /\ Len(InsertAt(list, k, x)) = Len(list) + 1
            /\ \A j \in 1 .. Len(list) + 1 :
                 InsertAt(list, k, x)[j] = IF j < k THEN list[j] ELSE IF j = k THEN x ELSE list[j - 1]
        BY <4>1, <4>2, InsertFacts
      <4> QED
        BY <4>3 DEF k
    <3> HIDE DEF R, n
    <3> QED
      BY <1>5, <3>2
  <2> HIDE DEF R
  <2>2. Len(R) = i + 1 + (Len(L) - m)
    BY <1>2, <1>3, <2>1
  <2>3. ASSUME NEW j \in 1 .. i PROVE R[j] = L[j]
    <3>1. j \in 1 .. n + 1 /\ j < i + 1
      BY <1>2, <1>3
    <3>2. R[j] = list[j]
      BY <2>1, <3>1
    <3> QED
      BY <1>2, <3>2 DEF LeftOver
  <2>4. R[i + 1] = x
    <3>1. ~(i + 1 < i + 1)
      BY <1>2
    <3> QED
      BY <1>5, <2>1, <3>1
  <2>5. ASSUME NEW j \in m + 1 .. Len(L) PROVE R[i + 1 + j - m] = L[j]
    <3> DEFINE k == i + 1 + j - m
    <3>1. k \in 1 .. n + 1 /\ ~(k < i + 1) /\ k # i + 1 /\ k - 1 = i + j - m
      BY <1>2, <1>3
    <3> HIDE DEF k, n
    <3>2. R[k] = list[k - 1]
      BY <2>1, <3>1
    <3>3. list[k - 1] = L[j]
      BY <1>2, <3>1 DEF LeftOver
    <3> QED
      BY <3>2, <3>3 DEF k
  <2> QED
    BY <2>1, <2>2, <2>3, <2>4, <2>5 DEF Replaced, x
<1> HIDE DEF R, n, x
<1>7. IsListOf(R, D \cup Interval(s, e))
  <2>1. R \in Seq(ByteRange)
    BY <1>6 DEF Replaced
  <2>2. DOMAIN R = 1 .. Len(R)
    BY <2>1, LenProperties
  <2>3. \A a, b \in DOMAIN R : a < b => R[a][2] < R[b][1]
    BY <1>2, <1>3, <1>4, <1>6, <2>2, ReplacedSorted
  <2>4. \A b \in Bytes :
          (b \in D \/ (s <= b /\ b < e)) <=> \E a \in 1 .. Len(R) : R[a][1] <= b /\ b < R[a][2]
    <3> SUFFICES ASSUME NEW b \in Bytes
                 PROVE  AddedTo(D, s, e, R, b)
      BY DEF AddedTo
    <3>1. /\ Grown(D, s, e, start, end) /\ Sided(L, m, i, start, end)
          /\ m < Len(L) => end < L[m + 1][1]
      BY <1>2
    <3>2. i \in Nat /\ start \in Nat /\ end \in Nat
      BY <1>2
    <3>3. m \in Nat /\ m <= Len(L) /\ i <= m
      BY <1>3
    <3> QED
      BY <1>6, <3>1, <3>2, <3>3, ReplacedBytes, ZenonT(30)
  <2>5. BytesOf(R) = D \cup Interval(s, e)
    BY <2>2, <2>4 DEF BytesOf, Interval
  <2> QED
    BY <2>1, <2>3, <2>5 DEF IsListOf
<1>8. MergedRange(D, s, e) = Interval(start, end)
  BY <1>2, <1>3, MergedIs
<1>9. Cardinality(Interval(start, end)) = end - start
  BY <1>4, IntervalCardinality
<1>10. IsListOf(R, D \cup Interval(s, e)) /\ end - start = Cardinality(MergedRange(D, s, e))
  BY <1>7, <1>8, <1>9
<1> QED
  BY <1>10 DEF R, x, list, i, start, end, at

\* The overlap of two ranges is the bytes they share.
LEMMA SharedBytesIs ==
  ASSUME NEW c \in ByteRange, NEW s \in Nat, NEW e \in Nat, s < e, e <= FileSize
  PROVE  /\ SharedBytes(c, s, e) \in Nat
         /\ IsFiniteSet(Interval(c[1], c[2]) \cap Interval(s, e))
         /\ Cardinality(Interval(c[1], c[2]) \cap Interval(s, e)) = SharedBytes(c, s, e)
<1> DEFINE lo == IF c[1] <= s THEN s ELSE c[1]
           hi == IF c[2] <= e THEN c[2] ELSE e
           I == Interval(c[1], c[2]) \cap Interval(s, e)
<1>1. c[1] \in Nat /\ c[2] \in Nat /\ c[1] < c[2] /\ c[2] <= FileSize /\ FileSize \in Nat
  BY RangeFacts, RangeAssumption
<1>2. \A b \in Bytes : b \in Nat
  BY BytesNat
<1>3. CASE c[1] < e /\ s < c[2]
  <2>1. Greatest({c[1], s}) = lo /\ Least({c[2], e}) = hi
    BY <1>1, OfTwo
  <2>2. SharedBytes(c, s, e) = hi - lo
    BY <1>3, <2>1 DEF SharedBytes
  <2>3. lo \in Bytes /\ hi \in 1 .. FileSize /\ lo < hi /\ hi - lo \in Nat
    BY <1>1, <1>3 DEF Bytes
  <2>4. I = Interval(lo, hi)
    BY <1>1, <1>2 DEF Interval
  <2> HIDE DEF lo, hi, I
  <2>5. IsFiniteSet(I) /\ Cardinality(I) = hi - lo
    BY <2>3, <2>4, IntervalCardinality
  <2> QED
    BY <2>2, <2>3, <2>5 DEF I
<1>4. CASE ~(c[1] < e /\ s < c[2])
  <2>1. I = {}
    BY <1>1, <1>2, <1>4 DEF Interval
  <2>2. SharedBytes(c, s, e) = 0
    BY <1>4 DEF SharedBytes
  <2> QED
    BY <2>1, <2>2, FS_EmptySet
<1> QED
  BY <1>3, <1>4

\* covered: the sum over the ranges is the number of bytes of [s, e) in D.
LEMMA CoveredIs ==
  ASSUME NEW D \in SUBSET Bytes, NEW L, IsListOf(L, D),
         NEW s \in Nat, NEW e \in Nat, s < e, e <= FileSize
  PROVE  Covered(L, s, e) = Cardinality(D \cap Interval(s, e))
<1> DEFINE N == Len(L)
           G == [n \in 1 .. N |-> [x \in Nat |-> x + SharedBytes(L[n], s, e)]]
           Turns(f) == f = [n \in 0 .. N |-> IF n = 0 THEN 0 ELSE f[n - 1] + SharedBytes(L[n], s, e)]
           sum == CHOOSE f : Turns(f)
           I == Interval(s, e)
           Upto(n) == {b \in I : \E j \in 1 .. n : L[j][1] <= b /\ b < L[j][2]}
<1>1. N \in Nat /\ \A n \in 1 .. N : L[n] \in ByteRange
  BY ListFacts
<1>2. \A n \in 1 .. N : SharedBytes(L[n], s, e) \in Nat
  BY <1>1, SharedBytesIs
<1>3. PICK f : IsLoop(f, N, Nat, 0, G)
  <2>1. IsTurns(G, N, Nat)
    BY <1>2 DEF IsTurns
  <2> HIDE DEF G, N
  <2> QED
    BY <1>1, <2>1, LoopExists
<1>4. f \in [0 .. N -> Nat] /\ f[0] = 0 /\ \A n \in 1 .. N : f[n] = G[n][f[n - 1]]
  BY <1>3 DEF IsLoop
<1>5. ASSUME NEW n \in 1 .. N
      PROVE  f[n] = f[n - 1] + SharedBytes(L[n], s, e)
  <2>1. n - 1 \in 0 .. N
    BY <1>1
  <2>2. f[n - 1] \in Nat
    BY <1>4, <2>1
  <2>3. G[n][f[n - 1]] = f[n - 1] + SharedBytes(L[n], s, e)
    BY <2>2
  <2> HIDE DEF G
  <2> QED
    BY <1>4, <2>3
<1>6. Turns(f)
  <2>1. f = [n \in 0 .. N |-> f[n]]
    BY <1>4
  <2>2. \A n \in 0 .. N : n # 0 => n \in 1 .. N
    BY <1>1
  <2> HIDE DEF N, G
  <2> QED
    BY <1>4, <1>5, <2>1, <2>2
<1>7. Turns(sum)
  <2> HIDE DEF Turns
  <2> QED
    BY <1>6
<1>8. Covered(L, s, e) = sum[N]
  BY DEF Covered
<1> HIDE DEF sum, G
<1>9. \A n \in 0 .. N : sum[n] = IF n = 0 THEN 0 ELSE sum[n - 1] + SharedBytes(L[n], s, e)
  BY <1>7
<1> HIDE DEF Turns
<1>10. \A j, k \in 1 .. N : j < k => L[j][2] < L[k][1]
  BY ListFacts
<1>11. IsFiniteSet(I) /\ \A n \in 0 .. N : Upto(n) \subseteq I
  <2>1. I \subseteq Bytes
    BY DEF Interval
  <2> QED
    BY <2>1, BytesFinite, FS_Subset
<1> DEFINE T == {n \in 0 .. N : sum[n] = Cardinality(Upto(n))}
<1>12. 0 \in T
  <2>1. Upto(0) = {}
    OBVIOUS
  <2>2. 0 \in 0 .. N /\ sum[0] = 0
    BY <1>1, <1>9
  <2>3. sum[0] = Cardinality(Upto(0))
    BY <2>1, <2>2, FS_EmptySet
  <2> HIDE DEF N, Upto
  <2> QED
    BY <2>2, <2>3
<1>13. ASSUME NEW n \in 1 .. N, n - 1 \in T
       PROVE  n \in T
  <2> DEFINE J == Interval(L[n][1], L[n][2]) \cap I
             P == Upto(n - 1)
             Q == Upto(n)
             v == SharedBytes(L[n], s, e)
  <2>1. n - 1 \in 0 .. N /\ n # 0 /\ n \in 0 .. N
    BY <1>1
  <2>2. sum[n] = sum[n - 1] + v
    BY <1>9, <2>1
  <2>3. sum[n - 1] = Cardinality(P)
    BY <1>13
  <2>4. IsFiniteSet(J) /\ Cardinality(J) = v /\ v \in Nat
    BY <1>1, SharedBytesIs
  <2>5. IsFiniteSet(P) /\ Cardinality(P) \in Nat
    BY <1>11, <2>1, FS_Subset, FS_CardinalityType
  <2>6. Q = P \cup J
    <3>1. \A j : j \in 1 .. n <=> j \in 1 .. n - 1 \/ j = n
      BY <2>1
    <3>2. \A b \in I : b \in Bytes
      BY DEF Interval
    <3> QED
      BY <3>1, <3>2 DEF Interval
  <2>7. P \cap J = {}
    <3> SUFFICES ASSUME NEW b \in P, b \in J PROVE FALSE
      OBVIOUS
    <3>1. PICK j \in 1 .. n - 1 : L[j][1] <= b /\ b < L[j][2]
      OBVIOUS
    <3>2. b \in Bytes /\ L[n][1] <= b
      BY DEF Interval
    <3>3. j \in 1 .. N /\ j < n
      BY <1>1, <2>1
    <3>4. L[j][2] < L[n][1]
      BY <1>10, <3>3
    <3>5. b \in Nat /\ L[j][2] \in Nat /\ L[n][1] \in Nat
      BY <1>1, <3>2, <3>3, BytesNat, RangeFacts
    <3> QED
      BY <3>1, <3>2, <3>4, <3>5
  <2> HIDE DEF J, P, Q, v
  <2>8. Cardinality(P \cap J) = 0
    BY <2>7, FS_EmptySet
  <2>9. Cardinality(Q) = Cardinality(P) + Cardinality(J) - Cardinality(P \cap J)
    BY <2>4, <2>5, <2>6, FS_Union
  <2>10. sum[n] = Cardinality(Q)
    BY <2>2, <2>3, <2>4, <2>5, <2>8, <2>9
  <2> QED
    BY <2>1, <2>10 DEF Q
<1>14. \A n \in 0 .. N : n \in T
  <2> HIDE DEF T, N
  <2> QED
    BY <1>1, <1>12, <1>13, LoopInduction
<1>15. Upto(N) = D \cap I
  <2>1. \A b \in I : b \in Bytes
    BY DEF Interval
  <2>2. \A b \in Bytes : b \in D <=> \E j \in 1 .. N : L[j][1] <= b /\ b < L[j][2]
    BY ListFacts
  <2> QED
    BY <2>1, <2>2
<1>16. N \in T
  BY <1>1, <1>14
<1> QED
  BY <1>8, <1>15, <1>16

\* merge_range on the list of D is the list of D and the new bytes, and returns
\* what the set form returns.
LEMMA MergeRangeListIs ==
  ASSUME NEW D \in SUBSET Bytes, NEW L, IsListOf(L, D),
         NEW s \in 0 .. FileSize, NEW e \in 0 .. FileSize
  PROVE  LET merged == merge_range_list(L, s, e)
         IN  /\ IsListOf(merged.list, D \cup Interval(s, e))
             /\ merged.result = IF s < e THEN merge_range(D, s, e) ELSE 0
<1>1. s \in Nat /\ e \in Nat /\ e <= FileSize /\ (e <= s \/ s < e)
  BY RangeAssumption
<1>2. CASE e <= s
  <2>1. ~(s < e)
    BY <1>1, <1>2
  <2>2. Interval(s, e) = {}
    <3>1. ASSUME NEW b \in Nat PROVE ~(s <= b /\ b < e)
      BY <1>1, <1>2
    <3>2. \A b \in Bytes : ~(s <= b /\ b < e)
      BY <3>1, BytesNat
    <3> QED
      BY <3>2 DEF Interval
  <2>3. D \cup Interval(s, e) = D
    BY <2>2
  <2> QED
    BY <1>2, <2>1, <2>3 DEF merge_range_list
<1>3. CASE s < e
  <2> DEFINE at == Scan(L, s, e)
             R == InsertAt(at.list, at.i + 1, <<at.start, at.end>>)
  <2>1. ~(e <= s)
    BY <1>1, <1>3
  <2>2. IsListOf(R, D \cup Interval(s, e)) /\ at.end - at.start = Cardinality(MergedRange(D, s, e))
    BY <1>1, <1>3, MergedList
  <2>3. Covered(L, s, e) = Cardinality(D \cap Interval(s, e))
    BY <1>1, <1>3, CoveredIs
  <2>4. merge_range_list(L, s, e) = [list |-> R, result |-> (at.end - at.start) - Covered(L, s, e)]
    BY <2>1 DEF merge_range_list
  <2> HIDE DEF at, R
  <2>5. (at.end - at.start) - Covered(L, s, e) = merge_range(D, s, e)
    BY <2>2, <2>3 DEF merge_range
  <2> QED
    BY <1>3, <2>2, <2>4, <2>5
<1> QED
  BY <1>1, <1>2, <1>3

-----------------------------------------------------------------------------
(* Every set of bytes has its list.                                        *)

\* The list of no bytes.
LEMMA EmptyList == IsListOf(<<>>, {})
<1>1. <<>> \in Seq(ByteRange) /\ DOMAIN <<>> = {}
  OBVIOUS
<1> QED
  BY <1>1 DEF IsListOf, BytesOf

\* merge_range builds the list of any bytes, one by one.
LEMMA HasList ==
  ASSUME NEW D \in SUBSET Bytes
  PROVE  \E L : IsListOf(L, D)
<1> DEFINE Listed(n) == \A S \in SUBSET Bytes : (\A b \in S : b < n) => \E L : IsListOf(L, S)
           T == {n \in 0 .. FileSize : Listed(n)}
<1>1. FileSize \in Nat /\ \A b \in Bytes : b \in Nat /\ b < FileSize
  BY BytesNat, RangeAssumption
<1>2. 0 \in T
  <2>1. ASSUME NEW S \in SUBSET Bytes, \A b \in S : b < 0 PROVE S = {}
    BY <1>1, <2>1
  <2>2. Listed(0)
    BY <2>1, EmptyList
  <2> QED
    BY <1>1, <2>2
<1>3. ASSUME NEW n \in 1 .. FileSize, n - 1 \in T
      PROVE  n \in T
  <2>1. Listed(n - 1) /\ n - 1 \in Nat /\ n - 1 \in 0 .. FileSize /\ n \in 0 .. FileSize /\ n - 1 \in Bytes
        /\ n - 1 < n
    BY <1>1, <1>3 DEF Bytes
  <2>2. ASSUME NEW S \in SUBSET Bytes, \A b \in S : b < n
        PROVE  \E L : IsListOf(L, S)
    <3> DEFINE S1 == S \ {n - 1}
    <3>1. \A b \in S1 : b < n - 1
      BY <1>1, <2>1, <2>2
    <3>2. PICK L : IsListOf(L, S1)
      BY <2>1, <3>1
    <3>3. CASE n - 1 \notin S
      <4>1. S1 = S
        BY <3>3
      <4> QED
        BY <3>2, <4>1
    <3>4. CASE n - 1 \in S
      <4>1. Interval(n - 1, n) = {n - 1}
        <5>1. ASSUME NEW b \in Nat PROVE (n - 1 <= b /\ b < n) <=> b = n - 1
          OBVIOUS
        <5> QED
          BY <1>1, <2>1, <5>1 DEF Interval
      <4>2. S1 \cup Interval(n - 1, n) = S
        BY <3>4, <4>1
      <4>3. S1 \in SUBSET Bytes
        OBVIOUS
      <4> HIDE DEF S1
      <4>4. IsListOf(merge_range_list(L, n - 1, n).list, S1 \cup Interval(n - 1, n))
        BY <2>1, <3>2, <4>3, MergeRangeListIs
      <4> QED
        BY <4>2, <4>4
    <3> QED
      BY <3>3, <3>4
  <2> QED
    BY <2>1, <2>2
<1>4. \A n \in 0 .. FileSize : n \in T
  <2> HIDE DEF T
  <2> QED
    BY <1>1, <1>2, <1>3, LoopInduction
<1>5. Listed(FileSize)
  BY <1>1, <1>4
<1> QED
  BY <1>1, <1>5

\* A list has no more ranges than the file has bytes.
LEMMA ListLength ==
  ASSUME NEW D, NEW L, IsListOf(L, D)
  PROVE  Len(L) <= FileSize
<1> DEFINE N == Len(L)
           T == {n \in 0 .. N : n = 0 \/ n - 1 <= L[n][1]}
<1>1. /\ N \in Nat
      /\ \A j \in 1 .. N : L[j][1] \in Nat /\ L[j][2] \in Nat /\ L[j][1] < L[j][2] /\ L[j][2] <= FileSize
      /\ \A j, k \in 1 .. N : j < k => L[j][2] < L[k][1]
  BY ListFacts
<1> HIDE DEF N
<1>2. 0 \in T
  BY <1>1
<1>3. ASSUME NEW n \in 1 .. N, n - 1 \in T
      PROVE  n \in T
  <2>1. n \in 0 .. N /\ L[n][1] \in Nat
    BY <1>1
  <2>2. CASE n = 1
    BY <2>1, <2>2
  <2>3. CASE n # 1
    <3>1. n - 1 \in 1 .. N /\ n - 1 < n /\ n - 1 # 0
      BY <1>1, <2>3
    <3>2. (n - 1) - 1 <= L[n - 1][1]
      BY <1>3, <3>1
    <3>3. /\ L[n - 1][1] \in Nat /\ L[n - 1][2] \in Nat
          /\ L[n - 1][1] < L[n - 1][2] /\ L[n - 1][2] < L[n][1]
      BY <1>1, <3>1
    <3>4. n - 1 <= L[n][1]
      BY <2>1, <3>2, <3>3
    <3> QED
      BY <2>1, <3>4
  <2> QED
    BY <2>2, <2>3
<1>4. \A n \in 0 .. N : n \in T
  <2> HIDE DEF T
  <2> QED
    BY <1>1, <1>2, <1>3, LoopInduction
<1>5. CASE N = 0
  BY <1>5, RangeAssumption DEF N
<1>6. CASE N # 0
  <2>1. N \in T /\ N \in 1 .. N
    BY <1>1, <1>4, <1>6
  <2>2. N - 1 <= L[N][1]
    BY <1>6, <2>1
  <2>3. L[N][1] \in Nat /\ L[N][2] \in Nat /\ L[N][1] < L[N][2] /\ L[N][2] <= FileSize
    BY <1>1, <2>1
  <2>4. N <= FileSize
    BY <1>1, <2>2, <2>3, RangeAssumption
  <2> QED
    BY <2>4 DEF N
<1> QED
  BY <1>5, <1>6

-----------------------------------------------------------------------------
(* take_batch's loop on one list.                                          *)

\* The states of the loop.
TakeStates == [list : Seq(ByteRange), window_left : Nat, out : Seq(ByteRange)]

\* A piece is a byte at least, and no more than is left of the range, of a
\* chunk or of the window; it is as much as one of them.
LEMMA PieceSizeIs ==
  ASSUME NEW left \in Nat, left > 0, NEW w \in Nat, w > 0
  PROVE  /\ PieceSize(left, w) \in Nat /\ PieceSize(left, w) > 0
         /\ PieceSize(left, w) <= left /\ PieceSize(left, w) <= CHUNK_MAX /\ PieceSize(left, w) <= w
         /\ PieceSize(left, w) = left \/ PieceSize(left, w) = CHUNK_MAX \/ PieceSize(left, w) = w
<1> DEFINE S == {left, CHUNK_MAX, w}
<1>1. CHUNK_MAX \in Nat /\ CHUNK_MAX > 0
  BY RangeAssumption
<1>2. S \in SUBSET Nat /\ S # {}
  BY <1>1
<1>3. Least(S) \in S /\ \A m \in S : Least(S) <= m
  <2> HIDE DEF S
  <2> QED
    BY <1>2, LeastFacts
<1>4. PieceSize(left, w) = Least(S)
  BY DEF PieceSize
<1> HIDE DEF PieceSize
<1> QED
  BY <1>1, <1>3, <1>4

\* What is left of a list once its front range, which ends at e, is taken to mid.
Rest(list, mid, e) == IF e > mid THEN [list EXCEPT ![1] = <<mid, e>>] ELSE Tail(list)

\* A turn of the loop, when there is something to take.
LEMMA TakeTurnIs ==
  ASSUME NEW at \in TakeStates, at.list # <<>>, at.window_left # 0
  PROVE  \E s \in Nat, e \in Nat, size \in Nat :
           /\ at.list[1] = <<s, e>> /\ <<s, e>> \in ByteRange
           /\ s < e /\ e <= FileSize
           /\ size > 0 /\ s + size <= e /\ size <= CHUNK_MAX /\ size <= at.window_left
           /\ s + size = e \/ size = CHUNK_MAX \/ size = at.window_left
           /\ <<s, s + size>> \in ByteRange
           /\ TakeTurn(at) =
                [list |-> Rest(at.list, s + size, e),
                 window_left |-> at.window_left - size,
                 out |-> Append(at.out, <<s, s + size>>)]
<1> DEFINE s == at.list[1][1]
           e == at.list[1][2]
           size == PieceSize(e - s, at.window_left)
<1>1. at.list \in Seq(ByteRange) /\ at.window_left \in Nat
  BY DEF TakeStates
<1>2. Len(at.list) \in Nat /\ Len(at.list) # 0
  BY <1>1, LenProperties, EmptySeq
<1>3. at.list[1] \in ByteRange
  <2>1. 1 \in 1 .. Len(at.list)
    BY <1>2
  <2> QED
    BY <1>1, <2>1, ElementOfSeq
<1>4. s \in Nat /\ e \in Nat /\ s < e /\ e <= FileSize /\ at.list[1] = <<s, e>>
  BY <1>3, RangeFacts
<1>5. TakeTurn(at) =
        [list |-> Rest(at.list, s + size, e),
         window_left |-> at.window_left - size,
         out |-> Append(at.out, <<s, s + size>>)]
  BY DEF TakeTurn, Rest
<1> HIDE DEF s, e
<1>6. at.window_left > 0 /\ e - s \in Nat /\ e - s > 0
  BY <1>1, <1>4
<1>7. /\ size \in Nat /\ size > 0
      /\ size <= e - s /\ size <= CHUNK_MAX /\ size <= at.window_left
      /\ size = e - s \/ size = CHUNK_MAX \/ size = at.window_left
  BY <1>1, <1>6, PieceSizeIs
<1> HIDE DEF size
<1>8. s + size <= e /\ (s + size = e \/ size = CHUNK_MAX \/ size = at.window_left)
  BY <1>4, <1>7
<1>9. <<s, s + size>> \in ByteRange
  <2>1. s + size \in 1 .. FileSize /\ s < s + size /\ s \in Bytes
    BY <1>4, <1>7, <1>8, RangeAssumption DEF Bytes
  <2> QED
    BY <2>1 DEF ByteRange
<1> QED
  BY <1>3, <1>4, <1>5, <1>7, <1>8, <1>9

\* The list after a turn.
LEMMA ListTaken ==
  ASSUME NEW list \in Seq(ByteRange), list # <<>>, NEW s \in Nat, NEW e \in Nat, NEW mid \in Nat,
         list[1] = <<s, e>>, s < mid, mid <= e, e <= FileSize
  PROVE  LET to == Rest(list, mid, e)
         IN  /\ to \in Seq(ByteRange)
             /\ e > mid => /\ Len(to) = Len(list)
                           /\ to[1] = <<mid, e>>
                           /\ \A j \in 2 .. Len(list) : to[j] = list[j]
             /\ ~(e > mid) => /\ Len(to) = Len(list) - 1
                              /\ \A j \in 1 .. Len(list) - 1 : to[j] = list[j + 1]
<1>1. Len(list) \in Nat /\ 1 \in 1 .. Len(list)
  BY LenProperties, EmptySeq
<1>2. CASE e > mid
  <2> DEFINE x == <<mid, e>>
             to == [list EXCEPT ![1] = x]
  <2>1. mid \in Bytes /\ e \in 1 .. FileSize /\ mid < e
    BY <1>2, RangeAssumption DEF Bytes
  <2>2. x \in ByteRange
    BY <2>1 DEF ByteRange
  <2> HIDE DEF x
  <2>3. /\ to \in Seq(ByteRange) /\ Len(to) = Len(list)
        /\ \A j \in 1 .. Len(list) : to[j] = IF j = 1 THEN x ELSE list[j]
    BY <1>1, <2>2, ExceptSeq
  <2> HIDE DEF to
  <2>4. \A j \in 2 .. Len(list) : j \in 1 .. Len(list) /\ j # 1
    BY <1>1
  <2>5. to[1] = x /\ \A j \in 2 .. Len(list) : to[j] = list[j]
    BY <1>1, <2>3, <2>4
  <2> QED
    BY <1>2, <2>3, <2>5 DEF Rest, to, x
<1>3. CASE ~(e > mid)
  <2>1. /\ Tail(list) \in Seq(ByteRange) /\ Len(Tail(list)) = Len(list) - 1
        /\ \A j \in 1 .. Len(Tail(list)) : Tail(list)[j] = list[j + 1]
    BY HeadTailProperties
  <2> QED
    BY <1>3, <2>1 DEF Rest
<1> QED
  BY <1>2, <1>3

\* It is the list of the bytes that are left.
LEMMA TakenIsList ==
  ASSUME NEW R, NEW list, IsListOf(list, R), list # <<>>,
         NEW s \in Nat, NEW e \in Nat, NEW mid \in Nat,
         list[1] = <<s, e>>, s < mid, mid <= e, e <= FileSize
  PROVE  IsListOf(Rest(list, mid, e), R \ Interval(s, mid))
<1> DEFINE to == Rest(list, mid, e)
<1>1. list \in Seq(ByteRange)
  BY DEF IsListOf
<1>2. /\ to \in Seq(ByteRange)
      /\ e > mid => /\ Len(to) = Len(list)
                    /\ to[1] = <<mid, e>>
                    /\ \A j \in 2 .. Len(list) : to[j] = list[j]
      /\ ~(e > mid) => /\ Len(to) = Len(list) - 1
                       /\ \A j \in 1 .. Len(list) - 1 : to[j] = list[j + 1]
  BY <1>1, ListTaken
<1> HIDE DEF to
<1> DEFINE N == Len(list)
<1>3. /\ N \in Nat /\ 1 \in 1 .. N
      /\ \A j \in 1 .. N : list[j][1] \in Nat /\ list[j][2] \in Nat /\ list[j][1] < list[j][2]
      /\ \A j, k \in 1 .. N : j < k => list[j][2] < list[k][1]
  <2>1. N \in Nat /\ 1 \in 1 .. N
    BY <1>1, LenProperties, EmptySeq
  <2> QED
    BY <2>1, ListFacts
<1>4. R \subseteq Bytes
  BY DEF IsListOf, BytesOf, Interval
<1>5. \A b \in Bytes : b \in R <=> \E j \in 1 .. N : list[j][1] <= b /\ b < list[j][2]
  BY ListFacts
<1> HIDE DEF N
<1>6. list[1][1] = s /\ list[1][2] = e
  OBVIOUS
<1>7. ASSUME NEW j \in 2 .. N
      PROVE  j \in 1 .. N /\ e < list[j][1]
  <2>1. j \in 1 .. N /\ 1 < j
    BY <1>3
  <2>2. list[1][2] < list[j][1]
    BY <1>3, <2>1
  <2> QED
    BY <1>6, <2>1, <2>2
<1>8. DOMAIN to = 1 .. Len(to)
  BY <1>2, LenProperties
<1>9. ASSUME NEW b \in Bytes
      PROVE  b \in R /\ ~(s <= b /\ b < mid)
               <=> (e > mid /\ mid <= b /\ b < e) \/ \E j \in 2 .. N : list[j][1] <= b /\ b < list[j][2]
  <2>1. b \in Nat
    BY BytesNat
  <2>2. ASSUME NEW j \in 2 .. N, list[j][1] <= b
        PROVE  ~(s <= b /\ b < mid)
    <3>1. e < list[j][1] /\ list[j][1] \in Nat
      BY <1>3, <1>7
    <3> QED
      BY <2>1, <2>2, <3>1
  <2>3. b \in R <=> (s <= b /\ b < e) \/ \E j \in 2 .. N : list[j][1] <= b /\ b < list[j][2]
    <3>1. \A j : j \in 1 .. N <=> j = 1 \/ j \in 2 .. N
      BY <1>3
    <3> QED
      BY <1>5, <1>6, <3>1
  <2>4. ((s <= b /\ b < e) /\ ~(s <= b /\ b < mid)) <=> (e > mid /\ mid <= b /\ b < e)
    BY <2>1
  <2> QED
    BY <2>2, <2>3, <2>4
<1>10. CASE e > mid
  <2>1. Len(to) = N /\ to[1][1] = mid /\ to[1][2] = e /\ \A j \in 2 .. N : to[j] = list[j]
    BY <1>2, <1>10 DEF N
  <2>2. ASSUME NEW j \in 1 .. N, NEW k \in 1 .. N, j < k
        PROVE  to[j][2] < to[k][1]
    <3>1. k \in 2 .. N /\ (j = 1 \/ j \in 2 .. N)
      BY <1>3, <2>2
    <3>2. to[j][2] = list[j][2] /\ to[k][1] = list[k][1]
      BY <1>6, <2>1, <3>1
    <3> QED
      BY <1>3, <2>2, <3>2
  <2>3. ASSUME NEW b \in Bytes
        PROVE  (\E j \in 1 .. N : to[j][1] <= b /\ b < to[j][2])
                 <=> (e > mid /\ mid <= b /\ b < e) \/ \E j \in 2 .. N : list[j][1] <= b /\ b < list[j][2]
    <3>1. \A j : j \in 1 .. N <=> j = 1 \/ j \in 2 .. N
      BY <1>3
    <3> QED
      BY <1>10, <2>1, <3>1
  <2>4. BytesOf(to) = R \ Interval(s, mid)
    <3>1. \A b \in Bytes : b \in R /\ ~(s <= b /\ b < mid) <=> \E j \in 1 .. N : to[j][1] <= b /\ b < to[j][2]
      BY <1>9, <2>3
    <3> QED
      BY <1>4, <1>8, <2>1, <3>1 DEF BytesOf, Interval
  <2> QED
    BY <1>2, <1>8, <2>1, <2>2, <2>4 DEF IsListOf, to
<1>11. CASE ~(e > mid)
  <2>1. Len(to) = N - 1 /\ \A j \in 1 .. N - 1 : to[j] = list[j + 1]
    BY <1>2, <1>11 DEF N
  <2>2. ASSUME NEW j \in 1 .. N - 1, NEW k \in 1 .. N - 1, j < k
        PROVE  to[j][2] < to[k][1]
    <3>1. j + 1 \in 1 .. N /\ k + 1 \in 1 .. N /\ j + 1 < k + 1
      BY <1>3, <2>2
    <3>2. list[j + 1][2] < list[k + 1][1]
      BY <1>3, <3>1
    <3> QED
      BY <2>1, <3>2
  <2>3. ASSUME NEW b \in Bytes
        PROVE  (\E j \in 1 .. N - 1 : to[j][1] <= b /\ b < to[j][2])
                 <=> (e > mid /\ mid <= b /\ b < e) \/ \E j \in 2 .. N : list[j][1] <= b /\ b < list[j][2]
    <3>1. \A j \in 1 .. N - 1 : j + 1 \in 2 .. N
      BY <1>3
    <3>2. \A j \in 2 .. N : j - 1 \in 1 .. N - 1 /\ (j - 1) + 1 = j
      BY <1>3
    <3>3. \A j \in 2 .. N : to[j - 1] = list[j]
      <4>1. ASSUME NEW j \in 2 .. N PROVE to[j - 1] = list[j]
        <5>1. to[j - 1] = list[(j - 1) + 1]
          BY <2>1, <3>2
        <5> QED
          BY <3>2, <5>1
      <4> QED
        BY <4>1
    <3>4. ASSUME NEW j \in 1 .. N - 1, to[j][1] <= b, b < to[j][2]
          PROVE  \E k \in 2 .. N : list[k][1] <= b /\ b < list[k][2]
      <4>1. j + 1 \in 2 .. N /\ to[j] = list[j + 1]
        BY <2>1, <3>1
      <4> QED
        BY <3>4, <4>1
    <3>5. ASSUME NEW k \in 2 .. N, list[k][1] <= b, b < list[k][2]
          PROVE  \E j \in 1 .. N - 1 : to[j][1] <= b /\ b < to[j][2]
      BY <3>2, <3>3, <3>5
    <3> QED
      BY <1>11, <3>4, <3>5
  <2>4. BytesOf(to) = R \ Interval(s, mid)
    <3>1. \A b \in Bytes : b \in R /\ ~(s <= b /\ b < mid)
                             <=> \E j \in 1 .. N - 1 : to[j][1] <= b /\ b < to[j][2]
      BY <1>9, <2>3
    <3> QED
      BY <1>4, <1>8, <2>1, <3>1 DEF BytesOf, Interval
  <2> QED
    BY <1>2, <1>8, <2>1, <2>2, <2>4 DEF IsListOf, to
<1> QED
  BY <1>10, <1>11

\* A turn leads from state to state of the loop.
LEMMA TakeTurnType ==
  ASSUME NEW at \in TakeStates
  PROVE  TakeTurn(at) \in TakeStates
<1>1. CASE at.list = <<>> \/ at.window_left = 0
  BY <1>1 DEF TakeTurn
<1>2. CASE at.list # <<>> /\ at.window_left # 0
  <2>1. PICK s \in Nat, e \in Nat, size \in Nat :
           /\ at.list[1] = <<s, e>> /\ <<s, e>> \in ByteRange
           /\ s < e /\ e <= FileSize
           /\ size > 0 /\ s + size <= e /\ size <= CHUNK_MAX /\ size <= at.window_left
           /\ s + size = e \/ size = CHUNK_MAX \/ size = at.window_left
           /\ <<s, s + size>> \in ByteRange
           /\ TakeTurn(at) =
                [list |-> Rest(at.list, s + size, e),
                 window_left |-> at.window_left - size,
                 out |-> Append(at.out, <<s, s + size>>)]
    BY <1>2, TakeTurnIs
  <2> DEFINE mid == s + size
             to == Rest(at.list, mid, e)
             out == Append(at.out, <<s, mid>>)
  <2>2. at.list \in Seq(ByteRange) /\ at.window_left \in Nat /\ at.out \in Seq(ByteRange)
    BY DEF TakeStates
  <2>3. mid \in Nat /\ s < mid /\ mid <= e /\ at.window_left - size \in Nat
    BY <2>1, <2>2
  <2>4. to \in Seq(ByteRange)
    <3> HIDE DEF mid
    <3>1. at.list[1] = <<s, e>> /\ e <= FileSize
      BY <2>1
    <3> QED
      BY <1>2, <2>2, <2>3, <3>1, ListTaken
  <2>5. out \in Seq(ByteRange)
    BY <2>1, <2>2, AppendProperties
  <2>6. TakeTurn(at) = [list |-> to, window_left |-> at.window_left - size, out |-> out]
    BY <2>1
  <2> HIDE DEF to, out
  <2> QED
    BY <2>3, <2>4, <2>5, <2>6 DEF TakeStates
<1> QED
  BY <1>1, <1>2

\* The offset a is a whole number of chunks into a run of the bytes C that no
\* byte of D precedes.
Aligned(C, D, a) ==
  \E r \in Bytes, k \in 0 .. FileSize :
    /\ a = r + k * CHUNK_MAX
    /\ Interval(r, a) \subseteq C
    /\ r = 0 \/ (r - 1) \notin D

\* A piece taken is a chunk, or ends with its range or with the window.
IsPiece(C, D, w, c) ==
  /\ \/ c[2] = c[1] + CHUNK_MAX
     \/ c[2] < c[1] + CHUNK_MAX /\ (c[2] \notin D \/ (w = 0 /\ c[2] \notin C))
  /\ Aligned(C, D, c[1])

\* Where the loop on the list of D is: the bytes C are out, from the lowest up.
TakeAt(D, W, at, C) ==
  /\ at \in TakeStates
  /\ C = BytesOf(at.out) /\ C \subseteq D
  /\ IsListOf(at.list, D \ C)
  /\ \A a \in C, b \in D \ C : a < b
  /\ at.window_left <= W
  /\ Cardinality(C) = W - at.window_left
  /\ \A j, k \in 1 .. Len(at.out) : j < k => at.out[j][1] < at.out[k][1]
  /\ \A j \in 1 .. Len(at.out) : IsPiece(C, D, at.window_left, at.out[j])
  /\ at.list # <<>> /\ at.window_left # 0 => Aligned(C, D, at.list[1][1])

\* A list's bytes and one range more.
LEMMA AppendBytes ==
  ASSUME NEW out \in Seq(ByteRange), NEW c \in ByteRange
  PROVE  BytesOf(Append(out, c)) = BytesOf(out) \cup Interval(c[1], c[2])
<1> DEFINE to == Append(out, c)
           n == Len(out)
<1>1. /\ n \in Nat /\ to \in Seq(ByteRange) /\ Len(to) = n + 1
      /\ \A j \in 1 .. n : to[j] = out[j]
      /\ to[n + 1] = c
  BY LenProperties, AppendProperties
<1>2. DOMAIN to = 1 .. n + 1 /\ DOMAIN out = 1 .. n
  BY <1>1, LenProperties
<1> HIDE DEF to, n
<1>3. \A j : j \in 1 .. n + 1 <=> j \in 1 .. n \/ j = n + 1
  BY <1>1
<1>4. \A b : (\E j \in 1 .. n + 1 : b \in Interval(to[j][1], to[j][2]))
               <=> (\E j \in 1 .. n : b \in Interval(out[j][1], out[j][2])) \/ b \in Interval(c[1], c[2])
  BY <1>1, <1>3
<1>5. BytesOf(to) = BytesOf(out) \cup Interval(c[1], c[2])
  BY <1>2, <1>4 DEF BytesOf
<1> QED
  BY <1>5 DEF to

\* A piece stays one while later pieces are taken.
LEMMA PieceStays ==
  ASSUME NEW C, NEW D, NEW w \in Nat, w # 0, NEW v, NEW c, IsPiece(C, D, w, c), NEW B, C \subseteq B
  PROVE  IsPiece(B, D, v, c)
<1>1. PICK r \in Bytes, k \in 0 .. FileSize :
        c[1] = r + k * CHUNK_MAX /\ Interval(r, c[1]) \subseteq C /\ (r = 0 \/ (r - 1) \notin D)
  BY DEF IsPiece, Aligned
<1>2. Aligned(B, D, c[1])
  <2>1. Interval(r, c[1]) \subseteq B
    BY <1>1
  <2> QED
    BY <1>1, <2>1 DEF Aligned
<1> QED
  BY <1>2 DEF IsPiece

\* The front range of the bytes that are left: what lies around it.
FrontOf(D, C, list, s, e) ==
  /\ \A b \in Bytes : s <= b /\ b < e => b \in D \ C
  /\ \A b \in D \ C : s <= b
  /\ \A a \in C : a < s
  /\ e \notin D
  /\ Len(list) >= 2 => \A b \in D : b + 1 # list[2][1]
  /\ Len(list) >= 2 => list[2][1] \in Bytes

\* No listed byte touches it, and what is out lies below it.
LEMMA FrontFacts ==
  ASSUME NEW D \in SUBSET Bytes, NEW C, C \subseteq D, \A a \in C, b \in D \ C : a < b,
         NEW list, IsListOf(list, D \ C), list # <<>>,
         NEW s \in Nat, NEW e \in Nat, list[1] = <<s, e>>, s < e, e <= FileSize
  PROVE  FrontOf(D, C, list, s, e)
<1> DEFINE R == D \ C
           N == Len(list)
<1>1. list \in Seq(ByteRange)
  BY DEF IsListOf
<1>2. /\ N \in Nat /\ 1 \in 1 .. N
      /\ \A j \in 1 .. N : /\ list[j] \in ByteRange
                           /\ list[j][1] \in Nat /\ list[j][2] \in Nat
                           /\ list[j][1] < list[j][2]
      /\ \A j, k \in 1 .. N : j < k => list[j][2] < list[k][1]
      /\ \A b \in Bytes : b \in R <=> \E j \in 1 .. N : list[j][1] <= b /\ b < list[j][2]
  <2>1. N \in Nat /\ 1 \in 1 .. N
    BY <1>1, LenProperties, EmptySeq
  <2> QED
    BY <2>1, ListFacts
<1> HIDE DEF N, R
<1>3. list[1][1] = s /\ list[1][2] = e
  OBVIOUS
<1>4. \A b \in Bytes : b \in Nat
  BY BytesNat
<1>5. \A b \in Bytes : s <= b /\ b < e => b \in R
  BY <1>2, <1>3
<1>6. ASSUME NEW j \in 2 .. N
      PROVE  j \in 1 .. N /\ e < list[j][1] /\ list[j][1] \in Nat
  <2>1. j \in 1 .. N /\ 1 < j
    BY <1>2
  <2>2. list[1][2] < list[j][1]
    BY <1>2, <2>1
  <2> QED
    BY <1>2, <1>3, <2>1, <2>2
<1>7. \A j : j \in 1 .. N <=> j = 1 \/ j \in 2 .. N
  BY <1>2
<1>8. ASSUME NEW b \in R
      PROVE  b \in Nat /\ s <= b /\ b # e
  <2>1. b \in Bytes /\ b \in Nat
    BY <1>4 DEF R
  <2>2. PICK j \in 1 .. N : list[j][1] <= b /\ b < list[j][2]
    BY <1>2, <2>1
  <2>3. CASE j = 1
    BY <1>3, <2>1, <2>2, <2>3
  <2>4. CASE j \in 2 .. N
    <3>1. e < list[j][1] /\ list[j][1] \in Nat
      BY <1>6, <2>4
    <3> QED
      BY <2>1, <2>2, <3>1
  <2> QED
    BY <1>7, <2>3, <2>4
<1>9. s \in Bytes /\ s \in R
  <2>1. s \in Bytes
    BY RangeAssumption DEF Bytes
  <2> QED
    BY <1>5, <2>1
<1>10. \A a \in C : a \in Nat /\ a < s
  BY <1>4, <1>9 DEF R
<1>11. e \notin D
  <2> SUFFICES ASSUME e \in D PROVE FALSE
    OBVIOUS
  <2>1. e \in C \/ e \in R
    BY DEF R
  <2>2. e \notin C
    BY <1>10
  <2> QED
    BY <1>8, <2>1, <2>2
<1>12. ASSUME N >= 2
       PROVE  list[2][1] \in Bytes /\ \A b \in D : b + 1 # list[2][1]
  <2> DEFINE a == list[2][1]
  <2>1. 2 \in 2 .. N
    BY <1>2, <1>12
  <2>2. 2 \in 1 .. N /\ a \in Nat /\ e < a /\ list[2] \in ByteRange
    BY <1>2, <1>6, <2>1
  <2>3. a \in Bytes
    BY <2>2 DEF ByteRange
  <2> HIDE DEF a
  <2>4. ASSUME NEW b \in D, b + 1 = a PROVE FALSE
    <3>1. b \in Bytes /\ b \in Nat /\ e <= b
      BY <1>4, <2>2, <2>4
    <3>2. b \in R
      <4>1. b \notin C
        BY <1>10, <3>1
      <4> QED
        BY <4>1 DEF R
    <3>3. PICK j \in 1 .. N : list[j][1] <= b /\ b < list[j][2]
      BY <1>2, <3>1, <3>2
    <3>4. j = 1 \/ j = 2 \/ (2 < j /\ j \in Nat)
      BY <1>2
    <3>5. j # 1
      BY <1>3, <3>1, <3>3
    <3>6. list[j][1] \in Nat /\ list[j][1] <= b
      BY <1>2, <3>3
    <3>7. j # 2
      BY <2>2, <2>4, <3>1, <3>6 DEF a
    <3>8. ~(2 < j)
      <4> SUFFICES ASSUME 2 < j PROVE FALSE
        OBVIOUS
      <4>1. list[2][2] < list[j][1] /\ list[2][1] < list[2][2] /\ list[2][2] \in Nat
        BY <1>2, <2>2
      <4> QED
        BY <2>2, <2>4, <3>1, <3>6, <4>1 DEF a
    <3> QED
      BY <3>4, <3>5, <3>7, <3>8
  <2> QED
    BY <2>3, <2>4 DEF a
<1> QED
  BY <1>5, <1>8, <1>10, <1>11, <1>12 DEF R, N, FrontOf

\* A whole chunk further is aligned too.
LEMMA AlignedNext ==
  ASSUME NEW C, NEW D, NEW s \in Nat, Aligned(C, D, s), s + CHUNK_MAX < FileSize
  PROVE  Aligned(C \cup Interval(s, s + CHUNK_MAX), D, s + CHUNK_MAX)
<1>1. PICK r \in Bytes, k \in 0 .. FileSize :
        s = r + k * CHUNK_MAX /\ Interval(r, s) \subseteq C /\ (r = 0 \/ (r - 1) \notin D)
  BY DEF Aligned
<1>2. FileSize \in Nat /\ CHUNK_MAX \in Nat /\ CHUNK_MAX > 0 /\ r \in Nat /\ k \in Nat
  BY RangeAssumption DEF Bytes
<1> DEFINE mid == s + CHUNK_MAX
<1>3. mid = r + (k + 1) * CHUNK_MAX
  <2>1. (k + 1) * CHUNK_MAX = k * CHUNK_MAX + CHUNK_MAX /\ k * CHUNK_MAX \in Nat
    BY <1>2
  <2> QED
    BY <1>1, <1>2, <2>1
<1>4. k + 1 \in 0 .. FileSize
  <2>1. (k + 1) * CHUNK_MAX \in Nat /\ k + 1 <= (k + 1) * CHUNK_MAX
    BY <1>2
  <2>2. k + 1 <= mid
    BY <1>2, <1>3, <2>1
  <2> QED
    BY <1>2, <2>2
<1>5. Interval(r, mid) \subseteq C \cup Interval(s, mid)
  <2> SUFFICES ASSUME NEW b \in Bytes, r <= b, b < mid PROVE b \in C \cup Interval(s, mid)
    BY DEF Interval
  <2>1. b \in Nat
    BY BytesNat
  <2>2. b < s \/ s <= b
    BY <2>1
  <2> HIDE DEF mid
  <2> QED
    BY <1>1, <2>2 DEF Interval
<1>6. Aligned(C \cup Interval(s, mid), D, mid)
  <2> HIDE DEF mid
  <2> QED
    BY <1>1, <1>3, <1>4, <1>5 DEF Aligned
<1> QED
  BY <1>6

\* A turn takes the next piece.
LEMMA TakeTurnStep ==
  ASSUME NEW D \in SUBSET Bytes, NEW W \in Nat, NEW at, NEW C, TakeAt(D, W, at, C),
         at.list # <<>>, at.window_left # 0
  PROVE  /\ TakeAt(D, W, TakeTurn(at), BytesOf(TakeTurn(at).out))
         /\ TakeTurn(at).window_left < at.window_left
<1> DEFINE list == at.list
           w == at.window_left
           out == at.out
<1>1. at \in TakeStates /\ list \in Seq(ByteRange) /\ w \in Nat /\ out \in Seq(ByteRange)
  BY DEF TakeAt, TakeStates
<1>2. PICK s \in Nat, e \in Nat, size \in Nat :
         /\ at.list[1] = <<s, e>> /\ <<s, e>> \in ByteRange
         /\ s < e /\ e <= FileSize
         /\ size > 0 /\ s + size <= e /\ size <= CHUNK_MAX /\ size <= at.window_left
         /\ s + size = e \/ size = CHUNK_MAX \/ size = at.window_left
         /\ <<s, s + size>> \in ByteRange
         /\ TakeTurn(at) =
              [list |-> Rest(at.list, s + size, e),
               window_left |-> at.window_left - size,
               out |-> Append(at.out, <<s, s + size>>)]
  BY <1>1, TakeTurnIs
<1> DEFINE mid == s + size
           I == Interval(s, mid)
           C1 == C \cup I
           v == w - size
           c == <<s, mid>>
           to == Rest(list, mid, e)
           next == TakeTurn(at)
           more == Append(out, c)
<1>3. next.list = to /\ next.window_left = v /\ next.out = more
  BY <1>2
<1>4. next \in TakeStates
  BY <1>1, TakeTurnType
<1>5. /\ C = BytesOf(out) /\ C \subseteq D /\ IsListOf(list, D \ C)
      /\ \A a \in C, b \in D \ C : a < b
      /\ w <= W
      /\ Cardinality(C) = W - w
      /\ \A j, k \in 1 .. Len(out) : j < k => out[j][1] < out[k][1]
      /\ \A j \in 1 .. Len(out) : IsPiece(C, D, w, out[j])
      /\ Aligned(C, D, list[1][1])
  BY DEF TakeAt
<1>6. list # <<>> /\ w # 0
  OBVIOUS
<1>7. /\ list[1] = <<s, e>> /\ s < e /\ e <= FileSize /\ c \in ByteRange
      /\ mid \in Nat /\ s < mid /\ mid <= e /\ v \in Nat /\ v < w
      /\ size <= CHUNK_MAX
      /\ mid = e \/ size = CHUNK_MAX \/ v = 0
      /\ CHUNK_MAX \in Nat
  <2>1. /\ s < e /\ e <= FileSize
        /\ size > 0 /\ s + size <= e /\ size <= CHUNK_MAX /\ size <= w
        /\ s + size = e \/ size = CHUNK_MAX \/ size = w
    BY <1>2
  <2>2. list[1] = <<s, e>> /\ c \in ByteRange
    BY <1>2
  <2>3. w \in Nat
    BY <1>1
  <2> HIDE DEF list, w, c
  <2>4. v \in Nat /\ v < w /\ (size = w => v = 0)
    BY <2>1, <2>3
  <2>5. mid \in Nat /\ s < mid
    BY <2>1
  <2>6. mid = e \/ size = CHUNK_MAX \/ v = 0
    BY <2>1, <2>4
  <2> QED
    BY <2>1, <2>2, <2>4, <2>5, <2>6, RangeAssumption
<1> HIDE DEF list, w, out, to, next
<1>8. /\ \A b \in Bytes : s <= b /\ b < e => b \in D \ C
      /\ \A b \in D \ C : s <= b
      /\ \A a \in C : a < s
      /\ e \notin D
      /\ Len(list) >= 2 => \A b \in D : b + 1 # list[2][1]
      /\ Len(list) >= 2 => list[2][1] \in Bytes
  <2>1. list[1] = <<s, e>> /\ s < e /\ e <= FileSize
    BY <1>7
  <2>2. C \subseteq D /\ IsListOf(list, D \ C) /\ \A a \in C, b \in D \ C : a < b
    BY <1>5
  <2>3. FrontOf(D, C, list, s, e)
    BY <1>6, <2>1, <2>2, FrontFacts
  <2> QED
    BY <2>3 DEF FrontOf
<1>9. \A b \in Bytes : b \in Nat
  BY BytesNat
<1>10. list \in Seq(ByteRange) /\ Len(list) \in Nat /\ Len(list) # 0
  BY <1>1, <1>6, LenProperties, EmptySeq
<1>11. /\ to \in Seq(ByteRange)
       /\ e > mid => to[1] = <<mid, e>>
       /\ ~(e > mid) => /\ Len(to) = Len(list) - 1
                        /\ \A j \in 1 .. Len(list) - 1 : to[j] = list[j + 1]
  <2> HIDE DEF mid
  <2>1. list[1] = <<s, e>> /\ e <= FileSize /\ mid \in Nat /\ s < mid /\ mid <= e
    BY <1>7
  <2> QED
    <3> DEFINE rest == Rest(list, mid, e)
    <3>1. /\ rest \in Seq(ByteRange)
          /\ e > mid => rest[1] = <<mid, e>>
          /\ ~(e > mid) => /\ Len(rest) = Len(list) - 1
                           /\ \A j \in 1 .. Len(list) - 1 : rest[j] = list[j + 1]
      BY <1>6, <1>10, <2>1, ListTaken
    <3> QED
      BY <3>1 DEF to
<1>12. IsListOf(to, (D \ C) \ I)
  <2> HIDE DEF mid
  <2>1. list[1] = <<s, e>> /\ e <= FileSize /\ mid \in Nat /\ s < mid /\ mid <= e
    BY <1>7
  <2>2. IsListOf(list, D \ C)
    BY <1>5
  <2> QED
    BY <1>6, <2>1, <2>2, TakenIsList DEF to
<1> HIDE DEF mid, v, c, more
<1>13. I \subseteq D \ C
  <2>1. \A b \in Bytes : s <= b /\ b < mid => s <= b /\ b < e
    BY <1>7, <1>9
  <2> QED
    BY <1>8, <2>1 DEF Interval
<1>14. BytesOf(more) = C1
  <2>1. BytesOf(more) = BytesOf(out) \cup Interval(c[1], c[2])
    BY <1>1, <1>7, AppendBytes DEF more
  <2>2. c[1] = s /\ c[2] = mid
    BY DEF c
  <2> QED
    BY <1>5, <2>1, <2>2
<1>15. IsListOf(to, D \ C1) /\ C1 \subseteq D
  <2>1. (D \ C) \ I = D \ C1
    OBVIOUS
  <2> QED
    BY <1>5, <1>12, <1>13, <2>1
<1>16. ASSUME NEW a \in C1, NEW b \in D \ C1
       PROVE  a < b
  <2>1. b \in D \ C /\ b \notin I /\ b \in Bytes
    OBVIOUS
  <2>2. CASE a \in C
    BY <1>5, <2>1, <2>2
  <2>3. CASE a \in I
    <3>1. a \in Nat /\ a < mid
      BY <1>9, <2>3 DEF Interval
    <3>2. b \in Nat /\ s <= b
      BY <1>8, <1>9, <2>1
    <3>3. ~(b < mid)
      BY <2>1, <3>2 DEF Interval
    <3>4. mid \in Nat
      BY <1>7
    <3> QED
      BY <3>1, <3>2, <3>3, <3>4
  <2> QED
    BY <2>2, <2>3
<1>17. v <= W /\ Cardinality(C1) = W - v
  <2>1. IsFiniteSet(C) /\ Cardinality(C) \in Nat /\ C \subseteq Bytes
    BY <1>5, BytesFinite, FS_Subset, FS_CardinalityType
  <2>2. IsFiniteSet(I) /\ Cardinality(I) = size
    <3>1. s \in Bytes /\ mid \in 1 .. FileSize /\ s < mid
      BY <1>7, RangeAssumption DEF Bytes
    <3>2. mid - s = size
      BY DEF mid
    <3> QED
      BY <3>1, <3>2, IntervalCardinality
  <2>3. Cardinality(C \cap I) = 0
    <3>1. C \cap I = {}
      BY <1>13
    <3> QED
      BY <3>1, FS_EmptySet
  <2>4. Cardinality(C1) = Cardinality(C) + Cardinality(I) - Cardinality(C \cap I)
    <3> HIDE DEF I
    <3> QED
      BY <2>1, <2>2, FS_Union
  <2>5. Cardinality(C) = W - w /\ w <= W /\ w \in Nat /\ v = w - size /\ v \in Nat /\ v < w
    BY <1>1, <1>5, <1>7 DEF v
  <2> HIDE DEF C1, I
  <2>6. Cardinality(C1) = (W - w) + size
    BY <2>1, <2>2, <2>3, <2>4, <2>5
  <2> QED
    BY <2>5, <2>6
<1> DEFINE n == Len(out)
<1>18. /\ n \in Nat /\ Len(more) = n + 1
       /\ \A j \in 1 .. n : more[j] = out[j]
       /\ more[n + 1] = c
  BY <1>1, <1>7, LenProperties, AppendProperties DEF more
<1> HIDE DEF n
<1>19. ASSUME NEW j \in 1 .. n
       PROVE  out[j][1] < s
  <2>1. out[j] \in ByteRange
    BY <1>1, ElementOfSeq DEF n
  <2>2. /\ out[j][1] \in Bytes /\ out[j][1] \in Nat /\ out[j][2] \in Nat
        /\ out[j][1] < out[j][2]
    BY <1>9, <2>1, RangeFacts DEF ByteRange
  <2>3. out[j][1] \in Interval(out[j][1], out[j][2])
    BY <2>2 DEF Interval
  <2>4. DOMAIN out = 1 .. n
    BY <1>1, LenProperties DEF n
  <2>5. out[j][1] \in C
    BY <1>5, <2>3, <2>4 DEF BytesOf
  <2> QED
    BY <1>8, <2>5
<1>20. ASSUME NEW j \in 1 .. n + 1, NEW k \in 1 .. n + 1, j < k
       PROVE  more[j][1] < more[k][1]
  <2>1. j \in 1 .. n /\ (k \in 1 .. n \/ k = n + 1)
    BY <1>18, <1>20
  <2>2. more[j] = out[j]
    BY <1>18, <2>1
  <2>3. CASE k \in 1 .. n
    <3>1. more[k] = out[k]
      BY <1>18, <2>3
    <3>2. out[j][1] < out[k][1]
      BY <1>5, <1>20, <2>1, <2>3 DEF n
    <3> QED
      BY <2>2, <3>1, <3>2
  <2>4. CASE k = n + 1
    <3>1. more[k][1] = s
      BY <1>18, <2>4 DEF c
    <3> QED
      BY <1>19, <2>1, <2>2, <3>1
  <2> QED
    BY <2>1, <2>3, <2>4
<1>21. IsPiece(C1, D, v, c)
  <2>1. c[1] = s /\ c[2] = mid
    BY DEF c
  <2>2. Aligned(C1, D, s)
    <3>1. Aligned(C, D, s)
      <4>1. list[1][1] = s
        BY <1>7
      <4> QED
        BY <1>5, <4>1
    <3>2. PICK r \in Bytes, k \in 0 .. FileSize :
            s = r + k * CHUNK_MAX /\ Interval(r, s) \subseteq C /\ (r = 0 \/ (r - 1) \notin D)
      BY <3>1 DEF Aligned
    <3>3. Interval(r, s) \subseteq C1
      BY <3>2
    <3> HIDE DEF C1
    <3> QED
      BY <3>2, <3>3 DEF Aligned
  <2>3. size = CHUNK_MAX => mid = s + CHUNK_MAX
    BY DEF mid
  <2>4. size # CHUNK_MAX => mid < s + CHUNK_MAX
    BY <1>7 DEF mid
  <2>5. mid = e => mid \notin D
    BY <1>8
  <2>6. mid \notin C1
    <3>1. mid \notin C
      <4> SUFFICES ASSUME mid \in C PROVE FALSE
        OBVIOUS
      <4>1. mid < s
        BY <1>8
      <4> QED
        BY <1>7, <4>1
    <3>2. mid \notin I
      BY <1>7 DEF Interval
    <3> QED
      BY <3>1, <3>2
  <2>7. mid = e \/ size = CHUNK_MAX \/ v = 0
    BY <1>7
  <2> HIDE DEF C1
  <2> QED
    BY <2>1, <2>2, <2>3, <2>4, <2>5, <2>6, <2>7 DEF IsPiece
<1>22. ASSUME NEW j \in 1 .. n + 1
       PROVE  IsPiece(C1, D, v, more[j])
  <2>1. j \in 1 .. n \/ j = n + 1
    BY <1>18
  <2>2. CASE j \in 1 .. n
    <3>1. IsPiece(C, D, w, out[j])
      BY <1>5, <2>2 DEF n
    <3>2. C \subseteq C1
      OBVIOUS
    <3>3. w \in Nat /\ w # 0
      BY <1>1, <1>6
    <3> HIDE DEF C1
    <3>4. IsPiece(C1, D, v, out[j])
      BY <3>1, <3>2, <3>3, PieceStays
    <3> QED
      BY <1>18, <2>2, <3>4
  <2>3. CASE j = n + 1
    BY <1>18, <1>21, <2>3
  <2> QED
    BY <2>1, <2>2, <2>3
<1>23. ASSUME to # <<>>, v # 0
       PROVE  Aligned(C1, D, to[1][1])
  <2>1. CASE e > mid
    <3>1. to[1][1] = mid
      BY <1>11, <2>1
    <3>2. mid = s + CHUNK_MAX
      BY <1>7, <1>23, <2>1 DEF mid
    <3>3. s + CHUNK_MAX < FileSize
      BY <1>7, <2>1, <3>2, RangeAssumption
    <3>4. Aligned(C, D, s)
      <4>1. list[1][1] = s
        BY <1>7
      <4> QED
        BY <1>5, <4>1
    <3>5. Aligned(C \cup Interval(s, s + CHUNK_MAX), D, s + CHUNK_MAX)
      BY <3>3, <3>4, AlignedNext
    <3> QED
      BY <3>1, <3>2, <3>5
  <2>2. CASE ~(e > mid)
    <3>1. Len(to) = Len(list) - 1 /\ \A j \in 1 .. Len(list) - 1 : to[j] = list[j + 1]
      BY <1>11, <2>2
    <3>2. Len(to) # 0
      BY <1>11, <1>23, EmptySeq
    <3>3. Len(list) >= 2 /\ 1 \in 1 .. Len(list) - 1 /\ 1 + 1 = 2
      BY <1>10, <3>1, <3>2
    <3>4. to[1] = list[2]
      BY <3>1, <3>3
    <3> DEFINE r == list[2][1]
    <3>5. r \in Bytes /\ \A b \in D : b + 1 # r
      BY <1>8, <3>3
    <3> HIDE DEF r
    <3>6. r \in Nat
      BY <1>9, <3>5
    <3>7. r = 0 \/ (r - 1) \notin D
      <4> SUFFICES ASSUME (r - 1) \in D PROVE FALSE
        OBVIOUS
      <4>1. (r - 1) + 1 = r
        BY <3>6
      <4> QED
        BY <3>5, <4>1
    <3>8. Interval(r, r) = {}
      <4>1. \A b \in Nat : ~(r <= b /\ b < r)
        BY <3>6
      <4> QED
        BY <1>9, <4>1 DEF Interval
    <3>9. r = r + 0 * CHUNK_MAX /\ 0 \in 0 .. FileSize
      BY <1>7, <3>6, RangeAssumption
    <3>10. Aligned(C1, D, r)
      <4> HIDE DEF C1
      <4> QED
        BY <3>5, <3>7, <3>8, <3>9 DEF Aligned
    <3> QED
      BY <3>4, <3>10 DEF r
  <2> QED
    BY <2>1, <2>2
<1>24. TakeAt(D, W, next, C1)
  <2> HIDE DEF C1
  <2>1. \A j, k \in 1 .. Len(next.out) : j < k => next.out[j][1] < next.out[k][1]
    BY <1>3, <1>18, <1>20 DEF n
  <2>2. \A j \in 1 .. Len(next.out) : IsPiece(C1, D, next.window_left, next.out[j])
    BY <1>3, <1>18, <1>22 DEF n
  <2> QED
    BY <1>3, <1>4, <1>14, <1>15, <1>16, <1>17, <1>23, <2>1, <2>2 DEF TakeAt
<1>25. BytesOf(next.out) = C1 /\ next.window_left < w
  BY <1>3, <1>7, <1>14
<1> QED
  BY <1>24, <1>25 DEF next, w

\* The loop of take_batch, turn by turn.
LEMMA TakeTurns ==
  ASSUME NEW L \in Seq(ByteRange), NEW W \in Nat
  PROVE  \E turn \in [0 .. W -> TakeStates] :
           /\ turn[0] = [list |-> L, window_left |-> W, out |-> <<>>]
           /\ \A n \in 1 .. W : turn[n] = TakeTurn(turn[n - 1])
           /\ TakeFront(L, W) = turn[W]
<1> DEFINE x == [list |-> L, window_left |-> W, out |-> <<>>]
           G == [n \in 1 .. W |-> [at \in TakeStates |-> TakeTurn(at)]]
           Turns(f) == f = [n \in 0 .. W |-> IF n = 0 THEN x ELSE TakeTurn(f[n - 1])]
           turn == CHOOSE f : Turns(f)
<1>1. x \in TakeStates
  <2>1. <<>> \in Seq(ByteRange)
    OBVIOUS
  <2> QED
    BY <2>1 DEF TakeStates
<1>2. \A n \in 1 .. W : G[n] \in [TakeStates -> TakeStates]
  BY TakeTurnType
<1> HIDE DEF x
<1>3. PICK f \in [0 .. W -> TakeStates] :
        f[0] = x /\ \A n \in 1 .. W : f[n] = G[n][f[n - 1]]
  <2> HIDE DEF G
  <2>1. IsTurns(G, W, TakeStates)
    BY <1>2 DEF IsTurns
  <2>2. \E f : IsLoop(f, W, TakeStates, x, G)
    BY <1>1, <2>1, LoopExists
  <2> QED
    BY <2>2 DEF IsLoop
<1>4. ASSUME NEW n \in 1 .. W
      PROVE  n - 1 \in 0 .. W /\ f[n] = TakeTurn(f[n - 1])
  <2>1. n - 1 \in 0 .. W
    OBVIOUS
  <2>2. f[n - 1] \in TakeStates
    BY <1>3, <2>1
  <2>3. G[n][f[n - 1]] = TakeTurn(f[n - 1])
    BY <2>2
  <2> HIDE DEF G
  <2> QED
    BY <1>3, <2>1, <2>3
<1>5. Turns(f)
  BY <1>3, <1>4
<1>6. Turns(turn)
  <2> HIDE DEF Turns
  <2> QED
    BY <1>5
<1>7. TakeFront(L, W) = turn[W]
  BY DEF TakeFront, x
<1> HIDE DEF turn
<1>8. \A n \in 0 .. W : turn[n] = IF n = 0 THEN x ELSE TakeTurn(turn[n - 1])
  BY <1>6
<1>9. DOMAIN turn = 0 .. W
  BY <1>6
<1> HIDE DEF Turns, G
<1>10. \A n \in 0 .. W : turn[n] \in TakeStates
  <2> DEFINE T == {n \in 0 .. W : turn[n] \in TakeStates}
  <2>1. 0 \in T
    BY <1>1, <1>8
  <2>2. ASSUME NEW n \in 1 .. W, n - 1 \in T PROVE n \in T
    <3>1. turn[n] = TakeTurn(turn[n - 1]) /\ turn[n - 1] \in TakeStates
      BY <1>8, <2>2
    <3> QED
      BY <3>1, TakeTurnType
  <2>3. \A n \in 0 .. W : n \in T
    <3> HIDE DEF T
    <3> QED
      BY <2>1, <2>2, LoopInduction
  <2> QED
    BY <2>3
<1>11. turn \in [0 .. W -> TakeStates]
  <2>1. turn = [n \in 0 .. W |-> turn[n]]
    BY <1>6, <1>9 DEF Turns
  <2> QED
    BY <1>10, <2>1
<1>12. turn[0] = x /\ \A n \in 1 .. W : turn[n] = TakeTurn(turn[n - 1])
  BY <1>8
<1> QED
  BY <1>7, <1>11, <1>12 DEF x

\* The loop begins with nothing out.
LEMMA TakeStarts ==
  ASSUME NEW D \in SUBSET Bytes, NEW L, IsListOf(L, D), NEW W \in Nat
  PROVE  TakeAt(D, W, [list |-> L, window_left |-> W, out |-> <<>>], {})
<1> DEFINE at == [list |-> L, window_left |-> W, out |-> <<>>]
<1>1. at.list = L /\ at.window_left = W /\ at.out = <<>>
  OBVIOUS
<1>2. L \in Seq(ByteRange) /\ <<>> \in Seq(ByteRange) /\ Len(<<>>) = 0
  BY DEF IsListOf
<1>3. at \in TakeStates
  BY <1>2 DEF TakeStates
<1>4. BytesOf(<<>>) = {}
  BY DEF BytesOf
<1>5. Cardinality({}) = 0 /\ D \ {} = D
  BY FS_EmptySet
<1>6. ASSUME L # <<>> PROVE Aligned({}, D, L[1][1])
  <2> DEFINE r == L[1][1]
             N == Len(L)
  <2>1. /\ N \in Nat /\ 1 \in 1 .. N
        /\ \A j \in 1 .. N : L[j] \in ByteRange /\ L[j][1] \in Nat /\ L[j][2] \in Nat /\ L[j][1] < L[j][2]
        /\ \A j, k \in 1 .. N : j < k => L[j][2] < L[k][1]
        /\ \A b \in Bytes : b \in D <=> \E j \in 1 .. N : L[j][1] <= b /\ b < L[j][2]
    BY <1>2, <1>6, LenProperties, EmptySeq, ListFacts
  <2> HIDE DEF N
  <2>2. r \in Bytes /\ r \in Nat
    BY <2>1 DEF ByteRange
  <2>3. r = 0 \/ (r - 1) \notin D
    <3> SUFFICES ASSUME (r - 1) \in D PROVE FALSE
      OBVIOUS
    <3>1. r - 1 \in Bytes /\ r - 1 \in Nat /\ r - 1 < r
      BY <2>2, BytesNat
    <3>2. PICK j \in 1 .. N : L[j][1] <= r - 1 /\ r - 1 < L[j][2]
      BY <2>1, <3>1
    <3>3. j = 1 \/ 1 < j
      BY <2>1
    <3>4. L[j][1] \in Nat
      BY <2>1
    <3>5. j # 1
      BY <2>2, <3>1, <3>2, <3>4
    <3>6. ~(1 < j)
      <4> SUFFICES ASSUME 1 < j PROVE FALSE
        OBVIOUS
      <4>1. L[1][2] < L[j][1] /\ L[1][1] < L[1][2] /\ L[1][2] \in Nat
        BY <2>1
      <4> QED
        BY <2>2, <3>1, <3>2, <3>4, <4>1
    <3> QED
      BY <3>3, <3>5, <3>6
  <2> HIDE DEF r
  <2>4. Interval(r, r) = {}
    <3>1. \A b \in Nat : ~(r <= b /\ b < r)
      BY <2>2
    <3> QED
      BY <3>1, BytesNat DEF Interval
  <2>5. r = r + 0 * CHUNK_MAX /\ 0 \in 0 .. FileSize
    BY <2>2, RangeAssumption
  <2>6. Aligned({}, D, r)
    BY <2>2, <2>3, <2>4, <2>5 DEF Aligned
  <2> QED
    BY <2>6 DEF r
<1> HIDE DEF at
<1>7. IsListOf(L, D \ {})
  BY <1>5
<1>8. W <= W /\ Cardinality({}) = W - W
  BY <1>5
<1>9. \A j \in 1 .. Len(at.out) : FALSE
  BY <1>1, <1>2
<1>10. TakeAt(D, W, at, {})
  BY <1>1, <1>3, <1>4, <1>6, <1>7, <1>8, <1>9 DEF TakeAt
<1> QED
  BY <1>10 DEF at

\* After as many turns as the window has bytes the list or the window is used up.
LEMMA TakeLoop ==
  ASSUME NEW D \in SUBSET Bytes, NEW L, IsListOf(L, D), NEW W \in Nat
  PROVE  LET at == TakeFront(L, W)
         IN  TakeAt(D, W, at, BytesOf(at.out)) /\ (at.list = <<>> \/ at.window_left = 0)
<1>1. L \in Seq(ByteRange)
  BY DEF IsListOf
<1>2. PICK turn \in [0 .. W -> TakeStates] :
        /\ turn[0] = [list |-> L, window_left |-> W, out |-> <<>>]
        /\ \A n \in 1 .. W : turn[n] = TakeTurn(turn[n - 1])
        /\ TakeFront(L, W) = turn[W]
  BY <1>1, TakeTurns
<1> DEFINE Held(n) == /\ TakeAt(D, W, turn[n], BytesOf(turn[n].out))
                      /\ turn[n].list = <<>> \/ turn[n].window_left <= W - n
           T == {n \in 0 .. W : Held(n)}
<1>3. 0 \in T
  <2>1. TakeAt(D, W, turn[0], {})
    BY <1>2, TakeStarts
  <2>2. BytesOf(turn[0].out) = {}
    BY <2>1 DEF TakeAt
  <2>3. turn[0].window_left = W /\ W <= W - 0
    BY <1>2
  <2> QED
    BY <2>1, <2>2, <2>3
<1>4. ASSUME NEW n \in 1 .. W, n - 1 \in T
      PROVE  n \in T
  <2> DEFINE at == turn[n - 1]
  <2>1. turn[n] = TakeTurn(at) /\ n \in 0 .. W /\ n \in Nat
    BY <1>2
  <2>2. TakeAt(D, W, at, BytesOf(at.out)) /\ (at.list = <<>> \/ at.window_left <= W - (n - 1))
    BY <1>4
  <2> HIDE DEF at
  <2>3. at.window_left \in Nat
    BY <2>2 DEF TakeAt, TakeStates
  <2>4. CASE at.list = <<>> \/ at.window_left = 0
    <3>1. turn[n] = at
      BY <2>1, <2>4 DEF TakeTurn
    <3>2. at.list = <<>> \/ at.window_left <= W - n
      BY <2>1, <2>4
    <3> QED
      BY <2>1, <2>2, <3>1, <3>2
  <2>5. CASE at.list # <<>> /\ at.window_left # 0
    <3> DEFINE next == TakeTurn(at)
    <3>1. TakeAt(D, W, next, BytesOf(next.out)) /\ next.window_left < at.window_left
      BY <2>2, <2>5, TakeTurnStep
    <3> HIDE DEF next
    <3>2. next.window_left \in Nat
      BY <3>1 DEF TakeAt, TakeStates
    <3>3. at.window_left <= W - (n - 1)
      BY <2>2, <2>5
    <3>4. next.window_left <= W - n
      BY <2>1, <2>3, <3>1, <3>2, <3>3
    <3> QED
      BY <2>1, <3>1, <3>4 DEF next
  <2> QED
    BY <2>4, <2>5
<1>5. \A n \in 0 .. W : n \in T
  <2> HIDE DEF T
  <2> QED
    BY <1>3, <1>4, LoopInduction
<1>6. Held(W)
  BY <1>5
<1>7. turn[W].window_left \in Nat
  BY <1>6 DEF TakeAt, TakeStates
<1>8. turn[W].list = <<>> \/ turn[W].window_left = 0
  BY <1>6, <1>7
<1> QED
  BY <1>2, <1>6, <1>8

\* The pieces taken are exactly the chunks of the bytes they cover, each once.
LEMMA PiecesAreChunks ==
  ASSUME NEW D \in SUBSET Bytes, NEW W \in Nat, NEW at, NEW C, TakeAt(D, W, at, C)
  PROVE  /\ ToSet(at.out) = Chunks(C)
         /\ Len(at.out) = Cardinality(Chunks(C))
<1> DEFINE out == at.out
           N == Len(out)
<1>1. /\ out \in Seq(ByteRange) /\ C = BytesOf(out) /\ C \subseteq D
      /\ \A j, k \in 1 .. N : j < k => out[j][1] < out[k][1]
      /\ \A j \in 1 .. N : IsPiece(C, D, at.window_left, out[j])
  BY DEF TakeAt, TakeStates
<1> HIDE DEF out
<1>2. N \in Nat /\ DOMAIN out = 1 .. N /\ \A j \in 1 .. N : out[j] \in ByteRange
  BY <1>1, LenProperties, ElementOfSeq
<1> HIDE DEF N
<1>3. ASSUME NEW j \in 1 .. N
      PROVE  out[j] \in Chunks(C)
  <2> DEFINE c == out[j]
  <2>1. c \in ByteRange /\ IsPiece(C, D, at.window_left, c)
    BY <1>1, <1>2
  <2>2. Interval(c[1], c[2]) \subseteq C
    BY <1>1, <1>2 DEF BytesOf
  <2> HIDE DEF c
  <2>3. c[1] \in Bytes /\ c[1] \in Nat /\ c[2] \in Nat /\ c[1] < c[2]
    BY <2>1, RangeFacts DEF ByteRange
  <2>4. c[1] \in C
    BY <2>2, <2>3 DEF Interval
  <2>5. PICK r \in Bytes, k \in 0 .. FileSize :
          /\ c[1] = r + k * CHUNK_MAX
          /\ Interval(r, c[1]) \subseteq C
          /\ r = 0 \/ (r - 1) \notin D
    BY <2>1 DEF IsPiece, Aligned
  <2>6. Interval(r, c[1] + 1) \subseteq C
    <3>1. ASSUME NEW b \in Bytes, b < c[1] + 1 PROVE b < c[1] \/ b = c[1]
      BY <2>3, <3>1, BytesNat
    <3> QED
      BY <2>4, <2>5, <3>1 DEF Interval
  <2>7. r = 0 \/ (r - 1) \notin C
    BY <1>1, <2>5
  <2>8. \/ c[2] = c[1] + CHUNK_MAX
        \/ c[2] < c[1] + CHUNK_MAX /\ c[2] \notin C
    BY <1>1, <2>1 DEF IsPiece
  <2>9. c \in Chunks(C)
    BY <2>1, <2>2, <2>5, <2>6, <2>7, <2>8 DEF Chunks
  <2> QED
    BY <2>9 DEF c
<1>4. ASSUME NEW c \in Chunks(C)
      PROVE  \E j \in 1 .. N : c = out[j]
  <2>1. c \in ByteRange /\ Interval(c[1], c[2]) \subseteq C
    BY DEF Chunks
  <2>2. c[1] \in Bytes /\ c[1] \in Nat /\ c[2] \in Nat /\ c[1] < c[2]
    BY <2>1, RangeFacts DEF ByteRange
  <2>3. c[1] \in Interval(c[1], c[2])
    BY <2>2 DEF Interval
  <2>4. PICK j \in 1 .. N : c[1] \in Interval(out[j][1], out[j][2])
    BY <1>1, <1>2, <2>1, <2>3 DEF BytesOf
  <2>5. C \in SUBSET Bytes /\ out[j] \in Chunks(C)
    BY <1>1, <1>3
  <2>6. c = out[j]
    BY <2>3, <2>4, <2>5, ChunksDisjoint
  <2> QED
    BY <2>6
<1>5. ToSet(out) = Chunks(C)
  BY <1>2, <1>3, <1>4 DEF ToSet
<1>6. ASSUME NEW j \in 1 .. N, NEW k \in 1 .. N, out[j] = out[k]
      PROVE  j = k
  <2>1. out[j][1] \in Nat /\ out[k][1] \in Nat
    BY <1>2, RangeFacts
  <2>2. ~(j < k) /\ ~(k < j)
    BY <1>1, <1>6, <2>1 DEF N
  <2> QED
    BY <1>2, <2>2
<1>7. N = Cardinality(Chunks(C))
  <2> DEFINE f == [j \in 1 .. N |-> out[j]]
  <2>1. f \in Bijection(1 .. N, Chunks(C))
    <3>1. f \in [1 .. N -> Chunks(C)]
      BY <1>3
    <3>2. \A j, k \in 1 .. N : f[j] = f[k] => j = k
      BY <1>6
    <3>3. \A c \in Chunks(C) : \E j \in 1 .. N : f[j] = c
      BY <1>4
    <3> HIDE DEF f
    <3> QED
      BY <3>1, <3>2, <3>3 DEF Bijection, Injection, Surjection, IsInjective
  <2>2. ExistsBijection(1 .. N, Chunks(C))
    BY <2>1 DEF ExistsBijection
  <2> QED
    BY <1>2, <2>2, FS_CountingElements
<1> QED
  BY <1>5, <1>7 DEF out, N

\* What take_batch's loop does to the list of D within a window of W bytes.
TakesChunks(D, W, taken) ==
  LET claimed == BytesOf(taken.out)
  IN  /\ claimed \subseteq D
      /\ IsListOf(taken.list, D \ claimed)
      /\ \A a \in claimed, b \in D \ claimed : a < b
      /\ Cardinality(claimed) = Least({W, Cardinality(D)})
      /\ ToSet(taken.out) = Chunks(claimed)
      /\ Len(taken.out) = Cardinality(Chunks(claimed))

\* It takes the lowest bytes, as many as the window has room for, in exactly
\* the pieces of the set form.
LEMMA TakeFrontIs ==
  ASSUME NEW D \in SUBSET Bytes, NEW L, IsListOf(L, D), NEW W \in Nat
  PROVE  TakesChunks(D, W, TakeFront(L, W))
<1> DEFINE at == TakeFront(L, W)
           C == BytesOf(at.out)
<1>1. TakeAt(D, W, at, C) /\ (at.list = <<>> \/ at.window_left = 0)
  BY TakeLoop
<1> HIDE DEF at
<1>2. ToSet(at.out) = Chunks(C) /\ Len(at.out) = Cardinality(Chunks(C))
  <2> HIDE DEF C
  <2> QED
    BY <1>1, PiecesAreChunks
<1> HIDE DEF C
<1>3. /\ C \subseteq D /\ IsListOf(at.list, D \ C) /\ \A a \in C, b \in D \ C : a < b
      /\ at.window_left \in Nat /\ at.window_left <= W
      /\ Cardinality(C) = W - at.window_left
  BY <1>1 DEF TakeAt, TakeStates
<1>4. IsFiniteSet(D) /\ Cardinality(D) \in Nat /\ Cardinality(C) \in Nat /\ Cardinality(C) <= Cardinality(D)
  BY <1>3, BytesFinite, FS_Subset, FS_CardinalityType
<1>5. Least({W, Cardinality(D)}) = IF W <= Cardinality(D) THEN W ELSE Cardinality(D)
  BY <1>4, OfTwo
<1>6. CASE at.window_left = 0
  <2>1. Cardinality(C) = W
    BY <1>3, <1>6
  <2> QED
    BY <1>2, <1>3, <1>4, <1>5, <2>1 DEF TakesChunks, C, at
<1>7. CASE at.list = <<>>
  <2>1. D \ C = {}
    <3>1. BytesOf(<<>>) = {}
      BY DEF BytesOf
    <3> QED
      BY <1>3, <1>7, <3>1 DEF IsListOf
  <2>2. C = D
    BY <1>3, <2>1
  <2>3. Cardinality(D) <= W
    BY <1>3, <1>4, <2>2
  <2>4. Cardinality(C) = Least({W, Cardinality(D)})
    BY <1>4, <1>5, <2>2, <2>3
  <2> QED
    BY <1>2, <1>3, <2>4 DEF TakesChunks, C, at
<1> QED
  BY <1>1, <1>6, <1>7

=============================================================================
