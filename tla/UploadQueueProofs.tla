------------------------- MODULE UploadQueueProofs -------------------------
(***************************************************************************)
(* The safety of the upload queue for every number of paths and threads,   *)
(* every file, chunk and window size and every run length.                 *)
(***************************************************************************)
EXTENDS MCUploadQueue, ByteRangesProofs

\* The part of the type invariant about the queue itself.
QueueTypeOK ==
  /\ dirty \in [Paths -> SUBSET Bytes]
  /\ inflight \subseteq Piece
  /\ blocked \subseteq Paths
  /\ dirty_bytes \in Nat
  /\ inflight_bytes \in Nat
  /\ errors \in 0 .. MaxErrors
  /\ backoff \in BOOLEAN

ClientTypeOK ==
  /\ writer \in [Writers -> {"idle", "waiting"}]
  /\ drain \in [Drainers -> Drain]
  /\ writes \in 0 .. MaxWrites
  /\ drains \in 0 .. MaxDrains

\* The inductive invariant.  One send per byte rests on RewritesWait (what is
\* claimed is not in flight); the window count rests on both.
QueueInv ==
  /\ QueueTypeOK
  /\ OneSendPerByte
  /\ RewritesWait
  /\ BlockedHasSend
  /\ WindowHolds
  /\ BacklogNotUnderstated

-----------------------------------------------------------------------------
\* The sets of (path, byte) pairs whose sizes dirty_bytes and inflight_bytes
\* are compared with are finite.
LEMMA PathBytesFinite ==
  /\ \A T \in SUBSET (Paths \X Bytes) : IsFiniteSet(T) /\ Cardinality(T) \in Nat
  /\ IsFiniteSet(InflightBytes) /\ Cardinality(InflightBytes) \in Nat
<1>1. IsFiniteSet(Paths \X Bytes)
  BY BytesFinite, FS_Product, QueueAssumption
<1>2. \A T \in SUBSET (Paths \X Bytes) : IsFiniteSet(T) /\ Cardinality(T) \in Nat
  BY <1>1, FS_Subset, FS_CardinalityType
<1>3. InflightBytes \in SUBSET (Paths \X Bytes)
  BY DEF InflightBytes
<1> QED
  BY <1>2, <1>3

\* The byte pairs of one path's set of bytes are as many as the bytes.
LEMMA OnePath ==
  ASSUME NEW p \in Paths, NEW T \in SUBSET Bytes
  PROVE  /\ ({p} \X T) \subseteq (Paths \X Bytes)
         /\ IsFiniteSet(T) /\ Cardinality(T) \in Nat
         /\ IsFiniteSet({p} \X T)
         /\ Cardinality({p} \X T) = Cardinality(T)
<1>1. IsFiniteSet(T) /\ Cardinality(T) \in Nat
  BY BytesFinite, FS_Subset, FS_CardinalityType
<1>2. IsFiniteSet({p}) /\ Cardinality({p}) = 1
  BY FS_Singleton
<1>3. IsFiniteSet({p} \X T) /\ Cardinality({p} \X T) = 1 * Cardinality(T)
  BY <1>1, <1>2, FS_Product
<1> QED
  BY <1>1, <1>3

\* Disjoint finite sets add up.
LEMMA DisjointUnion ==
  ASSUME NEW S, NEW T, IsFiniteSet(S), IsFiniteSet(T), S \cap T = {}
  PROVE  /\ IsFiniteSet(S \cup T)
         /\ Cardinality(S) \in Nat /\ Cardinality(T) \in Nat
         /\ Cardinality(S \cup T) = Cardinality(S) + Cardinality(T)
<1>1. Cardinality(S) \in Nat /\ Cardinality(T) \in Nat
  BY FS_CardinalityType
<1>2. /\ IsFiniteSet(S \cup T)
      /\ Cardinality(S \cup T) = Cardinality(S) + Cardinality(T) - Cardinality(S \cap T)
  BY FS_Union
<1>3. Cardinality(S \cap T) = 0
  BY FS_EmptySet
<1> QED
  BY <1>1, <1>2, <1>3

\* Adding [s, e) to one path's dirty bytes adds no more than merge_range says.
LEMMA MergeBacklog ==
  ASSUME QueueTypeOK, BacklogNotUnderstated,
         NEW p \in Paths, NEW s \in Bytes, NEW e \in 1 .. FileSize, s < e,
         dirty' = [dirty EXCEPT ![p] = @ \cup Interval(s, e)],
         dirty_bytes' = dirty_bytes + merge_range(dirty[p], s, e)
  PROVE  /\ dirty' \in [Paths -> SUBSET Bytes]
         /\ dirty_bytes' \in Nat
         /\ BacklogNotUnderstated'
<1> DEFINE D == dirty[p]
           I == Interval(s, e)
           X == {p} \X (I \ D)
           B == PathBytes(dirty)
<1>1. D \in SUBSET Bytes /\ I \in SUBSET Bytes /\ (I \ D) \in SUBSET Bytes
  BY DEF QueueTypeOK, Interval
<1>2. /\ merge_range(D, s, e) \in Nat
      /\ Cardinality(D \cup I) <= Cardinality(D) + merge_range(D, s, e)
  BY <1>1, MergeNotUnderstated
<1>3. dirty' \in [Paths -> SUBSET Bytes] /\ dirty_bytes' \in Nat
  BY <1>1, <1>2 DEF QueueTypeOK
<1>4. PathBytes(dirty') = B \cup X
  BY <1>1 DEF PathBytes, QueueTypeOK
<1>5. B \cap X = {}
  BY DEF PathBytes
<1>6. IsFiniteSet(B) /\ Cardinality(B) \in Nat
  BY PathBytesFinite DEF PathBytes
<1>7. IsFiniteSet(X) /\ Cardinality(X) = Cardinality(I \ D) /\ Cardinality(I \ D) \in Nat
  BY <1>1, OnePath
<1>8. Cardinality(B \cup X) = Cardinality(B) + Cardinality(X)
  BY <1>5, <1>6, <1>7, DisjointUnion
<1>9. Cardinality(I \ D) = Cardinality(D \cup I) - Cardinality(D)
  <2>1. IsFiniteSet(D) /\ IsFiniteSet(I) /\ IsFiniteSet(I \ D) /\ Cardinality(D) \in Nat
    BY <1>1, OnePath
  <2>2. (D \cup I) = (D \cup (I \ D)) /\ D \cap (I \ D) = {}
    OBVIOUS
  <2>3. Cardinality(D \cup (I \ D)) = Cardinality(D) + Cardinality(I \ D)
    BY <2>1, <2>2, DisjointUnion
  <2> HIDE DEF D, I
  <2> QED
    BY <2>1, <2>2, <2>3, <1>7
<1>10. Cardinality(D) \in Nat /\ Cardinality(D \cup I) \in Nat
  <2>1. (D \cup I) \in SUBSET Bytes
    BY <1>1
  <2> QED
    BY <1>1, <2>1, OnePath
<1>11. dirty_bytes \in Nat /\ dirty_bytes >= Cardinality(B)
  BY DEF QueueTypeOK, BacklogNotUnderstated
<1>12. dirty_bytes' >= Cardinality(PathBytes(dirty'))
  <2> DEFINE m == merge_range(D, s, e)
             n == Cardinality(I \ D)
             b == Cardinality(B)
  <2>1. dirty_bytes' = dirty_bytes + m
    OBVIOUS
  <2>2. m \in Nat /\ n \in Nat /\ b \in Nat /\ n <= m
    <3> HIDE DEF D, I, B, X
    <3> QED
      BY <1>2, <1>6, <1>7, <1>9, <1>10
  <2>3. Cardinality(PathBytes(dirty')) = b + n
    BY <1>4, <1>7, <1>8
  <2>4. dirty_bytes \in Nat /\ dirty_bytes >= b
    BY <1>11
  <2> HIDE DEF m, n, b
  <2> QED
    BY <2>1, <2>2, <2>3, <2>4
<1> QED
  BY <1>3, <1>12 DEF BacklogNotUnderstated

\* What is known of a piece in flight.
LEMMA PieceFacts ==
  ASSUME NEW q \in Piece
  PROVE  /\ q.path \in Paths /\ q.start \in Bytes /\ q.end \in 1 .. FileSize
         /\ q.start < q.end
         /\ Payload(q) \in SUBSET Bytes
         /\ IsFiniteSet(Payload(q))
         /\ Cardinality(Payload(q)) = q.end - q.start
         /\ q.start \in Payload(q)
<1>1. q.path \in Paths /\ q.start \in Bytes /\ q.end \in 1 .. FileSize /\ q.start < q.end
  BY DEF Piece
<1>2. Payload(q) \in SUBSET Bytes /\ q.start \in Payload(q)
  <2>1. q.start <= q.start
    BY <1>1, RangeAssumption DEF Bytes
  <2> QED
    BY <1>1, <2>1 DEF Payload, Interval
<1> QED
  BY <1>1, <1>2, IntervalCardinality DEF Payload

\* enqueue keeps the invariant.
LEMMA EnqueueKeeps ==
  ASSUME QueueInv, NEW p \in Paths, NEW s \in Bytes, NEW e \in 1 .. FileSize, s < e,
         enqueue(p, s, e)
  PROVE  QueueInv'
<1>1. /\ dirty' = [dirty EXCEPT ![p] = @ \cup Interval(s, e)]
      /\ dirty_bytes' = dirty_bytes + merge_range(dirty[p], s, e)
      /\ UNCHANGED <<inflight, inflight_bytes, errors, backoff>>
  BY DEF enqueue
<1>2. QueueTypeOK' /\ BacklogNotUnderstated'
  <2>1. dirty' \in [Paths -> SUBSET Bytes] /\ dirty_bytes' \in Nat /\ BacklogNotUnderstated'
    BY <1>1, MergeBacklog DEF QueueInv
  <2>2. blocked' \subseteq Paths
    BY DEF enqueue, QueueInv, QueueTypeOK
  <2> QED
    BY <1>1, <2>1, <2>2 DEF QueueInv, QueueTypeOK
<1>3. OneSendPerByte'
  BY <1>1 DEF QueueInv, OneSendPerByte, Payload
<1>4. RewritesWait'
  <2> SUFFICES ASSUME NEW q \in inflight, q.path \notin blocked'
               PROVE  dirty'[q.path] \cap Payload(q) = {}
    BY <1>1 DEF RewritesWait, Payload
  <2>1. q \in Piece /\ q.path \in Paths /\ q.start \in Nat /\ q.end \in Nat
    <3>1. q \in Piece
      BY DEF QueueInv, QueueTypeOK
    <3>2. q.path \in Paths /\ q.start \in Bytes /\ q.end \in 1 .. FileSize
      BY <3>1, PieceFacts
    <3> QED
      BY <3>1, <3>2, RangeAssumption DEF Bytes
  <2>2. q.path \notin blocked
    BY DEF enqueue
  <2>3. dirty[q.path] \cap Payload(q) = {}
    BY <2>2 DEF QueueInv, RewritesWait
  <2>4. CASE q.path # p
    BY <1>1, <2>1, <2>3, <2>4 DEF QueueInv, QueueTypeOK
  <2>5. CASE q.path = p
    <3>1. ~Overlap(s, e, q)
      BY <2>5 DEF enqueue
    <3>2. Interval(s, e) \cap Payload(q) = {}
      <4> SUFFICES ASSUME NEW b \in Bytes, s <= b, b < e, q.start <= b, b < q.end PROVE FALSE
        BY DEF Payload, Interval
      <4>1. s \in Nat /\ e \in Nat /\ b \in Nat
        BY RangeAssumption DEF Bytes
      <4> QED
        BY <4>1, <3>1, <2>1 DEF Overlap
    <3>3. dirty'[p] = dirty[p] \cup Interval(s, e)
      BY <1>1 DEF QueueInv, QueueTypeOK
    <3> QED
      BY <3>2, <3>3, <2>3, <2>5
  <2> QED
    BY <2>4, <2>5
<1>5. BlockedHasSend'
  BY <1>1 DEF QueueInv, BlockedHasSend, enqueue
<1>6. WindowHolds'
  BY <1>1 DEF QueueInv, WindowHolds, InflightBytes, Payload
<1> QED
  BY <1>2, <1>3, <1>4, <1>5, <1>6 DEF QueueInv

\* The requests of one path's claim are pieces of that claim, disjoint, and
\* carry all of it.
LEMMA PiecesPartition ==
  ASSUME NEW p \in Paths, NEW S \in SUBSET Bytes
  PROVE  /\ \A q \in Pieces(p, S) : q \in Piece /\ q.path = p /\ Payload(q) \subseteq S
         /\ \A q, r \in Pieces(p, S) : Payload(q) \cap Payload(r) # {} => q = r
         /\ \A b \in S : \E q \in Pieces(p, S) : b \in Payload(q)
<1>1. ASSUME NEW q \in Pieces(p, S)
      PROVE  \E c \in Chunks(S) : /\ q = [path |-> p, start |-> c[1], end |-> c[2]]
                                  /\ Payload(q) = Interval(c[1], c[2])
  BY DEF Pieces, Payload
<1>2. ASSUME NEW c \in Chunks(S)
      PROVE  /\ c[1] \in Bytes /\ c[2] \in 1 .. FileSize /\ c[1] < c[2]
             /\ Interval(c[1], c[2]) \subseteq S
  BY DEF Chunks, ByteRange
<1>3. \A q \in Pieces(p, S) : q \in Piece /\ q.path = p /\ Payload(q) \subseteq S
  BY <1>1, <1>2 DEF Piece
<1>4. ASSUME NEW q \in Pieces(p, S), NEW r \in Pieces(p, S), Payload(q) \cap Payload(r) # {}
      PROVE  q = r
  <2>1. PICK c \in Chunks(S) : /\ q = [path |-> p, start |-> c[1], end |-> c[2]]
                               /\ Payload(q) = Interval(c[1], c[2])
    BY <1>1
  <2>2. PICK d \in Chunks(S) : /\ r = [path |-> p, start |-> d[1], end |-> d[2]]
                               /\ Payload(r) = Interval(d[1], d[2])
    BY <1>1
  <2>3. PICK b : b \in Payload(q) /\ b \in Payload(r)
    BY <1>4
  <2>4. c = d
    BY <2>1, <2>2, <2>3, ChunksDisjoint
  <2> QED
    BY <2>1, <2>2, <2>4
<1>5. ASSUME NEW b \in S
      PROVE  \E q \in Pieces(p, S) : b \in Payload(q)
  <2>1. PICK c \in Chunks(S) : b \in Interval(c[1], c[2])
    BY ChunksCover
  <2> DEFINE q == [path |-> p, start |-> c[1], end |-> c[2]]
  <2>2. q \in Pieces(p, S)
    BY DEF Pieces
  <2>3. b \in Payload(q)
    BY <2>1 DEF Payload
  <2> QED
    BY <2>2, <2>3
<1> QED
  BY <1>3, <1>4, <1>5

\* take_batch keeps the invariant.
LEMMA TakeBatchKeeps ==
  ASSUME QueueInv, take_batch
  PROVE  QueueInv'
<1> DEFINE total(cl) == Cardinality(PathBytes(cl))
<1>1. PICK cut \in [Paths -> 0 .. FileSize] :
        /\ 0 < total(Claim(cut))
        /\ total(Claim(cut)) <= saturating_sub(WRITE_WINDOW, inflight_bytes)
        /\ dirty' = [p \in Paths |-> dirty[p] \ Claim(cut)[p]]
        /\ inflight' = inflight \cup UNION {Pieces(p, Claim(cut)[p]) : p \in Paths}
        /\ dirty_bytes' = saturating_sub(dirty_bytes, total(Claim(cut)))
        /\ inflight_bytes' = inflight_bytes + total(Claim(cut))
  BY DEF take_batch
<1>2. UNCHANGED <<blocked, errors, backoff>>
  BY DEF take_batch
<1> DEFINE claim == Claim(cut)
           new == UNION {Pieces(p, claim[p]) : p \in Paths}
           n == total(claim)
<1>3. \A p \in Paths : /\ claim[p] \subseteq dirty[p]
                       /\ claim[p] \in SUBSET Bytes
                       /\ p \in blocked => claim[p] = {}
  BY DEF Claim, QueueInv, QueueTypeOK
<1>4. \A q \in new : /\ q \in Piece /\ q.path \in Paths
                     /\ q \in Pieces(q.path, claim[q.path])
                     /\ Payload(q) \subseteq claim[q.path]
                     /\ q.start \in Payload(q)
  <2> SUFFICES ASSUME NEW p \in Paths, NEW q \in Pieces(p, claim[p])
               PROVE  /\ q \in Piece /\ q.path \in Paths
                      /\ q \in Pieces(q.path, claim[q.path])
                      /\ Payload(q) \subseteq claim[q.path]
                      /\ q.start \in Payload(q)
    OBVIOUS
  <2>1. q \in Piece /\ q.path = p /\ Payload(q) \subseteq claim[p]
    BY <1>3, PiecesPartition
  <2>2. q.start \in Payload(q)
    BY <2>1, PieceFacts
  <2> QED
    BY <2>1, <2>2
<1>5. \A q, r \in new : q.path = r.path /\ Payload(q) \cap Payload(r) # {} => q = r
  BY <1>3, <1>4, PiecesPartition
<1>6. \A q \in new, r \in inflight : q.path = r.path => Payload(q) \cap Payload(r) = {}
  <2> SUFFICES ASSUME NEW q \in new, NEW r \in inflight, q.path = r.path
               PROVE  Payload(q) \cap Payload(r) = {}
    OBVIOUS
  <2>1. q.path \in Paths /\ Payload(q) \subseteq claim[q.path] /\ q.start \in claim[q.path]
    BY <1>4
  <2>2. r.path \notin blocked
    BY <2>1, <1>3
  <2>3. dirty[r.path] \cap Payload(r) = {}
    BY <2>2 DEF QueueInv, RewritesWait
  <2> QED
    BY <2>1, <2>3, <1>3
<1>7. inflight' = inflight \cup new /\ inflight \subseteq Piece
  BY <1>1 DEF QueueInv, QueueTypeOK
<1>8. PathBytes(claim) \in SUBSET (Paths \X Bytes) /\ IsFiniteSet(PathBytes(claim)) /\ n \in Nat
  BY PathBytesFinite DEF PathBytes
<1>9. InflightBytes' = InflightBytes \cup PathBytes(claim)
  <2>1. ASSUME NEW pb \in Paths \X Bytes
        PROVE  (\E q \in new : q.path = pb[1] /\ pb[2] \in Payload(q)) <=> pb[2] \in claim[pb[1]]
    <3>1. ASSUME pb[2] \in claim[pb[1]]
          PROVE  \E q \in new : q.path = pb[1] /\ pb[2] \in Payload(q)
      <4>1. pb[1] \in Paths
        OBVIOUS
      <4>2. PICK q \in Pieces(pb[1], claim[pb[1]]) : pb[2] \in Payload(q)
        BY <3>1, <4>1, <1>3, PiecesPartition
      <4>3. q \in new /\ q.path = pb[1]
        BY <4>1, <4>2, <1>3, PiecesPartition
      <4> QED
        BY <4>2, <4>3
    <3>2. ASSUME NEW q \in new, q.path = pb[1], pb[2] \in Payload(q)
          PROVE  pb[2] \in claim[pb[1]]
      BY <3>2, <1>4
    <3> QED
      BY <3>1, <3>2
  <2>2. InflightBytes' = {pb \in Paths \X Bytes : \E q \in inflight' : q.path = pb[1] /\ pb[2] \in Payload(q)}
    BY DEF InflightBytes, Payload
  <2> HIDE DEF claim, new, n
  <2> QED
    BY <2>1, <2>2, <1>7 DEF InflightBytes, PathBytes
<1>10. InflightBytes \cap PathBytes(claim) = {}
  <2> SUFFICES ASSUME NEW pb \in InflightBytes, pb \in PathBytes(claim) PROVE FALSE
    OBVIOUS
  <2>1. pb[1] \in Paths /\ pb[2] \in claim[pb[1]]
    BY DEF PathBytes
  <2>2. PICK r \in inflight : r.path = pb[1] /\ pb[2] \in Payload(r)
    BY DEF InflightBytes
  <2>3. r.path \notin blocked /\ pb[2] \in dirty[r.path]
    BY <2>1, <2>2, <1>3
  <2> QED
    BY <2>2, <2>3 DEF QueueInv, RewritesWait
<1>11. Cardinality(InflightBytes') = Cardinality(InflightBytes) + n
  BY <1>8, <1>9, <1>10, PathBytesFinite, DisjointUnion
<1>12. WindowHolds'
  <2>1. /\ inflight_bytes \in Nat /\ WRITE_WINDOW \in Nat
        /\ inflight_bytes = Cardinality(InflightBytes)
    BY QueueAssumption DEF QueueInv, QueueTypeOK, WindowHolds
  <2>2. n > 0 /\ n <= saturating_sub(WRITE_WINDOW, inflight_bytes) /\ inflight_bytes' = inflight_bytes + n
    BY <1>1
  <2> HIDE DEF n
  <2>3. inflight_bytes' <= WRITE_WINDOW
    BY <2>1, <2>2, <1>8 DEF saturating_sub
  <2> QED
    BY <2>1, <2>2, <2>3, <1>11 DEF WindowHolds
<1>13. BacklogNotUnderstated'
  <2>1. PathBytes(dirty) = PathBytes(dirty') \cup PathBytes(claim)
    BY <1>1, <1>3 DEF PathBytes
  <2>2. PathBytes(dirty') \cap PathBytes(claim) = {}
    BY <1>1 DEF PathBytes
  <2>3. IsFiniteSet(PathBytes(dirty')) /\ Cardinality(PathBytes(dirty')) \in Nat
    BY PathBytesFinite DEF PathBytes
  <2>4. Cardinality(PathBytes(dirty)) = Cardinality(PathBytes(dirty')) + n
    BY <2>1, <2>2, <2>3, <1>8, DisjointUnion
  <2>5. dirty_bytes \in Nat /\ dirty_bytes >= Cardinality(PathBytes(dirty))
    BY DEF QueueInv, QueueTypeOK, BacklogNotUnderstated
  <2>6. dirty_bytes' = saturating_sub(dirty_bytes, n)
    BY <1>1
  <2> HIDE DEF n
  <2> QED
    BY <2>3, <2>4, <2>5, <2>6, <1>8 DEF BacklogNotUnderstated, saturating_sub
<1>14. QueueTypeOK'
  <2>1. dirty' \in [Paths -> SUBSET Bytes]
    BY <1>1 DEF QueueInv, QueueTypeOK
  <2>2. inflight' \subseteq Piece
    BY <1>4, <1>7
  <2>3. dirty_bytes' \in Nat /\ inflight_bytes' \in Nat
    <3>1. dirty_bytes \in Nat /\ inflight_bytes \in Nat
      BY DEF QueueInv, QueueTypeOK
    <3>2. dirty_bytes' = saturating_sub(dirty_bytes, n) /\ inflight_bytes' = inflight_bytes + n
      BY <1>1
    <3> HIDE DEF n
    <3> QED
      BY <3>1, <3>2, <1>8 DEF saturating_sub
  <2> QED
    BY <2>1, <2>2, <2>3, <1>2 DEF QueueInv, QueueTypeOK
<1>15. OneSendPerByte'
  <2> SUFFICES ASSUME NEW q \in inflight', NEW r \in inflight', q.path = r.path,
                      Payload(q) \cap Payload(r) # {}
               PROVE  q = r
    BY DEF OneSendPerByte, Payload
  <2> HIDE DEF new
  <2> QED
    BY <1>5, <1>6, <1>7 DEF QueueInv, OneSendPerByte
<1>16. RewritesWait'
  <2> SUFFICES ASSUME NEW q \in inflight', q.path \notin blocked'
               PROVE  dirty'[q.path] \cap Payload(q) = {}
    BY DEF RewritesWait, Payload
  <2>1. CASE q \in inflight
    <3>1. q.path \in Paths /\ dirty[q.path] \cap Payload(q) = {}
      BY <2>1, <1>2, <1>7, PieceFacts DEF QueueInv, RewritesWait
    <3>2. dirty'[q.path] \subseteq dirty[q.path]
      BY <3>1, <1>1
    <3> QED
      BY <3>1, <3>2
  <2>2. CASE q \in new
    <3>1. q.path \in Paths /\ Payload(q) \subseteq claim[q.path]
      BY <2>2, <1>4
    <3>2. dirty'[q.path] = dirty[q.path] \ claim[q.path]
      BY <3>1, <1>1
    <3> QED
      BY <3>1, <3>2
  <2> HIDE DEF new
  <2> QED
    BY <2>1, <2>2, <1>7
<1>17. BlockedHasSend'
  BY <1>2, <1>7 DEF QueueInv, BlockedHasSend
<1> QED
  BY <1>12, <1>13, <1>14, <1>15, <1>16, <1>17 DEF QueueInv

\* finish keeps the invariant, whatever the outcome.
LEMMA FinishKeeps ==
  ASSUME QueueInv, NEW q \in inflight, NEW outcome \in SendOutcome, finish(q, outcome)
  PROVE  QueueInv'
<1>1. /\ inflight' = inflight \ {q}
      /\ inflight_bytes' = saturating_sub(inflight_bytes, q.end - q.start)
      /\ blocked' = IF \E r \in inflight' : r.path = q.path
                    THEN blocked ELSE blocked \ {q.path}
  BY DEF finish, unblock
<1>2. /\ inflight \subseteq Piece
      /\ q \in Piece /\ q.path \in Paths /\ q.start \in Bytes /\ q.end \in 1 .. FileSize
      /\ q.start < q.end
      /\ Payload(q) \in SUBSET Bytes
      /\ Cardinality(Payload(q)) = q.end - q.start
  BY PieceFacts DEF QueueInv, QueueTypeOK
<1>3. \/ UNCHANGED <<dirty, dirty_bytes>>
      \/ /\ dirty' = [dirty EXCEPT ![q.path] = @ \cup Payload(q)]
         /\ dirty_bytes' = dirty_bytes + merge_range(dirty[q.path], q.start, q.end)
  BY DEF finish
<1>4. dirty' \in [Paths -> SUBSET Bytes] /\ dirty_bytes' \in Nat /\ BacklogNotUnderstated'
  <2>1. CASE UNCHANGED <<dirty, dirty_bytes>>
    BY <2>1 DEF QueueInv, QueueTypeOK, BacklogNotUnderstated, PathBytes
  <2>2. CASE /\ dirty' = [dirty EXCEPT ![q.path] = @ \cup Payload(q)]
             /\ dirty_bytes' = dirty_bytes + merge_range(dirty[q.path], q.start, q.end)
    BY <2>2, <1>2, MergeBacklog DEF QueueInv, Payload
  <2> QED
    BY <1>3, <2>1, <2>2
<1>5. QueueTypeOK'
  <2>1. errors' \in 0 .. MaxErrors /\ backoff' \in BOOLEAN
    <3>1. errors \in 0 .. MaxErrors /\ backoff \in BOOLEAN /\ MaxErrors \in Nat
      BY QueueAssumption DEF QueueInv, QueueTypeOK
    <3>2. errors' = errors \/ (errors < MaxErrors /\ errors' = errors + 1)
      BY DEF finish
    <3>3. errors' \in 0 .. MaxErrors
      BY <3>1, <3>2
    <3>4. backoff' = FALSE \/ backoff' = TRUE \/ backoff' = backoff
      BY Zenon DEF finish
    <3>5. backoff' \in BOOLEAN
      BY <3>1, <3>4, Zenon
    <3> QED
      BY <3>3, <3>5
  <2>2. inflight_bytes' \in Nat
    <3>1. inflight_bytes \in Nat /\ q.end - q.start \in Nat
      BY <1>2, RangeAssumption DEF QueueInv, QueueTypeOK, Bytes
    <3> QED
      BY <3>1, <1>1 DEF saturating_sub
  <2>3. inflight' \subseteq Piece /\ blocked' \subseteq Paths
    BY <1>1, <1>2 DEF QueueInv, QueueTypeOK
  <2> QED
    BY <2>1, <2>2, <2>3, <1>4 DEF QueueTypeOK
<1>6. OneSendPerByte'
  BY <1>1 DEF QueueInv, OneSendPerByte, Payload
<1>7. RewritesWait'
  <2> SUFFICES ASSUME NEW r \in inflight', r.path \notin blocked'
               PROVE  dirty'[r.path] \cap Payload(r) = {}
    BY DEF RewritesWait, Payload
  <2>1. r \in inflight /\ r # q
    BY <1>1
  <2>2. r.path \notin blocked
    BY <2>1, <1>1
  <2>3. dirty[r.path] \cap Payload(r) = {}
    BY <2>1, <2>2 DEF QueueInv, RewritesWait
  <2>4. r.path = q.path => Payload(q) \cap Payload(r) = {}
    BY <2>1 DEF QueueInv, OneSendPerByte
  <2>5. r.path \in Paths
    BY <2>1, <1>2, PieceFacts
  <2>6. CASE UNCHANGED <<dirty, dirty_bytes>>
    BY <2>3, <2>6
  <2>7. CASE dirty' = [dirty EXCEPT ![q.path] = @ \cup Payload(q)]
    <3>1. dirty'[r.path] = IF r.path = q.path THEN dirty[q.path] \cup Payload(q) ELSE dirty[r.path]
      BY <2>5, <2>7 DEF QueueInv, QueueTypeOK
    <3> QED
      BY <3>1, <2>3, <2>4
  <2> QED
    BY <1>3, <2>6, <2>7
<1>8. BlockedHasSend'
  <2> SUFFICES ASSUME NEW p \in blocked' PROVE \E r \in inflight' : r.path = p
    BY DEF BlockedHasSend
  <2>1. CASE p = q.path
    BY <2>1, <1>1
  <2>2. CASE p # q.path
    <3>1. PICK r \in inflight : r.path = p
      BY <1>1 DEF QueueInv, BlockedHasSend
    <3>2. r \in inflight'
      BY <3>1, <2>2, <1>1
    <3> QED
      BY <3>1, <3>2
  <2> QED
    BY <2>1, <2>2
<1>9. WindowHolds'
  <2> DEFINE X == {q.path} \X Payload(q)
  <2>1. InflightBytes' = {pb \in Paths \X Bytes : \E r \in inflight' : r.path = pb[1] /\ pb[2] \in Payload(r)}
    BY DEF InflightBytes, Payload
  <2>2. InflightBytes = InflightBytes' \cup X
    BY <2>1, <1>1, <1>2 DEF InflightBytes
  <2>3. InflightBytes' \cap X = {}
    BY <2>1, <1>1 DEF QueueInv, OneSendPerByte
  <2>4. IsFiniteSet(X) /\ Cardinality(X) = q.end - q.start
    BY <1>2, OnePath
  <2>5. IsFiniteSet(InflightBytes') /\ Cardinality(InflightBytes') \in Nat
    BY <2>1, PathBytesFinite
  <2>6. Cardinality(InflightBytes) = Cardinality(InflightBytes') + (q.end - q.start)
    BY <2>2, <2>3, <2>4, <2>5, DisjointUnion
  <2>7. /\ inflight_bytes = Cardinality(InflightBytes)
        /\ inflight_bytes <= WRITE_WINDOW
        /\ WRITE_WINDOW \in Nat
        /\ (q.end - q.start) \in Nat /\ q.end - q.start > 0
    BY <1>2, QueueAssumption, RangeAssumption DEF QueueInv, WindowHolds, Bytes
  <2> HIDE DEF X
  <2>8. inflight_bytes' = Cardinality(InflightBytes') /\ inflight_bytes' <= WRITE_WINDOW
    BY <2>5, <2>6, <2>7, <1>1 DEF saturating_sub
  <2> QED
    BY <2>8 DEF WindowHolds
<1> QED
  BY <1>4, <1>5, <1>6, <1>7, <1>8, <1>9 DEF QueueInv

-----------------------------------------------------------------------------
\* The queue starts in its invariant, with its callers well typed.
LEMMA QueueStarts == Init => QueueInv /\ ClientTypeOK
<1> SUFFICES ASSUME Init PROVE QueueInv /\ ClientTypeOK
  OBVIOUS
<1>1. InflightBytes = {} /\ PathBytes(dirty) = {}
  BY DEF Init, InflightBytes, PathBytes
<1>2. QueueTypeOK /\ ClientTypeOK
  <2>1. backoff \in BOOLEAN
    BY Zenon DEF Init
  <2>2. errors \in 0 .. MaxErrors /\ writes \in 0 .. MaxWrites /\ drains \in 0 .. MaxDrains
    BY QueueAssumption DEF Init
  <2>3. dirty \in [Paths -> SUBSET Bytes] /\ inflight \subseteq Piece /\ blocked \subseteq Paths
    BY DEF Init
  <2>4. NoDrain \in Drain
    <3>1. 0 \in 0 .. MaxErrors
      BY QueueAssumption
    <3> QED
      BY <3>1 DEF NoDrain, Drain
  <2>5. writer \in [Writers -> {"idle", "waiting"}] /\ drain \in [Drainers -> Drain]
    BY <2>4 DEF Init
  <2>6. dirty_bytes \in Nat /\ inflight_bytes \in Nat
    BY DEF Init
  <2> QED
    BY <2>1, <2>2, <2>3, <2>5, <2>6 DEF QueueTypeOK, ClientTypeOK
<1>3. WindowHolds /\ BacklogNotUnderstated
  BY SMTT(20), <1>1, FS_EmptySet, QueueAssumption DEF Init, WindowHolds, BacklogNotUnderstated
<1> QED
  BY <1>2, <1>3 DEF Init, QueueInv, OneSendPerByte, RewritesWait, BlockedHasSend

\* Every step of the queue and its callers keeps it.
LEMMA QueueSteps == QueueInv /\ ClientTypeOK /\ [Next]_vars => QueueInv' /\ ClientTypeOK'
<1> SUFFICES ASSUME QueueInv, ClientTypeOK, [Next]_vars
             PROVE  QueueInv' /\ ClientTypeOK'
  OBVIOUS
<1>1. ASSUME UNCHANGED queueVars PROVE QueueInv'
  BY <1>1 DEF queueVars, QueueInv, QueueTypeOK, OneSendPerByte, RewritesWait, BlockedHasSend,
              WindowHolds, BacklogNotUnderstated, InflightBytes, PathBytes, Payload
<1>2. CASE UNCHANGED vars
  BY <1>1, <1>2 DEF vars, clientVars, ClientTypeOK
<1>3. ASSUME NEW w \in Writers, NEW p \in Paths, NEW s \in Bytes, NEW e \in 1 .. FileSize,
             enqueue_upload(w, p, s, e)
      PROVE  QueueInv' /\ ClientTypeOK'
  BY <1>3, EnqueueKeeps, QueueAssumption DEF enqueue_upload, ClientTypeOK
<1>4. ASSUME NEW w \in Writers, wait_below(w)
      PROVE  QueueInv' /\ ClientTypeOK'
  BY <1>1, <1>4 DEF wait_below, ClientTypeOK
<1>5. CASE FlusherTakes
  BY <1>5, TakeBatchKeeps DEF FlusherTakes, clientVars, ClientTypeOK
<1>6. ASSUME NEW q \in inflight, NEW outcome \in SendOutcome, SendEnds(q, outcome)
      PROVE  QueueInv' /\ ClientTypeOK'
  <2>1. QueueInv'
    BY <1>6, FinishKeeps DEF SendEnds
  <2>2. drain' \in [Drainers -> Drain]
    BY ZenonT(30), <1>6 DEF SendEnds, ClientTypeOK, Drain
  <2> QED
    BY <1>6, <2>1, <2>2 DEF SendEnds, ClientTypeOK
<1>7. CASE BackoffEnds
  BY <1>7 DEF BackoffEnds, clientVars, ClientTypeOK, QueueInv, QueueTypeOK, OneSendPerByte,
              RewritesWait, BlockedHasSend, WindowHolds, BacklogNotUnderstated, InflightBytes,
              PathBytes, Payload
<1>8. ASSUME NEW d \in Drainers, NEW paths \in SUBSET Paths, DrainBegins(d, paths)
      PROVE  QueueInv' /\ ClientTypeOK'
  <2>1. errors \in 0 .. MaxErrors
    BY DEF QueueInv, QueueTypeOK
  <2> QED
    BY <1>1, <1>8, <2>1, QueueAssumption DEF DrainBegins, ClientTypeOK, Drain
<1>9. ASSUME NEW d \in Drainers, DrainChecks(d) \/ DrainWakes(d) \/ DrainTimesOut(d)
      PROVE  QueueInv' /\ ClientTypeOK'
  <2>1. PICK st \in {"check", "wait", "ok", "eio"} : drain' = [drain EXCEPT ![d].status = st]
    BY <1>9 DEF DrainChecks, DrainWakes, DrainTimesOut
  <2>2. drain' \in [Drainers -> Drain]
    BY <2>1 DEF ClientTypeOK, Drain
  <2>3. UNCHANGED <<queueVars, writer, writes, drains>>
    BY <1>9 DEF DrainChecks, DrainWakes, DrainTimesOut
  <2> QED
    BY <1>1, <2>2, <2>3 DEF ClientTypeOK
<1> QED
  BY <1>2, <1>3, <1>4, <1>5, <1>6, <1>7, <1>8, <1>9 DEF Next

\* The inductive invariant of the upload queue: in every reachable state of
\* every instance, the state is well typed, a byte is in at most one send,
\* newer bytes of a file wait for the sends they overlap, the window bounds
\* the bytes in flight and the backlog is not understated.
THEOREM QueueInvariant == Spec => [](QueueInv /\ ClientTypeOK)
BY QueueStarts, QueueSteps, PTL DEF Spec

\* Type correctness of the queue and of the threads that use it.
THEOREM QueueTypeCorrect == Spec => []TypeOK
<1>1. QueueInv /\ ClientTypeOK => TypeOK
  BY DEF QueueInv, QueueTypeOK, ClientTypeOK, TypeOK
<1> QED
  BY <1>1, QueueInvariant, PTL

\* A byte of a file is never inside two WRITE_AT requests at once.
THEOREM QueueOneSendPerByte == Spec => []OneSendPerByte
<1>1. QueueInv => OneSendPerByte
  BY DEF QueueInv
<1> QED
  BY <1>1, QueueInvariant, PTL

\* Rewritten bytes wait until the sends they overlap have ended.
THEOREM QueueRewritesWait == Spec => []RewritesWait
<1>1. QueueInv => RewritesWait
  BY DEF QueueInv
<1> QED
  BY <1>1, QueueInvariant, PTL

\* That wait is for a send that is really in flight: a path is not blocked
\* without one.
THEOREM QueueBlockedHasSend == Spec => []BlockedHasSend
<1>1. QueueInv => BlockedHasSend
  BY DEF QueueInv
<1> QED
  BY <1>1, QueueInvariant, PTL

\* The payload bytes in flight are counted exactly and stay in the window.
THEOREM QueueWindowHolds == Spec => []WindowHolds
<1>1. QueueInv => WindowHolds
  BY DEF QueueInv
<1> QED
  BY <1>1, QueueInvariant, PTL

\* Backpressure never starts too late: the dirty count is at least the number
\* of dirty bytes.
THEOREM QueueBacklog == Spec => []BacklogNotUnderstated
<1>1. QueueInv => BacklogNotUnderstated
  BY DEF QueueInv
<1> QED
  BY <1>1, QueueInvariant, PTL

-----------------------------------------------------------------------------
(* The code's loops over the list of a dirty path.                         *)

\* The lists of the bytes D, of which there is one.
LEMMA ListsOfIs ==
  ASSUME NEW D \in SUBSET Bytes
  PROVE  /\ ListsOf(D) # {}
         /\ \A list \in ListsOf(D) : IsListOf(list, D)
<1>1. ASSUME NEW list, IsListOf(list, D)
      PROVE  list \in ListsOf(D)
  <2>1. Len(list) \in 0 .. FileSize /\ list \in [1 .. Len(list) -> ByteRange]
    <3>1. list \in Seq(ByteRange)
      BY <1>1 DEF IsListOf
    <3>2. Len(list) \in Nat /\ Len(list) <= FileSize
      BY <1>1, <3>1, LenProperties, ListLength
    <3>3. list \in [1 .. Len(list) -> ByteRange]
      BY <3>1
    <3> QED
      BY <3>2, <3>3, RangeAssumption
  <2>2. list \in Lists /\ BytesOf(list) = D
    BY <1>1, <2>1 DEF Lists, IsListOf
  <2>3. <<list, D>> \in ListedBytes
    BY <1>1, <2>2 DEF ListedBytes
  <2> QED
    BY <2>3 DEF ListsOf
<1>2. ASSUME NEW list \in ListsOf(D)
      PROVE  IsListOf(list, D)
  BY DEF ListsOf, ListedBytes
<1> QED
  BY <1>1, <1>2, HasList

\* merge_range's loop keeps the list of every dirty path sorted, disjoint and
\* non-adjacent, adds exactly the new bytes, and returns what the queue counts.
THEOREM QueueMergeIsUnion == Spec => []MergeIsUnion
<1>1. QueueTypeOK => MergeIsUnion
  <2> SUFFICES ASSUME QueueTypeOK, NEW p \in Paths
               PROVE  /\ ListsOf(dirty[p]) # {}
                      /\ \A list \in ListsOf(dirty[p]), start \in 0 .. FileSize, end \in 0 .. FileSize :
                           LET merged == merge_range_list(list, start, end)
                           IN  /\ IsListOf(merged.list, dirty[p] \cup Interval(start, end))
                               /\ merged.result = IF start < end THEN merge_range(dirty[p], start, end) ELSE 0
    BY DEF MergeIsUnion
  <2>1. dirty[p] \in SUBSET Bytes
    BY DEF QueueTypeOK
  <2> QED
    BY <2>1, ListsOfIs, MergeRangeListIs
<1> QED
  BY <1>1, QueueInvariant, PTL DEF QueueInv

\* take_batch's loop claims from every dirty path's list the lowest bytes, as
\* many as the window leaves, in exactly the pieces the queue sends.
THEOREM QueueTakeIsChunks == Spec => []TakeIsChunks
<1>1. QueueTypeOK => TakeIsChunks
  <2> SUFFICES ASSUME QueueTypeOK
               PROVE  \A D \in {dirty[p] : p \in Paths} :
                        \A list \in ListsOf(D), window_left \in 1 .. WRITE_WINDOW :
                          TakesChunks(D, window_left, TakeFront(list, window_left))
    BY ZenonT(30) DEF TakeIsChunks, TakesChunks
  <2> SUFFICES ASSUME NEW p \in Paths, NEW list \in ListsOf(dirty[p]),
                      NEW window_left \in 1 .. WRITE_WINDOW
               PROVE  TakesChunks(dirty[p], window_left, TakeFront(list, window_left))
    OBVIOUS
  <2>1. dirty[p] \in SUBSET Bytes
    BY DEF QueueTypeOK
  <2>2. window_left \in Nat
    OBVIOUS
  <2> QED
    BY <2>1, <2>2, ListsOfIs, TakeFrontIs
<1> QED
  BY <1>1, QueueInvariant, PTL DEF QueueInv

=============================================================================
