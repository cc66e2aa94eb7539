------------------------- MODULE WriteBehindProofs -------------------------
(***************************************************************************)
(* The data path of a mount, for every number of paths and threads, every  *)
(* file, chunk and window size and every run length: it uses the queue as  *)
(* UploadQueue allows, it keeps its types, and while nothing is downloaded *)
(* into the cache a flush that succeeds has delivered what it was called   *)
(* for and no byte of the target goes back.                                *)
(***************************************************************************)
EXTENDS WriteBehind, SequenceTheorems, FiniteSetTheorems, TLAPS

\* The queue's theorems, about the same instance of it.
QP == INSTANCE UploadQueueProofs WITH Writers <- Threads, Drainers <- Threads

-----------------------------------------------------------------------------
\* The offsets of a file.
LEMMA Offsets == Bytes = 0 .. FileSize - 1 /\ FileSize \in Nat /\ MaxWrites \in Nat
BY WriteBehindAssumption DEF Bytes, Queue!Bytes

\* A file is its bytes.
LEMMA FileLen ==
  ASSUME NEW f \in File
  PROVE  /\ Len(f) \in 0 .. FileSize /\ f \in Seq(Value) /\ f # Absent /\ Length(f) = Len(f)
         /\ \A i \in 1 .. Len(f) : f[i] \in Value
<1>1. PICK n \in 0 .. FileSize : f \in [1 .. n -> Value]
  BY DEF File
<1>2. n \in Nat /\ f \in Seq(Value)
  BY <1>1, Offsets, SeqDef
<1>3. Len(f) \in Nat /\ DOMAIN f = 1 .. Len(f)
  BY <1>2, LenProperties
<1>4. Len(f) = n
  BY <1>1, <1>2, <1>3
<1>5. f # Absent
  <2> SUFFICES ASSUME f = Absent PROVE FALSE
    OBVIOUS
  <2>1. DOMAIN f = 1 .. 1 /\ f[1] = -1
    BY DEF Absent
  <2>2. f[1] \in Value
    BY <1>1, <2>1
  <2> QED
    BY <2>1, <2>2, Offsets DEF Value
<1> QED
  BY <1>1, <1>2, <1>4, <1>5 DEF Length

\* What has the bytes of a file is one.
LEMMA FileMade ==
  ASSUME NEW n \in 0 .. FileSize, NEW f \in [1 .. n -> Value]
  PROVE  f \in File /\ Len(f) = n
<1>1. f \in File
  BY DEF File
<1>2. n \in Nat /\ Len(f) \in Nat /\ f \in Seq(Value)
  BY <1>1, FileLen, Offsets
<1>3. DOMAIN f = 1 .. Len(f)
  BY <1>2, LenProperties
<1> QED
  BY <1>1, <1>2, <1>3

\* A file or its absence has a length, and a value at every offset.
LEMMA FileFacts ==
  ASSUME NEW f \in File \cup {Absent}
  PROVE  /\ Length(f) \in 0 .. FileSize
         /\ \A b \in Bytes : ByteAt(f, b) \in Value /\ ByteAt(f, b) \in Nat
         /\ \A i \in 1 .. Length(f) : f[i] \in Value
<1>1. Length(f) \in 0 .. FileSize
  BY FileLen, Offsets DEF Length
<1>2. \A i \in 1 .. Length(f) : f[i] \in Value
  BY FileLen, Offsets DEF Length
<1>3. ASSUME NEW b \in Bytes PROVE ByteAt(f, b) \in Value
  <2>1. CASE b < Length(f)
    <3>1. b + 1 \in 1 .. Length(f)
      BY <1>1, <2>1, Offsets
    <3> QED
      BY <1>2, <2>1, <3>1 DEF ByteAt
  <2>2. CASE ~(b < Length(f))
    BY <2>2, Offsets DEF ByteAt, Value
  <2> QED
    BY <2>1, <2>2
<1>4. \A v \in Value : v \in Nat
  BY Offsets DEF Value
<1> QED
  BY <1>1, <1>2, <1>3, <1>4

\* The hole and the file without bytes.
LEMMA EmptyFile ==
  /\ <<>> \in File /\ Length(<<>>) = 0 /\ Length(Absent) = 0
  /\ \A b \in Bytes : ByteAt(<<>>, b) = 0 /\ ByteAt(Absent, b) = 0
<1>1. <<>> \in [1 .. 0 -> Value]
  BY EmptySeq, LenProperties
<1>2. <<>> \in File /\ Len(<<>>) = 0
  <2>1. 0 \in 0 .. FileSize
    BY Offsets
  <2> QED
    BY <1>1, <2>1, FileMade
<1>3. Length(<<>>) = 0 /\ Length(Absent) = 0
  BY <1>2, FileLen DEF Length
<1> QED
  BY <1>2, <1>3, Offsets DEF ByteAt

\* What an earlier mount left is a file, of bytes no newer than the target's.
LEMMA LeftoverFile ==
  ASSUME NEW f \in Leftover
  PROVE  f \in File \cup {Absent} /\ \A b \in Bytes : ByteAt(f, b) \in {0, 1}
<1>1. CASE f = Absent
  BY <1>1, EmptyFile
<1>2. ASSUME NEW n \in 0 .. FileSize, f \in [1 .. n -> 0 .. 1]
      PROVE  f \in File \cup {Absent} /\ \A b \in Bytes : ByteAt(f, b) \in {0, 1}
  <2>1. 0 .. 1 \subseteq Value
    BY Offsets DEF Value
  <2>2. f \in [1 .. n -> Value] /\ f \in File
    BY <1>2, <2>1 DEF File
  <2>3. Length(f) = n
    BY <2>2, FileMade, FileLen
  <2>4. ASSUME NEW b \in Bytes, b < n PROVE f[b + 1] \in {0, 1}
    <3>1. b + 1 \in 1 .. n
      BY <2>4, Offsets
    <3> QED
      BY <1>2, <3>1
  <2> QED
    BY <2>2, <2>3, <2>4, Offsets DEF ByteAt
<1> QED
  BY <1>1, <1>2 DEF Leftover

\* A write into a file changes the bytes it holds and no other.
LEMMA OverlayFile ==
  ASSUME NEW f \in File \cup {Absent}, NEW s \in Nat, NEW data \in File, s + Len(data) <= FileSize
  PROVE  /\ Overlay(f, s, data) \in File /\ Overlay(f, s, data) # Absent
         /\ Length(f) <= Length(Overlay(f, s, data))
         /\ Length(Overlay(f, s, data)) \in {Length(f), s + Len(data)}
         /\ \A b \in Bytes : ByteAt(Overlay(f, s, data), b) =
              IF s <= b /\ b < s + Len(data) THEN data[b - s + 1] ELSE ByteAt(f, b)
<1> DEFINE n == Length(f)
           d == Len(data)
           m == IF data = <<>> THEN n ELSE IF s + d > n THEN s + d ELSE n
           new == [i \in 1 .. m |-> IF i \in s + 1 .. s + d THEN data[i - s]
                                    ELSE IF i <= n THEN f[i] ELSE 0]
<1>1. n \in 0 .. FileSize /\ d \in 0 .. FileSize /\ FileSize \in Nat
  BY FileFacts, FileLen, Offsets
<1>2. data = <<>> <=> d = 0
  BY FileLen, EmptySeq
<1>3. m \in 0 .. FileSize /\ n <= m /\ m \in {n, s + d} /\ (d > 0 => s + d <= m)
  BY <1>1, <1>2
<1>4. Overlay(f, s, data) = new
  BY DEF Overlay
<1>5. \A i \in 1 .. d : data[i] \in Value
  BY FileLen
<1>6. \A i \in 1 .. n : f[i] \in Value
  BY FileFacts
<1>7. new \in [1 .. m -> Value]
  <2> SUFFICES ASSUME NEW i \in 1 .. m
               PROVE  (IF i \in s + 1 .. s + d THEN data[i - s] ELSE IF i <= n THEN f[i] ELSE 0) \in Value
    OBVIOUS
  <2>1. i \in s + 1 .. s + d => i - s \in 1 .. d
    BY <1>1, <1>3
  <2>2. i <= n => i \in 1 .. n
    BY <1>1, <1>3
  <2>3. 0 \in Value
    BY Offsets DEF Value
  <2> HIDE DEF n, d, m
  <2> QED
    BY <1>5, <1>6, <2>1, <2>2, <2>3
<1>8. new \in File /\ Len(new) = m
  BY <1>3, <1>7, FileMade
<1>9. Length(new) = m /\ new # Absent
  BY <1>8, FileLen
<1>10. ASSUME NEW b \in Bytes
       PROVE  ByteAt(new, b) = IF s <= b /\ b < s + d THEN data[b - s + 1] ELSE ByteAt(f, b)
  <2>1. b \in Nat /\ b + 1 \in Nat
    BY Offsets
  <2>2. b < m => new[b + 1] = IF b + 1 \in s + 1 .. s + d THEN data[b + 1 - s] ELSE IF b + 1 <= n THEN f[b + 1] ELSE 0
    BY <1>1, <1>3, <2>1
  <2>3. b + 1 \in s + 1 .. s + d <=> s <= b /\ b < s + d
    BY <1>1, <2>1
  <2>4. b + 1 - s = b - s + 1 /\ (b + 1 <= n <=> b < n)
    BY <1>1, <2>1
  <2>5. ByteAt(new, b) = IF b < m THEN new[b + 1] ELSE 0
    BY <1>9 DEF ByteAt
  <2>6. ByteAt(f, b) = IF b < n THEN f[b + 1] ELSE 0
    BY DEF ByteAt
  <2>7. s <= b /\ b < s + d => b < m
    BY <1>1, <1>3, <2>1
  <2>8. b < n => b < m
    BY <1>1, <1>3, <2>1
  <2> HIDE DEF n, d, m, new
  <2> QED
    BY <2>2, <2>3, <2>4, <2>5, <2>6, <2>7, <2>8
<1> HIDE DEF n, d, m, new
<1> QED
  BY <1>3, <1>4, <1>8, <1>9, <1>10 DEF n, d

\* set_len keeps the bytes below the new length and adds only zeros.
LEMMA ResizeFile ==
  ASSUME NEW f \in File \cup {Absent}, NEW n \in 0 .. FileSize
  PROVE  /\ Resize(f, n) \in File /\ Length(Resize(f, n)) = n
         /\ \A b \in Bytes : ByteAt(Resize(f, n), b) = IF b < n THEN ByteAt(f, b) ELSE 0
<1> DEFINE new == [i \in 1 .. n |-> IF i <= Length(f) THEN f[i] ELSE 0]
<1>1. Length(f) \in Nat /\ n \in Nat /\ FileSize \in Nat
  BY FileFacts, Offsets
<1>2. new \in [1 .. n -> Value]
  <2> SUFFICES ASSUME NEW i \in 1 .. n
               PROVE  (IF i <= Length(f) THEN f[i] ELSE 0) \in Value
    OBVIOUS
  <2>1. i <= Length(f) => i \in 1 .. Length(f)
    BY <1>1
  <2>2. 0 \in Value
    BY Offsets DEF Value
  <2> QED
    BY <2>1, <2>2, FileFacts
<1>3. new \in File /\ Length(new) = n
  BY <1>2, FileMade, FileLen
<1>4. ASSUME NEW b \in Bytes PROVE ByteAt(new, b) = IF b < n THEN ByteAt(f, b) ELSE 0
  <2>1. b \in Nat
    BY Offsets
  <2>2. b < n => new[b + 1] = IF b + 1 <= Length(f) THEN f[b + 1] ELSE 0
    BY <1>1, <2>1
  <2>3. b + 1 <= Length(f) <=> b < Length(f)
    BY <1>1, <2>1
  <2> HIDE DEF new
  <2> QED
    BY <1>3, <2>2, <2>3 DEF ByteAt
<1>5. Resize(f, n) = new
  BY DEF Resize
<1> HIDE DEF new
<1> QED
  BY <1>3, <1>4, <1>5

\* The bytes read from a file are those at their offsets, and lie in it.
LEMMA PartFile ==
  ASSUME NEW f \in File \cup {Absent}, NEW s \in Nat, NEW e \in 0 .. FileSize
  PROVE  /\ Part(f, s, e) \in File
         /\ Part(f, s, e) # <<>> => s + Len(Part(f, s, e)) <= FileSize
         /\ Part(f, s, e) # <<>> => s + Len(Part(f, s, e)) <= Length(f)
         /\ s <= FileSize => s + Len(Part(f, s, e)) <= FileSize
         /\ \A b \in Bytes : s <= b /\ b < s + Len(Part(f, s, e)) =>
              b < Length(f) /\ Part(f, s, e)[b - s + 1] = ByteAt(f, b)
<1> DEFINE last == IF e < Length(f) THEN e ELSE Length(f)
           n == IF last > s THEN last - s ELSE 0
           new == [i \in 1 .. n |-> f[s + i]]
<1>1. Length(f) \in 0 .. FileSize /\ FileSize \in Nat
  BY FileFacts, Offsets
<1>2. last \in 0 .. FileSize /\ last <= Length(f)
  BY <1>1
<1>3. n \in 0 .. FileSize /\ (n > 0 => s + n = last)
  BY <1>1, <1>2
<1>4. new \in [1 .. n -> Value]
  <2> SUFFICES ASSUME NEW i \in 1 .. n
               PROVE  f[s + i] \in Value
    OBVIOUS
  <2>1. s + i \in 1 .. Length(f)
    BY <1>1, <1>2, <1>3
  <2> QED
    BY <2>1, FileFacts
<1>5. new \in File /\ Len(new) = n
  BY <1>3, <1>4, FileMade
<1>6. new = <<>> <=> n = 0
  BY <1>5, FileLen, EmptySeq
<1>7. ASSUME NEW b \in Bytes, s <= b, b < s + n
      PROVE  b < Length(f) /\ new[b - s + 1] = ByteAt(f, b)
  <2>1. b \in Nat
    BY Offsets
  <2>2. b - s + 1 \in 1 .. n /\ s + (b - s + 1) = b + 1 /\ b < Length(f)
    BY <1>1, <1>2, <1>3, <1>7, <2>1
  <2> QED
    BY <2>2 DEF ByteAt
<1>8. Part(f, s, e) = new
  BY DEF Part
<1> HIDE DEF last, n, new
<1> QED
  BY <1>1, <1>2, <1>3, <1>5, <1>6, <1>7, <1>8

-----------------------------------------------------------------------------

\* What the queue's theorems assume of its constants.
LEMMA QueueAssumed == QP!QueueAssumption /\ QP!RangeAssumption
BY WriteBehindAssumption DEF QP!QueueAssumption, QP!RangeAssumption, QP!IsFiniteSet, IsFiniteSet

\* The model and the theorems speak of one queue: their operations agree.
LEMMA SameEnqueue ==
  ASSUME NEW t, NEW p, NEW s, NEW e
  PROVE  Queue!enqueue_upload(t, p, s, e) <=> QP!enqueue_upload(t, p, s, e)
<1>1. Queue!enqueue(p, s, e) <=> QP!enqueue(p, s, e)
  BY DEF Queue!enqueue, QP!enqueue, Queue!Overlap, QP!Overlap, Queue!merge_range, QP!merge_range,
         Queue!MergedRange, QP!MergedRange, Queue!Bytes, QP!Bytes, Queue!Interval, QP!Interval,
         Queue!Cardinality, QP!Cardinality
<1> QED
  BY <1>1 DEF Queue!enqueue_upload, QP!enqueue_upload

\* Likewise the next batch.
LEMMA SameTakes == Queue!FlusherTakes <=> QP!FlusherTakes
<1>1. Queue!take_batch <=> QP!take_batch
  BY DEF Queue!take_batch, QP!take_batch, Queue!Claim, QP!Claim, Queue!Pieces, QP!Pieces,
         Queue!Chunks, QP!Chunks, Queue!Bytes, QP!Bytes, Queue!ByteRange, QP!ByteRange,
         Queue!Interval, QP!Interval, Queue!saturating_sub, QP!saturating_sub,
         Queue!PathBytes, QP!PathBytes, Queue!Cardinality, QP!Cardinality
<1> QED
  BY <1>1 DEF Queue!FlusherTakes, QP!FlusherTakes, Queue!clientVars, QP!clientVars

\* Likewise the end of a send.
LEMMA SameEnds ==
  ASSUME NEW q, NEW outcome
  PROVE  Queue!SendEnds(q, outcome) <=> QP!SendEnds(q, outcome)
<1>1. Queue!finish(q, outcome) <=> QP!finish(q, outcome)
  BY DEF Queue!finish, QP!finish, Queue!unblock, QP!unblock, Queue!saturating_sub, QP!saturating_sub,
         Queue!merge_range, QP!merge_range, Queue!MergedRange, QP!MergedRange, Queue!Bytes, QP!Bytes,
         Queue!Interval, QP!Interval, Queue!Payload, QP!Payload, Queue!Cardinality, QP!Cardinality
<1> QED
  BY <1>1 DEF Queue!SendEnds, QP!SendEnds

\* Likewise the drains.
LEMMA SameDrains ==
  ASSUME NEW t
  PROVE  /\ Queue!DrainChecks(t) <=> QP!DrainChecks(t)
         /\ Queue!DrainWakes(t) <=> QP!DrainWakes(t)
         /\ Queue!DrainTimesOut(t) <=> QP!DrainTimesOut(t)
         /\ \A paths : Queue!DrainBegins(t, paths) <=> QP!DrainBegins(t, paths)
BY DEF Queue!DrainChecks, QP!DrainChecks, Queue!Pending, QP!Pending, Queue!DrainWakes, QP!DrainWakes,
       Queue!DrainTimesOut, QP!DrainTimesOut, Queue!DrainBegins, QP!DrainBegins,
       Queue!queueVars, QP!queueVars

\* The two readings of the queue are one specification.
LEMMA SameQueue ==
  /\ Queue!Init <=> QP!Init
  /\ Queue!Next <=> QP!Next
  /\ UNCHANGED Queue!vars <=> UNCHANGED QP!vars
<1>1. Queue!Init <=> QP!Init
  BY DEF Queue!Init, QP!Init, Queue!NoDrain, QP!NoDrain
<1>2. UNCHANGED Queue!vars <=> UNCHANGED QP!vars
  BY DEF Queue!vars, QP!vars, Queue!queueVars, QP!queueVars, Queue!clientVars, QP!clientVars
<1>3. \A t : Queue!wait_below(t) <=> QP!wait_below(t)
  BY DEF Queue!wait_below, QP!wait_below, Queue!queueVars, QP!queueVars
<1>4. Queue!BackoffEnds <=> QP!BackoffEnds
  BY DEF Queue!BackoffEnds, QP!BackoffEnds, Queue!clientVars, QP!clientVars
<1>5. Queue!Bytes = QP!Bytes /\ Queue!SendOutcome = QP!SendOutcome
  BY DEF Queue!Bytes, QP!Bytes, Queue!SendOutcome, QP!SendOutcome
<1>6. Queue!Next <=> QP!Next
  BY <1>3, <1>4, <1>5, SameEnqueue, SameTakes, SameEnds, SameDrains DEF Queue!Next, QP!Next
<1> QED
  BY <1>1, <1>2, <1>6

-----------------------------------------------------------------------------
\* The invariant of the queue, and of its callers.
QueueHolds == QP!QueueInv /\ QP!ClientTypeOK

\* It starts so, and the queue's steps keep it.
LEMMA QueueKept ==
  /\ Queue!Init => QueueHolds
  /\ QueueHolds /\ [Queue!Next]_(Queue!vars) => QueueHolds'
<1>1. Queue!Init => QueueHolds
  BY QueueAssumed, SameQueue, QP!QueueStarts DEF QueueHolds
<1>2. QueueHolds /\ [Queue!Next]_(Queue!vars) => QueueHolds'
  BY QueueAssumed, SameQueue, QP!QueueSteps DEF QueueHolds
<1> QED
  BY <1>1, <1>2

\* What the queue's invariant says in this module's terms.
LEMMA QueueFacts ==
  ASSUME QueueHolds
  PROVE  /\ Queue!TypeOK
         /\ inflight \subseteq Queue!Piece /\ dirty \in [Paths -> SUBSET Bytes]
         /\ drain \in [Threads -> Queue!Drain]
         /\ Queue!OneSendPerByte /\ Queue!RewritesWait
<1>1. /\ Queue!Piece = QP!Piece /\ Queue!Bytes = QP!Bytes /\ Queue!Drain = QP!Drain
      /\ \A q : Queue!Payload(q) = QP!Payload(q)
  BY DEF Queue!Piece, QP!Piece, Queue!Bytes, QP!Bytes, Queue!Drain, QP!Drain, Queue!Payload, QP!Payload,
         Queue!Interval, QP!Interval
<1>2. QP!QueueTypeOK /\ QP!ClientTypeOK /\ QP!OneSendPerByte /\ QP!RewritesWait
  BY DEF QueueHolds, QP!QueueInv
<1>3. Queue!TypeOK
  BY <1>1, <1>2 DEF QP!QueueTypeOK, QP!ClientTypeOK, Queue!TypeOK
<1>4. Queue!OneSendPerByte /\ Queue!RewritesWait
  BY <1>1, <1>2 DEF QP!OneSendPerByte, QP!RewritesWait, Queue!OneSendPerByte, Queue!RewritesWait
<1> QED
  BY <1>3, <1>4 DEF Queue!TypeOK, Bytes

-----------------------------------------------------------------------------
\* The operations a thread can be in.
WriteOps ==
  {o \in [kind : {"write"}, path : Paths, pc : {"cached", "throttled", "direct"},
          start : Bytes, end : 1 .. FileSize, version : 1 .. MaxWrites + 1] : o.start < o.end}
DrainOps ==
  [kind : {"flush", "setattr", "create", "unlink"}, path : Paths, pc : {"draining", "request"},
   size : 0 .. FileSize]
ReadOps ==
  {o \in [kind : {"read"}, path : Paths, start : Bytes, data : File] : o.start + Len(o.data) <= FileSize}

OpTypes == op \in [Threads -> {Idle} \cup WriteOps \cup DrainOps \cup ReadOps]

\* The requests that carry a piece, and the downloads into the cache.
Requests ==
  {m \in [piece : Queue!Piece, data : File, phase : {"sent", "written", "refused"}] :
     Len(m.data) = m.piece.end - m.piece.start}

Fills ==
  {NoFill} \cup [kind : {"prefetch"}, pc : {"stat"}] \cup [kind : {"sync"}, data : File]
    \cup {f \in [kind : {"prefetch"}, pc : {"store"}, start : Nat, data : File] :
            f.data # <<>> /\ f.start + Len(f.data) <= FileSize}

FileTypes ==
  /\ cache \in [Paths -> File \cup {Absent}]
  /\ remote \in [Paths -> File \cup {Absent}]
  /\ fill \in [Paths -> Fills]

\* Every piece is in at most one request, and in flight while it is.
SendTypes ==
  /\ sends \subseteq Requests /\ late \subseteq Requests
  /\ \A m \in sends : m.piece \in inflight
  /\ \A m, n \in sends : m.piece = n.piece => m = n

HistoryTypes ==
  /\ version \in 1 .. MaxWrites + 1
  /\ acked \in [Paths -> [Bytes -> Value]]
  /\ floor \in [Threads -> [Bytes -> Value]]
  /\ undone \in [Paths -> [Bytes -> Value]]
  /\ inherited \in [Paths -> Leftover]

\* The types, with what makes them inductive: what operations, requests and
\* downloads hold, and that a piece is in one request.
TypesInv == QueueHolds /\ OpTypes /\ FileTypes /\ SendTypes /\ HistoryTypes

\* An operation is of the kind it says.
LEMMA OpKinds ==
  ASSUME OpTypes, NEW t \in Threads
  PROVE  /\ op[t].kind = "write" => op[t] \in WriteOps
         /\ op[t].kind \in {"flush", "setattr", "create", "unlink"} => op[t] \in DrainOps
         /\ op[t].kind = "read" => op[t] \in ReadOps
         /\ op[t] = Idle => op[t].kind = "idle"
<1>1. op[t] \in {Idle} \cup WriteOps \cup DrainOps \cup ReadOps
  BY DEF OpTypes
<1> QED
  BY <1>1 DEF Idle, WriteOps, DrainOps, ReadOps

\* Likewise a download.
LEMMA FillKinds ==
  ASSUME FileTypes, NEW p \in Paths
  PROVE  /\ fill[p].kind = "sync" => fill[p].data \in File
         /\ fill[p].kind = "prefetch" /\ fill[p].pc = "store" =>
              /\ fill[p].start \in Nat /\ fill[p].data \in File /\ fill[p].data # <<>>
              /\ fill[p].start + Len(fill[p].data) <= FileSize
              /\ fill[p] \in [kind : {"prefetch"}, pc : {"store"}, start : Nat, data : File]
         /\ fill[p].kind # "prefetch" => fill[p] \in {NoFill} \cup [kind : {"sync"}, data : File]
<1>1. fill[p] \in Fills
  BY DEF FileTypes
<1> QED
  BY <1>1 DEF Fills, NoFill

\* What a request carries.
LEMMA RequestFacts ==
  ASSUME NEW m \in Requests
  PROVE  /\ m.piece \in Queue!Piece /\ m.data \in File
         /\ m.piece.path \in Paths /\ m.piece.start \in Nat /\ m.piece.start \in Bytes
         /\ m.piece.start + Len(m.data) = m.piece.end /\ m.piece.end <= FileSize
         /\ \A b \in Queue!Payload(m.piece) :
              /\ b \in Bytes /\ m.piece.start <= b /\ b < m.piece.start + Len(m.data)
              /\ m.data[b - m.piece.start + 1] \in Value
         /\ \A b \in Bytes : m.piece.start <= b /\ b < m.piece.start + Len(m.data) =>
              b \in Queue!Payload(m.piece)
<1>1. /\ m.piece \in Queue!Piece /\ m.data \in File /\ Len(m.data) = m.piece.end - m.piece.start
  BY DEF Requests
<1>2. /\ m.piece.path \in Paths /\ m.piece.start \in Bytes /\ m.piece.end \in 1 .. FileSize
      /\ m.piece.start < m.piece.end
  BY <1>1 DEF Queue!Piece, Bytes
<1>3. m.piece.start \in Nat /\ m.piece.end \in Nat /\ FileSize \in Nat
  BY <1>2, Offsets
<1>4. ASSUME NEW b \in Queue!Payload(m.piece)
      PROVE  b \in Bytes /\ m.piece.start <= b /\ b < m.piece.end
  BY DEF Queue!Payload, Queue!Interval, Bytes
<1>5. ASSUME NEW b \in Bytes, m.piece.start <= b, b < m.piece.end
      PROVE  b \in Queue!Payload(m.piece)
  BY <1>5 DEF Queue!Payload, Queue!Interval, Bytes
<1>6. ASSUME NEW b \in Queue!Payload(m.piece)
      PROVE  m.data[b - m.piece.start + 1] \in Value
  <2>1. b \in Nat
    BY <1>4, Offsets
  <2>2. b - m.piece.start + 1 \in 1 .. Len(m.data)
    BY SMTT(20), <1>1, <1>3, <1>4, <2>1
  <2> QED
    BY <1>1, <2>2, FileLen
<1>7. m.piece.start + Len(m.data) = m.piece.end /\ m.piece.end <= FileSize
  BY <1>1, <1>2, <1>3
<1> QED
  BY <1>1, <1>2, <1>3, <1>4, <1>5, <1>6, <1>7

-----------------------------------------------------------------------------
\* The steps that leave the queue alone.
LEMMA QueueAlone ==
  ASSUME \/ \E t \in Threads, p \in Paths, s \in Bytes, e \in 1 .. FileSize :
              WriteCache(t, p, s, e) \/ WriteDirect(t, p, s, e)
         \/ \E t \in Threads : WriteDirectReplies(t) \/ DrainOver(t) \/ RequestOver(t) \/ ReadStores(t)
         \/ \E t \in Threads, p \in Paths, s \in Bytes : ReadMiss(t, p, s)
         \/ \E m \in sends : TargetWrites(m)
         \/ \E m \in late : LateArrives(m)
         \/ \E p \in Paths : \/ TargetRemoves(p) \/ PrefetchFetches(p) \/ PrefetchStores(p)
                             \/ SyncFetches(p) \/ SyncStores(p)
  PROVE  UNCHANGED queueVars
<1>1. ASSUME NEW t \in Threads, WriteDirectReplies(t) \/ DrainOver(t) \/ RequestOver(t) \/ ReadStores(t)
      PROVE  UNCHANGED queueVars
  BY <1>1 DEF WriteDirectReplies, DrainOver, RequestOver, ReadStores
<1>2. ASSUME NEW t \in Threads, NEW p \in Paths, NEW s \in Bytes, NEW e \in 1 .. FileSize,
             WriteCache(t, p, s, e) \/ WriteDirect(t, p, s, e)
      PROVE  UNCHANGED queueVars
  BY <1>2 DEF WriteCache, WriteDirect
<1>3. ASSUME NEW p \in Paths, \/ TargetRemoves(p) \/ PrefetchFetches(p) \/ PrefetchStores(p)
                              \/ SyncFetches(p) \/ SyncStores(p)
      PROVE  UNCHANGED queueVars
  BY <1>3 DEF TargetRemoves, PrefetchFetches, PrefetchStores, SyncFetches, SyncStores
<1>4. ASSUME NEW m, TargetWrites(m) \/ LateArrives(m)
      PROVE  UNCHANGED queueVars
  BY <1>4 DEF TargetWrites, LateArrives
<1>5. ASSUME NEW t \in Threads, NEW p \in Paths, NEW s \in Bytes, ReadMiss(t, p, s)
      PROVE  UNCHANGED queueVars
  BY <1>5 DEF ReadMiss
<1> QED
  BY <1>1, <1>2, <1>3, <1>4, <1>5

\* A step of the mount is a step of the queue or leaves it alone.
LEMMA QueueStep ==
  ASSUME OpTypes, [Next]_vars
  PROVE  [Queue!Next]_(Queue!vars)
<1>1. ASSUME UNCHANGED queueVars PROVE UNCHANGED Queue!vars
  BY <1>1 DEF queueVars, Queue!vars, Queue!queueVars, Queue!clientVars
<1>2. CASE UNCHANGED vars
  BY <1>1, <1>2 DEF vars
<1>3. ASSUME NEW t \in Threads, WriteEnqueue(t)
      PROVE  Queue!Next
  <2>1. op[t] \in WriteOps
    BY <1>3, OpKinds DEF WriteEnqueue
  <2>2. op[t].path \in Paths /\ op[t].start \in Bytes /\ op[t].end \in 1 .. FileSize
    BY <2>1 DEF WriteOps
  <2>3. Queue!enqueue_upload(t, op[t].path, op[t].start, op[t].end)
    BY <1>3 DEF WriteEnqueue
  <2> QED
    BY <2>2, <2>3 DEF Queue!Next, Bytes
<1>4. ASSUME NEW t \in Threads, WriteReplies(t)
      PROVE  Queue!Next
  BY <1>4 DEF WriteReplies, Queue!Next
<1>5. ASSUME NEW t \in Threads, NEW p \in Paths, NEW n \in 0 .. FileSize,
             Flush(t, p) \/ Unlink(t, p) \/ Create(t, p) \/ SetSize(t, p, n)
      PROVE  Queue!Next
  <2>1. Queue!DrainBegins(t, {p})
    BY <1>5 DEF Flush, Unlink, Create, SetSize, DrainFor
  <2>2. {p} \in SUBSET Paths
    OBVIOUS
  <2> QED
    BY <2>1, <2>2 DEF Queue!Next
<1>6. ASSUME NEW t \in Threads, Draining(t)
      PROVE  Queue!Next
  BY <1>6 DEF Draining, Queue!Next
<1>7. ASSUME FlusherTakes \/ BackoffEnds
      PROVE  Queue!Next
  BY <1>7 DEF FlusherTakes, BackoffEnds, Queue!Next
<1>8. ASSUME NEW q \in inflight, FlusherReads(q)
      PROVE  Queue!Next \/ UNCHANGED queueVars
  BY <1>8 DEF FlusherReads, Queue!Next, Queue!SendOutcome
<1>9. ASSUME NEW m \in sends, SendAnswered(m) \/ SendFails(m)
      PROVE  Queue!Next
  <2>1. \E o \in {"Sent", "Drop", "Retry"} : Queue!SendEnds(m.piece, o)
    BY <1>9 DEF SendAnswered, SendFails
  <2>2. m.piece \in inflight
    BY <2>1 DEF Queue!SendEnds, Queue!finish
  <2> QED
    BY <2>1, <2>2 DEF Queue!Next, Queue!SendOutcome
<1>10. 0 \in 0 .. FileSize
  BY Offsets
<1>11. CASE Next
  <2>1. CASE \E t \in Threads : ThreadStep(t)
    BY <1>1, <1>3, <1>4, <1>5, <1>6, <1>10, <2>1, QueueAlone DEF ThreadStep
  <2>2. CASE FlusherStep
    BY <1>1, <1>7, <1>8, <1>9, <2>2, QueueAlone DEF FlusherStep
  <2> QED
    BY <1>1, <1>11, <2>1, <2>2, QueueAlone DEF Next
<1> QED
  BY <1>2, <1>11

-----------------------------------------------------------------------------
\* The steps that leave the operations of the threads alone.
OpsAlone ==
  \/ \E t \in Threads : Draining(t)
  \/ FlusherStep
  \/ \E m \in late : LateArrives(m)
  \/ \E p \in Paths : TargetRemoves(p)
  \/ \E p \in Paths : PrefetchFetches(p) \/ PrefetchStores(p) \/ SyncFetches(p) \/ SyncStores(p)

\* Steps outside the file system's calls leave the calls and what they were told alone.
LEMMA OpsStay ==
  ASSUME OpsAlone
  PROVE  UNCHANGED <<op, version, acked, floor>>
<1>1. ASSUME FlusherStep PROVE UNCHANGED <<op, version, acked, floor>>
  BY <1>1 DEF FlusherStep, FlusherTakes, BackoffEnds, FlusherReads, TargetWrites, SendAnswered, SendFails
<1>2. ASSUME NEW p \in Paths, PrefetchFetches(p) \/ PrefetchStores(p) \/ SyncFetches(p) \/ SyncStores(p)
      PROVE  UNCHANGED <<op, version, acked, floor>>
  BY <1>2 DEF PrefetchFetches, PrefetchStores, SyncFetches, SyncStores
<1> QED
  BY <1>1, <1>2 DEF OpsAlone, Draining, LateArrives, TargetRemoves

\* Operations stay well typed.
LEMMA OpTypesKept ==
  ASSUME OpTypes, FileTypes, HistoryTypes, Next
  PROVE  OpTypes'
<1>1. ASSUME NEW t \in Threads, NEW o \in {Idle} \cup WriteOps \cup DrainOps \cup ReadOps,
             op' = [op EXCEPT ![t] = o]
      PROVE  OpTypes'
  BY <1>1 DEF OpTypes
<1>2. ASSUME NEW t \in Threads, op' = [op EXCEPT ![t] = Idle]
      PROVE  OpTypes'
  BY <1>1, <1>2
<1>3. ASSUME NEW t \in Threads, NEW p \in Paths, NEW s \in Bytes, NEW e \in 1 .. FileSize,
             WriteCache(t, p, s, e) \/ WriteDirect(t, p, s, e)
      PROVE  OpTypes'
  <2>1. s < e /\ version + 1 \in 1 .. MaxWrites + 1
    BY <1>3, Offsets DEF WriteCache, WriteDirect, HistoryTypes
  <2>2. PICK c \in {"cached", "direct"} :
          op' = [op EXCEPT ![t] = [kind |-> "write", path |-> p, pc |-> c, start |-> s, end |-> e,
                                   version |-> version + 1]]
    BY <1>3 DEF WriteCache, WriteDirect
  <2>3. [kind |-> "write", path |-> p, pc |-> c, start |-> s, end |-> e, version |-> version + 1] \in WriteOps
    BY <2>1 DEF WriteOps
  <2> QED
    BY <1>1, <2>2, <2>3
<1>4. ASSUME NEW t \in Threads, WriteEnqueue(t)
      PROVE  OpTypes'
  <2>1. op[t] \in WriteOps /\ op' = [op EXCEPT ![t] = [op[t] EXCEPT !.pc = "throttled"]]
    BY <1>4, OpKinds DEF WriteEnqueue
  <2>2. [op[t] EXCEPT !.pc = "throttled"] \in WriteOps
    BY <2>1 DEF WriteOps
  <2> QED
    BY <1>1, <2>1, <2>2
<1>5. ASSUME NEW t \in Threads, WriteReplies(t) \/ WriteDirectReplies(t) \/ RequestOver(t) \/ ReadStores(t)
      PROVE  OpTypes'
  BY <1>2, <1>5 DEF WriteReplies, WriteDirectReplies, RequestOver, ReadStores
<1>6. ASSUME NEW t \in Threads, NEW p \in Paths, NEW n \in 0 .. FileSize,
             Flush(t, p) \/ Unlink(t, p) \/ Create(t, p) \/ SetSize(t, p, n)
      PROVE  OpTypes'
  <2>1. PICK k \in {"flush", "setattr", "create", "unlink"}, z \in 0 .. FileSize :
          op' = [op EXCEPT ![t] = [kind |-> k, path |-> p, pc |-> "draining", size |-> z]]
    <3>1. 0 \in 0 .. FileSize
      BY Offsets
    <3> QED
      BY <1>6, <3>1 DEF Flush, Unlink, Create, SetSize, DrainFor
  <2>2. [kind |-> k, path |-> p, pc |-> "draining", size |-> z] \in DrainOps
    BY DEF DrainOps
  <2> QED
    BY <1>1, <2>1, <2>2
<1>7. ASSUME NEW t \in Threads, DrainOver(t)
      PROVE  OpTypes'
  <2>1. op[t] \in DrainOps
    BY <1>7, OpKinds DEF DrainOver
  <2>2. \/ op' = [op EXCEPT ![t] = [op[t] EXCEPT !.pc = "request"]]
        \/ op' = [op EXCEPT ![t] = Idle]
    BY <1>7 DEF DrainOver
  <2>3. [op[t] EXCEPT !.pc = "request"] \in DrainOps
    BY <2>1 DEF DrainOps
  <2> QED
    BY <1>1, <1>2, <2>2, <2>3
<1>8. ASSUME NEW t \in Threads, NEW p \in Paths, NEW s \in Bytes, ReadMiss(t, p, s)
      PROVE  OpTypes'
  <2>1. PICK e \in s .. FileSize :
          op' = [op EXCEPT ![t] = [kind |-> "read", path |-> p, start |-> s, data |-> Part(remote[p], s, e)]]
    BY <1>8 DEF ReadMiss
  <2>2. s \in Nat /\ s <= FileSize /\ e \in 0 .. FileSize /\ remote[p] \in File \cup {Absent}
    BY Offsets DEF FileTypes
  <2>3. Part(remote[p], s, e) \in File /\ s + Len(Part(remote[p], s, e)) <= FileSize
    BY <2>2, PartFile
  <2>4. [kind |-> "read", path |-> p, start |-> s, data |-> Part(remote[p], s, e)] \in ReadOps
    BY <2>3 DEF ReadOps
  <2> QED
    BY <1>1, <2>1, <2>4
<1>9. ASSUME OpsAlone
      PROVE  OpTypes'
  BY <1>9, OpsStay DEF OpTypes
<1>10. 0 \in 0 .. FileSize
  BY Offsets
<1>11. CASE \E t \in Threads : ThreadStep(t)
  BY <1>3, <1>4, <1>5, <1>6, <1>7, <1>8, <1>9, <1>10, <1>11 DEF ThreadStep, OpsAlone
<1> QED
  BY <1>9, <1>11 DEF Next, OpsAlone

-----------------------------------------------------------------------------
\* The bytes that write number v stores in [s, e).
Stored(s, e, v) == [i \in 1 .. e - s |-> v]

\* What one write stores, as a file: its length, its bytes and their value.
LEMMA StoredFile ==
  ASSUME NEW s \in Bytes, NEW e \in 1 .. FileSize, s < e, NEW v \in Value
  PROVE  /\ Stored(s, e, v) \in File /\ Len(Stored(s, e, v)) = e - s
         /\ s \in Nat /\ s + Len(Stored(s, e, v)) <= FileSize
         /\ \A b \in Bytes : s <= b /\ b < s + Len(Stored(s, e, v)) <=> b \in Queue!Interval(s, e)
         /\ \A b \in Queue!Interval(s, e) : b \in Bytes /\ Stored(s, e, v)[b - s + 1] = v
<1>1. s \in Nat /\ e \in Nat /\ e - s \in 0 .. FileSize
  BY Offsets
<1>2. Stored(s, e, v) \in File /\ Len(Stored(s, e, v)) = e - s
  BY <1>1, FileMade DEF Stored
<1>3. s + Len(Stored(s, e, v)) = e
  BY <1>1, <1>2
<1>4. \A b \in Bytes : s <= b /\ b < e <=> b \in Queue!Interval(s, e)
  BY DEF Queue!Interval, Bytes
<1>5. ASSUME NEW b \in Queue!Interval(s, e)
      PROVE  b \in Bytes /\ Stored(s, e, v)[b - s + 1] = v
  <2>1. b \in Bytes /\ s <= b /\ b < e
    BY DEF Queue!Interval, Bytes
  <2>2. b - s + 1 \in 1 .. e - s
    BY <1>1, <2>1, Offsets
  <2> QED
    BY <2>1, <2>2 DEF Stored
<1> QED
  BY <1>1, <1>2, <1>3, <1>4, <1>5

\* What a prefetch stores next: one byte, which is in its range.
LEMMA ChunkFile ==
  ASSUME NEW d \in File, d # <<>>
  PROVE  /\ <<Head(d)>> \in File /\ Len(<<Head(d)>>) = 1 /\ <<Head(d)>>[1] = d[1]
         /\ Tail(d) \in File /\ Len(Tail(d)) = Len(d) - 1 /\ Len(d) > 0
         /\ \A i \in 1 .. Len(Tail(d)) : Tail(d)[i] = d[i + 1]
<1>1. d \in Seq(Value) /\ Len(d) \in 1 .. FileSize /\ FileSize \in Nat
  BY FileLen, EmptySeq, Offsets
<1>2. Head(d) = d[1] /\ d[1] \in Value
  BY <1>1, FileLen
<1>3. Tail(d) \in Seq(Value) /\ Len(Tail(d)) = Len(d) - 1 /\ \A i \in 1 .. Len(Tail(d)) : Tail(d)[i] = d[i + 1]
  BY <1>1, HeadTailProperties
<1>4. Tail(d) \in File
  <2>1. Tail(d) \in [1 .. Len(Tail(d)) -> Value]
    BY <1>3, LenProperties
  <2>2. Len(Tail(d)) \in 0 .. FileSize
    BY <1>1, <1>3
  <2> QED
    BY <2>1, <2>2, FileMade
<1>5. <<Head(d)>> \in File /\ Len(<<Head(d)>>) = 1 /\ <<Head(d)>>[1] = d[1]
  <2>1. <<Head(d)>> \in [1 .. 1 -> Value] /\ <<Head(d)>>[1] = d[1]
    BY <1>2
  <2>2. 1 \in 0 .. FileSize
    BY <1>1
  <2> QED
    BY <2>1, <2>2, FileMade
<1> QED
  BY <1>1, <1>3, <1>4, <1>5

\* The cache files stay files.
LEMMA CacheTyped ==
  ASSUME TypesInv, Next
  PROVE  cache' \in [Paths -> File \cup {Absent}]
<1> USE DEF TypesInv
<1>1. ASSUME NEW p \in Paths, NEW f \in File \cup {Absent}, cache' = [cache EXCEPT ![p] = f]
      PROVE  cache' \in [Paths -> File \cup {Absent}]
  BY <1>1 DEF FileTypes
<1>2. ASSUME cache' = cache
      PROVE  cache' \in [Paths -> File \cup {Absent}]
  BY <1>2 DEF FileTypes
<1>3. ASSUME NEW t \in Threads, NEW p \in Paths, NEW s \in Bytes, NEW e \in 1 .. FileSize, WriteCache(t, p, s, e)
      PROVE  cache' \in [Paths -> File \cup {Absent}]
  <2>1. s < e /\ version + 1 \in Value
    BY <1>3, Offsets DEF WriteCache, HistoryTypes, Value
  <2>2. /\ cache' = [cache EXCEPT ![p] = Overlay(cache[p], s, Stored(s, e, version + 1))]
        /\ cache[p] \in File \cup {Absent}
    BY <1>3 DEF WriteCache, Stored, FileTypes
  <2>3. Overlay(cache[p], s, Stored(s, e, version + 1)) \in File
    BY <2>1, <2>2, StoredFile, OverlayFile
  <2> QED
    BY <1>1, <2>2, <2>3
<1>4. ASSUME NEW t \in Threads, NEW p \in Paths, Create(t, p)
      PROVE  cache' \in [Paths -> File \cup {Absent}]
  BY <1>1, <1>4, EmptyFile DEF Create
<1>5. ASSUME NEW t \in Threads, DrainOver(t)
      PROVE  cache' \in [Paths -> File \cup {Absent}]
  <2>1. op[t].path \in Paths
    BY <1>5, OpKinds DEF DrainOver, DrainOps
  <2>2. cache' = cache \/ cache' = [cache EXCEPT ![op[t].path] = Absent]
    BY <1>5 DEF DrainOver
  <2> QED
    BY <1>1, <1>2, <2>1, <2>2
<1>6. ASSUME NEW t \in Threads, RequestOver(t)
      PROVE  cache' \in [Paths -> File \cup {Absent}]
  <2>1. op[t].path \in Paths /\ op[t].size \in 0 .. FileSize /\ cache[op[t].path] \in File \cup {Absent}
    BY <1>6, OpKinds DEF RequestOver, DrainOps, FileTypes
  <2>2. cache' = cache \/ cache' = [cache EXCEPT ![op[t].path] = Resize(cache[op[t].path], op[t].size)]
    BY <1>6 DEF RequestOver
  <2> QED
    BY <1>1, <1>2, <2>1, <2>2, ResizeFile
<1>7. ASSUME NEW t \in Threads, ReadStores(t)
      PROVE  cache' \in [Paths -> File \cup {Absent}]
  <2>1. /\ op[t].path \in Paths /\ op[t].start \in Nat /\ op[t].data \in File
        /\ op[t].start + Len(op[t].data) <= FileSize /\ cache[op[t].path] \in File \cup {Absent}
    BY <1>7, OpKinds, Offsets DEF ReadStores, ReadOps, FileTypes
  <2>2. \/ cache' = cache
        \/ cache' = [cache EXCEPT ![op[t].path] = Overlay(cache[op[t].path], op[t].start, op[t].data)]
    BY <1>7 DEF ReadStores
  <2> QED
    BY <1>1, <1>2, <2>1, <2>2, OverlayFile
<1>8. ASSUME NEW p \in Paths, PrefetchStores(p)
      PROVE  cache' \in [Paths -> File \cup {Absent}]
  <2> DEFINE d == fill[p].data
  <2>1. /\ fill[p].start \in Nat /\ d \in File /\ d # <<>> /\ fill[p].start + Len(d) <= FileSize
        /\ cache[p] \in File \cup {Absent}
    BY <1>8, FillKinds DEF PrefetchStores, FileTypes
  <2>2. cache' = cache \/ cache' = [cache EXCEPT ![p] = Overlay(cache[p], fill[p].start, <<Head(d)>>)]
    BY <1>8 DEF PrefetchStores
  <2>3. <<Head(d)>> \in File /\ Len(<<Head(d)>>) = 1 /\ Len(d) \in 0 .. FileSize /\ Len(d) > 0
    BY <2>1, ChunkFile, FileLen
  <2>4. fill[p].start + Len(<<Head(d)>>) <= FileSize
    BY <2>1, <2>3, Offsets
  <2>5. Overlay(cache[p], fill[p].start, <<Head(d)>>) \in File
    BY <2>1, <2>3, <2>4, OverlayFile
  <2> QED
    BY <1>1, <1>2, <2>2, <2>5
<1>9. ASSUME NEW p \in Paths, SyncStores(p)
      PROVE  cache' \in [Paths -> File \cup {Absent}]
  <2>1. fill[p].data \in File
    BY <1>9, FillKinds DEF SyncStores
  <2> QED
    BY <1>1, <1>2, <1>9, <2>1 DEF SyncStores
<1>10. ASSUME NEW t \in Threads,
              \/ \E p \in Paths, s \in Bytes, e \in 1 .. FileSize : WriteDirect(t, p, s, e)
              \/ WriteEnqueue(t) \/ WriteReplies(t) \/ WriteDirectReplies(t) \/ Draining(t)
              \/ \E p \in Paths : Flush(t, p) \/ Unlink(t, p)
              \/ \E p \in Paths, n \in 0 .. FileSize : SetSize(t, p, n)
              \/ \E p \in Paths, s \in Bytes : ReadMiss(t, p, s)
       PROVE  cache' = cache
  BY <1>10 DEF WriteDirect, WriteEnqueue, WriteReplies, WriteDirectReplies, Flush, Unlink, SetSize, Draining, ReadMiss
<1>11. CASE \E t \in Threads : ThreadStep(t)
  BY <1>2, <1>3, <1>4, <1>5, <1>6, <1>7, <1>10, <1>11 DEF ThreadStep
<1>12. ASSUME FlusherStep
       PROVE  cache' = cache
  BY <1>12 DEF FlusherStep, FlusherTakes, BackoffEnds, FlusherReads, TargetWrites, SendAnswered, SendFails
<1>13. ASSUME \/ \E m \in late : LateArrives(m)
              \/ \E p \in Paths : TargetRemoves(p) \/ PrefetchFetches(p) \/ SyncFetches(p)
       PROVE  cache' = cache
  BY <1>13 DEF LateArrives, TargetRemoves, PrefetchFetches, SyncFetches
<1> QED
  BY <1>2, <1>8, <1>9, <1>11, <1>12, <1>13 DEF Next

\* The target's files stay files.
LEMMA RemoteTyped ==
  ASSUME TypesInv, Next
  PROVE  remote' \in [Paths -> File \cup {Absent}]
<1> USE DEF TypesInv
<1>1. ASSUME NEW p \in Paths, NEW f \in File \cup {Absent}, remote' = [remote EXCEPT ![p] = f]
      PROVE  remote' \in [Paths -> File \cup {Absent}]
  BY <1>1 DEF FileTypes
<1>2. ASSUME remote' = remote
      PROVE  remote' \in [Paths -> File \cup {Absent}]
  BY <1>2 DEF FileTypes
<1>3. ASSUME NEW t \in Threads, WriteDirectReplies(t)
      PROVE  remote' \in [Paths -> File \cup {Absent}]
  <2> DEFINE o == op[t]
  <2>1. /\ o.path \in Paths /\ o.start \in Bytes /\ o.end \in 1 .. FileSize /\ o.start < o.end
        /\ o.version \in Value /\ remote[o.path] \in File \cup {Absent}
    BY <1>3, OpKinds, Offsets DEF WriteDirectReplies, WriteOps, Value, FileTypes
  <2>2. \/ remote' = remote
        \/ remote' = [remote EXCEPT ![o.path] = Overlay(remote[o.path], o.start, Stored(o.start, o.end, o.version))]
    BY <1>3 DEF WriteDirectReplies, Stored
  <2>3. Overlay(remote[o.path], o.start, Stored(o.start, o.end, o.version)) \in File
    <3> HIDE DEF o
    <3>1. /\ Stored(o.start, o.end, o.version) \in File /\ o.start \in Nat
          /\ o.start + Len(Stored(o.start, o.end, o.version)) <= FileSize
      BY <2>1, StoredFile
    <3> QED
      BY <2>1, <3>1, OverlayFile
  <2> QED
    BY <1>1, <1>2, <2>1, <2>2, <2>3
<1>4. ASSUME NEW t \in Threads, RequestOver(t)
      PROVE  remote' \in [Paths -> File \cup {Absent}]
  <2>1. /\ op[t].path \in Paths /\ op[t].size \in 0 .. FileSize
        /\ remote[op[t].path] \in File \cup {Absent} /\ op[t].kind \in {"setattr", "create", "unlink"}
    BY <1>4, OpKinds DEF RequestOver, DrainOps, FileTypes
  <2>2. remote' = remote \/ remote' = [remote EXCEPT ![op[t].path] = Requested(op[t], remote[op[t].path])]
    BY <1>4 DEF RequestOver
  <2>3. Requested(op[t], remote[op[t].path]) \in File \cup {Absent}
    BY <2>1, ResizeFile, EmptyFile DEF Requested
  <2> QED
    BY <1>1, <1>2, <2>1, <2>2, <2>3
<1>5. ASSUME NEW m \in sends \cup late, TargetWrites(m) \/ LateArrives(m)
      PROVE  remote' \in [Paths -> File \cup {Absent}]
  <2>1. /\ m.piece.path \in Paths /\ m.piece.start \in Nat /\ m.data \in File
        /\ m.piece.start + Len(m.data) <= FileSize /\ remote[m.piece.path] \in File \cup {Absent}
    <3>1. m \in Requests
      BY DEF SendTypes
    <3> QED
      BY <3>1, RequestFacts DEF FileTypes
  <2>2. \/ remote' = remote
        \/ remote' = [remote EXCEPT ![m.piece.path] = Overlay(remote[m.piece.path], m.piece.start, m.data)]
    BY <1>5 DEF TargetWrites, LateArrives
  <2> QED
    BY <1>1, <1>2, <2>1, <2>2, OverlayFile
<1>6. ASSUME NEW p \in Paths, TargetRemoves(p)
      PROVE  remote' \in [Paths -> File \cup {Absent}]
  BY <1>1, <1>6 DEF TargetRemoves
<1>7. ASSUME NEW t \in Threads,
             \/ \E p \in Paths, s \in Bytes, e \in 1 .. FileSize : WriteCache(t, p, s, e) \/ WriteDirect(t, p, s, e)
             \/ WriteEnqueue(t) \/ WriteReplies(t) \/ Draining(t) \/ DrainOver(t) \/ ReadStores(t)
             \/ \E p \in Paths : Flush(t, p) \/ Unlink(t, p) \/ Create(t, p)
             \/ \E p \in Paths, n \in 0 .. FileSize : SetSize(t, p, n)
             \/ \E p \in Paths, s \in Bytes : ReadMiss(t, p, s)
      PROVE  remote' = remote
  BY <1>7 DEF WriteCache, WriteDirect, WriteEnqueue, WriteReplies, Draining, DrainOver, ReadStores,
              Flush, Unlink, Create, SetSize, ReadMiss
<1>8. CASE \E t \in Threads : ThreadStep(t)
  BY <1>2, <1>3, <1>4, <1>7, <1>8 DEF ThreadStep
<1>9. ASSUME \/ FlusherTakes \/ BackoffEnds
             \/ \E q \in inflight : FlusherReads(q)
             \/ \E m \in sends : SendAnswered(m) \/ SendFails(m)
             \/ \E p \in Paths : PrefetchFetches(p) \/ PrefetchStores(p) \/ SyncFetches(p) \/ SyncStores(p)
      PROVE  remote' = remote
  BY <1>9 DEF FlusherTakes, BackoffEnds, FlusherReads, SendAnswered, SendFails, PrefetchFetches,
              PrefetchStores, SyncFetches, SyncStores
<1> QED
  BY <1>2, <1>5, <1>6, <1>8, <1>9 DEF Next, FlusherStep

\* Downloads stay well typed.
LEMMA FillTyped ==
  ASSUME TypesInv, Next
  PROVE  fill' \in [Paths -> Fills]
<1> USE DEF TypesInv
<1>1. ASSUME NEW p \in Paths, NEW f \in Fills, fill' = [fill EXCEPT ![p] = f]
      PROVE  fill' \in [Paths -> Fills]
  BY <1>1 DEF FileTypes
<1>2. ASSUME fill' = fill
      PROVE  fill' \in [Paths -> Fills]
  BY <1>2 DEF FileTypes
<1>3. NoFill \in Fills /\ [kind |-> "prefetch", pc |-> "stat"] \in Fills
  BY DEF Fills
<1>4. ASSUME NEW t \in Threads, ReadStores(t)
      PROVE  fill' \in [Paths -> Fills]
  <2>1. op[t].path \in Paths
    BY <1>4, OpKinds DEF ReadStores, ReadOps
  <2>2. fill' = fill \/ fill' = [fill EXCEPT ![op[t].path] = [kind |-> "prefetch", pc |-> "stat"]]
    BY <1>4 DEF ReadStores, kick_prefetch
  <2> QED
    BY <1>1, <1>2, <1>3, <2>1, <2>2
<1>5. ASSUME NEW p \in Paths, PrefetchFetches(p)
      PROVE  fill' \in [Paths -> Fills]
  <2> DEFINE from == Length(cache[p])
             data == Part(remote[p], from, FileSize)
             new == [kind |-> "prefetch", pc |-> "store", start |-> from, data |-> data]
  <2>1. from \in Nat /\ from <= FileSize /\ remote[p] \in File \cup {Absent} /\ FileSize \in 0 .. FileSize
    BY FileFacts, Offsets DEF FileTypes
  <2>2. data \in File /\ from + Len(data) <= FileSize
    BY <2>1, PartFile
  <2>3. data # <<>> => new \in Fills
    BY <2>1, <2>2 DEF Fills
  <2>4. fill' = [fill EXCEPT ![p] = IF data = <<>> THEN NoFill ELSE new]
    BY <1>5 DEF PrefetchFetches
  <2> HIDE DEF from, data, new
  <2> QED
    BY <1>1, <1>3, <2>3, <2>4
<1>6. ASSUME NEW p \in Paths, PrefetchStores(p)
      PROVE  fill' \in [Paths -> Fills]
  <2> DEFINE d == fill[p].data
             new == [fill[p] EXCEPT !.start = fill[p].start + 1, !.data = Tail(d)]
  <2>1. /\ fill[p].start \in Nat /\ d \in File /\ d # <<>> /\ fill[p].start + Len(d) <= FileSize
        /\ fill[p] \in [kind : {"prefetch"}, pc : {"store"}, start : Nat, data : File]
    BY <1>6, FillKinds DEF PrefetchStores
  <2>2. Tail(d) \in File /\ Len(Tail(d)) = Len(d) - 1 /\ Len(d) \in Nat
    <3> HIDE DEF d
    <3>1. Tail(d) \in File /\ Len(Tail(d)) = Len(d) - 1
      BY <2>1, ChunkFile
    <3>2. Len(d) \in 0 .. FileSize
      BY <2>1, FileLen
    <3> QED
      BY <3>1, <3>2, Offsets
  <2>3. fill[p].start + 1 \in Nat /\ fill[p].start + 1 + Len(Tail(d)) <= FileSize
    BY <2>1, <2>2, Offsets
  <2>4. /\ new \in [kind : {"prefetch"}, pc : {"store"}, start : Nat, data : File]
        /\ new.start = fill[p].start + 1 /\ new.data = Tail(d)
    BY <2>1, <2>2, <2>3
  <2>5. Tail(d) # <<>> => new \in Fills
    <3> HIDE DEF new
    <3> QED
      BY <2>3, <2>4 DEF Fills
  <2>6. fill' = [fill EXCEPT ![p] = NoFill] \/ (Tail(d) # <<>> /\ fill' = [fill EXCEPT ![p] = new])
    BY <1>6 DEF PrefetchStores
  <2> HIDE DEF d, new
  <2> QED
    BY <1>1, <1>3, <2>5, <2>6
<1>7. ASSUME NEW p \in Paths, SyncFetches(p)
      PROVE  fill' \in [Paths -> Fills]
  <2>1. remote[p] \in File
    BY <1>7 DEF SyncFetches, FileTypes
  <2>2. [kind |-> "sync", data |-> remote[p]] \in Fills
    BY <2>1 DEF Fills
  <2> QED
    BY <1>1, <1>7, <2>2 DEF SyncFetches
<1>8. ASSUME NEW p \in Paths, SyncStores(p)
      PROVE  fill' \in [Paths -> Fills]
  BY <1>1, <1>3, <1>8 DEF SyncStores
<1>9. ASSUME NEW t \in Threads,
             \/ \E p \in Paths, s \in Bytes, e \in 1 .. FileSize : WriteCache(t, p, s, e) \/ WriteDirect(t, p, s, e)
             \/ WriteEnqueue(t) \/ WriteReplies(t) \/ WriteDirectReplies(t) \/ Draining(t) \/ DrainOver(t)
             \/ \E p \in Paths : Flush(t, p) \/ Unlink(t, p) \/ Create(t, p)
             \/ \E p \in Paths, n \in 0 .. FileSize : SetSize(t, p, n)
             \/ RequestOver(t)
             \/ \E p \in Paths, s \in Bytes : ReadMiss(t, p, s)
      PROVE  fill' = fill
  BY <1>9 DEF WriteCache, WriteDirect, WriteEnqueue, WriteReplies, WriteDirectReplies, Draining, DrainOver,
              Flush, Unlink, Create, SetSize, RequestOver, ReadMiss
<1>10. CASE \E t \in Threads : ThreadStep(t)
  BY <1>2, <1>4, <1>9, <1>10 DEF ThreadStep
<1>11. ASSUME FlusherStep
       PROVE  fill' = fill
  BY <1>11 DEF FlusherStep, FlusherTakes, BackoffEnds, FlusherReads, TargetWrites, SendAnswered, SendFails
<1>12. ASSUME \/ \E m \in late : LateArrives(m)
              \/ \E p \in Paths : TargetRemoves(p)
       PROVE  fill' = fill
  BY <1>12 DEF LateArrives, TargetRemoves
<1> QED
  BY <1>2, <1>5, <1>6, <1>7, <1>8, <1>10, <1>11, <1>12 DEF Next

-----------------------------------------------------------------------------
\* The next batch claims bytes that no send has, and nothing else moves.
LEMMA TakesMoves ==
  ASSUME QueueHolds, Queue!FlusherTakes
  PROVE  /\ inflight \subseteq inflight'
         /\ \A p \in Paths : dirty'[p] \subseteq dirty[p]
         /\ \A p \in Paths : \A b \in dirty[p] \ dirty'[p] :
              /\ \A q \in inflight : q.path = p => b \notin Queue!Payload(q)
              /\ \E q \in inflight' : q.path = p /\ b \in Queue!Payload(q)
         /\ \A q \in inflight' \ inflight : \A b \in Queue!Payload(q) :
              q.path \in Paths /\ b \in dirty[q.path] \ dirty'[q.path]
         /\ UNCHANGED <<drain, blocked>>
<1>1. QP!take_batch /\ UNCHANGED <<drain, blocked>>
  BY SameTakes DEF QP!FlusherTakes, QP!clientVars, QP!take_batch
<1>2. PICK cut \in [Paths -> 0 .. FileSize] :
        /\ dirty' = [p \in Paths |-> dirty[p] \ QP!Claim(cut)[p]]
        /\ inflight' = inflight \cup UNION {QP!Pieces(p, QP!Claim(cut)[p]) : p \in Paths}
  BY <1>1 DEF QP!take_batch
<1>3. ASSUME NEW p \in Paths
      PROVE  QP!Claim(cut)[p] \in SUBSET QP!Bytes /\ QP!Claim(cut)[p] \subseteq dirty[p]
             /\ (p \in blocked => QP!Claim(cut)[p] = {})
  BY DEF QP!Claim, QueueHolds, QP!QueueInv, QP!QueueTypeOK
<1>4. \A q : Queue!Payload(q) = QP!Payload(q)
  BY DEF Queue!Payload, QP!Payload, Queue!Interval, QP!Interval, Queue!Bytes, QP!Bytes
<1>5. ASSUME NEW p \in Paths
      PROVE  /\ \A q \in QP!Pieces(p, QP!Claim(cut)[p]) :
                  q.path = p /\ Queue!Payload(q) \subseteq QP!Claim(cut)[p]
             /\ \A b \in QP!Claim(cut)[p] : \E q \in QP!Pieces(p, QP!Claim(cut)[p]) : b \in Queue!Payload(q)
  BY <1>3, <1>4, QueueAssumed, QP!PiecesPartition
<1>6. \A p \in Paths : dirty[p] \ dirty'[p] = QP!Claim(cut)[p] /\ dirty'[p] \subseteq dirty[p]
  BY <1>2, <1>3
<1>7. ASSUME NEW p \in Paths, NEW b \in dirty[p] \ dirty'[p]
      PROVE  /\ \A q \in inflight : q.path = p => b \notin Queue!Payload(q)
             /\ \E q \in inflight' : q.path = p /\ b \in Queue!Payload(q)
  <2>1. b \in QP!Claim(cut)[p] /\ p \notin blocked
    BY <1>3, <1>6
  <2>2. PICK q \in QP!Pieces(p, QP!Claim(cut)[p]) : q.path = p /\ b \in Queue!Payload(q)
    BY <1>5, <2>1
  <2>3. q \in inflight'
    BY <1>2
  <2>4. \A r \in inflight : r.path = p => b \notin Queue!Payload(r)
    BY <2>1, QueueFacts DEF Queue!RewritesWait
  <2> QED
    BY <2>2, <2>3, <2>4
<1>8. ASSUME NEW q \in inflight' \ inflight, NEW b \in Queue!Payload(q)
      PROVE  q.path \in Paths /\ b \in dirty[q.path] \ dirty'[q.path]
  <2>1. PICK p \in Paths : q \in QP!Pieces(p, QP!Claim(cut)[p])
    BY <1>2
  <2> QED
    BY <1>5, <1>6, <2>1
<1> QED
  BY <1>1, <1>2, <1>6, <1>7, <1>8

\* A send that ends takes its piece out of flight; a retry puts it back.
LEMMA EndsMoves ==
  ASSUME NEW q, NEW outcome, Queue!SendEnds(q, outcome)
  PROVE  /\ q \in inflight /\ inflight' = inflight \ {q}
         /\ outcome = "Retry" => dirty' = [dirty EXCEPT ![q.path] = @ \cup Queue!Payload(q)]
         /\ outcome # "Retry" => dirty' = dirty
         /\ \A t \in Threads : drain'[t].paths = drain[t].paths /\ drain'[t].status = drain[t].status
<1>1. Queue!finish(q, outcome)
  BY DEF Queue!SendEnds
<1>2. drain' = [d \in Threads |->
         IF outcome = "Drop" /\ drain[d].status \in {"check", "wait"} /\ q.path \in drain[d].paths
         THEN [drain[d] EXCEPT !.lost = TRUE] ELSE drain[d]]
  BY DEF Queue!SendEnds
<1>3. \A r : [r EXCEPT !.lost = TRUE].paths = r.paths /\ [r EXCEPT !.lost = TRUE].status = r.status
  OBVIOUS
<1> QED
  BY <1>1, <1>2, <1>3 DEF Queue!finish

-----------------------------------------------------------------------------
\* Requests stay well typed, one per piece in flight.
LEMMA SendTypesKept ==
  ASSUME TypesInv, Next
  PROVE  SendTypes'
<1> USE DEF TypesInv
<1>1. ASSUME UNCHANGED <<sends, late>>, inflight \subseteq inflight'
      PROVE  SendTypes'
  BY <1>1 DEF SendTypes
<1>2. ASSUME NEW m \in sends, sends' = sends \ {m}, inflight' = inflight \ {m.piece}, late' \subseteq late \cup {m}
      PROVE  SendTypes'
  BY <1>2 DEF SendTypes
<1>3. ASSUME NEW q \in inflight, FlusherReads(q)
      PROVE  SendTypes'
  <2> DEFINE data == Part(cache[q.path], q.start, q.end)
             m == [piece |-> q, data |-> data, phase |-> "sent"]
  <2>1. CASE UNCHANGED queueVars /\ Len(data) = q.end - q.start /\ sends' = sends \cup {m}
    <3>1. q \in Queue!Piece
      BY QueueFacts
    <3>2. q.start \in Nat /\ q.end \in 0 .. FileSize /\ cache[q.path] \in File \cup {Absent}
      BY <3>1, Offsets DEF Queue!Piece, Bytes, FileTypes
    <3>3. data \in File
      BY <3>2, PartFile
    <3>4. m \in Requests /\ m.piece = q
      <4> HIDE DEF data
      <4> QED
        BY <2>1, <3>1, <3>3 DEF Requests
    <3>5. (\A n \in sends : n.piece # q) /\ late' = late /\ inflight' = inflight
      BY <1>3, <2>1 DEF FlusherReads, queueVars
    <3> HIDE DEF m, data
    <3> QED
      BY <2>1, <3>4, <3>5 DEF SendTypes
  <2>2. CASE Queue!SendEnds(q, "Retry") /\ UNCHANGED sends
    <3>1. inflight' = inflight \ {q} /\ (\A n \in sends : n.piece # q) /\ late' = late
      BY <1>3, <2>2, EndsMoves DEF FlusherReads
    <3> QED
      BY <2>2, <3>1 DEF SendTypes
  <2> QED
    BY <1>3, <2>1, <2>2 DEF FlusherReads
<1>4. ASSUME NEW m \in sends, TargetWrites(m)
      PROVE  SendTypes'
  <2>1. PICK ph \in {"written", "refused"} : sends' = (sends \ {m}) \cup {[m EXCEPT !.phase = ph]}
    BY <1>4 DEF TargetWrites
  <2>2. m \in Requests
    BY DEF SendTypes
  <2>3. /\ [m EXCEPT !.phase = ph] \in Requests
        /\ [m EXCEPT !.phase = ph].piece = m.piece
    BY <2>2 DEF Requests
  <2>4. late' = late /\ inflight' = inflight
    BY <1>4 DEF TargetWrites, queueVars
  <2> QED
    BY <2>1, <2>3, <2>4 DEF SendTypes
<1>5. ASSUME NEW m \in sends, SendAnswered(m) \/ SendFails(m)
      PROVE  SendTypes'
  <2>1. PICK o : Queue!SendEnds(m.piece, o)
    BY <1>5 DEF SendAnswered, SendFails
  <2>2. sends' = sends \ {m} /\ late' \subseteq late \cup {m}
    BY <1>5 DEF SendAnswered, SendFails
  <2> QED
    BY <1>2, <2>1, <2>2, EndsMoves
<1>6. CASE FlusherTakes
  <2>1. inflight \subseteq inflight' /\ UNCHANGED <<sends, late>>
    BY <1>6, TakesMoves DEF FlusherTakes
  <2> QED
    BY <1>1, <2>1
<1>7. CASE BackoffEnds
  BY <1>1, <1>7 DEF BackoffEnds, Queue!BackoffEnds
<1>8. ASSUME NEW m \in late, LateArrives(m)
      PROVE  SendTypes'
  <2>1. sends' = sends /\ late' \subseteq late /\ inflight' = inflight
    BY <1>8 DEF LateArrives, queueVars
  <2> QED
    BY <2>1 DEF SendTypes
<1>9. ASSUME \/ \E p \in Paths : \/ TargetRemoves(p) \/ PrefetchFetches(p) \/ PrefetchStores(p)
                                 \/ SyncFetches(p) \/ SyncStores(p)
      PROVE  SendTypes'
  BY <1>1, <1>9 DEF TargetRemoves, PrefetchFetches, PrefetchStores, SyncFetches, SyncStores, queueVars
<1>10. ASSUME NEW t \in Threads, ThreadStep(t)
       PROVE  SendTypes'
  <2>1. ASSUME \/ \E p \in Paths, s \in Bytes, e \in 1 .. FileSize : WriteCache(t, p, s, e) \/ WriteDirect(t, p, s, e)
               \/ WriteDirectReplies(t) \/ DrainOver(t) \/ RequestOver(t) \/ ReadStores(t)
               \/ \E p \in Paths, s \in Bytes : ReadMiss(t, p, s)
        PROVE  UNCHANGED <<sends, late, inflight>>
    BY <2>1 DEF WriteCache, WriteDirect, WriteDirectReplies, DrainOver, RequestOver, ReadStores, ReadMiss, queueVars
  <2>2. ASSUME \/ WriteEnqueue(t) \/ WriteReplies(t)
        PROVE  UNCHANGED <<sends, late, inflight>>
    BY <2>2 DEF WriteEnqueue, WriteReplies, Queue!enqueue_upload, Queue!enqueue, Queue!wait_below, Queue!queueVars
  <2>3. ASSUME \/ Draining(t)
               \/ \E p \in Paths : Flush(t, p) \/ Unlink(t, p) \/ Create(t, p)
               \/ \E p \in Paths, n \in 0 .. FileSize : SetSize(t, p, n)
        PROVE  UNCHANGED <<sends, late, inflight>>
    BY <2>3 DEF Draining, Flush, Unlink, Create, SetSize, DrainFor, Queue!DrainBegins, Queue!DrainChecks,
                Queue!DrainWakes, Queue!DrainTimesOut, Queue!queueVars
  <2>4. UNCHANGED <<sends, late, inflight>>
    BY <1>10, <2>1, <2>2, <2>3 DEF ThreadStep
  <2> QED
    BY <1>1, <2>4
<1> QED
  BY <1>3, <1>4, <1>5, <1>6, <1>7, <1>8, <1>9, <1>10 DEF Next, FlusherStep

-----------------------------------------------------------------------------
\* Writes owed no more are numbered like the others.
LEMMA UndoneTyped ==
  ASSUME TypesInv, Next
  PROVE  undone' \in [Paths -> [Bytes -> Value]]
<1> USE DEF TypesInv
<1>1. ASSUME NEW p \in Paths, NEW B, NEW v \in Value, Forgive(p, B, v)
      PROVE  undone' \in [Paths -> [Bytes -> Value]]
  BY <1>1 DEF Forgive, HistoryTypes
<1>2. ASSUME undone' = undone
      PROVE  undone' \in [Paths -> [Bytes -> Value]]
  BY <1>2 DEF HistoryTypes
<1>3. version \in Value
  BY Offsets DEF HistoryTypes, Value
<1>4. ASSUME NEW t \in Threads, WriteDirectReplies(t)
      PROVE  undone' \in [Paths -> [Bytes -> Value]]
  <2>1. op[t].path \in Paths /\ op[t].version \in Value
    BY <1>4, OpKinds, Offsets DEF WriteDirectReplies, WriteOps, Value
  <2> QED
    BY <1>1, <1>4, <2>1 DEF WriteDirectReplies
<1>5. ASSUME NEW t \in Threads, NEW p \in Paths, Create(t, p)
      PROVE  undone' \in [Paths -> [Bytes -> Value]]
  BY <1>1, <1>3, <1>5 DEF Create
<1>6. ASSUME NEW t \in Threads, DrainOver(t)
      PROVE  undone' \in [Paths -> [Bytes -> Value]]
  <2>1. op[t].path \in Paths
    BY <1>6, OpKinds DEF DrainOver, DrainOps
  <2>2. \/ undone' = undone
        \/ Forgive(op[t].path, {b \in Bytes : op[t].kind # "setattr" \/ b >= op[t].size}, version)
    BY <1>6 DEF DrainOver
  <2> QED
    BY <1>1, <1>2, <1>3, <2>1, <2>2
<1>7. ASSUME NEW m \in sends, SendAnswered(m)
      PROVE  undone' \in [Paths -> [Bytes -> Value]]
  <2>1. /\ m.piece.path \in Paths
        /\ \A b \in Queue!Payload(m.piece) : m.data[b - m.piece.start + 1] \in Value
    <3>1. m \in Requests
      BY DEF SendTypes
    <3> QED
      BY <3>1, RequestFacts
  <2> DEFINE row == undone[m.piece.path]
             f == [b \in Bytes |-> IF b \in Queue!Payload(m.piece) /\ m.data[b - m.piece.start + 1] > row[b]
                                   THEN m.data[b - m.piece.start + 1] ELSE row[b]]
  <2>2. undone' = undone \/ undone' = [undone EXCEPT ![m.piece.path] = f]
    BY <1>7 DEF SendAnswered
  <2>3. f \in [Bytes -> Value]
    BY <2>1 DEF HistoryTypes
  <2> HIDE DEF row, f
  <2> QED
    BY <1>2, <2>1, <2>2, <2>3 DEF HistoryTypes
<1>8. ASSUME NEW m \in late, LateArrives(m)
      PROVE  undone' \in [Paths -> [Bytes -> Value]]
  <2>1. m.piece.path \in Paths
    <3>1. m \in Requests
      BY DEF SendTypes
    <3> QED
      BY <3>1, RequestFacts
  <2>2. \A b \in Bytes : ByteAt(remote[m.piece.path], b) \in Value
    BY <2>1, FileFacts DEF FileTypes
  <2> DEFINE row == undone[m.piece.path]
             f == [b \in Bytes |-> IF b \in Queue!Payload(m.piece) /\ ByteAt(remote[m.piece.path], b) > row[b]
                                   THEN ByteAt(remote[m.piece.path], b) ELSE row[b]]
  <2>3. undone' = undone \/ undone' = [undone EXCEPT ![m.piece.path] = f]
    BY <1>8 DEF LateArrives
  <2>4. f \in [Bytes -> Value]
    BY <2>1, <2>2 DEF HistoryTypes
  <2> HIDE DEF row, f
  <2> QED
    BY <1>2, <2>1, <2>3, <2>4 DEF HistoryTypes
<1>9. ASSUME NEW p \in Paths, TargetRemoves(p)
      PROVE  undone' \in [Paths -> [Bytes -> Value]]
  BY <1>1, <1>3, <1>9 DEF TargetRemoves
<1>10. ASSUME NEW t \in Threads,
              \/ \E p \in Paths, s \in Bytes, e \in 1 .. FileSize : WriteCache(t, p, s, e) \/ WriteDirect(t, p, s, e)
              \/ WriteEnqueue(t) \/ WriteReplies(t) \/ Draining(t) \/ RequestOver(t) \/ ReadStores(t)
              \/ \E p \in Paths : Flush(t, p) \/ Unlink(t, p)
              \/ \E p \in Paths, n \in 0 .. FileSize : SetSize(t, p, n)
              \/ \E p \in Paths, s \in Bytes : ReadMiss(t, p, s)
       PROVE  undone' = undone
  BY <1>10 DEF WriteCache, WriteDirect, WriteEnqueue, WriteReplies, Draining, RequestOver, ReadStores,
               Flush, Unlink, SetSize, ReadMiss
<1>11. CASE \E t \in Threads : ThreadStep(t)
  BY <1>2, <1>4, <1>5, <1>6, <1>10, <1>11 DEF ThreadStep
<1>12. ASSUME \/ FlusherTakes \/ BackoffEnds
              \/ \E q \in inflight : FlusherReads(q)
              \/ \E m \in sends : TargetWrites(m) \/ SendFails(m)
              \/ \E p \in Paths : PrefetchFetches(p) \/ PrefetchStores(p) \/ SyncFetches(p) \/ SyncStores(p)
       PROVE  undone' = undone
  BY <1>12 DEF FlusherTakes, BackoffEnds, FlusherReads, TargetWrites, SendFails, PrefetchFetches,
               PrefetchStores, SyncFetches, SyncStores
<1> QED
  BY <1>2, <1>7, <1>8, <1>9, <1>11, <1>12 DEF Next, FlusherStep

\* What the mount found in the cache is a fact of its past.
LEMMA InheritedStays ==
  ASSUME Next
  PROVE  inherited' = inherited
<1>1. ASSUME NEW t \in Threads, ThreadStep(t) PROVE inherited' = inherited
  BY <1>1 DEF ThreadStep, WriteCache, WriteDirect, WriteEnqueue, WriteReplies, WriteDirectReplies, Flush,
     Unlink, Create, SetSize, Draining, DrainOver, RequestOver, ReadMiss, ReadStores
<1>2. ASSUME FlusherStep PROVE inherited' = inherited
  BY <1>2 DEF FlusherStep, FlusherTakes, BackoffEnds, FlusherReads, TargetWrites, SendAnswered, SendFails
<1> QED
  BY <1>1, <1>2 DEF Next, LateArrives, TargetRemoves, PrefetchFetches, PrefetchStores, SyncFetches, SyncStores

\* So are the writes reported done, and those a drain was called for.
LEMMA HistoryKept ==
  ASSUME TypesInv, Next
  PROVE  HistoryTypes'
<1> USE DEF TypesInv
<1> DEFINE Goal == /\ version' \in 1 .. MaxWrites + 1
                   /\ acked' \in [Paths -> [Bytes -> Value]]
                   /\ floor' \in [Threads -> [Bytes -> Value]]
<1>1. ASSUME NEW t \in Threads, NEW p \in Paths, NEW s \in Bytes, NEW e \in 1 .. FileSize,
             WriteCache(t, p, s, e) \/ WriteDirect(t, p, s, e)
      PROVE  Goal
  <2>1. version <= MaxWrites /\ version' = version + 1 /\ UNCHANGED <<acked, floor>>
    BY <1>1 DEF WriteCache, WriteDirect
  <2> QED
    BY <2>1, Offsets DEF HistoryTypes
<1>2. ASSUME NEW t \in Threads, WriteReplies(t) \/ WriteDirectReplies(t)
      PROVE  Goal
  <2>1. op[t].path \in Paths /\ op[t].version \in Value
    BY <1>2, OpKinds, Offsets DEF WriteReplies, WriteDirectReplies, WriteOps, Value
  <2>2. Reported(t) /\ UNCHANGED <<version, floor>>
    BY <1>2 DEF WriteReplies, WriteDirectReplies
  <2> QED
    BY <2>1, <2>2 DEF Reported, HistoryTypes
<1>3. ASSUME NEW t \in Threads, NEW p \in Paths, NEW n \in 0 .. FileSize,
             Flush(t, p) \/ Unlink(t, p) \/ SetSize(t, p, n)
      PROVE  Goal
  <2>1. floor' = [floor EXCEPT ![t] = acked[p]] /\ UNCHANGED <<version, acked>>
    BY <1>3 DEF Flush, Unlink, SetSize
  <2> QED
    BY <2>1 DEF HistoryTypes
<1>4. ASSUME UNCHANGED <<version, acked, floor>>
      PROVE  Goal
  BY <1>4 DEF HistoryTypes
<1>5. ASSUME NEW t \in Threads,
             \/ WriteEnqueue(t) \/ DrainOver(t) \/ RequestOver(t) \/ ReadStores(t)
             \/ \E p \in Paths : Create(t, p)
             \/ \E p \in Paths, s \in Bytes : ReadMiss(t, p, s)
      PROVE  UNCHANGED <<version, acked, floor>>
  BY <1>5 DEF WriteEnqueue, DrainOver, RequestOver, ReadStores, Create, ReadMiss
<1>6. 0 \in 0 .. FileSize
  BY Offsets
<1>7. ASSUME \E t \in Threads : ThreadStep(t)
      PROVE  Goal
  <2> HIDE DEF Goal
  <2>1. PICK t \in Threads : ThreadStep(t)
    BY <1>7
  <2>2. Draining(t) => UNCHANGED <<version, acked, floor>>
    BY OpsStay DEF OpsAlone
  <2> QED
    BY <1>1, <1>2, <1>3, <1>4, <1>5, <1>6, <2>1, <2>2 DEF ThreadStep
<1>8. ASSUME OpsAlone
      PROVE  Goal
  BY <1>4, <1>8, OpsStay
<1>9. Goal
  <2> HIDE DEF Goal
  <2> QED
    BY <1>7, <1>8 DEF Next, OpsAlone
<1> QED
  BY <1>9, UndoneTyped, InheritedStays DEF HistoryTypes

\* The inductive invariant of the types: it starts true and every step keeps
\* it, with the queue's own invariant as a part.
LEMMA TypesKept ==
  /\ Init => TypesInv
  /\ TypesInv /\ [Next]_vars => TypesInv'
<1>1. ASSUME Init PROVE TypesInv
  <2>1. QueueHolds
    BY <1>1, QueueKept DEF Init
  <2>2. OpTypes
    BY <1>1 DEF Init, OpTypes
  <2>3. FileTypes
    <3>1. FileSize \in 0 .. FileSize /\ 1 \in Value
      BY Offsets DEF Value
    <3>2. [i \in 1 .. FileSize |-> 1] \in File
      BY <3>1 DEF File
    <3>3. cache \in [Paths -> File \cup {Absent}]
      BY <1>1, LeftoverFile DEF Init
    <3> QED
      BY <1>1, <3>2, <3>3 DEF Init, FileTypes, Fills
  <2>4. SendTypes
    BY <1>1 DEF Init, SendTypes
  <2>5. HistoryTypes
    <3>1. Nothing \in [Bytes -> Value] /\ 1 \in 1 .. MaxWrites + 1
      BY Offsets DEF Nothing, Bytes, Value
    <3> QED
      BY <1>1, <3>1 DEF Init, HistoryTypes
  <2> QED
    BY <2>1, <2>2, <2>3, <2>4, <2>5 DEF TypesInv
<1>2. ASSUME TypesInv, Next PROVE TypesInv'
  <2>1. QueueHolds'
    BY <1>2, QueueStep, QueueKept DEF TypesInv
  <2>2. OpTypes'
    BY <1>2, OpTypesKept DEF TypesInv
  <2>3. FileTypes'
    BY <1>2, CacheTyped, RemoteTyped, FillTyped DEF FileTypes
  <2>4. SendTypes' /\ HistoryTypes'
    BY <1>2, SendTypesKept, HistoryKept
  <2> QED
    BY <2>1, <2>2, <2>3, <2>4 DEF TypesInv
<1>3. ASSUME TypesInv, UNCHANGED vars PROVE TypesInv'
  <2>1. QueueHolds'
    BY <1>3, QueueStep, QueueKept DEF TypesInv
  <2> QED
    BY <1>3, <2>1 DEF TypesInv, vars, queueVars, OpTypes, FileTypes, SendTypes, HistoryTypes
<1> QED
  BY <1>1, <1>2, <1>3

\* The inductive invariant of the data path's types, which holds the queue's own invariant
\* for the queue inside the mount: every step of the mount is a step of the queue or none.
THEOREM TypesInvariant == Spec => []TypesInv
BY TypesKept, PTL DEF Spec

\* Type correctness of the data path.
THEOREM DataPathTypes == Spec => []TypeOK
<1>1. TypesInv => TypeOK
  BY QueueFacts DEF TypesInv, TypeOK, FileTypes, SendTypes, HistoryTypes, Requests
<1> QED
  BY <1>1, TypesInvariant, PTL

\* The mount implements the upload queue: it starts as the queue does, and
\* every one of its steps is a step of the queue or leaves the queue alone, so
\* what the queue's theorems say holds while programs, the target and the
\* downloads move.
THEOREM MountImplementsQueue == Spec => QueueSpec
<1>1. Init => Queue!Init
  BY DEF Init
<1>2. TypesInv /\ [Next]_vars => [Queue!Next]_(Queue!vars)
  BY QueueStep DEF TypesInv
<1> QED
  BY <1>1, <1>2, TypesInvariant, PTL DEF Spec, QueueSpec, Queue!Spec

-----------------------------------------------------------------------------
\* Nothing has been written and no drain has begun: the mount was only read.
OnlyRead == version = 1 /\ drains = 0

\* The target's own content, as far as the file goes.
Original(f) == \A b \in Bytes : b < Length(f) => ByteAt(f, b) = 1

\* So is f, but for bytes that it has from g.
Genuine(f, g) ==
  \A b \in Bytes : b < Length(f) => ByteAt(f, b) = 1 \/ (b < Length(g) /\ ByteAt(f, b) = ByteAt(g, b))

\* The bytes fetched from offset s are the target's.
Fetched(s, data) == \A b \in Bytes : s <= b /\ b < s + Len(data) => data[b - s + 1] = 1

\* While the mount is only read: nothing is queued or sent, and whatever the
\* cache, a read or a download holds is the target's content, or in the cache
\* what an earlier mount left; a prefetch writes no further than right behind
\* the cached prefix.
ReadInv ==
  OnlyRead =>
    /\ inflight = {} /\ late = {} /\ \A p \in Paths : dirty[p] = {}
    /\ \A t \in Threads : op[t].kind \in {"idle", "read"}
    /\ \A p \in Paths : /\ Genuine(cache[p], inherited[p])
                        /\ Original(remote[p])
                        /\ remote[p] # Absent => Length(remote[p]) = FileSize
    /\ \A t \in Threads : op[t].kind = "read" => Fetched(op[t].start, op[t].data)
    /\ \A p \in Paths : fill[p].kind = "sync" => Original(fill[p].data)
    /\ \A p \in Paths : fill[p].kind = "prefetch" /\ fill[p].pc = "store" =>
         fill[p].start <= Length(cache[p]) /\ Fetched(fill[p].start, fill[p].data)

\* Storing fetched bytes behind the prefix keeps it the target's.
LEMMA GenuineGrows ==
  ASSUME NEW f \in File \cup {Absent}, NEW s \in Nat, NEW data \in File, s + Len(data) <= FileSize,
         NEW g, Genuine(f, g), Fetched(s, data), s <= Length(f)
  PROVE  Genuine(Overlay(f, s, data), g)
<1> DEFINE h == Overlay(f, s, data)
<1> SUFFICES ASSUME NEW b \in Bytes, b < Length(h)
             PROVE  ByteAt(h, b) = 1 \/ (b < Length(g) /\ ByteAt(h, b) = ByteAt(g, b))
  BY DEF Genuine
<1>1. /\ Length(h) \in {Length(f), s + Len(data)} /\ h \in File
      /\ ByteAt(h, b) = IF s <= b /\ b < s + Len(data) THEN data[b - s + 1] ELSE ByteAt(f, b)
  BY OverlayFile
<1>2. b \in Nat /\ Length(f) \in Nat /\ Len(data) \in Nat
  BY FileFacts, FileLen, Offsets
<1>3. ~(s <= b /\ b < s + Len(data)) => b < Length(f)
  <2> HIDE DEF h
  <2> QED
    BY <1>1, <1>2
<1> HIDE DEF h
<1> QED
  BY <1>1, <1>3 DEF Genuine, Fetched

\* What is read from the target's content is that content.
LEMMA OriginalRead ==
  ASSUME NEW f \in File \cup {Absent}, Original(f), NEW s \in Nat, NEW e \in 0 .. FileSize
  PROVE  Fetched(s, Part(f, s, e))
BY PartFile DEF Original, Fetched

\* The steps of a mount that stays only read.
LEMMA ReadSteps ==
  ASSUME TypesInv, ReadInv, Next, OnlyRead'
  PROVE  /\ OnlyRead
         /\ \/ UNCHANGED <<cache, remote, op, fill, late, inflight, dirty>>
            \/ \E p \in Paths : /\ TargetRemoves(p) \/ PrefetchFetches(p) \/ PrefetchStores(p)
                                   \/ SyncFetches(p) \/ SyncStores(p)
            \/ \E t \in Threads : ReadStores(t) \/ \E p \in Paths, s \in Bytes : ReadMiss(t, p, s)
<1>1. version \in 1 .. MaxWrites + 1 /\ drains \in Nat
  BY QueueFacts DEF TypesInv, HistoryTypes, Queue!TypeOK
<1>2. ASSUME NEW t \in Threads, NEW p \in Paths, NEW s \in Bytes, NEW e \in 1 .. FileSize
      PROVE  ~WriteCache(t, p, s, e) /\ ~WriteDirect(t, p, s, e)
  BY <1>1 DEF WriteCache, WriteDirect, OnlyRead
<1>3. ASSUME NEW t \in Threads, NEW p \in Paths, NEW n \in 0 .. FileSize
      PROVE  ~Flush(t, p) /\ ~Unlink(t, p) /\ ~Create(t, p) /\ ~SetSize(t, p, n)
  BY <1>1 DEF Flush, Unlink, Create, SetSize, DrainFor, Queue!DrainBegins, OnlyRead
<1>4. OnlyRead
  <2>1. ASSUME NEW t \in Threads, ThreadStep(t)
        PROVE  UNCHANGED <<version, drains>>
    <3>1. 0 \in 0 .. FileSize
      BY Offsets
    <3> QED
      BY <1>2, <1>3, <2>1, <3>1 DEF ThreadStep, WriteEnqueue, WriteReplies, WriteDirectReplies, Draining,
         DrainOver, RequestOver, ReadMiss, ReadStores, queueVars, Queue!enqueue_upload, Queue!wait_below,
         Queue!DrainChecks, Queue!DrainWakes, Queue!DrainTimesOut
  <2>2. ASSUME FlusherStep
        PROVE  UNCHANGED <<version, drains>>
    BY <2>2 DEF FlusherStep, FlusherTakes, BackoffEnds, FlusherReads, TargetWrites, SendAnswered, SendFails,
         Queue!FlusherTakes, Queue!clientVars, Queue!BackoffEnds, Queue!SendEnds, queueVars
  <2>3. ASSUME OpsAlone, ~FlusherStep, ~\E t \in Threads : Draining(t)
        PROVE  UNCHANGED <<version, drains>>
    BY <2>3, OpsStay, QueueAlone DEF OpsAlone, queueVars
  <2>4. UNCHANGED <<version, drains>>
    BY <2>1, <2>2, <2>3 DEF Next, ThreadStep, OpsAlone
  <2> QED
    BY <2>4 DEF OnlyRead
<1>5. /\ inflight = {} /\ late = {} /\ sends = {}
      /\ \A t \in Threads : /\ op[t].kind \in {"idle", "read"}
                              /\ op[t].kind \notin {"write", "flush", "setattr", "create", "unlink"}
  BY <1>4 DEF ReadInv, TypesInv, SendTypes
<1>6. ASSUME FlusherStep
      PROVE  UNCHANGED <<cache, remote, op, fill, late, inflight, dirty>>
  <2>1. CASE FlusherTakes
    <3>1. Queue!FlusherTakes /\ UNCHANGED <<cache, remote, op, fill, late>>
      BY <2>1 DEF FlusherTakes
    <3>2. inflight' \subseteq Queue!Piece /\ dirty \in [Paths -> SUBSET Bytes] /\ dirty' \in [Paths -> SUBSET Bytes]
      <4>1. QP!QueueTypeOK /\ QP!QueueTypeOK'
        BY TypesKept DEF TypesInv, QueueHolds, QP!QueueInv
      <4>2. Queue!Piece = QP!Piece /\ Bytes = QP!Bytes
        BY DEF Queue!Piece, QP!Piece, Bytes, Queue!Bytes, QP!Bytes
      <4> QED
        BY <4>1, <4>2 DEF QP!QueueTypeOK
    <3>3. \A q \in inflight' : q.start \in Queue!Payload(q)
      BY <3>2, Offsets DEF Queue!Payload, Queue!Interval, Queue!Piece, Bytes
    <3>4. \A p \in Paths : dirty[p] = {} /\ dirty'[p] = {}
      BY <1>4, <3>1, TakesMoves DEF ReadInv, TypesInv
    <3>5. inflight' = {}
      BY <1>5, <3>1, <3>3, <3>4, TakesMoves DEF TypesInv
    <3>6. dirty' = dirty
      BY <3>2, <3>4
    <3> QED
      BY <1>5, <3>1, <3>5, <3>6
  <2>2. CASE BackoffEnds
    BY <2>2 DEF BackoffEnds, Queue!BackoffEnds
  <2> QED
    BY <1>5, <1>6, <2>1, <2>2 DEF FlusherStep
<1>7. ASSUME NEW t \in Threads, ThreadStep(t)
      PROVE  \/ UNCHANGED <<cache, remote, op, fill, late, inflight, dirty>>
             \/ ReadStores(t) \/ \E p \in Paths, s \in Bytes : ReadMiss(t, p, s)
  <2>1. /\ ~WriteEnqueue(t) /\ ~WriteReplies(t) /\ ~WriteDirectReplies(t)
        /\ ~DrainOver(t) /\ ~RequestOver(t)
    BY <1>5 DEF WriteEnqueue, WriteReplies, WriteDirectReplies, DrainOver, RequestOver
  <2>2. Draining(t) => UNCHANGED <<cache, remote, op, fill, late, inflight, dirty>>
    BY DEF Draining, Queue!DrainChecks, Queue!DrainWakes, Queue!DrainTimesOut, Queue!queueVars
  <2>3. 0 \in 0 .. FileSize
    BY Offsets
  <2> QED
    BY <1>2, <1>3, <1>7, <2>1, <2>2, <2>3 DEF ThreadStep
<1> QED
  BY <1>4, <1>5, <1>6, <1>7 DEF Next

\* The steps of a mount that is only read keep all of it the target's.
LEMMA ReadKept ==
  ASSUME TypesInv, ReadInv, Next
  PROVE  ReadInv'
<1> SUFFICES ASSUME OnlyRead'
             PROVE  /\ inflight' = {} /\ late' = {} /\ \A p \in Paths : dirty'[p] = {}
                    /\ \A t \in Threads : op'[t].kind \in {"idle", "read"}
                    /\ \A p \in Paths : /\ Genuine(cache'[p], inherited[p])
                                        /\ Original(remote'[p])
                                        /\ remote'[p] # Absent => Length(remote'[p]) = FileSize
                    /\ \A t \in Threads : op'[t].kind = "read" => Fetched(op'[t].start, op'[t].data)
                    /\ \A p \in Paths : fill'[p].kind = "sync" => Original(fill'[p].data)
                    /\ \A p \in Paths : fill'[p].kind = "prefetch" /\ fill'[p].pc = "store" =>
                         fill'[p].start <= Length(cache'[p]) /\ Fetched(fill'[p].start, fill'[p].data)
  BY InheritedStays DEF ReadInv
<1>1. /\ OnlyRead
      /\ inflight = {} /\ late = {} /\ \A p \in Paths : dirty[p] = {}
      /\ \A t \in Threads : op[t].kind \in {"idle", "read"}
      /\ \A p \in Paths : /\ Genuine(cache[p], inherited[p])
                          /\ Original(remote[p])
                          /\ remote[p] # Absent => Length(remote[p]) = FileSize
      /\ \A t \in Threads : op[t].kind = "read" => Fetched(op[t].start, op[t].data)
      /\ \A p \in Paths : fill[p].kind = "sync" => Original(fill[p].data)
      /\ \A p \in Paths : fill[p].kind = "prefetch" /\ fill[p].pc = "store" =>
           fill[p].start <= Length(cache[p]) /\ Fetched(fill[p].start, fill[p].data)
  BY ReadSteps DEF ReadInv
<1>2. /\ cache \in [Paths -> File \cup {Absent}] /\ remote \in [Paths -> File \cup {Absent}]
      /\ fill \in [Paths -> Fills] /\ op \in [Threads -> {Idle} \cup WriteOps \cup DrainOps \cup ReadOps]
      /\ FileSize \in Nat /\ FileSize \in 0 .. FileSize
  BY Offsets DEF TypesInv, OpTypes, FileTypes
<1>3. CASE UNCHANGED <<cache, remote, op, fill, late, inflight, dirty>>
  BY <1>1, <1>3
<1>4. ASSUME NEW p \in Paths, TargetRemoves(p)
      PROVE  /\ UNCHANGED <<cache, op, fill, late, inflight, dirty>>
             /\ remote' = [remote EXCEPT ![p] = Absent]
  BY <1>4 DEF TargetRemoves, queueVars
<1>5. Original(Absent)
  BY EmptyFile, Offsets DEF Original
<1>6. CASE \E p \in Paths : TargetRemoves(p)
  BY <1>1, <1>2, <1>4, <1>5, <1>6
<1>7. ASSUME NEW t \in Threads, NEW p \in Paths, NEW s \in Bytes, ReadMiss(t, p, s)
      PROVE  /\ UNCHANGED <<cache, remote, fill, late, inflight, dirty>>
             /\ op' = [op EXCEPT ![t] = op'[t]] /\ op'[t].kind = "read"
             /\ Fetched(op'[t].start, op'[t].data)
  <2>1. PICK e \in s .. FileSize :
          op' = [op EXCEPT ![t] = [kind |-> "read", path |-> p, start |-> s, data |-> Part(remote[p], s, e)]]
    BY <1>7 DEF ReadMiss
  <2>2. s \in Nat /\ e \in 0 .. FileSize
    BY Offsets
  <2> DEFINE data == Part(remote[p], s, e)
             o == [kind |-> "read", path |-> p, start |-> s, data |-> data]
  <2>3. Fetched(s, data)
    BY <1>1, <1>2, <2>2, OriginalRead
  <2>4. op' = [op EXCEPT ![t] = o]
    BY <2>1
  <2> HIDE DEF data
  <2>5. o.kind = "read" /\ o.start = s /\ o.data = data
    OBVIOUS
  <2>6. UNCHANGED <<cache, remote, fill, late, inflight, dirty>>
    BY <1>7 DEF ReadMiss, queueVars
  <2> HIDE DEF o
  <2>7. op'[t] = o
    BY <1>2, <2>4
  <2> QED
    BY <2>3, <2>4, <2>5, <2>6, <2>7
<1>8. CASE \E t \in Threads, p \in Paths, s \in Bytes : ReadMiss(t, p, s)
  BY <1>1, <1>2, <1>7, <1>8
<1>9. ASSUME NEW t \in Threads, NEW p \in Paths, p = op[t].path, ReadStores(t)
      PROVE  /\ UNCHANGED <<remote, late, inflight, dirty>>
             /\ op' = [op EXCEPT ![t] = Idle]
             /\ Genuine(cache'[p], inherited[p]) /\ Length(cache[p]) <= Length(cache'[p])
             /\ \A r \in Paths \ {p} : cache'[r] = cache[r]
             /\ \A r \in Paths : fill'[r] = fill[r] \/ fill'[r] = [kind |-> "prefetch", pc |-> "stat"]
  <2>1. /\ op[t].start \in Nat /\ op[t].data \in File /\ op[t].start + Len(op[t].data) <= FileSize
        /\ cache[p] \in File \cup {Absent} /\ Fetched(op[t].start, op[t].data)
    BY <1>1, <1>2, <1>9, OpKinds, Offsets DEF ReadStores, ReadOps, TypesInv
  <2> DEFINE new == Overlay(cache[p], op[t].start, op[t].data)
  <2>2. \/ /\ op[t].start <= Length(cache[p])
           /\ cache' = [cache EXCEPT ![p] = new]
        \/ UNCHANGED cache
    BY <1>9 DEF ReadStores, Extends
  <2>3. op[t].start <= Length(cache[p]) => Genuine(new, inherited[p]) /\ Length(cache[p]) <= Length(new)
    BY <1>1, <2>1, GenuineGrows, OverlayFile
  <2>4. \A r \in Paths : fill'[r] = fill[r] \/ fill'[r] = [kind |-> "prefetch", pc |-> "stat"]
    BY <1>2, <1>9 DEF ReadStores, kick_prefetch
  <2>5. Length(cache[p]) \in Nat
    BY <2>1, FileFacts, Offsets
  <2>6. UNCHANGED <<remote, late, inflight, dirty>> /\ op' = [op EXCEPT ![t] = Idle]
    BY <1>9 DEF ReadStores, queueVars
  <2> HIDE DEF new
  <2> QED
    BY <1>1, <1>2, <2>2, <2>3, <2>4, <2>5, <2>6
<1>10. CASE \E t \in Threads : ReadStores(t)
  <2>1. PICK t \in Threads : ReadStores(t)
    BY <1>10
  <2>2. PICK p \in Paths : p = op[t].path
    BY <2>1, OpKinds DEF ReadStores, ReadOps, TypesInv
  <2>3. \A r \in Paths : Length(cache[r]) \in Nat /\ Length(cache[r]) <= Length(cache'[r])
    BY <1>2, <1>9, <2>1, <2>2, FileFacts, Offsets
  <2>4. \A r \in Paths : Length(cache'[r]) \in Nat
    BY <1>2, CacheTyped, FileFacts, Offsets
  <2>5. ASSUME NEW r \in Paths, fill'[r].kind = "prefetch", fill'[r].pc = "store"
        PROVE  fill'[r].start <= Length(cache'[r]) /\ Fetched(fill'[r].start, fill'[r].data)
    <3>1. fill'[r] = fill[r]
      BY <1>9, <2>1, <2>2, <2>5
    <3>2. fill[r].start \in Nat /\ fill[r].start <= Length(cache[r])
      BY <1>1, <2>5, <3>1, FillKinds DEF TypesInv
    <3> QED
      BY <1>1, <2>3, <2>4, <2>5, <3>1, <3>2
  <2>6. \A r \in Paths : fill'[r].kind = "sync" => Original(fill'[r].data)
    BY <1>1, <1>9, <2>1, <2>2
  <2>7. \A r \in Paths : Genuine(cache'[r], inherited[r])
    BY <1>1, <1>9, <2>1, <2>2
  <2>8. \A u \in Threads : op'[u] = op[u] \/ op'[u] = Idle
    BY <1>2, <1>9, <2>1, <2>2
  <2>9. Idle.kind = "idle"
    BY DEF Idle
  <2> QED
    BY <1>1, <1>9, <2>1, <2>2, <2>5, <2>6, <2>7, <2>8, <2>9
<1>11. CASE \E p \in Paths : PrefetchFetches(p) \/ PrefetchStores(p) \/ SyncFetches(p) \/ SyncStores(p)
  <2>1. PICK p \in Paths : PrefetchFetches(p) \/ PrefetchStores(p) \/ SyncFetches(p) \/ SyncStores(p)
    BY <1>11
  <2>2. /\ UNCHANGED <<remote, op, late, inflight, dirty>>
        /\ \A r \in Paths \ {p} : cache'[r] = cache[r] /\ fill'[r] = fill[r]
    BY <1>2, <2>1 DEF PrefetchFetches, PrefetchStores, SyncFetches, SyncStores, queueVars
  <2>3. SUFFICES /\ Genuine(cache'[p], inherited[p])
                 /\ fill'[p].kind = "sync" => Original(fill'[p].data)
                 /\ fill'[p].kind = "prefetch" /\ fill'[p].pc = "store" =>
                      fill'[p].start <= Length(cache'[p]) /\ Fetched(fill'[p].start, fill'[p].data)
    BY <1>1, <2>2
  <2>4. NoFill.kind = "none"
    BY DEF NoFill
  <2>5. CASE PrefetchFetches(p)
    <3> DEFINE from == Length(cache[p])
               data == Part(remote[p], from, FileSize)
    <3>1. cache' = cache /\ from \in Nat /\ Fetched(from, data)
      BY <1>1, <1>2, <2>5, FileFacts, OriginalRead, Offsets DEF PrefetchFetches
    <3>2. \/ fill'[p] = NoFill
          \/ fill'[p] = [kind |-> "prefetch", pc |-> "store", start |-> from, data |-> data]
      BY <1>2, <2>5 DEF PrefetchFetches
    <3> HIDE DEF data
    <3> QED
      BY <1>1, <2>4, <3>1, <3>2
  <2>6. CASE PrefetchStores(p)
    <3> DEFINE d == fill[p].data
               s == fill[p].start
               chunk == <<Head(d)>>
               new == Overlay(cache[p], s, chunk)
    <3>1. /\ s \in Nat /\ d \in File /\ d # <<>> /\ s + Len(d) <= FileSize /\ s <= Length(cache[p])
          /\ fill[p] \in [kind : {"prefetch"}, pc : {"store"}, start : Nat, data : File]
          /\ Fetched(s, d) /\ cache[p] \in File \cup {Absent}
      BY <1>1, <1>2, <2>6, FillKinds DEF PrefetchStores, TypesInv
    <3>2. \/ /\ cache'[p] = new
             /\ fill'[p] = NoFill \/ fill'[p] = [fill[p] EXCEPT !.start = fill[p].start + 1, !.data = Tail(d)]
          \/ cache'[p] = cache[p] /\ fill'[p] = NoFill
      BY <1>2, <2>6 DEF PrefetchStores
    <3>3. [fill[p] EXCEPT !.start = fill[p].start + 1, !.data = Tail(d)].start = s + 1
          /\ [fill[p] EXCEPT !.start = fill[p].start + 1, !.data = Tail(d)].data = Tail(d)
          /\ [fill[p] EXCEPT !.start = fill[p].start + 1, !.data = Tail(d)].kind = "prefetch"
      BY <3>1
    <3> HIDE DEF d, s
    <3>4. /\ chunk \in File /\ Len(chunk) = 1 /\ chunk[1] = d[1]
          /\ Len(Tail(d)) = Len(d) - 1 /\ Len(d) > 0
          /\ \A i \in 1 .. Len(Tail(d)) : Tail(d)[i] = d[i + 1]
      BY <3>1, ChunkFile
    <3> HIDE DEF chunk
    <3>5. Len(d) \in Nat /\ Len(d) >= 1 /\ s < FileSize /\ s \in Bytes
      BY <3>1, <3>4, FileLen, Offsets
    <3>6. Fetched(s, chunk)
      <4> SUFFICES ASSUME NEW b \in Bytes, s <= b, b < s + 1 PROVE chunk[b - s + 1] = 1
        BY <3>4 DEF Fetched
      <4>1. b = s
        BY <3>1, Offsets
      <4>2. d[s - s + 1] = 1
        BY <3>1, <3>5 DEF Fetched
      <4>3. s - s + 1 = 1
        BY <3>1
      <4> QED
        BY <3>4, <4>1, <4>2, <4>3
    <3>7. Fetched(s + 1, Tail(d))
      <4> SUFFICES ASSUME NEW b \in Bytes, s + 1 <= b, b < s + 1 + Len(Tail(d)) PROVE Tail(d)[b - (s + 1) + 1] = 1
        BY DEF Fetched
      <4>1. b \in Nat /\ b - (s + 1) + 1 \in 1 .. Len(Tail(d)) /\ s <= b /\ b < s + Len(d)
            /\ b - (s + 1) + 1 + 1 = b - s + 1
        BY <3>1, <3>4, <3>5, Offsets
      <4>2. d[b - s + 1] = 1
        BY <3>1, <4>1 DEF Fetched
      <4> QED
        BY <3>4, <4>1, <4>2
    <3>8. s + Len(chunk) <= FileSize
      BY <3>1, <3>4, <3>5, Offsets
    <3>9. Genuine(new, inherited[p])
      BY <1>1, <3>1, <3>4, <3>6, <3>8, GenuineGrows
    <3>10. s + 1 <= Length(new)
      <4>1. /\ Length(cache[p]) <= Length(new) /\ Length(new) \in {Length(cache[p]), s + 1}
            /\ Length(cache[p]) \in Nat
        <5>1. Length(cache[p]) <= Length(new) /\ Length(new) \in {Length(cache[p]), s + Len(chunk)}
          BY <3>1, <3>4, <3>8, OverlayFile
        <5>2. Length(cache[p]) \in Nat
          BY <3>1, FileFacts, Offsets
        <5> HIDE DEF new
        <5> QED
          BY <3>4, <5>1, <5>2
      <4>2. Length(cache[p]) = s => ByteAt(new, s) = d[1] /\ d[1] = 1
        <5>1. \A b \in Bytes : ByteAt(new, b) = IF s <= b /\ b < s + Len(chunk) THEN chunk[b - s + 1]
                                                ELSE ByteAt(cache[p], b)
          BY <3>1, <3>4, <3>8, OverlayFile
        <5>2. s - s + 1 = 1 /\ s <= s /\ s < s + Len(chunk) /\ s < s + Len(d)
          BY <3>1, <3>4, <3>5, Offsets
        <5>3. d[s - s + 1] = 1
          BY <3>1, <3>5, <5>2 DEF Fetched
        <5> HIDE DEF new
        <5> QED
          BY <3>4, <3>5, <5>1, <5>2, <5>3
      <4>3. Length(new) = s => ByteAt(new, s) = 0
        BY <3>1 DEF ByteAt
      <4> HIDE DEF new
      <4> QED
        BY <3>1, <4>1, <4>2, <4>3
    <3>11. cache'[p] = cache[p] => Genuine(cache'[p], inherited[p])
      BY <1>1
    <3> HIDE DEF new
    <3> QED
      BY <2>4, <3>2, <3>3, <3>7, <3>9, <3>10, <3>11
  <2>7. CASE SyncFetches(p)
    <3>1. cache' = cache /\ fill'[p] = [kind |-> "sync", data |-> remote[p]]
      BY <1>2, <2>7 DEF SyncFetches
    <3> QED
      BY <1>1, <3>1
  <2>8. CASE SyncStores(p)
    <3>1. fill[p].kind = "sync" /\ fill'[p] = NoFill /\ cache'[p] \in {cache[p], fill[p].data}
      BY <1>2, <2>8 DEF SyncStores
    <3>2. Genuine(fill[p].data, inherited[p])
      BY <1>1, <3>1 DEF Original, Genuine
    <3> QED
      BY <1>1, <2>4, <3>1, <3>2
  <2> QED
    BY <2>1, <2>5, <2>6, <2>7, <2>8
<1> QED
  BY <1>3, <1>6, <1>8, <1>10, <1>11, ReadSteps

\* While a mount is only read, its reads and its downloads hold nothing but the
\* target's content, and its cache nothing but that and what it held before.
THEOREM ReadInvariant == Spec => []ReadInv
<1>1. ASSUME Init PROVE ReadInv
  <2>1. FileSize \in 0 .. FileSize /\ 1 \in Value
    BY Offsets DEF Value
  <2> DEFINE f == [i \in 1 .. FileSize |-> 1]
  <2>2. f \in File /\ Length(f) = FileSize
    <3>1. f \in [1 .. FileSize -> Value]
      BY <2>1
    <3> HIDE DEF f
    <3> QED
      BY <2>1, <3>1, FileMade, FileLen
  <2>3. Original(f)
    <3> SUFFICES ASSUME NEW b \in Bytes PROVE b < Length(f) => ByteAt(f, b) = 1
      BY DEF Original
    <3>1. b + 1 \in 1 .. FileSize
      BY Offsets
    <3> QED
      BY <2>2, <3>1 DEF ByteAt
  <2>4. ASSUME NEW g PROVE Genuine(g, g)
    BY DEF Genuine
  <2>5. \A p \in Paths : remote[p] = f /\ cache[p] = inherited[p] /\ fill[p] = NoFill /\ dirty[p] = {}
    BY <1>1 DEF Init, Queue!Init
  <2>6. inflight = {} /\ late = {} /\ \A t \in Threads : op[t] = Idle
    BY <1>1 DEF Init, Queue!Init
  <2>7. NoFill.kind = "none" /\ Idle.kind = "idle"
    BY DEF NoFill, Idle
  <2> HIDE DEF f
  <2> QED
    BY <2>2, <2>3, <2>4, <2>5, <2>6, <2>7 DEF ReadInv
<1>2. TypesInv /\ ReadInv /\ [Next]_vars => ReadInv'
  <2>1. ASSUME ReadInv, UNCHANGED vars PROVE ReadInv'
    BY <2>1 DEF ReadInv, OnlyRead, vars, queueVars
  <2> QED
    BY <2>1, ReadKept
<1> QED
  BY <1>1, <1>2, TypesInvariant, PTL DEF Spec

\* "read() trusts the cache file length as a valid prefix": whatever reads and
\* downloads of a file overlap, its cache file holds only bytes of the target
\* and bytes that it already held when the mount began.
THEOREM CacheIsPrefix == Spec => []CachedPrefixValid
<1>1. ASSUME TypesInv, ReadInv PROVE CachedPrefixValid
  <2> SUFFICES ASSUME NEW p \in Paths, OnlyRead, remote[p] # Absent, NEW b \in Bytes, b < Length(cache[p])
               PROVE  \/ ByteAt(cache[p], b) = ByteAt(remote[p], b)
                      \/ (b < Length(inherited[p]) /\ ByteAt(cache[p], b) = ByteAt(inherited[p], b))
    BY DEF CachedPrefixValid, OnlyRead
  <2>1. Genuine(cache[p], inherited[p]) /\ Original(remote[p]) /\ Length(remote[p]) = FileSize
    BY <1>1 DEF ReadInv
  <2>2. b < FileSize
    BY Offsets
  <2> QED
    BY <2>1, <2>2 DEF Original, Genuine
<1> QED
  BY <1>1, TypesInvariant, ReadInvariant, PTL

-----------------------------------------------------------------------------
\* Nothing is downloaded into the cache: no program reads through the mount
\* and the mirror made when it was mounted is complete.
NoDownloads == Allowed \cap {"read", "sync"} = {}

Changing == {"write", "setattr", "create", "unlink"}

\* The kernel lets one operation at a time change a file.
Exclusive ==
  \A t, u \in Threads :
    op[t].kind \in Changing /\ op[u].kind \in Changing /\ op[t].path = op[u].path => t = u

\* Nothing is downloaded, and a flush drains its own file.
UseInv ==
  /\ Exclusive
  /\ \A p \in Paths : fill[p] = NoFill
  /\ \A t \in Threads : op[t].kind # "read"
  /\ \A t \in Threads : op[t].kind = "flush" => op[t].pc = "draining" /\ drain[t].paths = {op[t].path}

\* How a thread's operation moves on.
WriteBegins(t, p, s, e) ==
  /\ WriteCache(t, p, s, e) \/ WriteDirect(t, p, s, e)
  /\ op'[t].kind = "write" /\ op'[t].path = p /\ op'[t].start = s /\ op'[t].end = e
  /\ op'[t].version = version + 1
  /\ op'[t].pc = "cached" => WriteCache(t, p, s, e)
  /\ op'[t].pc # "throttled"

WriteQueued(t) ==
  /\ WriteEnqueue(t)
  /\ op'[t].kind = "write" /\ op'[t].pc = "throttled"
  /\ op'[t].path = op[t].path /\ op'[t].start = op[t].start /\ op'[t].end = op[t].end
  /\ op'[t].version = op[t].version

DrainBegun(t, p, n) ==
  /\ Flush(t, p) \/ Unlink(t, p) \/ Create(t, p) \/ SetSize(t, p, n)
  /\ op'[t].kind \in {"flush", "setattr", "create", "unlink"}
  /\ op'[t].kind = "flush" => Flush(t, p)
  /\ op'[t].path = p /\ op'[t].pc = "draining"

RequestBegins(t) ==
  /\ DrainOver(t) /\ drain[t].status = "ok"
  /\ op[t].kind \in {"setattr", "create", "unlink"}
  /\ op'[t].kind = op[t].kind /\ op'[t].path = op[t].path /\ op'[t].size = op[t].size
  /\ op'[t].pc = "request"

OpStep(t) ==
  \/ op'[t] = Idle
  \/ \E p \in Paths, s \in Bytes, e \in 1 .. FileSize : WriteBegins(t, p, s, e)
  \/ WriteQueued(t)
  \/ \E p \in Paths, n \in 0 .. FileSize : DrainBegun(t, p, n)
  \/ RequestBegins(t)

\* A step moves at most one call, and along the call's own order.
LEMMA OpFlow ==
  ASSUME NoDownloads, TypesInv, UseInv, Next
  PROVE  \/ UNCHANGED op
         \/ \E t \in Threads : OpStep(t) /\ \A u \in Threads \ {t} : op'[u] = op[u]
<1>1. op \in [Threads -> {Idle} \cup WriteOps \cup DrainOps \cup ReadOps]
  BY DEF TypesInv, OpTypes
<1>2. ASSUME NEW t \in Threads, NEW p \in Paths, NEW s \in Bytes, NEW e \in 1 .. FileSize,
             WriteCache(t, p, s, e) \/ WriteDirect(t, p, s, e)
      PROVE  OpStep(t) /\ \A u \in Threads \ {t} : op'[u] = op[u]
  <2>1. PICK c : /\ op' = [op EXCEPT ![t] = [kind |-> "write", path |-> p, pc |-> c, start |-> s, end |-> e,
                                            version |-> version + 1]]
                 /\ (c = "cached" /\ WriteCache(t, p, s, e)) \/ c = "direct"
    BY <1>2 DEF WriteCache, WriteDirect
  <2>2. op'[t] = [kind |-> "write", path |-> p, pc |-> c, start |-> s, end |-> e, version |-> version + 1]
    BY <1>1, <2>1
  <2>3. WriteBegins(t, p, s, e)
    BY <1>2, <2>1, <2>2 DEF WriteBegins
  <2> QED
    BY <1>1, <2>1, <2>3 DEF OpStep
<1>3. ASSUME NEW t \in Threads, WriteEnqueue(t)
      PROVE  OpStep(t) /\ \A u \in Threads \ {t} : op'[u] = op[u]
  <2>1. op[t] \in WriteOps /\ op' = [op EXCEPT ![t] = [op[t] EXCEPT !.pc = "throttled"]]
    BY <1>3, OpKinds DEF WriteEnqueue, TypesInv
  <2>2. op'[t] = [op[t] EXCEPT !.pc = "throttled"]
    BY <1>1, <2>1
  <2>3. WriteQueued(t)
    BY <1>3, <2>1, <2>2 DEF WriteQueued, WriteOps
  <2> QED
    BY <1>1, <2>1, <2>3 DEF OpStep
<1>4. ASSUME NEW t \in Threads, op' = [op EXCEPT ![t] = Idle]
      PROVE  OpStep(t) /\ \A u \in Threads \ {t} : op'[u] = op[u]
  BY <1>1, <1>4 DEF OpStep
<1>5. ASSUME NEW t \in Threads, WriteReplies(t) \/ WriteDirectReplies(t) \/ RequestOver(t) \/ ReadStores(t)
      PROVE  OpStep(t) /\ \A u \in Threads \ {t} : op'[u] = op[u]
  BY <1>4, <1>5 DEF WriteReplies, WriteDirectReplies, RequestOver, ReadStores
<1>6. ASSUME NEW t \in Threads, NEW p \in Paths, NEW n \in 0 .. FileSize,
             Flush(t, p) \/ Unlink(t, p) \/ Create(t, p) \/ SetSize(t, p, n)
      PROVE  OpStep(t) /\ \A u \in Threads \ {t} : op'[u] = op[u]
  <2>1. PICK k, z :
          /\ k \in {"flush", "setattr", "create", "unlink"}
          /\ op' = [op EXCEPT ![t] = [kind |-> k, path |-> p, pc |-> "draining", size |-> z]]
          /\ k = "flush" => Flush(t, p)
    BY SMTT(20), <1>6 DEF Flush, Unlink, Create, SetSize, DrainFor
  <2>2. op'[t] = [kind |-> k, path |-> p, pc |-> "draining", size |-> z]
    BY <1>1, <2>1
  <2>3. DrainBegun(t, p, n)
    BY <1>6, <2>1, <2>2 DEF DrainBegun
  <2> QED
    BY <1>1, <2>1, <2>3 DEF OpStep
<1>7. ASSUME NEW t \in Threads, DrainOver(t)
      PROVE  OpStep(t) /\ \A u \in Threads \ {t} : op'[u] = op[u]
  <2>1. op[t] \in DrainOps
    BY <1>7, OpKinds DEF DrainOver, TypesInv
  <2>2. \/ /\ op' = [op EXCEPT ![t] = [op[t] EXCEPT !.pc = "request"]]
           /\ drain[t].status = "ok" /\ op[t].kind \in {"setattr", "create", "unlink"}
        \/ op' = [op EXCEPT ![t] = Idle]
    BY <1>7 DEF DrainOver
  <2>3. CASE op' = [op EXCEPT ![t] = Idle]
    BY <1>4, <2>3
  <2>4. CASE /\ op' = [op EXCEPT ![t] = [op[t] EXCEPT !.pc = "request"]]
             /\ drain[t].status = "ok" /\ op[t].kind \in {"setattr", "create", "unlink"}
    <3>1. op'[t] = [op[t] EXCEPT !.pc = "request"]
      BY <1>1, <2>4
    <3>2. RequestBegins(t)
      BY <1>7, <2>1, <2>4, <3>1 DEF RequestBegins, DrainOps
    <3> QED
      BY <1>1, <2>4, <3>2 DEF OpStep
  <2> QED
    BY <2>2, <2>3, <2>4
<1>8. ASSUME NEW t \in Threads, NEW p \in Paths, NEW s \in Bytes
      PROVE  ~ReadMiss(t, p, s)
  BY DEF ReadMiss, NoDownloads
<1>9. 0 \in 0 .. FileSize
  BY Offsets
<1>10. CASE \E t \in Threads : ThreadStep(t)
  <2>1. PICK t \in Threads : ThreadStep(t)
    BY <1>10
  <2>2. Draining(t) => UNCHANGED op
    BY DEF Draining
  <2> QED
    BY <1>2, <1>3, <1>5, <1>6, <1>7, <1>8, <1>9, <2>1, <2>2 DEF ThreadStep
<1>11. CASE OpsAlone
  BY <1>11, OpsStay
<1> QED
  BY <1>10, <1>11 DEF Next, OpsAlone

\* The drains of flushes keep their files.
LEMMA DrainsKept ==
  ASSUME TypesInv, UseInv, Next, NEW t \in Threads
  PROVE  \/ drain'[t].paths = drain[t].paths
         \/ \E p \in Paths, n \in 0 .. FileSize :
              /\ Flush(t, p) \/ Unlink(t, p) \/ Create(t, p) \/ SetSize(t, p, n)
              /\ drain'[t].paths = {p}
<1>1. drain \in [Threads -> Queue!Drain]
  BY QueueFacts DEF TypesInv
<1>2. ASSUME UNCHANGED drain PROVE drain'[t].paths = drain[t].paths
  BY <1>2
<1>3. ASSUME NEW u \in Threads, NEW p \in Paths, NEW n \in 0 .. FileSize,
             Flush(u, p) \/ Unlink(u, p) \/ Create(u, p) \/ SetSize(u, p, n)
      PROVE  IF u = t THEN drain'[t].paths = {p} ELSE drain'[t].paths = drain[t].paths
  <2>1. drain' = [drain EXCEPT ![u] = [status |-> "check", paths |-> {p}, start_errors |-> errors, lost |-> FALSE]]
    BY <1>3 DEF Flush, Unlink, Create, SetSize, DrainFor, Queue!DrainBegins
  <2> QED
    BY <1>1, <2>1
<1>4. ASSUME NEW u \in Threads, Draining(u)
      PROVE  drain'[t].paths = drain[t].paths
  <2>1. PICK st : drain' = [drain EXCEPT ![u] = [drain[u] EXCEPT !.status = st]]
    BY <1>4 DEF Draining, Queue!DrainChecks, Queue!DrainWakes, Queue!DrainTimesOut
  <2>2. [drain[u] EXCEPT !.status = st].paths = drain[u].paths
    BY <1>1 DEF Queue!Drain
  <2> QED
    BY <1>1, <2>1, <2>2
<1>5. ASSUME NEW q, NEW o, Queue!SendEnds(q, o)
      PROVE  drain'[t].paths = drain[t].paths
  BY <1>5, EndsMoves
<1>6. ASSUME NEW u \in Threads,
             \/ \E p \in Paths, s \in Bytes, e \in 1 .. FileSize : WriteCache(u, p, s, e) \/ WriteDirect(u, p, s, e)
             \/ WriteEnqueue(u) \/ WriteReplies(u) \/ WriteDirectReplies(u) \/ DrainOver(u) \/ RequestOver(u)
             \/ ReadStores(u)
             \/ \E p \in Paths, s \in Bytes : ReadMiss(u, p, s)
      PROVE  UNCHANGED drain
  BY ZenonT(30), <1>6 DEF WriteCache, WriteDirect, WriteEnqueue, WriteReplies, WriteDirectReplies, DrainOver,
              RequestOver, ReadStores, ReadMiss, queueVars, Queue!enqueue_upload, Queue!wait_below
<1>7. 0 \in 0 .. FileSize
  BY Offsets
<1>8. CASE \E u \in Threads : ThreadStep(u)
  <2>1. PICK u \in Threads : ThreadStep(u)
    BY <1>8
  <2> QED
    BY <1>2, <1>3, <1>4, <1>6, <1>7, <2>1 DEF ThreadStep
<1>9. CASE FlusherStep
  <2>1. CASE FlusherTakes \/ BackoffEnds \/ \E m \in sends : TargetWrites(m)
    BY <1>2, <2>1 DEF FlusherTakes, BackoffEnds, TargetWrites, Queue!FlusherTakes, Queue!clientVars,
                      Queue!BackoffEnds, queueVars
  <2>2. CASE \E q \in inflight : FlusherReads(q)
    BY <1>2, <1>5, <2>2 DEF FlusherReads, queueVars
  <2>3. CASE \E m \in sends : SendAnswered(m) \/ SendFails(m)
    BY <1>5, <2>3 DEF SendAnswered, SendFails
  <2> QED
    BY <1>9, <2>1, <2>2, <2>3 DEF FlusherStep
<1>10. CASE \/ \E m \in late : LateArrives(m)
            \/ \E p \in Paths : \/ TargetRemoves(p) \/ PrefetchFetches(p) \/ PrefetchStores(p)
                                \/ SyncFetches(p) \/ SyncStores(p)
  BY <1>2, <1>10, QueueAlone DEF queueVars
<1> QED
  BY <1>8, <1>9, <1>10 DEF Next

\* The way threads use the mount keeps the kernel's lock and the drains.
LEMMA UseKept ==
  ASSUME NoDownloads, TypesInv, UseInv, Next
  PROVE  UseInv'
<1>1. /\ Exclusive /\ \A p \in Paths : fill[p] = NoFill
      /\ \A t \in Threads : op[t].kind # "read"
      /\ \A t \in Threads : op[t].kind = "flush" => op[t].pc = "draining" /\ drain[t].paths = {op[t].path}
  BY DEF UseInv
<1>2. Idle.kind = "idle" /\ NoFill.kind = "none" /\ Idle.kind \notin Changing
  BY DEF Idle, NoFill, Changing
<1>3. ASSUME NEW t \in Threads, NEW p \in Paths, op'[t].kind \in Changing, op'[t].path = p, OpStep(t)
      PROVE  \/ op[t].kind \in Changing /\ op[t].path = p
             \/ Unlocked(p)
  <2>1. CASE op'[t] = Idle
    BY <1>2, <1>3, <2>1
  <2>2. CASE \E q \in Paths, s \in Bytes, e \in 1 .. FileSize : WriteBegins(t, q, s, e)
    BY <1>3, <2>2 DEF WriteBegins, WriteCache, WriteDirect
  <2>3. CASE WriteQueued(t)
    BY <1>3, <2>3 DEF WriteQueued, WriteEnqueue, Changing
  <2>4. CASE \E q \in Paths, n \in 0 .. FileSize : DrainBegun(t, q, n)
    <3>1. PICK q \in Paths, n \in 0 .. FileSize : DrainBegun(t, q, n)
      BY <2>4
    <3>2. q = p
      BY <1>3, <3>1 DEF DrainBegun
    <3>3. CASE Flush(t, q)
      <4>1. op' = [op EXCEPT ![t] = [kind |-> "flush", path |-> q, pc |-> "draining", size |-> 0]]
        BY <3>3 DEF Flush, DrainFor
      <4>2. op'[t].kind = "flush"
        BY <4>1 DEF TypesInv, OpTypes
      <4> QED
        BY <1>3, <4>2 DEF Changing
    <3>4. CASE Unlink(t, q) \/ Create(t, q) \/ SetSize(t, q, n)
      BY <3>2, <3>4 DEF Unlink, Create, SetSize
    <3> QED
      BY <3>1, <3>3, <3>4 DEF DrainBegun
  <2>5. CASE RequestBegins(t)
    BY <1>3, <2>5 DEF RequestBegins, Changing
  <2> QED
    BY <1>3, <2>1, <2>2, <2>3, <2>4, <2>5 DEF OpStep
<1>4. Exclusive'
  <2> SUFFICES ASSUME NEW t \in Threads, NEW u \in Threads, op'[t].kind \in Changing, op'[u].kind \in Changing,
                      op'[t].path = op'[u].path, t # u
               PROVE  FALSE
    BY DEF Exclusive
  <2>1. op[t] # op'[t] \/ op[u] # op'[u]
    BY <1>1 DEF Exclusive
  <2>2. PICK v \in Threads : OpStep(v) /\ \A w \in Threads \ {v} : op'[w] = op[w]
    BY <2>1, OpFlow
  <2>3. PICK w \in {t, u} \ {v} : op'[w] = op[w] /\ {t, u} = {v, w}
    BY <2>1, <2>2
  <2>4. op[w].kind \in Changing /\ op'[v].kind \in Changing /\ op'[v].path = op[w].path /\ v # w
    BY <2>3
  <2>5. op[w].path \in Paths
    BY <2>4, OpKinds DEF Changing, WriteOps, DrainOps, TypesInv
  <2>6. \/ op[v].kind \in Changing /\ op[v].path = op[w].path
        \/ Unlocked(op[w].path)
    BY <1>3, <2>2, <2>4, <2>5
  <2> QED
    BY <1>1, <2>3, <2>4, <2>6 DEF Exclusive, Unlocked, Changing
<1>5. \A p \in Paths : fill'[p] = NoFill
  <2>1. ASSUME NEW t \in Threads PROVE ~ReadStores(t)
    BY <1>1 DEF ReadStores
  <2>2. ASSUME NEW p \in Paths
        PROVE  ~PrefetchFetches(p) /\ ~PrefetchStores(p) /\ ~SyncFetches(p) /\ ~SyncStores(p)
    BY <1>1, <1>2 DEF PrefetchFetches, PrefetchStores, SyncFetches, SyncStores, NoDownloads
  <2>3. ASSUME NEW t \in Threads, ThreadStep(t)
        PROVE  UNCHANGED fill
    BY <2>1, <2>3 DEF ThreadStep, WriteCache, WriteDirect, WriteEnqueue, WriteReplies, WriteDirectReplies, Draining,
              DrainOver, Flush, Unlink, Create, SetSize, RequestOver, ReadMiss
  <2>4. ASSUME FlusherStep
        PROVE  UNCHANGED fill
    BY <2>4 DEF FlusherStep, FlusherTakes, BackoffEnds, FlusherReads, TargetWrites, SendAnswered, SendFails
  <2>5. UNCHANGED fill
    BY <2>2, <2>3, <2>4 DEF Next, LateArrives, TargetRemoves
  <2> QED
    BY <1>1, <2>5
<1>6. ASSUME NEW t \in Threads
      PROVE  op'[t].kind # "read"
  BY <1>1, <1>2, OpFlow DEF OpStep, WriteBegins, WriteQueued, DrainBegun, RequestBegins
<1>7. ASSUME NEW t \in Threads, op'[t].kind = "flush"
      PROVE  op'[t].pc = "draining" /\ drain'[t].paths = {op'[t].path}
  <2>1. CASE op'[t] = op[t]
    <3>1. ASSUME NEW p \in Paths, NEW n \in 0 .. FileSize,
                 Flush(t, p) \/ Unlink(t, p) \/ Create(t, p) \/ SetSize(t, p, n)
          PROVE  op[t].kind = "idle"
      BY <1>2, <3>1 DEF Flush, Unlink, Create, SetSize
    <3> QED
      BY <1>1, <1>7, <2>1, <3>1, DrainsKept
  <2>2. CASE op'[t] # op[t]
    <3>1. OpStep(t)
      BY <2>2, OpFlow
    <3>2. PICK p \in Paths, n \in 0 .. FileSize : DrainBegun(t, p, n)
      BY <1>2, <1>7, <3>1 DEF OpStep, WriteBegins, WriteQueued, RequestBegins
    <3>3. Flush(t, p) /\ op'[t].path = p /\ op'[t].pc = "draining"
      BY <1>7, <3>2 DEF DrainBegun
    <3>4. drain' = [drain EXCEPT ![t] = [status |-> "check", paths |-> {p}, start_errors |-> errors, lost |-> FALSE]]
      BY <3>3 DEF Flush, DrainFor, Queue!DrainBegins
    <3>5. drain \in [Threads -> Queue!Drain]
      BY QueueFacts DEF TypesInv
    <3> QED
      BY <3>3, <3>4, <3>5
  <2> QED
    BY <2>1, <2>2
<1> QED
  BY <1>4, <1>5, <1>6, <1>7 DEF UseInv

-----------------------------------------------------------------------------
\* Byte b of p in the cache file and in the target's file.
Cached(p, b) == ByteAt(cache[p], b)
OnTarget(p, b) == ByteAt(remote[p], b)

\* The request m carries byte b of p, and what it carries there.
Holds(m, p, b) == m.piece.path = p /\ b \in Queue!Payload(m.piece)
Carried(m, b) == m.data[b - m.piece.start + 1]

\* Some piece in flight has the byte.
InFlight(p, b) == \E q \in inflight : q.path = p /\ b \in Queue!Payload(q)

\* Thread t is writing the byte, or has asked the target to discard it.
Written(t, p, b) ==
  op[t].kind = "write" /\ op[t].path = p /\ b \in Queue!Interval(op[t].start, op[t].end)
Discarded(t, p, b) ==
  /\ op[t].kind \in {"setattr", "create", "unlink"} /\ op[t].pc = "request" /\ op[t].path = p
  /\ op[t].kind = "setattr" => b >= op[t].size

\* No copy of the byte is newer than write v.
Bound(p, b, v) ==
  /\ Cached(p, b) <= v /\ OnTarget(p, b) <= v /\ acked[p][b] <= v
  /\ \A m \in sends \cup late : Holds(m, p, b) => Carried(m, b) <= v

\* The cache has write v of the byte or a newer one, unless it is owed no more.
Held(p, b, v) == Cached(p, b) >= v \/ undone[p][b] >= v

\* Write v of the byte is on its way or on the target, unless owed no more: it
\* waits in the queue, or every send of the byte carries it and finds it on
\* the target once it was carried out, or nothing is in flight and it is there.
Owed(p, b, v) ==
  \/ undone[p][b] >= v
  \/ b \in dirty[p]
  \/ /\ InFlight(p, b)
     /\ \A m \in sends : Holds(m, p, b) =>
          Carried(m, b) >= v /\ (m.phase = "written" => OnTarget(p, b) >= v)
  \/ ~InFlight(p, b) /\ OnTarget(p, b) >= v

Safe(p, b, v) == Held(p, b, v) /\ Owed(p, b, v)

\* A write is newer than every copy of the bytes of its file, and so is what a
\* truncation or removal discards.
Newest(p, b) ==
  /\ Bound(p, b, version)
  /\ \A t \in Threads : op[t].kind = "write" /\ op[t].path = p =>
        op[t].version <= version /\ Bound(p, b, op[t].version)
  /\ \A t \in Threads : Discarded(t, p, b) => Bound(p, b, undone[p][b])

\* The cache is as new as the target, the queue and the requests.
Buffered(p, b) ==
  /\ OnTarget(p, b) <= 1 \/ Held(p, b, OnTarget(p, b))
  /\ b \in dirty[p] \/ InFlight(p, b) => Held(p, b, 1)
  /\ \A t \in Threads : Written(t, p, b) /\ op[t].pc = "cached" => Held(p, b, op[t].version)
  /\ \A m \in sends \cup late : Holds(m, p, b) => Held(p, b, Carried(m, b))

\* A request still to be carried out is as new as the target and as what an
\* abandoned request carries.
Ordered(p, b) ==
  /\ \A m \in sends : Holds(m, p, b) /\ m.phase = "sent" =>
       Carried(m, b) >= OnTarget(p, b) \/ undone[p][b] >= OnTarget(p, b)
  /\ \A m \in sends, n \in late : Holds(m, p, b) /\ Holds(n, p, b) =>
       Carried(m, b) >= Carried(n, b) \/ undone[p][b] >= Carried(n, b)

\* Nothing that was queued, reported done or waited for is lost.
Delivered(p, b) ==
  /\ Safe(p, b, acked[p][b])
  /\ \A t \in Threads : Written(t, p, b) /\ op[t].pc = "throttled" => Safe(p, b, op[t].version)
  /\ \A t \in Threads : op[t].kind = "flush" /\ op[t].path = p => Safe(p, b, floor[t][b])

DataInv ==
  \A p \in Paths, b \in Bytes : Newest(p, b) /\ Buffered(p, b) /\ Ordered(p, b) /\ Delivered(p, b)

\* All of these are numbers.
ByteTypes(p, b) ==
  /\ Cached(p, b) \in Nat /\ OnTarget(p, b) \in Nat /\ undone[p][b] \in Nat /\ acked[p][b] \in Nat
  /\ version \in Nat
  /\ \A m \in sends \cup late : Holds(m, p, b) => Carried(m, b) \in Nat
  /\ \A t \in Threads : op[t].kind = "write" => op[t].version \in Nat \ {0}
  /\ \A t \in Threads : floor[t][b] \in Nat

\* What is compared below are numbers, before a step and after it.
LEMMA ByteNumbers ==
  ASSUME NEW p \in Paths, NEW b \in Bytes
  PROVE  /\ TypesInv => ByteTypes(p, b)
         /\ TypesInv' => ByteTypes(p, b)'
<1>1. \A v \in Value : v \in Nat
  BY Offsets DEF Value
<1>2. \A m \in Requests : Holds(m, p, b) => Carried(m, b) \in Nat
  BY <1>1, RequestFacts DEF Holds, Carried
<1>3. \A f \in File \cup {Absent} : ByteAt(f, b) \in Nat
  BY FileFacts
<1>4. \A o \in {Idle} \cup WriteOps \cup DrainOps \cup ReadOps :
        o.kind = "write" => o.version \in Nat \ {0}
  BY DEF Idle, WriteOps, DrainOps, ReadOps
<1>5. ASSUME TypesInv PROVE ByteTypes(p, b)
  BY <1>1, <1>2, <1>3, <1>4, <1>5, Offsets
  DEF ByteTypes, TypesInv, FileTypes, SendTypes, HistoryTypes, OpTypes, Cached, OnTarget
<1>6. ASSUME TypesInv' PROVE ByteTypes(p, b)'
  BY <1>1, <1>2, <1>3, <1>4, <1>6, Offsets
  DEF ByteTypes, TypesInv, FileTypes, SendTypes, HistoryTypes, OpTypes, Cached, OnTarget
<1> QED
  BY <1>5, <1>6

\* What Forgive gives up.
LEMMA Forgiven ==
  ASSUME HistoryTypes, NEW p \in Paths, NEW b \in Bytes, NEW q \in Paths, NEW B, NEW v \in Nat, Forgive(q, B, v)
  PROVE  /\ undone'[p][b] >= undone[p][b]
         /\ q = p /\ b \in B => undone'[p][b] >= v
<1>1. undone \in [Paths -> [Bytes -> Value]] /\ undone[p][b] \in Nat
  BY Offsets DEF HistoryTypes, Value
<1>2. undone'[p][b] = IF q = p /\ b \in B /\ v > undone[p][b] THEN v ELSE undone[p][b]
  BY <1>1 DEF Forgive
<1> QED
  BY <1>1, <1>2

\* What is owed no more stays so, and what a refused send carried or what a
\* late request undid is among it.
LEMMA UndoneGrows ==
  ASSUME TypesInv, Next, NEW p \in Paths, NEW b \in Bytes
  PROVE  /\ undone'[p][b] >= undone[p][b]
         /\ \A m \in sends : SendAnswered(m) /\ m.phase = "refused" /\ Holds(m, p, b) =>
               undone'[p][b] >= Carried(m, b)
         /\ \A m \in late : LateArrives(m) /\ remote[p] # Absent /\ Holds(m, p, b) => undone'[p][b] >= OnTarget(p, b)
<1> USE DEF TypesInv
<1>1. undone[p][b] \in Nat /\ version \in Nat /\ OnTarget(p, b) \in Nat
      /\ \A m \in sends \cup late : Holds(m, p, b) => Carried(m, b) \in Nat
  BY ByteNumbers DEF ByteTypes
<1>2. undone \in [Paths -> [Bytes -> Value]]
  BY DEF HistoryTypes
<1>3. ASSUME UNCHANGED undone PROVE undone'[p][b] >= undone[p][b]
  BY <1>1, <1>3
<1>4. ASSUME NEW t \in Threads, WriteDirectReplies(t)
      PROVE  undone'[p][b] >= undone[p][b]
  <2>1. op[t].path \in Paths /\ op[t].version \in Nat
    BY <1>4, OpKinds, Offsets DEF WriteDirectReplies, WriteOps
  <2> QED
    BY <1>4, <2>1, Forgiven DEF WriteDirectReplies
<1>5. ASSUME NEW q \in Paths, TargetRemoves(q) \/ \E t \in Threads : Create(t, q)
      PROVE  undone'[p][b] >= undone[p][b]
  BY <1>1, <1>5, Forgiven DEF TargetRemoves, Create
<1>6. ASSUME NEW t \in Threads, DrainOver(t)
      PROVE  undone'[p][b] >= undone[p][b]
  <2>1. op[t].path \in Paths
    BY <1>6, OpKinds DEF DrainOver, DrainOps
  <2>2. \/ undone' = undone
        \/ Forgive(op[t].path, {c \in Bytes : op[t].kind # "setattr" \/ c >= op[t].size}, version)
    BY <1>6 DEF DrainOver
  <2> QED
    BY <1>1, <1>3, <2>1, <2>2, Forgiven
<1>7. ASSUME NEW m \in sends, SendAnswered(m)
      PROVE  /\ undone'[p][b] >= undone[p][b]
             /\ m.phase = "refused" /\ Holds(m, p, b) => undone'[p][b] >= Carried(m, b)
  <2>1. CASE m.phase = "written"
    BY <1>3, <1>7, <2>1 DEF SendAnswered
  <2>2. CASE m.phase # "written"
    <3>1. undone'[p][b] = IF Holds(m, p, b) /\ Carried(m, b) > undone[p][b] THEN Carried(m, b) ELSE undone[p][b]
      BY <1>2, <1>7, <2>2 DEF SendAnswered, Holds, Carried
    <3> QED
      BY <1>1, <3>1
  <2> QED
    BY <2>1, <2>2
<1>8. ASSUME NEW m \in late, LateArrives(m)
      PROVE  /\ undone'[p][b] >= undone[p][b]
             /\ remote[p] # Absent /\ Holds(m, p, b) => undone'[p][b] >= OnTarget(p, b)
  <2>1. CASE remote[m.piece.path] = Absent
    BY <1>3, <1>8, <2>1 DEF LateArrives, Holds
  <2>2. CASE remote[m.piece.path] # Absent
    <3>1. undone'[p][b] = IF Holds(m, p, b) /\ OnTarget(p, b) > undone[p][b] THEN OnTarget(p, b) ELSE undone[p][b]
      BY <1>2, <1>8, <2>2 DEF LateArrives, Holds, OnTarget
    <3> QED
      BY <1>1, <3>1
  <2> QED
    BY <2>1, <2>2
<1>9. ASSUME NEW t \in Threads,
             \/ \E q \in Paths, s \in Bytes, e \in 1 .. FileSize : WriteCache(t, q, s, e) \/ WriteDirect(t, q, s, e)
             \/ WriteEnqueue(t) \/ WriteReplies(t) \/ Draining(t) \/ RequestOver(t) \/ ReadStores(t)
             \/ \E q \in Paths : Flush(t, q) \/ Unlink(t, q)
             \/ \E q \in Paths, n \in 0 .. FileSize : SetSize(t, q, n)
             \/ \E q \in Paths, s \in Bytes : ReadMiss(t, q, s)
      PROVE  UNCHANGED undone
  BY <1>9 DEF WriteCache, WriteDirect, WriteEnqueue, WriteReplies, Draining, RequestOver, ReadStores,
              Flush, Unlink, SetSize, ReadMiss
<1>10. CASE \E t \in Threads : ThreadStep(t)
  <2>1. undone'[p][b] >= undone[p][b]
    BY <1>3, <1>4, <1>5, <1>6, <1>9, <1>10 DEF ThreadStep
  <2> QED
    BY <1>7, <1>8, <2>1
<1>11. ASSUME \/ FlusherTakes \/ BackoffEnds
              \/ \E q \in inflight : FlusherReads(q)
              \/ \E m \in sends : TargetWrites(m) \/ SendFails(m)
              \/ \E q \in Paths : PrefetchFetches(q) \/ PrefetchStores(q) \/ SyncFetches(q) \/ SyncStores(q)
       PROVE  UNCHANGED undone
  BY <1>11 DEF FlusherTakes, BackoffEnds, FlusherReads, TargetWrites, SendFails, PrefetchFetches,
               PrefetchStores, SyncFetches, SyncStores
<1>12. undone'[p][b] >= undone[p][b]
  BY <1>3, <1>5, <1>7, <1>8, <1>10, <1>11 DEF Next, FlusherStep
<1> QED
  BY <1>7, <1>8, <1>12

-----------------------------------------------------------------------------
\* A byte of the cache changes by a new write of it, or it becomes a hole and
\* what it held is owed no more.
CacheStep(p, b) ==
  \/ Cached(p, b)' = Cached(p, b)
  \/ /\ \E t \in Threads, s \in Bytes, e \in 1 .. FileSize :
          WriteCache(t, p, s, e) /\ b \in Queue!Interval(s, e)
     /\ Cached(p, b)' = version + 1
  \/ Cached(p, b)' = 0 /\ undone'[p][b] >= Cached(p, b)

\* A cached byte changes only in those ways; a write that has the byte stores its number.
LEMMA CacheSteps ==
  ASSUME NoDownloads, TypesInv, UseInv, DataInv, Next, NEW p \in Paths, NEW b \in Bytes
  PROVE  /\ CacheStep(p, b)
         /\ \A t \in Threads, s \in Bytes, e \in 1 .. FileSize :
              WriteCache(t, p, s, e) /\ b \in Queue!Interval(s, e) => Cached(p, b)' = version + 1
<1> USE DEF TypesInv
<1>1. cache \in [Paths -> File \cup {Absent}] /\ HistoryTypes
  BY DEF FileTypes
<1>2. /\ Cached(p, b) \in Nat /\ undone[p][b] \in Nat /\ version \in Nat
      /\ undone'[p][b] >= undone[p][b]
  BY ByteNumbers, UndoneGrows DEF ByteTypes
<1>3. undone'[p][b] \in Nat
  BY TypesKept, ByteNumbers DEF ByteTypes
<1>4. Cached(p, b) <= version /\ \A t \in Threads : Discarded(t, p, b) => Cached(p, b) <= undone[p][b]
  BY DEF DataInv, Newest, Bound
<1>5. ASSUME NEW q \in Paths, NEW f, cache' = [cache EXCEPT ![q] = f]
      PROVE  Cached(p, b)' = IF q = p THEN ByteAt(f, b) ELSE Cached(p, b)
  BY <1>1, <1>5 DEF Cached
<1>6. ASSUME UNCHANGED cache PROVE Cached(p, b)' = Cached(p, b)
  BY <1>6 DEF Cached
<1>7. ASSUME NEW t \in Threads, NEW q \in Paths, NEW s \in Bytes, NEW e \in 1 .. FileSize, WriteCache(t, q, s, e)
      PROVE  Cached(p, b)' = IF q = p /\ b \in Queue!Interval(s, e) THEN version + 1 ELSE Cached(p, b)
  <2> DEFINE d == Stored(s, e, version + 1)
  <2>1. s < e /\ version + 1 \in Value /\ cache[q] \in File \cup {Absent}
    BY <1>1, <1>7, Offsets DEF WriteCache, HistoryTypes, Value
  <2>2. cache' = [cache EXCEPT ![q] = Overlay(cache[q], s, d)]
    BY <1>7 DEF WriteCache, Stored
  <2>3. /\ d \in File /\ s \in Nat /\ s + Len(d) <= FileSize
        /\ (s <= b /\ b < s + Len(d)) <=> b \in Queue!Interval(s, e)
        /\ b \in Queue!Interval(s, e) => d[b - s + 1] = version + 1
    BY SMTT(20), <2>1, StoredFile
  <2> HIDE DEF d
  <2>4. ByteAt(Overlay(cache[q], s, d), b) = IF s <= b /\ b < s + Len(d) THEN d[b - s + 1] ELSE ByteAt(cache[q], b)
    BY <2>1, <2>3, OverlayFile
  <2> QED
    BY <1>5, <2>2, <2>3, <2>4 DEF Cached
<1>8. ASSUME NEW t \in Threads, NEW q \in Paths, Create(t, q)
      PROVE  CacheStep(p, b)
  <2>1. cache' = [cache EXCEPT ![q] = <<>>] /\ Forgive(q, Bytes, version)
    BY <1>8 DEF Create
  <2>2. q = p => undone'[p][b] >= version
    BY <1>1, <1>2, <2>1, Forgiven
  <2>3. Cached(p, b)' = IF q = p THEN 0 ELSE Cached(p, b)
    BY <1>5, <2>1, EmptyFile
  <2> QED
    BY <1>2, <1>3, <1>4, <2>2, <2>3 DEF CacheStep
<1>9. ASSUME NEW t \in Threads, DrainOver(t)
      PROVE  CacheStep(p, b)
  <2>1. op[t].path \in Paths
    BY <1>9, OpKinds DEF DrainOver, DrainOps
  <2>2. \/ UNCHANGED cache
        \/ cache' = [cache EXCEPT ![op[t].path] = Absent] /\ Forgive(op[t].path, Bytes, version)
    <3>1. op[t].kind = "unlink" => {c \in Bytes : op[t].kind # "setattr" \/ c >= op[t].size} = Bytes
      OBVIOUS
    <3> QED
      BY <1>9, <3>1 DEF DrainOver
  <2>3. Forgive(op[t].path, Bytes, version) /\ op[t].path = p => undone'[p][b] >= version
    BY <1>1, <1>2, <2>1, Forgiven
  <2> QED
    BY <1>2, <1>3, <1>4, <1>5, <1>6, <2>1, <2>2, <2>3, EmptyFile DEF CacheStep
<1>10. ASSUME NEW t \in Threads, RequestOver(t)
       PROVE  CacheStep(p, b)
  <2>1. op[t].path \in Paths /\ op[t].size \in 0 .. FileSize /\ cache[op[t].path] \in File \cup {Absent}
    BY <1>1, <1>10, OpKinds DEF RequestOver, DrainOps
  <2>2. \/ UNCHANGED cache
        \/ /\ cache' = [cache EXCEPT ![op[t].path] = Resize(cache[op[t].path], op[t].size)]
           /\ op[t].kind = "setattr" /\ op[t].pc = "request"
    BY <1>10 DEF RequestOver
  <2>3. ByteAt(Resize(cache[op[t].path], op[t].size), b) = IF b < op[t].size THEN ByteAt(cache[op[t].path], b) ELSE 0
    BY <2>1, ResizeFile
  <2>4. op[t].path = p /\ op[t].kind = "setattr" /\ op[t].pc = "request" /\ ~(b < op[t].size) => Discarded(t, p, b)
    BY <2>1, Offsets DEF Discarded
  <2> QED
    BY <1>2, <1>3, <1>4, <1>5, <1>6, <2>1, <2>2, <2>3, <2>4 DEF CacheStep, Cached
<1>11. ASSUME NEW t \in Threads,
              \/ \E q \in Paths, s \in Bytes, e \in 1 .. FileSize : WriteDirect(t, q, s, e)
              \/ WriteEnqueue(t) \/ WriteReplies(t) \/ WriteDirectReplies(t) \/ Draining(t)
              \/ \E q \in Paths : Flush(t, q) \/ Unlink(t, q)
              \/ \E q \in Paths, n \in 0 .. FileSize : SetSize(t, q, n)
              \/ \E q \in Paths, s \in Bytes : ReadMiss(t, q, s)
       PROVE  UNCHANGED cache
  BY <1>11 DEF WriteDirect, WriteEnqueue, WriteReplies, WriteDirectReplies, Flush, Unlink, SetSize, Draining, ReadMiss
<1>12. \A t \in Threads : ~ReadStores(t)
  BY DEF ReadStores, UseInv
<1>13. CASE \E t \in Threads : ThreadStep(t)
  <2>1. CASE \E t \in Threads, q \in Paths, s \in Bytes, e \in 1 .. FileSize : WriteCache(t, q, s, e)
    BY <1>7, <2>1 DEF CacheStep
  <2> QED
    BY <1>6, <1>7, <1>8, <1>9, <1>10, <1>11, <1>12, <1>13, <2>1 DEF ThreadStep, CacheStep
<1>14. ASSUME FlusherStep
       PROVE  UNCHANGED cache
  BY <1>14 DEF FlusherStep, FlusherTakes, BackoffEnds, FlusherReads, TargetWrites, SendAnswered, SendFails
<1>15. ASSUME \/ \E m \in late : LateArrives(m)
              \/ \E q \in Paths : TargetRemoves(q) \/ PrefetchFetches(q) \/ SyncFetches(q)
       PROVE  UNCHANGED cache
  BY <1>15 DEF LateArrives, TargetRemoves, PrefetchFetches, SyncFetches
<1>16. \A q \in Paths : ~PrefetchStores(q) /\ ~SyncStores(q)
  BY DEF PrefetchStores, SyncStores, UseInv, NoFill
<1>17. CacheStep(p, b)
  BY <1>6, <1>13, <1>14, <1>15, <1>16 DEF Next, CacheStep
<1> QED
  BY <1>7, <1>17

\* A byte of the target's file changes by the request that carries it, or what
\* it held is owed no more; then it becomes a hole, what an abandoned request
\* carries, or what went past the cache.
TargetStep(p, b) ==
  \/ OnTarget(p, b)' = OnTarget(p, b)
  \/ \E m \in sends : m.phase = "sent" /\ Holds(m, p, b) /\ OnTarget(p, b)' = Carried(m, b)
  \/ /\ undone'[p][b] >= OnTarget(p, b)
     /\ \/ OnTarget(p, b)' = 0
        \/ \E m \in late : Holds(m, p, b) /\ OnTarget(p, b)' = Carried(m, b)
        \/ \E t \in Threads : /\ Written(t, p, b) /\ OnTarget(p, b)' = op[t].version
                              /\ undone'[p][b] >= op[t].version

\* The target's byte changes only in those ways; a request that is carried out stores what it carries.
LEMMA TargetSteps ==
  ASSUME TypesInv, DataInv, Next, NEW p \in Paths, NEW b \in Bytes
  PROVE  /\ TargetStep(p, b)
         /\ \A m \in sends : TargetWrites(m) /\ remote[m.piece.path] # Absent /\ Holds(m, p, b) =>
              OnTarget(p, b)' = Carried(m, b)
<1> USE DEF TypesInv
<1>1. remote \in [Paths -> File \cup {Absent}] /\ HistoryTypes
  BY DEF FileTypes
<1>2. /\ OnTarget(p, b) \in Nat /\ undone[p][b] \in Nat /\ version \in Nat
      /\ undone'[p][b] >= undone[p][b]
  BY ByteNumbers, UndoneGrows DEF ByteTypes
<1>3. undone'[p][b] \in Nat
  BY TypesKept, ByteNumbers DEF ByteTypes
<1>4. /\ OnTarget(p, b) <= version
      /\ \A t \in Threads : Discarded(t, p, b) => OnTarget(p, b) <= undone[p][b]
      /\ \A t \in Threads : op[t].kind = "write" /\ op[t].path = p => OnTarget(p, b) <= op[t].version
  BY DEF DataInv, Newest, Bound
<1>5. ASSUME NEW q \in Paths, NEW f, remote' = [remote EXCEPT ![q] = f]
      PROVE  OnTarget(p, b)' = IF q = p THEN ByteAt(f, b) ELSE OnTarget(p, b)
  BY <1>1, <1>5 DEF OnTarget
<1>6. ASSUME UNCHANGED remote PROVE TargetStep(p, b) /\ OnTarget(p, b)' = OnTarget(p, b)
  BY <1>6 DEF OnTarget, TargetStep
<1>7. ASSUME NEW t \in Threads, WriteDirectReplies(t)
      PROVE  TargetStep(p, b)
  <2> DEFINE o == op[t]
             d == Stored(o.start, o.end, o.version)
  <2>1. /\ o.path \in Paths /\ o.start \in Bytes /\ o.end \in 1 .. FileSize /\ o.start < o.end
        /\ o.version \in Value /\ o.version \in Nat /\ remote[o.path] \in File \cup {Absent} /\ o.kind = "write"
    BY <1>1, <1>7, OpKinds, Offsets DEF WriteDirectReplies, WriteOps, Value
  <2>2. \/ UNCHANGED remote
        \/ remote' = [remote EXCEPT ![o.path] = Overlay(remote[o.path], o.start, d)]
    BY <1>7 DEF WriteDirectReplies, Stored
  <2>3. Forgive(o.path, Queue!Interval(o.start, o.end), o.version)
    BY <1>7 DEF WriteDirectReplies
  <2>4. Written(t, p, b) <=> o.path = p /\ b \in Queue!Interval(o.start, o.end)
    BY <2>1 DEF Written
  <2>5. o.path = p => OnTarget(p, b) <= o.version
    BY <1>4, <2>1
  <2> HIDE DEF o
  <2>6. o.path = p /\ b \in Queue!Interval(o.start, o.end) => undone'[p][b] >= o.version
    BY <1>1, <2>1, <2>3, Forgiven
  <2>7. /\ d \in File /\ o.start \in Nat /\ o.start + Len(d) <= FileSize
        /\ (o.start <= b /\ b < o.start + Len(d)) <=> b \in Queue!Interval(o.start, o.end)
        /\ b \in Queue!Interval(o.start, o.end) => d[b - o.start + 1] = o.version
    <3>1. ASSUME NEW s \in Bytes, NEW e \in 1 .. FileSize, s < e, NEW v \in Value
          PROVE  /\ Stored(s, e, v) \in File /\ s \in Nat /\ s + Len(Stored(s, e, v)) <= FileSize
                 /\ (s <= b /\ b < s + Len(Stored(s, e, v))) <=> b \in Queue!Interval(s, e)
                 /\ b \in Queue!Interval(s, e) => Stored(s, e, v)[b - s + 1] = v
      BY <3>1, StoredFile
    <3> QED
      BY <2>1, <3>1
  <2> HIDE DEF d
  <2>8. ByteAt(Overlay(remote[o.path], o.start, d), b) =
          IF o.start <= b /\ b < o.start + Len(d) THEN d[b - o.start + 1] ELSE ByteAt(remote[o.path], b)
    BY <2>1, <2>7, OverlayFile
  <2>9. CASE UNCHANGED remote
    BY <1>6, <2>9 DEF TargetStep
  <2>10. CASE remote' = [remote EXCEPT ![o.path] = Overlay(remote[o.path], o.start, d)]
    <3>1. OnTarget(p, b)' = IF Written(t, p, b) THEN o.version ELSE OnTarget(p, b)
      BY <1>5, <2>1, <2>4, <2>7, <2>8, <2>10 DEF OnTarget
    <3>2. Written(t, p, b) => undone'[p][b] >= o.version /\ undone'[p][b] >= OnTarget(p, b)
      BY <1>2, <1>3, <2>1, <2>4, <2>5, <2>6
    <3> QED
      BY <3>1, <3>2 DEF TargetStep, o
  <2> QED
    BY <2>2, <2>9, <2>10
<1>8. ASSUME NEW t \in Threads, RequestOver(t)
      PROVE  TargetStep(p, b)
  <2>1. /\ op[t].path \in Paths /\ op[t].size \in 0 .. FileSize
        /\ remote[op[t].path] \in File \cup {Absent} /\ op[t].kind \in {"setattr", "create", "unlink"}
        /\ op[t].pc = "request"
    BY <1>1, <1>8, OpKinds DEF RequestOver, DrainOps
  <2>2. UNCHANGED remote \/ remote' = [remote EXCEPT ![op[t].path] = Requested(op[t], remote[op[t].path])]
    BY <1>8 DEF RequestOver
  <2>3. ByteAt(Resize(remote[op[t].path], op[t].size), b) =
          IF b < op[t].size THEN ByteAt(remote[op[t].path], b) ELSE 0
    BY <2>1, ResizeFile
  <2>4. \/ ByteAt(Requested(op[t], remote[op[t].path]), b) = ByteAt(remote[op[t].path], b)
        \/ /\ ByteAt(Requested(op[t], remote[op[t].path]), b) = 0
           /\ op[t].kind = "setattr" => ~(b < op[t].size)
    BY <2>1, <2>3, EmptyFile DEF Requested
  <2>5. op[t].path = p /\ (op[t].kind = "setattr" => ~(b < op[t].size)) => Discarded(t, p, b)
    BY <2>1, Offsets DEF Discarded
  <2> QED
    BY <1>2, <1>3, <1>4, <1>5, <1>6, <2>1, <2>2, <2>4, <2>5 DEF TargetStep, OnTarget
<1>9. ASSUME NEW m \in sends \cup late, TargetWrites(m) \/ LateArrives(m)
      PROVE  OnTarget(p, b)' =
                IF remote[m.piece.path] # Absent /\ Holds(m, p, b) THEN Carried(m, b) ELSE OnTarget(p, b)
  <2>1. m \in Requests
    BY DEF SendTypes
  <2>2. /\ m.piece.path \in Paths /\ m.piece.start \in Nat /\ m.data \in File
        /\ m.piece.start + Len(m.data) <= FileSize /\ remote[m.piece.path] \in File \cup {Absent}
        /\ b \in Queue!Payload(m.piece) <=> m.piece.start <= b /\ b < m.piece.start + Len(m.data)
    BY <1>1, <2>1, RequestFacts
  <2>3. IF remote[m.piece.path] = Absent THEN UNCHANGED remote
        ELSE remote' = [remote EXCEPT ![m.piece.path] = Overlay(remote[m.piece.path], m.piece.start, m.data)]
    BY <1>9 DEF TargetWrites, LateArrives
  <2>4. ByteAt(Overlay(remote[m.piece.path], m.piece.start, m.data), b) =
          IF b \in Queue!Payload(m.piece) THEN Carried(m, b) ELSE ByteAt(remote[m.piece.path], b)
    BY <2>2, OverlayFile DEF Carried
  <2> QED
    BY <1>5, <1>6, <2>2, <2>3, <2>4 DEF OnTarget, Holds
<1>10. ASSUME NEW m \in sends, TargetWrites(m)
       PROVE  TargetStep(p, b)
  BY <1>9, <1>10 DEF TargetStep, TargetWrites
<1>11. ASSUME NEW m \in late, LateArrives(m)
       PROVE  TargetStep(p, b)
  <2>1. remote[m.piece.path] # Absent /\ Holds(m, p, b) => undone'[p][b] >= OnTarget(p, b)
    BY <1>11, UndoneGrows DEF Holds
  <2> QED
    BY <1>9, <1>11, <2>1 DEF TargetStep
<1>12. ASSUME NEW q \in Paths, TargetRemoves(q)
       PROVE  TargetStep(p, b)
  <2>1. remote' = [remote EXCEPT ![q] = Absent] /\ Forgive(q, Bytes, version)
    BY <1>12 DEF TargetRemoves
  <2>2. q = p => undone'[p][b] >= version
    BY <1>1, <1>2, <2>1, Forgiven
  <2>3. OnTarget(p, b)' = IF q = p THEN 0 ELSE OnTarget(p, b)
    BY <1>5, <2>1, EmptyFile
  <2> QED
    BY <1>2, <1>3, <1>4, <2>2, <2>3 DEF TargetStep
<1>13. ASSUME NEW t \in Threads,
             \/ \E q \in Paths, s \in Bytes, e \in 1 .. FileSize : WriteCache(t, q, s, e) \/ WriteDirect(t, q, s, e)
             \/ WriteEnqueue(t) \/ WriteReplies(t) \/ Draining(t) \/ DrainOver(t) \/ ReadStores(t)
             \/ \E q \in Paths : Flush(t, q) \/ Unlink(t, q) \/ Create(t, q)
             \/ \E q \in Paths, n \in 0 .. FileSize : SetSize(t, q, n)
             \/ \E q \in Paths, s \in Bytes : ReadMiss(t, q, s)
      PROVE  UNCHANGED remote
  BY <1>13 DEF WriteCache, WriteDirect, WriteEnqueue, WriteReplies, Draining, DrainOver, ReadStores,
               Flush, Unlink, Create, SetSize, ReadMiss
<1>14. ASSUME NEW t \in Threads, ThreadStep(t)
       PROVE  TargetStep(p, b)
  BY <1>6, <1>7, <1>8, <1>13, <1>14 DEF ThreadStep
<1>15. ASSUME \/ FlusherTakes \/ BackoffEnds
              \/ \E q \in inflight : FlusherReads(q)
              \/ \E m \in sends : SendAnswered(m) \/ SendFails(m)
              \/ \E q \in Paths : PrefetchFetches(q) \/ PrefetchStores(q) \/ SyncFetches(q) \/ SyncStores(q)
       PROVE  UNCHANGED remote
  BY <1>15 DEF FlusherTakes, BackoffEnds, FlusherReads, SendAnswered, SendFails, PrefetchFetches,
               PrefetchStores, SyncFetches, SyncStores
<1>16. TargetStep(p, b)
  BY <1>6, <1>10, <1>11, <1>12, <1>14, <1>15 DEF Next, FlusherStep
<1> QED
  BY <1>9, <1>16

-----------------------------------------------------------------------------
\* What is reported done of a byte changes when the write of it replies.
LEMMA AckedSteps ==
  ASSUME TypesInv, Next, NEW p \in Paths, NEW b \in Bytes
  PROVE  \/ acked'[p][b] = acked[p][b]
         \/ \E t \in Threads : /\ Written(t, p, b) /\ acked'[p][b] = op[t].version
                               /\ op[t].pc = "throttled" \/ undone'[p][b] >= op[t].version
<1> USE DEF TypesInv
<1> DEFINE Goal == \/ acked'[p][b] = acked[p][b]
                   \/ \E t \in Threads : /\ Written(t, p, b) /\ acked'[p][b] = op[t].version
                                         /\ op[t].pc = "throttled" \/ undone'[p][b] >= op[t].version
<1>1. ASSUME NEW t \in Threads, WriteReplies(t) \/ WriteDirectReplies(t)
      PROVE  Goal
  <2>1. op[t] \in WriteOps /\ op[t].kind = "write"
    BY <1>1, OpKinds DEF WriteReplies, WriteDirectReplies
  <2>2. op[t].path \in Paths /\ op[t].version \in Nat
    BY <2>1, Offsets DEF WriteOps
  <2>3. Reported(t)
    BY <1>1 DEF WriteReplies, WriteDirectReplies
  <2>4. acked \in [Paths -> [Bytes -> Value]]
    BY DEF HistoryTypes
  <2>5. acked'[p][b] = IF Written(t, p, b) THEN op[t].version ELSE acked[p][b]
    BY <2>1, <2>2, <2>3, <2>4 DEF Reported, Written
  <2>6. op[t].pc = "throttled" \/ Forgive(op[t].path, Queue!Interval(op[t].start, op[t].end), op[t].version)
    BY <1>1 DEF WriteReplies, WriteDirectReplies
  <2>7. op[t].pc = "throttled" \/ (Written(t, p, b) => undone'[p][b] >= op[t].version)
    BY <2>2, <2>6, Forgiven DEF Written
  <2> QED
    BY <2>5, <2>7
<1>2. ASSUME NEW t \in Threads,
             \/ \E q \in Paths, s \in Bytes, e \in 1 .. FileSize : WriteCache(t, q, s, e) \/ WriteDirect(t, q, s, e)
             \/ WriteEnqueue(t) \/ DrainOver(t) \/ RequestOver(t) \/ ReadStores(t) \/ Draining(t)
             \/ \E q \in Paths : Flush(t, q) \/ Unlink(t, q) \/ Create(t, q)
             \/ \E q \in Paths, n \in 0 .. FileSize : SetSize(t, q, n)
             \/ \E q \in Paths, s \in Bytes : ReadMiss(t, q, s)
      PROVE  UNCHANGED acked
  BY <1>2 DEF WriteCache, WriteDirect, WriteEnqueue, DrainOver, RequestOver, ReadStores, Draining, Flush, Unlink,
              Create, SetSize, ReadMiss
<1>3. ASSUME UNCHANGED acked PROVE Goal
  BY <1>3
<1>4. ASSUME NEW t \in Threads, ThreadStep(t)
      PROVE  Goal
  <2> HIDE DEF Goal
  <2> QED
    BY <1>1, <1>2, <1>3, <1>4 DEF ThreadStep
<1>5. OpsAlone => UNCHANGED acked
  BY OpsStay
<1>6. Goal
  <2> HIDE DEF Goal
  <2> QED
    BY <1>3, <1>4, <1>5 DEF Next, OpsAlone
<1> QED
  BY <1>6

\* Where a request for the byte comes from: it was there, or the target has
\* carried it out, or it was read from the cache for a piece without request.
SendStep(m, p, b) ==
  \/ m \in sends
  \/ \E n \in sends : /\ n.phase = "sent" /\ n.piece = m.piece /\ Carried(n, b) = Carried(m, b)
                      /\ m.phase # "sent"
                      /\ m.phase = "written" => OnTarget(p, b)' = Carried(m, b)
  \/ /\ m.piece \in inflight /\ \A n \in sends : n.piece # m.piece
     /\ m.phase = "sent" /\ Carried(m, b) = Cached(p, b)
     /\ UNCHANGED <<cache, remote>>

\* A request after a step is one from before it, or is new with what the cache has now;
\* a late request was late already or was given up just now.
LEMMA SendSteps ==
  ASSUME TypesInv, DataInv, Next, NEW p \in Paths, NEW b \in Bytes
  PROVE  /\ \A m \in sends' : Holds(m, p, b) => SendStep(m, p, b)
         /\ \A m \in late' : m \in late \/ m \in sends
<1> USE DEF TypesInv
<1>1. ASSUME NEW q \in inflight, FlusherReads(q)
      PROVE  /\ \A m \in sends' : Holds(m, p, b) => SendStep(m, p, b)
             /\ late' = late
  <2> DEFINE data == Part(cache[q.path], q.start, q.end)
             r == [piece |-> q, data |-> data, phase |-> "sent"]
  <2>1. /\ UNCHANGED <<cache, remote, late>> /\ \A n \in sends : n.piece # q
        /\ \/ Len(data) = q.end - q.start /\ sends' = sends \cup {r}
           \/ UNCHANGED sends
    BY <1>1 DEF FlusherReads
  <2>2. ASSUME Len(data) = q.end - q.start, Holds(r, p, b)
        PROVE  Carried(r, b) = Cached(p, b)
    <3>1. q \in Queue!Piece
      BY QueueFacts
    <3>2. q.start \in Nat /\ q.end \in 0 .. FileSize /\ cache[q.path] \in File \cup {Absent} /\ q.end \in Nat
      BY <3>1, Offsets DEF Queue!Piece, Bytes, FileTypes
    <3>3. \A c \in Bytes : q.start <= c /\ c < q.start + Len(data) => data[c - q.start + 1] = ByteAt(cache[q.path], c)
      BY ZenonT(30), <3>2, PartFile
    <3>4. q.path = p /\ q.start <= b /\ b < q.end /\ b \in Nat
      BY <2>2, Offsets DEF Holds, Queue!Payload, Queue!Interval
    <3>5. Carried(r, b) = data[b - q.start + 1]
      BY DEF Carried
    <3> HIDE DEF data, r
    <3>6. b < q.start + Len(data)
      BY <2>2, <3>2, <3>4
    <3> QED
      BY <3>3, <3>4, <3>5, <3>6 DEF Cached
  <2>3. r.piece = q /\ r.phase = "sent"
    OBVIOUS
  <2> HIDE DEF data, r
  <2> QED
    BY <2>1, <2>2, <2>3 DEF SendStep
<1>2. ASSUME NEW n \in sends, TargetWrites(n)
      PROVE  /\ \A m \in sends' : Holds(m, p, b) => SendStep(m, p, b)
             /\ late' = late
  <2>1. PICK ph \in {"written", "refused"} :
          /\ sends' = (sends \ {n}) \cup {[n EXCEPT !.phase = ph]}
          /\ ph = "written" => remote[n.piece.path] # Absent
    BY <1>2 DEF TargetWrites
  <2>2. n \in Requests /\ n.phase = "sent" /\ late' = late
    BY <1>2 DEF SendTypes, TargetWrites
  <2> DEFINE m == [n EXCEPT !.phase = ph]
  <2>3. m.piece = n.piece /\ m.data = n.data /\ m.phase = ph
    BY <2>2 DEF Requests
  <2>4. Holds(n, p, b) /\ ph = "written" => OnTarget(p, b)' = Carried(n, b)
    BY <1>2, <2>1, TargetSteps
  <2> HIDE DEF m
  <2>5. Holds(m, p, b) => SendStep(m, p, b)
    BY <2>1, <2>2, <2>3, <2>4 DEF SendStep, Holds, Carried
  <2>6. sends' = (sends \ {n}) \cup {m}
    BY <2>1 DEF m
  <2> QED
    BY <2>2, <2>5, <2>6 DEF SendStep
<1>3. ASSUME NEW n \in sends, SendAnswered(n) \/ SendFails(n)
      PROVE  sends' \subseteq sends /\ late' \subseteq late \cup sends
  BY <1>3 DEF SendAnswered, SendFails
<1>4. ASSUME NEW n \in late, LateArrives(n)
      PROVE  sends' = sends /\ late' \subseteq late
  BY <1>4 DEF LateArrives
<1>5. ASSUME \/ FlusherTakes \/ BackoffEnds
             \/ \E q \in Paths : \/ TargetRemoves(q) \/ PrefetchFetches(q) \/ PrefetchStores(q)
                                 \/ SyncFetches(q) \/ SyncStores(q)
      PROVE  UNCHANGED <<sends, late>>
  BY <1>5 DEF FlusherTakes, BackoffEnds, TargetRemoves, PrefetchFetches, PrefetchStores, SyncFetches, SyncStores
<1>6. ASSUME NEW t \in Threads, ThreadStep(t)
      PROVE  UNCHANGED <<sends, late>>
  BY <1>6 DEF ThreadStep, WriteCache, WriteDirect, WriteDirectReplies, DrainOver, RequestOver, ReadStores, ReadMiss,
              WriteEnqueue, WriteReplies, Draining, Flush, Unlink, Create, SetSize
<1>7. ASSUME sends' \subseteq sends
      PROVE  \A m \in sends' : Holds(m, p, b) => SendStep(m, p, b)
  BY <1>7 DEF SendStep
<1> QED
  BY <1>1, <1>2, <1>3, <1>4, <1>5, <1>6, <1>7 DEF Next, FlusherStep

-----------------------------------------------------------------------------
\* How a byte moves through the queue: it stays where it is, is queued,
\* claimed, put back by a failed send, or leaves by the answer to its request.
QueueMove(p, b) ==
  \/ /\ b \in dirty'[p] <=> b \in dirty[p]
     /\ InFlight(p, b)' <=> InFlight(p, b)
  \/ /\ b \in dirty'[p] /\ (InFlight(p, b)' <=> InFlight(p, b))
     /\ \E t \in Threads : WriteEnqueue(t) /\ Written(t, p, b)
  \/ /\ b \in dirty[p] /\ b \notin dirty'[p] /\ ~InFlight(p, b) /\ InFlight(p, b)'
     /\ UNCHANGED <<sends, remote>>
  \/ InFlight(p, b) /\ ~InFlight(p, b)' /\ b \in dirty'[p]
  \/ /\ InFlight(p, b) /\ ~InFlight(p, b)' /\ b \notin dirty'[p] /\ b \notin dirty[p]
     /\ UNCHANGED remote
     /\ \E m \in sends : Holds(m, p, b) /\ (m.phase = "written" \/ undone'[p][b] >= Carried(m, b))

\* A byte is queued, claimed, put back or done with only in those ways; a write's bytes are queued.
LEMMA QueueMoves ==
  ASSUME TypesInv, Next, NEW p \in Paths, NEW b \in Bytes
  PROVE  /\ QueueMove(p, b)
         /\ \A t \in Threads : WriteEnqueue(t) /\ Written(t, p, b) => b \in dirty'[p]
<1> USE DEF TypesInv
<1>1. inflight \subseteq Queue!Piece /\ dirty \in [Paths -> SUBSET Bytes] /\ Queue!OneSendPerByte
  BY QueueFacts
<1>2. ASSUME UNCHANGED <<dirty, inflight>> PROVE QueueMove(p, b)
  BY <1>2 DEF QueueMove, InFlight
<1>3. ASSUME NEW t \in Threads, WriteEnqueue(t)
      PROVE  QueueMove(p, b) /\ (Written(t, p, b) => b \in dirty'[p])
  <2>1. op[t] \in WriteOps /\ op[t].kind = "write"
    BY <1>3, OpKinds DEF WriteEnqueue
  <2>2. op[t].path \in Paths
    BY <2>1 DEF WriteOps
  <2>3. /\ dirty' = [dirty EXCEPT ![op[t].path] = @ \cup Queue!Interval(op[t].start, op[t].end)]
        /\ inflight' = inflight
    BY <1>3 DEF WriteEnqueue, Queue!enqueue_upload, Queue!enqueue
  <2>4. b \in dirty'[p] <=> b \in dirty[p] \/ Written(t, p, b)
    BY <1>1, <2>1, <2>2, <2>3 DEF Written
  <2>5. InFlight(p, b)' <=> InFlight(p, b)
    BY <2>3 DEF InFlight
  <2> QED
    BY <1>3, <2>4, <2>5 DEF QueueMove
<1>4. ASSUME FlusherTakes
      PROVE  QueueMove(p, b)
  <2>1. /\ inflight \subseteq inflight'
        /\ dirty'[p] \subseteq dirty[p]
        /\ b \in dirty[p] \ dirty'[p] => ~InFlight(p, b) /\ InFlight(p, b)'
        /\ \A q \in inflight' \ inflight : \A c \in Queue!Payload(q) :
             q.path \in Paths /\ c \in dirty[q.path] \ dirty'[q.path]
    BY <1>4, TakesMoves DEF FlusherTakes, InFlight
  <2>2. InFlight(p, b) => InFlight(p, b)'
    BY <2>1 DEF InFlight
  <2>3. InFlight(p, b)' => InFlight(p, b) \/ b \in dirty[p] \ dirty'[p]
    BY <2>1 DEF InFlight
  <2>4. UNCHANGED <<sends, remote>>
    BY <1>4 DEF FlusherTakes
  <2> QED
    BY <2>1, <2>2, <2>3, <2>4 DEF QueueMove
<1>5. ASSUME NEW q, NEW o, Queue!SendEnds(q, o)
      PROVE  /\ q \in inflight
             /\ q.path = p /\ b \in Queue!Payload(q) => InFlight(p, b) /\ ~InFlight(p, b)'
             /\ ~(q.path = p /\ b \in Queue!Payload(q)) => (InFlight(p, b)' <=> InFlight(p, b))
             /\ b \in dirty'[p] <=> b \in dirty[p] \/ (o = "Retry" /\ q.path = p /\ b \in Queue!Payload(q))
  <2>1. /\ q \in inflight /\ inflight' = inflight \ {q}
        /\ o = "Retry" => dirty' = [dirty EXCEPT ![q.path] = @ \cup Queue!Payload(q)]
        /\ o # "Retry" => dirty' = dirty
    BY <1>5, EndsMoves
  <2>2. q.path \in Paths
    BY <1>1, <2>1 DEF Queue!Piece
  <2>3. \A r \in inflight : r.path = p /\ b \in Queue!Payload(r) /\ q.path = p /\ b \in Queue!Payload(q) => r = q
    BY <1>1, <2>1 DEF Queue!OneSendPerByte
  <2>4. b \in dirty'[p] <=> b \in dirty[p] \/ (o = "Retry" /\ q.path = p /\ b \in Queue!Payload(q))
    BY <1>1, <2>1, <2>2
  <2> QED
    BY <2>1, <2>3, <2>4 DEF InFlight
<1>6. ASSUME NEW q, Queue!SendEnds(q, "Retry")
      PROVE  QueueMove(p, b)
  BY <1>5, <1>6 DEF QueueMove
<1>7. ASSUME NEW m \in sends, SendAnswered(m)
      PROVE  QueueMove(p, b)
  <2>1. PICK o \in {"Sent", "Drop"} : Queue!SendEnds(m.piece, o)
    BY <1>7 DEF SendAnswered
  <2>2. UNCHANGED remote /\ m.phase \in {"written", "refused"}
    BY <1>7 DEF SendAnswered
  <2>3. m.phase = "refused" /\ Holds(m, p, b) => undone'[p][b] >= Carried(m, b)
    BY <1>7, UndoneGrows
  <2>4. m.piece.path = p /\ b \in Queue!Payload(m.piece) <=> Holds(m, p, b)
    BY DEF Holds
  <2> QED
    BY <1>5, <2>1, <2>2, <2>3, <2>4 DEF QueueMove
<1>8. ASSUME NEW q \in inflight, FlusherReads(q)
      PROVE  QueueMove(p, b)
  BY <1>2, <1>6, <1>8 DEF FlusherReads, queueVars
<1>9. ASSUME NEW m \in sends, SendFails(m)
      PROVE  QueueMove(p, b)
  BY <1>6, <1>9 DEF SendFails
<1>10. ASSUME NEW t \in Threads,
              \/ \E q \in Paths, s \in Bytes, e \in 1 .. FileSize : WriteCache(t, q, s, e) \/ WriteDirect(t, q, s, e)
              \/ WriteReplies(t) \/ WriteDirectReplies(t) \/ DrainOver(t) \/ RequestOver(t)
              \/ ReadStores(t) \/ Draining(t)
              \/ \E q \in Paths : Flush(t, q) \/ Unlink(t, q) \/ Create(t, q)
              \/ \E q \in Paths, n \in 0 .. FileSize : SetSize(t, q, n)
              \/ \E q \in Paths, s \in Bytes : ReadMiss(t, q, s)
       PROVE  UNCHANGED <<dirty, inflight>>
  BY ZenonT(30), <1>10 DEF WriteCache, WriteDirect, WriteReplies, WriteDirectReplies, DrainOver, RequestOver,
               ReadStores, Draining, Flush, Unlink, Create, SetSize, ReadMiss, DrainFor, queueVars, Queue!queueVars,
               Queue!wait_below, Queue!DrainBegins, Queue!DrainChecks, Queue!DrainWakes, Queue!DrainTimesOut
<1>11. ASSUME \/ BackoffEnds \/ \E m \in sends : TargetWrites(m)
              \/ \E m \in late : LateArrives(m)
              \/ \E q \in Paths : \/ TargetRemoves(q) \/ PrefetchFetches(q) \/ PrefetchStores(q)
                                  \/ SyncFetches(q) \/ SyncStores(q)
       PROVE  UNCHANGED <<dirty, inflight>>
  BY <1>11, QueueAlone DEF BackoffEnds, Queue!BackoffEnds, queueVars
<1>12. ASSUME NEW t \in Threads, ThreadStep(t)
       PROVE  QueueMove(p, b)
  BY <1>2, <1>3, <1>10, <1>12 DEF ThreadStep
<1>13. QueueMove(p, b)
  BY <1>2, <1>4, <1>7, <1>8, <1>9, <1>11, <1>12 DEF Next, FlusherStep
<1> QED
  BY <1>3, <1>13

-----------------------------------------------------------------------------
\* Requests for one byte are one, for a piece in flight.
LEMMA OneRequest ==
  ASSUME TypesInv, NEW p \in Paths, NEW b \in Bytes
  PROVE  /\ \A m \in sends : Holds(m, p, b) => InFlight(p, b)
         /\ \A m, n \in sends : Holds(m, p, b) /\ Holds(n, p, b) => m = n
         /\ \A m \in sends, q \in inflight :
              Holds(m, p, b) /\ q.path = p /\ b \in Queue!Payload(q) => m.piece = q
<1>1. Queue!OneSendPerByte /\ SendTypes
  BY QueueFacts DEF TypesInv
<1>2. \A m \in sends, q \in inflight : Holds(m, p, b) /\ q.path = p /\ b \in Queue!Payload(q) => m.piece = q
  BY <1>1 DEF Queue!OneSendPerByte, SendTypes, Holds
<1>3. \A m, n \in sends : Holds(m, p, b) /\ Holds(n, p, b) => m.piece = n.piece
  BY <1>1, <1>2 DEF SendTypes, Holds
<1> QED
  BY <1>1, <1>2, <1>3 DEF SendTypes, Holds, InFlight

\* The cache keeps what it has of a byte until it is owed no more.
LEMMA HeldKept ==
  ASSUME NoDownloads, TypesInv, UseInv, DataInv, Next, NEW p \in Paths, NEW b \in Bytes
  PROVE  \A v \in Nat : Held(p, b, v) => Held(p, b, v)'
<1>1. CacheStep(p, b) /\ undone'[p][b] >= undone[p][b]
  BY CacheSteps, UndoneGrows
<1>2. Cached(p, b) <= version
  BY DEF DataInv, Newest, Bound
<1>3. ByteTypes(p, b) /\ ByteTypes(p, b)'
  BY ByteNumbers, TypesKept
<1>4. /\ Cached(p, b) \in Nat /\ undone[p][b] \in Nat /\ version \in Nat
      /\ undone'[p][b] \in Nat /\ Cached(p, b)' \in Nat
  BY <1>3 DEF ByteTypes
<1>5. \/ Cached(p, b)' >= Cached(p, b)
      \/ undone'[p][b] >= Cached(p, b)
  BY <1>1, <1>2, <1>4 DEF CacheStep
<1> SUFFICES ASSUME NEW v \in Nat, Held(p, b, v) PROVE Cached(p, b)' >= v \/ undone'[p][b] >= v
  BY DEF Held
<1> QED
  BY <1>1, <1>4, <1>5 DEF Held

\* A bound on the copies of a byte holds on, if it bounds the writes of it.
LEMMA BoundKept ==
  ASSUME NoDownloads, TypesInv, UseInv, DataInv, Next, NEW p \in Paths, NEW b \in Bytes,
         NEW v \in Nat, NEW w \in Nat, v <= w, Bound(p, b, v),
         \A t \in Threads : Written(t, p, b) => op[t].version <= w,
         \A t \in Threads, s \in Bytes, e \in 1 .. FileSize : WriteCache(t, p, s, e) => version + 1 <= w
  PROVE  Bound(p, b, w)'
<1>1. ByteTypes(p, b) /\ ByteTypes(p, b)'
  BY ByteNumbers, TypesKept
<1>2. /\ Cached(p, b) \in Nat /\ OnTarget(p, b) \in Nat /\ acked[p][b] \in Nat /\ version \in Nat
      /\ \A m \in sends \cup late : Holds(m, p, b) => Carried(m, b) \in Nat
  BY <1>1 DEF ByteTypes
<1>3. /\ Cached(p, b) <= v /\ OnTarget(p, b) <= v /\ acked[p][b] <= v
      /\ \A m \in sends \cup late : Holds(m, p, b) => Carried(m, b) <= v
  BY DEF Bound
<1>4. /\ Cached(p, b) <= w /\ OnTarget(p, b) <= w /\ acked[p][b] <= w
      /\ \A m \in sends \cup late : Holds(m, p, b) => Carried(m, b) <= w
  BY <1>2, <1>3
<1>5. Cached(p, b)' <= w
  BY <1>4, CacheSteps DEF CacheStep
<1>6. OnTarget(p, b)' <= w
  BY <1>4, TargetSteps DEF TargetStep
<1>7. acked'[p][b] <= w
  BY <1>4, AckedSteps
<1>8. ASSUME NEW m \in sends' \cup late', Holds(m, p, b)
      PROVE  Carried(m, b) <= w
  <2>1. CASE m \in sends \cup late
    BY <1>4, <1>8, <2>1
  <2>2. CASE m \in sends'
    <3>1. SendStep(m, p, b)
      BY <1>8, <2>2, SendSteps
    <3>2. \A n \in sends : n.piece = m.piece => Holds(n, p, b)
      BY <1>8 DEF Holds
    <3> QED
      BY <1>4, <1>8, <3>1, <3>2 DEF SendStep
  <2> QED
    BY <1>8, <2>1, <2>2, SendSteps
<1> QED
  BY <1>5, <1>6, <1>7, <1>8 DEF Bound

\* A write that is in the cache and on its way stays so until it is on the
\* target, and on the target from then on.
LEMMA SafeKept ==
  ASSUME NoDownloads, TypesInv, UseInv, DataInv, Next, NEW p \in Paths, NEW b \in Bytes
  PROVE  \A v \in Nat : Safe(p, b, v) => Safe(p, b, v)'
<1> SUFFICES ASSUME NEW v \in Nat, Safe(p, b, v) PROVE Safe(p, b, v)'
  OBVIOUS
<1>1. Held(p, b, v) /\ Held(p, b, v)' /\ Owed(p, b, v)
  BY HeldKept DEF Safe
<1>2. ByteTypes(p, b) /\ ByteTypes(p, b)'
  BY ByteNumbers, TypesKept
<1>3. /\ Cached(p, b) \in Nat /\ OnTarget(p, b) \in Nat /\ undone[p][b] \in Nat
      /\ Cached(p, b)' \in Nat /\ OnTarget(p, b)' \in Nat /\ undone'[p][b] \in Nat
      /\ \A m \in sends : Holds(m, p, b) => Carried(m, b) \in Nat
      /\ undone'[p][b] >= undone[p][b]
  BY <1>2, UndoneGrows DEF ByteTypes
<1>4. undone'[p][b] >= v => Owed(p, b, v)'
  BY DEF Owed
<1>5. b \in dirty'[p] => Owed(p, b, v)'
  BY DEF Owed
<1>6. OnTarget(p, b) >= v => \/ OnTarget(p, b)' >= v \/ undone'[p][b] >= v
                             \/ \E m \in sends : /\ m.phase = "sent" /\ Holds(m, p, b)
                                                 /\ OnTarget(p, b)' = Carried(m, b)
  BY <1>3, TargetSteps DEF TargetStep
<1>7. CASE undone[p][b] >= v
  BY <1>1, <1>3, <1>4, <1>7 DEF Safe
<1>8. ASSUME b \notin dirty'[p], InFlight(p, b)', ~InFlight(p, b)
      PROVE  Owed(p, b, v)'
  <2>1. UNCHANGED <<sends, remote>>
    BY <1>8, QueueMoves DEF QueueMove
  <2>2. \A m \in sends' : ~Holds(m, p, b)
    BY <1>8, <2>1, OneRequest
  <2> QED
    BY <1>8, <2>2 DEF Owed
<1>9. CASE b \in dirty[p]
  <2>1. b \in dirty'[p] \/ (InFlight(p, b)' /\ ~InFlight(p, b))
    BY <1>9, QueueMoves DEF QueueMove
  <2> QED
    BY <1>1, <1>5, <1>8, <2>1 DEF Safe
<1>10. CASE ~InFlight(p, b) /\ OnTarget(p, b) >= v
  <2>1. OnTarget(p, b)' >= v \/ undone'[p][b] >= v
    BY <1>6, <1>10, OneRequest
  <2>2. ~InFlight(p, b)' /\ OnTarget(p, b)' >= v => Owed(p, b, v)'
    BY DEF Owed
  <2> QED
    BY <1>1, <1>4, <1>5, <1>8, <1>10, <2>1, <2>2 DEF Safe
<1>11. CASE /\ InFlight(p, b)
            /\ \A m \in sends : Holds(m, p, b) =>
                 Carried(m, b) >= v /\ (m.phase = "written" => OnTarget(p, b) >= v)
  <2>1. CASE ~InFlight(p, b)'
    <3>1. ASSUME b \notin dirty'[p]
          PROVE  /\ UNCHANGED remote
                 /\ \E m \in sends : Holds(m, p, b) /\ (m.phase = "written" \/ undone'[p][b] >= Carried(m, b))
      BY <1>11, <2>1, <3>1, QueueMoves DEF QueueMove
    <3>2. UNCHANGED remote => OnTarget(p, b)' = OnTarget(p, b)
      BY DEF OnTarget
    <3>3. ASSUME b \notin dirty'[p]
          PROVE  OnTarget(p, b)' >= v \/ undone'[p][b] >= v
      <4>1. PICK m \in sends : Holds(m, p, b) /\ (m.phase = "written" \/ undone'[p][b] >= Carried(m, b))
        BY <3>1, <3>3
      <4>2. Carried(m, b) >= v /\ Carried(m, b) \in Nat /\ (m.phase = "written" => OnTarget(p, b) >= v)
        BY <1>3, <1>11, <4>1
      <4> QED
        BY <1>3, <3>1, <3>2, <3>3, <4>1, <4>2
    <3>4. OnTarget(p, b)' >= v => Owed(p, b, v)'
      BY <2>1 DEF Owed
    <3> QED
      BY <1>1, <1>4, <1>5, <3>3, <3>4 DEF Safe
  <2>2. CASE InFlight(p, b)'
    <3>1. OnTarget(p, b) >= v => OnTarget(p, b)' >= v \/ undone'[p][b] >= v
      BY <1>6, <1>11
    <3>2. ASSUME NEW m \in sends', Holds(m, p, b), ~(undone'[p][b] >= v)
          PROVE  Carried(m, b) >= v /\ (m.phase = "written" => OnTarget(p, b)' >= v)
      <4>1. CASE m \in sends
        BY <1>11, <3>1, <3>2, <4>1
      <4>2. CASE \E n \in sends : /\ n.phase = "sent" /\ n.piece = m.piece /\ Carried(n, b) = Carried(m, b)
                                  /\ m.phase # "sent"
                                  /\ m.phase = "written" => OnTarget(p, b)' = Carried(m, b)
        <5>1. \A n \in sends : n.piece = m.piece => Holds(n, p, b)
          BY <3>2 DEF Holds
        <5> QED
          BY <1>11, <4>2, <5>1
      <4>3. CASE m.phase = "sent" /\ Carried(m, b) = Cached(p, b)
        <5>1. Cached(p, b) >= v
          BY <1>1, <1>3, <3>2 DEF Held
        <5> QED
          BY <4>3, <5>1
      <4> QED
        BY <3>2, <4>1, <4>2, <4>3, SendSteps DEF SendStep
    <3>3. ~(undone'[p][b] >= v) => Owed(p, b, v)'
      BY <2>2, <3>2 DEF Owed
    <3> QED
      BY <1>1, <1>4, <3>3 DEF Safe
  <2> QED
    BY <2>1, <2>2
<1> QED
  BY <1>1, <1>7, <1>9, <1>10, <1>11 DEF Owed

-----------------------------------------------------------------------------
\* A new write takes the next number.
LEMMA VersionGrows ==
  ASSUME TypesInv, Next
  PROVE  /\ version' \in {version, version + 1}
         /\ \A t \in Threads, p \in Paths, s \in Bytes, e \in 1 .. FileSize :
              WriteCache(t, p, s, e) \/ WriteDirect(t, p, s, e) => version' = version + 1
<1>1. \A t \in Threads, p \in Paths, s \in Bytes, e \in 1 .. FileSize :
        WriteCache(t, p, s, e) \/ WriteDirect(t, p, s, e) => version' = version + 1
  BY DEF WriteCache, WriteDirect
<1>2. ASSUME NEW t \in Threads,
             \/ WriteEnqueue(t) \/ WriteReplies(t) \/ WriteDirectReplies(t) \/ DrainOver(t) \/ RequestOver(t)
             \/ ReadStores(t) \/ Draining(t)
             \/ \E q \in Paths : Flush(t, q) \/ Unlink(t, q) \/ Create(t, q)
             \/ \E q \in Paths, n \in 0 .. FileSize : SetSize(t, q, n)
             \/ \E q \in Paths, s \in Bytes : ReadMiss(t, q, s)
      PROVE  UNCHANGED version
  BY <1>2 DEF WriteEnqueue, WriteReplies, WriteDirectReplies, DrainOver, RequestOver, ReadStores, Draining,
              Flush, Unlink, Create, SetSize, ReadMiss
<1>3. ASSUME NEW t \in Threads, ThreadStep(t)
      PROVE  version' \in {version, version + 1}
  BY <1>1, <1>2, <1>3 DEF ThreadStep
<1>4. OpsAlone => UNCHANGED version
  BY OpsStay
<1> QED
  BY <1>1, <1>3, <1>4 DEF Next, OpsAlone

\* While a file is being changed nothing else begins to write it.
LEMMA OneChange ==
  ASSUME UseInv, NEW t \in Threads, op[t].kind \in Changing, NEW p, op[t].path = p
  PROVE  /\ \A u \in Threads, b \in Bytes : Written(u, p, b) => u = t
         /\ \A u \in Threads, s \in Bytes, e \in 1 .. FileSize : ~WriteCache(u, p, s, e)
<1>1. \A u \in Threads, b \in Bytes : Written(u, p, b) => u = t
  BY DEF UseInv, Exclusive, Written, Changing
<1>2. ~Unlocked(p)
  BY DEF Unlocked, Changing
<1> QED
  BY <1>1, <1>2 DEF WriteCache

\* The number of the last write bounds every copy of a byte, and what is discarded bounds
\* the copies that may come back.
LEMMA NewestKept ==
  ASSUME NoDownloads, TypesInv, UseInv, DataInv, Next, NEW p \in Paths, NEW b \in Bytes
  PROVE  Newest(p, b)'
<1>1. ByteTypes(p, b) /\ ByteTypes(p, b)'
  BY ByteNumbers, TypesKept
<1>2. /\ version \in Nat /\ version' \in Nat /\ undone[p][b] \in Nat /\ undone'[p][b] \in Nat
      /\ \A t \in Threads : op[t].kind = "write" => op[t].version \in Nat
      /\ \A t \in Threads : op'[t].kind = "write" => op'[t].version \in Nat
  BY <1>1 DEF ByteTypes
<1>3. /\ Bound(p, b, version)
      /\ \A t \in Threads : op[t].kind = "write" /\ op[t].path = p =>
           op[t].version <= version /\ Bound(p, b, op[t].version)
      /\ \A t \in Threads : Discarded(t, p, b) => Bound(p, b, undone[p][b])
  BY DEF DataInv, Newest
<1>4. \A t \in Threads : Written(t, p, b) => op[t].version <= version
  BY <1>3 DEF Written
<1>5. version' \in {version, version + 1}
      /\ \A t \in Threads, s \in Bytes, e \in 1 .. FileSize : WriteCache(t, p, s, e) => version + 1 <= version'
  BY <1>2, VersionGrows
<1>6. \A t \in Threads : op'[t] = op[t] \/ OpStep(t)
  BY OpFlow
<1>7. Bound(p, b, version)'
  <2>1. PICK v \in Nat, w \in Nat : v = version /\ w = version'
    BY <1>2
  <2>2. v <= w /\ (\A t \in Threads : Written(t, p, b) => op[t].version <= w) /\ Bound(p, b, v)
    BY <1>2, <1>3, <1>4, <1>5, <2>1 DEF Written
  <2>3. Bound(p, b, w)'
    BY <1>5, <2>1, <2>2, BoundKept
  <2> QED
    BY <2>1, <2>3 DEF Bound
<1>8. ASSUME NEW t \in Threads, op'[t].kind = "write", op'[t].path = p
      PROVE  op'[t].version <= version' /\ Bound(p, b, op[t].version)'
  <2>1. CASE op[t].kind = "write" /\ op[t].path = p /\ op'[t].version = op[t].version
    <3>1. PICK v \in Nat : v = op[t].version
      BY <1>2, <2>1
    <3>2. /\ \A u \in Threads : Written(u, p, b) => op[u].version <= v
          /\ \A u \in Threads, s \in Bytes, e \in 1 .. FileSize : ~WriteCache(u, p, s, e)
      BY <2>1, <3>1, OneChange DEF Changing
    <3>3. v <= version /\ Bound(p, b, v)
      BY <1>3, <2>1, <3>1
    <3>4. Bound(p, b, v)'
      BY <3>2, <3>3, BoundKept
    <3> QED
      BY <1>2, <1>5, <2>1, <3>1, <3>3, <3>4 DEF Bound
  <2>2. CASE \E q \in Paths, s \in Bytes, e \in 1 .. FileSize : WriteBegins(t, q, s, e)
    <3>1. op'[t].version = version' /\ version' = version + 1
      BY <2>2, VersionGrows DEF WriteBegins
    <3> QED
      BY <1>2, <1>7, <3>1 DEF Bound
  <2>3. CASE WriteQueued(t)
    BY <1>8, <2>1, <2>3 DEF WriteQueued, WriteEnqueue
  <2>4. CASE op'[t] = op[t]
    BY <1>8, <2>1, <2>4
  <2> QED
    BY <1>6, <1>8, <2>2, <2>3, <2>4 DEF OpStep, Idle, DrainBegun, RequestBegins
<1>9. ASSUME NEW t \in Threads, Discarded(t, p, b)'
      PROVE  Bound(p, b, undone[p][b])'
  <2>1. op'[t].kind \in {"setattr", "create", "unlink"} /\ op'[t].pc = "request" /\ op'[t].path = p
        /\ (op'[t].kind = "setattr" => b >= op'[t].size)
    BY <1>9 DEF Discarded
  <2>2. op[t].kind \in {"setattr", "create", "unlink"} /\ op[t].path = p
        /\ \E v \in Nat : v <= undone'[p][b] /\ Bound(p, b, v)
    <3>1. CASE op'[t] = op[t]
      <4>1. Discarded(t, p, b)
        BY <2>1, <3>1 DEF Discarded
      <4> QED
        BY <1>2, <1>3, <2>1, <3>1, <4>1, UndoneGrows
    <3>2. CASE RequestBegins(t)
      <4>1. op[t].kind \in {"setattr", "create", "unlink"} /\ op[t].path = p
            /\ (op[t].kind = "setattr" => b >= op[t].size)
        BY <2>1, <3>2 DEF RequestBegins
      <4>2. Forgive(p, {c \in Bytes : op[t].kind # "setattr" \/ c >= op[t].size}, version)
        BY <3>2, <4>1 DEF RequestBegins, DrainOver
      <4>3. undone'[p][b] >= version
        BY <1>2, <4>1, <4>2, Forgiven DEF TypesInv
      <4> QED
        BY <1>2, <1>3, <4>1, <4>3
    <3> QED
      BY <1>6, <2>1, <3>1, <3>2 DEF OpStep, Idle, WriteBegins, WriteQueued, DrainBegun
  <2>3. PICK v \in Nat, w \in Nat : w = undone'[p][b] /\ v <= w /\ Bound(p, b, v)
    BY <1>2, <2>2
  <2>4. /\ \A u \in Threads : ~Written(u, p, b)
        /\ \A u \in Threads, s \in Bytes, e \in 1 .. FileSize : ~WriteCache(u, p, s, e)
    <3>1. op[t].kind \in Changing /\ op[t].kind # "write"
      BY <2>2 DEF Changing
    <3> QED
      BY <2>2, <3>1, OneChange DEF Written
  <2>5. Bound(p, b, w)'
    BY <2>3, <2>4, BoundKept
  <2> QED
    BY <2>3, <2>5 DEF Bound
<1> QED
  BY <1>7, <1>8, <1>9 DEF Newest

\* The cache is as new as the target, the queue and the requests for a byte.
LEMMA BufferedKept ==
  ASSUME NoDownloads, TypesInv, UseInv, DataInv, Next, NEW p \in Paths, NEW b \in Bytes
  PROVE  Buffered(p, b)'
<1>1. ByteTypes(p, b) /\ ByteTypes(p, b)'
  BY ByteNumbers, TypesKept
<1>2. /\ OnTarget(p, b) \in Nat /\ Cached(p, b) \in Nat /\ Cached(p, b)' \in Nat /\ undone'[p][b] \in Nat
      /\ \A m \in sends \cup late : Holds(m, p, b) => Carried(m, b) \in Nat
      /\ \A t \in Threads : op[t].kind = "write" => op[t].version \in Nat \ {0}
  BY <1>1 DEF ByteTypes
<1>3. Buffered(p, b)
  BY DEF DataInv
<1>4. \A v \in Nat : Held(p, b, v) => Held(p, b, v)'
  BY HeldKept
<1>5. \A m \in sends \cup late : Holds(m, p, b) => Held(p, b, Carried(m, b))'
  <2> SUFFICES ASSUME NEW m \in sends \cup late, Holds(m, p, b) PROVE Held(p, b, Carried(m, b))'
    OBVIOUS
  <2>1. PICK v \in Nat : v = Carried(m, b)
    BY <1>2
  <2>2. Held(p, b, v)'
    BY <1>3, <1>4, <2>1 DEF Buffered
  <2> QED
    BY <2>1, <2>2 DEF Held
<1>6. OnTarget(p, b)' <= 1 \/ Held(p, b, OnTarget(p, b))'
  <2>1. CASE OnTarget(p, b)' = OnTarget(p, b)
    <3>1. PICK v \in Nat : v = OnTarget(p, b)
      BY <1>2
    <3>2. v <= 1 \/ Held(p, b, v)'
      BY <1>3, <1>4, <3>1 DEF Buffered
    <3> QED
      BY <2>1, <3>1, <3>2 DEF Held
  <2>2. CASE \E m \in sends \cup late : Holds(m, p, b) /\ OnTarget(p, b)' = Carried(m, b)
    BY <1>5, <2>2 DEF Held
  <2>3. CASE undone'[p][b] >= OnTarget(p, b)' \/ OnTarget(p, b)' = 0
    BY <2>3 DEF Held
  <2> QED
    BY <2>1, <2>2, <2>3, TargetSteps DEF TargetStep
<1>7. ASSUME b \in dirty'[p] \/ InFlight(p, b)'
      PROVE  Held(p, b, 1)'
  <2>1. CASE b \in dirty[p] \/ InFlight(p, b)
    <3>1. Held(p, b, 1)
      BY <1>3, <2>1 DEF Buffered
    <3> QED
      BY <1>4, <3>1
  <2>2. CASE \E t \in Threads : WriteEnqueue(t) /\ Written(t, p, b)
    <3>1. PICK t \in Threads : WriteEnqueue(t) /\ Written(t, p, b)
      BY <2>2
    <3>2. PICK v \in Nat : v = op[t].version /\ v >= 1
      BY <1>2, <3>1 DEF Written
    <3>3. Held(p, b, v)'
      BY <1>3, <1>4, <3>1, <3>2 DEF Buffered, WriteEnqueue
    <3> QED
      BY <1>2, <3>2, <3>3 DEF Held
  <2> QED
    BY <1>7, <2>1, <2>2, QueueMoves DEF QueueMove
<1>8. ASSUME NEW t \in Threads, Written(t, p, b)', op'[t].pc = "cached"
      PROVE  Held(p, b, op[t].version)'
  <2>1. op'[t].kind = "write" /\ op'[t].path = p /\ b \in Queue!Interval(op'[t].start, op'[t].end)
    BY <1>8 DEF Written
  <2>2. CASE op'[t] = op[t]
    <3>1. Written(t, p, b) /\ op[t].pc = "cached"
      BY <1>8, <2>1, <2>2 DEF Written
    <3>2. PICK v \in Nat : v = op[t].version
      BY <1>2, <3>1 DEF Written
    <3>3. Held(p, b, v)'
      BY <1>3, <1>4, <3>1, <3>2 DEF Buffered
    <3> QED
      BY <2>2, <3>2, <3>3 DEF Held
  <2>3. CASE \E q \in Paths, s \in Bytes, e \in 1 .. FileSize : WriteBegins(t, q, s, e)
    <3>1. PICK q \in Paths, s \in Bytes, e \in 1 .. FileSize : WriteBegins(t, q, s, e)
      BY <2>3
    <3>2. WriteCache(t, p, s, e) /\ b \in Queue!Interval(s, e) /\ op'[t].version = version + 1
      BY <1>8, <2>1, <3>1 DEF WriteBegins
    <3>3. Cached(p, b)' = version + 1
      BY <3>2, CacheSteps
    <3> QED
      BY <1>2, <3>2, <3>3 DEF Held
  <2> QED
    BY <1>8, <2>1, <2>2, <2>3, OpFlow DEF OpStep, Idle, WriteQueued, DrainBegun, RequestBegins
<1>9. ASSUME NEW m \in sends' \cup late', Holds(m, p, b)
      PROVE  Held(p, b, Carried(m, b))'
  <2>1. CASE m \in sends \cup late
    BY <1>5, <1>9, <2>1
  <2>2. CASE m \in sends'
    <3>1. CASE \E n \in sends : n.piece = m.piece /\ Carried(n, b) = Carried(m, b)
      <4>1. PICK n \in sends : n.piece = m.piece /\ Carried(n, b) = Carried(m, b)
        BY <3>1
      <4>2. Holds(n, p, b)
        BY <1>9, <4>1 DEF Holds
      <4> QED
        BY <1>5, <4>1, <4>2 DEF Held
    <3>2. CASE Carried(m, b) = Cached(p, b) /\ UNCHANGED cache
      <4>1. Cached(p, b)' = Cached(p, b)
        BY <3>2 DEF Cached
      <4> QED
        BY <1>2, <3>2, <4>1 DEF Held
    <3> QED
      BY <1>9, <2>1, <2>2, <3>1, <3>2, SendSteps DEF SendStep
  <2> QED
    BY <1>9, <2>1, <2>2, SendSteps
<1> QED
  BY <1>6, <1>7, <1>8, <1>9 DEF Buffered

\* What a drain was called for is set when it begins.
LEMMA FloorSteps ==
  ASSUME TypesInv, Next, NEW t \in Threads, op[t] # Idle
  PROVE  floor'[t] = floor[t]
<1>1. floor \in [Threads -> [Bytes -> Value]]
  BY DEF TypesInv, HistoryTypes
<1>2. ASSUME NEW u \in Threads, NEW p \in Paths, NEW n \in 0 .. FileSize,
             Flush(u, p) \/ Unlink(u, p) \/ Create(u, p) \/ SetSize(u, p, n)
      PROVE  floor'[t] = floor[t]
  <2>1. op[u] = Idle /\ (UNCHANGED floor \/ floor' = [floor EXCEPT ![u] = acked[p]])
    BY <1>2 DEF Flush, Unlink, Create, SetSize
  <2> QED
    BY <1>1, <2>1
<1>3. ASSUME NEW u \in Threads,
             \/ \E q \in Paths, s \in Bytes, e \in 1 .. FileSize : WriteCache(u, q, s, e) \/ WriteDirect(u, q, s, e)
             \/ WriteEnqueue(u) \/ WriteReplies(u) \/ WriteDirectReplies(u) \/ DrainOver(u) \/ RequestOver(u)
             \/ ReadStores(u) \/ Draining(u)
             \/ \E q \in Paths, s \in Bytes : ReadMiss(u, q, s)
      PROVE  UNCHANGED floor
  BY <1>3 DEF WriteCache, WriteDirect, WriteEnqueue, WriteReplies, WriteDirectReplies, DrainOver, RequestOver,
              ReadStores, Draining, ReadMiss
<1>4. 0 \in 0 .. FileSize
  BY Offsets
<1>5. ASSUME NEW u \in Threads, ThreadStep(u)
      PROVE  floor'[t] = floor[t]
  BY <1>2, <1>3, <1>4, <1>5 DEF ThreadStep
<1>6. OpsAlone => UNCHANGED floor
  BY OpsStay
<1> QED
  BY <1>5, <1>6 DEF Next, OpsAlone

\* A request still to be carried out is as new as what the target has and what was given up.
LEMMA OrderedKept ==
  ASSUME NoDownloads, TypesInv, UseInv, DataInv, Next, NEW p \in Paths, NEW b \in Bytes
  PROVE  Ordered(p, b)'
<1>1. ByteTypes(p, b) /\ ByteTypes(p, b)'
  BY ByteNumbers, TypesKept
<1>2. /\ OnTarget(p, b) \in Nat /\ Cached(p, b) \in Nat /\ undone[p][b] \in Nat
      /\ OnTarget(p, b)' \in Nat /\ undone'[p][b] \in Nat
      /\ \A m \in sends \cup late : Holds(m, p, b) => Carried(m, b) \in Nat
      /\ undone'[p][b] >= undone[p][b]
  BY <1>1, UndoneGrows DEF ByteTypes
<1>3. Buffered(p, b) /\ Ordered(p, b)
  BY DEF DataInv
<1>4. \A m, n \in sends : Holds(m, p, b) /\ Holds(n, p, b) => m = n
  BY OneRequest
<1>5. ASSUME NEW m \in sends', Holds(m, p, b), m.phase = "sent"
      PROVE  Carried(m, b) >= OnTarget(p, b)' \/ undone'[p][b] >= OnTarget(p, b)'
  <2>1. CASE m \in sends
    <3>1. Carried(m, b) >= OnTarget(p, b) \/ undone[p][b] >= OnTarget(p, b)
      BY <1>3, <1>5, <2>1 DEF Ordered
    <3>2. CASE OnTarget(p, b)' = OnTarget(p, b)
      BY <1>2, <1>5, <2>1, <3>1, <3>2
    <3>3. CASE \E n \in sends : Holds(n, p, b) /\ OnTarget(p, b)' = Carried(n, b)
      BY <1>2, <1>4, <1>5, <2>1, <3>3
    <3>4. CASE \E n \in late : Holds(n, p, b) /\ OnTarget(p, b)' = Carried(n, b)
      <4>1. PICK n \in late : Holds(n, p, b) /\ OnTarget(p, b)' = Carried(n, b)
        BY <3>4
      <4>2. Carried(m, b) >= Carried(n, b) \/ undone[p][b] >= Carried(n, b)
        BY <1>3, <1>5, <2>1, <4>1 DEF Ordered
      <4> QED
        BY <1>2, <4>1, <4>2
    <3>5. CASE OnTarget(p, b)' = 0 \/ undone'[p][b] >= OnTarget(p, b)'
      BY <1>2, <3>5
    <3> QED
      BY <3>2, <3>3, <3>4, <3>5, TargetSteps DEF TargetStep
  <2>2. CASE /\ m.piece \in inflight /\ Carried(m, b) = Cached(p, b)
             /\ UNCHANGED remote
    <3>1. OnTarget(p, b)' = OnTarget(p, b)
      BY <2>2 DEF OnTarget
    <3>2. InFlight(p, b)
      BY <1>5, <2>2 DEF InFlight, Holds
    <3>3. Held(p, b, 1) /\ (OnTarget(p, b) <= 1 \/ Held(p, b, OnTarget(p, b)))
      BY <1>3, <3>2 DEF Buffered
    <3>4. Cached(p, b) >= OnTarget(p, b) \/ undone[p][b] >= OnTarget(p, b)
      BY <1>2, <3>3 DEF Held
    <3> QED
      BY <1>2, <2>2, <3>1, <3>4
  <2> QED
    BY <1>5, <2>1, <2>2, SendSteps DEF SendStep
<1>6. ASSUME NEW m \in sends', NEW n \in late', Holds(m, p, b), Holds(n, p, b)
      PROVE  Carried(m, b) >= Carried(n, b) \/ undone'[p][b] >= Carried(n, b)
  <2>1. n \in late \/ n \in sends
    BY SendSteps
  <2>2. Carried(n, b) \in Nat
    BY <1>2, <1>6, <2>1
  <2>3. CASE \E k \in sends : k.piece = m.piece /\ Carried(k, b) = Carried(m, b)
    <3>1. PICK k \in sends : k.piece = m.piece /\ Carried(k, b) = Carried(m, b)
      BY <2>3
    <3>2. Holds(k, p, b)
      BY <1>6, <3>1 DEF Holds
    <3>3. n \in sends => Carried(m, b) = Carried(n, b)
      BY <1>4, <1>6, <3>1, <3>2
    <3>4. n \in late => Carried(m, b) >= Carried(n, b) \/ undone[p][b] >= Carried(n, b)
      BY <1>3, <1>6, <3>1, <3>2 DEF Ordered
    <3> QED
      BY <1>2, <2>1, <2>2, <3>3, <3>4
  <2>4. CASE /\ m.piece \in inflight /\ \A k \in sends : k.piece # m.piece
             /\ Carried(m, b) = Cached(p, b)
    <3>1. n \notin sends
      BY <1>6, <2>4, OneRequest DEF Holds
    <3>2. Held(p, b, Carried(n, b))
      BY <1>3, <1>6, <2>1, <3>1 DEF Buffered
    <3> QED
      BY <1>2, <2>2, <2>4, <3>2 DEF Held
  <2> QED
    BY <1>6, <2>3, <2>4, SendSteps DEF SendStep
<1> QED
  BY <1>5, <1>6 DEF Ordered

\* A byte the program was told is written, or that a flush has to deliver, is in the cache
\* and is queued, in flight in every send, or on the target.
LEMMA DeliveredKept ==
  ASSUME NoDownloads, TypesInv, UseInv, DataInv, Next, NEW p \in Paths, NEW b \in Bytes
  PROVE  Delivered(p, b)'
<1>1. ByteTypes(p, b) /\ ByteTypes(p, b)'
  BY ByteNumbers, TypesKept
<1>2. /\ acked[p][b] \in Nat /\ undone'[p][b] \in Nat
      /\ \A t \in Threads : op[t].kind = "write" => op[t].version \in Nat
      /\ \A t \in Threads : floor[t][b] \in Nat
  BY <1>1 DEF ByteTypes
<1>3. Buffered(p, b) /\ Delivered(p, b)
  BY DEF DataInv
<1>4. \A v \in Nat : Safe(p, b, v) => Safe(p, b, v)'
  BY SafeKept
<1>5. \A v \in Nat : undone'[p][b] >= v => Safe(p, b, v)'
  BY DEF Safe, Held, Owed
<1>6. \A t \in Threads : op'[t] = op[t] \/ OpStep(t)
  BY OpFlow
<1>7. Safe(p, b, acked[p][b])'
  <2>1. PICK v \in Nat : /\ v = acked'[p][b]
                         /\ Safe(p, b, v) \/ undone'[p][b] >= v
    <3>1. CASE acked'[p][b] = acked[p][b]
      BY <1>2, <1>3, <3>1 DEF Delivered
    <3>2. CASE \E t \in Threads : /\ Written(t, p, b) /\ acked'[p][b] = op[t].version
                                  /\ op[t].pc = "throttled" \/ undone'[p][b] >= op[t].version
      BY <1>2, <1>3, <3>2 DEF Delivered, Written
    <3> QED
      BY <3>1, <3>2, AckedSteps
  <2>2. Safe(p, b, v)'
    BY <1>4, <1>5, <2>1
  <2> QED
    BY <2>1, <2>2 DEF Safe, Held, Owed
<1>8. ASSUME NEW t \in Threads, Written(t, p, b)', op'[t].pc = "throttled"
      PROVE  Safe(p, b, op[t].version)'
  <2>1. op'[t].kind = "write" /\ op'[t].path = p /\ b \in Queue!Interval(op'[t].start, op'[t].end)
    BY <1>8 DEF Written
  <2>2. CASE op'[t] = op[t]
    <3>1. PICK v \in Nat : v = op[t].version /\ Safe(p, b, v)
      BY <1>2, <1>3, <1>8, <2>1, <2>2 DEF Delivered, Written
    <3>2. Safe(p, b, v)'
      BY <1>4, <3>1
    <3> QED
      BY <2>2, <3>1, <3>2 DEF Safe, Held, Owed
  <2>3. CASE WriteQueued(t)
    <3>1. /\ WriteEnqueue(t) /\ Written(t, p, b) /\ op[t].kind = "write" /\ op[t].pc = "cached"
          /\ op'[t].version = op[t].version
      BY <2>1, <2>3 DEF WriteQueued, WriteEnqueue, Written
    <3>2. PICK v \in Nat : v = op[t].version /\ Held(p, b, v)
      BY <1>2, <1>3, <3>1 DEF Buffered
    <3>3. Held(p, b, v)' /\ b \in dirty'[p]
      BY <3>1, <3>2, HeldKept, QueueMoves
    <3> QED
      BY <3>1, <3>2, <3>3 DEF Safe, Held, Owed
  <2> QED
    BY <1>6, <1>8, <2>1, <2>2, <2>3 DEF OpStep, Idle, WriteBegins, DrainBegun, RequestBegins
<1>9. ASSUME NEW t \in Threads, op'[t].kind = "flush", op'[t].path = p
      PROVE  Safe(p, b, floor[t][b])'
  <2>1. PICK v \in Nat : v = floor'[t][b] /\ Safe(p, b, v)
    <3>1. CASE op'[t] = op[t]
      <4>1. floor'[t] = floor[t]
        BY <1>9, <3>1, FloorSteps DEF Idle
      <4> QED
        BY <1>2, <1>3, <1>9, <3>1, <4>1 DEF Delivered
    <3>2. CASE \E q \in Paths, n \in 0 .. FileSize : DrainBegun(t, q, n)
      <4>1. Flush(t, p)
        BY <1>9, <3>2 DEF DrainBegun
      <4>2. floor'[t] = acked[p]
        BY <4>1 DEF Flush, TypesInv, HistoryTypes
      <4> QED
        BY <1>2, <1>3, <4>2 DEF Delivered
    <3> QED
      BY <1>6, <1>9, <3>1, <3>2 DEF OpStep, Idle, WriteBegins, WriteQueued, RequestBegins
  <2>2. Safe(p, b, v)'
    BY <1>4, <2>1
  <2> QED
    BY <2>1, <2>2 DEF Safe, Held, Owed
<1> QED
  BY <1>7, <1>8, <1>9 DEF Delivered

-----------------------------------------------------------------------------
\* The inductive invariant of the data path: it starts true and every step
\* keeps it.
LEMMA DataKept ==
  ASSUME NoDownloads
  PROVE  /\ Init => UseInv /\ DataInv
         /\ TypesInv /\ UseInv /\ DataInv /\ [Next]_vars => UseInv' /\ DataInv'
<1>1. ASSUME Init PROVE UseInv /\ DataInv
  <2>1. /\ \A t \in Threads : op[t] = Idle
        /\ \A p \in Paths : fill[p] = NoFill /\ dirty[p] = {}
        /\ inflight = {} /\ sends = {} /\ late = {} /\ version = 1
    BY <1>1 DEF Init, Queue!Init
  <2>2. UseInv
    BY <2>1 DEF UseInv, Exclusive, Changing, Idle
  <2>3. ASSUME NEW p \in Paths, NEW b \in Bytes
        PROVE  /\ Cached(p, b) \in {0, 1} /\ acked[p][b] = 0 /\ undone[p][b] = 0
               /\ OnTarget(p, b) \in {0, 1}
    <3>1. /\ cache[p] \in Leftover /\ acked[p] = Nothing /\ undone[p] = Nothing
          /\ remote[p] = [i \in 1 .. FileSize |-> 1]
      BY <1>1 DEF Init
    <3>2. Nothing[b] = 0
      BY DEF Nothing
    <3>3. OnTarget(p, b) \in {0, 1}
      <4>1. TypesInv
        BY <1>1, TypesKept
      <4>2. Length(remote[p]) \in 0 .. FileSize
        BY <3>1, <4>1, FileFacts DEF TypesInv, FileTypes
      <4> DEFINE f == [i \in 1 .. FileSize |-> 1]
      <4>3. b \in 0 .. FileSize - 1 /\ b < Length(f) => f[b + 1] = 1
        BY Offsets
      <4> HIDE DEF f
      <4> QED
        BY <3>1, <4>3, Offsets DEF OnTarget, ByteAt, f
    <3> QED
      BY <3>1, <3>2, <3>3, LeftoverFile, Offsets DEF Cached
  <2>4. ASSUME NEW p \in Paths, NEW b \in Bytes
        PROVE  Newest(p, b) /\ Buffered(p, b) /\ Ordered(p, b) /\ Delivered(p, b)
    <3>1. Newest(p, b)
      BY <2>1, <2>3 DEF Newest, Bound, Discarded, Idle
    <3>2. Buffered(p, b) /\ Ordered(p, b)
      BY <2>1, <2>3 DEF Buffered, Ordered, InFlight, Written, Idle
    <3>3. Safe(p, b, 0)
      BY <2>3 DEF Safe, Held, Owed
    <3> QED
      BY <2>1, <2>3, <3>1, <3>2, <3>3 DEF Delivered, Written, Idle
  <2> QED
    BY <2>2, <2>4 DEF DataInv
<1>2. ASSUME TypesInv, UseInv, DataInv, Next PROVE UseInv' /\ DataInv'
  BY <1>2, UseKept, NewestKept, BufferedKept, OrderedKept, DeliveredKept DEF DataInv
<1>3. ASSUME UseInv, DataInv, UNCHANGED vars PROVE UseInv' /\ DataInv'
  <2>1. UseInv'
    BY <1>3 DEF UseInv, Exclusive, vars, queueVars
  <2>2. \A p, b, v : /\ Held(p, b, v)' <=> Held(p, b, v)
                     /\ Owed(p, b, v)' <=> Owed(p, b, v)
                     /\ Bound(p, b, v)' <=> Bound(p, b, v)
    BY <1>3 DEF Held, Owed, Bound, Cached, OnTarget, InFlight, vars, queueVars
  <2>3. UNCHANGED <<op, version, undone, acked, floor, sends, late, dirty, inflight, remote>>
    BY <1>3 DEF vars, queueVars
  <2>4. ASSUME NEW p \in Paths, NEW b \in Bytes
        PROVE  (Newest(p, b) /\ Buffered(p, b) /\ Ordered(p, b) /\ Delivered(p, b))'
    <3>1. Newest(p, b) /\ Buffered(p, b) /\ Ordered(p, b) /\ Delivered(p, b)
      BY <1>3 DEF DataInv
    <3> QED
      BY <2>2, <2>3, <3>1
      DEF Newest, Buffered, Ordered, Delivered, Safe, Discarded, Written, InFlight, OnTarget
  <2> QED
    BY <2>1, <2>4 DEF DataInv
<1> QED
  BY <1>1, <1>2, <1>3

\* The inductive invariant behind close-delivers and no-going-back (write, flush and the
\* flusher, fuse_fs.rs 633-730 and 1230-1330), when nothing is downloaded into the cache.
THEOREM DataInvariant == NoDownloads => (Spec => [](UseInv /\ DataInv))
<1> SUFFICES ASSUME NoDownloads
             PROVE  Spec => [](UseInv /\ DataInv)
  OBVIOUS
<1>1. /\ Init => UseInv /\ DataInv
      /\ TypesInv /\ UseInv /\ DataInv /\ [Next]_vars => UseInv' /\ DataInv'
  BY DataKept
<1> QED
  BY <1>1, TypesInvariant, PTL DEF Spec

\* Uploads keep the "byte order for rewrites": no byte of the target's file
\* goes back to an older write from one that is still owed, while nothing is
\* downloaded into the cache.
THEOREM RewritesKeepOrder == NoDownloads => (Spec => NeverGoesBack)
<1> SUFFICES ASSUME NoDownloads
             PROVE  Spec => NeverGoesBack
  OBVIOUS
<1>1. ASSUME TypesInv, UseInv, DataInv, [Next]_vars
      PROVE  [\A p \in Paths, b \in Bytes :
                \/ ByteAt(remote'[p], b) >= ByteAt(remote[p], b)
                \/ undone'[p][b] >= ByteAt(remote[p], b)]_vars
  <2> SUFFICES ASSUME Next, NEW p \in Paths, NEW b \in Bytes
               PROVE  OnTarget(p, b)' >= OnTarget(p, b) \/ undone'[p][b] >= OnTarget(p, b)
    BY <1>1 DEF OnTarget
  <2>1. ByteTypes(p, b) /\ ByteTypes(p, b)'
    BY <1>1, ByteNumbers, TypesKept
  <2>2. /\ OnTarget(p, b) \in Nat /\ OnTarget(p, b)' \in Nat /\ undone[p][b] \in Nat /\ undone'[p][b] \in Nat
        /\ undone'[p][b] >= undone[p][b]
    BY <1>1, <2>1, UndoneGrows DEF ByteTypes
  <2>3. CASE \E m \in sends : m.phase = "sent" /\ Holds(m, p, b) /\ OnTarget(p, b)' = Carried(m, b)
    <3>1. OnTarget(p, b)' >= OnTarget(p, b) \/ undone[p][b] >= OnTarget(p, b)
      BY <1>1, <2>3 DEF DataInv, Ordered
    <3> QED
      BY <2>2, <3>1
  <2> QED
    BY <1>1, <2>2, <2>3, TargetSteps DEF TargetStep
<1> QED
  BY <1>1, TypesInvariant, DataInvariant, PTL DEF Spec, NeverGoesBack

\* A drain succeeds by a check that finds nothing of its files pending.
LEMMA DrainSucceeds ==
  ASSUME TypesInv, Next, NEW t \in Threads, drain[t].status = "check", drain'[t].status = "ok"
  PROVE  \A p \in drain[t].paths : dirty[p] = {} /\ \A q \in inflight : q.path # p
<1>1. drain \in [Threads -> Queue!Drain]
  BY QueueFacts DEF TypesInv
<1>2. ASSUME NEW u \in Threads, Draining(u)
      PROVE  \A p \in drain[t].paths : dirty[p] = {} /\ \A q \in inflight : q.path # p
  <2>1. CASE Queue!DrainChecks(u)
    <3> DEFINE pending == \E p \in drain[u].paths : Queue!Pending(p)
               st == IF ~pending THEN "ok" ELSE IF errors > drain[u].start_errors THEN "eio" ELSE "wait"
    <3>1. /\ drain' = [drain EXCEPT ![u] = [drain[u] EXCEPT !.status = st]]
          /\ st = "ok" => ~pending
      BY <2>1 DEF Queue!DrainChecks
    <3> HIDE DEF st
    <3>2. [drain[u] EXCEPT !.status = st].status = st
      BY <1>1 DEF Queue!Drain
    <3>3. u = t /\ st = "ok"
      BY <1>1, <3>1, <3>2
    <3> QED
      BY <3>1, <3>3 DEF Queue!Pending
  <2>2. CASE Queue!DrainWakes(u) \/ Queue!DrainTimesOut(u)
    <3>1. PICK st \in {"check", "eio"} : drain' = [drain EXCEPT ![u] = [drain[u] EXCEPT !.status = st]]
      BY <2>2 DEF Queue!DrainWakes, Queue!DrainTimesOut
    <3>2. [drain[u] EXCEPT !.status = st].status = st
      BY <1>1 DEF Queue!Drain
    <3>3. drain'[t].status \in {"check", "eio"}
      BY <1>1, <3>1, <3>2
    <3> QED
      BY <3>3
  <2> QED
    BY <1>2, <2>1, <2>2 DEF Draining
<1>3. ASSUME NEW u \in Threads, NEW p \in Paths, NEW n \in 0 .. FileSize,
             Flush(u, p) \/ Unlink(u, p) \/ Create(u, p) \/ SetSize(u, p, n)
      PROVE  FALSE
  <2>1. drain' = [drain EXCEPT ![u] = [status |-> "check", paths |-> {p}, start_errors |-> errors, lost |-> FALSE]]
    BY <1>3 DEF Flush, Unlink, Create, SetSize, DrainFor, Queue!DrainBegins
  <2> QED
    BY <1>1, <2>1
<1>4. ~UNCHANGED drain
  OBVIOUS
<1>5. \A q, o : ~Queue!SendEnds(q, o)
  BY EndsMoves
<1>6. \A m \in sends : ~SendAnswered(m) /\ ~SendFails(m)
  BY <1>5 DEF SendAnswered, SendFails
<1>7. \A q \in inflight : ~FlusherReads(q)
  BY <1>4, <1>5 DEF FlusherReads, queueVars
<1>8. \A u \in Threads : ~WriteEnqueue(u) /\ ~WriteReplies(u)
  BY <1>4 DEF WriteEnqueue, WriteReplies, Queue!enqueue_upload, Queue!wait_below
<1>9. ~FlusherTakes /\ ~BackoffEnds
  BY <1>4 DEF FlusherTakes, BackoffEnds, Queue!FlusherTakes, Queue!BackoffEnds, Queue!clientVars
<1>10. ~UNCHANGED queueVars
  BY <1>4 DEF queueVars
<1>11. 0 \in 0 .. FileSize
  BY Offsets
<1>12. ASSUME NEW u \in Threads, ThreadStep(u)
       PROVE  Draining(u)
  BY <1>3, <1>8, <1>10, <1>11, <1>12, QueueAlone DEF ThreadStep
<1> QED
  BY <1>2, <1>6, <1>7, <1>9, <1>10, <1>12, QueueAlone DEF Next, FlusherStep

\* "close() must not return before this file's data reached the target": when
\* flush or fsync reports success, the target holds every byte reported
\* written before it began, or a newer one, while nothing is downloaded into
\* the cache.
THEOREM FlushesDeliver == NoDownloads => (Spec => FlushDelivers)
<1> SUFFICES ASSUME NoDownloads
             PROVE  Spec => FlushDelivers
  OBVIOUS
<1>1. ASSUME TypesInv, UseInv, DataInv, [Next]_vars
      PROVE  [\A t \in Threads :
                op[t].kind = "flush" /\ drain[t].status = "check" /\ drain'[t].status = "ok" =>
                  \A b \in Bytes : \/ ByteAt(remote[op[t].path], b) >= floor[t][b]
                                  \/ undone[op[t].path][b] >= floor[t][b]]_vars
  <2> SUFFICES ASSUME Next, NEW t \in Threads, op[t].kind = "flush", drain[t].status = "check",
                      drain'[t].status = "ok", NEW b \in Bytes
               PROVE  \/ OnTarget(op[t].path, b) >= floor[t][b]
                      \/ undone[op[t].path][b] >= floor[t][b]
    BY <1>1 DEF OnTarget
  <2> DEFINE p == op[t].path
  <2>1. p \in Paths /\ drain[t].paths = {p}
    BY <1>1, OpKinds DEF TypesInv, UseInv, DrainOps
  <2>2. dirty[p] = {} /\ \A q \in inflight : q.path # p
    BY <1>1, <2>1, DrainSucceeds
  <2>3. Owed(p, b, floor[t][b])
    BY <1>1, <2>1 DEF DataInv, Delivered, Safe
  <2> QED
    BY <2>2, <2>3 DEF Owed, InFlight
<1> QED
  BY <1>1, TypesInvariant, DataInvariant, PTL DEF Spec, FlushDelivers

=============================================================================
