----------------------------- MODULE ByteRanges -----------------------------
(***************************************************************************)
(* Half-open byte ranges of one file (crates/bridge/src/fuse_fs.rs,        *)
(* merge_range and the inner loop of take_batch).  A sorted, disjoint and  *)
(* non-adjacent list of ranges is determined by the bytes it covers, so    *)
(* the operators here work on sets of bytes.                               *)
(***************************************************************************)
EXTENDS Naturals, FiniteSets

CONSTANTS
  FileSize,   \* bytes 0 .. FileSize - 1 of a file can be written
  CHUNK_MAX   \* most bytes in one WRITE_AT

ASSUME RangeAssumption == FileSize \in Nat /\ CHUNK_MAX \in Nat \ {0}

Bytes == 0 .. FileSize - 1

\* The bytes of the half-open range [s, e).
Interval(s, e) == {b \in Bytes : s <= b /\ b < e}

ByteRange == {c \in Bytes \X (1 .. FileSize) : c[1] < c[2]}

\* merge_range: the one range that [s, e) and the ranges it touches become.
MergedRange(D, s, e) ==
  {b \in D \cup Interval(s, e) :
     \A c \in Bytes : (b <= c /\ c < s) \/ (e <= c /\ c <= b) => c \in D}

\* Mutant: every byte of the list is subtracted, not only those of [s, e).
merge_range_all(D, s, e) ==
  Cardinality(MergedRange(D, s, e)) - Cardinality(D)

\* What merge_range returns: the length of the merged range less the bytes
\* of [s, e) that were covered before.
merge_range(D, s, e) ==
  Cardinality(MergedRange(D, s, e)) - Cardinality(D \cap Interval(s, e))

\* The ranges that take_batch claims when it claims exactly the bytes S:
\* every run of S cut into chunks of CHUNK_MAX from its start r, the last
\* one shorter.
Chunks(S) ==
  {c \in ByteRange :
     /\ \/ c[2] = c[1] + CHUNK_MAX
        \/ c[2] < c[1] + CHUNK_MAX /\ c[2] \notin S
     /\ Interval(c[1], c[2]) \subseteq S
     /\ \E r \in Bytes, k \in 0 .. FileSize :
          /\ c[1] = r + k * CHUNK_MAX
          /\ Interval(r, c[1] + 1) \subseteq S
          /\ r = 0 \/ (r - 1) \notin S}

=============================================================================
