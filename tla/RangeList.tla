----------------------------- MODULE RangeList -----------------------------
(***************************************************************************)
(* The range list of one dirty file as the code keeps it, and the two      *)
(* loops that change it: merge_range and the inner loop of take_batch      *)
(* (crates/bridge/src/fuse_fs.rs).  The list is compared with the sets of  *)
(* bytes of module ByteRanges, on which the upload queue is modelled.      *)
(*                                                                         *)
(* A loop is a function from the number of turns made to its variables; a  *)
(* turn after its end changes nothing.                                     *)
(***************************************************************************)
EXTENDS ByteRanges, Sequences, SequencesExt

Least(S) == CHOOSE n \in S : \A m \in S : n <= m
Greatest(S) == CHOOSE n \in S : \A m \in S : m <= n

\* Mutant: a range that ends where the merged one begins is skipped.
Before_or_adjacent(c, new_start) == c[2] <= new_start

\* The range c is left of the merged one and does not touch it.
Before(c, new_start) == c[2] < new_start

\* A turn of merge_range's loop, at index i (0-based, as in the code): a range
\* that ends before the merged one is skipped, one that begins after it ends
\* the loop, and any other is absorbed and removed.
MergeTurn(at) ==
  LET c == at.list[at.i + 1]
  IN  IF at.i >= Len(at.list) THEN at
      ELSE IF Before(c, at.start) THEN [at EXCEPT !.i = @ + 1]
      ELSE IF c[1] > at.end THEN at
      ELSE [list |-> RemoveAt(at.list, at.i + 1), i |-> at.i,
            start |-> Least({at.start, c[1]}), end |-> Greatest({at.end, c[2]})]

\* Every turn uses up one range of the list.
Scan(list, start, end) ==
  LET turn[n \in 0 .. Len(list)] ==
        IF n = 0 THEN [list |-> list, i |-> 0, start |-> start, end |-> end]
        ELSE MergeTurn(turn[n - 1])
  IN  turn[Len(list)]

\* The bytes of [start, end) in the range c.
SharedBytes(c, start, end) ==
  IF c[1] < end /\ start < c[2] THEN Least({c[2], end}) - Greatest({c[1], start}) ELSE 0

\* The bytes of [start, end) that the list already covers, range by range.
Covered(list, start, end) ==
  LET sum[n \in 0 .. Len(list)] ==
        IF n = 0 THEN 0 ELSE sum[n - 1] + SharedBytes(list[n], start, end)
  IN  sum[Len(list)]

merge_range_list(list, start, end) ==
  IF end <= start THEN [list |-> list, result |-> 0]
  ELSE LET scan == Scan(list, start, end)
       IN  [list |-> InsertAt(scan.list, scan.i + 1, <<scan.start, scan.end>>),
            result |-> (scan.end - scan.start) - Covered(list, start, end)]

\* Mutant: a piece is not limited to CHUNK_MAX.
PieceSize_whole(left, window_left) == Least({left, window_left})

\* The length of the next piece of a range with left bytes.
PieceSize(left, window_left) == Least({left, CHUNK_MAX, window_left})

\* A turn of take_batch's inner loop: a piece is cut off the front range,
\* until the list or the window is used up.
TakeTurn(at) ==
  LET s == at.list[1][1]
      e == at.list[1][2]
      size == PieceSize(e - s, at.window_left)
  IN  IF at.list = <<>> \/ at.window_left = 0 THEN at
      ELSE [list |-> IF e > s + size THEN [at.list EXCEPT ![1] = <<s + size, e>>] ELSE Tail(at.list),
            window_left |-> at.window_left - size,
            out |-> Append(at.out, <<s, s + size>>)]

\* The loop on one path's list.  Every turn uses up a byte of the window.
TakeFront(list, window_left) ==
  LET turn[n \in 0 .. window_left] ==
        IF n = 0 THEN [list |-> list, window_left |-> window_left, out |-> <<>>]
        ELSE TakeTurn(turn[n - 1])
  IN  turn[window_left]

-----------------------------------------------------------------------------
BytesOf(list) == UNION {Interval(list[i][1], list[i][2]) : i \in DOMAIN list}

\* "sorted, disjoint, non-adjacent" (fuse_fs.rs:431), with exactly the bytes D.
IsListOf(list, D) ==
  /\ list \in Seq(ByteRange)
  /\ \A i, j \in DOMAIN list : i < j => list[i][2] < list[j][1]
  /\ BytesOf(list) = D

=============================================================================
