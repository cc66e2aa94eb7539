--------------------------- MODULE MCUploadQueue ---------------------------
(***************************************************************************)
(* The upload queue on small instances, and the code's loops over the      *)
(* range list of each dirty path beside it.                                *)
(***************************************************************************)
EXTENDS UploadQueue, RangeList

\* The lists that the code can hold, and the bytes they cover.  (There are no
\* more ranges than bytes.)
Lists == UNION {[1 .. n -> ByteRange] : n \in 0 .. FileSize}
ListedBytes == {<<list, BytesOf(list)>> : list \in {l \in Lists : IsListOf(l, BytesOf(l))}}
ListsOf(D) == {c[1] : c \in {c \in ListedBytes : c[2] = D}}

\* On the list of every dirty path (there is one), merge_range with any range
\* yields the sorted, disjoint and non-adjacent list of the old bytes and the
\* new ones, and returns what its set form in the queue computes.
MergeIsUnion ==
  \A D \in {dirty[p] : p \in Paths} :
    /\ ListsOf(D) # {}
    /\ \A list \in ListsOf(D), start \in 0 .. FileSize, end \in 0 .. FileSize :
         LET merged == merge_range_list(list, start, end)
         IN  /\ IsListOf(merged.list, D \cup Interval(start, end))
             /\ merged.result = IF start < end THEN merge_range(D, start, end) ELSE 0

\* From the list of every dirty path, take_batch claims the lowest bytes, as
\* many as the window leaves, in exactly the pieces Chunks names, each byte
\* once, and leaves the list of the others.
TakeIsChunks ==
  \A D \in {dirty[p] : p \in Paths} :
    \A list \in ListsOf(D), window_left \in 1 .. WRITE_WINDOW :
      LET taken == TakeFront(list, window_left)
          claimed == BytesOf(taken.out)
      IN  /\ claimed \subseteq D
          /\ IsListOf(taken.list, D \ claimed)
          /\ \A a \in claimed, b \in D \ claimed : a < b
          /\ Cardinality(claimed) = Least({window_left, Cardinality(D)})
          /\ ToSet(taken.out) = Chunks(claimed)
          /\ Len(taken.out) = Cardinality(Chunks(claimed))

=============================================================================
