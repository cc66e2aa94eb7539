--------------------------- MODULE MCWriteBehind ---------------------------
(***************************************************************************)
(* The data path of a mount on small instances.                            *)
(***************************************************************************)
EXTENDS WriteBehind, TLC

\* Threads are interchangeable.
Symmetry == Permutations(Threads)

=============================================================================
