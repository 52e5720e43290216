----------------------------- MODULE MCLibrary -----------------------------
(* Instances of Library for TLC. *)
EXTENDS Library, TLC

CONSTANTS d1, d2, b1

OneBatch == [d \in {d1, d2} |-> b1]

\* Safety only: requests are interchangeable, and so are topics.
LibrarySymmetry == Permutations(Requests) \cup Permutations(Topics)
=============================================================================
