---------------------------- MODULE MCJobEvents ----------------------------
(* An instance of JobEvents for TLC. *)
EXTENDS JobEvents, TLC

RequestSymmetry == Permutations(Requests)
=============================================================================
