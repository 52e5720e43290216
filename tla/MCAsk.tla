------------------------------- MODULE MCAsk -------------------------------
(* Instances of Ask for TLC. *)
EXTENDS Ask, TLC

\* Safety only: documents, topics and views are interchangeable.
AskSymmetry ==
    Permutations(Documents) \cup Permutations(Topics) \cup Permutations(Views)
=============================================================================
