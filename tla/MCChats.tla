------------------------------ MODULE MCChats ------------------------------
(* Instances of Chats for TLC. *)
EXTENDS Chats, TLC

\* Safety only: tabs, conversations and questions are interchangeable.
ChatsSymmetry ==
    Permutations(Tabs) \cup Permutations(Chats) \cup Permutations(Questions)
=============================================================================
