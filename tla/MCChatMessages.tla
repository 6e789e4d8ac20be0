-------------------------- MODULE MCChatMessages ---------------------------
(* Connections and users are interchangeable.                              *)
EXTENDS ChatMessages, TLC

Symmetry == Permutations(Conns) \cup Permutations(Users)
=============================================================================
