--------------------------- MODULE MCChatServer ----------------------------
(* Connections, users and call ids are interchangeable.                    *)
EXTENDS ChatServer, TLC

Symmetry == Permutations(Conns) \cup Permutations(Users)
              \cup Permutations(CallIds)
=============================================================================
