---------------------------- MODULE UserManager ----------------------------
(***************************************************************************)
(* server/UserManager: which connection each logged-in user is on.         *)
(*                                                                         *)
(* One std::map users_ (here online) under a mutex; every method is one    *)
(* action or one read.  A pointer that may be null is a set of at most one *)
(* connection.  Names are valid ones: login turns others away unchanged.   *)
(***************************************************************************)
EXTENDS StdMap

CONSTANTS Users, Conns

VARIABLE online

Init == online = EmptyMap

(* Mutant: a name that is taken is taken over.                             *)
LoginTakesOver(u, c, ok) ==
  /\ ok
  /\ online' = Put(online, u, c)

Login(u, c, ok) ==
  /\ ok = (u \notin DOMAIN online)
  /\ online' = IF ok THEN Put(online, u, c) ELSE online

(* A user who has logged in again from another connection stays online.    *)
Logout(u, c) ==
  online' = IF u \in DOMAIN online /\ online[u] = c
            THEN EraseKeys(online, {u}) ELSE online

Find(u) == IF u \in DOMAIN online THEN {online[u]} ELSE {}
=============================================================================
