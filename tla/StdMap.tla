------------------------------- MODULE StdMap -------------------------------
(***************************************************************************)
(* A std::map is the function from the keys it holds to their values.      *)
(***************************************************************************)
EXTENDS Functions

EmptyMap == [k \in {} |-> k]

(* map[key] = value                                                        *)
Put(map, key, value) ==
  [k \in DOMAIN map \cup {key} |-> IF k = key THEN value ELSE map[k]]

(* map.erase(key) for every key of a set; absent keys are ignored.         *)
EraseKeys(map, keys) == Restrict(map, DOMAIN map \ keys)
=============================================================================
