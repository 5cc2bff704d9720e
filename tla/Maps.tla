-------------------------------- MODULE Maps --------------------------------
(***************************************************************************)
(* The two HashMap updates the broker's code uses everywhere.  A HashMap   *)
(* is a function whose domain is the set of its keys.                      *)
(***************************************************************************)

\* map.insert(k, v): the key is added, or its value replaced.
Put(f, k, v) == [x \in DOMAIN f \cup {k} |-> IF x = k THEN v ELSE f[x]]

\* map.remove(k) for every key of K; keys that are absent are ignored.
Drop(f, K) == [x \in DOMAIN f \ K |-> f[x]]

\* The map whose only keys are K, all mapped to v, added to f.
PutAll(f, K, v) == [x \in DOMAIN f \cup K |-> IF x \in K THEN v ELSE f[x]]

\* The empty map.
NoKeys == [x \in {} |-> x]
=============================================================================
