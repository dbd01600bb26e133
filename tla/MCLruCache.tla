------------------------------ MODULE MCLruCache ------------------------------
(***************************************************************************)
(* Three keys for a cache of at most one, two or three entries, with one   *)
(* node more than it needs, so that freed nodes are used again.  A node is *)
(* as good as another, and so is a value.                                  *)
(***************************************************************************)
EXTENDS LruCache, TLC

Symmetry == Permutations(Nodes) \cup Permutations(Values)
===============================================================================
