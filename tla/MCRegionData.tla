------------------------------ MODULE MCRegionData ------------------------------
(***************************************************************************)
(* RegionData for TLC: a cluster of two shards, one of which has the keys  *)
(* of a single node, and what is alike in it.                              *)
(***************************************************************************)
EXTENDS RegionData, TLC

CONSTANTS n1, n2, n3, a, b

TwoShards == [n \in Nodes |-> IF n = n3 THEN b ELSE a]

Symmetry == Permutations({n1, n2}) \cup Permutations(Sessions)
================================================================================
