--------------------------- MODULE MCDispatchSessions ---------------------------
(***************************************************************************)
(* DispatchSessions for TLC: the symmetry of its model values. The runs    *)
(* with liveness properties do not use it.                                 *)
(***************************************************************************)
EXTENDS DispatchSessions, TLC

Symmetry == Permutations(Sessions) \cup Permutations(Caches)
================================================================================
