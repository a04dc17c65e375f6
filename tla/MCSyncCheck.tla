------------------------------ MODULE MCSyncCheck ------------------------------
(***************************************************************************)
(* SyncCheck for TLC: the nodes are alike to it.                           *)
(***************************************************************************)
EXTENDS SyncCheck, TLC

Symmetry == Permutations(Nodes)
================================================================================
