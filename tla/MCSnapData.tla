------------------------------ MODULE MCSnapData -------------------------------
(***************************************************************************)
(* SnapData for TLC: the symmetry of its model values. The runs are        *)
(* numbered, and not symmetric.                                            *)
(***************************************************************************)
EXTENDS SnapData, TLC

Symmetry == Permutations(Regions) \cup Permutations(Sessions) \cup Permutations(Stores)
================================================================================
