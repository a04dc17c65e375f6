------------------------------ MODULE MCAppChecks ------------------------------
(***************************************************************************)
(* AppChecks for TLC: the nodes are alike to both checks.                  *)
(***************************************************************************)
EXTENDS AppChecks, TLC

\* A blockchain with an ID, and one whose ID is no number.
IDs == {1, NotANumber}

Symmetry == Permutations(Nodes)
================================================================================
