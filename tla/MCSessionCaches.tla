---------------------------- MODULE MCSessionCaches ----------------------------
(***************************************************************************)
(* SessionCaches for TLC, as it is: the liveness property excludes the     *)
(* symmetry of caches and runs.                                            *)
(***************************************************************************)
EXTENDS SessionCaches
================================================================================
