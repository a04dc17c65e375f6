----------------------------- MODULE MCBatchWriter -----------------------------
(***************************************************************************)
(* BatchWriter for TLC. The runs check liveness, so no symmetry is used.   *)
(***************************************************************************)
EXTENDS BatchWriter
================================================================================
