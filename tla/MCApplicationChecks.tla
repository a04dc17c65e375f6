-------------------------- MODULE MCApplicationChecks --------------------------
(***************************************************************************)
(* ApplicationChecks for TLC: three sessions of three applications, or of  *)
(* two, one of them on two chains.                                         *)
(***************************************************************************)
EXTENDS ApplicationChecks

CONSTANTS s1, s2, s3

OneChainEach == [s \in Sessions |-> s]
TwoChains == [s \in Sessions |-> IF s = s2 THEN s1 ELSE s]
================================================================================
