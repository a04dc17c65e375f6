------------------------------ MODULE MCCliChecks ------------------------------
(***************************************************************************)
(* CliChecks for TLC: applications a and b are staked, b on two chains,    *)
(* and c is on a page nobody asks for; the database has b twice, or lacks  *)
(* a; chain y may be missing, or have the chain check only.                *)
(***************************************************************************)
EXTENDS CliChecks

App(k, chains) == [key |-> k, chains |-> chains]
Row(k, id) == [key |-> k, id |-> id]

MCNetworks == {<<App("a", <<"y">>), App("b", <<"y", "x">>), App("c", <<"x">>)>>}
MCDatabases == {<<Row("b", 1), Row("a", 2), Row("b", 3)>>, <<Row("c", 4), Row("b", 5)>>}
Both == {"chain", "sync"}
MCBlockchains == {[ch \in {"x", "y"} |-> IF ch = "x" THEN Both ELSE {"chain"}],
                  [ch \in {"x"} |-> Both]}
================================================================================
