------------------------------- MODULE ChainCheck -------------------------------
(***************************************************************************)
(* ChainChecker.Check of shared/pocket/chain-check.go: every node of a     *)
(* session is asked for the ID of its chain, and the nodes that name the   *)
(* blockchain's own are returned. A relay that fails counts as chain 0.    *)
(***************************************************************************)
EXTENDS Integers

CONSTANTS Nodes,         \* options.Session.Nodes
          ChainIDs,      \* the integers a node may answer
          PayloadIDs,    \* what the database may have as the ID of the blockchain
          NotANumber     \* one that strconv.Atoi refuses

\* No blockchain that is checked has the ID 0: its failed nodes would pass.
\* AppChecks, which instantiates this module, assumes it.
ChainIDAssumption == /\ ChainIDs \subseteq Int
                     /\ PayloadIDs \subseteq (ChainIDs \ {0}) \cup {NotANumber}

VARIABLES chainID,       \* options.ChainID
          stage,         \* "parse", "collect" or "done"
          waiting,       \* the nodes whose goroutine has not answered
          chain,         \* what the others answered
          failed,        \* history: the nodes whose relay failed
          checkedNodes   \* the result

vars == <<chainID, stage, waiting, chain, failed, checkedNodes>>

Init == /\ chainID \in PayloadIDs
        /\ stage = "parse"
        /\ waiting = Nodes
        /\ chain = [n \in Nodes |-> 0]
        /\ failed = {}
        /\ checkedNodes = {}

\* With an ID that is no number nobody is asked, and no node is returned.
ParseChainID == /\ stage = "parse"
                /\ stage' = IF chainID = NotANumber THEN "done" ELSE "collect"
                /\ UNCHANGED <<chainID, waiting, chain, failed, checkedNodes>>

Answer(n, id) == /\ stage = "collect"
                 /\ n \in waiting
                 /\ waiting' = waiting \ {n}
                 /\ chain' = [chain EXCEPT ![n] = id]
                 /\ UNCHANGED <<chainID, stage, checkedNodes>>

\* getNodeChainLog
NodeAnswers(n, id) == Answer(n, id) /\ UNCHANGED failed

\* A bug to look for: the error is not looked at, and the node is taken to be
\* on the chain that is checked.
RelayFailsUnnoticed(n) == Answer(n, chainID) /\ failed' = failed \cup {n}

RelayFails(n) == Answer(n, 0) /\ failed' = failed \cup {n}

\* wg.Wait() returned: all answers are in the channel.
Compare == /\ stage = "collect"
           /\ waiting = {}
           /\ checkedNodes' = {n \in Nodes : chain[n] = chainID}
           /\ stage' = "done"
           /\ UNCHANGED <<chainID, waiting, chain, failed>>

Check == \/ ParseChainID
         \/ \E n \in Nodes : RelayFails(n) \/ \E id \in ChainIDs : NodeAnswers(n, id)
         \/ Compare

TypeOK == /\ chainID \in PayloadIDs
          /\ stage \in {"parse", "collect", "done"}
          /\ waiting \in SUBSET Nodes
          /\ chain \in [Nodes -> ChainIDs \cup {0}]
          /\ failed \in SUBSET Nodes
          /\ checkedNodes \in SUBSET Nodes
================================================================================
