------------------------------- MODULE AppChecks -------------------------------
(***************************************************************************)
(* The checks of one application as the lambda perform-application-check   *)
(* runs them (doPerformApplicationChecks): the sync check and the chain    *)
(* check of the same session at once, each in a goroutine of its own, each *)
(* left out when its blockchain does not configure it. The sync check's    *)
(* variables are those of the module extended here; the chain check has    *)
(* its own.                                                                *)
(***************************************************************************)
EXTENDS SyncCheck

CONSTANTS ChainIDs, PayloadIDs, NotANumber  \* see ChainCheck

VARIABLES configured,    \* the checks the payload's blockchain has: "sync", "chain"
          running,       \* the goroutines wg waits for
          returned,      \* has doPerformApplicationChecks returned?
          syncCheckNodes, chainCheckNodes,  \* what it returns
          chainID, chainStage, chainWaiting, nodeChains, chainFailed, chainChecked

Chain == INSTANCE ChainCheck
             WITH stage <- chainStage, waiting <- chainWaiting, chain <- nodeChains,
                  failed <- chainFailed, checkedNodes <- chainChecked

ASSUME AppChainAssumption == Chain!ChainIDAssumption

chainVars == <<chainID, chainStage, chainWaiting, nodeChains, chainFailed, chainChecked>>
appVars == <<vars, chainVars, configured, running, returned, syncCheckNodes,
             chainCheckNodes>>

AppInit == /\ Init
           /\ Chain!Init
           /\ configured \in SUBSET {"sync", "chain"}
           /\ running = {"sync", "chain"}
           /\ returned = FALSE
           /\ syncCheckNodes = {}
           /\ chainCheckNodes = {}

\* SyncCheckOptions has neither a body nor a path, or ChainIDCheck is empty.
Skip(check) == /\ check \in running \ configured
               /\ running' = running \ {check}
               /\ UNCHANGED <<vars, chainVars, configured, returned, syncCheckNodes,
                              chainCheckNodes>>

SyncStep == /\ "sync" \in running \cap configured
            /\ Check
            /\ UNCHANGED <<chainVars, configured, running, returned, syncCheckNodes,
                           chainCheckNodes>>

SyncEnds == /\ "sync" \in running
            /\ stage = "done"
            /\ syncCheckNodes' = checkedNodes
            /\ running' = running \ {"sync"}
            /\ UNCHANGED <<vars, chainVars, configured, returned, chainCheckNodes>>

ChainStep == /\ "chain" \in running \cap configured
             /\ Chain!Check
             /\ UNCHANGED <<vars, configured, running, returned, syncCheckNodes,
                            chainCheckNodes>>

ChainEnds == /\ "chain" \in running
             /\ chainStage = "done"
             /\ chainCheckNodes' = chainChecked
             /\ running' = running \ {"chain"}
             /\ UNCHANGED <<vars, chainVars, configured, returned, syncCheckNodes>>

\* wg.Wait() of doPerformApplicationChecks.
Return == /\ ~returned
          /\ running = {}
          /\ returned' = TRUE
          /\ UNCHANGED <<vars, chainVars, configured, running, syncCheckNodes,
                         chainCheckNodes>>

AppTerminated == returned /\ UNCHANGED appVars

AppNext == \/ \E check \in {"sync", "chain"} : Skip(check)
           \/ SyncStep
           \/ SyncEnds
           \/ ChainStep
           \/ ChainEnds
           \/ Return
           \/ AppTerminated

AppSpec == AppInit /\ [][AppNext]_appVars

--------------------------------------------------------------------------------

AppTypeOK == /\ TypeOK
             /\ Chain!TypeOK
             /\ configured \in SUBSET {"sync", "chain"}
             /\ running \in SUBSET {"sync", "chain"}
             /\ returned \in BOOLEAN
             /\ syncCheckNodes \in SUBSET Nodes
             /\ chainCheckNodes \in SUBSET Nodes

\* What is returned is final and exact. The chain check names the nodes that
\* answered with the blockchain's own ID: none whose relay failed, which is
\* recorded as chain 0, none that was not waited for, and no node at all when
\* the ID is no number. The sync check names what it ended with (see
\* AcceptedAgree for what that is), and a check the blockchain does not
\* configure names no node. No node is returned, or missing, for want of the
\* other check.
ReturnedExact ==
    returned =>
        /\ "sync" \in configured => stage = "done"
        /\ syncCheckNodes = IF "sync" \in configured THEN checkedNodes ELSE {}
        /\ "chain" \in configured => chainStage = "done"
        /\ chainCheckNodes = IF "chain" \in configured
                             THEN {n \in Nodes \ (chainFailed \cup chainWaiting) :
                                       nodeChains[n] = chainID}
                             ELSE {}
================================================================================
