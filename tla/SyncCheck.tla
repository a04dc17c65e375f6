------------------------------- MODULE SyncCheck -------------------------------
(***************************************************************************)
(* SyncChecker.Check of shared/pocket/sync-check.go: every node of a       *)
(* session and the altruist, a node the operator trusts, are asked for     *)
(* their block height, and the nodes that are in sync are returned. The    *)
(* nodes' goroutines answer on a channel in any order; a relay that fails  *)
(* counts as height 0, as does an altruist that cannot be asked.           *)
(***************************************************************************)
EXTENDS Integers, Sequences, FiniteSets

CONSTANTS Nodes,                 \* options.Session.Nodes
          MaxHeight,             \* bound: heights are -1..MaxHeight
          SyncAllowance,         \* options.SyncCheckOptions.Allowance
          DefaultSyncAllowance,  \* DefaultSyncAllowance
          TrustPercent           \* AltruistTrustThreshold, in percent

\* A dispatched session has nodes: Check indexes the first answer unasked.
ASSUME SyncAssumption == /\ IsFiniteSet(Nodes)
                         /\ Nodes # {}
                         /\ MaxHeight \in Nat
                         /\ SyncAllowance \in Nat
                         /\ DefaultSyncAllowance \in Nat
                         /\ TrustPercent \in 1..100

allowance == IF SyncAllowance = 0 THEN DefaultSyncAllowance ELSE SyncAllowance

\* What a payload may say; the negative numbers are alike to Check.
Heights == -1..MaxHeight
Log == [node : Nodes, height : Heights]

VARIABLES stage,         \* "collect", "altruist", "decide" or "done"
          waiting,       \* the nodes whose goroutine has not answered
          nodeLogs,      \* the answers: as they come, then sorted
          altruist,      \* the altruist's answer
          checkedNodes   \* the result

vars == <<stage, waiting, nodeLogs, altruist, checkedNodes>>

Init == /\ stage = "collect"
        /\ waiting = Nodes
        /\ nodeLogs = <<>>
        /\ altruist = 0
        /\ checkedNodes = {}

\* A bug to look for: a failed relay sends nothing.
NodeAnswersUnlessFailed(n, h) ==
    /\ stage = "collect"
    /\ n \in waiting
    /\ waiting' = waiting \ {n}
    /\ nodeLogs' = IF h = 0 THEN nodeLogs
                   ELSE Append(nodeLogs, [node |-> n, height |-> h])
    /\ UNCHANGED <<stage, altruist, checkedNodes>>

\* getNodeSyncLog: the channel has room for all nodes, so no answer waits.
NodeAnswers(n, h) == /\ stage = "collect"
                     /\ n \in waiting
                     /\ waiting' = waiting \ {n}
                     /\ nodeLogs' = Append(nodeLogs, [node |-> n, height |-> h])
                     /\ UNCHANGED <<stage, altruist, checkedNodes>>

IsPermutationOf(s, t) ==
    /\ Len(s) = Len(t)
    /\ {s[i] : i \in DOMAIN s} = {t[i] : i \in DOMAIN t}

Descending(s) == \A i, j \in DOMAIN s : i < j => s[i].height >= s[j].height

\* A bug to look for: the answers stay in the order they came.
CollectedUnsorted == /\ stage = "collect"
                     /\ waiting = {}
                     /\ stage' = "altruist"
                     /\ UNCHANGED <<waiting, nodeLogs, altruist, checkedNodes>>

\* wg.Wait() returned, and the answers are sorted, highest first; sort.Slice
\* leaves equal heights in any order.
Collected == /\ stage = "collect"
             /\ waiting = {}
             /\ \E s \in [1..Len(nodeLogs) -> {nodeLogs[i] : i \in DOMAIN nodeLogs}] :
                    /\ IsPermutationOf(s, nodeLogs)
                    /\ Descending(s)
                    /\ nodeLogs' = s
             /\ stage' = "altruist"
             /\ UNCHANGED <<waiting, altruist, checkedNodes>>

GetAltruistBlockHeight(h) == /\ stage = "altruist"
                             /\ altruist' = h
                             /\ stage' = "decide"
                             /\ UNCHANGED <<waiting, nodeLogs, checkedNodes>>

--------------------------------------------------------------------------------
(* getAltruistDataAndHighestBlockHeight *)

Count(P(_)) == Cardinality({i \in DOMAIN nodeLogs : P(nodeLogs[i].height)})
validNodes == Count(LAMBDA h : h > 0)
nodesAheadOfAltruist == Count(LAMBDA h : h > altruist)

topHeight == nodeLogs[1].height

\* The quotient is one of integers, taken before its conversion to a float.
isAltruistTrustworthy ==
    LET divisionValidNodes == IF validNodes <= 0 THEN 1 ELSE validNodes
    IN  (nodesAheadOfAltruist \div divisionValidNodes) * 100 < TrustPercent

\* An altruist that is not trusted is replaced by the highest node.
altruistBlockHeight == IF isAltruistTrustworthy THEN altruist ELSE topHeight

\* A top node that is too far ahead of a trusted altruist may be of another
\* chain, and is replaced by the altruist.
isHighestBlockHeightTooFar == topHeight > altruistBlockHeight + allowance

\* A bug to look for: the top node is kept.
highestBlockHeightUncorrected == topHeight

highestBlockHeight ==
    IF isAltruistTrustworthy /\ isHighestBlockHeightTooFar
    THEN altruistBlockHeight ELSE topHeight

--------------------------------------------------------------------------------
(* The rest of Check *)

maxAllowedBlockHeight ==
    allowance + IF isAltruistTrustworthy THEN altruistBlockHeight ELSE highestBlockHeight

\* A bug to look for: nodes too far ahead are let through.
isNotBehind(h) == h + allowance >= highestBlockHeight /\ h + allowance >= altruistBlockHeight

isValidNode(h) == /\ h <= maxAllowedBlockHeight
                  /\ h + allowance >= highestBlockHeight
                  /\ h + allowance >= altruistBlockHeight

Decide ==
    /\ stage = "decide"
    /\ checkedNodes' = {nodeLogs[i].node : i \in
           {j \in DOMAIN nodeLogs : nodeLogs[j].height > 0 /\ isValidNode(nodeLogs[j].height)}}
    /\ stage' = "done"
    /\ UNCHANGED <<waiting, nodeLogs, altruist>>

Check == \/ \E n \in Nodes, h \in Heights : NodeAnswers(n, h)
         \/ Collected
         \/ \E h \in Heights : GetAltruistBlockHeight(h)
         \/ Decide

Terminated == stage = "done" /\ UNCHANGED vars

Next == Check \/ Terminated

Spec == Init /\ [][Next]_vars

--------------------------------------------------------------------------------

TypeOK == /\ stage \in {"collect", "altruist", "decide", "done"}
          /\ waiting \in SUBSET Nodes
          /\ nodeLogs \in Seq(Log)
          /\ Len(nodeLogs) = Cardinality(Nodes \ waiting)
          /\ altruist \in Heights
          /\ checkedNodes \in SUBSET Nodes

HeightsOf(ns) == {h \in Heights : \E i \in DOMAIN nodeLogs :
                      nodeLogs[i].node \in ns /\ nodeLogs[i].height = h}
Answered == {h \in HeightsOf(Nodes) : h > 0}

\* Any two nodes that are returned agree: within the allowance of each other,
\* or, when a node too far ahead was set aside, both within the allowance of
\* the altruist. A node of another chain, far ahead of all others, is never
\* returned together with a node of this one.
AcceptedAgree ==
    stage = "done" =>
        \/ \A h, k \in HeightsOf(checkedNodes) : h - k <= allowance
        \/ \A h \in HeightsOf(checkedNodes) : h - altruist \in -allowance..allowance

\* Without an altruist the check still works: if any node answered, exactly
\* the nodes within the allowance of the highest are returned, in whatever
\* order the answers came.
WorksWithoutAltruist ==
    stage = "done" /\ altruist <= 0 /\ Answered # {} =>
        \A i \in DOMAIN nodeLogs :
            nodeLogs[i].node \in checkedNodes <=>
                /\ nodeLogs[i].height > 0
                /\ \A h \in Answered : nodeLogs[i].height + allowance >= h

Ahead == Cardinality({i \in DOMAIN nodeLogs : nodeLogs[i].height > altruist})
Responding == Cardinality({i \in DOMAIN nodeLogs : nodeLogs[i].height > 0})

\* Nodes of another chain, or nodes that lie, cannot put out a node of this
\* one unless they are many: a node within the allowance of the altruist is
\* left out only because of a node more than the allowance ahead of it, which
\* is itself within the allowance of the altruist, unless the share of nodes
\* ahead of the altruist reaches altruistTrustThreshold.
MinorityPutsNoneOut ==
    stage = "done" /\ altruist > 0 =>
        \A i \in DOMAIN nodeLogs :
            /\ nodeLogs[i].height > 0
            /\ nodeLogs[i].height - altruist \in -allowance..allowance
            /\ nodeLogs[i].node \notin checkedNodes
            => \E j \in DOMAIN nodeLogs :
                  /\ nodeLogs[j].height > nodeLogs[i].height + allowance
                  /\ \/ nodeLogs[j].height <= altruist + allowance
                     \/ Ahead * 100 >= Responding * TrustPercent

\* altruistTrustThreshold (run-application-checks/base.go): when more than
\* that share of the nodes that answered is ahead of the altruist, the
\* altruist is not the measure, and the highest node is returned.
MajorityOverrulesAltruist ==
    stage = "done" /\ altruist > 0 /\ Ahead * 100 > Responding * TrustPercent
        => nodeLogs[1].node \in checkedNodes
================================================================================
