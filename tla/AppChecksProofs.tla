---------------------------- MODULE AppChecksProofs ----------------------------
(***************************************************************************)
(* What the checks of one application return, for every session, every     *)
(* allowance and every trust threshold, whatever the nodes and the         *)
(* altruist answer and in whatever order.                                  *)
(***************************************************************************)
EXTENDS AppChecks, FiniteSetTheorems, TLAPS

--------------------------------------------------------------------------------
(* The sync check *)

\* Every node that has answered has exactly one log, since there are as many
\* logs (TypeOK) as nodes that answered.
AnsweredAreLogged == {nodeLogs[i].node : i \in DOMAIN nodeLogs} = Nodes \ waiting

Sorted == stage # "collect" => waiting = {} /\ Descending(nodeLogs)

Result == stage = "done" =>
    checkedNodes = {nodeLogs[i].node : i \in
           {j \in DOMAIN nodeLogs : nodeLogs[j].height > 0 /\ isValidNode(nodeLogs[j].height)}}

SyncIInv == TypeOK /\ AnsweredAreLogged /\ Sorted /\ Result

LEMMA LogsAreFinite == \A T \in SUBSET Nodes : IsFiniteSet(T) /\ Cardinality(T) \in Nat
BY SyncAssumption, FS_Subset, FS_CardinalityType

LEMMA OneLogEach ==
    ASSUME TypeOK, AnsweredAreLogged, NEW i \in DOMAIN nodeLogs, NEW j \in DOMAIN nodeLogs,
           nodeLogs[i].node = nodeLogs[j].node
    PROVE  i = j
<1>. DEFINE D == 1..Len(nodeLogs)
            T == Nodes \ waiting
            f == [m \in D |-> nodeLogs[m].node]
<1>1. DOMAIN nodeLogs = D /\ Len(nodeLogs) \in Nat
  BY DEF TypeOK
<1>2. f \in Surjection(D, T)
  BY <1>1 DEF AnsweredAreLogged, Surjection
<1>3. IsFiniteSet(D) /\ Cardinality(D) = Cardinality(T)
  <2>1. Len(nodeLogs) = Cardinality(T)
    BY DEF TypeOK
  <2>2. IsFiniteSet(D) /\ Cardinality(D) = IF 1 > Len(nodeLogs) THEN 0 ELSE Len(nodeLogs) - 1 + 1
    BY <1>1, FS_Interval
  <2>. QED BY <1>1, <2>1, <2>2
<1>4. f \in Injection(D, T)
  <2>. HIDE DEF D, T, f
  <2>. QED BY <1>2, <1>3, FS_SurjSameCardinalityImpliesInj
<1>. QED BY <1>1, <1>4 DEF Injection, IsInjective

LEMMA NodeAnswersStep ==
    ASSUME SyncIInv, NEW n \in Nodes, NEW h \in Heights, NodeAnswers(n, h)
    PROVE  SyncIInv'
<1>. DEFINE log == [node |-> n, height |-> h]
<1>1. /\ stage = "collect" /\ n \in waiting
      /\ waiting' = waiting \ {n} /\ nodeLogs' = Append(nodeLogs, log)
      /\ UNCHANGED <<stage, altruist, checkedNodes>>
  BY DEF NodeAnswers
<1>2. log \in Log
  BY DEF Log
<1>3. nodeLogs \in Seq(Log) /\ waiting \in SUBSET Nodes
  BY DEF SyncIInv, TypeOK
<1>4. nodeLogs' \in Seq(Log) /\ Len(nodeLogs') = Len(nodeLogs) + 1
  BY <1>1, <1>2, <1>3
<1>5. Cardinality(Nodes \ waiting') = Cardinality(Nodes \ waiting) + 1
  <2>1. Nodes \ waiting' = (Nodes \ waiting) \cup {n}
    BY <1>1, <1>3
  <2>. QED BY <1>1, <2>1, LogsAreFinite, FS_AddElement
<1>6. TypeOK'
  BY <1>1, <1>3, <1>4, <1>5 DEF SyncIInv, TypeOK
<1>7. AnsweredAreLogged'
  <2>1. /\ DOMAIN nodeLogs' = DOMAIN nodeLogs \cup {Len(nodeLogs) + 1}
        /\ \A i \in DOMAIN nodeLogs : nodeLogs'[i] = nodeLogs[i]
        /\ nodeLogs'[Len(nodeLogs) + 1] = log
    BY <1>1, <1>3
  <2>2. {nodeLogs'[i].node : i \in DOMAIN nodeLogs'}
            = {nodeLogs[i].node : i \in DOMAIN nodeLogs} \cup {n}
    BY <2>1
  <2>. QED BY <1>1, <1>3, <2>2 DEF SyncIInv, AnsweredAreLogged
<1>. QED BY <1>1, <1>6, <1>7 DEF SyncIInv, Sorted, Result

LEMMA CollectedStep == SyncIInv /\ Collected => SyncIInv'
<1>. SUFFICES ASSUME SyncIInv, Collected PROVE SyncIInv'
  OBVIOUS
<1>1. /\ waiting = {} /\ stage' = "altruist"
      /\ UNCHANGED <<waiting, altruist, checkedNodes>>
      /\ nodeLogs' \in [1..Len(nodeLogs) -> {nodeLogs[i] : i \in DOMAIN nodeLogs}]
      /\ IsPermutationOf(nodeLogs', nodeLogs) /\ Descending(nodeLogs')
  BY DEF Collected
<1>2. nodeLogs \in Seq(Log)
  BY DEF SyncIInv, TypeOK
<1>3. nodeLogs' \in Seq(Log) /\ Len(nodeLogs') = Len(nodeLogs)
  BY <1>1, <1>2 DEF IsPermutationOf
<1>4. TypeOK'
  BY <1>1, <1>3 DEF SyncIInv, TypeOK
<1>5. AnsweredAreLogged'
  <2>1. {nodeLogs'[i] : i \in DOMAIN nodeLogs'} = {nodeLogs[i] : i \in DOMAIN nodeLogs}
    BY <1>1 DEF IsPermutationOf
  <2>2. {nodeLogs'[i].node : i \in DOMAIN nodeLogs'} = {nodeLogs[i].node : i \in DOMAIN nodeLogs}
    <3>1. \A i \in DOMAIN nodeLogs' : \E j \in DOMAIN nodeLogs : nodeLogs'[i] = nodeLogs[j]
      BY <2>1
    <3>2. \A j \in DOMAIN nodeLogs : \E i \in DOMAIN nodeLogs' : nodeLogs'[i] = nodeLogs[j]
      BY <2>1
    <3>. QED BY <3>1, <3>2
  <2>. QED BY <1>1, <2>2 DEF SyncIInv, AnsweredAreLogged
<1>. QED BY <1>1, <1>4, <1>5 DEF SyncIInv, Sorted, Result

LEMMA SyncStepIInv == SyncIInv /\ [Check]_vars => SyncIInv'
<1>. SUFFICES ASSUME SyncIInv, [Check]_vars PROVE SyncIInv'
  OBVIOUS
<1>1. CASE \E n \in Nodes, h \in Heights : NodeAnswers(n, h)
  BY <1>1, NodeAnswersStep
<1>2. CASE Collected
  BY <1>2, CollectedStep
<1>3. ASSUME NEW h \in Heights, GetAltruistBlockHeight(h) PROVE SyncIInv'
  BY <1>3 DEF GetAltruistBlockHeight, SyncIInv, TypeOK, AnsweredAreLogged, Sorted, Result
<1>4. CASE Decide
  <2>1. UNCHANGED <<waiting, nodeLogs, altruist>> /\ stage = "decide" /\ stage' = "done"
    BY <1>4 DEF Decide
  <2>2. Result'
    BY <1>4 DEF Decide, Result, isValidNode, maxAllowedBlockHeight, highestBlockHeight,
                altruistBlockHeight, isHighestBlockHeightTooFar, isAltruistTrustworthy,
                topHeight, validNodes, nodesAheadOfAltruist, Count
  <2>3. TypeOK'
    <3>1. checkedNodes' \in SUBSET Nodes
      <4>1. \A i \in DOMAIN nodeLogs : nodeLogs[i].node \in Nodes
        BY DEF SyncIInv, AnsweredAreLogged
      <4>. QED BY <1>4, <4>1 DEF Decide
    <3>. QED BY <2>1, <3>1 DEF SyncIInv, TypeOK
  <2>. QED BY <2>1, <2>2, <2>3 DEF SyncIInv, AnsweredAreLogged, Sorted
<1>5. CASE UNCHANGED vars
  <2>1. TypeOK' /\ AnsweredAreLogged' /\ Sorted'
    BY <1>5 DEF vars, SyncIInv, TypeOK, AnsweredAreLogged, Sorted
  <2>2. Result'
    BY <1>5 DEF vars, SyncIInv, Result, isValidNode, maxAllowedBlockHeight, highestBlockHeight,
                altruistBlockHeight, isHighestBlockHeightTooFar, isAltruistTrustworthy,
                topHeight, validNodes, nodesAheadOfAltruist, Count
  <2>. QED BY <2>1, <2>2 DEF SyncIInv
<1>. QED BY <1>1, <1>2, <1>3, <1>4, <1>5 DEF Check

LEMMA SyncInit == Init => SyncIInv
<1>. SUFFICES ASSUME Init PROVE SyncIInv
  OBVIOUS
<1>1. Nodes \ waiting = {}
  BY DEF Init
<1>2. TypeOK
  BY <1>1, FS_EmptySet, SyncAssumption DEF Init, TypeOK, Heights
<1>3. AnsweredAreLogged
  BY <1>1 DEF Init, AnsweredAreLogged
<1>. QED BY <1>2, <1>3 DEF Init, SyncIInv, Sorted, Result

(***************************************************************************)
(* The verdict. When the check decides, the first log is of the highest    *)
(* node.                                                                   *)
(***************************************************************************)
LEMMA Allowance == allowance \in Nat
BY SyncAssumption DEF allowance

LEMMA TopIsHighest ==
    ASSUME SyncIInv, stage = "done"
    PROVE  /\ 1 \in DOMAIN nodeLogs /\ topHeight \in Int /\ altruist \in Int
           /\ \A i \in DOMAIN nodeLogs : /\ nodeLogs[i] \in Log
                                        /\ nodeLogs[i].height \in Int
                                        /\ nodeLogs[i].height <= topHeight
<1>1. nodeLogs \in Seq(Log) /\ altruist \in Int
  BY SyncAssumption DEF SyncIInv, TypeOK, Heights
<1>2. Len(nodeLogs) = Cardinality(Nodes)
  <2>1. Nodes \ waiting = Nodes
    BY DEF SyncIInv, Sorted
  <2>. QED BY <2>1 DEF SyncIInv, TypeOK
<1>3. Len(nodeLogs) # 0
  BY <1>2, SyncAssumption, FS_EmptySet
<1>4. 1 \in DOMAIN nodeLogs
  BY <1>1, <1>3
<1>5. \A i \in DOMAIN nodeLogs : nodeLogs[i] \in Log /\ nodeLogs[i].height \in Int
  <2>1. \A i \in DOMAIN nodeLogs : nodeLogs[i] \in Log
    BY <1>1
  <2>. QED BY <2>1, SyncAssumption DEF Log, Heights
<1>6. \A i \in DOMAIN nodeLogs : nodeLogs[i].height <= topHeight
  <2>. SUFFICES ASSUME NEW i \in DOMAIN nodeLogs, i # 1
                PROVE  nodeLogs[i].height <= topHeight
    BY <1>4, <1>5 DEF topHeight
  <2>1. i > 1
    BY <1>1
  <2>. QED BY <1>4, <1>5, <2>1 DEF SyncIInv, Sorted, Descending, topHeight
<1>. QED BY <1>1, <1>4, <1>5, <1>6 DEF topHeight

\* An integer quotient is below the threshold, at most 1, unless at least as
\* many nodes are ahead of the altruist as answered.
LEMMA UntrustedWhenMany ==
    ASSUME SyncIInv, stage = "done", NEW i \in DOMAIN nodeLogs, nodeLogs[i].height > 0,
           ~isAltruistTrustworthy
    PROVE  Ahead * 100 >= Responding * TrustPercent
<1>. DEFINE A == {j \in DOMAIN nodeLogs : nodeLogs[j].height > altruist}
            R == {j \in DOMAIN nodeLogs : nodeLogs[j].height > 0}
<1>1. IsFiniteSet(A) /\ IsFiniteSet(R)
  <2>1. DOMAIN nodeLogs = 1..Len(nodeLogs) /\ Len(nodeLogs) \in Nat
    BY DEF SyncIInv, TypeOK
  <2>2. IsFiniteSet(DOMAIN nodeLogs)
    BY <2>1, FS_Interval
  <2>. QED BY <2>2, FS_Subset
<1>2. R # {}
  OBVIOUS
<1>3. Cardinality(A) \in Nat /\ Cardinality(R) \in Nat /\ Cardinality(R) > 0
  <2>. HIDE DEF A, R
  <2>. QED BY <1>1, <1>2, FS_CardinalityType, FS_EmptySet
<1>4. nodesAheadOfAltruist = Cardinality(A) /\ validNodes = Cardinality(R)
  BY DEF nodesAheadOfAltruist, validNodes, Count
<1>5. Ahead = Cardinality(A) /\ Responding = Cardinality(R)
  BY DEF Ahead, Responding
<1>. HIDE DEF A, R
<1>6. (Cardinality(A) \div Cardinality(R)) * 100 >= TrustPercent
  BY <1>3, <1>4, SyncAssumption DEF isAltruistTrustworthy
<1>7. Cardinality(A) \div Cardinality(R) >= 1
  BY <1>3, <1>6, SyncAssumption
<1>8. Cardinality(A) >= Cardinality(R)
  BY <1>3, <1>7
<1>9. Cardinality(R) * TrustPercent <= Cardinality(R) * 100
  BY <1>3, SyncAssumption
<1>. QED BY <1>3, <1>5, <1>8, <1>9, SyncAssumption

\* Every node that answered is ahead of an altruist that did not.
LEMMA NotTrustedWithoutAnswer ==
    ASSUME SyncIInv, stage = "done", NEW i \in DOMAIN nodeLogs, nodeLogs[i].height > 0,
           altruist <= 0
    PROVE  ~isAltruistTrustworthy
<1>. DEFINE A == {j \in DOMAIN nodeLogs : nodeLogs[j].height > altruist}
            R == {j \in DOMAIN nodeLogs : nodeLogs[j].height > 0}
<1>1. IsFiniteSet(A)
  <2>1. /\ DOMAIN nodeLogs = 1..Len(nodeLogs)
        /\ 1 \in Int /\ Len(nodeLogs) \in Int
    BY DEF SyncIInv, TypeOK
  <2>2. IsFiniteSet(DOMAIN nodeLogs)
    BY <2>1, FS_Interval, Zenon
  <2>. QED BY <2>2, FS_Subset
<1>2. R \subseteq A /\ R # {}
  BY TopIsHighest
<1>3. /\ Cardinality(A) \in Nat /\ Cardinality(R) \in Nat
      /\ Cardinality(R) > 0 /\ Cardinality(R) <= Cardinality(A)
  <2>. HIDE DEF A, R
  <2>. QED BY <1>1, <1>2, FS_Subset, FS_CardinalityType, FS_EmptySet
<1>4. nodesAheadOfAltruist = Cardinality(A) /\ validNodes = Cardinality(R)
  BY DEF nodesAheadOfAltruist, validNodes, Count
<1>5. Cardinality(A) \div Cardinality(R) >= 1
  <2>. HIDE DEF A, R
  <2>. QED BY <1>3
<1>6. Cardinality(A) \div Cardinality(R) \in Int
  <2>. HIDE DEF A, R
  <2>. QED BY <1>3
<1>. HIDE DEF A, R
<1>. QED BY <1>3, <1>4, <1>5, <1>6, SyncAssumption DEF isAltruistTrustworthy

\* What the three conditions of isValidNode amount to.
LEMMA ValidHeights ==
    ASSUME SyncIInv, stage = "done", NEW h \in Int
    PROVE  isValidNode(h) <=>
               IF ~isAltruistTrustworthy
               THEN h - topHeight \in -allowance..allowance
               ELSE /\ h - altruist \in -allowance..allowance
                    /\ topHeight <= altruist + allowance => h + allowance >= topHeight
<1>. HIDE DEF topHeight
<1>1. topHeight \in Int /\ altruist \in Int
  BY TopIsHighest DEF topHeight
<1>. QED BY <1>1, Allowance
         DEF isValidNode, maxAllowedBlockHeight, highestBlockHeight, altruistBlockHeight,
             isHighestBlockHeightTooFar

LEMMA AcceptedLog ==
    ASSUME SyncIInv, stage = "done", NEW i \in DOMAIN nodeLogs
    PROVE  nodeLogs[i].node \in checkedNodes
               <=> nodeLogs[i].height > 0 /\ isValidNode(nodeLogs[i].height)
BY OneLogEach DEF SyncIInv, Result

LEMMA AcceptedHeights ==
    ASSUME SyncIInv, stage = "done", NEW h \in HeightsOf(checkedNodes)
    PROVE  h \in Int /\ h <= topHeight /\ isValidNode(h)
BY TopIsHighest, AcceptedLog DEF HeightsOf

LEMMA AgreeLemma == SyncIInv => AcceptedAgree
<1>. SUFFICES ASSUME SyncIInv, stage = "done"
              PROVE  \/ \A h, k \in HeightsOf(checkedNodes) : h - k <= allowance
                     \/ \A h \in HeightsOf(checkedNodes) : h - altruist \in -allowance..allowance
  BY DEF AcceptedAgree
<1>1. topHeight \in Int /\ altruist \in Int
  BY TopIsHighest
<1>2. CASE isAltruistTrustworthy
  BY <1>1, <1>2, AcceptedHeights, ValidHeights, Allowance
<1>3. CASE ~isAltruistTrustworthy
  <2>. SUFFICES ASSUME NEW h \in HeightsOf(checkedNodes), NEW k \in HeightsOf(checkedNodes)
                PROVE  h - k <= allowance
    OBVIOUS
  <2>1. h \in Int /\ k \in Int /\ h <= topHeight /\ k - topHeight \in -allowance..allowance
    BY <1>3, AcceptedHeights, ValidHeights
  <2>. QED BY <1>1, <2>1, Allowance
<1>. QED BY <1>2, <1>3

LEMMA MinorityLemma == SyncIInv => MinorityPutsNoneOut
<1>. SUFFICES ASSUME SyncIInv, stage = "done", altruist > 0, NEW i \in DOMAIN nodeLogs,
                     nodeLogs[i].height > 0,
                     nodeLogs[i].height - altruist \in -allowance..allowance,
                     nodeLogs[i].node \notin checkedNodes
              PROVE  /\ topHeight > nodeLogs[i].height + allowance
                     /\ \/ topHeight <= altruist + allowance
                        \/ Ahead * 100 >= Responding * TrustPercent
  BY TopIsHighest DEF MinorityPutsNoneOut, topHeight
<1>1. /\ altruist \in Int /\ topHeight \in Int
      /\ nodeLogs[i].height \in Int /\ nodeLogs[i].height <= topHeight
  BY TopIsHighest
<1>2. ~isValidNode(nodeLogs[i].height)
  BY AcceptedLog
<1>3. CASE isAltruistTrustworthy
  BY <1>1, <1>2, <1>3, ValidHeights, Allowance
<1>4. CASE ~isAltruistTrustworthy
  <2>1. topHeight > nodeLogs[i].height + allowance
    BY <1>1, <1>2, <1>4, ValidHeights, Allowance
  <2>. QED BY <1>4, <2>1, UntrustedWhenMany
<1>. QED BY <1>3, <1>4

LEMMA WithoutAltruistLemma == SyncIInv => WorksWithoutAltruist
<1>. SUFFICES ASSUME SyncIInv, stage = "done", altruist <= 0, Answered # {},
                     NEW i \in DOMAIN nodeLogs
              PROVE  nodeLogs[i].node \in checkedNodes <=>
                        /\ nodeLogs[i].height > 0
                        /\ \A h \in Answered : nodeLogs[i].height + allowance >= h
  BY DEF WorksWithoutAltruist
<1>1. PICK j \in DOMAIN nodeLogs : nodeLogs[j].height > 0
  BY DEF Answered, HeightsOf
<1>2. ~isAltruistTrustworthy
  BY <1>1, NotTrustedWithoutAnswer
<1>3. topHeight \in Answered /\ \A h \in Answered : h \in Int /\ h <= topHeight
  <2>1. topHeight > 0
    BY <1>1, TopIsHighest
  <2>2. nodeLogs[1] \in Log
    BY TopIsHighest
  <2>. QED BY <2>1, <2>2, TopIsHighest DEF Answered, HeightsOf, topHeight, Log
<1>4. /\ nodeLogs[i].height \in Int /\ nodeLogs[i].height <= topHeight /\ topHeight \in Int
  BY TopIsHighest
<1>5. isValidNode(nodeLogs[i].height) <=> nodeLogs[i].height + allowance >= topHeight
  BY <1>2, <1>4, ValidHeights, Allowance
<1>. QED BY <1>3, <1>4, <1>5, AcceptedLog, Allowance

--------------------------------------------------------------------------------
(* The two checks together *)

\* The chain check has compared the answers, or its ID was no number. A failed
\* relay is recorded as chain 0, which is no blockchain's ID.
ChainResult ==
    /\ chainStage # "parse" /\ chainStage # "done" => chainID # NotANumber
    /\ chainStage = "parse" \/ chainID = NotANumber => chainWaiting = Nodes
    /\ chainStage = "done" /\ chainID # NotANumber => chainWaiting = {}
    /\ chainStage # "done" => chainChecked = {}
    /\ \A n \in chainFailed : n \notin chainWaiting /\ nodeChains[n] = 0
    /\ chainStage = "done" =>
          chainChecked = IF chainID = NotANumber THEN {} ELSE {n \in Nodes : nodeChains[n] = chainID}

\* A check that is not configured never starts; one that ended has handed over
\* its result, and is not run again.
HandedOver ==
    /\ "sync" \notin configured => stage = "collect"
    /\ "chain" \notin configured => chainStage = "parse"
    /\ "sync" \in running => syncCheckNodes = {}
    /\ "chain" \in running => chainCheckNodes = {}
    /\ "sync" \notin running =>
          IF "sync" \in configured THEN stage = "done" /\ syncCheckNodes = checkedNodes
          ELSE syncCheckNodes = {}
    /\ "chain" \notin running =>
          IF "chain" \in configured THEN chainStage = "done" /\ chainCheckNodes = chainChecked
          ELSE chainCheckNodes = {}
    /\ returned => running = {}

IInv == SyncIInv /\ AppTypeOK /\ ChainResult /\ HandedOver

LEMMA AppInitIInv == AppInit => IInv
<1>. SUFFICES ASSUME AppInit PROVE IInv
  OBVIOUS
<1>1. SyncIInv
  BY SyncInit DEF AppInit
<1>2. Chain!TypeOK
  BY DEF AppInit, Chain!Init, Chain!TypeOK
<1>3. AppTypeOK
  BY <1>1, <1>2 DEF AppInit, AppTypeOK, SyncIInv
<1>4. ChainResult
  BY DEF AppInit, Chain!Init, ChainResult
<1>5. HandedOver
  BY DEF AppInit, Init, Chain!Init, HandedOver
<1>. QED BY <1>1, <1>3, <1>4, <1>5 DEF IInv

LEMMA ChainCheckStep ==
    ASSUME IInv, Chain!Check
    PROVE  Chain!TypeOK' /\ ChainResult' /\ chainStage # "done"
<1>. USE DEF IInv, AppTypeOK
<1>1. CASE Chain!ParseChainID
  BY <1>1 DEF Chain!ParseChainID, Chain!TypeOK, ChainResult
<1>2. ASSUME NEW n \in Nodes, NEW id, id \in ChainIDs \/ id = 0, Chain!Answer(n, id),
             \/ chainFailed' = chainFailed
             \/ chainFailed' = chainFailed \cup {n} /\ id = 0
      PROVE  Chain!TypeOK' /\ ChainResult' /\ chainStage # "done"
  <2>1. /\ chainStage = "collect" /\ n \in chainWaiting
        /\ chainWaiting' = chainWaiting \ {n}
        /\ nodeChains' = [nodeChains EXCEPT ![n] = id]
        /\ UNCHANGED <<chainID, chainStage, chainChecked>>
    BY <1>2 DEF Chain!Answer
  <2>. QED BY <1>2, <2>1 DEF Chain!TypeOK, ChainResult
<1>3. CASE Chain!Compare
  BY <1>3 DEF Chain!Compare, Chain!TypeOK, ChainResult
<1>4. ASSUME NEW n \in Nodes, Chain!RelayFails(n) \/ \E id \in ChainIDs : Chain!NodeAnswers(n, id)
      PROVE  Chain!TypeOK' /\ ChainResult' /\ chainStage # "done"
  <2>1. CASE Chain!RelayFails(n)
    <3>1. Chain!Answer(n, 0) /\ chainFailed' = chainFailed \cup {n}
      BY <2>1 DEF Chain!RelayFails
    <3>. QED BY <1>2, <3>1, Zenon
  <2>2. ASSUME NEW id \in ChainIDs, Chain!NodeAnswers(n, id)
        PROVE  Chain!TypeOK' /\ ChainResult' /\ chainStage # "done"
    <3>1. Chain!Answer(n, id) /\ chainFailed' = chainFailed
      BY <2>2 DEF Chain!NodeAnswers
    <3>. QED BY <1>2, <2>2, <3>1, ZenonT(60)
  <2>. QED BY <1>4, <2>1, <2>2, Zenon
<1>. QED BY <1>1, <1>3, <1>4, Zenon DEF Chain!Check

\* Steps of one check leave the other's invariant and the service's alone.
LEMMA SyncKept == SyncIInv /\ UNCHANGED vars => SyncIInv'
BY SyncStepIInv

LEMMA ChainKept ==
    ASSUME Chain!TypeOK, ChainResult, UNCHANGED chainVars
    PROVE  Chain!TypeOK' /\ ChainResult'
<1>1. /\ chainID' = chainID /\ chainStage' = chainStage /\ chainWaiting' = chainWaiting
      /\ nodeChains' = nodeChains /\ chainFailed' = chainFailed
      /\ chainChecked' = chainChecked
  BY DEF chainVars
<1>2. Chain!TypeOK'
  BY <1>1 DEF Chain!TypeOK
<1>3. ChainResult'
  BY <1>1 DEF ChainResult
<1>. QED BY <1>2, <1>3

LEMMA IInvStep == IInv /\ [AppNext]_appVars => IInv'
<1>. SUFFICES ASSUME IInv, [AppNext]_appVars PROVE IInv'
  OBVIOUS
<1>. DEFINE Rest == /\ configured \in SUBSET {"sync", "chain"}
                    /\ running \in SUBSET {"sync", "chain"}
                    /\ returned \in BOOLEAN
                    /\ syncCheckNodes \in SUBSET Nodes
                    /\ chainCheckNodes \in SUBSET Nodes
<1>1. /\ SyncIInv /\ Chain!TypeOK /\ ChainResult /\ Rest /\ HandedOver
      /\ checkedNodes \in SUBSET Nodes /\ chainChecked \in SUBSET Nodes
  BY DEF IInv, AppTypeOK, SyncIInv, TypeOK, Chain!TypeOK
<1>2. ASSUME SyncIInv', Chain!TypeOK', ChainResult', Rest', HandedOver'
      PROVE  IInv'
  BY <1>2 DEF IInv, AppTypeOK, SyncIInv
<1>3. CASE UNCHANGED <<vars, chainVars>> /\ Rest' /\ HandedOver'
  BY <1>1, <1>2, <1>3, SyncKept, ChainKept
<1>4. ASSUME NEW check \in {"sync", "chain"}, Skip(check) PROVE IInv'
  <2>1. UNCHANGED <<vars, chainVars>> /\ Rest'
    BY <1>1, <1>4 DEF Skip
  <2>2. HandedOver'
    BY <1>1, <1>4 DEF Skip, HandedOver, vars, chainVars
  <2>. QED BY <1>3, <2>1, <2>2
<1>5. CASE SyncStep
  <2>1. /\ Check /\ "sync" \in running \cap configured
        /\ UNCHANGED <<chainVars, configured, running, returned, syncCheckNodes,
                       chainCheckNodes>>
    BY <1>5 DEF SyncStep
  <2>2. SyncIInv'
    BY <1>1, <2>1, SyncStepIInv
  <2>3. HandedOver'
    BY <1>1, <2>1 DEF HandedOver, chainVars
  <2>. QED BY <1>1, <1>2, <2>1, <2>2, <2>3, ChainKept
<1>6. CASE ChainStep
  <2>1. /\ Chain!Check /\ "chain" \in running \cap configured
        /\ UNCHANGED <<vars, configured, running, returned, syncCheckNodes, chainCheckNodes>>
    BY <1>6 DEF ChainStep
  <2>2. Chain!TypeOK' /\ ChainResult'
    BY <2>1, ChainCheckStep
  <2>3. HandedOver'
    BY <1>1, <2>1 DEF HandedOver, vars
  <2>. QED BY <1>1, <1>2, <2>1, <2>2, <2>3, SyncKept
<1>7. CASE SyncEnds
  <2>1. UNCHANGED <<vars, chainVars>> /\ Rest'
    BY <1>1, <1>7 DEF SyncEnds
  <2>2. HandedOver'
    BY <1>1, <1>7 DEF SyncEnds, HandedOver, vars, chainVars
  <2>. QED BY <1>3, <2>1, <2>2
<1>8. CASE ChainEnds
  <2>1. UNCHANGED <<vars, chainVars>> /\ Rest'
    BY <1>1, <1>8 DEF ChainEnds
  <2>2. HandedOver'
    BY <1>1, <1>8 DEF ChainEnds, HandedOver, vars, chainVars
  <2>. QED BY <1>3, <2>1, <2>2
<1>9. CASE Return
  <2>1. UNCHANGED <<vars, chainVars>> /\ Rest'
    BY <1>1, <1>9 DEF Return
  <2>2. HandedOver'
    BY <1>1, <1>9 DEF Return, HandedOver, vars, chainVars
  <2>. QED BY <1>3, <2>1, <2>2
<1>10. CASE UNCHANGED appVars
  <2>1. UNCHANGED <<vars, chainVars>> /\ Rest'
    BY <1>1, <1>10 DEF appVars
  <2>2. HandedOver'
    BY <1>1, <1>10 DEF HandedOver, appVars, vars, chainVars
  <2>. QED BY <1>3, <2>1, <2>2
<1>. QED BY <1>4, <1>5, <1>6, <1>7, <1>8, <1>9, <1>10 DEF AppNext, AppTerminated

LEMMA InductiveInvariant == AppSpec => []IInv
BY AppInitIInv, IInvStep, PTL DEF AppSpec

LEMMA ReturnedLemma == IInv => ReturnedExact
<1>. SUFFICES ASSUME IInv, returned
              PROVE  /\ "sync" \in configured => stage = "done"
                     /\ syncCheckNodes = IF "sync" \in configured THEN checkedNodes ELSE {}
                     /\ "chain" \in configured => chainStage = "done"
                     /\ chainCheckNodes = IF "chain" \in configured
                                          THEN {n \in Nodes \ (chainFailed \cup chainWaiting) :
                                                    nodeChains[n] = chainID}
                                          ELSE {}
  BY DEF ReturnedExact
<1>1. /\ "sync" \in configured => stage = "done"
      /\ syncCheckNodes = IF "sync" \in configured THEN checkedNodes ELSE {}
      /\ "chain" \in configured => chainStage = "done"
      /\ chainCheckNodes = IF "chain" \in configured THEN chainChecked ELSE {}
  BY DEF IInv, HandedOver
<1>2. ASSUME chainStage = "done"
      PROVE  chainChecked = {n \in Nodes \ (chainFailed \cup chainWaiting) :
                                 nodeChains[n] = chainID}
  <2>1. CASE chainID = NotANumber
    BY <1>2, <2>1 DEF IInv, ChainResult
  <2>2. CASE chainID # NotANumber
    <3>1. chainID # 0
      <4>1. chainID \in PayloadIDs
        BY DEF IInv, AppTypeOK, Chain!TypeOK
      <4>. QED BY <2>2, <4>1, AppChainAssumption DEF Chain!ChainIDAssumption
    <3>2. \A n \in chainFailed : nodeChains[n] # chainID
      BY <3>1 DEF IInv, ChainResult
    <3>. QED BY <1>2, <2>2, <3>2 DEF IInv, ChainResult
  <2>. QED BY <2>1, <2>2
<1>. QED BY <1>1, <1>2

--------------------------------------------------------------------------------

(***************************************************************************)
(* The variables of doPerformApplicationChecks and of the two checks keep  *)
(* their types; there are as many logs as nodes that answered.             *)
(***************************************************************************)
THEOREM AppTypeCorrect == AppSpec => []AppTypeOK
BY InductiveInvariant, PTL DEF IInv

(***************************************************************************)
(* SyncChecker.Check: the nodes it returns agree with one another, or with *)
(* the altruist, to within the allowance.                                  *)
(***************************************************************************)
THEOREM AcceptedAgreeHolds == AppSpec => []AcceptedAgree
BY InductiveInvariant, AgreeLemma, PTL DEF IInv

(***************************************************************************)
(* SyncChecker.Check: nodes further ahead than the allowance put out a     *)
(* node that is in step with the altruist only when the share of the nodes *)
(* ahead of the altruist reaches altruistTrustThreshold.                   *)
(***************************************************************************)
THEOREM MinorityPutsNoneOutHolds == AppSpec => []MinorityPutsNoneOut
BY InductiveInvariant, MinorityLemma, PTL DEF IInv

(***************************************************************************)
(* SyncChecker.Check: when the altruist cannot be asked, exactly the nodes *)
(* within the allowance of the highest are returned.                       *)
(***************************************************************************)
THEOREM WorksWithoutAltruistHolds == AppSpec => []WorksWithoutAltruist
BY InductiveInvariant, WithoutAltruistLemma, PTL DEF IInv

(***************************************************************************)
(* doPerformApplicationChecks: what it returns of the chain check are the  *)
(* nodes that answered with the blockchain's ID, what it returns of the    *)
(* sync check is that check's result, and a check that is not configured   *)
(* returns nothing.                                                        *)
(***************************************************************************)
THEOREM ReturnedExactHolds == AppSpec => []ReturnedExact
BY InductiveInvariant, ReturnedLemma, PTL
================================================================================
