---------------------------- MODULE CliChecksProofs ----------------------------
(***************************************************************************)
(* What the command line tool's goroutines hand to the batch writer, and   *)
(* in which order, for every answer of the network and the portal, every   *)
(* set of nodes and of caches, and any number of jobs.                     *)
(***************************************************************************)
EXTENDS CliChecks, FiniteSetTheorems, WellFoundedInduction, TLAPS

(***************************************************************************)
(* The inductive invariant of MarkAfterResult. The marks of a job are sent *)
(* after its sync result, and what a cache was offered is the beginning of *)
(* what was accepted, so that the order is the same there.                 *)
(***************************************************************************)
Handover == /\ accepted \in Seq(Item)
            /\ offered \in [Caches -> Seq(Item)]
            /\ syncTask \in [Jobs -> TaskStates]
            /\ syncNodes \in [Jobs -> SUBSET Nodes]

\* An item that says of all these nodes that the job found them in sync.
Names(item, j, nodes) == /\ item.kind = "sync"
                         /\ item.job = j
                         /\ nodes \subseteq item.nodes

AcceptedInOrder ==
    \A i \in DOMAIN accepted :
        accepted[i].kind = "mark" =>
            \E k \in 1..(i - 1) : Names(accepted[k], accepted[i].job, accepted[i].nodes)

\* A goroutine that erases marks has sent its result, unless that brought the
\* process down.
ResultWasSent ==
    \A j \in Jobs :
        Running /\ syncTask[j] = "erase" =>
            \E k \in DOMAIN accepted : Names(accepted[k], j, syncNodes[j])

OfferedIsPrefix ==
    \A c \in Caches : /\ Len(offered[c]) <= Len(accepted)
                      /\ \A i \in DOMAIN offered[c] : offered[c][i] = accepted[i]

MarkIInv == Handover /\ AcceptedInOrder /\ ResultWasSent /\ OfferedIsPrefix

LEMMA SendIsAppend ==
    ASSUME NEW item, Send(item), Running
    PROVE  /\ offered' = offered
           /\ \/ accepted' = accepted /\ ~Running'
              \/ accepted' = Append(accepted, item) /\ Running'
BY DEF Send, writerVars, Writer!Accept, Running

\* Marks aside, appending an item keeps what the accepted ones say.
LEMMA AppendFacts ==
    ASSUME Handover, AcceptedInOrder, OfferedIsPrefix,
           NEW item \in Item, accepted' = Append(accepted, item), offered' = offered,
           item.kind = "mark" =>
               \E k \in DOMAIN accepted : Names(accepted[k], item.job, item.nodes)
    PROVE  /\ accepted' \in Seq(Item)
           /\ DOMAIN accepted \subseteq DOMAIN accepted'
           /\ \A i \in DOMAIN accepted : accepted'[i] = accepted[i]
           /\ Len(accepted') \in DOMAIN accepted' /\ accepted'[Len(accepted')] = item
           /\ AcceptedInOrder'
           /\ OfferedIsPrefix'
<1> USE DEF Handover
<1>1. /\ accepted' \in Seq(Item)
      /\ Len(accepted) \in Nat
      /\ DOMAIN accepted = 1..Len(accepted)
      /\ DOMAIN accepted' = 1..(Len(accepted) + 1)
      /\ \A i \in DOMAIN accepted : accepted'[i] = accepted[i]
      /\ Len(accepted') = Len(accepted) + 1
      /\ accepted'[Len(accepted')] = item
  OBVIOUS
<1>2. AcceptedInOrder'
  <2> SUFFICES ASSUME NEW i \in DOMAIN accepted', accepted'[i].kind = "mark"
               PROVE  \E k \in 1..(i - 1) :
                          Names(accepted'[k], accepted'[i].job, accepted'[i].nodes)
    BY Zenon DEF AcceptedInOrder, Names
  <2>1. CASE i \in DOMAIN accepted
    <3>1. PICK k \in 1..(i - 1) : Names(accepted[k], accepted[i].job, accepted[i].nodes)
      BY <1>1, <2>1 DEF AcceptedInOrder
    <3>2. k \in DOMAIN accepted
      BY <1>1, <2>1
    <3> QED
      BY <1>1, <2>1, <3>1, <3>2
  <2>2. CASE i = Len(accepted')
    <3>1. PICK k \in DOMAIN accepted : Names(accepted[k], item.job, item.nodes)
      BY <1>1, <2>2
    <3>2. k \in 1..(i - 1)
      BY <1>1, <2>2
    <3> QED
      BY <1>1, <2>2, <3>1, <3>2
  <2> QED
    BY <1>1, <2>1, <2>2
<1>3. OfferedIsPrefix'
  <2> SUFFICES ASSUME NEW c \in Caches
               PROVE  /\ Len(offered[c]) <= Len(accepted')
                      /\ \A i \in DOMAIN offered[c] : offered[c][i] = accepted'[i]
    BY DEF OfferedIsPrefix
  <2>1. offered[c] \in Seq(Item)
    OBVIOUS
  <2>2. Len(offered[c]) \in Nat /\ DOMAIN offered[c] = 1..Len(offered[c])
    BY <2>1
  <2>3. /\ Len(offered[c]) <= Len(accepted)
        /\ \A i \in DOMAIN offered[c] : offered[c][i] = accepted[i]
    BY DEF OfferedIsPrefix
  <2> QED
    BY <1>1, <2>2, <2>3
<1> QED
  BY <1>1, <1>2, <1>3

LEMMA MarkInit == Init => MarkIInv
<1> SUFFICES ASSUME Init
             PROVE  MarkIInv
  OBVIOUS
<1>1. /\ accepted = <<>> /\ offered = [c \in Caches |-> <<>>]
      /\ syncTask = [j \in Jobs |-> "none"] /\ syncNodes = [j \in Jobs |-> {}]
  BY DEF Init, Writer!Init
<1>2. Handover
  BY <1>1 DEF Handover, TaskStates
<1>3. AcceptedInOrder /\ ResultWasSent /\ OfferedIsPrefix
  BY <1>1 DEF AcceptedInOrder, ResultWasSent, OfferedIsPrefix
<1> QED
  BY <1>2, <1>3 DEF MarkIInv

\* The steps that move neither an item nor a goroutine of a sync check.
LEMMA MarkUnchanged ==
    ASSUME MarkIInv, Running, UNCHANGED <<accepted, offered, syncTask, syncNodes>>
    PROVE  MarkIInv'
BY DEF MarkIInv, Handover, AcceptedInOrder, ResultWasSent, OfferedIsPrefix, Names

\* A goroutine of a sync check that is not about to erase marks goes on.
LEMMA MarkSyncTask ==
    ASSUME MarkIInv, Running, NEW j \in Jobs, NEW to \in TaskStates \ {"erase"},
           syncTask' = [syncTask EXCEPT ![j] = to],
           NEW nodes \in SUBSET Nodes,
           syncNodes' = [syncNodes EXCEPT ![j] = nodes],
           UNCHANGED <<accepted, offered>>
    PROVE  MarkIInv'
<1> USE DEF MarkIInv
<1>1. Handover'
  BY DEF Handover
<1>2. ResultWasSent'
  <2> SUFFICES ASSUME NEW i \in Jobs, syncTask'[i] = "erase"
               PROVE  \E k \in DOMAIN accepted : Names(accepted[k], i, syncNodes'[i])
    BY DEF ResultWasSent, Names
  <2>1. i # j /\ syncTask[i] = "erase" /\ syncNodes'[i] = syncNodes[i]
    BY DEF Handover
  <2> QED
    BY <2>1 DEF ResultWasSent
<1>3. AcceptedInOrder' /\ OfferedIsPrefix'
  BY DEF AcceptedInOrder, OfferedIsPrefix, Names
<1> QED
  BY <1>1, <1>2, <1>3

\* A send: either the item is accepted, and every conjunct but the one about
\* the goroutines holds, or the process is down.
LEMMA MarkSend ==
    ASSUME MarkIInv, Running, NEW item \in Item, Send(item),
           item.kind = "mark" =>
               \E k \in DOMAIN accepted : Names(accepted[k], item.job, item.nodes)
    PROVE  /\ accepted' \in Seq(Item)
           /\ offered' = offered
           /\ AcceptedInOrder' /\ OfferedIsPrefix'
           /\ DOMAIN accepted \subseteq DOMAIN accepted'
           /\ \A i \in DOMAIN accepted : accepted'[i] = accepted[i]
           /\ Running' => /\ Len(accepted') \in DOMAIN accepted'
                          /\ accepted'[Len(accepted')] = item
<1> USE DEF MarkIInv
<1>1. /\ offered' = offered
      /\ \/ accepted' = accepted /\ ~Running'
         \/ accepted' = Append(accepted, item) /\ Running'
  BY SendIsAppend
<1>2. CASE accepted' = accepted /\ ~Running'
  BY <1>1, <1>2 DEF Handover, AcceptedInOrder, OfferedIsPrefix, Names
<1>3. CASE accepted' = Append(accepted, item) /\ Running'
  BY <1>1, <1>3, AppendFacts
<1> QED
  BY <1>1, <1>2, <1>3

LEMMA MarkSendChain ==
    ASSUME MarkIInv, Running, NEW j \in Jobs, SendChain(j)
    PROVE  MarkIInv'
<1> DEFINE item == [kind |-> "chain", job |-> j, nodes |-> {}]
<1>1. item \in Item /\ item.kind = "chain"
  BY DEF Item
<1>2. Send(item) /\ UNCHANGED <<syncTask, syncNodes>>
  BY DEF SendChain
<1> HIDE DEF item
<1>3. /\ accepted' \in Seq(Item) /\ offered' = offered
      /\ AcceptedInOrder' /\ OfferedIsPrefix'
      /\ DOMAIN accepted \subseteq DOMAIN accepted'
      /\ \A i \in DOMAIN accepted : accepted'[i] = accepted[i]
  BY <1>1, <1>2, MarkSend
<1>4. Handover'
  BY <1>2, <1>3 DEF MarkIInv, Handover
<1>5. ResultWasSent'
  BY <1>2, <1>3 DEF MarkIInv, ResultWasSent, Names
<1> QED
  BY <1>3, <1>4, <1>5 DEF MarkIInv

\* The result of a sync check names the very nodes whose marks are next.
LEMMA MarkSendSync ==
    ASSUME MarkIInv, Running, NEW j \in Jobs, SendSync(j)
    PROVE  MarkIInv'
<1> DEFINE item == [kind |-> "sync", job |-> j, nodes |-> syncNodes[j]]
<1>1. /\ item \in Item
      /\ item.kind = "sync" /\ item.job = j /\ item.nodes = syncNodes[j]
  BY DEF Item, MarkIInv, Handover
<1>2. Send(item) /\ syncTask' = [syncTask EXCEPT ![j] = "erase"] /\ UNCHANGED syncNodes
  BY DEF SendSync
<1> HIDE DEF item
<1>3. /\ accepted' \in Seq(Item) /\ offered' = offered
      /\ AcceptedInOrder' /\ OfferedIsPrefix'
      /\ DOMAIN accepted \subseteq DOMAIN accepted'
      /\ \A i \in DOMAIN accepted : accepted'[i] = accepted[i]
      /\ Running' => /\ Len(accepted') \in DOMAIN accepted'
                     /\ accepted'[Len(accepted')] = item
  BY <1>1, <1>2, MarkSend
<1>4. Handover'
  BY <1>2, <1>3 DEF MarkIInv, Handover, TaskStates
<1>5. ResultWasSent'
  <2> SUFFICES ASSUME NEW i \in Jobs, Running', syncTask'[i] = "erase"
               PROVE  \E k \in DOMAIN accepted' : Names(accepted'[k], i, syncNodes[i])
    BY <1>2 DEF ResultWasSent, Names
  <2>1. CASE i = j
    BY <1>1, <1>3, <2>1 DEF Names
  <2>2. CASE i # j
    <3>1. syncTask[i] = "erase"
      BY <1>2, <2>2 DEF MarkIInv, Handover
    <3> QED
      BY <1>3, <3>1 DEF MarkIInv, ResultWasSent
  <2> QED
    BY <2>1, <2>2
<1> QED
  BY <1>3, <1>4, <1>5 DEF MarkIInv

LEMMA MarkEraseMark ==
    ASSUME MarkIInv, Running, NEW j \in Jobs, NEW n \in Nodes, EraseMark(j, n)
    PROVE  MarkIInv'
<1> DEFINE item == [kind |-> "mark", job |-> j, nodes |-> {n}]
<1>1. item \in Item /\ item.job = j /\ item.nodes = {n}
  BY DEF Item
<1>2. /\ Send(item) /\ UNCHANGED syncTask
      /\ syncTask[j] = "erase" /\ n \in syncNodes[j]
      /\ syncNodes' = [syncNodes EXCEPT ![j] = @ \ {n}]
  BY DEF EraseMark
<1> HIDE DEF item
<1>3. \E k \in DOMAIN accepted : Names(accepted[k], item.job, item.nodes)
  <2>1. PICK k \in DOMAIN accepted : Names(accepted[k], j, syncNodes[j])
    BY <1>2 DEF MarkIInv, ResultWasSent
  <2> QED
    BY <1>1, <1>2, <2>1 DEF Names
<1>4. /\ accepted' \in Seq(Item) /\ offered' = offered
      /\ AcceptedInOrder' /\ OfferedIsPrefix'
      /\ DOMAIN accepted \subseteq DOMAIN accepted'
      /\ \A i \in DOMAIN accepted : accepted'[i] = accepted[i]
  BY <1>1, <1>2, <1>3, MarkSend
<1>5. Handover'
  BY <1>2, <1>4 DEF MarkIInv, Handover
<1>6. ResultWasSent'
  <2> SUFFICES ASSUME NEW i \in Jobs, syncTask[i] = "erase"
               PROVE  \E k \in DOMAIN accepted' : Names(accepted'[k], i, syncNodes'[i])
    BY <1>2 DEF ResultWasSent, Names
  <2>1. PICK k \in DOMAIN accepted : Names(accepted[k], i, syncNodes[i])
    BY DEF MarkIInv, ResultWasSent
  <2>2. syncNodes'[i] \subseteq syncNodes[i]
    BY <1>2 DEF MarkIInv, Handover
  <2> QED
    BY <1>4, <2>1, <2>2 DEF Names
<1> QED
  BY <1>4, <1>5, <1>6 DEF MarkIInv

LEMMA MarkOffer ==
    ASSUME MarkIInv, Running, NEW c \in Caches, Offer(c)
    PROVE  MarkIInv'
<1>1. PICK n \in (Len(offered[c]) + 1)..Len(accepted) : Writer!Offer(c, n)
  BY DEF Offer
<1>2. /\ offered' = [offered EXCEPT ![c] = SubSeq(accepted, 1, n)]
      /\ UNCHANGED <<accepted, syncTask, syncNodes, main>>
  BY <1>1 DEF Offer, Writer!Offer, taskVars
<1>3. /\ accepted \in Seq(Item) /\ Len(accepted) \in Nat
      /\ Len(offered[c]) \in Nat
      /\ n \in 0..Len(accepted)
  <2>1. offered[c] \in Seq(Item)
    BY DEF MarkIInv, Handover
  <2> QED
    BY <1>1, <2>1 DEF MarkIInv, Handover
<1> DEFINE s == SubSeq(accepted, 1, n)
<1>4. /\ s \in Seq(Item)
      /\ Len(s) = n /\ DOMAIN s = 1..n
      /\ \A i \in 1..n : s[i] = accepted[i]
  BY <1>3
<1> HIDE DEF s
<1>5. \A d \in Caches : offered'[d] = IF d = c THEN s ELSE offered[d]
  BY <1>2 DEF MarkIInv, Handover, s
<1>6. Handover'
  <2>1. offered' = [offered EXCEPT ![c] = s]
    BY <1>2 DEF s
  <2> QED
    BY <1>2, <1>4, <2>1 DEF MarkIInv, Handover
<1>7. OfferedIsPrefix'
  <2> SUFFICES ASSUME NEW d \in Caches
               PROVE  /\ Len(offered'[d]) <= Len(accepted)
                      /\ \A i \in DOMAIN offered'[d] : offered'[d][i] = accepted[i]
    BY <1>2 DEF OfferedIsPrefix
  <2> QED
    BY <1>3, <1>4, <1>5 DEF MarkIInv, OfferedIsPrefix
<1>8. AcceptedInOrder' /\ ResultWasSent'
  BY <1>2 DEF MarkIInv, AcceptedInOrder, ResultWasSent, Names, Running
<1> QED
  BY <1>6, <1>7, <1>8 DEF MarkIInv

LEMMA MarkStep == MarkIInv /\ [Next]_vars => MarkIInv'
<1> SUFFICES ASSUME MarkIInv, [Next]_vars
             PROVE  MarkIInv'
  OBVIOUS
<1>1. CASE UNCHANGED vars
  BY <1>1 DEF vars, writerVars, taskVars, MarkIInv, Handover, AcceptedInOrder, ResultWasSent,
              OfferedIsPrefix, Names, Running
<1>2. CASE Running /\ Main
  <2>1. UNCHANGED <<accepted, offered, syncTask, syncNodes>>
    BY <1>2 DEF Main, NewMetricsRecorder, ConnectToCacheClients, StartBatchWriter, SetupFails,
                Spawn, LoopEnds, CloseBatch, CloseConnections, Writer!Open, writerVars, taskVars
  <2> QED
    BY <1>2, <2>1, MarkUnchanged
<1>3. ASSUME Running, NEW j \in Jobs, Worker(j)
      PROVE  MarkIInv'
  <2>1. CASE GetSession(j)
    <3>1. Starts("sync", j) \in TaskStates \ {"erase"}
      BY DEF Starts, TaskStates
    <3>2. syncNodes[j] \in SUBSET Nodes /\ syncNodes' = [syncNodes EXCEPT ![j] = syncNodes[j]]
      BY <2>1 DEF GetSession, MarkIInv, Handover
    <3>3. /\ syncTask' = [syncTask EXCEPT ![j] = Starts("sync", j)]
          /\ UNCHANGED <<accepted, offered>>
      BY <2>1 DEF GetSession, writerVars
    <3> QED
      BY <1>3, <3>1, <3>2, <3>3, MarkSyncTask
  <2>2. CASE GetSessionFails(j) \/ Performed(j) \/ Release(j) \/ WgDone(j)
    <3>1. UNCHANGED <<accepted, offered, syncTask, syncNodes>>
      BY <2>2 DEF GetSessionFails, Performed, Release, WgDone, writerVars, taskVars
    <3> QED
      BY <1>3, <3>1, MarkUnchanged
  <2> QED
    BY <1>3, <2>1, <2>2 DEF Worker
<1>4. ASSUME Running, NEW j \in Jobs, ChainGoroutine(j)
      PROVE  MarkIInv'
  <2>1. CASE CheckChain(j)
    <3>1. UNCHANGED <<accepted, offered, syncTask, syncNodes>>
      BY <2>1 DEF CheckChain, writerVars
    <3> QED
      BY <1>4, <3>1, MarkUnchanged
  <2> QED
    BY <1>4, <2>1, MarkSendChain DEF ChainGoroutine
<1>5. ASSUME Running, NEW j \in Jobs, SyncGoroutine(j)
      PROVE  MarkIInv'
  <2>1. ASSUME NEW nodes \in SUBSET Nodes, CheckSync(j, nodes)
        PROVE  MarkIInv'
    <3>1. /\ "send" \in TaskStates \ {"erase"}
          /\ syncTask' = [syncTask EXCEPT ![j] = "send"]
          /\ syncNodes' = [syncNodes EXCEPT ![j] = nodes]
          /\ UNCHANGED <<accepted, offered>>
      BY <2>1 DEF CheckSync, writerVars, TaskStates
    <3> QED
      BY <1>5, <3>1, MarkSyncTask
  <2>2. CASE MarksErased(j)
    <3>1. syncNodes[j] \in SUBSET Nodes /\ syncNodes' = [syncNodes EXCEPT ![j] = syncNodes[j]]
      BY <2>2 DEF MarksErased, MarkIInv, Handover
    <3>2. /\ "done" \in TaskStates \ {"erase"}
          /\ syncTask' = [syncTask EXCEPT ![j] = "done"]
          /\ UNCHANGED <<accepted, offered>>
      BY <2>2 DEF MarksErased, writerVars, TaskStates
    <3> QED
      BY <1>5, <3>1, <3>2, MarkSyncTask
  <2> QED
    BY <1>5, <2>1, <2>2, MarkSendSync, MarkEraseMark DEF SyncGoroutine
<1>6. ASSUME Running, NEW c \in Caches, Offer(c)
      PROVE  MarkIInv'
  BY <1>6, MarkOffer
<1>7. CASE Running /\ (Finish \/ Expire)
  <2>1. UNCHANGED <<accepted, offered, syncTask, syncNodes>>
    BY <1>7 DEF Finish, Expire, Writer!Finish, writerVars, taskVars
  <2> QED
    BY <1>7, <2>1, MarkUnchanged
<1> QED
  BY <1>1, <1>2, <1>3, <1>4, <1>5, <1>6, <1>7 DEF Next, Terminated

LEMMA MarkFollows == MarkIInv => MarkAfterResult
<1> SUFFICES ASSUME MarkIInv, NEW c \in Caches, NEW i \in DOMAIN offered[c],
                    offered[c][i].kind = "mark"
             PROVE  \E k \in 1..(i - 1) : /\ offered[c][k].kind = "sync"
                                          /\ offered[c][k].job = offered[c][i].job
                                          /\ offered[c][i].nodes \subseteq offered[c][k].nodes
  BY DEF MarkAfterResult
<1>1. offered[c] \in Seq(Item) /\ accepted \in Seq(Item)
  BY DEF MarkIInv, Handover
<1>2. /\ DOMAIN offered[c] = 1..Len(offered[c]) /\ Len(offered[c]) \in Nat
      /\ DOMAIN accepted = 1..Len(accepted) /\ Len(accepted) \in Nat
      /\ Len(offered[c]) <= Len(accepted)
      /\ \A k \in DOMAIN offered[c] : offered[c][k] = accepted[k]
  BY <1>1 DEF MarkIInv, OfferedIsPrefix
<1>3. PICK k \in 1..(i - 1) : Names(accepted[k], accepted[i].job, accepted[i].nodes)
  BY <1>2 DEF MarkIInv, AcceptedInOrder
<1>4. offered[c][k] = accepted[k] /\ offered[c][i] = accepted[i]
  BY <1>2
<1> QED
  BY <1>3, <1>4 DEF Names

\* A failure mark is erased in a cache only after the cache was offered a
\* sync result of the same goroutine that names the node, whatever the other
\* goroutines send in between and however far the caches are apart.
THEOREM MarkAfterResultHolds == Spec => []MarkAfterResult
<1>1. Spec => []MarkIInv
  BY MarkInit, MarkStep, PTL DEF Spec
<1> QED
  BY <1>1, MarkFollows, PTL

--------------------------------------------------------------------------------
(***************************************************************************)
(* Types, the semaphore, and the end of the process. MaxJobs is a bound on *)
(* the loop's rounds: what follows is about the answers with that many     *)
(* rounds, or fewer.                                                       *)
(***************************************************************************)
JobsFit == Len(jobs) \in 0..MaxJobs

\* The goroutines whose deferred sem.Release is still to come.
Holders == {j \in Jobs : worker[j] \in {"session", "perform", "ended"}}

\* Past the deadline the semaphore is not waited for.
SlotsHeld == expired \/ slots = Cardinality(Holders)

SpawnedInOrder == \A j \in Jobs : worker[j] = "none" <=> j > spawned

\* performChecks waits for both of its goroutines.
ChecksAwaited ==
    \A j \in Jobs : worker[j] # "perform" =>
                        chainTask[j] \in {"none", "done"} /\ syncTask[j] \in {"none", "done"}

ClosedAtTheEnd ==
    closed => /\ main \in {"drain", "returned", "panicked"}
              /\ \A j \in Jobs : worker[j] \in {"none", "gone"}

\* Before the deadline no goroutine sends on the batch channel after it was
\* closed, and none releases a slot that nobody holds: either would end the
\* process.
PanicsOnlyPastDeadline == main = "panicked" => expired

IInv == TypeOK /\ SlotsHeld /\ SpawnedInOrder /\ ChecksAwaited /\ ClosedAtTheEnd
               /\ PanicsOnlyPastDeadline

LEMMA Bounds == MaxJobs \in Nat /\ Concurrency \in Nat /\ Concurrency > 0
<1>1. MaxJobs \in Nat /\ Concurrency \in Nat \ {0}
  BY CliAssumption, Zenon
<1> QED
  BY <1>1

LEMMA InitIInv == Init => IInv
<1> SUFFICES ASSUME Init
             PROVE  IInv
  OBVIOUS
<1>1. TypeOK
  <2>1. 0 \in 0..MaxJobs /\ 0 \in 0..Concurrency
    BY Bounds
  <2>2. offered = [c \in Caches |-> <<>>] /\ accepted = <<>> /\ targets = {} /\ phase = "new"
    BY DEF Init, Writer!Init
  <2> QED
    <3>1. /\ worker \in [Jobs -> WorkerStates]
          /\ chainTask \in [Jobs -> TaskStates \ {"erase"}]
          /\ syncTask \in [Jobs -> TaskStates]
          /\ syncNodes \in [Jobs -> SUBSET Nodes]
      BY DEF Init, Writer!Init, WorkerStates, TaskStates
    <3>2. accepted \in Seq(Item) /\ offered \in [Caches -> Seq(Item)]
      BY <2>2
    <3>3. spawned \in 0..MaxJobs /\ slots \in 0..Concurrency
      BY <2>1 DEF Init, Writer!Init
    <3>4. /\ main = "metrics" /\ result = "none" /\ open = {}
          /\ closed = FALSE /\ expired = FALSE /\ dropped = {}
      BY DEF Init, Writer!Init
    <3> QED
      BY <2>2, <3>1, <3>2, <3>3, <3>4 DEF TypeOK
<1>2. Holders = {} /\ slots = 0
  BY DEF Init, Holders
<1>3. SlotsHeld
  BY <1>2, FS_EmptySet DEF SlotsHeld
<1>4. SpawnedInOrder /\ ChecksAwaited /\ ClosedAtTheEnd /\ PanicsOnlyPastDeadline
  BY DEF Init, SpawnedInOrder, ChecksAwaited, ClosedAtTheEnd, PanicsOnlyPastDeadline, Jobs
<1> QED
  BY <1>1, <1>3, <1>4 DEF IInv

LEMMA HoldersAreFinite == TypeOK => IsFiniteSet(Holders) /\ Cardinality(Holders) \in Nat
<1>1. IsFiniteSet(Jobs)
  BY Bounds, FS_Interval DEF Jobs
<1>2. Holders \subseteq Jobs
  BY DEF Holders
<1> QED
  BY <1>1, <1>2, FS_Subset, FS_CardinalityType

\* A step of the main goroutine that neither spawns nor closes.
LEMMA MainKeeps ==
    ASSUME IInv, Running,
           NewMetricsRecorder \/ ConnectToCacheClients \/ StartBatchWriter \/ SetupFails
               \/ LoopEnds \/ CloseConnections
    PROVE  IInv'
<1> USE DEF IInv
<1>1. /\ UNCHANGED <<spawned, worker, chainTask, syncTask, syncNodes, slots, closed, expired,
                     dropped, accepted, offered>>
      /\ main' \in {"redis", "ask", "loop", "wait", "returned"}
  BY DEF NewMetricsRecorder, ConnectToCacheClients, StartBatchWriter, SetupFails, LoopEnds,
         CloseConnections, Return, writerVars, taskVars, Writer!Open
<1>2. closed => main' = "returned"
  BY DEF NewMetricsRecorder, ConnectToCacheClients, StartBatchWriter, SetupFails, LoopEnds,
         CloseConnections, Return, ClosedAtTheEnd
<1>3. /\ result' \in {"none", "error", "ok", "close error"}
      /\ open' \in SUBSET {"metrics", "redis"}
      /\ phase' \in {"new", "open", "done"}
      /\ targets' \in SUBSET Caches
  BY DEF NewMetricsRecorder, ConnectToCacheClients, StartBatchWriter, SetupFails, LoopEnds,
         CloseConnections, Return, writerVars, Writer!Open, TypeOK
<1>4. TypeOK'
  BY <1>1, <1>3 DEF TypeOK
<1>5. SlotsHeld' /\ SpawnedInOrder' /\ ChecksAwaited' /\ ClosedAtTheEnd'
      /\ PanicsOnlyPastDeadline'
  BY <1>1, <1>2 DEF SlotsHeld, Holders, SpawnedInOrder, ChecksAwaited, ClosedAtTheEnd,
                    PanicsOnlyPastDeadline
<1> QED
  BY <1>4, <1>5

LEMMA SpawnKeeps ==
    ASSUME IInv, JobsFit, Running, Spawn
    PROVE  IInv'
<1> USE DEF IInv
<1>1. /\ main = "loop" /\ spawned < Len(jobs) /\ spawned' = spawned + 1
      /\ worker' = [worker EXCEPT ![spawned'] = "session"]
      /\ UNCHANGED <<main, result, open, chainTask, syncTask, syncNodes, closed, expired,
                     dropped, phase, targets, accepted, offered>>
  BY DEF Spawn, writerVars, taskVars
<1>2. spawned' \in Jobs /\ spawned \in Nat
  <2>1. Len(jobs) \in 0..MaxJobs /\ spawned \in 0..MaxJobs
    BY DEF JobsFit, TypeOK
  <2> HIDE DEF jobs, IInv
  <2> QED
    BY <1>1, <2>1, Bounds DEF Jobs
<1>3. \A i \in Jobs : worker'[i] = IF i = spawned' THEN "session" ELSE worker[i]
  BY <1>1, <1>2 DEF TypeOK
<1>4. worker[spawned'] = "none"
  BY <1>1, <1>2 DEF SpawnedInOrder
<1>5. TypeOK'
  <2>1. slots' \in 0..Concurrency
    <3>1. slots \in 0..Concurrency
      BY DEF TypeOK
    <3>2. (slots' = slots + 1 /\ slots < Concurrency) \/ slots' = slots
      BY DEF Spawn
    <3> QED
      BY <3>1, <3>2, Bounds
  <2>2. worker' \in [Jobs -> WorkerStates] /\ spawned' \in 0..MaxJobs
    <3>1. worker' \in [Jobs -> WorkerStates]
      BY <1>1 DEF TypeOK, WorkerStates
    <3>2. spawned' \in 0..MaxJobs
      BY <1>2, Bounds DEF Jobs
    <3> QED
      BY <3>1, <3>2
  <2> QED
    BY <1>1, <2>1, <2>2 DEF TypeOK
<1>6. SlotsHeld'
  <2> SUFFICES ASSUME ~expired
               PROVE  slots' = Cardinality(Holders')
    BY <1>1 DEF SlotsHeld
  <2>1. Holders' = Holders \cup {spawned'} /\ spawned' \notin Holders
    BY <1>2, <1>3, <1>4 DEF Holders
  <2>2. IsFiniteSet(Holders) /\ Cardinality(Holders) \in Nat
    BY HoldersAreFinite
  <2>3. Cardinality(Holders') = Cardinality(Holders) + 1
    BY <2>1, <2>2, FS_AddElement
  <2> QED
    BY <2>2, <2>3 DEF Spawn, SlotsHeld
<1>7. SpawnedInOrder'
  BY <1>1, <1>2, <1>3 DEF SpawnedInOrder, Jobs
<1>8. ChecksAwaited' /\ ClosedAtTheEnd' /\ PanicsOnlyPastDeadline'
  BY <1>1, <1>3, <1>4 DEF ChecksAwaited, ClosedAtTheEnd, PanicsOnlyPastDeadline
<1> QED
  BY <1>5, <1>6, <1>7, <1>8

LEMMA CloseBatchKeeps ==
    ASSUME IInv, Running, CloseBatch
    PROVE  IInv'
<1> USE DEF IInv
<1>1. /\ \A j \in 1..spawned : worker[j] = "gone"
      /\ main' = "drain" /\ closed' = TRUE
      /\ UNCHANGED <<result, open, spawned, worker, chainTask, syncTask, syncNodes, slots,
                     expired, dropped, phase, targets, accepted, offered>>
  BY DEF CloseBatch, writerVars, taskVars
<1>2. TypeOK'
  BY <1>1 DEF TypeOK
<1>3. ClosedAtTheEnd'
  <2> SUFFICES ASSUME NEW j \in Jobs
               PROVE  worker[j] \in {"none", "gone"}
    BY <1>1 DEF ClosedAtTheEnd
  <2>1. CASE j > spawned
    BY <2>1 DEF SpawnedInOrder
  <2>2. CASE ~(j > spawned)
    <3>1. spawned \in 0..MaxJobs
      BY DEF TypeOK
    <3>2. j \in 1..spawned
      BY <2>2, <3>1, Bounds DEF Jobs
    <3> QED
      BY <1>1, <3>2
  <2> QED
    BY <2>1, <2>2
<1>4. SlotsHeld' /\ SpawnedInOrder' /\ ChecksAwaited' /\ PanicsOnlyPastDeadline'
  BY <1>1 DEF SlotsHeld, Holders, SpawnedInOrder, ChecksAwaited, PanicsOnlyPastDeadline
<1> QED
  BY <1>2, <1>3, <1>4

\* A goroutine goes on and keeps its slot, or had none.
LEMMA WorkerKeeps ==
    ASSUME IInv, Running, NEW j \in Jobs,
           GetSession(j) \/ GetSessionFails(j) \/ Performed(j) \/ WgDone(j)
    PROVE  IInv'
<1> USE DEF IInv
<1>1. UNCHANGED <<main, result, open, spawned, syncNodes, slots, closed, expired, phase,
                  targets, accepted, offered>>
  BY DEF GetSession, GetSessionFails, Performed, WgDone, writerVars, taskVars
<1>2. PICK to \in {"perform", "ended", "gone"} :
          /\ worker' = [worker EXCEPT ![j] = to]
          /\ \/ worker[j] \in {"session", "perform"} /\ to \in {"perform", "ended"}
             \/ worker[j] = "released" /\ to = "gone"
  <2>1. CASE GetSession(j)
    BY <2>1 DEF GetSession
  <2>2. CASE GetSessionFails(j)
    BY <2>2 DEF GetSessionFails
  <2>3. CASE Performed(j)
    BY <2>3 DEF Performed
  <2>4. CASE WgDone(j)
    BY <2>4 DEF WgDone
  <2> QED
    BY <2>1, <2>2, <2>3, <2>4
<1>3. \A i \in Jobs : worker'[i] = IF i = j THEN to ELSE worker[i]
  BY <1>2 DEF TypeOK
<1>4. TypeOK'
  <2>1. worker' \in [Jobs -> WorkerStates]
    BY <1>2 DEF TypeOK, WorkerStates
  <2>2. /\ chainTask' \in [Jobs -> TaskStates \ {"erase"}]
        /\ syncTask' \in [Jobs -> TaskStates]
    BY DEF GetSession, GetSessionFails, Performed, WgDone, Starts, TypeOK, TaskStates, taskVars
  <2>3. dropped' \in SUBSET Jobs
    BY DEF GetSession, GetSessionFails, Performed, WgDone, TypeOK
  <2> QED
    BY <1>1, <2>1, <2>2, <2>3 DEF TypeOK
<1>5. Holders' = Holders
  BY <1>2, <1>3 DEF Holders
<1>6. SlotsHeld'
  BY <1>1, <1>5 DEF SlotsHeld
<1>7. SpawnedInOrder' /\ PanicsOnlyPastDeadline'
  BY <1>1, <1>2, <1>3 DEF SpawnedInOrder, PanicsOnlyPastDeadline
<1>8. ChecksAwaited'
  <2> SUFFICES ASSUME NEW i \in Jobs, worker'[i] # "perform"
               PROVE  /\ chainTask'[i] \in {"none", "done"}
                      /\ syncTask'[i] \in {"none", "done"}
    BY DEF ChecksAwaited
  <2>1. CASE GetSession(j)
    <3>1. i # j /\ chainTask'[i] = chainTask[i] /\ syncTask'[i] = syncTask[i]
          /\ worker'[i] = worker[i]
      BY <2>1 DEF GetSession, TypeOK
    <3> QED
      BY <3>1 DEF ChecksAwaited
  <2>2. CASE GetSessionFails(j) \/ Performed(j) \/ WgDone(j)
    <3>1. UNCHANGED <<chainTask, syncTask>>
      BY <2>2 DEF GetSessionFails, Performed, WgDone, taskVars
    <3>2. worker[i] # "perform" \/ (chainTask[i] = "done" /\ syncTask[i] = "done")
      BY <1>3, <2>2 DEF GetSessionFails, Performed, WgDone
    <3> QED
      BY <3>1, <3>2 DEF ChecksAwaited
  <2> QED
    BY <2>1, <2>2
<1>9. ClosedAtTheEnd'
  BY <1>1, <1>2, <1>3 DEF ClosedAtTheEnd
<1> QED
  BY <1>4, <1>6, <1>7, <1>8, <1>9

\* Its own slot is there to release, unless the deadline has passed.
LEMMA ReleaseKeeps ==
    ASSUME IInv, Running, NEW j \in Jobs, Release(j)
    PROVE  IInv'
<1> USE DEF IInv
<1>1. /\ worker[j] = "ended"
      /\ worker' = [worker EXCEPT ![j] = "released"]
      /\ \/ slots = 0 /\ main' = "panicked" /\ UNCHANGED slots
         \/ slots # 0 /\ slots' = slots - 1 /\ UNCHANGED main
      /\ UNCHANGED <<result, open, spawned, chainTask, syncTask, syncNodes, closed, expired,
                     dropped, phase, targets, accepted, offered>>
  BY DEF Release, writerVars, taskVars
<1>2. \A i \in Jobs : worker'[i] = IF i = j THEN "released" ELSE worker[i]
  BY <1>1 DEF TypeOK
<1>3. TypeOK'
  <2>1. slots' \in 0..Concurrency /\ worker' \in [Jobs -> WorkerStates]
    <3>1. slots \in 0..Concurrency
      BY DEF TypeOK
    <3>2. slots' \in 0..Concurrency
      BY <1>1, <3>1, Bounds
    <3>3. worker' \in [Jobs -> WorkerStates]
      BY <1>1 DEF TypeOK, WorkerStates
    <3> QED
      BY <3>2, <3>3
  <2>2. main' \in {"metrics", "redis", "ask", "loop", "wait", "drain", "returned", "panicked"}
    BY <1>1 DEF TypeOK
  <2> QED
    BY <1>1, <2>1, <2>2 DEF TypeOK
<1>4. /\ Holders' = Holders \ {j} /\ j \in Holders
      /\ IsFiniteSet(Holders) /\ Cardinality(Holders) \in Nat
  BY <1>1, <1>2, HoldersAreFinite DEF Holders
<1>5. Cardinality(Holders') = Cardinality(Holders) - 1 /\ Cardinality(Holders) # 0
  BY <1>4, FS_RemoveElement, FS_EmptySet
<1>6. SlotsHeld' /\ PanicsOnlyPastDeadline'
  BY <1>1, <1>4, <1>5 DEF SlotsHeld, PanicsOnlyPastDeadline
<1>7. SpawnedInOrder' /\ ChecksAwaited' /\ ClosedAtTheEnd'
  BY <1>1, <1>2 DEF SpawnedInOrder, ChecksAwaited, ClosedAtTheEnd
<1> QED
  BY <1>3, <1>6, <1>7

\* A goroutine of a check sends while performChecks waits for it, when the
\* batch channel is still open.
LEMMA TaskKeeps ==
    ASSUME IInv, Running, NEW j \in Jobs,
           \/ chainTask[j] \in {"check", "send"} \/ syncTask[j] \in {"check", "send", "erase"},
           NEW item \in Item, Send(item) \/ UNCHANGED <<main, writerVars>>,
           chainTask' \in [Jobs -> TaskStates \ {"erase"}],
           syncTask' \in [Jobs -> TaskStates],
           syncNodes' \in [Jobs -> SUBSET Nodes],
           \A i \in Jobs \ {j} : chainTask'[i] = chainTask[i] /\ syncTask'[i] = syncTask[i],
           UNCHANGED <<result, open, spawned, worker, slots, closed, expired, dropped>>
    PROVE  IInv'
<1> USE DEF IInv
<1>1. worker[j] = "perform"
  BY DEF ChecksAwaited
<1>2. ~closed
  BY <1>1 DEF ClosedAtTheEnd
<1>3. /\ UNCHANGED <<main, phase, targets, offered>>
      /\ accepted' = accepted \/ accepted' = Append(accepted, item)
  BY <1>2 DEF Send, writerVars, Writer!Accept
<1>4. accepted' \in Seq(Item)
  <2>1. accepted \in Seq(Item)
    BY DEF TypeOK
  <2> QED
    BY <1>3, <2>1
<1>5. TypeOK'
  BY <1>3, <1>4 DEF TypeOK
<1>6. ChecksAwaited'
  BY <1>1 DEF ChecksAwaited
<1>7. SlotsHeld' /\ SpawnedInOrder' /\ ClosedAtTheEnd' /\ PanicsOnlyPastDeadline'
  BY <1>3 DEF SlotsHeld, Holders, SpawnedInOrder, ClosedAtTheEnd, PanicsOnlyPastDeadline
<1> QED
  BY <1>5, <1>6, <1>7

LEMMA ChainKeeps ==
    ASSUME IInv, Running, NEW j \in Jobs, ChainGoroutine(j)
    PROVE  IInv'
<1> DEFINE item == [kind |-> "chain", job |-> j, nodes |-> {}]
<1>1. item \in Item
  BY DEF Item
<1>2. /\ chainTask[j] \in {"check", "send"}
      /\ Send(item) \/ UNCHANGED <<main, writerVars>>
      /\ UNCHANGED <<result, open, spawned, worker, slots, closed, expired, dropped,
                     syncTask, syncNodes>>
  BY DEF ChainGoroutine, CheckChain, SendChain
<1>3. /\ chainTask' \in [Jobs -> TaskStates \ {"erase"}]
      /\ \A i \in Jobs \ {j} : chainTask'[i] = chainTask[i]
  BY DEF ChainGoroutine, CheckChain, SendChain, IInv, TypeOK, TaskStates
<1>4. syncTask' \in [Jobs -> TaskStates] /\ syncNodes' \in [Jobs -> SUBSET Nodes]
  BY <1>2 DEF IInv, TypeOK
<1> HIDE DEF item
<1> QED
  BY <1>1, <1>2, <1>3, <1>4, TaskKeeps

LEMMA SyncKeeps ==
    ASSUME IInv, Running, NEW j \in Jobs, SyncGoroutine(j)
    PROVE  IInv'
<1> USE DEF IInv
<1>1. PICK item \in Item : Send(item) \/ UNCHANGED <<main, writerVars>>
  <2>1. [kind |-> "sync", job |-> j, nodes |-> syncNodes[j]] \in Item
    BY DEF Item, TypeOK
  <2>2. \A n \in Nodes : [kind |-> "mark", job |-> j, nodes |-> {n}] \in Item
    BY DEF Item
  <2>3. CASE SendSync(j)
    BY <2>1, <2>3 DEF SendSync
  <2>4. ASSUME NEW n \in Nodes, EraseMark(j, n)
        PROVE  \E item \in Item : Send(item)
    BY <2>2, <2>4 DEF EraseMark
  <2>5. ASSUME (\E nodes \in SUBSET Nodes : CheckSync(j, nodes)) \/ MarksErased(j)
        PROVE  UNCHANGED <<main, writerVars>>
    BY <2>5 DEF CheckSync, MarksErased
  <2> QED
    BY <2>1, <2>3, <2>4, <2>5 DEF SyncGoroutine
<1>2. /\ syncTask[j] \in {"check", "send", "erase"}
      /\ UNCHANGED <<result, open, spawned, worker, slots, closed, expired, dropped, chainTask>>
  BY DEF SyncGoroutine, CheckSync, SendSync, EraseMark, MarksErased
<1>3. /\ syncTask' \in [Jobs -> TaskStates]
      /\ \A i \in Jobs \ {j} : syncTask'[i] = syncTask[i]
  BY DEF SyncGoroutine, CheckSync, SendSync, EraseMark, MarksErased, TypeOK, TaskStates
<1>4. syncNodes' \in [Jobs -> SUBSET Nodes]
  <2> USE DEF SyncGoroutine
  <2>1. \E nodes \in SUBSET Nodes : syncNodes' = [syncNodes EXCEPT ![j] = nodes]
    <3>1. syncNodes[j] \in SUBSET Nodes /\ syncNodes = [syncNodes EXCEPT ![j] = @]
      BY DEF TypeOK
    <3>2. CASE \E nodes \in SUBSET Nodes : CheckSync(j, nodes)
      BY <3>2 DEF CheckSync
    <3>3. CASE SendSync(j) \/ MarksErased(j)
      BY <3>1, <3>3 DEF SendSync, MarksErased
    <3>4. CASE \E n \in Nodes : EraseMark(j, n)
      BY <3>1, <3>4 DEF EraseMark
    <3> HIDE DEF IInv
    <3> QED
      BY <3>2, <3>3, <3>4
  <2>2. syncNodes \in [Jobs -> SUBSET Nodes]
    BY DEF TypeOK
  <2> HIDE DEF IInv
  <2> QED
    BY <2>1, <2>2
<1>5. chainTask' \in [Jobs -> TaskStates \ {"erase"}]
  BY <1>2 DEF TypeOK
<1> QED
  BY <1>1, <1>2, <1>3, <1>4, <1>5, TaskKeeps

\* The batch writer's steps, and the deadline.
LEMMA WriterKeeps ==
    ASSUME IInv, Running, (\E c \in Caches : Offer(c)) \/ Finish \/ Expire
    PROVE  IInv'
<1> USE DEF IInv
<1>1. UNCHANGED <<main, result, open, spawned, worker, chainTask, syncTask, syncNodes, slots,
                  closed, dropped, targets, accepted>>
  BY DEF Offer, Finish, Expire, Writer!Offer, Writer!Finish, writerVars, taskVars
<1>2. expired' \in BOOLEAN /\ (expired => expired') /\ phase' \in {"new", "open", "done"}
  BY DEF Offer, Finish, Expire, Writer!Offer, Writer!Finish, writerVars, TypeOK
<1>3. offered' \in [Caches -> Seq(Item)]
  <2>1. CASE \E c \in Caches : Offer(c)
    <3>0. PICK c \in Caches : Offer(c)
      BY <2>1
    <3>1. PICK n \in (Len(offered[c]) + 1)..Len(accepted) : Writer!Offer(c, n)
      BY <3>0 DEF Offer
    <3>2. offered[c] \in Seq(Item) /\ accepted \in Seq(Item)
      BY DEF TypeOK
    <3>3. SubSeq(accepted, 1, n) \in Seq(Item)
      BY <3>1, <3>2
    <3> QED
      BY <3>1, <3>3 DEF Writer!Offer, TypeOK
  <2>2. CASE Finish \/ Expire
    BY <2>2 DEF Finish, Expire, Writer!Finish, writerVars, TypeOK
  <2> QED
    BY <2>1, <2>2
<1>4. TypeOK'
  BY <1>1, <1>2, <1>3 DEF TypeOK
<1>5. SlotsHeld' /\ SpawnedInOrder' /\ ChecksAwaited' /\ ClosedAtTheEnd'
      /\ PanicsOnlyPastDeadline'
  BY <1>1, <1>2 DEF SlotsHeld, Holders, SpawnedInOrder, ChecksAwaited, ClosedAtTheEnd,
                    PanicsOnlyPastDeadline
<1> QED
  BY <1>4, <1>5

LEMMA Step == IInv /\ JobsFit /\ [Next]_vars => IInv'
<1> SUFFICES ASSUME IInv, JobsFit, [Next]_vars
             PROVE  IInv'
  OBVIOUS
<1>1. CASE UNCHANGED vars
  BY <1>1 DEF vars, writerVars, taskVars, IInv, TypeOK, SlotsHeld, Holders, SpawnedInOrder,
              ChecksAwaited, ClosedAtTheEnd, PanicsOnlyPastDeadline
<1>2. CASE Running /\ Main
  BY <1>2, MainKeeps, SpawnKeeps, CloseBatchKeeps DEF Main
<1>3. ASSUME Running, NEW j \in Jobs, Worker(j)
      PROVE  IInv'
  BY <1>3, WorkerKeeps, ReleaseKeeps DEF Worker
<1>4. ASSUME Running, NEW j \in Jobs, ChainGoroutine(j) \/ SyncGoroutine(j)
      PROVE  IInv'
  BY <1>4, ChainKeeps, SyncKeeps
<1>5. CASE Running /\ ((\E c \in Caches : Offer(c)) \/ Finish \/ Expire)
  BY <1>5, WriterKeeps
<1> QED
  BY <1>1, <1>2, <1>3, <1>4, <1>5 DEF Next, Terminated

\* The variables have their types: no more than Concurrency slots are ever
\* taken, and no sequence holds anything but results and marks of the jobs.
THEOREM TypeCorrect == Spec /\ []JobsFit => []TypeOK
<1>1. Spec /\ []JobsFit => []IInv
  BY InitIInv, Step, PTL DEF Spec
<1>2. IInv => TypeOK
  BY DEF IInv
<1> QED
  BY <1>1, <1>2, PTL

\* The process goes down only past the deadline, when the loop no longer
\* waits for the semaphore: until then every goroutine that releases a slot
\* holds one, and the batch channel is closed when nobody sends any more.
THEOREM NoPanicBeforeDeadline == Spec /\ []JobsFit => []PanicsOnlyPastDeadline
<1>1. Spec /\ []JobsFit => []IInv
  BY InitIInv, Step, PTL DEF Spec
<1>2. IInv => PanicsOnlyPastDeadline
  BY DEF IInv
<1> QED
  BY <1>1, <1>2, PTL

--------------------------------------------------------------------------------
(***************************************************************************)
(* The lists that are built before the loop. What FlattenSeq yields is     *)
(* shown by taking a first of the sequences at which it is not as stated.  *)
(***************************************************************************)
\* There is no endless descent in the naturals.
LEMMA NatWF == IsWellFoundedOn({p \in Nat \X Nat : p[1] < p[2]}, Nat)
BY NatLessThanWellFounded DEF OpToRel

\* A set of naturals has a least member: with it, a statement about every
\* number is proved by taking the first for which it fails.
LEMMA LeastNumber ==
    ASSUME NEW T \in SUBSET Nat, T # {}
    PROVE  \E x \in T : \A y \in T : x <= y
<1>1. PICK x \in T : \A y \in T : ~(<<y, x>> \in {p \in Nat \X Nat : p[1] < p[2]})
  BY NatWF, WFMin
<1>2. \A y \in T : ~(y < x)
  <2> TAKE y \in T
  <2>1. <<y, x>> \in Nat \X Nat
    OBVIOUS
  <2>2. <<y, x>>[1] = y /\ <<y, x>>[2] = x
    OBVIOUS
  <2> QED
    BY <1>1, <2>1, <2>2
<1>3. \A y \in T : x \in Nat /\ y \in Nat
  OBVIOUS
<1> QED
  BY <1>2, <1>3

\* f[i] is what the first i of the sequences make.
Flattens(f, seqs, n) ==
    f = [i \in 1..n |-> IF i = 1 THEN seqs[i] ELSE f[i - 1] \o seqs[i]]

\* The function FlattenSeq takes, by recursion on its argument, is there.
LEMMA FlatteningExists ==
    ASSUME NEW seqs, NEW n \in Nat \ {0}
    PROVE  \E f : Flattens(f, seqs, n)
<1> DEFINE T == {m \in Nat \ {0} : ~\E f : Flattens(f, seqs, m)}
<1> SUFFICES ASSUME T # {}
             PROVE  FALSE
  OBVIOUS
<1>1. PICK m \in T : \A k \in T : m <= k
  <2>1. T \in SUBSET Nat
    OBVIOUS
  <2> HIDE DEF T
  <2> QED
    BY <2>1, LeastNumber
<1>2. CASE m = 1
  <2> DEFINE f == [i \in 1..1 |-> seqs[i]]
  <2>1. Flattens(f, seqs, 1)
    BY DEF Flattens
  <2> QED
    BY <1>2, <2>1
<1>3. CASE m # 1
  <2>1. m - 1 \in Nat \ {0} /\ m - 1 \notin T
    BY <1>1, <1>3
  <2>2. PICK f : Flattens(f, seqs, m - 1)
    BY <2>1
  <2> DEFINE g == [i \in 1..m |-> IF i = m THEN f[m - 1] \o seqs[m] ELSE f[i]]
  <2>3. \A i \in 1..m : g[i] = IF i = 1 THEN seqs[i] ELSE g[i - 1] \o seqs[i]
    <3> TAKE i \in 1..m
    <3>1. CASE i = m
      <4>1. m - 1 \in 1..m /\ g[m - 1] = f[m - 1]
        BY <2>1
      <4> QED
        BY <1>3, <3>1, <4>1
    <3>2. CASE i # m
      <4>1. i \in 1..(m - 1) /\ g[i] = f[i]
        BY <2>1, <3>2
      <4>2. f[i] = IF i = 1 THEN seqs[i] ELSE f[i - 1] \o seqs[i]
        BY <2>2, <4>1 DEF Flattens
      <4>3. i # 1 => g[i - 1] = f[i - 1]
        BY <2>1, <4>1
      <4> HIDE DEF g
      <4> QED
        BY <4>1, <4>2, <4>3
    <3> QED
      BY <3>1, <3>2
  <2>4. Flattens(g, seqs, m)
    <3>1. g = [i \in 1..m |-> g[i]]
      OBVIOUS
    <3> HIDE DEF g
    <3> QED
      BY <2>3, <3>1 DEF Flattens
  <2> QED
    BY <2>4
<1> QED
  BY <1>2, <1>3

\* x is somewhere in the sequence q.
Has(q, x) == \E k \in DOMAIN q : q[k] = x

\* What is in a concatenation is in one of its parts.
LEMMA ConcatHas ==
    ASSUME NEW S, NEW s \in Seq(S), NEW t \in Seq(S), NEW x
    PROVE  Has(s \o t, x) <=> Has(s, x) \/ Has(t, x)
<1> DEFINE u == s \o t
<1>1. /\ Len(s) \in Nat /\ Len(t) \in Nat
      /\ DOMAIN s = 1..Len(s) /\ DOMAIN t = 1..Len(t)
      /\ DOMAIN u = 1..(Len(s) + Len(t))
      /\ \A j \in 1..Len(s) : u[j] = s[j]
      /\ \A j \in 1..Len(t) : u[Len(s) + j] = t[j]
      /\ \A j \in (Len(s) + 1)..(Len(s) + Len(t)) : u[j] = t[j - Len(s)]
  OBVIOUS
<1> HIDE DEF u
<1>2. ASSUME NEW j \in DOMAIN u, u[j] = x PROVE Has(s, x) \/ Has(t, x)
  <2>1. CASE j \in 1..Len(s)
    BY <1>1, <1>2, <2>1 DEF Has
  <2>2. CASE j \in (Len(s) + 1)..(Len(s) + Len(t))
    <3>1. j - Len(s) \in DOMAIN t
      BY <1>1, <2>2
    <3> QED
      BY <1>1, <1>2, <2>2, <3>1 DEF Has
  <2> QED
    BY <1>1, <2>1, <2>2
<1>3. ASSUME NEW j \in DOMAIN s, s[j] = x PROVE Has(u, x)
  BY <1>1, <1>3 DEF Has
<1>4. ASSUME NEW j \in DOMAIN t, t[j] = x PROVE Has(u, x)
  <2>1. Len(s) + j \in DOMAIN u /\ u[Len(s) + j] = x
    BY <1>1, <1>4
  <2> QED
    BY <2>1 DEF Has
<1> QED
  BY <1>2, <1>3, <1>4 DEF Has, u

\* What is in a flattened sequence is in one of the sequences it is made of.
LEMMA FlattenSeqHas ==
    ASSUME NEW S, NEW seqs \in Seq(Seq(S))
    PROVE  /\ FlattenSeq(seqs) \in Seq(S)
           /\ \A x : Has(FlattenSeq(seqs), x) <=> \E i \in DOMAIN seqs : Has(seqs[i], x)
<1>1. CASE Len(seqs) = 0
  <2>1. FlattenSeq(seqs) = seqs /\ seqs = <<>>
    BY <1>1 DEF FlattenSeq
  <2> QED
    BY <2>1 DEF Has
<1>2. CASE Len(seqs) # 0
  <2> DEFINE n == Len(seqs)
             f == CHOOSE f : Flattens(f, seqs, n)
  <2>1. n \in Nat \ {0} /\ DOMAIN seqs = 1..n
    BY <1>2
  <2>2. FlattenSeq(seqs) = f[n]
    BY <1>2 DEF FlattenSeq, Flattens
  <2>3. \A k \in 1..n : /\ seqs[k] \in Seq(S)
                        /\ f[k] = IF k = 1 THEN seqs[k] ELSE f[k - 1] \o seqs[k]
    <3>1. Flattens(f, seqs, n)
      BY <2>1, FlatteningExists
    <3> HIDE DEF f
    <3> TAKE k \in 1..n
    <3>2. f[k] = IF k = 1 THEN seqs[k] ELSE f[k - 1] \o seqs[k]
      BY <3>1 DEF Flattens
    <3> QED
      BY <3>2
  <2> HIDE DEF f, n
  <2> DEFINE Sound(k) == /\ f[k] \in Seq(S)
                         /\ \A x : Has(f[k], x) <=> \E i \in 1..k : Has(seqs[i], x)
             T == {k \in 1..n : ~Sound(k)}
  <2>4. ASSUME NEW k \in 1..n, k # 1 => Sound(k - 1)
        PROVE  Sound(k)
    <3>1. CASE k = 1
      <4>1. 1..1 = {1} /\ f[1] = seqs[1] /\ seqs[1] \in Seq(S)
        BY <2>3, <3>1
      <4> QED
        BY <3>1, <4>1
    <3>2. CASE k # 1
      <4>1. /\ f[k - 1] \in Seq(S) /\ seqs[k] \in Seq(S)
            /\ f[k] = f[k - 1] \o seqs[k]
        BY <2>3, <2>4, <3>2
      <4>2. \A x : Has(f[k], x) <=> Has(f[k - 1], x) \/ Has(seqs[k], x)
        BY <4>1, ConcatHas
      <4>3. \A i : i \in 1..k <=> i \in 1..(k - 1) \/ i = k
        BY <2>1
      <4>4. \A x : Has(f[k], x) <=> \E i \in 1..k : Has(seqs[i], x)
        BY <2>4, <3>2, <4>2, <4>3, Zenon
      <4> QED
        BY <4>1, <4>4
    <3> QED
      BY <3>1, <3>2
  <2>5. T = {}
    <3> HIDE DEF Sound
    <3> SUFFICES ASSUME T # {}
                 PROVE  FALSE
      OBVIOUS
    <3>1. PICK k \in T : \A m \in T : k <= m
      <4>1. T \in SUBSET Nat
        BY <2>1
      <4> HIDE DEF T
      <4> QED
        BY <4>1, LeastNumber
    <3>2. k # 1 => k - 1 \in 1..n /\ ~(k <= k - 1)
      BY <2>1, <3>1
    <3> QED
      BY <2>4, <3>1, <3>2
  <2>6. Sound(n)
    <3> HIDE DEF Sound
    <3> QED
      BY <2>1, <2>5
  <2> QED
    BY <2>1, <2>2, <2>6
<1> QED
  BY <1>1, <1>2

\* What the calls before the loop answered, and the lists made of it.
Answered == /\ network \in Networks
            /\ database \in Databases
            /\ blockchains \in Blockchains
            /\ ntApps = KnownApps
            /\ dbApps = RowsOfKnown

LEMMA PageType == ASSUME Answered PROVE page \in Seq(Range(network))
<1>1. network \in Seq(Range(network)) /\ PerPage \in Nat
  BY CliAssumption DEF Answered, IsSeq
<1> DEFINE A == Range(network)
<1> HIDE DEF A
<1>2. network \in Seq(A) /\ Len(network) \in Nat
  BY <1>1 DEF A
<1>3. (IF Len(network) < PerPage THEN Len(network) ELSE PerPage) \in 0..Len(network)
  BY <1>1, <1>2
<1>4. page \in Seq(A)
  BY <1>2, <1>3 DEF page
<1> QED
  BY <1>4 DEF A

\* The applications that are kept are those of the page the database knows.
LEMMA KnownAppsFacts ==
    ASSUME Answered
    PROVE  /\ KnownApps \in Seq(Range(network))
           /\ \A a : Has(KnownApps, a) <=> Has(page, a) /\ a.key \in Keys(database)
<1> DEFINE A == Range(network)
           kept == [i \in DOMAIN page |->
                       IF page[i].key \in Keys(database) THEN <<page[i]>> ELSE <<>>]
<1> HIDE DEF A
<1>1. page \in Seq(A)
  BY PageType DEF A
<1>2. /\ DOMAIN page = 1..Len(page) /\ Len(page) \in Nat
      /\ \A i \in DOMAIN page : page[i] \in A
  BY <1>1
<1>3. \A i \in DOMAIN page : kept[i] \in Seq(A)
  BY <1>2
<1>4. kept \in Seq(Seq(A)) /\ DOMAIN kept = DOMAIN page
  BY <1>2, <1>3
<1>5. \A i \in DOMAIN page : \A a :
          Has(kept[i], a) <=> a = page[i] /\ page[i].key \in Keys(database)
  BY DEF Has
<1>6. KnownApps = FlattenSeq(kept)
  BY DEF KnownApps
<1> HIDE DEF kept
<1>7. /\ KnownApps \in Seq(A)
      /\ \A a : Has(KnownApps, a) <=> \E i \in DOMAIN kept : Has(kept[i], a)
  BY <1>4, <1>6, FlattenSeqHas
<1>8. \A a : Has(KnownApps, a) <=> Has(page, a) /\ a.key \in Keys(database)
  <2>1. \A a : Has(KnownApps, a) <=> \E i \in DOMAIN page :
                                      a = page[i] /\ page[i].key \in Keys(database)
    BY <1>4, <1>5, <1>7, Zenon
  <2>2. ASSUME NEW a
        PROVE  Has(KnownApps, a) <=> Has(page, a) /\ a.key \in Keys(database)
    BY <2>1 DEF Has
  <2> QED
    BY <2>2
<1> QED
  BY <1>7, <1>8 DEF A

\* One round for every chain of every application.
LEMMA JobsFacts ==
    ASSUME Answered
    PROVE  /\ Len(jobs) \in Nat /\ DOMAIN jobs = 1..Len(jobs)
           /\ \A j \in DOMAIN jobs : jobs[j].index \in DOMAIN ntApps
           /\ \A i \in DOMAIN ntApps : \A ch \in Range(ntApps[i].chains) :
                  Has(jobs, [index |-> i, chain |-> ch])
<1> DEFINE I == DOMAIN ntApps
           C == UNION {Range(ntApps[i].chains) : i \in I}
           S == [index : I, chain : C]
           round(i) == [c \in DOMAIN ntApps[i].chains |->
                            [index |-> i, chain |-> ntApps[i].chains[c]]]
           rounds == [i \in I |-> round(i)]
<1>1. /\ I = 1..Len(ntApps) /\ Len(ntApps) \in Nat
      /\ \A i \in I : ntApps[i] \in Range(network)
  BY KnownAppsFacts DEF Answered
<1>2. \A i \in I : ntApps[i].chains \in Seq(Range(ntApps[i].chains))
  <2>1. \A a \in Range(network) : IsSeq(a.chains)
    BY CliAssumption DEF Answered, Range
  <2> QED
    BY <1>1, <2>1 DEF IsSeq
<1>3. \A i \in I : round(i) \in Seq(S)
  <2> TAKE i \in I
  <2> DEFINE ch == ntApps[i].chains
             R == Range(ch)
  <2>1. ch \in Seq(R) /\ R \subseteq C
    BY <1>2
  <2> HIDE DEF R, C, ch
  <2>2. /\ DOMAIN ch = 1..Len(ch) /\ Len(ch) \in Nat
        /\ \A c \in DOMAIN ch : ch[c] \in C
    BY <2>1
  <2>3. \A c \in DOMAIN ch : [index |-> i, chain |-> ch[c]] \in S
    BY <2>2
  <2> HIDE DEF S
  <2>4. [c \in DOMAIN ch |-> [index |-> i, chain |-> ch[c]]] \in Seq(S)
    BY <2>2, <2>3
  <2> QED
    BY <2>4 DEF ch
<1> HIDE DEF S, C
<1>4. rounds \in Seq(Seq(S)) /\ DOMAIN rounds = I
  <2> HIDE DEF round
  <2> QED
    BY <1>1, <1>3
<1>5. jobs = FlattenSeq(rounds)
  BY DEF jobs
<1> HIDE DEF rounds
<1>6. /\ jobs \in Seq(S)
      /\ \A x : Has(jobs, x) <=> \E i \in DOMAIN rounds : Has(rounds[i], x)
  BY <1>4, <1>5, FlattenSeqHas
<1>7. \A i \in I : \A ch \in Range(ntApps[i].chains) :
          Has(jobs, [index |-> i, chain |-> ch])
  <2> TAKE i \in I
  <2> TAKE ch \in Range(ntApps[i].chains)
  <2>1. PICK c \in DOMAIN ntApps[i].chains : ntApps[i].chains[c] = ch
    BY DEF Range
  <2>2. rounds[i][c] = [index |-> i, chain |-> ch] /\ c \in DOMAIN rounds[i]
    BY <2>1 DEF rounds
  <2>3. Has(rounds[i], [index |-> i, chain |-> ch])
    BY <2>2 DEF Has
  <2> QED
    BY <1>4, <1>6, <2>3
<1>8. \A j \in DOMAIN jobs : jobs[j].index \in I
  <2>1. \A j \in DOMAIN jobs : jobs[j] \in S
    BY <1>6
  <2> QED
    BY <2>1 DEF S
<1>9. Len(jobs) \in Nat /\ DOMAIN jobs = 1..Len(jobs)
  BY <1>6
<1> QED
  BY <1>7, <1>8, <1>9

\* publicKeyToApps has an application for every key of the database.
LEMMA AppWithKeyFacts ==
    ASSUME Answered, NEW k \in Keys(database)
    PROVE  \E i \in DOMAIN database : database[i] = AppWithKey(k) /\ database[i].key = k
<1>1. Len(database) \in Nat /\ DOMAIN database = 1..Len(database)
  <2> DEFINE R == Range(database)
  <2> HIDE DEF R
  <2>1. database \in Seq(R)
    BY CliAssumption DEF Answered, IsSeq, R
  <2> QED
    BY <2>1
<1> DEFINE T == {n \in 0..Len(database) : /\ Len(database) - n \in DOMAIN database
                                          /\ database[Len(database) - n].key = k}
<1>2. PICK n \in T : \A m \in T : n <= m
  <2>1. PICK i \in DOMAIN database : database[i].key = k
    BY DEF Keys
  <2>2. Len(database) - i \in T
    <3>1. /\ Len(database) - i \in 0..Len(database)
          /\ Len(database) - (Len(database) - i) = i
      BY <1>1
    <3> QED
      BY <2>1, <3>1
  <2>3. T \in SUBSET Nat /\ T # {}
    BY <2>2
  <2> HIDE DEF T
  <2> QED
    BY <2>3, LeastNumber
<1> DEFINE i == Len(database) - n
<1>3. i \in DOMAIN database /\ database[i].key = k
  OBVIOUS
<1>4. \A j \in DOMAIN database : j > i => database[j].key # k
  <2> SUFFICES ASSUME NEW j \in DOMAIN database, j > i, database[j].key = k
               PROVE  FALSE
    OBVIOUS
  <2>1. /\ Len(database) - j \in 0..Len(database)
        /\ Len(database) - (Len(database) - j) = j
        /\ Len(database) - j < n
        /\ n \in Nat
    BY <1>1
  <2>2. Len(database) - j \in T
    BY <2>1
  <2> HIDE DEF T
  <2> QED
    BY <1>1, <1>2, <2>1, <2>2
<1> HIDE DEF i
<1> DEFINE P(a) == \E h \in DOMAIN database :
                       /\ database[h] = a /\ a.key = k
                       /\ \A j \in DOMAIN database : j > h => database[j].key # k
<1>5. database[i] \in Range(database) /\ P(database[i])
  BY <1>3, <1>4 DEF Range
<1>6. AppWithKey(k) = CHOOSE a \in Range(database) : P(a)
  BY DEF AppWithKey
<1>7. P(AppWithKey(k))
  <2> HIDE DEF P
  <2> QED
    BY <1>5, <1>6
<1> QED
  BY <1>7

\* A round's application of the network and its row of the database have the
\* same key.
LEMMA ListsInStep ==
    ASSUME Answered, NEW j \in DOMAIN jobs
    PROVE  \E i \in DOMAIN database : /\ database[i].id = dbApps[jobs[j].index].id
                                      /\ database[i].key = ntApps[jobs[j].index].key
<1> DEFINE n == jobs[j].index
<1>1. n \in DOMAIN KnownApps
  BY JobsFacts DEF Answered
<1> HIDE DEF n
<1>2. Has(KnownApps, KnownApps[n])
  BY <1>1 DEF Has
<1>3. KnownApps[n].key \in Keys(database)
  BY <1>2, KnownAppsFacts
<1>4. dbApps[n] = AppWithKey(KnownApps[n].key) /\ ntApps[n] = KnownApps[n]
  BY <1>1 DEF Answered, RowsOfKnown
<1> QED
  BY <1>3, <1>4, AppWithKeyFacts DEF n

--------------------------------------------------------------------------------
(***************************************************************************)
(* Each goroutine signs with the row of its own round. Nothing changes the *)
(* lists, and the loop spawns no more goroutines than there are rounds.    *)
(***************************************************************************)
SignsWithOwn == \A j \in Jobs : worker[j] = "perform" => aat[j] = AATOf(j)

AATIInv == /\ Answered
           /\ spawned \in 0..Len(jobs)
           /\ DOMAIN aat = Jobs
           /\ SignsWithOwn

LEMMA AnswersStay ==
    ASSUME [Next]_vars
    PROVE  /\ UNCHANGED answers
           /\ UNCHANGED <<jobs, page>>
           /\ Answered => Answered'
<1>1. UNCHANGED answers
  <2>1. CASE Main
    BY <2>1 DEF Main, NewMetricsRecorder, ConnectToCacheClients, StartBatchWriter, SetupFails,
                Spawn, LoopEnds, CloseBatch, CloseConnections
  <2>2. ASSUME NEW j \in Jobs, Worker(j)
        PROVE  UNCHANGED answers
    BY <2>2 DEF Worker, GetSession, GetSessionFails, Performed, Release, WgDone
  <2>3. ASSUME NEW j \in Jobs, ChainGoroutine(j) \/ SyncGoroutine(j)
        PROVE  UNCHANGED answers
    BY <2>3 DEF ChainGoroutine, CheckChain, SendChain, SyncGoroutine, CheckSync, SendSync,
                EraseMark, MarksErased
  <2>4. CASE (\E c \in Caches : Offer(c)) \/ Finish \/ Expire
    BY <2>4 DEF Offer, Finish, Expire
  <2>5. CASE UNCHANGED vars
    BY <2>5 DEF vars
  <2> QED
    BY <2>1, <2>2, <2>3, <2>4, <2>5 DEF Next, Terminated
<1>2. /\ network' = network /\ database' = database /\ blockchains' = blockchains
      /\ ntApps' = ntApps /\ dbApps' = dbApps
  BY <1>1 DEF answers
<1>3. jobs' = jobs /\ page' = page
  BY <1>2 DEF jobs, page
<1>4. KnownApps' = KnownApps /\ RowsOfKnown' = RowsOfKnown
  BY <1>2 DEF KnownApps, RowsOfKnown, AppWithKey, Keys, page
<1> QED
  BY <1>1, <1>2, <1>3, <1>4 DEF Answered

LEMMA AATInit == Init => AATIInv
<1> SUFFICES ASSUME Init
             PROVE  AATIInv
  OBVIOUS
<1>1. Answered
  BY DEF Init, Answered
<1>2. spawned = 0 /\ aat = [j \in Jobs |-> "none"] /\ worker = [j \in Jobs |-> "none"]
  BY DEF Init
<1>3. spawned \in 0..Len(jobs)
  BY <1>1, <1>2, JobsFacts
<1> QED
  BY <1>1, <1>2, <1>3 DEF AATIInv, SignsWithOwn

\* Only GetSession makes a goroutine perform its checks.
LEMMA AATStep == IInv /\ AATIInv /\ [Next]_vars => AATIInv'
<1> SUFFICES ASSUME IInv, AATIInv, [Next]_vars
             PROVE  AATIInv'
  OBVIOUS
<1>1. /\ Answered' /\ jobs' = jobs
      /\ \A j \in Jobs : AATOf(j)' = AATOf(j)
  BY AnswersStay DEF AATIInv, AATOf, answers
<1>2. worker \in [Jobs -> WorkerStates]
  BY DEF IInv, TypeOK
<1>3. CASE \E j \in Jobs : GetSession(j)
  <2>1. PICK j \in Jobs : GetSession(j)
    BY <1>3
  <2>2. /\ worker' = [worker EXCEPT ![j] = "perform"]
        /\ aat' = [aat EXCEPT ![j] = AATOf(j)]
        /\ spawned' = spawned
    BY <2>1 DEF GetSession
  <2>3. \A i \in Jobs : /\ worker'[i] = IF i = j THEN "perform" ELSE worker[i]
                        /\ aat'[i] = IF i = j THEN AATOf(j) ELSE aat[i]
    BY <1>2, <2>2 DEF AATIInv
  <2>4. SignsWithOwn'
    BY <1>1, <2>3 DEF AATIInv, SignsWithOwn
  <2> QED
    BY <1>1, <2>2, <2>4 DEF AATIInv
<1>4. CASE Spawn
  <2>1. /\ spawned < Len(jobs) /\ spawned' = spawned + 1 /\ aat' = aat
        /\ worker' = [worker EXCEPT ![spawned'] = "session"]
    BY <1>4 DEF Spawn
  <2>2. spawned' \in 0..Len(jobs)'
    BY <1>1, <2>1, JobsFacts DEF AATIInv
  <2>3. \A i \in Jobs : worker'[i] = "perform" => worker[i] = "perform"
    BY <1>2, <2>1
  <2> QED
    BY <1>1, <2>1, <2>2, <2>3 DEF AATIInv, SignsWithOwn
<1>5. CASE /\ UNCHANGED <<spawned, aat>>
           /\ \A i \in Jobs : worker'[i] = "perform" => worker[i] = "perform"
  BY <1>1, <1>5 DEF AATIInv, SignsWithOwn
<1>6. ASSUME NEW j \in Jobs,
             GetSessionFails(j) \/ Performed(j) \/ Release(j) \/ WgDone(j)
      PROVE  /\ UNCHANGED <<spawned, aat>>
             /\ \A i \in Jobs : worker'[i] = "perform" => worker[i] = "perform"
  BY <1>2, <1>6 DEF GetSessionFails, Performed, Release, WgDone
<1>7. ASSUME NEW j \in Jobs, ChainGoroutine(j) \/ SyncGoroutine(j)
      PROVE  UNCHANGED <<spawned, aat, worker>>
  BY <1>7 DEF ChainGoroutine, CheckChain, SendChain, SyncGoroutine, CheckSync, SendSync,
              EraseMark, MarksErased
<1>8. CASE Main /\ ~Spawn
  <2>1. UNCHANGED <<spawned, aat, worker>>
    BY <1>8 DEF Main, NewMetricsRecorder, ConnectToCacheClients, StartBatchWriter, SetupFails,
                LoopEnds, CloseBatch, CloseConnections
  <2> QED
    BY <1>5, <2>1
<1>9. CASE (\E c \in Caches : Offer(c)) \/ Finish \/ Expire \/ UNCHANGED vars
  <2>1. UNCHANGED <<spawned, aat, worker>>
    BY <1>9 DEF Offer, Finish, Expire, vars
  <2> QED
    BY <1>5, <2>1
<1> QED
  BY <1>3, <1>4, <1>5, <1>6, <1>7, <1>8, <1>9 DEF Next, Terminated, Worker

LEMMA Inductive == Spec /\ []JobsFit => [](IInv /\ AATIInv)
<1>1. Init => IInv /\ AATIInv
  BY InitIInv, AATInit
<1>2. (IInv /\ AATIInv) /\ JobsFit /\ [Next]_vars => (IInv /\ AATIInv)'
  BY Step, AATStep
<1> QED
  BY <1>1, <1>2, PTL DEF Spec

\* Every goroutine signs for the application it checks: the lists stay in
\* step, index by index, and the goroutine keeps its own index.
THEOREM OwnAATHolds == Spec /\ []JobsFit => []OwnAAT
<1>1. IInv /\ AATIInv => OwnAAT
  <2> SUFFICES ASSUME IInv, AATIInv, NEW j \in 1..spawned, worker[j] = "perform"
               PROVE  \E i \in DOMAIN database :
                          /\ database[i].id = aat[j]
                          /\ database[i].key = ntApps[jobs[j].index].key
    BY DEF OwnAAT
  <2>1. j \in DOMAIN jobs
    BY JobsFacts DEF AATIInv
  <2>2. j \in Jobs
    <3>1. spawned \in 0..MaxJobs
      BY DEF IInv, TypeOK
    <3> QED
      BY <3>1, Bounds DEF Jobs
  <2>3. aat[j] = dbApps[jobs[j].index].id
    BY <2>2 DEF AATIInv, SignsWithOwn, AATOf
  <2> QED
    BY <2>1, <2>3, ListsInStep DEF AATIInv
<1> QED
  BY <1>1, Inductive, PTL

--------------------------------------------------------------------------------
(***************************************************************************)
(* Everything is offered. A goroutine tells by its state whether it has    *)
(* sent its result; the connections are closed when all goroutines are     *)
(* gone and the batch writer has offered all it accepted.                  *)
(***************************************************************************)
Checks(j) == blockchains[jobs[j].chain]

Sent(j, kind) == \E i \in DOMAIN accepted : accepted[i].job = j /\ accepted[i].kind = kind

\* What the state of a check's goroutine says of its result.
Tells(state, j, kind) ==
    /\ state = "none" => ~Sent(j, kind)
    /\ state # "none" => jobs[j].chain \in DOMAIN blockchains
    /\ state \in {"check", "send"} => kind \in Checks(j) /\ ~Sent(j, kind)
    /\ state = "erase" => kind \in Checks(j) /\ Sent(j, kind)
    /\ state = "done" => (Sent(j, kind) <=> kind \in Checks(j))

TasksTell == \A j \in Jobs : /\ Tells(chainTask[j], j, "chain")
                             /\ Tells(syncTask[j], j, "sync")

WorkersTell ==
    \A j \in Jobs :
        /\ worker[j] \in {"none", "session"} => chainTask[j] = "none" /\ syncTask[j] = "none"
        /\ worker[j] \in {"ended", "released", "gone"} =>
               j \in dropped \/ (chainTask[j] = "done" /\ syncTask[j] = "done")

AllGone == spawned = Len(jobs) /\ \A j \in 1..spawned : worker[j] = "gone"

EndIsReached ==
    /\ main = "wait" => spawned = Len(jobs)
    /\ main = "drain" => AllGone
    /\ Completed => main = "returned" /\ AllGone /\ phase = "done"
    /\ phase = "done" => \A c \in targets : offered[c] = accepted

OfferedIInv == TasksTell /\ WorkersTell /\ EndIsReached

LEMMA OfferedInit == Init => OfferedIInv
<1> SUFFICES ASSUME Init
             PROVE  OfferedIInv
  OBVIOUS
<1>1. /\ accepted = <<>> /\ phase = "new" /\ main = "metrics" /\ result = "none"
      /\ worker = [j \in Jobs |-> "none"]
      /\ chainTask = [j \in Jobs |-> "none"] /\ syncTask = [j \in Jobs |-> "none"]
  BY DEF Init, Writer!Init
<1>2. TasksTell
  BY <1>1 DEF TasksTell, Tells, Sent
<1> QED
  BY <1>1, <1>2 DEF OfferedIInv, WorkersTell, EndIsReached, Completed

\* When all goroutines are gone none of them takes a step, nor do theirs.
LEMMA NobodyLeft ==
    ASSUME IInv, spawned \in 0..Len(jobs), AllGone, NEW j \in Jobs
    PROVE  ~Worker(j) /\ ~ChainGoroutine(j) /\ ~SyncGoroutine(j)
<1>1. worker[j] \in {"none", "gone"}
  <2>1. spawned \in 0..MaxJobs /\ j \in Nat /\ j >= 1
    <3>1. spawned \in 0..MaxJobs
      BY DEF IInv, TypeOK
    <3> QED
      BY <3>1, Bounds DEF Jobs
  <2>2. CASE j > spawned
    BY <2>2 DEF IInv, SpawnedInOrder
  <2>3. CASE ~(j > spawned)
    BY <2>1, <2>3 DEF AllGone
  <2> QED
    BY <2>2, <2>3
<1>2. chainTask[j] \in {"none", "done"} /\ syncTask[j] \in {"none", "done"}
  BY <1>1 DEF IInv, ChecksAwaited
<1> QED
  BY <1>1, <1>2 DEF Worker, GetSession, GetSessionFails, Performed, Release, WgDone,
                    ChainGoroutine, CheckChain, SendChain, SyncGoroutine, CheckSync, SendSync,
                    EraseMark, MarksErased

\* A step of the goroutines under way leaves the end of the run unreached.
LEMMA EndUnreached ==
    ASSUME IInv, AATIInv, EndIsReached, NEW j \in Jobs,
           Worker(j) \/ ChainGoroutine(j) \/ SyncGoroutine(j),
           jobs' = jobs, UNCHANGED <<result, spawned, phase, targets, offered>>,
           main' \in {main, "panicked"},
           phase # "open" => accepted' = accepted
    PROVE  EndIsReached'
<1>1. ~AllGone
  BY NobodyLeft DEF AATIInv
<1>2. main # "drain" /\ ~Completed
  BY <1>1 DEF EndIsReached
<1>3. ~Completed'
  BY <1>2 DEF Completed
<1> QED
  BY <1>2, <1>3 DEF EndIsReached

LEMMA OfferedMain ==
    ASSUME IInv, AATIInv, OfferedIInv, [Next]_vars,
           Main \/ (\E c \in Caches : Offer(c)) \/ Finish \/ Expire
    PROVE  OfferedIInv'
<1> USE DEF OfferedIInv
<1>1. UNCHANGED <<accepted, chainTask, syncTask, dropped, jobs, blockchains>>
  <2>1. UNCHANGED <<jobs, blockchains>>
    BY AnswersStay DEF answers
  <2>2. UNCHANGED <<accepted, chainTask, syncTask, dropped>>
    BY DEF Main, NewMetricsRecorder, ConnectToCacheClients, StartBatchWriter, SetupFails, Spawn,
           LoopEnds, CloseBatch, CloseConnections, Offer, Finish, Expire, Writer!Open,
           Writer!Offer, Writer!Finish, writerVars, taskVars
  <2> QED
    BY <2>1, <2>2
<1>2. TasksTell'
  <2>1. \A j \in Jobs : /\ Tells(chainTask[j], j, "chain")' <=> Tells(chainTask[j], j, "chain")
                        /\ Tells(syncTask[j], j, "sync")' <=> Tells(syncTask[j], j, "sync")
    BY <1>1 DEF Tells, Sent, Checks
  <2> QED
    BY <2>1 DEF TasksTell
<1>3. CASE Spawn
  <2>1. /\ main = "loop" /\ main' = main /\ spawned' = spawned + 1
        /\ worker' = [worker EXCEPT ![spawned'] = "session"]
        /\ UNCHANGED <<result, phase, targets, offered>>
    BY <1>3 DEF Spawn, writerVars
  <2>2. worker[spawned'] = "none" \/ spawned' \notin Jobs
    <3>1. spawned \in 0..MaxJobs
      BY DEF IInv, TypeOK
    <3>2. spawned' > spawned
      BY <2>1, <3>1, Bounds
    <3> QED
      BY <3>2 DEF IInv, SpawnedInOrder
  <2>3. WorkersTell'
    BY <1>1, <2>1, <2>2 DEF WorkersTell, IInv, TypeOK
  <2>4. EndIsReached'
    BY <1>1, <2>1 DEF EndIsReached, Completed
  <2> QED
    BY <1>2, <2>3, <2>4
<1>4. CASE ~Spawn
  <2>1. UNCHANGED <<worker, spawned>>
    BY <1>4 DEF Main, NewMetricsRecorder, ConnectToCacheClients, StartBatchWriter, SetupFails,
                LoopEnds, CloseBatch, CloseConnections, Offer, Finish, Expire
  <2>2. WorkersTell'
    BY <1>1, <2>1 DEF WorkersTell
  <2>3. AllGone' <=> AllGone
    BY <1>1, <2>1 DEF AllGone
  <2>4. CASE \/ NewMetricsRecorder \/ ConnectToCacheClients \/ StartBatchWriter \/ SetupFails
             \/ LoopEnds \/ Expire
    <3>1. /\ main # "returned" /\ main' # "drain"
          /\ main' = "wait" => main = "wait" \/ spawned = Len(jobs)
          /\ result' = result \/ result' = "error"
      BY <2>4 DEF NewMetricsRecorder, ConnectToCacheClients, StartBatchWriter, SetupFails,
                  LoopEnds, Expire, Return
    <3>4. phase' = "done" => UNCHANGED <<phase, targets, offered>>
      BY <2>4 DEF NewMetricsRecorder, ConnectToCacheClients, StartBatchWriter, SetupFails,
                  LoopEnds, Expire, Writer!Open, writerVars
    <3>5. phase' = "done" => \A c \in targets' : offered'[c] = accepted'
      BY <1>1, <3>4 DEF EndIsReached
    <3>6. main' = "wait" => spawned' = Len(jobs')
      BY <1>1, <2>1, <3>1 DEF EndIsReached
    <3>2. ~Completed
      BY <3>1 DEF EndIsReached
    <3>3. ~Completed'
      BY <3>1, <3>2 DEF Completed
    <3> QED
      BY <1>2, <2>2, <3>1, <3>3, <3>5, <3>6 DEF EndIsReached
  <2>5. CASE CloseBatch
    <3>1. /\ main = "wait" /\ main' = "drain" /\ \A j \in 1..spawned : worker[j] = "gone"
          /\ UNCHANGED <<result, phase, targets, offered>>
      BY <2>5 DEF CloseBatch, writerVars
    <3>2. AllGone /\ ~Completed
      BY <3>1 DEF EndIsReached, AllGone
    <3>3. AllGone' /\ ~Completed'
      BY <2>3, <3>1, <3>2 DEF Completed
    <3>4. phase' = "done" => \A c \in targets' : offered'[c] = accepted'
      BY <1>1, <3>1 DEF EndIsReached
    <3> QED
      BY <1>2, <2>2, <3>1, <3>3, <3>4 DEF EndIsReached
  <2>6. CASE CloseConnections
    <3>1. /\ main = "drain" /\ main' = "returned" /\ phase = "done"
          /\ UNCHANGED <<phase, targets, offered>>
      BY <2>6 DEF CloseConnections, Return, writerVars
    <3>2. AllGone'
      BY <2>3, <3>1 DEF EndIsReached
    <3>3. phase' = "done" /\ \A c \in targets' : offered'[c] = accepted'
      BY <1>1, <3>1 DEF EndIsReached
    <3> QED
      BY <1>2, <2>2, <3>1, <3>2, <3>3 DEF EndIsReached
  <2>7. CASE (\E c \in Caches : Offer(c)) \/ Finish
    <3>1. /\ phase = "open" /\ UNCHANGED <<main, result, targets>>
          /\ phase' = "done" => \A c \in targets : offered'[c] = accepted
      BY <2>7 DEF Offer, Finish, Writer!Offer, Writer!Finish
    <3>2. ~Completed /\ ~Completed'
      BY <3>1 DEF EndIsReached, Completed
    <3>3. /\ main' = "wait" => spawned' = Len(jobs')
          /\ phase' = "done" => \A c \in targets' : offered'[c] = accepted'
      BY <1>1, <2>1, <3>1 DEF EndIsReached
    <3>4. main' = "drain" => AllGone'
      BY <2>3, <3>1 DEF EndIsReached
    <3> QED
      BY <1>2, <2>2, <3>2, <3>3, <3>4 DEF EndIsReached
  <2> QED
    BY <1>4, <2>4, <2>5, <2>6, <2>7 DEF Main
<1> QED
  BY <1>3, <1>4

LEMMA OfferedWorker ==
    ASSUME IInv, AATIInv, OfferedIInv, [Next]_vars, NEW j \in Jobs, Worker(j)
    PROVE  OfferedIInv'
<1> USE DEF OfferedIInv
<1>1. UNCHANGED <<accepted, jobs, blockchains, result, spawned, phase, targets, offered>>
  <2>1. UNCHANGED <<jobs, blockchains>>
    BY AnswersStay DEF answers
  <2> QED
    BY <2>1 DEF Worker, GetSession, GetSessionFails, Performed, Release, WgDone, writerVars
<1>2. main' \in {main, "panicked"}
  BY DEF Worker, GetSession, GetSessionFails, Performed, Release, WgDone
<1>3. EndIsReached'
  BY <1>1, <1>2, EndUnreached
<1>4. CASE GetSession(j)
  <2>1. /\ worker[j] = "session" /\ jobs[j].chain \in DOMAIN blockchains
        /\ worker' = [worker EXCEPT ![j] = "perform"]
        /\ chainTask' = [chainTask EXCEPT ![j] = Starts("chain", j)]
        /\ syncTask' = [syncTask EXCEPT ![j] = Starts("sync", j)]
        /\ dropped' = dropped
    BY <1>4 DEF GetSession
  <2>2. \A i \in Jobs : /\ worker'[i] = IF i = j THEN "perform" ELSE worker[i]
                        /\ chainTask'[i] = IF i = j THEN Starts("chain", j) ELSE chainTask[i]
                        /\ syncTask'[i] = IF i = j THEN Starts("sync", j) ELSE syncTask[i]
    BY <2>1 DEF IInv, TypeOK
  <2>3. ~Sent(j, "chain") /\ ~Sent(j, "sync")
    BY <2>1 DEF WorkersTell, TasksTell, Tells
  <2>4. Tells(Starts("chain", j), j, "chain") /\ Tells(Starts("sync", j), j, "sync")
    BY <2>1, <2>3 DEF Tells, Starts, Checks
  <2>5. TasksTell'
    <3> SUFFICES ASSUME NEW i \in Jobs
                 PROVE  /\ Tells(chainTask[i], i, "chain")'
                        /\ Tells(syncTask[i], i, "sync")'
      BY DEF TasksTell
    <3>1. Tells(chainTask'[i], i, "chain") /\ Tells(syncTask'[i], i, "sync")
      BY <2>2, <2>4 DEF TasksTell
    <3> QED
      BY <1>1, <3>1 DEF Tells, Sent, Checks
  <2>6. WorkersTell'
    BY <2>1, <2>2 DEF WorkersTell
  <2> QED
    BY <1>3, <2>5, <2>6
<1>5. CASE GetSessionFails(j) \/ Performed(j) \/ Release(j) \/ WgDone(j)
  <2>1. UNCHANGED <<chainTask, syncTask>>
    BY <1>5 DEF GetSessionFails, Performed, Release, WgDone, taskVars
  <2>2. TasksTell'
    <3>1. \A i \in Jobs :
              /\ Tells(chainTask[i], i, "chain")' <=> Tells(chainTask[i], i, "chain")
              /\ Tells(syncTask[i], i, "sync")' <=> Tells(syncTask[i], i, "sync")
      BY <1>1, <2>1 DEF Tells, Sent, Checks
    <3> QED
      BY <3>1 DEF TasksTell
  <2>3. WorkersTell'
    <3>1. PICK to \in {"ended", "released", "gone"} : worker' = [worker EXCEPT ![j] = to]
      BY <1>5 DEF GetSessionFails, Performed, Release, WgDone
    <3>2. /\ dropped \subseteq dropped'
          /\ j \in dropped' \/ (chainTask[j] = "done" /\ syncTask[j] = "done")
      BY <1>5 DEF GetSessionFails, Performed, Release, WgDone, WorkersTell
    <3>3. \A i \in Jobs : worker'[i] = IF i = j THEN to ELSE worker[i]
      BY <3>1 DEF IInv, TypeOK
    <3> QED
      BY <2>1, <3>2, <3>3 DEF WorkersTell
  <2> QED
    BY <1>3, <2>2, <2>3
<1> QED
  BY <1>4, <1>5 DEF Worker

LEMMA SendTells ==
    ASSUME IInv, Running, NEW j \in Jobs, worker[j] = "perform", NEW item \in Item, Send(item)
    PROVE  /\ phase = "open" /\ UNCHANGED <<main, phase, targets, offered>>
           /\ accepted' = Append(accepted, item)
           /\ \A i \in Jobs : \A kind :
                  Sent(i, kind)' <=> Sent(i, kind) \/ (item.job = i /\ item.kind = kind)
<1>1. ~closed
  BY DEF IInv, ClosedAtTheEnd
<1>2. /\ phase = "open" /\ UNCHANGED <<main, phase, targets, offered>>
      /\ accepted' = Append(accepted, item)
  BY <1>1 DEF Send, Writer!Accept
<1>3. accepted \in Seq(Item)
  BY DEF IInv, TypeOK
<1>4. /\ DOMAIN accepted = 1..Len(accepted) /\ Len(accepted) \in Nat
      /\ DOMAIN accepted' = 1..(Len(accepted) + 1)
      /\ \A i \in DOMAIN accepted : accepted'[i] = accepted[i]
      /\ accepted'[Len(accepted) + 1] = item
  BY <1>2, <1>3
<1>5. ASSUME NEW i \in Jobs, NEW kind
      PROVE  Sent(i, kind)' <=> Sent(i, kind) \/ (item.job = i /\ item.kind = kind)
  <2>1. DOMAIN accepted \subseteq DOMAIN accepted' /\ Len(accepted) + 1 \in DOMAIN accepted'
    BY <1>4
  <2>2. ASSUME NEW k \in DOMAIN accepted', accepted'[k].job = i, accepted'[k].kind = kind
        PROVE  Sent(i, kind) \/ (item.job = i /\ item.kind = kind)
    <3>1. k \in DOMAIN accepted \/ k = Len(accepted) + 1
      BY <1>4
    <3> QED
      BY <1>4, <2>2, <3>1 DEF Sent
  <2>3. Sent(i, kind) => Sent(i, kind)'
    BY <1>4, <2>1 DEF Sent
  <2>4. item.job = i /\ item.kind = kind => Sent(i, kind)'
    BY <1>4, <2>1 DEF Sent
  <2> QED
    BY <2>2, <2>3, <2>4 DEF Sent
<1> QED
  BY <1>2, <1>5

\* One of the two goroutines of a check goes on; if it sends, it sends the
\* result of that check, or a mark.
LEMMA OfferedTask ==
    ASSUME IInv, AATIInv, OfferedIInv, Running, [Next]_vars, NEW j \in Jobs,
           ChainGoroutine(j) \/ SyncGoroutine(j)
    PROVE  OfferedIInv'
<1> USE DEF OfferedIInv
<1>1. UNCHANGED <<jobs, blockchains, result, spawned, worker, dropped>>
  <2>1. UNCHANGED <<jobs, blockchains>>
    BY AnswersStay DEF answers
  <2> QED
    BY <2>1 DEF ChainGoroutine, CheckChain, SendChain, SyncGoroutine, CheckSync, SendSync,
                EraseMark, MarksErased
<1>2. /\ worker[j] = "perform"
      /\ chainTask \in [Jobs -> TaskStates \ {"erase"}] /\ syncTask \in [Jobs -> TaskStates]
      /\ syncNodes \in [Jobs -> SUBSET Nodes]
  <2>1. chainTask[j] \in {"check", "send"} \/ syncTask[j] \in {"check", "send", "erase"}
    BY DEF ChainGoroutine, CheckChain, SendChain, SyncGoroutine, CheckSync, SendSync,
           EraseMark, MarksErased
  <2> QED
    BY <2>1 DEF IInv, ChecksAwaited, TypeOK
<1>3. \A i \in Jobs : Tells(chainTask[i], i, "chain") /\ Tells(syncTask[i], i, "sync")
  BY DEF TasksTell
<1> DEFINE Enough == /\ UNCHANGED <<main, phase, targets, offered>>
                     /\ phase # "open" => accepted' = accepted
                     /\ TasksTell'
                     /\ \A i \in Jobs \ {j} : /\ chainTask'[i] = chainTask[i]
                                              /\ syncTask'[i] = syncTask[i]
<1>4. ASSUME CheckChain(j) \/ (\E nodes \in SUBSET Nodes : CheckSync(j, nodes)) \/ MarksErased(j)
      PROVE  Enough
  <2>1. /\ UNCHANGED <<main, phase, targets, offered, accepted>>
        /\ \/ /\ chainTask[j] = "check" /\ chainTask' = [chainTask EXCEPT ![j] = "send"]
              /\ UNCHANGED syncTask
           \/ /\ syncTask[j] = "check" /\ syncTask' = [syncTask EXCEPT ![j] = "send"]
              /\ UNCHANGED chainTask
           \/ /\ syncTask[j] = "erase" /\ syncTask' = [syncTask EXCEPT ![j] = "done"]
              /\ UNCHANGED chainTask
    BY <1>4 DEF CheckChain, CheckSync, MarksErased, writerVars
  <2>2. \A i \in Jobs : \A kind : Sent(i, kind)' <=> Sent(i, kind)
    BY <2>1 DEF Sent
  <2>3. ASSUME NEW i \in Jobs
        PROVE  Tells(chainTask[i], i, "chain")' /\ Tells(syncTask[i], i, "sync")'
    <3>1. /\ chainTask'[i] = chainTask[i] \/ (chainTask[i] = "check" /\ chainTask'[i] = "send")
          /\ \/ syncTask'[i] = syncTask[i]
             \/ syncTask[i] = "check" /\ syncTask'[i] = "send"
             \/ syncTask[i] = "erase" /\ syncTask'[i] = "done"
      BY <1>2, <2>1
    <3> QED
      BY <1>1, <1>3, <2>2, <3>1 DEF Tells, Checks
  <2>4. \A i \in Jobs \ {j} : chainTask'[i] = chainTask[i] /\ syncTask'[i] = syncTask[i]
    BY <1>2, <2>1
  <2> QED
    BY <2>1, <2>3, <2>4 DEF TasksTell
<1>5. ASSUME SendChain(j)
      PROVE  Enough
  <2> DEFINE item == [kind |-> "chain", job |-> j, nodes |-> {}]
  <2>1. /\ chainTask[j] = "send" /\ chainTask' = [chainTask EXCEPT ![j] = "done"]
        /\ syncTask' = syncTask /\ Send(item)
    BY <1>5 DEF SendChain
  <2>2. item \in Item /\ item.job = j /\ item.kind = "chain"
    BY DEF Item
  <2> HIDE DEF item
  <2>3. /\ phase = "open" /\ UNCHANGED <<main, phase, targets, offered>>
        /\ \A i \in Jobs : \A kind : Sent(i, kind)' <=> Sent(i, kind) \/ (j = i /\ kind = "chain")
    <3>1. /\ phase = "open" /\ UNCHANGED <<main, phase, targets, offered>>
          /\ \A i \in Jobs : \A kind :
                 Sent(i, kind)' <=> Sent(i, kind) \/ (item.job = i /\ item.kind = kind)
      BY <1>2, <2>1, <2>2, SendTells
    <3> QED
      BY <2>2, <3>1
  <2>4. \A i \in Jobs : /\ chainTask'[i] = IF i = j THEN "done" ELSE chainTask[i]
                        /\ syncTask'[i] = syncTask[i]
    BY <1>2, <2>1
  <2>5. ASSUME NEW i \in Jobs
        PROVE  Tells(chainTask[i], i, "chain")' /\ Tells(syncTask[i], i, "sync")'
    <3>1. Sent(i, "sync")' <=> Sent(i, "sync")
      BY <2>3
    <3>2. CASE i = j
      <4>1. Sent(j, "chain")' /\ chainTask'[j] = "done" /\ syncTask'[j] = syncTask[j]
        BY <2>3, <2>4
      <4> QED
        BY <1>1, <1>3, <2>1, <3>1, <3>2, <4>1 DEF Tells, Checks
    <3>3. CASE i # j
      <4>1. /\ Sent(i, "chain")' <=> Sent(i, "chain")
            /\ chainTask'[i] = chainTask[i] /\ syncTask'[i] = syncTask[i]
        BY <2>3, <2>4, <3>3
      <4> QED
        BY <1>1, <1>3, <3>1, <4>1 DEF Tells, Checks
    <3> QED
      BY <3>2, <3>3
  <2> QED
    BY <2>3, <2>4, <2>5 DEF TasksTell
<1>6. ASSUME SendSync(j)
      PROVE  Enough
  <2> DEFINE item == [kind |-> "sync", job |-> j, nodes |-> syncNodes[j]]
  <2>1. /\ syncTask[j] = "send" /\ syncTask' = [syncTask EXCEPT ![j] = "erase"]
        /\ chainTask' = chainTask /\ Send(item)
    BY <1>6 DEF SendSync
  <2>2. item \in Item /\ item.job = j /\ item.kind = "sync"
    BY <1>2 DEF Item
  <2> HIDE DEF item
  <2>3. /\ phase = "open" /\ UNCHANGED <<main, phase, targets, offered>>
        /\ \A i \in Jobs : \A kind : Sent(i, kind)' <=> Sent(i, kind) \/ (j = i /\ kind = "sync")
    <3>1. /\ phase = "open" /\ UNCHANGED <<main, phase, targets, offered>>
          /\ \A i \in Jobs : \A kind :
                 Sent(i, kind)' <=> Sent(i, kind) \/ (item.job = i /\ item.kind = kind)
      BY <1>2, <2>1, <2>2, SendTells
    <3> QED
      BY <2>2, <3>1
  <2>4. \A i \in Jobs : /\ syncTask'[i] = IF i = j THEN "erase" ELSE syncTask[i]
                        /\ chainTask'[i] = chainTask[i]
    BY <1>2, <2>1
  <2>5. ASSUME NEW i \in Jobs
        PROVE  Tells(chainTask[i], i, "chain")' /\ Tells(syncTask[i], i, "sync")'
    <3>1. Sent(i, "chain")' <=> Sent(i, "chain")
      BY <2>3
    <3>2. CASE i = j
      <4>1. Sent(j, "sync")' /\ syncTask'[j] = "erase" /\ chainTask'[j] = chainTask[j]
        BY <2>3, <2>4
      <4> QED
        BY <1>1, <1>3, <2>1, <3>1, <3>2, <4>1 DEF Tells, Checks
    <3>3. CASE i # j
      <4>1. /\ Sent(i, "sync")' <=> Sent(i, "sync")
            /\ chainTask'[i] = chainTask[i] /\ syncTask'[i] = syncTask[i]
        BY <2>3, <2>4, <3>3
      <4> QED
        BY <1>1, <1>3, <3>1, <4>1 DEF Tells, Checks
    <3> QED
      BY <3>2, <3>3
  <2> QED
    BY <2>3, <2>4, <2>5 DEF TasksTell
<1>7. ASSUME NEW n \in Nodes, EraseMark(j, n)
      PROVE  Enough
  <2> DEFINE item == [kind |-> "mark", job |-> j, nodes |-> {n}]
  <2>1. UNCHANGED <<chainTask, syncTask>> /\ Send(item)
    BY <1>7 DEF EraseMark
  <2>2. item \in Item /\ item.kind = "mark"
    BY DEF Item
  <2> HIDE DEF item
  <2>3. /\ phase = "open" /\ UNCHANGED <<main, phase, targets, offered>>
        /\ \A i \in Jobs, kind \in {"chain", "sync"} : Sent(i, kind)' <=> Sent(i, kind)
    <3>1. /\ phase = "open" /\ UNCHANGED <<main, phase, targets, offered>>
          /\ \A i \in Jobs : \A kind :
                 Sent(i, kind)' <=> Sent(i, kind) \/ (item.job = i /\ item.kind = kind)
      BY <1>2, <2>1, <2>2, SendTells
    <3> QED
      BY <2>2, <3>1
  <2>4. ASSUME NEW i \in Jobs
        PROVE  Tells(chainTask[i], i, "chain")' /\ Tells(syncTask[i], i, "sync")'
    BY <1>1, <1>3, <2>1, <2>3 DEF Tells, Checks
  <2> QED
    BY <2>1, <2>3, <2>4 DEF TasksTell
<1>8. Enough
  BY <1>4, <1>5, <1>6, <1>7 DEF ChainGoroutine, SyncGoroutine
<1>9. EndIsReached'
  BY <1>1, <1>8, EndUnreached
<1>10. WorkersTell'
  BY <1>1, <1>2, <1>8 DEF WorkersTell
<1> QED
  BY <1>8, <1>9, <1>10

LEMMA OfferedStep == IInv /\ AATIInv /\ OfferedIInv /\ [Next]_vars => OfferedIInv'
<1> SUFFICES ASSUME IInv, AATIInv, OfferedIInv, [Next]_vars
             PROVE  OfferedIInv'
  OBVIOUS
<1>1. CASE Running /\ (Main \/ (\E c \in Caches : Offer(c)) \/ Finish \/ Expire)
  BY <1>1, OfferedMain
<1>2. ASSUME Running, NEW j \in Jobs, Worker(j)
      PROVE  OfferedIInv'
  BY <1>2, OfferedWorker
<1>3. ASSUME Running, NEW j \in Jobs, ChainGoroutine(j) \/ SyncGoroutine(j)
      PROVE  OfferedIInv'
  BY <1>3, OfferedTask
<1>4. CASE UNCHANGED vars
  <2>1. UNCHANGED <<accepted, chainTask, syncTask, dropped, jobs, blockchains, worker, spawned,
                    main, result, phase, targets, offered>>
    BY <1>4, AnswersStay DEF vars, taskVars, writerVars, answers
  <2>2. \A j \in Jobs : /\ Tells(chainTask[j], j, "chain")' <=> Tells(chainTask[j], j, "chain")
                        /\ Tells(syncTask[j], j, "sync")' <=> Tells(syncTask[j], j, "sync")
    BY <2>1 DEF Tells, Sent, Checks
  <2>3. TasksTell'
    BY <2>2 DEF OfferedIInv, TasksTell
  <2>4. WorkersTell'
    BY <2>1 DEF OfferedIInv, WorkersTell
  <2>5. AllGone' <=> AllGone
    BY <2>1 DEF AllGone
  <2>6. Completed' <=> Completed
    BY <2>1 DEF Completed
  <2>7. /\ main' = "wait" => spawned' = Len(jobs')
        /\ phase' = "done" => \A c \in targets' : offered'[c] = accepted'
        /\ main' = main /\ phase' = phase
    BY <2>1 DEF OfferedIInv, EndIsReached
  <2>8. EndIsReached'
    BY <2>5, <2>6, <2>7 DEF OfferedIInv, EndIsReached
  <2> QED
    BY <2>3, <2>4, <2>8 DEF OfferedIInv
<1> QED
  BY <1>1, <1>2, <1>3, <1>4 DEF Next, Terminated

\* What a completed run offered of a round.
LEMMA ResultsOffered ==
    ASSUME IInv, AATIInv, OfferedIInv, Completed,
           NEW j \in 1..spawned, j \notin dropped, NEW c \in targets
    PROVE  ResultsOf(j, c) = blockchains[jobs[j].chain]
<1> USE DEF OfferedIInv
<1>1. /\ worker[j] = "gone" /\ offered[c] = accepted
  BY DEF EndIsReached, AllGone
<1>2. j \in Jobs
  <2>1. spawned \in 0..MaxJobs
    BY DEF IInv, TypeOK
  <2> QED
    BY <2>1, Bounds DEF Jobs
<1>3. /\ jobs[j].chain \in DOMAIN blockchains
      /\ Sent(j, "chain") <=> "chain" \in Checks(j)
      /\ Sent(j, "sync") <=> "sync" \in Checks(j)
  <2>1. chainTask[j] = "done" /\ syncTask[j] = "done"
    BY <1>1, <1>2 DEF WorkersTell
  <2> QED
    BY <1>2, <2>1 DEF TasksTell, Tells
<1>4. Checks(j) \subseteq {"chain", "sync"}
  BY <1>3, CliAssumption DEF Checks, AATIInv, Answered
<1>5. \A kind : kind \in ResultsOf(j, c) <=> Sent(j, kind) /\ kind # "mark"
  BY <1>1 DEF ResultsOf, Sent
<1>6. \A kind : Sent(j, kind) => kind \in {"chain", "sync", "mark"}
  <2>1. accepted \in Seq(Item)
    BY DEF IInv, TypeOK
  <2>2. \A i \in DOMAIN accepted : accepted[i] \in Item
    BY <2>1
  <2> QED
    BY <2>2 DEF Sent, Item
<1>7. \A kind : kind \in ResultsOf(j, c) <=> kind \in Checks(j)
  BY <1>3, <1>4, <1>5, <1>6
<1> QED
  BY <1>7 DEF Checks

\* A completed run had every configured check of every application that both
\* sources know, on each of its chains, and offered the results to every
\* connected cache, except where there was no session or no blockchain.
THEOREM AllOfferedHolds == Spec /\ []JobsFit => []AllOffered
<1>1. IInv /\ AATIInv /\ OfferedIInv => AllOffered
  <2> SUFFICES ASSUME IInv, AATIInv, OfferedIInv, Completed,
                      NEW i \in DOMAIN page, NEW d \in DOMAIN database,
                      page[i].key = database[d].key,
                      NEW ch \in Range(page[i].chains)
               PROVE  \E j \in 1..spawned :
                          /\ ntApps[jobs[j].index] = page[i] /\ jobs[j].chain = ch
                          /\ \/ j \in dropped
                             \/ \A c \in targets : ResultsOf(j, c) = blockchains[ch]
    BY DEF AllOffered
  <2>1. Answered /\ spawned = Len(jobs)
    BY DEF AATIInv, OfferedIInv, EndIsReached, AllGone
  <2>2. PICK k \in DOMAIN ntApps : ntApps[k] = page[i]
    <3>1. Has(page, page[i]) /\ page[i].key \in Keys(database)
      BY DEF Has, Keys
    <3>2. Has(KnownApps, page[i])
      BY <2>1, <3>1, KnownAppsFacts
    <3> QED
      BY <2>1, <3>2 DEF Answered, Has
  <2>3. PICK j \in DOMAIN jobs : jobs[j] = [index |-> k, chain |-> ch]
    <3>1. Has(jobs, [index |-> k, chain |-> ch])
      BY <2>1, <2>2, JobsFacts
    <3> QED
      BY <3>1 DEF Has
  <2>4. j \in 1..spawned /\ jobs[j].index = k /\ jobs[j].chain = ch
    BY <2>1, <2>3, JobsFacts
  <2>5. j \in dropped \/ \A c \in targets : ResultsOf(j, c) = blockchains[ch]
    BY <2>4, ResultsOffered
  <2> QED
    BY <2>2, <2>4, <2>5
<1>2. Init => IInv /\ AATIInv /\ OfferedIInv
  BY InitIInv, AATInit, OfferedInit
<1>3. (IInv /\ AATIInv /\ OfferedIInv) /\ JobsFit /\ [Next]_vars
          => (IInv /\ AATIInv /\ OfferedIInv)'
  BY Step, AATStep, OfferedStep
<1> QED
  BY <1>1, <1>2, <1>3, PTL DEF Spec
================================================================================
