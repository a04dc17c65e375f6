------------------------------- MODULE CliChecks -------------------------------
(***************************************************************************)
(* The fishermen's QoS checks as the command line tool runs them:          *)
(* RunApplicationChecks with the tool's performChecks. The staked          *)
(* applications are matched with those of the portal database, and for     *)
(* every application and chain a goroutine gets the session, runs the two  *)
(* checks side by side, and sends their results, and the failure marks to  *)
(* erase, to the batch writer, which appears as OrderedDelivery.           *)
(***************************************************************************)
EXTENDS Naturals, Sequences, FiniteSets, SequencesExt

CONSTANTS Networks,      \* the lists of staked applications the network may answer
          Databases,     \* the lists of applications the portal may answer
          Blockchains,   \* the maps from chains to their checks the portal may answer
          Nodes,         \* the nodes of the sessions
          Caches,        \* redisConnectionStrings
          PerPage,       \* the size of the one page of applications asked for
          Concurrency,   \* dispatchConcurrency
          Window,        \* how far the batch writer may run one cache ahead of another
          MaxJobs,       \* bound: applications times chains
          MayExpire      \* can the tool's context reach its deadline?

IsSeq(s) == s \in Seq(Range(s))

\* An application of the network has a public key and chains, one of the
\* database the key its AAT is for, and an identity of its own.
ASSUME CliAssumption == /\ \A nt \in Networks :
                               /\ IsSeq(nt)
                               /\ \A i \in DOMAIN nt : /\ DOMAIN nt[i] = {"key", "chains"}
                                                        /\ IsSeq(nt[i].chains)
                        /\ \A db \in Databases :
                               /\ IsSeq(db)
                               /\ \A i \in DOMAIN db : DOMAIN db[i] = {"key", "id"}
                        /\ \A bc \in Blockchains : \A ch \in DOMAIN bc :
                               bc[ch] \subseteq {"chain", "sync"}
                        /\ PerPage \in Nat
                        /\ IsFiniteSet(Caches)
                        /\ Concurrency \in Nat \ {0}
                        /\ MaxJobs \in Nat
                        /\ MayExpire \in BOOLEAN

Jobs == 1..MaxJobs
Item == [kind : {"chain", "sync", "mark"}, job : Jobs, nodes : SUBSET Nodes]

VARIABLES main,          \* where RunApplicationChecks is
          result,        \* what it returned
          open,          \* which of the metrics and redis connections are open
          network, database, blockchains,  \* what the calls before the loop answer
          ntApps, dbApps,                  \* the two lists they are matched to
          spawned,       \* how many goroutines the loop has spawned
          worker,        \* where each of them is
          chainTask,     \* where the goroutine of its chain check is
          syncTask,      \* where the goroutine of its sync check is
          syncNodes,     \* the nodes in sync whose mark is not erased yet
          aat,           \* the database application whose AAT it signs with
          slots,         \* how much of the semaphore is held
          closed,        \* has the batch channel been closed?
          expired,       \* is the context past its deadline?
          dropped        \* history: the goroutines that got no session or no blockchain

\* The batch writer's own variables; see OrderedDelivery.
VARIABLES phase, targets, accepted, offered

writerVars == <<phase, targets, accepted, offered>>
answers == <<network, database, blockchains, ntApps, dbApps>>
taskVars == <<chainTask, syncTask, syncNodes>>
vars == <<main, result, open, answers, spawned, worker, taskVars, aat, slots, closed,
          expired, dropped, writerVars>>

Writer == INSTANCE OrderedDelivery WITH Items <- Item

--------------------------------------------------------------------------------
(* FilterStakedAppsNotOnDB *)

Keys(apps) == {apps[i].key : i \in DOMAIN apps}

\* Only the first page is asked for.
page == SubSeq(network, 1, IF Len(network) < PerPage THEN Len(network) ELSE PerPage)

\* publicKeyToApps: of two database applications with one key the last stays.
AppWithKey(k) == CHOOSE a \in Range(database) :
                     \E i \in DOMAIN database :
                         /\ database[i] = a /\ a.key = k
                         /\ \A j \in DOMAIN database : j > i => database[j].key # k

\* The two slices it returns, index by index.
KnownApps == FlattenSeq([i \in DOMAIN page |->
              IF page[i].key \in Keys(database) THEN <<page[i]>> ELSE <<>>])
RowsOfKnown == [i \in DOMAIN KnownApps |-> AppWithKey(KnownApps[i].key)]

\* The rounds of the two nested loops, in their order.
jobs == FlattenSeq([i \in DOMAIN ntApps |->
            [c \in DOMAIN ntApps[i].chains |-> [index |-> i, chain |-> ntApps[i].chains[c]]]])

--------------------------------------------------------------------------------
Init == /\ main = "metrics"
        /\ result = "none"
        /\ open = {}
        /\ network \in Networks
        /\ database \in Databases
        /\ blockchains \in Blockchains
        /\ ntApps = KnownApps
        /\ dbApps = RowsOfKnown
        /\ spawned = 0
        /\ worker = [j \in Jobs |-> "none"]
        /\ chainTask = [j \in Jobs |-> "none"]
        /\ syncTask = [j \in Jobs |-> "none"]
        /\ syncNodes = [j \in Jobs |-> {}]
        /\ aat = [j \in Jobs |-> "none"]
        /\ slots = 0
        /\ closed = FALSE
        /\ expired = FALSE
        /\ dropped = {}
        /\ Writer!Init

--------------------------------------------------------------------------------
(* The main goroutine, up to the loop *)

Return(r) == main' = "returned" /\ result' = r

NewMetricsRecorder ==
    /\ main = "metrics"
    /\ open' = {"metrics"}
    /\ main' = "redis"
    /\ UNCHANGED <<result, answers, spawned, worker, taskVars, aat, slots, closed, expired,
                   dropped, writerVars>>

\* The batch writer is started with these caches once the height, the
\* applications and the blockchains are known.
ConnectToCacheClients ==
    /\ main = "redis"
    /\ open' = open \cup {"redis"}
    /\ main' = "ask"
    /\ UNCHANGED <<result, answers, spawned, worker, taskVars, aat, slots, closed, expired,
                   dropped, writerVars>>

StartBatchWriter ==
    /\ main = "ask"
    /\ \E cs \in SUBSET Caches \ {{}} : Writer!Open(cs)
    /\ main' = "loop"
    /\ UNCHANGED <<result, open, answers, spawned, worker, taskVars, aat, slots, closed,
                   expired, dropped>>

\* The early returns close nothing.
SetupFails ==
    /\ main \in {"metrics", "redis", "ask"}
    /\ Return("error")
    /\ UNCHANGED <<open, answers, spawned, worker, taskVars, aat, slots, closed, expired,
                   dropped, writerVars>>

\* A bug to look for: the semaphore is not taken.
SpawnUnbounded ==
    /\ main = "loop"
    /\ spawned < Len(jobs)
    /\ slots' = slots + 1
    /\ spawned' = spawned + 1
    /\ worker' = [worker EXCEPT ![spawned'] = "session"]
    /\ UNCHANGED <<main, result, open, answers, taskVars, aat, closed, expired, dropped,
                   writerVars>>

\* The error of sem.Acquire, which fails past the deadline, is ignored.
Spawn == /\ main = "loop"
         /\ spawned < Len(jobs)
         /\ \/ slots < Concurrency /\ slots' = slots + 1
            \/ slots >= Concurrency /\ expired /\ UNCHANGED slots
         /\ spawned' = spawned + 1
         /\ worker' = [worker EXCEPT ![spawned'] = "session"]
         /\ UNCHANGED <<main, result, open, answers, taskVars, aat, closed, expired, dropped,
                        writerVars>>

LoopEnds == /\ main = "loop"
            /\ spawned = Len(jobs)
            /\ main' = "wait"
            /\ UNCHANGED <<result, open, answers, spawned, worker, taskVars, aat, slots,
                           closed, expired, dropped, writerVars>>

--------------------------------------------------------------------------------
(* The goroutine of one application and chain *)

\* A bug to look for: the goroutine reads the loop's index, not its own.
AATOfLoop(j) == dbApps[jobs[spawned].index].id

AATOf(j) == dbApps[jobs[j].index].id

Starts(check, j) == IF check \in blockchains[jobs[j].chain] THEN "check" ELSE "done"

\* getSession: a session that some cache has at this height, or else a new
\* one. A check its blockchain does not configure ends at once.
GetSession(j) ==
    /\ worker[j] = "session"
    /\ jobs[j].chain \in DOMAIN blockchains
    /\ worker' = [worker EXCEPT ![j] = "perform"]
    /\ aat' = [aat EXCEPT ![j] = AATOf(j)]
    /\ chainTask' = [chainTask EXCEPT ![j] = Starts("chain", j)]
    /\ syncTask' = [syncTask EXCEPT ![j] = Starts("sync", j)]
    /\ UNCHANGED <<main, result, open, answers, spawned, syncNodes, slots, closed, expired,
                   dropped, writerVars>>

\* A bug to look for: this return does not release the semaphore.
GetSessionFailsUnreleased(j) ==
    /\ worker[j] = "session"
    /\ worker' = [worker EXCEPT ![j] = "gone"]
    /\ dropped' = dropped \cup {j}
    /\ UNCHANGED <<main, result, open, answers, spawned, taskVars, aat, slots, closed,
                   expired, writerVars>>

\* No cache has the session and none is dispatched, or its blockchain is
\* not in the database.
GetSessionFails(j) ==
    /\ worker[j] = "session"
    /\ worker' = [worker EXCEPT ![j] = "ended"]
    /\ dropped' = dropped \cup {j}
    /\ UNCHANGED <<main, result, open, answers, spawned, taskVars, aat, slots, closed,
                   expired, writerVars>>

\* A send on the batch channel; on a closed one it brings the process down.
Send(item) == IF closed THEN main' = "panicked" /\ UNCHANGED writerVars
                        ELSE UNCHANGED main /\ Writer!Accept(item)

\* ChainChecker.Check (see ChainCheck) found some nodes.
CheckChain(j) ==
    /\ chainTask[j] = "check"
    /\ chainTask' = [chainTask EXCEPT ![j] = "send"]
    /\ UNCHANGED <<main, result, open, answers, spawned, worker, syncTask, syncNodes, aat,
                   slots, closed, expired, dropped, writerVars>>

SendChain(j) ==
    /\ chainTask[j] = "send"
    /\ Send([kind |-> "chain", job |-> j, nodes |-> {}])
    /\ chainTask' = [chainTask EXCEPT ![j] = "done"]
    /\ UNCHANGED <<result, open, answers, spawned, worker, syncTask, syncNodes, aat, slots,
                   closed, expired, dropped>>

\* A bug to look for: the marks are erased of nodes whose result is not cached.
CheckSyncUncached(j, nodes) ==
    /\ syncTask[j] = "check"
    /\ syncTask' = [syncTask EXCEPT ![j] = "erase"]
    /\ syncNodes' = [syncNodes EXCEPT ![j] = nodes]
    /\ UNCHANGED <<main, result, open, answers, spawned, worker, chainTask, aat, slots,
                   closed, expired, dropped, writerVars>>

\* SyncChecker.Check (see SyncCheck) found these nodes.
CheckSync(j, nodes) ==
    /\ syncTask[j] = "check"
    /\ syncTask' = [syncTask EXCEPT ![j] = "send"]
    /\ syncNodes' = [syncNodes EXCEPT ![j] = nodes]
    /\ UNCHANGED <<main, result, open, answers, spawned, worker, chainTask, aat, slots,
                   closed, expired, dropped, writerVars>>

\* CacheNodes
SendSync(j) ==
    /\ syncTask[j] = "send"
    /\ Send([kind |-> "sync", job |-> j, nodes |-> syncNodes[j]])
    /\ syncTask' = [syncTask EXCEPT ![j] = "erase"]
    /\ UNCHANGED <<result, open, answers, spawned, worker, chainTask, syncNodes, aat, slots,
                   closed, expired, dropped>>

\* One round of EraseNodesFailureMark.
EraseMark(j, n) ==
    /\ syncTask[j] = "erase"
    /\ n \in syncNodes[j]
    /\ Send([kind |-> "mark", job |-> j, nodes |-> {n}])
    /\ syncNodes' = [syncNodes EXCEPT ![j] = @ \ {n}]
    /\ UNCHANGED <<result, open, answers, spawned, worker, chainTask, syncTask, aat, slots,
                   closed, expired, dropped>>

MarksErased(j) ==
    /\ syncTask[j] = "erase"
    /\ syncNodes[j] = {}
    /\ syncTask' = [syncTask EXCEPT ![j] = "done"]
    /\ UNCHANGED <<main, result, open, answers, spawned, worker, chainTask, syncNodes, aat,
                   slots, closed, expired, dropped, writerVars>>

\* wg.Wait() of performChecks.
Performed(j) ==
    /\ worker[j] = "perform"
    /\ chainTask[j] = "done" /\ syncTask[j] = "done"
    /\ worker' = [worker EXCEPT ![j] = "ended"]
    /\ UNCHANGED <<main, result, open, answers, spawned, taskVars, aat, slots, closed,
                   expired, dropped, writerVars>>

\* The deferred calls run last in, first out: sem.Release(1), then wg.Done().
Release(j) ==
    /\ worker[j] = "ended"
    /\ worker' = [worker EXCEPT ![j] = "released"]
    /\ IF slots = 0 THEN main' = "panicked" /\ UNCHANGED slots
                    ELSE slots' = slots - 1 /\ UNCHANGED main
    /\ UNCHANGED <<result, open, answers, spawned, taskVars, aat, closed, expired, dropped,
                   writerVars>>

WgDone(j) ==
    /\ worker[j] = "released"
    /\ worker' = [worker EXCEPT ![j] = "gone"]
    /\ UNCHANGED <<main, result, open, answers, spawned, taskVars, aat, slots, closed,
                   expired, dropped, writerVars>>

--------------------------------------------------------------------------------
(* The batch writer, and the end of the run *)

Offer(c) == /\ c \in targets
            /\ \E n \in (Len(offered[c]) + 1)..Len(accepted) : Writer!Offer(c, n)
            /\ UNCHANGED <<main, result, open, answers, spawned, worker, taskVars, aat,
                           slots, closed, expired, dropped>>

Finish == /\ closed
          /\ Writer!Finish
          /\ UNCHANGED <<main, result, open, answers, spawned, worker, taskVars, aat, slots,
                         closed, expired, dropped>>

CloseBatch ==
    /\ main = "wait"
    /\ \A j \in 1..spawned : worker[j] = "gone"
    /\ closed' = TRUE
    /\ main' = "drain"
    /\ UNCHANGED <<result, open, answers, spawned, worker, taskVars, aat, slots, expired,
                   dropped, writerVars>>

\* A bug to look for: cacheWg.Wait() is left out.
CloseConnectionsUnawaited ==
    /\ main = "drain"
    /\ open' = {}
    /\ Return("ok") \/ Return("close error")
    /\ UNCHANGED <<answers, spawned, worker, taskVars, aat, slots, closed, expired, dropped,
                   writerVars>>

\* cacheWg.Wait() returned; the recorder and the connections are closed.
CloseConnections ==
    /\ main = "drain"
    /\ phase = "done"
    /\ open' = {}
    /\ Return("ok") \/ Return("close error")
    /\ UNCHANGED <<answers, spawned, worker, taskVars, aat, slots, closed, expired, dropped,
                   writerVars>>

\* context.WithTimeout of the tool's main.
Expire == /\ MayExpire
          /\ main \in {"loop", "wait"}
          /\ ~expired
          /\ expired' = TRUE
          /\ UNCHANGED <<main, result, open, answers, spawned, worker, taskVars, aat, slots,
                         closed, dropped, writerVars>>

Main == \/ NewMetricsRecorder
        \/ ConnectToCacheClients
        \/ StartBatchWriter
        \/ SetupFails
        \/ Spawn
        \/ LoopEnds
        \/ CloseBatch
        \/ CloseConnections

Worker(j) == \/ GetSession(j)
             \/ GetSessionFails(j)
             \/ Performed(j)
             \/ Release(j)
             \/ WgDone(j)

ChainGoroutine(j) == CheckChain(j) \/ SendChain(j)

SyncGoroutine(j) == \/ \E nodes \in SUBSET Nodes : CheckSync(j, nodes)
                    \/ SendSync(j)
                    \/ \E n \in Nodes : EraseMark(j, n)
                    \/ MarksErased(j)

Running == main # "panicked"

\* The run is over; the explicit step lets TLC look for deadlocks.
Terminated == main \in {"returned", "panicked"} /\ UNCHANGED vars

Next == \/ Running /\ \/ Main
                      \/ \E j \in Jobs : \/ Worker(j)
                                         \/ ChainGoroutine(j)
                                         \/ SyncGoroutine(j)
                      \/ \E c \in Caches : Offer(c)
                      \/ Finish
                      \/ Expire
        \/ Terminated

Spec == Init /\ [][Next]_vars

\* Relays, redis and HTTP calls have timeouts, so every goroutine goes on,
\* and the batch writer's contract is to offer what it accepted.
FairSpec == /\ Spec
            /\ WF_vars(Running /\ Main)
            /\ \A j \in Jobs : /\ WF_vars(Running /\ Worker(j))
                               /\ WF_vars(Running /\ ChainGoroutine(j))
                               /\ WF_vars(Running /\ SyncGoroutine(j))
            /\ \A c \in Caches : WF_vars(Running /\ Offer(c))
            /\ WF_vars(Running /\ Finish)

--------------------------------------------------------------------------------

WorkerStates == {"none", "session", "perform", "ended", "released", "gone"}
TaskStates == {"none", "check", "send", "erase", "done"}

TypeOK == /\ main \in {"metrics", "redis", "ask", "loop", "wait", "drain", "returned",
                       "panicked"}
          /\ result \in {"none", "error", "ok", "close error"}
          /\ open \in SUBSET {"metrics", "redis"}
          /\ spawned \in 0..MaxJobs
          /\ worker \in [Jobs -> WorkerStates]
          /\ chainTask \in [Jobs -> TaskStates \ {"erase"}]
          /\ syncTask \in [Jobs -> TaskStates]
          /\ syncNodes \in [Jobs -> SUBSET Nodes]
          /\ slots \in 0..Concurrency
          /\ closed \in BOOLEAN
          /\ expired \in BOOLEAN
          /\ dropped \in SUBSET Jobs
          /\ phase \in {"new", "open", "done"}
          /\ targets \in SUBSET Caches
          /\ accepted \in Seq(Item)
          /\ offered \in [Caches -> Seq(Item)]

\* Every goroutine signs its relays for the very application it checks: the
\* two lists FilterStakedAppsNotOnDB returns stay in step, whatever is
\* missing from either source, and each goroutine keeps its own index.
OwnAAT ==
    \A j \in 1..spawned :
        worker[j] = "perform" =>
            \E i \in DOMAIN database :
                /\ database[i].id = aat[j]
                /\ database[i].key = ntApps[jobs[j].index].key

\* The failure mark of a node is erased in a cache only after the cache was
\* offered a sync result of that goroutine which names the node.
MarkAfterResult ==
    \A c \in Caches : \A i \in DOMAIN offered[c] :
        offered[c][i].kind = "mark" =>
            \E k \in 1..(i - 1) : /\ offered[c][k].kind = "sync"
                                  /\ offered[c][k].job = offered[c][i].job
                                  /\ offered[c][i].nodes \subseteq offered[c][k].nodes

Completed == result \in {"ok", "close error"}
ResultsOf(j, c) == {offered[c][i].kind : i \in {k \in DOMAIN offered[c] :
                                                    offered[c][k].job = j}} \ {"mark"}

\* When the run completes, every application of the network's first page that
\* the portal knows had, on each of its chains, each check its blockchain
\* configures, and the results were offered to every connected cache; the
\* exceptions are the goroutines that got no session or no blockchain.
AllOffered ==
    Completed =>
        \A i \in DOMAIN page, d \in DOMAIN database :
            page[i].key = database[d].key =>
                \A ch \in Range(page[i].chains) :
                    \E j \in 1..spawned :
                        /\ ntApps[jobs[j].index] = page[i] /\ jobs[j].chain = ch
                        /\ \/ j \in dropped
                           \/ \A c \in targets : ResultsOf(j, c) = blockchains[ch]

\* Unless the deadline passes, the run returns: no goroutine keeps its slot
\* or its place in a WaitGroup, whichever session is missing, and none sends
\* on the batch channel after it was closed, which would end the process.
Returns == <>(expired \/ main = "returned")
================================================================================
