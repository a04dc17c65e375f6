------------------------------- MODULE RegionData -------------------------------
(***************************************************************************)
(* How the cherry picker's snapshot reads one region                       *)
(* (cherry-picker/cmd/snap-data/get-cache.go): it lists the service logs   *)
(* of the region's redis and gets each of them, then lists the counters    *)
(* and the failure marks and gets those. None of this is a transaction:    *)
(* all the while the portal, which is not in this repository, counts       *)
(* relays, begins new sessions and marks nodes, and keys expire. KEYS asks *)
(* one shard of a redis cluster, and a pipeline may hide the error of one  *)
(* of its GETs. What was read when a call fails is kept and saved (see     *)
(* SnapData).                                                              *)
(***************************************************************************)
EXTENDS Naturals, Sequences, FiniteSets, SequencesExt

CONSTANTS Nodes,       \* the (public key, chain) pairs of the region
          Sessions,    \* the session keys
          Shards,      \* the masters of the redis cluster; a single one without
          ShardOf,     \* where the keys of a node are: its chain is their hash tag
          NoShard,     \* no shard
          NoSession,   \* the empty session key
          NoValue,     \* of a key that is not there, which MGetPipe gives as ""
          MaxKeys,     \* bound: how many keys the region has when the reading begins
          MaxCount,    \* bound: what a counter may hold
          MaxChanges   \* bound: what changes in the cache while it is read

Counters == {"success", "failures"}  \* successKey and failuresKey
Kinds == Counters \cup {"service", "failure"}
Key == [kind : {"service", "failure"}, node : Nodes, session : {NoSession}]
       \cup [kind : Counters, node : Nodes, session : Sessions]
KeysOf(kind) == {k \in Key : k.kind = kind}
KeyOf(kind, n, s) == [kind |-> kind, node |-> n, session |-> s]
Value == Sessions \cup (0..MaxCount) \cup {NoValue}

ASSUME RegionDataAssumption == /\ IsFiniteSet(Key)
                               /\ ShardOf \in [Nodes -> Shards]
                               /\ NoShard \notin Shards
                               /\ NoSession \notin Sessions
                               /\ NoValue \notin Sessions \cup (0..MaxCount)
                               /\ MaxKeys \in Nat
                               /\ MaxCount \in Nat \ {0}
                               /\ MaxChanges \in Nat

\* How the texts true and false of a failure mark appear among the values.
Yes == 1
No == 0

VARIABLES content,  \* the region's redis
          changes,  \* how often it changed
          stage,    \* the next call of the reading, or "done", or "failed"
          keys,     \* the keys listed for the current MGetPipe
          results,  \* what its GETs gave so far, by their place in the pipeline
          errors,   \* the places of those that failed
          AppData,  \* the region's AppData: an entry per node, or NoEntry
          asked,    \* history: the shard that each KEYS asked
          dropped,  \* history: the keys whose GET failed in a pipeline without error
          held      \* history: what each key held since the reading began

cacheVars == <<content, changes, held>>
readVars == <<stage, keys, results, errors, AppData, asked, dropped>>
vars == <<cacheVars, readVars>>

NoEntry == [session |-> NoValue, successes |-> 0, failures |-> 0, failure |-> FALSE]
Nothing == [i \in {} |-> NoValue]

\* A cache as the portal left it: some keys are there, and each log that is
\* there names a session.
Init == /\ \E present \in SUBSET Key, named \in [Nodes -> Sessions] :
              /\ Cardinality(present) <= MaxKeys
              /\ content = [k \in Key |-> CASE k \notin present     -> NoValue
                                           [] k.kind = "service" -> named[k.node]
                                           [] OTHER              -> 1]
        /\ changes = 0
        /\ held = [k \in Key |-> {content[k]}]
        /\ stage = "service"
        /\ keys = <<>>
        /\ results = Nothing
        /\ errors = {}
        /\ AppData = [n \in Nodes |-> NoEntry]
        /\ asked = [kind \in Kinds |-> NoShard]
        /\ dropped = {}

--------------------------------------------------------------------------------
(* The portal, and time *)

\* A log names another session, a counter goes up, a node is marked or its
\* mark is set to false (EraseNodesFailureMark), a key expires.
NewValues(k) == {NoValue} \cup
                CASE k.kind = "service" -> Sessions
                  [] k.kind = "failure" -> {Yes, No}
                  [] OTHER -> {IF content[k] = NoValue THEN 1 ELSE content[k] + 1}

Change(k, v) == /\ changes < MaxChanges
                /\ stage \notin {"done", "failed"}
                /\ v \in (NewValues(k) \cap Value) \ {content[k]}
                /\ content' = [content EXCEPT ![k] = v]
                /\ held' = [held EXCEPT ![k] = @ \cup {v}]
                /\ changes' = changes + 1
                /\ UNCHANGED readVars

--------------------------------------------------------------------------------
(* KEYS and MGetPipe *)

\* A cluster client sends KEYS to one shard, any.
Present(kind, shard) ==
    {k \in KeysOf(kind) : content[k] # NoValue /\ ShardOf[k.node] = shard}

Keys(kind, found) == \E shard \in Shards :
                        /\ asked' = [asked EXCEPT ![kind] = shard]
                        /\ found \in SetToSeqs(Present(kind, shard))

InPipeline == stage \in {"logs", "values"}

\* One GET of the pipeline, for a key that may be gone by now. The shards of
\* a cluster answer in any order.
Get(i) == /\ InPipeline
          /\ i \in DOMAIN keys \ DOMAIN results
          /\ results' = [j \in DOMAIN results \cup {i} |->
                             IF j = i THEN content[keys[i]] ELSE results[j]]
          /\ UNCHANGED <<cacheVars, stage, keys, errors, AppData, asked, dropped>>

\* Its shard does not answer, or with an error.
GetFails(i) == /\ InPipeline
               /\ i \in DOMAIN keys \ DOMAIN results
               /\ results' = [j \in DOMAIN results \cup {i} |->
                                  IF j = i THEN NoValue ELSE results[j]]
               /\ errors' = errors \cup {i}
               /\ UNCHANGED <<cacheVars, stage, keys, AppData, asked, dropped>>

\* The error of the pipeline is the first of its GETs' errors, and redis.Nil,
\* that of a key that is gone, is not one: the others' are dropped.
PipelineSucceeds ==
    /\ DOMAIN results = DOMAIN keys
    /\ errors # {} => \E i \in DOMAIN keys \ errors : /\ results[i] = NoValue
                                                      /\ \A j \in errors : i < j

\* A bug to look for: a key that is gone has no place among the results.
ResultUnlessGone(i) ==
    LET there(j) == j \in DOMAIN keys /\ results[j] # NoValue
        place == {j \in DOMAIN keys : there(j) /\ Cardinality({l \in 1..j : there(l)}) = i}
    IN  IF place = {} THEN NoValue ELSE results[CHOOSE j \in place : TRUE]

\* The value that comes with keys[i].
Result(i) == results[i]

Listed == {keys[i] : i \in DOMAIN keys}
ResultFor(k) == Result(CHOOSE i \in DOMAIN keys : keys[i] = k)

PipelineEnds == /\ PipelineSucceeds
                /\ keys' = <<>>
                /\ results' = Nothing
                /\ errors' = {}
                /\ dropped' = dropped \cup {keys[i] : i \in errors}
                /\ UNCHANGED <<cacheVars, asked>>

--------------------------------------------------------------------------------
(* getServiceLogData and getSuccessAndFailureData *)

\* Without service logs nothing is got, but the counters are read all the same.
ListServiceLogs == /\ stage = "service"
                   /\ Keys("service", keys')
                   /\ stage' = IF keys' = <<>> THEN "success" ELSE "logs"
                   /\ UNCHANGED <<cacheVars, results, errors, AppData, dropped>>

\* A bug to look for: a log that is no JSON ends the loop.
LogUnlessOneIsGone(n) ==
    IF \E k \in Listed : ResultFor(k) = NoValue THEN NoSession
    ELSE ResultFor(KeyOf("service", n, NoSession))

\* The log of node n, if its key was listed. One that is gone is no JSON.
Log(n) == LET got == ResultFor(KeyOf("service", n, NoSession))
          IN  IF got = NoValue THEN NoSession ELSE got

ServiceLogsRead ==
    /\ stage = "logs"
    /\ PipelineEnds
    /\ AppData' = [n \in Nodes |-> IF KeyOf("service", n, NoSession) \in Listed
                                   THEN [NoEntry EXCEPT !.session = Log(n)] ELSE AppData[n]]
    /\ stage' = "success"

Following(s) == CASE s = "success" -> "failures"
                  [] s = "failures" -> "failure"
                  [] s = "failure" -> "values"

ListCounters == /\ stage \in Counters \cup {"failure"}
                /\ \E found \in UNION {SetToSeqs(Present(stage, shard)) : shard \in Shards} :
                      /\ Keys(stage, found)
                      /\ keys' = keys \o found
                /\ stage' = Following(stage)
                /\ UNCHANGED <<cacheVars, results, errors, AppData, dropped>>

\* A bug to look for: the counters of any session are taken.
CountOfAny(kind, n) ==
    LET got == {k \in Listed : k.kind = kind /\ k.node = n /\ ResultFor(k) # NoValue}
    IN  IF got = {} THEN 0 ELSE ResultFor(CHOOSE k \in got : TRUE)

\* A counter counts for the entry of its node if it is of the entry's session
\* and a number; "" is none.
Count(kind, n) == LET k == KeyOf(kind, n, AppData[n].session)
                  IN  IF k \in Listed /\ ResultFor(k) # NoValue THEN ResultFor(k) ELSE 0

Marked(n) == LET k == KeyOf("failure", n, NoSession) IN k \in Listed /\ ResultFor(k) = Yes

Counted(n) == [AppData[n] EXCEPT !.successes = Count("success", n),
                                 !.failures = Count("failures", n),
                                 !.failure = Marked(n)]

\* A bug to look for: the entries are made anew, of what has a counter.
EntryIfCounted(n) ==
    IF \E kind \in Counters : KeyOf(kind, n, AppData[n].session) \in Listed
    THEN Counted(n) ELSE NoEntry

\* Counters and marks of a node without a log are for no entry.
EntryWithCounts(n) == IF AppData[n] = NoEntry THEN NoEntry ELSE Counted(n)

CountersRead == /\ stage = "values"
                /\ PipelineEnds
                /\ AppData' = [n \in Nodes |-> EntryWithCounts(n)]
                /\ stage' = "done"

\* KEYS or the pipeline returns an error: it is logged, and what was read
\* before is saved as it is.
CallFails == /\ stage \notin {"done", "failed"}
             /\ stage' = "failed"
             /\ keys' = <<>>
             /\ results' = Nothing
             /\ errors' = {}
             /\ UNCHANGED <<cacheVars, AppData, asked, dropped>>

Terminated == stage \in {"done", "failed"} /\ UNCHANGED vars

Next == \/ \E k \in Key, v \in Value : Change(k, v)
        \/ ListServiceLogs
        \/ ListCounters
        \/ \E i \in DOMAIN keys : Get(i) \/ GetFails(i)
        \/ ServiceLogsRead
        \/ CountersRead
        \/ CallFails
        \/ Terminated

Spec == Init /\ [][Next]_vars

--------------------------------------------------------------------------------

\* validateAppData
Valid == {n \in Nodes : AppData[n].session \in Sessions}

CountOf(kind, n) == IF kind = "success" THEN AppData[n].successes ELSE AppData[n].failures

\* What was said of the key counts for nothing: the reading did not come to
\* it, KEYS asked another shard, or the error of its GET was dropped.
Unread(k) == stage # "done" \/ asked[k.kind] # ShardOf[k.node] \/ k \in dropped

\* Whatever changes under the reading, an entry that is saved says nothing
\* that was not so while it was read: its session is one its own node's log
\* named, each of its counts is one that session's counter of that node held,
\* or zero when the counter was missing at some moment, and its mark is one
\* the node had. Only of a key that was not read, a count of zero and a mark
\* of false say nothing. The counts of one session are never saved with
\* another, also when the session changed between the log and the counters,
\* and no value is taken for that of the next key.
EntriesWereSo ==
    \A n \in Valid :
        LET s == AppData[n].session
            mark == KeyOf("failure", n, NoSession)
        IN  /\ s \in held[KeyOf("service", n, NoSession)]
            /\ \A kind \in Counters :
                  LET k == KeyOf(kind, n, s)
                  IN  \/ CountOf(kind, n) \in held[k]
                      \/ CountOf(kind, n) = 0 /\ (NoValue \in held[k] \/ Unread(k))
            /\ IF AppData[n].failure THEN Yes \in held[mark]
               ELSE held[mark] # {Yes} \/ Unread(mark)

\* A reading that ends without an error misses no node whose log stood still:
\* there is a valid entry for it, whatever other keys vanish meanwhile,
\* unless KEYS asked another shard or the error of its GET was dropped.
SteadyIsRead ==
    stage = "done" =>
        \A n \in Nodes :
            LET log == KeyOf("service", n, NoSession)
            IN  NoValue \in held[log] \/ Unread(log) \/ n \in Valid
================================================================================
