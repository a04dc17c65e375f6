# Global services: models, model checking and proofs

TLA+ models of the services in this repository: the *global dispatcher*, the
*fishermen* (QoS checks), the *cherry picker* snapshot and the *cache flush*,
with the code they share under `src/shared`. TLC checks small instances, and
TLAPS proves the safety properties of every component for every value of the
constants (section 5 says under which assumptions). Every definition was written
from the Go source; `PROJECT.json` ("map") says from which lines.

    tlc -workers 2 -config MCBatchWriter.cfg MCBatchWriter.tla
    tlapm BatchWriterProofs.tla

## 1. Inventory

The services are Go programs that run as AWS lambdas on a schedule
(`src/serverless.yml`), some also as command line tools. They keep no state
between runs except in redis, in Postgres, and, in a warm lambda process, in Go
globals.

| Component | Code | State | Operations | Talks to |
|---|---|---|---|---|
| Batch writer | `shared/cache/batch.go`, `shared/utils/run-fn-on-slice.go` | a channel, the current batch, one goroutine per cache while a batch is written | `BatchWriter`, `monitorBatch`, `writeBatch` | fed by the dispatcher and the fishermen; writes every redis |
| Global dispatcher | `global-dispatcher/cmd/dispatch`, `shared/gateway/gateway.go` | semaphore, wait groups, count of failed calls, connections | `DispatchSessions`, `ShouldDispatch` | redis, pocket nodes, portal database, batch writer |
| Application checks (lambda) | `fishermen/cmd/run-application-checks`, `.../lambda` | as above, and the global channel `application`, one monitor goroutine per invocation with a map of sessions | `lambdaHandler`, `RunApplicationChecks`, `monitorAppBatch`, `performChecks`, `getAppToCheck` | dispatcher's cached sessions, the function that performs checks, batch writer |
| Application checks (cli) | `fishermen/cmd/run-application-checks`, `.../cli` | semaphore, wait groups, the two lists of applications | `RunApplicationChecks`, the tool's `performChecks`, `EraseNodesFailureMark` | both checks, batch writer |
| Perform application check | `fishermen/cmd/perform-application-check` | the two maps of the response | `performApplicationChecks`, `doPerformApplicationChecks` | sync check, chain check |
| Sync check | `shared/pocket/sync-check.go` | the nodes' answers, the altruist's answer | `Check` | relays to nodes, an HTTP call to the altruist |
| Chain check | `shared/pocket/chain-check.go` | the nodes' answers | `Check` | relays to nodes |
| Cherry picker snapshot | `cherry-picker/cmd/snap-data`, `cherry-picker/database` | `regionsData` and `sessionsInStore` during a run; rows per session and per session and region, in every store | reading a region, `saveToStore`, `aggregateRegionData`, the store's calls | redis of each region, several Postgres |
| Redis client | `shared/cache/cache.go`, `connections.go` | connections | connect, close, get, set, pipelines | redis |
| Cache flush | `cache/cmd/flush` | none | flush every redis | redis |
| Portal database client | `shared/database` | none | staked applications, their match with the portal's, gigastake filter | HTTP, pocket |
| Session types | `shared/pocket/session.go` | none | conversions of a session | |
| Metrics, HTTP, environment, logging, small helpers | `shared/...` | none that outlives a call | | |

### What is hard in each, and what makes it correct

* **Batch writer.** Senders, monitor, one goroutine per redis and batch, and the
  closing of the channel interleave freely; pipelines fail in part. Correct
  when no item is lost, repeated or overtaken on its way to a connected cache,
  the partial last batch is written, a failing cache costs the others nothing,
  and senders and the closing service are never left waiting.
* **Global dispatcher.** Goroutines behind a semaphore, two wait groups, early
  returns, a context with a deadline. Correct when nobody sends on the closed
  channel, the connections are closed last, the concurrency is bounded, every
  session ends up current in the caches or is known not to be, and the run
  reports. Runs overlap, are retried and die; each looks only at some of the
  caches. Correct when the caches nevertheless come to hold the current session,
  and an older one is put over a newer one only for a reason.
* **Application checks, lambda.** Each session's goroutine blocks until a monitor,
  or checks another goroutine started, release it; the batch channel may only be
  closed after the last result; globals survive the invocation. Correct when
  every obtained session is checked once, groups respect their size, results
  never go to a closed channel and the handler returns.
* **Application checks, command line.** Two lists built side by side are indexed by
  goroutines; each runs two more, which send results and then the items that
  erase failure marks. Correct when each signs for its own application, no mark
  is erased of a node without a result, everything checked is offered to the
  caches before the connections are closed, and the run returns.
* **Performing the checks of a group.** Goroutines write two maps without a lock:
  Go may lose an entry or end the process. Correct when the caller survives that
  and what is returned for one application is the final result of both checks.
* **Sync check.** Answers in any order, ties in the sort, an altruist that may be
  down or behind, nodes of another chain. Correct when the nodes returned agree
  with each other, a few nodes far ahead put out none of those near the altruist,
  and a majority beats a stale altruist, which the code does not let it
  (section 4).
* **Chain check.** A failed relay is recorded as chain 0. Correct when exactly the
  nodes that answered with the blockchain's ID are returned.
* **Snapshot, reading.** Keys are listed and then got one by one from a cache that
  changes all the while, in a cluster from one shard only, and results are matched
  to keys by position; errors of single GETs may be dropped. Correct when what is
  kept of a node was so, and what stood still is not missed.
* **Snapshot, saving.** Goroutines for two regions of one session race to create
  its row, in several databases, with partial failures; runs overlap whenever one
  takes longer than the five minutes to the next. Correct when a region row never
  comes before its session's, averages and the failure flag cover what was saved,
  the aggregate is that of the final rows, and nothing is lost of a session the
  stores know. Overlapping runs break part of this (section 4); the properties
  say exactly which steps can.

`PROJECT.json` ("hazards") lists each hazard at its line, with the properties
that watch it.

## 2. Modules

| Module | Models | Composes / is composed by |
|---|---|---|
| `OrderedDelivery` | what a batch writer promises: each target is offered, in order, what was accepted, at most one window behind | abstract specification of `BatchWriter` |
| `BatchWriter` | `batch.go` with an arbitrary service around it | refines `OrderedDelivery` |
| `BatchWriterProofs` | theorems of `BatchWriter` | |
| `DispatchSessions` | one run of the dispatcher | takes the actions of `BatchWriter` by INSTANCE |
| `DispatchSessionsProofs` | theorems of `DispatchSessions` | instantiates `BatchWriterProofs` |
| `SessionCaches` | one session in all caches, over many overlapping runs, with blocks, faults and flushes | stands on what `DispatchSessions` shows of one run |
| `ApplicationChecks` | the fishermen's lambda, several invocations in a process, and the function it invokes | uses the batch writer's promise only: a channel that accepts until closed |
| `CliChecks` | the fishermen's command line tool | takes the actions of `OrderedDelivery` by INSTANCE |
| `SyncCheck` | one call of `SyncChecker.Check` | extended by `AppChecks` |
| `ChainCheck` | one call of `ChainChecker.Check` | instantiated by `AppChecks` |
| `AppChecks` | both checks of one application at once | `SyncCheck` and `ChainCheck` |
| `RegionData` | reading one region | its result is what `StartRun` of `SnapData` starts from |
| `SnapData` | saving: runs, goroutines per region and session, per store | |
| `SessionCachesProofs`, `ApplicationChecksProofs`, `CliChecksProofs`, `AppChecksProofs`, `RegionDataProofs`, `SnapDataProofs` | theorems of these modules; `AppChecksProofs` has those of `SyncCheck` too | |
| `MC...` | each of these for TLC: symmetry and defined constants | |

Definitions preceded by "A bug to look for" are not part of a specification:
each is a plausible wrong version of the definition after it, which the
properties are shown to reject ("mutants" in `PROJECT.json`).

### Correspondence with the code

**BatchWriter.** `batch` is the Go channel's buffer, whose capacity is the batch
size; `pc` is where the monitor is, `items` its batch, `writing` the goroutines
of `writeBatch` that `RunFnOnSliceSingleFailure` waits for. `ReceiveItem` and
`ReceiveClosed` are the two outcomes of `item, ok := <-batch`; a closed channel
first yields what is buffered. With batch size 0 the channel is unbuffered: a
send then needs a monitor that is receiving, and the item is in `batch` for the
moment between the send and the receive. `PipelineSucceeds` applies
the SETs in order; `PipelineFails` leaves any part of them applied, since
redis pipelines are not transactions and a lost answer says nothing about what
was executed. Errors of `writeBatch` are logged and forgotten. `sent`,
`attempted` and `failed` are history.

**DispatchSessions.** `main` follows `DispatchSessions` from `connect` to
`returned`; each early return is an action (`ConnectFails`, ...). A goroutine
(`worker[s]`) goes through `Check`, `Dispatch`, `SendSession`, and the two
deferred calls in the order Go runs them: `wg.Done` (`WgDone`), then
`sem.Release` (`Release`). `Check` models `ShouldDispatch`: as many caches as
`ClientsToCheck`, any of them, each of which may fail to answer; the session is
dispatched unless all of them have it at the run's height or a later one.
`Expire` is the context's deadline: after it no redis call succeeds, and
`sem.Acquire` fails, which the code ignores. `Release` with nothing held panics
(`semaphore: released more than held`).

**SessionCaches.** A run is shortened to what other runs and the caches can see
of it: the height it starts with, the caches it could connect to, the answers
of those it asks one at a time (`Ask`), the decision, the dispatch, and a write
to each cache. Everything else of a run is in `DispatchSessions`. The session
carries the height of the node that dispatched it, not that of the run
(base.go:119), so a lagging node yields an older session. A fault is an instance
that cannot be connected to, asked or written, a node that lags, an entry that
outlives its TTL, a run that dies (`Abort`), or a flush; all of them together
are bounded by `MaxFaults`. `lagged` and `overtaken` are history.

**ApplicationChecks.** `chan[k]` is the channel invocation `k` made, `monitor[k]`
the channel its monitor is blocked on. `AwaitApp` is a step of its own because
the loop evaluates the *global* `application` anew at each receive and then
blocks. `Collect` and `StartChecks` are the two outcomes of the `if` at line 80.
`checks` are the running `performChecks` with the messages whose results are
still to be cached and the one goroutine to release. A message carries the
batch channel of the invocation it came from (`inv`). In stage "perform" the
invoked function is at work: a write to its two maps takes from `BeginWrite` to
`EndWrite`, and of writes at the same time one entry may get lost, or the Go
runtime ends the function (`WritesCollide`), which the caller sees as a response
it cannot parse. `replaced`, history, are the messages whose place in a
monitor's map another session of the same application took.

**CliChecks.** `ntApps` and `dbApps` are the two lists `FilterStakedAppsNotOnDB`
returns, made by `KnownApps` and `RowsOfKnown` and not written again, and `jobs`
the rounds of the two nested loops; a goroutine's `aat` is what it reads from the
second list. `GetSession` and `GetSessionFails` are the
outcomes up to `performChecks`, whose two goroutines are `chainTask` and
`syncTask`. Of the sync check's result the model chooses any set of nodes:
what `SyncCheck` says of it is not needed here. `SendSync` (`CacheNodes`) comes
before the `EraseMark`s. The batch writer is its abstract specification, of which
`BatchWriter` is shown to be an implementation; `Offer` and `Finish` are its
steps. A send on a closed channel, and a release of nothing, panic.

**SyncCheck, ChainCheck, AppChecks.** `NodeAnswers` is one goroutine's answer (0
for a failed relay); `Collected` is `wg.Wait`, the collection and the sort, with
ties in any order. The float comparison is kept in integers: the code divides
two ints first, so the model does too. Operators have the names of the Go
variables. In `AppChecks` the variables of the sync check are those of
`SyncCheck` itself, the chain check has its own, and `running` is the wait group
of `doPerformApplicationChecks`. `ChainIDAssumption`: no blockchain is checked
for the ID 0, which a failed relay would pass for.

**RegionData.** Three rounds of KEYS and pipelines of GETs; each KEYS and each GET
is a step, between which the portal, known here only by the keys and values the
cherry picker expects of it, may change any key. With `IS_REDIS_CLUSTER` the
region is a cluster: `ShardOf` says on which master a node's keys are (the chain
in braces is their hash tag), and `Keys` lists those of one master, any, since
go-redis sends KEYS to a random node. `keys` is the sequence that was listed and
`results` what the GETs gave, by place; `Result(i)` joins them by index. A GET
may fail by itself (`GetFails`). `PipelineSucceeds` is the condition at
cache.go:143: the pipeline returns the first of its GETs' errors, and since
redis.Nil is none, a key that is gone hides the errors of those after it, whose
values are then "". `held`, `asked` and `dropped` are history: what each key held
since the reading began, which shard each KEYS asked, and the keys whose error was
dropped. The texts true and false of a mark appear as 1 and 0. An error of any
call ends the reading and what was read so far stays (`CallFails`).

**SnapData.** A task is one iteration of `saveToStore`'s loop; `step[t][d]` is its
goroutine for store `d`. Each database call is an action that reads or writes
one table, with three outcomes where the code could see them: done, not done
with an error, done with the answer lost. `region[t]` is the variable shared by
the goroutines of all stores (`region, err = st.UpdateRegion(...)`, store.go:193).
Of the row's columns the model keeps one total, one list with its average, and
the flag: the others are written in the same statements in the same way.
Snapshot values are the number of the run, so a list tells which runs it holds.
The stores start empty or with rows of a run before (`EarlierRow`, whose sample
is 0). `StartRun` waits for no other run, as the schedule does not; `MaxTasks`,
`MaxFailures` and `MaxFailing` only bound the instances.
`GetSessionRegions` returns any part of the rows without an error
(`RowsThatCame`), because `rows.Err()` is not asked; that counts as a failure of
the run, although the code does not notice it.
`running`, `overtaken` and `outdated` are history. `overtaken` has the goroutines
whose region row another run wrote, and at which of their steps that was: between
GetRegion and CreateRegion, or between GetRegion and UpdateRegion, or before
either (`Overtake`). `outdated` has the aggregations whose rows were not those
of the store, or ceased to be before they were written.

## 3. Runs

| Run | Question | Bounds |
|---|---|---|
| `batch_writer` | Is everything delivered, in order, to every connected cache, whatever pipeline fails; do senders and the closing service go on? | 2 producers, 1 key, 2 values, 2 caches, batches of 2, 4 items |
| `dispatch` | Are closing, concurrency and the final contents of the caches right, with failures and the deadline at any moment? | 2 sessions, heights 1..2, 2 caches, unbuffered, concurrency 1 |
| `dispatch_live` | Does the run report when the deadline does not pass? | 3 sessions, concurrency 2, batches of 2 |
| `dispatch_panic` | The same with a deadline: violated | 2 sessions, concurrency 1 |
| `session_caches` | Do the caches catch up, and what can put an older session back? | 2 caches of which a run asks 1, 2 runs at a time, 2 blocks, 2 faults |
| `checks` | Groups, batch channel and return of two invocations of one process | 3 sessions of 2 applications, groups of 2, concurrency 2 |
| `checks_leftover` | Is every obtained session checked? Violated | 3 sessions, groups of 2, one invocation |
| `cli_checks` | AAT, marks, completeness and return of the command line tool, with a deadline | 3 applications, 2 chains, up to 3 goroutines, concurrency 2, 1 cache |
| `app_check` | What both checks of an application return, for all answers | 3 nodes, heights -1..5, allowance 1, threshold 50 %, IDs 0..2 |
| `sync_majority` | Does a majority overrule a stale altruist? Violated | 3 nodes |
| `region_data` | What is kept of a region that changes while it is read | a cluster of 2 shards, with 2 nodes and 1; 2 sessions, 3 keys, 1 change |
| `snap` | Order of rows, averages, flag, aggregate and completeness when runs overlap and calls fail | 2 runs, 2 regions, 1 session, 2 stores with or without rows of an earlier run, concurrency 2, 2 goroutines in all, 1 failed call |

Why these bounds are enough to meet the interesting cases:

* `batch_writer`: four items and batches of two give a full batch, a batch that
  follows it, a partial and an empty last batch, and a full channel. One key
  with two values is the hardest case for overwriting: all items compete.
  Two caches suffice to have one succeed, fail or lag while the other does not.
* `dispatch`: batch size 0 and concurrency 1 are the tightest: senders wait for
  the monitor, which waits for redis. Two heights tell stale from current. With
  two caches the checked ones may disagree. `dispatch_live` has batches of two
  with three sessions, so that the last batch is a partial one.
* `session_caches`: with two caches of which one is asked, a run can find the
  current one and leave the stale one as it is. Two runs at a time are the
  smallest overlap; the bound is on runs at once, and each starts again for
  ever. Two faults allow a flush and a failure at the worst moment after it.
* `checks`: two sessions of the same application and one of another, with groups
  of two, meet the replacing of an entry, a full group, a last group and its
  absence, and two writes to the response at once. Every goroutine may end
  early. With two invocations the monitor of the first is there when the second
  hands over its sessions.
* `cli_checks`: of three staked applications one is not in the database, or is
  there twice, and one is beyond the page; one has two chains; one chain lacks
  the sync check, or its blockchain is missing. With two slots and three rounds
  of the loop one goroutine waits for another. One node gives a result with a
  mark and one without. One cache is enough: caches only meet in the batch
  writer, where they are modelled.
* `app_check`: three nodes can split two to one or be on three heights; heights up
  to 5 with an allowance of 1 put nodes behind, within and beyond it on both
  sides of the altruist. -1 stands for the negative heights a broken node may
  answer. The blockchain's ID is a number or is not.
* `region_data`: three of the 21 keys are there at the start, any three: two
  logs and a counter, or a log with both of its counters. One change expires one
  of them, begins another session or counts, between any two calls. In a
  pipeline of the two GETs of one shard the first can find its key gone and hide
  the error of the second, and each KEYS misses the keys of a shard.
* `snap`: the two goroutines may be of one run, and race for the session's row,
  or of one run each, and race for a region's. The stores start empty or with
  any of the region rows, so that two runs can create a row, or update one
  that is there. The two stores come to disagree by a failed call or a lost
  answer, and the row of one is copied to the other. More overlapping goroutines
  or failures TLC does not finish with; the theorems of section 5 hold for any
  number. A second session shares nothing with the first but the semaphore.

Symmetry is used only where no liveness property is checked. Deadlock is checked
in every run: the specifications have an explicit `Terminated` step, enabled
only where the program has come to its end, so a goroutine left waiting is a
deadlock TLC reports. For `SnapData`, `AppChecks` and `RegionData`, which have no
loops of control, that is also why they need no fairness to be known to end.

### Fairness

Weak fairness for every goroutine. The Go scheduler runs every runnable
goroutine, and every redis, HTTP, lambda and database call the goroutines make
has a timeout, so a call always comes to one of its outcomes. No fairness is
assumed for the passing of a deadline or for another invocation, and none for a
choice between outcomes: a call may fail every time. A send on a full channel
stays enabled once there is room and the sender is only one of several; the
properties ask that room appears (`BlockedSenderResumes`) and that the run ends
(`AlwaysReports`), for which weak fairness suffices, because the number of sends
of a run is finite.

`SessionCaches` is about many runs and assumes more. The schedule starts runs
for ever, and each asks caches that a `rand.Shuffle` picks; that no choice is
left out for ever is strong fairness of `Start` for each. Its steps of a run in
which nothing goes wrong are weakly fair, the faults are not: they are bounded,
as is the number of blocks, so that `CachesCatchUp` says what the caches come to
once both cease. Without a choice that asks a stale cache, it would stay stale.

`Returns` of `CliChecks` is claimed unless the deadline passes, after which the tool
may panic as the dispatcher does (`dispatch_panic`): the loop is the same.
`HandlerReturns` of `ApplicationChecks` allows the process to panic from the
second invocation on, for the reason `ChecksKeepBatchOpen` states.

## 4. What the runs found

The code and its own documents disagree in eight places. Each of the first three
has a run that ends with a counterexample, and its quotation in `PROJECT.json`
("findings").

1. **The dispatcher can panic past its deadline** (base.go:93). The error of
   `sem.Acquire` is ignored, the goroutine runs without a slot, and its release
   finds nothing held. (`dispatch_panic`)
2. **The last group may never be checked** (lambda/main.go:80). `TotalApps`
   counts sessions that end without the monitor hearing of them, and the group
   then stays smaller than a full one. (`checks_leftover`) A session is also lost,
   without any drop, when another of its application joins the same group,
   because the monitor's map is keyed by the application alone
   (lambda/main.go:75): the first disjunct in `LossIsBounded`.
3. **A stale altruist is trusted against a majority** (sync-check.go:206): an
   integer division makes the share 0 unless all valid nodes are ahead.
   (`sync_majority`)

The others have no run of their own: the properties say exactly where they end,
and the stronger formula given with each fails in the instance named. In 4 to 8
it is what the document quoted says; of 9 and 10 no document speaks. Runs of the
snapshot overlap because `serverless.yml:90-99` starts one every 5 minutes, gives
it 600 seconds and retries it twice.

4. **Overlapping snapshots save a wrong average** (store.go:183). It is computed
   from the row that was read, while the sample is appended to the row that is
   there. `cherry-picker/README.md:41`: "Average of all the median success latency
   saved so far". The next sample mends it, unless that is overtaken too. In
   `snap`, `AverageOfSaved` without its second disjunct fails.
5. **Overlapping snapshots can clear the failure flag** (store.go:190), which is
   computed from a row read earlier. `cherry-picker/README.md:46`: "Whether the
   node got into failure (more than 5 failures in a row) at any point in the
   region". In `snap`, `FailureSticks` without its second disjunct fails.
6. **Region rows that come only in part are aggregated as if they were all**
   (postgres.go:169): nothing asks `rows.Err()`, and no error is counted.
   `cherry-picker/README.md:11`: "Is the aggregate data of all the regions of a
   session." In `snap`, that this holds of a row which the latest run (`Latest`)
   aggregated without an error, when no other was at work (`running[r] = {}`), fails.
7. **Counts of zero that never were are saved** (get-cache.go:132, cache.go:143)
   when the second reading fails or a GET's error is dropped, over what an
   earlier run had saved (store.go:178-179). `cherry-picker/README.md:37-38`: "Sum
   of all the relay successes for the region" and the same of the failures. In
   `region_data`, the invariant that at stage "done" or "failed" a count is not 0
   when `held` of its counter has neither 0 nor `NoValue` fails.
8. **Of a redis cluster one shard is read** (get-cache.go:35).
   `snap-data.go:132-133`: SnapCherryPickerData "obtains service node data from
   all cache instances". In `region_data`, `SteadyIsRead` without `asked` in
   `Unread` fails.
9. **An old monitor may take a session of a new invocation** (lambda/main.go:72),
   and its group then sends results to a channel the first invocation closed.
   `ChecksKeepBatchOpen` says that nothing else can.
   In `checks`, `\A c \in checks : \A m \in c.left : m.inv \notin closed` fails.
10. **The first snapshot of a session can lose regions** (store.go:37). Two
   goroutines create its row; the one that meets `ErrDuplicate` gives up, and
   with two stores both may. In `snap`,
   `KnownSessionsSaved` without its condition on `known` fails.

Seen while reading, and not checked by a run: the early returns of
`DispatchSessions` and `RunApplicationChecks` leave connections open; the
comment of `BatchWriterOptions` promises a single redis SET per batch where the
code sends a pipeline; `ConnectToCacheClients` is documented to fail if any
connection does, and fails only if all do; the first page of applications, of
at most 3000, is the only one asked for (`AllOffered` is about that page).

## 5. What is proved

TLAPS checks every leaf of the eight proof modules. The theorems hold for every
value of the constants that satisfies the named assumptions. Each is reached in
the same way: an inductive invariant, that it holds in `Init`, one lemma or step
per action that keeps it, and that it implies the property. TLC has checked each
inductive invariant on the instances of section 3 as well.

**BatchWriterProofs** assumes `BatchWriterAssumption` only: the batch size and
the bound `MaxSent` are natural numbers, and `NoValue` is not a value. Caches,
producers and keys may be infinite. `Conservation` is not inductive: that an
item cannot be overtaken depends on where the monitor is, and that no cache is
offered an item before the monitor starts. The invariant `IInv` adds to it:

* `TypeOK`;
* `Untouched`: before the monitor starts nothing was sent or offered;
* `Control`: which goroutines run in which state of the monitor, and that it
  exits only with an empty, closed channel;
* `BatchBound`: a batch never exceeds the window, on which the window of
  `OrderedDelivery` rests.

`IInvInit` and `IInvStep` show it inductive, one step per action. From it follow
`TypeCorrect`, `ConservationHolds`, `NothingLeftBehindHolds`, and
`WriterRefinesDelivery`: every step maps to a step of `OrderedDelivery` or to a
stutter. The sequence algebra is in lemmas (`ConcatShift`, `ConcatAppend`,
`PrefixOfConcat`). `CleanCachesCurrentHolds` needs another argument, that of
`LatestOfConcat`: the last value of a key in `s \o t` is the one in `t` if there
is any, and otherwise what `s` left.

**DispatchSessionsProofs** assumes `DispatchAssumption`: finitely many sessions
and caches, heights and concurrency at least 1. `WriterStep` shows that every
step of the dispatcher is a step or a stutter of its batch writer, so that
`DrivesWriterHolds` (which needs no run of TLC: the theorem says it of every
instance), and all that was proved of the writer carries over
(`SameSteps`, `SamePipelines` join the two instances). `DInv` adds to the
writer's `IInv`:

* `ServiceTypes`: types, and that no more slots are held than there are;
* `Bookkeeping`: failures are counted at most once per session, and a goroutine
  about to send holds a session that `Dispatch` returned;
* `Shutdown`: the writer's senders are exactly the goroutines `wg` still counts,
  and the connections are closed after the monitor's exit.

`ClosedAfterLastSendHolds` follows from `Shutdown` and the writer's `Control`: a
closed channel has no senders. So does `NoUseAfterCloseHolds`.

`ConcurrencyBoundedHolds` needs one more fact, `Accounted`: until the deadline
passes, `slots` is the number of goroutines between Acquire and Release. Each
step of `Spawn` and `Release` moves both by one. After the deadline it is false,
which is what `dispatch_panic` shows.

`SettledOnReturnHolds` follows a session's value through the run: a session is
sent only if `Dispatch` returned it, at the run's height (`SentIsDispatched`);
once returned it is sent unless the goroutine is still to do so
(`DispatchedIsSent`); and a cache found to hold the current session still holds
it (`FoundStays`), because only items of that height are written. At the end
`NothingLeftBehind` and `CleanCachesCurrent` of the writer say the rest.

**SessionCachesProofs** assumes `SessionCachesAssumption`. `RollbackExplainedHolds`
rests on `RunSound`, a statement about each run alone: the session it carries is
of no block still to come; unless its node lagged, it is as new as what every cache
holds but those another run has written since (`NewestUnlessOvertaken`); and the
run has counted no more hits than caches it asked. That no cache is ahead of the
chain (`NoneAhead`) makes this inductive: a session just dispatched by a node at
the newest block is then as new as any.

**ApplicationChecksProofs** assumes `ChecksAssumption`; the number of invocations
and of sessions is arbitrary. The heart of the invariant is where a message is:
in the hands of its goroutine, in a channel, in a monitor's map, in checks, or
handed over (`Accounted`, `BatchesDisjoint`). `SlotsHeld` and `ChanBounded` bound
the semaphore and the channel; `WgState` ties the wait group to the goroutines
it counts; and `FirstCountsAll` says of the first invocation, when no other
monitor can take a message, that its monitor's count and what is still in the
channel make up all that was sent. A message that was in a monitor's map and is neither
there nor in checks is in `replaced`. `ChecksKeepBatchOpenHolds`,
`GroupsAreSoundHolds` and `LossIsBoundedHolds` are read off it.

**CliChecksProofs** assumes `CliAssumption`. `MarkAfterResultHolds` needs that alone:
`AcceptedInOrder` and `ResultWasSent` relate the order of sending to the state of
the goroutine that erases, and `OfferedIsPrefix` carries it to the caches. The
other theorems are about runs for which `JobsFit` holds always: the loop has at
most `MaxJobs` rounds. It bounds the model's arrays and nothing in the code; it
is a statement about the constants and `Init`, true in `MCCliChecks`, and with
`MaxJobs` large enough of any answers. `NoPanicBeforeDeadline` says where a panic
can come from: `SlotsHeld` counts the semaphore until the deadline, `ChecksAwaited`
and `ClosedAtTheEnd` close the batch channel after every sender.

`OwnAATHolds` and `AllOfferedHolds` are about lists built by flattening sequences.
`FlattenSeqHas` says what a flattened sequence contains, by taking the first of
the sequences at which it is not as stated (`LeastNumber`, from the
well-foundedness of the naturals): induction without an induction theorem.
`KnownAppsFacts`, `AppWithKeyFacts` and `JobsFacts` follow. `AATIInv` keeps the
answers and that a goroutine signs as `AATOf` says. `OfferedIInv` relates the
state of each goroutine to the results it has sent (`TasksTell`,
`WorkersTell`), and a completed run to all goroutines being gone.

**AppChecksProofs** assumes `SyncAssumption`, `ChainIDAssumption` and
`AppChainAssumption`. `SyncIInv` says that the collected logs are those of the
nodes that answered (`AnsweredAreLogged`), that they are `Sorted`, and that the
result is the one `Check` computes from them. `AcceptedAgreeHolds`,
`MinorityPutsNoneOutHolds` and `WorksWithoutAltruistHolds` are then arithmetic on
a sorted sequence. `ReturnedExactHolds` adds the chain check's result and that
what was put into the response is final (`HandedOver`).

**RegionDataProofs** assumes `RegionDataAssumption`, for any nodes, sessions and
shards. `EntriesWereSoHolds` rests on what each result is: one its key held, or
nothing, and the latter only if the key was missing at some moment or its GET
failed; the counts and the mark of an entry follow from the results of that
entry's own keys. `SteadyIsReadHolds` rests on the converse for what did not
change: a log that was there throughout is listed if its shard was asked, and got
unless its GET failed.

**SnapDataProofs** has six theorems, for any finite sets of regions and sessions
and any stores, runs and failed calls, with invariants that build on each other.
`TypeCorrect` and `SessionFirstHolds` allow runs to overlap. The first needs
that a goroutine which updates found a row (`UpdatesHaveRows`), that `Spawn`
waits for room (`BusyBounded`), and that sums of natural numbers are natural
numbers: a session's row is a sum over its regions. `SumOfNaturals` says of the
fold behind it that it exists and what it yields, by a smallest set of indices
for which it would not. For the second, a goroutine told that the session's row
is there was told so by the store (`ToldOfSession`). The others are about
overlapping runs as well, and name the steps that break what one would like to
say. Their invariant says of each goroutine between GetRegion and its write that
what it read is still the row, or that it is in `overtaken` at that step
(`ReadIsCurrent`). With `RegionIInv`, that every row is sound but for those of
overtaken goroutines, this gives `AverageOfSavedHolds` and `FailureSticksHolds`.
`AggregateIInv` gives `SessionIsAggregateHolds`: the row of a session that was
aggregated is the aggregate of the region rows, or a run beside this one still
owes it, or failed or was overtaken (`AggregateOrOwed`). `KnownIInv` gives
`KnownSessionsSavedHolds`. All but `TypeCorrect` also suppose `NoRowHasNoTotal`.
`NoRow` stands for the absence of a row and is compared with rows; the
hypothesis says that it is not itself a record with a `total`. TLC takes it to
be a model value, which differs from every record.

**Only model-checked**: `SampledOnce`; liveness (`CachesCatchUp`,
`AlwaysReports`, `MonitorExits`, `BlockedSenderResumes`, `HandlerReturns`,
`Returns`), which is out of this prover's reach, and the properties of the runs
that expect a violation.

## 6. What is not modelled, and why

* *The deadline in the fishermen's lambda*: `Spawn` of `ApplicationChecks` waits for
  a slot, where the code ignores the error `sem.Acquire` returns past the deadline
  (base.go:197). The deadline is the lambda's own, at which the process is stopped.
  `CliChecks` and `DispatchSessions` have it.
* *The end of the metrics recorder*: `CliChecks` closes it with the connections,
  and no property asks what is recorded afterwards.
* *The snapshot's deadline*: its `sem.Acquire` ignores errors as the
  dispatcher's does, and with the same effect; it is modelled there.
* *The latencies of a service log* and *the rest of its texts* (get-cache.go,
  cherry-picker.go): conversions of one value, which decide no control.
* *`SnapCherryPicker.Init`*: connects to the caches and the databases, before
  anything is concurrent.
* *Averages of empty lists*: `Average` with count 0 stands for Go's NaN, which
  the session row gets when none of its regions could be saved. No document says
  what the column should hold.
* *The failure mark of a node* has no session in its key, so that the mark of the
  session before may be read for the next: `EntriesWereSo` only says that the
  mark was there while the region was read.
* *`globalCachedSession`* of `ShouldDispatch` is written by several goroutines:
  the dispatcher ignores the value, and the fishermen take whichever they get.
* *`GetAppsFromList`, `SetJSON`, `WriteJSONToCaches`*: nothing in the repository
  calls them.
* *Session types*: two records of the same fields and the copying between them;
  a session is a model value, or the height it is marked with.
* *Metrics, logging, HTTP, configuration, helpers*: input and output without
  state of their own. The recorder appears as a connection that `CliChecks`
  opens and closes.

## 7. Plan

Done, in this order, because the later ones rest on the earlier or repeat their
patterns: `OrderedDelivery`, `BatchWriter` and its proofs; `DispatchSessions` and
its proofs; `ApplicationChecks`; `SnapData`; `SyncCheck`; then `ChainCheck` and
`AppChecks`, the invoked function in `ApplicationChecks`, `CliChecks`,
`SessionCaches` with the cache flush, and `RegionData`.

Left to model: the snapshot's deadline in `SnapData`.

Left to prove: that a run of `DispatchSessions` makes the steps `SessionCaches`
gives it, as a refinement; today their connection is described in section 2.
