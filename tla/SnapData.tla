------------------------------- MODULE SnapData --------------------------------
(***************************************************************************)
(* The cherry picker's snapshot (cherry-picker/cmd/snap-data): every few   *)
(* minutes a run reads from the cache of every region how each session's   *)
(* nodes did and copies it to every store, a goroutine per region and      *)
(* session, at most Concurrency at a time: first the session's row, then   *)
(* the region's. When all have ended, the run aggregates the region rows   *)
(* of each session it saved into the session's row. A run may take longer  *)
(* than the time to the next (serverless.yml), and the primary keys of the *)
(* stores are the only thing that keeps concurrent goroutines apart.       *)
(*                                                                         *)
(* Of a row the model keeps one total, one list of samples with its        *)
(* average, and the failure flag; the other columns are written like these.*)
(* What a snapshot counted, and the sample it adds, are known by the       *)
(* number of its run.                                                      *)
(***************************************************************************)
EXTENDS Naturals, Sequences, FiniteSets, Functions

CONSTANTS Regions,      \* the regions, each with a cache of its own
          Sessions,     \* the (public key, chain, session key) triples
          Stores,       \* CHERRY_PICKER_CONNECTIONS
          Runs,         \* bound: the runs of the schedule, 1..n
          Concurrency,  \* CONCURRENCY
          MaxTasks,     \* bound: how many regions' data the runs save together
          MaxFailures,  \* bound: how many store calls of a run fail
          MaxFailing,   \* bound: in how many of the runs some fail
          NoRow         \* no row, no data, or a zeroed structure

ASSUME SnapAssumption == /\ IsFiniteSet(Regions)
                         /\ IsFiniteSet(Sessions)
                         /\ Runs \subseteq Nat \ {0}
                         /\ Concurrency \in Nat \ {0}
                         /\ MaxTasks \in Nat
                         /\ MaxFailures \in Nat
                         /\ MaxFailing \in Nat

\* A goroutine of saveToStore: one region's data of one session.
Task == [run : Runs, region : Regions, session : Sessions]
TasksOf(r) == {t \in Task : t.run = r}

\* The samples of the runs, and 0, that of a run before them.
Samples == Runs \cup {0}

\* What validateAppData lets through; NoRow stands for what it does not, and
\* for a region whose cache has nothing on the session or could not be read.
AppData == [total : Runs, failure : BOOLEAN]

\* GetSliceAvg, kept as a fraction; a count of 0 is its NaN.
Average(list) == [sum |-> SumFunction(list), count |-> Len(list)]

VARIABLES phase,            \* of each run
          snapshot,         \* AppData of each task's region
          worker,           \* where the goroutine of each task is
          step,             \* where its goroutine for each store is
          storeRegion,      \* that goroutine's storeRegion
          region,           \* the variable region those goroutines share
          sessionsInStore,  \* of each run
          aggregation,      \* where each run's aggregation of a session in a store is
          rows,             \* the region rows it read
          sessionTable,     \* of each store
          regionTable,      \* of each store
          failures,         \* history: how many store calls of each run failed
          known,            \* history: the sessions every store held when the run began
          running,          \* history: the runs that were at work when the run began
          overtaken,        \* history: the goroutines whose row another run wrote, at which step
          outdated          \* history: the aggregations of rows that are not those of the store

saveVars == <<snapshot, worker, step, storeRegion, region, sessionsInStore>>
aggregateVars == <<aggregation, rows>>
begunVars == <<known, running>>
lateVars == <<overtaken, outdated>>
historyVars == <<begunVars, lateVars>>
vars == <<phase, saveVars, aggregateVars, sessionTable, regionTable, failures, historyVars>>

OnStores(x) == [d \in Stores |-> x]
NotAggregated == [s \in Sessions |-> OnStores("none")]

\* What createSessionIfDoesntExist inserts.
EmptySession == [total |-> 0, avg |-> [sum |-> 0, count |-> 1], failure |-> FALSE]

\* A region row that a run before has created.
EarlierRow == [total |-> 0, medians |-> <<0>>, avg |-> Average(<<0>>), failure |-> FALSE]

\* The stores are empty, or a run before has saved some regions' data in all of
\* them.
Init == /\ \E earlier \in SUBSET (Regions \X Sessions) :
              /\ sessionTable = OnStores([s \in Sessions |->
                     IF \E g \in Regions : <<g, s>> \in earlier THEN EmptySession ELSE NoRow])
              /\ regionTable = OnStores([j \in Regions \X Sessions |->
                     IF j \in earlier THEN EarlierRow ELSE NoRow])
        /\ phase = [r \in Runs |-> "waiting"]
        /\ snapshot = [t \in Task |-> NoRow]
        /\ worker = [t \in Task |-> "none"]
        /\ step = [t \in Task |-> OnStores("idle")]
        /\ storeRegion = [t \in Task |-> OnStores(NoRow)]
        /\ region = [t \in Task |-> NoRow]
        /\ sessionsInStore = [r \in Runs |-> {}]
        /\ aggregation = [r \in Runs |-> NotAggregated]
        /\ rows = [r \in Runs |-> [s \in Sessions |-> OnStores(NoRow)]]
        /\ failures = [r \in Runs |-> 0]
        /\ known = [r \in Runs |-> {}]
        /\ running = [r \in Runs |-> {}]
        /\ overtaken = {}
        /\ outdated = {}

Key(t) == <<t.region, t.session>>
HasRow(d, s) == sessionTable[d][s] # NoRow
RegionRows(d, s) == [g \in Regions |-> regionTable[d][<<g, s>>]]

--------------------------------------------------------------------------------
(* One store call *)

\* The goroutine for store d of task t goes on to the step to.
Goto(t, d, to) == step' = [step EXCEPT ![t][d] = to]

MayFail(r) == /\ failures[r] < MaxFailures
              /\ Cardinality({r} \cup {q \in Runs : failures[q] # 0}) <= MaxFailing
CountFailure(r) == MayFail(r) /\ failures' = [failures EXCEPT ![r] = @ + 1]

\* A bug to look for: a write whose answer was lost is made again.
WriteRetried(t, d) == \/ Goto(t, d, "ok") /\ UNCHANGED failures
                      \/ Goto(t, d, step[t][d]) /\ CountFailure(t.run)

\* A write that was made is answered, or the answer is lost.
WriteAnswered(t, d) == \/ Goto(t, d, "ok") /\ UNCHANGED failures
                       \/ Goto(t, d, "error") /\ CountFailure(t.run)

\* Goroutine t writes its row in store d: who of the other runs was at work on
\* the row, or holds what it was.
Overtake(t, d) ==
    /\ overtaken' = overtaken \cup
           {<<u, d, step[u][d]>> : u \in {v \in Task \ {t} : /\ Key(v) = Key(t)
                                                         /\ worker[v] = "region"
                                                         /\ step[v][d] \in {"get", "create", "update"}}}
    /\ outdated' = outdated \cup
           {<<r, t.session, d>> : r \in {q \in Runs \ {t.run} : aggregation[q][t.session][d] = "update"}}

AllAnswered(t) == \A d \in Stores : step[t][d] \in {"ok", "error"}
SomeError(t) == \E d \in Stores : step[t][d] = "error"

--------------------------------------------------------------------------------
(* getAppsRegionsData, and the loop of saveToStore *)

\* The bound MaxTasks.
FewTasks(failure) == Cardinality({t \in Task : snapshot[t] # NoRow})
                       + Cardinality({j \in DOMAIN failure : failure[j] # NoRow}) <= MaxTasks

\* The schedule starts a run whether or not the one before has ended.
StartRun(r, failure) ==
    /\ phase[r] = "waiting"
    /\ \A q \in Runs : q < r => phase[q] # "waiting"
    /\ FewTasks(failure)
    /\ phase' = [phase EXCEPT ![r] = "save"]
    /\ snapshot' = [t \in Task |-> IF t.run # r THEN snapshot[t]
                               ELSE IF failure[Key(t)] = NoRow THEN NoRow
                               ELSE [total |-> r, failure |-> failure[Key(t)]]]
    /\ known' = [known EXCEPT ![r] = {s \in Sessions : \A d \in Stores : HasRow(d, s)}]
    /\ running' = [running EXCEPT ![r] = {q \in Runs : phase[q] \in {"save", "aggregate"}}]
    /\ UNCHANGED <<worker, step, storeRegion, region, sessionsInStore, aggregateVars,
                   sessionTable, regionTable, failures, lateVars>>

Busy(r) == {t \in TasksOf(r) : worker[t] \notin {"none", "gone"}}

\* wg.Add(1) and sem.Acquire for the next entry that validateAppData accepts.
Spawn(t) == /\ phase[t.run] = "save"
            /\ worker[t] = "none"
            /\ snapshot[t] # NoRow
            /\ Cardinality(Busy(t.run)) < Concurrency
            /\ worker' = [worker EXCEPT ![t] = "load"]
            /\ UNCHANGED <<phase, snapshot, step, storeRegion, region, sessionsInStore,
                           aggregateVars, sessionTable, regionTable, failures, historyVars>>

\* A bug to look for: the average is taken of a list that is still empty.
NewRowUnaveraged(t) == [total   |-> snapshot[t].total,
                        medians |-> <<t.run>>,
                        avg     |-> Average(<<>>),
                        failure |-> snapshot[t].failure]

\* What createOrUpdateRegion starts from: the row this task would create.
NewRow(t) == [total   |-> snapshot[t].total,
              medians |-> <<t.run>>,
              avg     |-> Average(<<t.run>>),
              failure |-> snapshot[t].failure]

\* sessionsInStore.Load: has a goroutine of this run seen to the session?
Load(t) == /\ worker[t] = "load"
           /\ step' = [step EXCEPT ![t] = OnStores("get")]
           /\ IF t.session \in sessionsInStore[t.run]
              THEN /\ worker' = [worker EXCEPT ![t] = "region"]
                   /\ region' = [region EXCEPT ![t] = NewRow(t)]
              ELSE /\ worker' = [worker EXCEPT ![t] = "session"]
                   /\ UNCHANGED region
           /\ UNCHANGED <<phase, snapshot, storeRegion, sessionsInStore, aggregateVars,
                          sessionTable, regionTable, failures, historyVars>>

--------------------------------------------------------------------------------
(* createSessionIfDoesntExist, in all stores at once *)

\* A bug to look for: the session is created without a look at the table.
GetSessionUnasked(t, d) ==
    /\ worker[t] = "session"
    /\ step[t][d] = "get"
    /\ Goto(t, d, "create")
    /\ UNCHANGED <<phase, snapshot, worker, storeRegion, region, sessionsInStore,
                   aggregateVars, sessionTable, regionTable, failures, historyVars>>

GetSession(t, d) ==
    /\ worker[t] = "session"
    /\ step[t][d] = "get"
    /\ Goto(t, d, IF HasRow(d, t.session) THEN "ok" ELSE "create")
    /\ UNCHANGED <<phase, snapshot, worker, storeRegion, region, sessionsInStore,
                   aggregateVars, sessionTable, regionTable, failures, historyVars>>

\* The row may have been inserted since it was looked for: ErrDuplicate.
CreateSession(t, d) ==
    /\ worker[t] = "session"
    /\ step[t][d] = "create"
    /\ IF HasRow(d, t.session)
       THEN Goto(t, d, "error") /\ UNCHANGED <<sessionTable, failures>>
       ELSE /\ sessionTable' = [sessionTable EXCEPT ![d][t.session] = EmptySession]
            /\ WriteAnswered(t, d)
    /\ UNCHANGED <<phase, snapshot, worker, storeRegion, region, sessionsInStore,
                   aggregateVars, regionTable, historyVars>>

\* The goroutine is over, and its local variables with it.
Leave(t) == /\ worker' = [worker EXCEPT ![t] = "gone"]
            /\ step' = [step EXCEPT ![t] = OnStores("idle")]
            /\ storeRegion' = [storeRegion EXCEPT ![t] = OnStores(NoRow)]
            /\ region' = [region EXCEPT ![t] = NoRow]

\* An error of one store, ErrDuplicate too, ends the goroutine: the region's
\* data is saved in none of them.
GiveUp(t) == /\ worker[t] = "session"
             /\ AllAnswered(t)
             /\ SomeError(t)
             /\ Leave(t)
             /\ UNCHANGED <<phase, snapshot, sessionsInStore, aggregateVars, sessionTable,
                            regionTable, failures, historyVars>>

\* A bug to look for: the errors of the stores are only logged.
SessionsAnswered(t) == AllAnswered(t)

SessionsReady(t) == AllAnswered(t) /\ ~SomeError(t)

SessionStored(t) ==
    /\ worker[t] = "session"
    /\ SessionsReady(t)
    /\ sessionsInStore' = [sessionsInStore EXCEPT ![t.run] = @ \cup {t.session}]
    /\ worker' = [worker EXCEPT ![t] = "region"]
    /\ step' = [step EXCEPT ![t] = OnStores("get")]
    /\ region' = [region EXCEPT ![t] = NewRow(t)]
    /\ UNCHANGED <<phase, snapshot, storeRegion, aggregateVars, sessionTable, regionTable,
                   failures, historyVars>>

--------------------------------------------------------------------------------
(* createOrUpdateRegion, in all stores at once *)

GetRegion(t, d) ==
    /\ worker[t] = "region"
    /\ step[t][d] = "get"
    /\ storeRegion' = [storeRegion EXCEPT ![t][d] = regionTable[d][Key(t)]]
    /\ Goto(t, d, IF regionTable[d][Key(t)] = NoRow THEN "create" ELSE "update")
    /\ UNCHANGED <<phase, snapshot, worker, region, sessionsInStore, aggregateVars,
                   sessionTable, regionTable, failures, historyVars>>

\* Inserts the variable region, which by now may hold what another store's
\* UpdateRegion returned: that store's row, or the zero value, whose empty
\* keys no session row has, so that the foreign key refuses it.
CreateRegion(t, d) ==
    /\ worker[t] = "region"
    /\ step[t][d] = "create"
    /\ IF regionTable[d][Key(t)] # NoRow \/ region[t] = NoRow
       THEN Goto(t, d, "error") /\ UNCHANGED <<regionTable, failures, lateVars>>
       ELSE /\ regionTable' = [regionTable EXCEPT ![d][Key(t)] = region[t]]
            /\ WriteAnswered(t, d)
            /\ Overtake(t, d)
    /\ UNCHANGED <<phase, snapshot, worker, storeRegion, region, sessionsInStore,
                   aggregateVars, sessionTable, begunVars>>

\* Bugs to look for: the flag is not carried over; the average leaves out the
\* new sample.
UpdatedRowForgetting(t, row, read) ==
    [total   |-> snapshot[t].total,
     medians |-> Append(row.medians, t.run),
     avg     |-> Average(Append(read.medians, t.run)),
     failure |-> snapshot[t].failure]

UpdatedRowBehind(t, row, read) ==
    [total   |-> snapshot[t].total,
     medians |-> Append(row.medians, t.run),
     avg     |-> Average(read.medians),
     failure |-> snapshot[t].failure \/ read.failure]

\* The lists are appended to in the database; the average and the flag are
\* those of the row read before.
UpdatedRow(t, row, read) ==
    [total   |-> snapshot[t].total,
     medians |-> Append(row.medians, t.run),
     avg     |-> Average(Append(read.medians, t.run)),
     failure |-> snapshot[t].failure \/ read.failure]

\* region, err = st.UpdateRegion(...)
UpdateRegion(t, d) ==
    /\ worker[t] = "region"
    /\ step[t][d] = "update"
    /\ LET row == UpdatedRow(t, regionTable[d][Key(t)], storeRegion[t][d])
       IN  /\ regionTable' = [regionTable EXCEPT ![d][Key(t)] = row]
           /\ WriteAnswered(t, d)
           /\ region' = [region EXCEPT ![t] = IF step'[t][d] = "ok" THEN row ELSE NoRow]
    /\ Overtake(t, d)
    /\ UNCHANGED <<phase, snapshot, worker, storeRegion, sessionsInStore, aggregateVars,
                   sessionTable, begunVars>>

\* A call that fails without having done anything.
StoreCallFails(t, d) ==
    /\ worker[t] \in {"session", "region"}
    /\ step[t][d] \in {"get", "create", "update"}
    /\ Goto(t, d, "error")
    /\ region' = [region EXCEPT ![t] = IF step[t][d] = "update" THEN NoRow ELSE @]
    /\ CountFailure(t.run)
    /\ UNCHANGED <<phase, snapshot, worker, storeRegion, sessionsInStore, aggregateVars,
                   sessionTable, regionTable, historyVars>>

\* Errors of the stores are logged; nothing is retried.
RegionSaved(t) ==
    /\ worker[t] = "region"
    /\ AllAnswered(t)
    /\ Leave(t)
    /\ UNCHANGED <<phase, snapshot, sessionsInStore, aggregateVars, sessionTable,
                   regionTable, failures, historyVars>>

--------------------------------------------------------------------------------
(* aggregateRegionData *)

AllSpawned(r) == \A t \in TasksOf(r) : snapshot[t] = NoRow \/ worker[t] # "none"

\* A bug to look for: wg.Wait() is left out.
AllStarted(r) == AllSpawned(r)

AllEnded(r) == AllSpawned(r) /\ Busy(r) = {}

\* wg.Wait() returned.
SaveEnds(r) ==
    /\ phase[r] = "save"
    /\ AllEnded(r)
    /\ phase' = [phase EXCEPT ![r] = "aggregate"]
    /\ UNCHANGED <<saveVars, aggregateVars, sessionTable, regionTable, failures, historyVars>>

Ended(x) == x \in {"ok", "error"}
Aggregating(r) ==
    {s \in Sessions : /\ aggregation[r][s] # OnStores("none")
                      /\ \E d \in Stores : ~Ended(aggregation[r][s][d])}

Aggregates(r, s) ==
    /\ phase[r] = "aggregate"
    /\ s \in sessionsInStore[r]
    /\ aggregation[r][s] = OnStores("none")
    /\ Cardinality(Aggregating(r)) < Concurrency
    /\ aggregation' = [aggregation EXCEPT ![r][s] = OnStores("get")]
    /\ UNCHANGED <<phase, saveVars, rows, sessionTable, regionTable, failures, historyVars>>

\* The rows as far as they come: nothing asks whether the iteration was broken
\* off (rows.Err()), so that some rows, or none, are taken for all.
RowsThatCame(d, s, come) == [g \in Regions |-> IF g \in come THEN regionTable[d][<<g, s>>] ELSE NoRow]

GetSessionRegions(r, s, d) ==
    /\ aggregation[r][s][d] = "get"
    /\ aggregation' = [aggregation EXCEPT ![r][s][d] = "update"]
    /\ \E come \in SUBSET Regions :
          LET read == RowsThatCame(d, s, come)
          IN  /\ rows' = [rows EXCEPT ![r][s][d] = read]
              /\ IF read = RegionRows(d, s)
                 THEN UNCHANGED <<failures, outdated>>
                 ELSE CountFailure(r) /\ outdated' = outdated \cup {<<r, s, d>>}
    /\ UNCHANGED overtaken
    /\ UNCHANGED <<phase, saveVars, sessionTable, regionTable, begunVars>>

\* The session's row, from what each region has on it.
Aggregate(of) ==
    LET present == {g \in Regions : of[g] # NoRow}
        each(f(_)) == SumFunction([g \in present |-> f(of[g])])
    IN  [total   |-> each(LAMBDA row : row.total),
         avg     |-> [sum   |-> each(LAMBDA row : SumFunction(row.medians)),
                      count |-> each(LAMBDA row : Len(row.medians))],
         failure |-> \E g \in present : of[g].failure]

UpdateSession(r, s, d) ==
    /\ aggregation[r][s][d] = "update"
    /\ sessionTable' = [sessionTable EXCEPT ![d][s] = Aggregate(rows[r][s][d])]
    /\ rows' = [rows EXCEPT ![r][s][d] = NoRow]
    /\ \/ /\ aggregation' = [aggregation EXCEPT ![r][s][d] = "ok"]
          /\ UNCHANGED failures
       \/ /\ aggregation' = [aggregation EXCEPT ![r][s][d] = "error"]
          /\ CountFailure(r)
    /\ UNCHANGED <<phase, saveVars, regionTable, historyVars>>

AggregationFails(r, s, d) ==
    /\ aggregation[r][s][d] \in {"get", "update"}
    /\ rows' = [rows EXCEPT ![r][s][d] = NoRow]
    /\ aggregation' = [aggregation EXCEPT ![r][s][d] = "error"]
    /\ CountFailure(r)
    /\ UNCHANGED <<phase, saveVars, sessionTable, regionTable, historyVars>>

RunEnds(r) ==
    /\ phase[r] = "aggregate"
    /\ \A s \in sessionsInStore[r], d \in Stores : Ended(aggregation[r][s][d])
    /\ phase' = [phase EXCEPT ![r] = "done"]
    /\ UNCHANGED <<saveVars, aggregateVars, sessionTable, regionTable, failures, historyVars>>

--------------------------------------------------------------------------------

Main(r) == \/ \E t \in TasksOf(r) : Spawn(t)
           \/ SaveEnds(r)
           \/ \E s \in Sessions : Aggregates(r, s)
           \/ RunEnds(r)

Worker(t) == Load(t) \/ GiveUp(t) \/ SessionStored(t) \/ RegionSaved(t)

StoreWorker(t, d) == \/ GetSession(t, d)
                     \/ CreateSession(t, d)
                     \/ GetRegion(t, d)
                     \/ CreateRegion(t, d)
                     \/ UpdateRegion(t, d)
                     \/ StoreCallFails(t, d)

Aggregator(r, s, d) == \/ GetSessionRegions(r, s, d)
                       \/ UpdateSession(r, s, d)
                       \/ AggregationFails(r, s, d)

\* A step of run r once it has started.
Step(r) == \/ Main(r)
           \/ \E t \in TasksOf(r) : Worker(t)
           \/ \E t \in TasksOf(r), d \in Stores : StoreWorker(t, d)
           \/ \E s \in Sessions, d \in Stores : Aggregator(r, s, d)

\* The schedule has no run left; the explicit step lets TLC look for deadlocks.
Terminated == (\A r \in Runs : phase[r] = "done") /\ UNCHANGED vars

Next == \/ \E r \in Runs, failure \in [Regions \X Sessions -> BOOLEAN \cup {NoRow}] :
              StartRun(r, failure)
        \/ \E r \in Runs : Step(r)
        \/ Terminated

Spec == Init /\ [][Next]_vars

--------------------------------------------------------------------------------

\* The average of a region's row is a number; that of a session none of whose
\* regions could be saved is not: its count is 0.
RegionRow == [total : Samples, medians : Seq(Samples),
              avg : [sum : Nat, count : Nat \ {0}], failure : BOOLEAN]
SessionRow == [total : Nat, avg : [sum : Nat, count : Nat], failure : BOOLEAN]

TypeOK ==
    /\ phase \in [Runs -> {"waiting", "save", "aggregate", "done"}]
    /\ snapshot \in [Task -> AppData \cup {NoRow}]
    /\ worker \in [Task -> {"none", "load", "session", "region", "gone"}]
    /\ \A r \in Runs : Cardinality(Busy(r)) <= Concurrency
    /\ step \in [Task -> [Stores -> {"idle", "get", "create", "update", "ok", "error"}]]
    /\ \A t \in Task : /\ region[t] \in RegionRow \cup {NoRow}
                       /\ \A d \in Stores : storeRegion[t][d] \in RegionRow \cup {NoRow}
    /\ sessionsInStore \in [Runs -> SUBSET Sessions]
    /\ \A d \in Stores : /\ \A s \in Sessions : sessionTable[d][s] \in SessionRow \cup {NoRow}
                         /\ \A j \in Regions \X Sessions :
                                regionTable[d][j] \in RegionRow \cup {NoRow}
    /\ failures \in [Runs -> 0..MaxFailures]
    /\ known \in [Runs -> SUBSET Sessions]
    /\ running \in [Runs -> SUBSET Runs]
    /\ overtaken \subseteq Task \X Stores \X {"get", "create", "update"}
    /\ outdated \subseteq Runs \X Sessions \X Stores

\* The foreign key of the region table is never what stops a goroutine, and
\* the aggregation always finds its session: whenever a session is in
\* sessionsInStore, or a region row of it is in a store, that store has the
\* session's row, although a goroutine may skip the creation of the row
\* because another goroutine is said to have seen to it.
SessionFirst ==
    \A d \in Stores, s \in Sessions :
        \/ \E r \in Runs : s \in sessionsInStore[r]
        \/ \E g \in Regions : regionTable[d][<<g, s>>] # NoRow
        => HasRow(d, s)

\* The averages stored with a region are "the average of all the median success
\* latency saved so far" (cherry-picker README), also when another store's row
\* was copied. The one exception is the row whose latest sample is of a
\* goroutine that another run overtook: it wrote to the row, or the one copied,
\* between this one's GetRegion and its UpdateRegion. The next sample mends it.
LatestSampler(j, row) ==
    [run |-> row.medians[Len(row.medians)], region |-> j[1], session |-> j[2]]

AverageOfSaved ==
    \A d \in Stores, j \in Regions \X Sessions :
        LET row == regionTable[d][j]
        IN  row # NoRow => \/ row.avg = Average(row.medians)
                           \/ \E e \in Stores : <<LatestSampler(j, row), e, "update">> \in overtaken

\* No snapshot is in a row's list twice, so that no sample counts twice, unless
\* another run created the row, as a copy of the one in another store that had
\* the sample already, just before this run's goroutine looked for it.
SampledOnce ==
    \A d \in Stores, j \in Regions \X Sessions :
        LET list == regionTable[d][j].medians
        IN  regionTable[d][j] # NoRow =>
                \A i, k \in DOMAIN list :
                    list[i] = list[k] =>
                        \/ i = k
                        \/ \E e \in Stores : <<[run |-> list[i], region |-> j[1], session |-> j[2]],
                                               e, "get">> \in overtaken

\* A region row keeps the failure flag: only a goroutine that another run
\* overtook, so that it carries over a flag that was not set yet, clears it.
FailureSticks ==
    [][\A d \in Stores, j \in Regions \X Sessions :
           \/ (regionTable[d][j] # NoRow /\ regionTable[d][j].failure)
                  => regionTable'[d][j].failure
           \/ \E t \in Task : Key(t) = j /\ step'[t][d] # "update"
                              /\ <<t, d, "update">> \in overtaken /\ step[t][d] = "update"]_vars

\* When the latest run to begin, and those at work when it began, have ended,
\* the row of each session it aggregated in a store is "the aggregate data of
\* all the regions of a session" (cherry-picker README): as the region rows are
\* then, whichever run wrote them last and whichever run aggregated last. It
\* takes that none of these runs had an error, had the rows come only in part,
\* or had another run write a row between its reading and its writing.
Latest(r) == phase[r] = "done" /\ \A q \in Runs : q > r => phase[q] = "waiting"
Faithful(r, s, d) == aggregation[r][s][d] # "error" /\ <<r, s, d>> \notin outdated

SessionIsAggregate ==
    \A r \in Runs, s \in Sessions, d \in Stores :
        /\ Latest(r)
        /\ aggregation[r][s][d] = "ok"
        /\ \A q \in running[r] : phase[q] = "done"
        /\ \A q \in running[r] \cup {r} : Faithful(q, s, d)
        => sessionTable[d][s] = Aggregate(RegionRows(d, s))

Saved(t, d) == /\ regionTable[d][Key(t)] # NoRow
               /\ t.run \in Range(regionTable[d][Key(t)].medians)

RanWithoutFailure(r) == phase[r] = "done" /\ failures[r] = 0

\* A run none of whose store calls failed has saved every region's data of a
\* session that every store held when it began, unless another run inserted
\* the row between this one's GetRegion and its CreateRegion, which is refused.
\* A session that is new to the stores may be lost by two regions that both
\* create it (README, section 4).
KnownSessionsSaved ==
    \A t \in Task : RanWithoutFailure(t.run) /\ snapshot[t] # NoRow /\ t.session \in known[t.run]
                        => \A d \in Stores : Saved(t, d) \/ <<t, d, "create">> \in overtaken
================================================================================
