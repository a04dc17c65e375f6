----------------------------- MODULE SnapDataProofs -----------------------------
(***************************************************************************)
(* What the cherry picker's snapshot leaves in the stores, for any number  *)
(* of regions, sessions, stores and runs, whatever store calls fail.       *)
(***************************************************************************)
EXTENDS SnapData, FiniteSetTheorems, WellFoundedInduction, TLAPS

(***************************************************************************)
(* Shape says over what each variable ranges, and the values of those that *)
(* take few. The rows themselves are left open: most of what follows holds *)
(* whatever they hold. Their types come last, with the sums they need.     *)
(***************************************************************************)
Phases == {"waiting", "save", "aggregate", "done"}
WorkerStates == {"none", "load", "session", "region", "gone"}
StepStates == {"idle", "get", "create", "update", "ok", "error"}
AggregationStates == {"none", "get", "update", "ok", "error"}

ControlShape ==
    /\ phase \in [Runs -> Phases]
    /\ worker \in [Task -> WorkerStates]
    /\ step \in [Task -> [Stores -> StepStates]]
    /\ sessionsInStore \in [Runs -> SUBSET Sessions]
    /\ aggregation \in [Runs -> [Sessions -> [Stores -> AggregationStates]]]
    /\ failures \in [Runs -> Nat]
    /\ known \in [Runs -> SUBSET Sessions]

LocalShape ==
    /\ DOMAIN snapshot = Task
    /\ DOMAIN region = Task
    /\ DOMAIN storeRegion = Task
    /\ \A t \in Task : DOMAIN storeRegion[t] = Stores
    /\ DOMAIN rows = Runs
    /\ \A r \in Runs : DOMAIN rows[r] = Sessions
    /\ \A r \in Runs, s \in Sessions : DOMAIN rows[r][s] = Stores

TableShape ==
    /\ DOMAIN sessionTable = Stores
    /\ \A d \in Stores : DOMAIN sessionTable[d] = Sessions
    /\ DOMAIN regionTable = Stores
    /\ \A d \in Stores : DOMAIN regionTable[d] = Regions \X Sessions

HistoryShape ==
    /\ running \in [Runs -> SUBSET Runs]
    /\ overtaken \subseteq Task \X Stores \X {"get", "create", "update"}
    /\ outdated \subseteq Runs \X Sessions \X Stores

Shape == ControlShape /\ LocalShape /\ TableShape /\ HistoryShape

LEMMA TaskFacts ==
    \A t \in Task : /\ t.run \in Runs /\ t.region \in Regions /\ t.session \in Sessions
                    /\ Key(t) \in Regions \X Sessions
BY DEF Task, Key

\* The tables of the stores when earlier are the rows of a run before.
EarlierTables(earlier) ==
    \A d \in Stores :
        /\ \A s \in Sessions :
              sessionTable[d][s] = IF \E g \in Regions : <<g, s>> \in earlier
                                   THEN EmptySession ELSE NoRow
        /\ \A j \in Regions \X Sessions :
              regionTable[d][j] = IF j \in earlier THEN EarlierRow ELSE NoRow

LEMMA EarlierRun ==
    ASSUME Init
    PROVE  \E earlier \in SUBSET (Regions \X Sessions) : EarlierTables(earlier)
<1>1. PICK earlier \in SUBSET (Regions \X Sessions) :
          /\ sessionTable = OnStores([s \in Sessions |->
                 IF \E g \in Regions : <<g, s>> \in earlier THEN EmptySession ELSE NoRow])
          /\ regionTable = OnStores([j \in Regions \X Sessions |->
                 IF j \in earlier THEN EarlierRow ELSE NoRow])
  BY Zenon DEF Init
<1>2. EarlierTables(earlier)
  BY <1>1 DEF EarlierTables, OnStores
<1> QED
  BY <1>2

LEMMA ShapeInit == Init => Shape
BY SnapAssumption DEF Init, Shape, ControlShape, LocalShape, TableShape, HistoryShape, OnStores, NotAggregated,
       Phases, WorkerStates, StepStates, AggregationStates

\* A step of the goroutine of task t, or of the loop that spawns it.
LEMMA ShapeWorker ==
    ASSUME Shape, NEW t \in Task, Spawn(t) \/ Worker(t)
    PROVE  Shape'
<1> USE DEF Shape
<1>1. t.run \in Runs /\ t.session \in Sessions
  BY TaskFacts
<1>2. UNCHANGED <<phase, snapshot, aggregation, rows, sessionTable, regionTable, failures, known,
                  running, overtaken, outdated>>
  BY DEF Spawn, Worker, Load, GiveUp, SessionStored, RegionSaved, Leave, aggregateVars,
         historyVars, begunVars, lateVars
<1>3. /\ worker' \in [Task -> WorkerStates]
      /\ step' \in [Task -> [Stores -> StepStates]]
  <2>1. worker \in [Task -> WorkerStates] /\ step \in [Task -> [Stores -> StepStates]]
    BY DEF ControlShape
  <2>2. PICK to \in WorkerStates : worker' = [worker EXCEPT ![t] = to]
    BY DEF Spawn, Worker, Load, GiveUp, SessionStored, RegionSaved, Leave, WorkerStates
  <2>3. step' = step \/ \E x \in StepStates : step' = [step EXCEPT ![t] = [d \in Stores |-> x]]
    BY DEF Spawn, Worker, Load, GiveUp, SessionStored, RegionSaved, Leave, StepStates, OnStores
  <2> QED
    BY <2>1, <2>2, <2>3
<1>4. sessionsInStore' \in [Runs -> SUBSET Sessions]
  <2>1. sessionsInStore \in [Runs -> SUBSET Sessions]
    BY DEF ControlShape
  <2>2. \/ sessionsInStore' = sessionsInStore
        \/ sessionsInStore' = [sessionsInStore EXCEPT ![t.run] = @ \cup {t.session}]
    BY DEF Spawn, Worker, Load, GiveUp, SessionStored, RegionSaved
  <2> QED
    BY <1>1, <2>1, <2>2
<1>5. LocalShape'
  BY <1>2 DEF Spawn, Worker, Load, GiveUp, SessionStored, RegionSaved, Leave, OnStores, LocalShape
<1>6. ControlShape' /\ TableShape' /\ HistoryShape'
  BY <1>2, <1>3, <1>4 DEF ControlShape, TableShape, HistoryShape
<1> QED
  BY <1>5, <1>6

LEMMA ShapeStoreWorker ==
    ASSUME Shape, NEW t \in Task, NEW d \in Stores, StoreWorker(t, d)
    PROVE  Shape'
<1> USE DEF Shape
<1>1. t.run \in Runs /\ t.session \in Sessions /\ Key(t) \in Regions \X Sessions
  BY TaskFacts
<1>2. UNCHANGED <<phase, snapshot, worker, sessionsInStore, aggregation, rows, known, running>>
  BY DEF StoreWorker, GetSession, CreateSession, GetRegion, CreateRegion, UpdateRegion,
         StoreCallFails, aggregateVars, historyVars, begunVars
<1>3. PICK to \in StepStates : step' = [step EXCEPT ![t][d] = to]
  BY DEF StoreWorker, GetSession, CreateSession, GetRegion, CreateRegion, UpdateRegion,
         StoreCallFails, WriteAnswered, Goto, StepStates
<1>4. step' \in [Task -> [Stores -> StepStates]]
  BY <1>3 DEF ControlShape
<1>5. failures' \in [Runs -> Nat]
  <2>1. failures' = failures \/ failures' = [failures EXCEPT ![t.run] = @ + 1]
    BY DEF StoreWorker, GetSession, CreateSession, GetRegion, CreateRegion, UpdateRegion,
           StoreCallFails, WriteAnswered, CountFailure
  <2>2. failures \in [Runs -> Nat]
    BY DEF ControlShape
  <2> QED
    BY <1>1, <2>1, <2>2
<1>6. LocalShape'
  BY <1>2 DEF StoreWorker, GetSession, CreateSession, GetRegion, CreateRegion, UpdateRegion,
              StoreCallFails, LocalShape
<1>7. TableShape'
  BY <1>1 DEF StoreWorker, GetSession, CreateSession, GetRegion, CreateRegion, UpdateRegion,
              StoreCallFails, TableShape
<1>8. ControlShape'
  BY <1>2, <1>4, <1>5 DEF ControlShape
<1>9. HistoryShape'
  <2>1. UNCHANGED <<overtaken, outdated>> \/ Overtake(t, d)
    BY DEF StoreWorker, GetSession, CreateSession, GetRegion, CreateRegion, UpdateRegion,
           StoreCallFails, historyVars, lateVars
  <2>2. Overtake(t, d) => /\ overtaken' \subseteq Task \X Stores \X {"get", "create", "update"}
                          /\ outdated' \subseteq Runs \X Sessions \X Stores
    BY <1>1 DEF Overtake, HistoryShape
  <2> QED
    BY <1>2, <2>1, <2>2 DEF HistoryShape
<1> QED
  BY <1>6, <1>7, <1>8, <1>9

LEMMA ShapeAggregator ==
    ASSUME Shape, NEW r \in Runs, NEW s \in Sessions,
           Aggregates(r, s) \/ \E d \in Stores : Aggregator(r, s, d)
    PROVE  Shape'
<1> USE DEF Shape
<1>1. UNCHANGED <<phase, saveVars, regionTable, known, running, overtaken>>
  BY DEF Aggregates, Aggregator, GetSessionRegions, UpdateSession, AggregationFails,
         historyVars, begunVars, lateVars
<1>2. aggregation' \in [Runs -> [Sessions -> [Stores -> AggregationStates]]]
  <2>1. aggregation \in [Runs -> [Sessions -> [Stores -> AggregationStates]]]
    BY DEF ControlShape
  <2>2. CASE Aggregates(r, s)
    <3>1. aggregation' = [aggregation EXCEPT ![r][s] = OnStores("get")]
      BY <2>2 DEF Aggregates
    <3>2. OnStores("get") \in [Stores -> AggregationStates]
      BY DEF OnStores, AggregationStates
    <3> QED
      BY <2>1, <3>1, <3>2
  <2>3. ASSUME NEW d \in Stores, Aggregator(r, s, d)
        PROVE  aggregation' \in [Runs -> [Sessions -> [Stores -> AggregationStates]]]
    <3>1. PICK to \in AggregationStates : aggregation' = [aggregation EXCEPT ![r][s][d] = to]
      BY <2>3 DEF Aggregator, GetSessionRegions, UpdateSession, AggregationFails, AggregationStates
    <3> QED
      BY <2>1, <3>1
  <2> QED
    BY <2>2, <2>3
<1>3. failures' \in [Runs -> Nat]
  <2>1. failures' = failures \/ failures' = [failures EXCEPT ![r] = @ + 1]
    BY DEF Aggregates, Aggregator, GetSessionRegions, UpdateSession, AggregationFails, CountFailure
  <2>2. failures \in [Runs -> Nat]
    BY DEF ControlShape
  <2> QED
    BY <2>1, <2>2
<1>4. LocalShape'
  BY <1>1 DEF Aggregates, Aggregator, GetSessionRegions, UpdateSession, AggregationFails,
              saveVars, LocalShape
<1>5. TableShape'
  BY <1>1 DEF Aggregates, Aggregator, GetSessionRegions, UpdateSession, AggregationFails,
              TableShape
<1>6. ControlShape'
  BY <1>1, <1>2, <1>3 DEF saveVars, ControlShape
<1>7. HistoryShape'
  <2>1. outdated' = outdated \/ \E d \in Stores : outdated' = outdated \cup {<<r, s, d>>}
    BY DEF Aggregates, Aggregator, GetSessionRegions, UpdateSession, AggregationFails,
           historyVars, lateVars
  <2> QED
    BY <1>1, <2>1 DEF HistoryShape
<1> QED
  BY <1>4, <1>5, <1>6, <1>7

LEMMA ShapeRun ==
    ASSUME Shape, NEW r \in Runs,
           SaveEnds(r) \/ RunEnds(r)
               \/ \E failure \in [Regions \X Sessions -> BOOLEAN \cup {NoRow}] : StartRun(r, failure)
    PROVE  Shape'
<1> USE DEF Shape
<1>1. UNCHANGED <<worker, step, storeRegion, region, sessionsInStore, aggregation, rows,
                  sessionTable, regionTable, failures, overtaken, outdated>>
  BY DEF SaveEnds, RunEnds, StartRun, saveVars, aggregateVars, historyVars, lateVars
<1>2. phase' \in [Runs -> Phases]
  <2>1. PICK to \in Phases : phase' = [phase EXCEPT ![r] = to]
    BY DEF SaveEnds, RunEnds, StartRun, Phases
  <2> QED
    BY <2>1 DEF ControlShape
<1>3. known' \in [Runs -> SUBSET Sessions]
  <2>1. known \in [Runs -> SUBSET Sessions]
    BY DEF ControlShape
  <2>2. known' = known \/ \E S \in SUBSET Sessions : known' = [known EXCEPT ![r] = S]
    BY DEF SaveEnds, RunEnds, StartRun, historyVars, begunVars
  <2> QED
    BY <2>1, <2>2
<1>4. DOMAIN snapshot' = Task
  BY DEF SaveEnds, RunEnds, StartRun, saveVars, LocalShape
<1>5. ControlShape'
  BY <1>1, <1>2, <1>3 DEF ControlShape
<1>6. LocalShape' /\ TableShape'
  BY <1>1, <1>4 DEF LocalShape, TableShape
<1>7. HistoryShape'
  <2>1. \/ running' = running
        \/ \E R \in SUBSET Runs : running' = [running EXCEPT ![r] = R]
    BY DEF SaveEnds, RunEnds, StartRun, historyVars, begunVars
  <2> QED
    BY <1>1, <2>1 DEF HistoryShape
<1> QED
  BY <1>5, <1>6, <1>7

\* The steps, by who makes them.
LEMMA NextCases ==
    ASSUME [Next]_vars
    PROVE  \/ UNCHANGED vars
           \/ \E r \in Runs, failure \in [Regions \X Sessions -> BOOLEAN \cup {NoRow}] :
                  StartRun(r, failure)
           \/ \E r \in Runs : SaveEnds(r) \/ RunEnds(r)
           \/ \E t \in Task : Spawn(t) \/ Worker(t)
           \/ \E t \in Task, d \in Stores : StoreWorker(t, d)
           \/ \E r \in Runs, s \in Sessions : Aggregates(r, s)
           \/ \E r \in Runs, s \in Sessions, d \in Stores : Aggregator(r, s, d)
BY DEF Next, Step, Main, Terminated, TasksOf

LEMMA ShapeStep == Shape /\ [Next]_vars => Shape'
<1> SUFFICES ASSUME Shape, [Next]_vars
             PROVE  Shape'
  OBVIOUS
<1>1. CASE UNCHANGED vars
  BY <1>1 DEF vars, saveVars, aggregateVars, historyVars, begunVars, lateVars, Shape, ControlShape,
              LocalShape, TableShape, HistoryShape
<1> QED
  BY <1>1, NextCases, ShapeRun, ShapeWorker, ShapeStoreWorker, ShapeAggregator

LEMMA ShapeHolds == Spec => []Shape
BY ShapeInit, ShapeStep, PTL DEF Spec

--------------------------------------------------------------------------------
(***************************************************************************)
(* The session's row comes first. A row that is there stays, because the   *)
(* aggregation overwrites it and nothing deletes one. NoRow stands for     *)
(* what is no row: it has no total.                                        *)
(***************************************************************************)
NoRowHasNoTotal == "total" \notin DOMAIN NoRow

\* A goroutine that was told its session is in a store, or went past it.
ToldOfSession ==
    \A t \in Task, d \in Stores :
        \/ worker[t] = "session" /\ step[t][d] = "ok"
        \/ worker[t] = "region"
        => HasRow(d, t.session)

LEMMA RowsAreRows ==
    ASSUME NoRowHasNoTotal
    PROVE  /\ EmptySession # NoRow
           /\ \A of : Aggregate(of) # NoRow
           /\ \A t, row, read : NewRow(t) # NoRow /\ UpdatedRow(t, row, read) # NoRow
<1>1. \A x, y, z : [total |-> x, avg |-> y, failure |-> z] # NoRow
  BY DEF NoRowHasNoTotal
<1>2. \A w, x, y, z : [total |-> w, medians |-> x, avg |-> y, failure |-> z] # NoRow
  BY DEF NoRowHasNoTotal
<1>3. EmptySession # NoRow
  BY <1>1 DEF EmptySession
<1>4. \A of : Aggregate(of) # NoRow
  BY <1>1, Zenon DEF Aggregate
<1>5. \A t, row, read : NewRow(t) # NoRow /\ UpdatedRow(t, row, read) # NoRow
  BY <1>2, Zenon DEF NewRow, UpdatedRow
<1> QED
  BY <1>3, <1>4, <1>5

FirstIInv == ToldOfSession /\ SessionFirst

LEMMA RowsStay ==
    ASSUME Shape, NoRowHasNoTotal, [Next]_vars, NEW d \in Stores, NEW s \in Sessions, HasRow(d, s)
    PROVE  HasRow(d, s)'
<1>1. CASE UNCHANGED sessionTable
  BY <1>1 DEF HasRow
<1>2. ASSUME NEW t \in Task, NEW e \in Stores, CreateSession(t, e)
      PROVE  HasRow(d, s)'
  <2>1. \/ UNCHANGED sessionTable
        \/ sessionTable' = [sessionTable EXCEPT ![e][t.session] = EmptySession]
    BY <1>2 DEF CreateSession
  <2> QED
    BY <1>1, <2>1, TaskFacts, RowsAreRows DEF HasRow, Shape, TableShape
<1>3. ASSUME NEW r \in Runs, NEW q \in Sessions, NEW e \in Stores, UpdateSession(r, q, e)
      PROVE  HasRow(d, s)'
  <2>1. \E row : row # NoRow /\ sessionTable' = [sessionTable EXCEPT ![e][q] = row]
    BY <1>3, RowsAreRows DEF UpdateSession
  <2> QED
    BY <2>1 DEF HasRow, Shape, TableShape
<1>4. \/ UNCHANGED sessionTable
      \/ \E t \in Task, e \in Stores : CreateSession(t, e)
      \/ \E r \in Runs, q \in Sessions, e \in Stores : UpdateSession(r, q, e)
  BY NextCases DEF vars, StartRun, SaveEnds, RunEnds, Spawn, Worker, Load, GiveUp, SessionStored,
                   RegionSaved, StoreWorker, GetSession, GetRegion, CreateRegion, UpdateRegion,
                   StoreCallFails, Aggregates, Aggregator, GetSessionRegions, AggregationFails
<1> QED
  BY <1>1, <1>2, <1>3, <1>4

LEMMA FirstInit == ASSUME NoRowHasNoTotal, Init PROVE FirstIInv
<1>1. ToldOfSession
  BY DEF Init, ToldOfSession
<1>2. SessionFirst
  <2>1. PICK earlier \in SUBSET (Regions \X Sessions) : EarlierTables(earlier)
    BY EarlierRun
  <2>2. sessionsInStore = [r \in Runs |-> {}]
    BY DEF Init
  <2> QED
    BY <2>1, <2>2, RowsAreRows DEF EarlierTables, SessionFirst, HasRow
<1> QED
  BY <1>1, <1>2 DEF FirstIInv

\* How a goroutine comes to be told: it asked, it created the row, or another
\* goroutine of the run is known to have seen to it.
LEMMA ToldStep ==
    ASSUME Shape, NoRowHasNoTotal, FirstIInv, [Next]_vars
    PROVE  ToldOfSession'
<1> USE DEF FirstIInv, Shape
<1> SUFFICES ASSUME NEW t \in Task, NEW d \in Stores,
                    (worker'[t] = "session" /\ step'[t][d] = "ok") \/ worker'[t] = "region"
             PROVE  HasRow(d, t.session)'
  BY Zenon DEF ToldOfSession, HasRow
<1>1. t.run \in Runs /\ t.session \in Sessions
  BY TaskFacts
<1>2. CASE HasRow(d, t.session)
  BY <1>1, <1>2, RowsStay
<1>3. CASE UNCHANGED <<worker, step>>
  BY <1>2, <1>3 DEF ToldOfSession
<1>4. ASSUME NEW u \in Task, Spawn(u) \/ Worker(u)
      PROVE  HasRow(d, t.session)'
  <2>1. CASE Load(u)
    <3>1. /\ worker' = [worker EXCEPT ![u] =
                            IF u.session \in sessionsInStore[u.run] THEN "region" ELSE "session"]
          /\ step' = [step EXCEPT ![u] = [x \in Stores |-> "get"]]
      BY <2>1 DEF Load, OnStores
    <3>2. CASE u = t
      <4>1. t.session \in sessionsInStore[t.run]
        BY <3>1, <3>2 DEF ControlShape
      <4> QED
        BY <1>1, <1>2, <4>1 DEF SessionFirst
    <3>3. CASE u # t
      BY <1>2, <3>1, <3>3 DEF ControlShape, ToldOfSession
    <3> QED
      BY <3>2, <3>3
  <2>2. CASE SessionStored(u)
    <3>1. /\ worker[u] = "session" /\ \A x \in Stores : step[u][x] = "ok"
          /\ worker' = [worker EXCEPT ![u] = "region"]
          /\ step' = [step EXCEPT ![u] = [x \in Stores |-> "get"]]
      BY <2>2 DEF SessionStored, SessionsReady, AllAnswered, SomeError, OnStores
    <3> QED
      BY <1>2, <3>1 DEF ControlShape, ToldOfSession
  <2>3. CASE Spawn(u) \/ GiveUp(u) \/ RegionSaved(u)
    <3>1. PICK to \in {"load", "gone"} : worker' = [worker EXCEPT ![u] = to]
      BY <2>3 DEF Spawn, GiveUp, RegionSaved, Leave
    <3>2. step' = step \/ step' = [step EXCEPT ![u] = [x \in Stores |-> "idle"]]
      BY <2>3 DEF Spawn, GiveUp, RegionSaved, Leave, OnStores
    <3> QED
      BY <1>2, <3>1, <3>2 DEF ControlShape, ToldOfSession
  <2> QED
    BY <1>4, <2>1, <2>2, <2>3 DEF Worker
<1>5. ASSUME NEW u \in Task, NEW x \in Stores, StoreWorker(u, x)
      PROVE  HasRow(d, t.session)'
  <2>1. worker' = worker
    BY <1>5 DEF StoreWorker, GetSession, CreateSession, GetRegion, CreateRegion, UpdateRegion,
                StoreCallFails
  <2>2. PICK to \in StepStates : step' = [step EXCEPT ![u][x] = to]
    BY <1>5 DEF StoreWorker, GetSession, CreateSession, GetRegion, CreateRegion, UpdateRegion,
                StoreCallFails, WriteAnswered, Goto, StepStates
  <2>3. CASE worker[t] = "region" \/ u # t \/ x # d
    BY <1>2, <2>1, <2>2, <2>3 DEF ControlShape, ToldOfSession
  <2>4. CASE worker[t] = "session" /\ u = t /\ x = d
    <3>1. to = "ok"
      BY <2>1, <2>2, <2>4 DEF ControlShape
    <3>2. CASE GetSession(t, d)
      <4>1. HasRow(d, t.session)
        BY <2>2, <3>1, <3>2 DEF GetSession, Goto, ControlShape
      <4> QED
        BY <1>2, <4>1
    <3>3. CASE CreateSession(t, d) /\ ~HasRow(d, t.session)
      <4>1. sessionTable' = [sessionTable EXCEPT ![d][t.session] = EmptySession]
        BY <3>3 DEF CreateSession
      <4> QED
        BY <1>1, <4>1, RowsAreRows DEF HasRow, TableShape
    <3>4. CASE StoreCallFails(t, d)
      <4>1. step' = [step EXCEPT ![t][d] = "error"]
        BY <3>4 DEF StoreCallFails, Goto
      <4> QED
        BY <2>1, <2>4, <4>1 DEF ControlShape
    <3> QED
      BY <1>2, <1>5, <2>4, <3>2, <3>3, <3>4
         DEF StoreWorker, GetRegion, CreateRegion, UpdateRegion
  <2> QED
    BY <2>1, <2>3, <2>4
<1>6. \/ UNCHANGED <<worker, step>>
      \/ \E u \in Task : Spawn(u) \/ Worker(u)
      \/ \E u \in Task, x \in Stores : StoreWorker(u, x)
  BY NextCases DEF vars, saveVars, StartRun, SaveEnds, RunEnds, Aggregates, Aggregator,
                   GetSessionRegions, UpdateSession, AggregationFails
<1> QED
  BY <1>3, <1>4, <1>5, <1>6

LEMMA FirstStep ==
    ASSUME Shape, NoRowHasNoTotal, FirstIInv, [Next]_vars
    PROVE  FirstIInv'
<1> USE DEF FirstIInv, Shape
<1>1. ToldOfSession'
  BY ToldStep
<1>2. SessionFirst'
  <2> SUFFICES ASSUME NEW d \in Stores, NEW s \in Sessions,
                      \/ \E r \in Runs : s \in sessionsInStore'[r]
                      \/ \E g \in Regions : regionTable'[d][<<g, s>>] # NoRow
               PROVE  HasRow(d, s)'
    BY Zenon DEF SessionFirst, HasRow
  <2>1. CASE HasRow(d, s)
    BY <2>1, RowsStay
  <2>2. CASE UNCHANGED <<sessionsInStore, regionTable>>
    BY <2>1, <2>2 DEF SessionFirst
  <2>3. ASSUME NEW t \in Task, SessionStored(t)
        PROVE  HasRow(d, s)'
    <3>1. /\ worker[t] = "session" /\ step[t][d] = "ok"
          /\ sessionsInStore' = [sessionsInStore EXCEPT ![t.run] = @ \cup {t.session}]
          /\ regionTable' = regionTable
      BY <2>3 DEF SessionStored, SessionsReady, AllAnswered, SomeError
    <3>2. HasRow(d, t.session)
      BY <3>1 DEF ToldOfSession
    <3>3. CASE s = t.session
      BY <2>1, <3>2, <3>3
    <3>4. CASE s # t.session
      BY <2>1, <3>1, <3>4, TaskFacts DEF SessionFirst, ControlShape
    <3> QED
      BY <3>3, <3>4
  <2>4. ASSUME NEW t \in Task, NEW e \in Stores, CreateRegion(t, e) \/ UpdateRegion(t, e)
        PROVE  HasRow(d, s)'
    <3>1. /\ worker[t] = "region" /\ sessionsInStore' = sessionsInStore
          /\ \/ regionTable' = regionTable
             \/ \E row : regionTable' = [regionTable EXCEPT ![e][Key(t)] = row]
      BY <2>4 DEF CreateRegion, UpdateRegion
    <3>2. HasRow(e, t.session)
      BY <3>1 DEF ToldOfSession
    <3>3. CASE s = t.session /\ d = e
      BY <2>1, <3>2, <3>3
    <3>4. CASE ~(s = t.session /\ d = e)
      <4>1. \A g \in Regions : regionTable'[d][<<g, s>>] = regionTable[d][<<g, s>>]
        BY <3>1, <3>4, TaskFacts DEF TableShape, Key
      <4> QED
        BY <2>1, <3>1, <4>1 DEF SessionFirst
    <3> QED
      BY <3>3, <3>4
  <2>5. \/ UNCHANGED <<sessionsInStore, regionTable>>
        \/ \E t \in Task : SessionStored(t)
        \/ \E t \in Task, e \in Stores : CreateRegion(t, e) \/ UpdateRegion(t, e)
    BY NextCases DEF vars, saveVars, StartRun, SaveEnds, RunEnds, Spawn, Worker, Load, GiveUp,
                     RegionSaved, StoreWorker, GetSession, CreateSession, GetRegion,
                     StoreCallFails, Aggregates, Aggregator, GetSessionRegions, UpdateSession,
                     AggregationFails
  <2> QED
    BY <2>2, <2>3, <2>4, <2>5
<1> QED
  BY <1>1, <1>2

LEMMA FirstHolds == ASSUME NoRowHasNoTotal PROVE Spec => []FirstIInv
<1>1. Init => FirstIInv
  BY FirstInit
<1>2. Shape /\ FirstIInv /\ [Next]_vars => FirstIInv'
  BY FirstStep
<1> QED
  BY ShapeHolds, <1>1, <1>2, PTL DEF Spec

\* Whenever a run counts a session as stored, and whenever a region row of it
\* is in a store, that store has the session's row: no region row is refused
\* for want of it, however many goroutines and runs are at work.
THEOREM SessionFirstHolds == NoRowHasNoTotal => (Spec => []SessionFirst)
<1> SUFFICES ASSUME NoRowHasNoTotal
             PROVE  Spec => []SessionFirst
  OBVIOUS
<1>1. FirstIInv => SessionFirst
  BY DEF FirstIInv
<1> QED
  BY FirstHolds, <1>1, PTL

--------------------------------------------------------------------------------
(***************************************************************************)
(* Sums of natural numbers are natural numbers. SumFunction is a fold,     *)
(* that is a function on the subsets of the indices defined by recursion:  *)
(* that there is such a function, and what it yields, is shown by taking   *)
(* a smallest subset for which it fails.                                   *)
(***************************************************************************)

\* There is no endless descent in the naturals.
LEMMA NatWF == IsWellFoundedOn({p \in Nat \X Nat : p[1] < p[2]}, Nat)
BY NatLessThanWellFounded DEF OpToRel

LEMMA LeastNumber ==
    ASSUME NEW T \in SUBSET Nat, T # {}
    PROVE  \E x \in T : \A y \in T : x <= y
<1>1. PICK x \in T : \A y \in T : ~(<<y, x>> \in {p \in Nat \X Nat : p[1] < p[2]})
  BY NatWF, WFMin
<1>2. ASSUME NEW y \in T PROVE ~(y < x)
  <2>1. <<y, x>> \in Nat \X Nat /\ <<y, x>>[1] = y /\ <<y, x>>[2] = x
    OBVIOUS
  <2> QED
    BY <1>1, <2>1
<1>3. \A y \in T : x \in Nat /\ y \in Nat
  OBVIOUS
<1> QED
  BY <1>2, <1>3

First(s) == CHOOSE x \in s : TRUE

\* The sum over s, if g holds those over smaller sets.
SumBy(g, f, s) == IF s = {} THEN 0 ELSE f[First(s)] + g[s \ {First(s)}]

\* g[s] is the sum of f over s, for each s of at most n of the elements of S.
SumsUpTo(g, f, S, n) ==
    \A s \in SUBSET S : Cardinality(s) <= n => g[s] = SumBy(g, f, s)

LEMMA OneLess ==
    ASSUME NEW S, IsFiniteSet(S), NEW s \in SUBSET S, s # {}
    PROVE  /\ First(s) \in s
           /\ s \ {First(s)} \in SUBSET S
           /\ Cardinality(s) \in Nat
           /\ Cardinality(s \ {First(s)}) = Cardinality(s) - 1
<1>1. First(s) \in s
  BY DEF First
<1>2. IsFiniteSet(s)
  BY FS_Subset
<1> QED
  BY <1>1, <1>2, FS_RemoveElement, FS_CardinalityType

LEMMA SumsExist ==
    ASSUME NEW f, NEW S, IsFiniteSet(S), NEW n \in Nat
    PROVE  \E g : SumsUpTo(g, f, S, n)
<1> DEFINE T == {m \in Nat : ~\E g : SumsUpTo(g, f, S, m)}
<1> SUFFICES ASSUME T # {}
             PROVE  FALSE
  OBVIOUS
<1>1. PICK m \in T : \A k \in T : m <= k
  <2>1. T \in SUBSET Nat
    OBVIOUS
  <2> HIDE DEF T
  <2> QED
    BY <2>1, LeastNumber
<1>2. \A s \in SUBSET S : Cardinality(s) \in Nat /\ (Cardinality(s) = 0 => s = {})
  BY FS_Subset, FS_CardinalityType, FS_EmptySet
<1>3. CASE m = 0
  <2> DEFINE g == [s \in SUBSET S |-> 0]
  <2>1. SumsUpTo(g, f, S, 0)
    <3> SUFFICES ASSUME NEW s \in SUBSET S, Cardinality(s) <= 0
                 PROVE  g[s] = SumBy(g, f, s)
      BY DEF SumsUpTo
    <3>1. s = {}
      BY <1>2
    <3> QED
      BY <3>1 DEF SumBy
  <2> QED
    BY <1>3, <2>1
<1>4. CASE m # 0
  <2>1. m - 1 \in Nat /\ m \in Nat /\ m - 1 \notin T
    BY <1>1, <1>4
  <2>2. PICK g : SumsUpTo(g, f, S, m - 1)
    BY <2>1
  <2> DEFINE h == [s \in SUBSET S |-> IF Cardinality(s) = m THEN SumBy(g, f, s) ELSE g[s]]
  <2>3. ASSUME NEW s \in SUBSET S, Cardinality(s) <= m
        PROVE  h[s] = SumBy(h, f, s)
    <3>1. SumBy(h, f, s) = SumBy(g, f, s)
      <4>1. CASE s = {}
        BY <4>1 DEF SumBy
      <4>2. CASE s # {}
        <5> DEFINE u == s \ {First(s)}
        <5>1. u \in SUBSET S /\ Cardinality(u) # m
          BY <1>2, <2>1, <2>3, <4>2, OneLess
        <5>2. h[u] = g[u]
          BY <5>1
        <5> HIDE DEF h
        <5> QED
          BY <5>2 DEF SumBy
      <4> QED
        BY <4>1, <4>2
    <3>2. Cardinality(s) # m => g[s] = SumBy(g, f, s)
      BY <1>2, <2>1, <2>2, <2>3 DEF SumsUpTo
    <3>3. h[s] = IF Cardinality(s) = m THEN SumBy(g, f, s) ELSE g[s]
      OBVIOUS
    <3> HIDE DEF h
    <3> QED
      BY <3>1, <3>2, <3>3
  <2> HIDE DEF h
  <2>4. SumsUpTo(h, f, S, m)
    BY <2>3 DEF SumsUpTo
  <2> QED
    BY <2>4
<1> QED
  BY <1>3, <1>4

\* The function that the fold is defined by.
Sums(g, f, S) == g = [s \in SUBSET S |-> SumBy(g, f, s)]

LEMMA SumFunctionIs ==
    ASSUME NEW f, IsFiniteSet(DOMAIN f)
    PROVE  \E g : Sums(g, f, DOMAIN f) /\ SumFunction(f) = g[DOMAIN f]
<1> DEFINE S == DOMAIN f
<1>1. PICK g : SumsUpTo(g, f, S, Cardinality(S))
  BY SumsExist, FS_CardinalityType
<1> DEFINE h == [s \in SUBSET S |-> g[s]]
<1>2. ASSUME NEW s \in SUBSET S PROVE h[s] = SumBy(h, f, s)
  <2>1. g[s] = SumBy(g, f, s)
    <3>1. Cardinality(s) <= Cardinality(S)
      BY FS_Subset
    <3> QED
      BY <1>1, <3>1 DEF SumsUpTo
  <2>2. s # {} => h[s \ {First(s)}] = g[s \ {First(s)}]
    OBVIOUS
  <2>3. h[s] = g[s]
    OBVIOUS
  <2> HIDE DEF h
  <2> QED
    BY <2>1, <2>2, <2>3 DEF SumBy
<1>3. Sums(h, f, S)
  <2>1. h = [s \in SUBSET S |-> h[s]]
    OBVIOUS
  <2> HIDE DEF h
  <2> QED
    BY <1>2, <2>1 DEF Sums
<1>4. Sums(CHOOSE k : Sums(k, f, S), f, S)
  BY <1>3
<1>5. SumFunction(f) = (CHOOSE k : Sums(k, f, S))[S]
  BY DEF SumFunction, SumFunctionOnSet, FoldFunctionOnSet, MapThenFoldSet, Sums, SumBy, First
<1> QED
  BY <1>4, <1>5

LEMMA SumOfNaturals ==
    ASSUME NEW f, IsFiniteSet(DOMAIN f), \A x \in DOMAIN f : f[x] \in Nat
    PROVE  SumFunction(f) \in Nat
<1> DEFINE S == DOMAIN f
<1>1. PICK g : Sums(g, f, S) /\ SumFunction(f) = g[S]
  BY SumFunctionIs
<1>2. \A s \in SUBSET S : g[s] = SumBy(g, f, s)
  BY <1>1 DEF Sums
<1> DEFINE T == {n \in Nat : \E s \in SUBSET S : Cardinality(s) = n /\ g[s] \notin Nat}
<1>3. \A s \in SUBSET S : Cardinality(s) \in Nat
  BY FS_Subset, FS_CardinalityType
<1>4. T = {}
  <2> SUFFICES ASSUME T # {}
               PROVE  FALSE
    OBVIOUS
  <2>1. PICK m \in T : \A k \in T : m <= k
    <3>1. T \in SUBSET Nat
      OBVIOUS
    <3> HIDE DEF T
    <3> QED
      BY <3>1, LeastNumber
  <2>2. PICK s \in SUBSET S : Cardinality(s) = m /\ g[s] \notin Nat
    OBVIOUS
  <2>3. s # {} /\ g[s] = f[First(s)] + g[s \ {First(s)}]
    <3> HIDE DEF T
    <3>1. g[s] = SumBy(g, f, s)
      BY <1>2
    <3>2. s # {}
      BY <2>2, <3>1 DEF SumBy
    <3> QED
      BY <3>1, <3>2 DEF SumBy
  <2>4. /\ First(s) \in S /\ s \ {First(s)} \in SUBSET S
        /\ Cardinality(s \ {First(s)}) = m - 1
    BY <2>2, <2>3, OneLess
  <2>5. g[s \ {First(s)}] \in Nat
    BY <1>3, <2>1, <2>4
  <2>6. f[First(s)] \in Nat
    BY <2>4
  <2> QED
    BY <2>2, <2>3, <2>5, <2>6
<1>5. S \in SUBSET S /\ Cardinality(S) \in Nat
  BY <1>3
<1> QED
  BY <1>1, <1>4, <1>5

LEMMA SamplesAreNumbers == Samples \subseteq Nat
<1>1. Runs \subseteq Nat \ {0}
  BY SnapAssumption
<1> QED
  BY <1>1 DEF Samples

LEMMA SumOfList ==
    ASSUME NEW list \in Seq(Samples)
    PROVE  SumFunction(list) \in Nat /\ Len(list) \in Nat
<1>1. /\ 1 \in Int /\ Len(list) \in Int /\ Len(list) \in Nat
      /\ DOMAIN list = 1..Len(list)
      /\ \A i \in DOMAIN list : list[i] \in Samples
  OBVIOUS
<1>2. \A i \in DOMAIN list : list[i] \in Nat
  BY <1>1, SamplesAreNumbers
<1>3. IsFiniteSet(DOMAIN list)
  BY <1>1, FS_Interval, Zenon
<1> QED
  BY <1>1, <1>2, <1>3, SumOfNaturals

LEMMA AverageIsNumber ==
    ASSUME NEW list \in Seq(Samples), NEW x \in Samples
    PROVE  Average(Append(list, x)) \in [sum : Nat, count : Nat \ {0}]
<1>1. Append(list, x) \in Seq(Samples) /\ Len(Append(list, x)) # 0
  OBVIOUS
<1> QED
  BY <1>1, SumOfList DEF Average

\* A region may have no row; those that have one count.
LEMMA AggregateIsRow ==
    ASSUME NEW of \in [Regions -> RegionRow \cup {NoRow}]
    PROVE  Aggregate(of) \in SessionRow
<1> DEFINE present == {g \in Regions : of[g] # NoRow}
<1>1. IsFiniteSet(present)
  BY SnapAssumption, FS_Subset
<1>2. \A g \in present : of[g] \in RegionRow
  OBVIOUS
<1>3. \A g \in present : /\ of[g].total \in Nat
                         /\ of[g].medians \in Seq(Samples)
                         /\ of[g].failure \in BOOLEAN
  BY <1>2, SamplesAreNumbers DEF RegionRow
<1>4. \A g \in present : /\ SumFunction(of[g].medians) \in Nat
                         /\ Len(of[g].medians) \in Nat
  BY <1>3, SumOfList
<1> DEFINE totals == [g \in present |-> of[g].total]
           sums == [g \in present |-> SumFunction(of[g].medians)]
           counts == [g \in present |-> Len(of[g].medians)]
<1>5. /\ SumFunction(totals) \in Nat
      /\ SumFunction(sums) \in Nat
      /\ SumFunction(counts) \in Nat
  <2> HIDE DEF present
  <2>1. SumFunction(totals) \in Nat
    BY <1>1, <1>3, SumOfNaturals
  <2>2. SumFunction(sums) \in Nat
    BY <1>1, <1>4, SumOfNaturals
  <2>3. SumFunction(counts) \in Nat
    BY <1>1, <1>4, SumOfNaturals
  <2> QED
    BY <2>1, <2>2, <2>3
<1>6. Aggregate(of) = [total   |-> SumFunction(totals),
                       avg     |-> [sum |-> SumFunction(sums), count |-> SumFunction(counts)],
                       failure |-> \E g \in present : of[g].failure]
  BY Zenon DEF Aggregate
<1> HIDE DEF totals, sums, counts, present
<1> QED
  BY <1>5, <1>6 DEF SessionRow

--------------------------------------------------------------------------------
(***************************************************************************)
(* The types of the rows, and the bounds. A goroutine that updates has a   *)
(* row to update, and what it adds is of the snapshot it was spawned for.  *)
(***************************************************************************)
MaybeRow == RegionRow \cup {NoRow}

TasksHaveData ==
    /\ snapshot \in [Task -> AppData \cup {NoRow}]
    /\ \A t \in Task : /\ phase[t.run] = "waiting" => worker[t] = "none"
                       /\ worker[t] \notin {"none", "gone"} => snapshot[t] \in AppData

LocalRows ==
    \A t \in Task : /\ region[t] \in MaybeRow
                    /\ \A d \in Stores : storeRegion[t][d] \in MaybeRow

StoredRows ==
    \A d \in Stores : /\ \A s \in Sessions : sessionTable[d][s] \in SessionRow \cup {NoRow}
                      /\ \A j \in Regions \X Sessions : regionTable[d][j] \in MaybeRow

UpdatesHaveRows ==
    \A t \in Task, d \in Stores :
        worker[t] = "region" /\ step[t][d] = "update" =>
            storeRegion[t][d] \in RegionRow /\ regionTable[d][Key(t)] \in RegionRow

RowsWereRead ==
    \A r \in Runs, s \in Sessions, d \in Stores :
        aggregation[r][s][d] = "update" => rows[r][s][d] \in [Regions -> MaybeRow]

FailuresBounded == failures \in [Runs -> 0..MaxFailures]

BusyBounded == \A r \in Runs : IsFiniteSet(Busy(r)) /\ Cardinality(Busy(r)) <= Concurrency

RowIInv == LocalRows /\ StoredRows /\ UpdatesHaveRows /\ RowsWereRead

TypeIInv == TasksHaveData /\ RowIInv /\ FailuresBounded /\ BusyBounded

LEMMA EarlierRowsAreRows == EarlierRow \in RegionRow /\ EmptySession \in SessionRow
<1>1. /\ 0 \in Samples /\ <<>> \in Seq(Samples)
      /\ Append(<<>>, 0) = <<0>> /\ <<0>> \in Seq(Samples)
  BY DEF Samples
<1>2. Average(<<0>>) \in [sum : Nat, count : Nat \ {0}]
  BY <1>1, AverageIsNumber
<1>3. EarlierRow \in RegionRow
  BY <1>1, <1>2 DEF EarlierRow, RegionRow
<1>4. EmptySession \in SessionRow
  BY DEF EmptySession, SessionRow
<1> QED
  BY <1>3, <1>4

LEMMA TypeInit == Init => TypeIInv
<1> SUFFICES ASSUME Init
             PROVE  TypeIInv
  OBVIOUS
<1>1. /\ phase = [r \in Runs |-> "waiting"]
      /\ snapshot = [t \in Task |-> NoRow]
      /\ worker = [t \in Task |-> "none"]
      /\ storeRegion = [t \in Task |-> [d \in Stores |-> NoRow]]
      /\ region = [t \in Task |-> NoRow]
      /\ aggregation = [r \in Runs |-> [s \in Sessions |-> [d \in Stores |-> "none"]]]
      /\ failures = [r \in Runs |-> 0]
  BY DEF Init, NotAggregated, OnStores
<1>2. TasksHaveData
  BY <1>1, TaskFacts DEF TasksHaveData
<1>3. RowIInv
  <2>1. StoredRows
    <3>1. PICK earlier \in SUBSET (Regions \X Sessions) : EarlierTables(earlier)
      BY EarlierRun
    <3> QED
      BY <3>1, EarlierRowsAreRows DEF EarlierTables, StoredRows, MaybeRow
  <2> QED
    BY <1>1, <2>1 DEF RowIInv, LocalRows, UpdatesHaveRows, RowsWereRead, MaybeRow
<1>4. FailuresBounded
  BY <1>1, SnapAssumption DEF FailuresBounded
<1>5. BusyBounded
  <2>1. \A r \in Runs : Busy(r) = {}
    BY <1>1 DEF Busy, TasksOf
  <2> QED
    BY <2>1, FS_EmptySet, SnapAssumption DEF BusyBounded
<1> QED
  BY <1>2, <1>3, <1>4, <1>5 DEF TypeIInv

LEMMA DataStep ==
    ASSUME Shape, TasksHaveData, [Next]_vars
    PROVE  TasksHaveData'
<1> USE DEF TasksHaveData
<1>1. ASSUME NEW r \in Runs, NEW failure \in [Regions \X Sessions -> BOOLEAN \cup {NoRow}],
             StartRun(r, failure)
      PROVE  TasksHaveData'
  <2>1. /\ phase[r] = "waiting" /\ phase' = [phase EXCEPT ![r] = "save"] /\ worker' = worker
        /\ snapshot' = [t \in Task |-> IF t.run # r THEN snapshot[t]
                                       ELSE IF failure[Key(t)] = NoRow THEN NoRow
                                       ELSE [total |-> r, failure |-> failure[Key(t)]]]
    BY <1>1 DEF StartRun
  <2>2. ASSUME NEW t \in Task PROVE snapshot'[t] \in AppData \cup {NoRow}
    <3>1. failure[Key(t)] \in BOOLEAN \cup {NoRow}
      BY TaskFacts
    <3> QED
      BY <2>1, <3>1 DEF AppData
  <2>3. snapshot' \in [Task -> AppData \cup {NoRow}]
    BY <2>1, <2>2
  <2>4. ASSUME NEW t \in Task
        PROVE  /\ phase'[t.run] = "waiting" => worker'[t] = "none"
               /\ worker'[t] \notin {"none", "gone"} => snapshot'[t] \in AppData
    <3>1. t.run = r => worker[t] = "none"
      BY <2>1
    <3>2. t.run # r => snapshot'[t] = snapshot[t] /\ phase'[t.run] = phase[t.run]
      BY <2>1, TaskFacts DEF Shape, ControlShape
    <3> QED
      BY <2>1, <3>1, <3>2
  <2> QED
    BY <2>3, <2>4
<1>2. ASSUME NEW r \in Runs, SaveEnds(r) \/ RunEnds(r)
      PROVE  TasksHaveData'
  <2>1. /\ UNCHANGED <<snapshot, worker>>
        /\ \A q \in Runs : phase'[q] = "waiting" => phase[q] = "waiting"
    BY <1>2 DEF SaveEnds, RunEnds, saveVars, Shape, ControlShape
  <2> QED
    BY <2>1, TaskFacts
<1>3. ASSUME NEW t \in Task, Spawn(t) \/ Worker(t)
      PROVE  TasksHaveData'
  <2>1. /\ UNCHANGED <<phase, snapshot>>
        /\ \E to \in WorkerStates : worker' = [worker EXCEPT ![t] = to]
    BY <1>3 DEF Spawn, Worker, Load, GiveUp, SessionStored, RegionSaved, Leave, WorkerStates
  <2>2. phase[t.run] # "waiting" /\ snapshot[t] \in AppData
    BY <1>3 DEF Spawn, Worker, Load, GiveUp, SessionStored, RegionSaved
  <2> QED
    BY <2>1, <2>2 DEF Shape, ControlShape
<1>4. ASSUME UNCHANGED <<phase, snapshot, worker>>
      PROVE  TasksHaveData'
  BY <1>4
<1>5. \/ UNCHANGED <<phase, snapshot, worker>>
      \/ \E r \in Runs, failure \in [Regions \X Sessions -> BOOLEAN \cup {NoRow}] :
             StartRun(r, failure)
      \/ \E r \in Runs : SaveEnds(r) \/ RunEnds(r)
      \/ \E t \in Task : Spawn(t) \/ Worker(t)
  <2>1. ASSUME NEW t \in Task, NEW d \in Stores, StoreWorker(t, d)
        PROVE  UNCHANGED <<phase, snapshot, worker>>
    BY <2>1 DEF StoreWorker, GetSession, CreateSession, GetRegion, CreateRegion, UpdateRegion,
                StoreCallFails
  <2>2. ASSUME NEW r \in Runs, NEW s \in Sessions,
               Aggregates(r, s) \/ \E d \in Stores : Aggregator(r, s, d)
        PROVE  UNCHANGED <<phase, snapshot, worker>>
    BY <2>2 DEF Aggregates, Aggregator, GetSessionRegions, UpdateSession, AggregationFails,
                saveVars
  <2>3. UNCHANGED vars => UNCHANGED <<phase, snapshot, worker>>
    BY DEF vars, saveVars
  <2> QED
    BY <2>1, <2>2, <2>3, NextCases, Zenon
<1> QED
  BY <1>1, <1>2, <1>3, <1>4, <1>5

LEMMA FailuresStep ==
    ASSUME FailuresBounded, [Next]_vars
    PROVE  FailuresBounded'
<1>1. failures' = failures \/ \E r \in Runs : CountFailure(r)
  <2>1. \A t \in Task : t.run \in Runs
    BY TaskFacts
  <2> QED
    BY <2>1, NextCases
       DEF vars, saveVars, StartRun, SaveEnds, RunEnds, Spawn, Worker, Load, GiveUp, SessionStored,
           RegionSaved, StoreWorker, GetSession, CreateSession, GetRegion, CreateRegion,
           UpdateRegion, StoreCallFails, WriteAnswered, Aggregates, Aggregator,
           GetSessionRegions, UpdateSession, AggregationFails
<1>2. ASSUME NEW r \in Runs, CountFailure(r)
      PROVE  FailuresBounded'
  <2>1. failures[r] < MaxFailures /\ failures' = [failures EXCEPT ![r] = @ + 1]
    BY <1>2, Zenon DEF CountFailure, MayFail
  <2> QED
    BY <2>1, SnapAssumption DEF FailuresBounded
<1>3. CASE failures' = failures
  BY <1>3 DEF FailuresBounded
<1> QED
  BY <1>1, <1>2, <1>3

\* Only Spawn makes a goroutine busy, and it waits for room.
LEMMA BusyStep ==
    ASSUME Shape, BusyBounded, [Next]_vars
    PROVE  BusyBounded'
<1>1. ASSUME NEW r \in Runs, Busy(r)' \subseteq Busy(r)
      PROVE  IsFiniteSet(Busy(r)') /\ Cardinality(Busy(r)') <= Concurrency
  <2>1. IsFiniteSet(Busy(r)) /\ Cardinality(Busy(r)) <= Concurrency
    BY DEF BusyBounded
  <2>2. IsFiniteSet(Busy(r)') /\ Cardinality(Busy(r)') <= Cardinality(Busy(r))
    BY <1>1, <2>1, FS_Subset
  <2>3. Cardinality(Busy(r)) \in Nat /\ Cardinality(Busy(r)') \in Nat
    BY <2>1, <2>2, FS_CardinalityType
  <2> QED
    BY <2>1, <2>2, <2>3, SnapAssumption
<1>2. ASSUME NEW t \in Task, Spawn(t), NEW r \in Runs
      PROVE  IsFiniteSet(Busy(r)') /\ Cardinality(Busy(r)') <= Concurrency
  <2>1. worker' = [worker EXCEPT ![t] = "load"]
    BY <1>2 DEF Spawn
  <2>2. CASE t.run = r
    <3>1. Busy(r)' = Busy(r) \cup {t}
      BY <2>1, <2>2 DEF Busy, TasksOf, Shape, ControlShape
    <3>2. Cardinality(Busy(r)) < Concurrency
      BY <1>2, <2>2 DEF Spawn
    <3>3. IsFiniteSet(Busy(r)) /\ Cardinality(Busy(r)) \in Nat
      BY FS_CardinalityType DEF BusyBounded
    <3>4. t \notin Busy(r)
      BY <1>2 DEF Spawn, Busy
    <3>5. IsFiniteSet(Busy(r)') /\ Cardinality(Busy(r)') = Cardinality(Busy(r)) + 1
      BY <3>1, <3>3, <3>4, FS_AddElement
    <3> QED
      BY <3>2, <3>3, <3>5, SnapAssumption
  <2>3. CASE t.run # r
    <3>1. Busy(r)' \subseteq Busy(r)
      BY <2>1, <2>3 DEF Busy, TasksOf, Shape, ControlShape
    <3> QED
      BY <3>1, <1>1
  <2> QED
    BY <2>2, <2>3
<1>3. ASSUME NEW t \in Task, Worker(t), NEW r \in Runs
      PROVE  Busy(r)' \subseteq Busy(r)
  <2>1. worker[t] \notin {"none", "gone"} /\ \E to : worker' = [worker EXCEPT ![t] = to]
    BY <1>3 DEF Worker, Load, GiveUp, SessionStored, RegionSaved, Leave
  <2> QED
    BY <2>1 DEF Busy, TasksOf, Shape, ControlShape
<1>4. ASSUME UNCHANGED worker, NEW r \in Runs
      PROVE  Busy(r)' \subseteq Busy(r)
  BY <1>4 DEF Busy
<1>5. \/ UNCHANGED worker
      \/ \E t \in Task : Spawn(t)
      \/ \E t \in Task : Worker(t)
  BY NextCases DEF vars, saveVars, StartRun, SaveEnds, RunEnds, StoreWorker, GetSession,
                   CreateSession, GetRegion, CreateRegion, UpdateRegion, StoreCallFails, Aggregates,
                   Aggregator, GetSessionRegions, UpdateSession, AggregationFails
<1>6. ASSUME NEW r \in Runs
      PROVE  IsFiniteSet(Busy(r)') /\ Cardinality(Busy(r)') <= Concurrency
  BY <1>1, <1>2, <1>3, <1>4, <1>5
<1> QED
  BY <1>6 DEF BusyBounded

LEMMA NewRowsAreRows ==
    ASSUME NEW t \in Task, snapshot[t] \in AppData
    PROVE  /\ NewRow(t) \in RegionRow
           /\ \A row, read \in RegionRow : UpdatedRow(t, row, read) \in RegionRow
<1>1. /\ t.run \in Samples /\ snapshot[t].total \in Samples
      /\ snapshot[t].failure \in BOOLEAN
  BY TaskFacts DEF AppData, Samples
<1>2. NewRow(t) \in RegionRow
  <2>1. <<>> \in Seq(Samples) /\ Append(<<>>, t.run) = <<t.run>> /\ <<t.run>> \in Seq(Samples)
    BY <1>1
  <2>2. Average(<<t.run>>) \in [sum : Nat, count : Nat \ {0}]
    BY <1>1, <2>1, AverageIsNumber
  <2> QED
    BY <1>1, <2>1, <2>2 DEF NewRow, RegionRow
<1>3. ASSUME NEW row \in RegionRow, NEW read \in RegionRow
      PROVE  UpdatedRow(t, row, read) \in RegionRow
  <2>1. /\ row.medians \in Seq(Samples) /\ read.medians \in Seq(Samples)
        /\ read.failure \in BOOLEAN
    BY DEF RegionRow
  <2>2. Append(row.medians, t.run) \in Seq(Samples)
    BY <1>1, <2>1
  <2>3. Average(Append(read.medians, t.run)) \in [sum : Nat, count : Nat \ {0}]
    BY <1>1, <2>1, AverageIsNumber
  <2>4. (snapshot[t].failure \/ read.failure) \in BOOLEAN
    OBVIOUS
  <2> QED
    BY <1>1, <2>2, <2>3, <2>4, Zenon DEF UpdatedRow, RegionRow
<1> QED
  BY <1>2, <1>3

\* A step of the goroutine of a task.
LEMMA RowsWorker ==
    ASSUME Shape, TasksHaveData, RowIInv, NEW t \in Task, Spawn(t) \/ Worker(t)
    PROVE  RowIInv'
<1> USE DEF RowIInv
<1>1. /\ UNCHANGED <<sessionTable, regionTable, aggregation, rows>>
      /\ \A u \in Task \ {t} : /\ region'[u] = region[u] /\ storeRegion'[u] = storeRegion[u]
                               /\ worker'[u] = worker[u] /\ step'[u] = step[u]
  BY DEF Spawn, Worker, Load, GiveUp, SessionStored, RegionSaved, Leave, aggregateVars,
         Shape, ControlShape, LocalShape
<1>2. region'[t] \in {region[t], NewRow(t), NoRow}
  BY DEF Spawn, Worker, Load, GiveUp, SessionStored, RegionSaved, Leave, Shape, LocalShape
<1>3. NewRow(t) \in RegionRow \/ region'[t] \in MaybeRow
  <2>1. Worker(t) => worker[t] \notin {"none", "gone"}
    BY DEF Worker, Load, GiveUp, SessionStored, RegionSaved
  <2>2. Spawn(t) => region' = region
    BY DEF Spawn
  <2>3. region[t] \in MaybeRow
    BY DEF LocalRows
  <2> QED
    BY <2>1, <2>2, <2>3, NewRowsAreRows DEF TasksHaveData
<1>4. region'[t] \in MaybeRow
  BY <1>2, <1>3 DEF LocalRows, MaybeRow
<1>5. \A d \in Stores : storeRegion'[t][d] \in {storeRegion[t][d], NoRow}
  BY DEF Spawn, Worker, Load, GiveUp, SessionStored, RegionSaved, Leave, OnStores, Shape, LocalShape
<1>6. worker'[t] = "region" => \A d \in Stores : step'[t][d] = "get"
  BY DEF Spawn, Worker, Load, GiveUp, SessionStored, RegionSaved, Leave, OnStores, Shape,
         ControlShape
<1>7. LocalRows'
  <2>1. ASSUME NEW u \in Task, NEW d \in Stores
        PROVE  region'[u] \in MaybeRow /\ storeRegion'[u][d] \in MaybeRow
    BY <1>1, <1>4, <1>5 DEF LocalRows, MaybeRow
  <2>2. Stores = {} => \A u \in Task : region'[u] \in MaybeRow
    BY <1>1, <1>4 DEF LocalRows
  <2> QED
    BY <2>1, <2>2 DEF LocalRows
<1>8. UpdatesHaveRows'
  BY <1>1, <1>6 DEF UpdatesHaveRows, Key
<1>9. StoredRows' /\ RowsWereRead'
  BY <1>1 DEF StoredRows, RowsWereRead
<1> QED
  BY <1>7, <1>8, <1>9

\* A store call: it writes at most one row of a table.
LEMMA RowsStoreWorker ==
    ASSUME Shape, TasksHaveData, RowIInv, NEW t \in Task, NEW d \in Stores, StoreWorker(t, d)
    PROVE  RowIInv'
<1> USE DEF RowIInv
<1>0. t.session \in Sessions /\ Key(t) \in Regions \X Sessions
  BY TaskFacts
<1>1. UNCHANGED <<worker, aggregation, rows>>
  BY DEF StoreWorker, GetSession, CreateSession, GetRegion, CreateRegion, UpdateRegion,
         StoreCallFails, aggregateVars
<1>2. RowsWereRead'
  BY <1>1 DEF RowsWereRead
<1>3. ASSUME UNCHANGED sessionTable
                 \/ sessionTable' = [sessionTable EXCEPT ![d][t.session] = EmptySession]
      PROVE  \A e \in Stores, s \in Sessions : sessionTable'[e][s] \in SessionRow \cup {NoRow}
  <2>1. EmptySession \in SessionRow
    BY DEF EmptySession, SessionRow
  <2> QED
    BY <1>3, <2>1 DEF StoredRows, Shape, TableShape
<1>4. ASSUME NEW row \in RegionRow, regionTable' = [regionTable EXCEPT ![d][Key(t)] = row]
      PROVE  \A e \in Stores, j \in Regions \X Sessions :
                 /\ regionTable'[e][j] \in MaybeRow
                 /\ regionTable[e][j] \in RegionRow => regionTable'[e][j] \in RegionRow
  BY <1>0, <1>4 DEF StoredRows, MaybeRow, Shape, TableShape
<1>5. \A e \in Stores, j \in Regions \X Sessions : regionTable[e][j] \in MaybeRow
  BY DEF StoredRows
<1>6. \A u \in Task, e \in Stores :
          (u # t \/ e # d) => /\ step'[u][e] = step[u][e]
                              /\ storeRegion'[u][e] = storeRegion[u][e]
  <2>1. \E to : step' = [step EXCEPT ![t][d] = to]
    BY DEF StoreWorker, GetSession, CreateSession, GetRegion, CreateRegion, UpdateRegion,
           StoreCallFails, WriteAnswered, Goto
  <2>2. storeRegion' = storeRegion \/ \E x : storeRegion' = [storeRegion EXCEPT ![t][d] = x]
    BY DEF StoreWorker, GetSession, CreateSession, GetRegion, CreateRegion, UpdateRegion,
           StoreCallFails
  <2> QED
    BY <2>1, <2>2 DEF Shape, ControlShape, LocalShape
\* What a step of the goroutine has to respect.
<1> DEFINE Kept ==
        /\ \A e \in Stores, j \in Regions \X Sessions :
               /\ regionTable'[e][j] \in MaybeRow
               /\ regionTable[e][j] \in RegionRow => regionTable'[e][j] \in RegionRow
        /\ \A u \in Task : region'[u] \in MaybeRow
        /\ storeRegion'[t][d] \in MaybeRow
        /\ worker[t] = "region" /\ step'[t][d] = "update" =>
               storeRegion'[t][d] \in RegionRow /\ regionTable'[d][Key(t)] \in RegionRow
<1>7. ASSUME Kept, UNCHANGED sessionTable
                   \/ sessionTable' = [sessionTable EXCEPT ![d][t.session] = EmptySession]
      PROVE  RowIInv'
  <2>1. StoredRows'
    BY <1>3, <1>7 DEF StoredRows
  <2>2. LocalRows'
    BY <1>6, <1>7 DEF LocalRows
  <2>3. UpdatesHaveRows'
    <3> SUFFICES ASSUME NEW u \in Task, NEW e \in Stores,
                        worker'[u] = "region", step'[u][e] = "update"
                 PROVE  storeRegion'[u][e] \in RegionRow /\ regionTable'[e][Key(u)] \in RegionRow
      BY DEF UpdatesHaveRows, Key
    <3>1. CASE u = t /\ e = d
      BY <1>1, <1>7, <3>1
    <3>2. CASE u # t \/ e # d
      <4>1. storeRegion[u][e] \in RegionRow /\ regionTable[e][Key(u)] \in RegionRow
        BY <1>1, <1>6, <3>2 DEF UpdatesHaveRows
      <4>2. Key(u) \in Regions \X Sessions
        BY TaskFacts
      <4> QED
        BY <1>6, <1>7, <3>2, <4>1, <4>2
    <3> QED
      BY <3>1, <3>2
  <2> QED
    BY <1>2, <2>1, <2>2, <2>3
<1>8. /\ \A u \in Task : region[u] \in MaybeRow
      /\ storeRegion[t][d] \in MaybeRow
      /\ regionTable[d][Key(t)] \in MaybeRow
  BY <1>0 DEF LocalRows, StoredRows
<1>9. /\ worker[t] \in WorkerStates /\ t \in DOMAIN step /\ d \in DOMAIN step[t]
      /\ t \in DOMAIN storeRegion /\ d \in DOMAIN storeRegion[t] /\ t \in DOMAIN region
      /\ d \in DOMAIN regionTable /\ Key(t) \in DOMAIN regionTable[d]
  BY <1>0 DEF Shape, ControlShape, LocalShape, TableShape
<1>10. CASE GetSession(t, d) \/ CreateSession(t, d)
  <2>1. worker[t] = "session" /\ UNCHANGED <<region, storeRegion, regionTable>>
    BY <1>10 DEF GetSession, CreateSession
  <2>2. UNCHANGED sessionTable
            \/ sessionTable' = [sessionTable EXCEPT ![d][t.session] = EmptySession]
    BY <1>10 DEF GetSession, CreateSession
  <2>3. Kept
    BY <1>5, <1>8, <2>1
  <2> QED
    BY <1>7, <2>2, <2>3
<1>11. CASE GetRegion(t, d)
  <2>1. /\ UNCHANGED <<sessionTable, regionTable, region>>
        /\ storeRegion' = [storeRegion EXCEPT ![t][d] = regionTable[d][Key(t)]]
        /\ Goto(t, d, IF regionTable[d][Key(t)] = NoRow THEN "create" ELSE "update")
    BY <1>11 DEF GetRegion
  <2>2. storeRegion'[t][d] = regionTable[d][Key(t)]
    BY <1>9, <2>1
  <2>3. step'[t][d] = "update" => regionTable[d][Key(t)] \in RegionRow
    BY <1>8, <1>9, <2>1 DEF Goto, MaybeRow
  <2>4. Kept
    BY <1>5, <1>8, <2>1, <2>2, <2>3
  <2> QED
    BY <1>7, <2>1, <2>4
<1>12. CASE CreateRegion(t, d)
  <2>1. /\ UNCHANGED <<sessionTable, region, storeRegion>>
        /\ \/ UNCHANGED regionTable
           \/ region[t] # NoRow /\ regionTable' = [regionTable EXCEPT ![d][Key(t)] = region[t]]
    BY <1>12 DEF CreateRegion
  <2>2. step'[t][d] \in {"ok", "error"}
    BY <1>9, <1>12 DEF CreateRegion, Goto, WriteAnswered
  <2>3. region[t] # NoRow => region[t] \in RegionRow
    BY <1>8 DEF MaybeRow
  <2>4. \A e \in Stores, j \in Regions \X Sessions :
            /\ regionTable'[e][j] \in MaybeRow
            /\ regionTable[e][j] \in RegionRow => regionTable'[e][j] \in RegionRow
    BY <1>4, <1>5, <2>1, <2>3
  <2>5. Kept
    BY <1>8, <2>1, <2>2, <2>4
  <2> QED
    BY <1>7, <2>1, <2>5
<1>13. CASE UpdateRegion(t, d)
  <2> DEFINE row == UpdatedRow(t, regionTable[d][Key(t)], storeRegion[t][d])
  <2>1. /\ worker[t] = "region" /\ step[t][d] = "update"
        /\ UNCHANGED <<sessionTable, storeRegion>>
        /\ regionTable' = [regionTable EXCEPT ![d][Key(t)] = row]
        /\ WriteAnswered(t, d)
        /\ region' = [region EXCEPT ![t] = IF step'[t][d] = "ok" THEN row ELSE NoRow]
    BY <1>13 DEF UpdateRegion
  <2>2. row \in RegionRow
    <3>1. /\ storeRegion[t][d] \in RegionRow /\ regionTable[d][Key(t)] \in RegionRow
          /\ snapshot[t] \in AppData
      BY <2>1 DEF UpdatesHaveRows, TasksHaveData
    <3> QED
      BY <3>1, NewRowsAreRows
  <2> HIDE DEF row
  <2>3. step'[t][d] \in {"ok", "error"}
    BY <1>9, <2>1 DEF Goto, WriteAnswered
  <2>4. \A u \in Task : region'[u] \in MaybeRow
    BY <1>8, <1>9, <2>1, <2>2 DEF MaybeRow
  <2>5. Kept
    BY <1>4, <1>8, <2>1, <2>2, <2>3, <2>4
  <2> QED
    BY <1>7, <2>1, <2>5
<1>14. CASE StoreCallFails(t, d)
  <2>1. /\ UNCHANGED <<sessionTable, regionTable, storeRegion>>
        /\ step' = [step EXCEPT ![t][d] = "error"]
        /\ region' = [region EXCEPT ![t] = IF step[t][d] = "update" THEN NoRow ELSE @]
    BY <1>14 DEF StoreCallFails, Goto
  <2>2. step'[t][d] = "error"
    BY <1>9, <2>1
  <2>3. \A u \in Task : region'[u] \in MaybeRow
    BY <1>8, <1>9, <2>1 DEF MaybeRow
  <2>4. Kept
    BY <1>5, <1>8, <2>1, <2>2, <2>3
  <2> QED
    BY <1>7, <2>1, <2>4
<1> QED
  BY <1>10, <1>11, <1>12, <1>13, <1>14 DEF StoreWorker

LEMMA RowsAggregator ==
    ASSUME Shape, RowIInv, NEW r \in Runs, NEW s \in Sessions,
           Aggregates(r, s) \/ \E d \in Stores : Aggregator(r, s, d)
    PROVE  RowIInv'
<1> USE DEF RowIInv
<1>1. UNCHANGED <<worker, step, storeRegion, region, regionTable>>
  BY DEF Aggregates, Aggregator, GetSessionRegions, UpdateSession, AggregationFails, saveVars
<1>2. LocalRows' /\ UpdatesHaveRows'
  BY <1>1 DEF LocalRows, UpdatesHaveRows, Key
<1>3. \A e \in Stores, j \in Regions \X Sessions : regionTable'[e][j] \in MaybeRow
  BY <1>1 DEF StoredRows
<1>4. CASE Aggregates(r, s)
  <2>1. /\ UNCHANGED <<rows, sessionTable>>
        /\ aggregation' = [aggregation EXCEPT ![r][s] = [d \in Stores |-> "get"]]
    BY <1>4 DEF Aggregates, OnStores
  <2>2. RowsWereRead'
    BY <2>1 DEF RowsWereRead, Shape, ControlShape
  <2> QED
    BY <1>2, <1>3, <2>1, <2>2 DEF StoredRows
<1>5. ASSUME NEW d \in Stores, Aggregator(r, s, d)
      PROVE  RowIInv'
  <2>1. PICK to \in {"update", "ok", "error"},
             read \in {NoRow} \cup {RowsThatCame(d, s, come) : come \in SUBSET Regions} :
            /\ aggregation' = [aggregation EXCEPT ![r][s][d] = to]
            /\ rows' = [rows EXCEPT ![r][s][d] = read]
            /\ to = "update" => \E come \in SUBSET Regions : read = RowsThatCame(d, s, come)
            /\ \/ UNCHANGED sessionTable
               \/ /\ aggregation[r][s][d] = "update"
                  /\ sessionTable' = [sessionTable EXCEPT ![d][s] = Aggregate(rows[r][s][d])]
    <3>1. CASE GetSessionRegions(r, s, d)
      <4>1. PICK come \in SUBSET Regions :
                rows' = [rows EXCEPT ![r][s][d] = RowsThatCame(d, s, come)]
        BY <3>1 DEF GetSessionRegions
      <4>2. /\ aggregation' = [aggregation EXCEPT ![r][s][d] = "update"]
            /\ UNCHANGED sessionTable
        BY <3>1 DEF GetSessionRegions
      <4> QED
        BY <4>1, <4>2
    <3>2. CASE UpdateSession(r, s, d)
      BY <3>2 DEF UpdateSession
    <3>3. CASE AggregationFails(r, s, d)
      BY <3>3 DEF AggregationFails
    <3> QED
      BY <1>5, <3>1, <3>2, <3>3 DEF Aggregator
  <2>2. to = "update" => read \in [Regions -> MaybeRow]
    <3>1. \A g \in Regions : regionTable[d][<<g, s>>] \in MaybeRow
      BY DEF StoredRows
    <3>2. \A come \in SUBSET Regions : RowsThatCame(d, s, come) \in [Regions -> MaybeRow]
      BY <3>1 DEF RowsThatCame, MaybeRow
    <3> QED
      BY <2>1, <3>2
  <2>3. RowsWereRead'
    BY <2>1, <2>2 DEF RowsWereRead, Shape, ControlShape, LocalShape
  <2>4. aggregation[r][s][d] = "update" => Aggregate(rows[r][s][d]) \in SessionRow
    BY AggregateIsRow DEF RowsWereRead, MaybeRow
  <2>5. \A e \in Stores, x \in Sessions : sessionTable'[e][x] \in SessionRow \cup {NoRow}
    <3>1. \A e \in Stores, x \in Sessions : sessionTable[e][x] \in SessionRow \cup {NoRow}
      BY DEF StoredRows
    <3>2. UNCHANGED sessionTable \/ \E row \in SessionRow :
              sessionTable' = [sessionTable EXCEPT ![d][s] = row]
      BY <2>1, <2>4
    <3> QED
      BY <3>1, <3>2 DEF Shape, TableShape
  <2> QED
    BY <1>2, <1>3, <2>3, <2>5 DEF StoredRows
<1> QED
  BY <1>4, <1>5

LEMMA TypeStep ==
    ASSUME Shape, TypeIInv, [Next]_vars
    PROVE  TypeIInv'
<1> USE DEF TypeIInv
<1>1. TasksHaveData' /\ FailuresBounded' /\ BusyBounded'
  BY DataStep, FailuresStep, BusyStep
<1>2. ASSUME UNCHANGED <<worker, step, storeRegion, region, aggregation, rows, sessionTable,
                         regionTable>>
      PROVE  RowIInv'
  BY <1>2 DEF RowIInv, LocalRows, StoredRows, UpdatesHaveRows, RowsWereRead, Key
<1>3. ASSUME NEW r \in Runs,
             SaveEnds(r) \/ RunEnds(r)
                 \/ \E failure \in [Regions \X Sessions -> BOOLEAN \cup {NoRow}] :
                        StartRun(r, failure)
      PROVE  RowIInv'
  BY <1>2, <1>3 DEF SaveEnds, RunEnds, StartRun, saveVars, aggregateVars
<1>4. UNCHANGED vars => RowIInv'
  BY <1>2 DEF vars, saveVars, aggregateVars
<1>5. RowIInv'
  BY <1>3, <1>4, NextCases, RowsWorker, RowsStoreWorker, RowsAggregator, Zenon
<1> QED
  BY <1>1, <1>5

LEMMA TypeHolds == Spec => []TypeIInv
<1>1. Shape /\ TypeIInv /\ [Next]_vars => TypeIInv'
  BY TypeStep
<1> QED
  BY TypeInit, ShapeHolds, <1>1, PTL DEF Spec

\* The variables have their types, however the runs overlap: every row is a
\* row, with numbers where numbers belong, a run never has more goroutines at
\* work than Concurrency, and what it aggregates it has read.
THEOREM TypeCorrect == Spec => []TypeOK
<1>1. Shape /\ TypeIInv => TypeOK
  BY DEF TypeIInv, TasksHaveData, RowIInv, LocalRows, StoredRows, MaybeRow, FailuresBounded,
         BusyBounded, Shape, ControlShape, HistoryShape, TypeOK, Phases, WorkerStates, StepStates
<1> QED
  BY ShapeHolds, TypeHolds, <1>1, PTL

--------------------------------------------------------------------------------
(***************************************************************************)
(* Where the goroutines of a run are is tied to its phase, and which runs  *)
(* were at work with it is known: those that had not ended when it began,  *)
(* and those that begin later.                                             *)
(***************************************************************************)
InOrder ==
    \A q, r \in Runs :
        q < r /\ phase[r] # "waiting" => /\ phase[q] # "waiting"
                                         /\ phase[q] = "done" \/ q \in running[r]

Active(t) == worker[t] \notin {"none", "gone"}

WorkersInSave ==
    \A t \in Task : /\ Active(t) => phase[t.run] = "save"
                    /\ phase[t.run] = "waiting" => worker[t] = "none"
                    /\ worker[t] = "region" => t.session \in sessionsInStore[t.run]

\* wg.Wait() returned: no goroutine is missing, and none is left.
AllTasksEnded ==
    \A t \in Task : phase[t.run] \in {"aggregate", "done"} => snapshot[t] = NoRow \/ worker[t] = "gone"

AggregatesStored ==
    \A r \in Runs, s \in Sessions, d \in Stores :
        aggregation[r][s][d] # "none" => /\ phase[r] \in {"aggregate", "done"}
                                         /\ s \in sessionsInStore[r]

OutdatedStarted == \A x \in outdated : aggregation[x[1]][x[2]][x[3]] # "none"

AggregationsEnded ==
    \A r \in Runs, s \in Sessions, d \in Stores :
        phase[r] = "done" => /\ aggregation[r][s][d] \in {"none", "ok", "error"}
                             /\ s \in sessionsInStore[r] => aggregation[r][s][d] # "none"

Control == /\ InOrder /\ WorkersInSave /\ AllTasksEnded
           /\ AggregatesStored /\ OutdatedStarted /\ AggregationsEnded

LEMMA ControlInit == Init => Control
<1> SUFFICES ASSUME Init
             PROVE  Control
  OBVIOUS
<1>1. /\ phase = [r \in Runs |-> "waiting"]
      /\ worker = [t \in Task |-> "none"]
      /\ aggregation = [r \in Runs |-> [s \in Sessions |-> [d \in Stores |-> "none"]]]
      /\ outdated = {}
  BY DEF Init, NotAggregated, OnStores
<1>2. InOrder /\ WorkersInSave /\ AllTasksEnded
  BY <1>1, TaskFacts DEF InOrder, WorkersInSave, Active, AllTasksEnded
<1>3. AggregatesStored /\ OutdatedStarted /\ AggregationsEnded
  BY <1>1 DEF AggregatesStored, OutdatedStarted, AggregationsEnded
<1> QED
  BY <1>2, <1>3 DEF Control

\* The steps of the main goroutines that start a run or end a phase of it.
LEMMA ControlRun ==
    ASSUME Shape, Control, NEW r \in Runs,
           SaveEnds(r) \/ RunEnds(r)
               \/ \E failure \in [Regions \X Sessions -> BOOLEAN \cup {NoRow}] : StartRun(r, failure)
    PROVE  Control'
<1> USE DEF Control, Shape
<1>1. UNCHANGED <<worker, sessionsInStore, aggregation, outdated>>
  BY DEF SaveEnds, RunEnds, StartRun, saveVars, aggregateVars, historyVars, lateVars
<1>2. CASE \E failure \in [Regions \X Sessions -> BOOLEAN \cup {NoRow}] : StartRun(r, failure)
  <2>1. /\ phase[r] = "waiting"
        /\ \A q \in Runs : q < r => phase[q] # "waiting"
        /\ phase' = [phase EXCEPT ![r] = "save"]
        /\ running' = [running EXCEPT ![r] = {q \in Runs : phase[q] \in {"save", "aggregate"}}]
        /\ \A t \in Task : t.run # r => snapshot'[t] = snapshot[t]
    BY <1>2 DEF StartRun
  <2>2. InOrder'
    <3> SUFFICES ASSUME NEW p \in Runs, NEW q \in Runs, p < q, phase'[q] # "waiting"
                 PROVE  phase'[p] # "waiting" /\ (phase'[p] = "done" \/ p \in running'[q])
      BY DEF InOrder
    <3>1. p # q
      BY SnapAssumption
    <3>2. CASE q = r
      <4>1. phase'[p] = phase[p] /\ phase[p] \in {"save", "aggregate", "done"}
        BY <2>1, <3>1, <3>2 DEF ControlShape, Phases
      <4>2. running'[q] = {x \in Runs : phase[x] \in {"save", "aggregate"}}
        BY <2>1, <3>2 DEF HistoryShape
      <4> QED
        BY <4>1, <4>2
    <3>3. CASE q # r
      <4>1. phase'[q] = phase[q] /\ running'[q] = running[q]
        BY <2>1, <3>3 DEF ControlShape, HistoryShape
      <4>2. phase[p] # "waiting" /\ (phase[p] = "done" \/ p \in running[q])
        BY <4>1 DEF InOrder
      <4>3. phase'[p] = phase[p]
        BY <2>1, <4>2 DEF ControlShape
      <4> QED
        BY <4>1, <4>2, <4>3
    <3> QED
      BY <3>2, <3>3
  <2>3. \A t \in Task : /\ t.run \in Runs
                      /\ phase'[t.run] = IF t.run = r THEN "save" ELSE phase[t.run]
    BY <2>1, TaskFacts DEF ControlShape
  <2>4. WorkersInSave'
    <3>1. \A t \in Task : t.run = r => worker[t] = "none"
      BY <2>1 DEF WorkersInSave
    <3> QED
      BY <1>1, <2>3, <3>1 DEF WorkersInSave, Active
  <2>5. AllTasksEnded'
    BY <1>1, <2>3, <2>1 DEF AllTasksEnded
  <2>6. AggregatesStored' /\ OutdatedStarted' /\ AggregationsEnded'
    BY <1>1, <2>1 DEF AggregatesStored, OutdatedStarted, AggregationsEnded, ControlShape
  <2> QED
    BY <2>2, <2>4, <2>5, <2>6
<1>3. CASE SaveEnds(r)
  <2>1. /\ phase[r] = "save" /\ phase' = [phase EXCEPT ![r] = "aggregate"]
        /\ UNCHANGED <<snapshot, running>>
        /\ \A t \in Task : t.run = r => /\ snapshot[t] = NoRow \/ worker[t] # "none"
                                        /\ worker[t] \in {"none", "gone"}
    BY <1>3 DEF SaveEnds, AllEnded, AllSpawned, Busy, TasksOf, saveVars, historyVars, begunVars
  <2>2. InOrder'
    BY <2>1 DEF InOrder, ControlShape
  <2>3. WorkersInSave' /\ AllTasksEnded'
    BY <1>1, <2>1, TaskFacts DEF WorkersInSave, Active, AllTasksEnded, ControlShape
  <2>4. AggregatesStored' /\ OutdatedStarted' /\ AggregationsEnded'
    BY <1>1, <2>1 DEF AggregatesStored, OutdatedStarted, AggregationsEnded, ControlShape
  <2> QED
    BY <2>2, <2>3, <2>4
<1>4. CASE RunEnds(r)
  <2>1. /\ phase[r] = "aggregate" /\ phase' = [phase EXCEPT ![r] = "done"]
        /\ UNCHANGED <<snapshot, running>>
        /\ \A s \in sessionsInStore[r], d \in Stores : aggregation[r][s][d] \in {"ok", "error"}
    BY <1>4 DEF RunEnds, Ended, saveVars, historyVars, begunVars
  <2>2. InOrder'
    BY <2>1 DEF InOrder, ControlShape
  <2>3. WorkersInSave' /\ AllTasksEnded'
    BY <1>1, <2>1, TaskFacts DEF WorkersInSave, Active, AllTasksEnded, ControlShape
  <2>4. \A q \in Runs : phase'[q] = IF q = r THEN "done" ELSE phase[q]
    BY <2>1 DEF ControlShape
  <2>5. \A s \in Sessions, d \in Stores :
            /\ aggregation[r][s][d] \in {"none", "ok", "error"}
            /\ s \in sessionsInStore[r] => aggregation[r][s][d] # "none"
    BY <2>1 DEF AggregatesStored
  <2>6. AggregatesStored' /\ OutdatedStarted'
    BY <1>1, <2>1, <2>4 DEF AggregatesStored, OutdatedStarted
  <2>7. AggregationsEnded'
    BY <1>1, <2>4, <2>5 DEF AggregationsEnded
  <2> QED
    BY <2>2, <2>3, <2>6, <2>7
<1> QED
  BY <1>2, <1>3, <1>4

LEMMA ControlWorker ==
    ASSUME Shape, Control, NEW t \in Task, Spawn(t) \/ Worker(t)
    PROVE  Control'
<1> USE DEF Control, Shape
<1>1. /\ UNCHANGED <<phase, snapshot, aggregation, running, outdated>>
      /\ phase[t.run] = "save"
      /\ \E to \in WorkerStates : worker' = [worker EXCEPT ![t] = to]
  BY DEF Spawn, Worker, Load, GiveUp, SessionStored, RegionSaved, Leave, aggregateVars,
         historyVars, begunVars, lateVars, WorkersInSave, Active, WorkerStates
<1>2. \A r \in Runs : /\ r # t.run => sessionsInStore'[r] = sessionsInStore[r]
                      /\ sessionsInStore[r] \subseteq sessionsInStore'[r]
  BY TaskFacts DEF Spawn, Worker, Load, GiveUp, SessionStored, RegionSaved, ControlShape
<1>3. worker'[t] = "region" => t.session \in sessionsInStore'[t.run]
  BY TaskFacts DEF Spawn, Worker, Load, GiveUp, SessionStored, RegionSaved, Leave, ControlShape
<1>4. InOrder' /\ AllTasksEnded'
  BY <1>1, TaskFacts DEF InOrder, AllTasksEnded, ControlShape
<1>5. WorkersInSave'
  BY <1>1, <1>2, <1>3, TaskFacts DEF WorkersInSave, Active, ControlShape
<1>6. AggregatesStored' /\ OutdatedStarted'
  BY <1>1, <1>2 DEF AggregatesStored, OutdatedStarted
<1>7. AggregationsEnded'
  <2>1. \A r \in Runs : phase[r] = "done" => sessionsInStore'[r] = sessionsInStore[r]
    BY <1>1, <1>2
  <2> QED
    BY <1>1, <2>1 DEF AggregationsEnded
<1> QED
  BY <1>4, <1>5, <1>6, <1>7

\* A store call may overtake an aggregation, one that is under way.
LEMMA ControlStoreWorker ==
    ASSUME Shape, Control, NEW t \in Task, NEW d \in Stores, StoreWorker(t, d)
    PROVE  Control'
<1> USE DEF Control, Shape
<1>1. UNCHANGED <<phase, snapshot, worker, sessionsInStore, aggregation, running>>
  BY DEF StoreWorker, GetSession, CreateSession, GetRegion, CreateRegion, UpdateRegion,
         StoreCallFails, aggregateVars, historyVars, begunVars
<1>2. \A x \in outdated' : x \in outdated \/ aggregation[x[1]][x[2]][x[3]] = "update"
  BY DEF StoreWorker, GetSession, CreateSession, GetRegion, CreateRegion, UpdateRegion,
         StoreCallFails, historyVars, lateVars, Overtake
<1>3. OutdatedStarted'
  BY <1>1, <1>2 DEF OutdatedStarted
<1> QED
  BY <1>1, <1>3 DEF InOrder, WorkersInSave, Active, AllTasksEnded, AggregatesStored, AggregationsEnded

LEMMA ControlAggregator ==
    ASSUME Shape, Control, NEW r \in Runs, NEW s \in Sessions,
           Aggregates(r, s) \/ \E d \in Stores : Aggregator(r, s, d)
    PROVE  Control'
<1> USE DEF Control, Shape
<1>1. /\ UNCHANGED <<phase, snapshot, worker, sessionsInStore, running>>
      /\ phase[r] = "aggregate" /\ s \in sessionsInStore[r]
  BY DEF Aggregates, Aggregator, GetSessionRegions, UpdateSession, AggregationFails, saveVars,
         historyVars, begunVars, AggregatesStored, AggregationsEnded, ControlShape
<1>2. \A q \in Runs, x \in Sessions, d \in Stores :
          /\ ~(q = r /\ x = s) => aggregation'[q][x][d] = aggregation[q][x][d]
          /\ aggregation[q][x][d] # "none" => aggregation'[q][x][d] # "none"
  <2>1. CASE Aggregates(r, s)
    <3>1. \A d \in Stores : aggregation[r][s][d] = "none"
      BY <2>1 DEF Aggregates, OnStores
    <3> QED
      BY <2>1, <3>1 DEF Aggregates, ControlShape
  <2>2. ASSUME NEW d \in Stores, Aggregator(r, s, d)
        PROVE  \A q \in Runs, x \in Sessions, e \in Stores :
                   /\ ~(q = r /\ x = s) => aggregation'[q][x][e] = aggregation[q][x][e]
                   /\ aggregation[q][x][e] # "none" => aggregation'[q][x][e] # "none"
    <3>1. PICK to \in {"update", "ok", "error"} : aggregation' = [aggregation EXCEPT ![r][s][d] = to]
      BY <2>2 DEF Aggregator, GetSessionRegions, UpdateSession, AggregationFails
    <3> QED
      BY <3>1 DEF ControlShape
  <2> QED
    BY <2>1, <2>2
<1>3. outdated' \subseteq outdated
          \cup {<<r, s, d>> : d \in {e \in Stores : aggregation'[r][s][e] # "none"}}
  <2>1. CASE Aggregates(r, s)
    BY <2>1 DEF Aggregates, historyVars, lateVars
  <2>2. ASSUME NEW d \in Stores, GetSessionRegions(r, s, d)
        PROVE  outdated' \subseteq outdated \cup {<<r, s, d>>} /\ aggregation'[r][s][d] = "update"
    BY <2>2 DEF GetSessionRegions, ControlShape
  <2>3. ASSUME NEW d \in Stores, UpdateSession(r, s, d) \/ AggregationFails(r, s, d)
        PROVE  outdated' = outdated
    BY <2>3 DEF UpdateSession, AggregationFails, historyVars, lateVars
  <2> QED
    BY <2>1, <2>2, <2>3 DEF Aggregator
<1>4. OutdatedStarted'
  <2> SUFFICES ASSUME NEW x \in outdated'
               PROVE  aggregation'[x[1]][x[2]][x[3]] # "none"
    BY DEF OutdatedStarted
  <2>1. CASE x \in outdated
    BY <1>2, <2>1 DEF OutdatedStarted, HistoryShape
  <2>2. CASE x \notin outdated
    BY <1>3, <2>2
  <2> QED
    BY <2>1, <2>2
<1>5. InOrder' /\ WorkersInSave' /\ AllTasksEnded'
  BY <1>1 DEF InOrder, WorkersInSave, Active, AllTasksEnded
<1>6. AggregatesStored' /\ AggregationsEnded'
  BY <1>1, <1>2 DEF AggregatesStored, AggregationsEnded
<1> QED
  BY <1>4, <1>5, <1>6

LEMMA ControlStep ==
    ASSUME Shape, Control, [Next]_vars
    PROVE  Control'
<1>1. CASE UNCHANGED vars
  BY <1>1 DEF vars, saveVars, aggregateVars, historyVars, begunVars, lateVars, Control, InOrder,
              WorkersInSave, Active, AllTasksEnded, AggregatesStored, OutdatedStarted, AggregationsEnded
<1> QED
  BY <1>1, NextCases, ControlRun, ControlWorker, ControlStoreWorker, ControlAggregator

LEMMA ControlHolds == Spec => []Control
<1>1. Shape /\ Control /\ [Next]_vars => Control'
  BY ControlStep
<1> QED
  BY ControlInit, ShapeHolds, <1>1, PTL DEF Spec

--------------------------------------------------------------------------------
(***************************************************************************)
(* The region rows. What a goroutine read of its row is still so when it   *)
(* writes, unless it was overtaken; the goroutines of its own run keep off *)
(* its row. So an average is that of its list, or the latest sample is one *)
(* that an overtaken goroutine took.                                       *)
(***************************************************************************)
Lists(row, r) == r \in Range(row.medians)

\* A row for the key j, in a table or in the variable region, when the
\* goroutines in late have been overtaken.
RowIsSound(row, j, late) ==
    \/ row.avg = Average(row.medians)
    \/ \E e \in Stores : <<LatestSampler(j, row), e, "update">> \in late

RowsAreSound ==
    \A d \in Stores, j \in Regions \X Sessions :
        regionTable[d][j] # NoRow => RowIsSound(regionTable[d][j], j, overtaken)

\* The variable region holds a row with this run's sample, or nothing.
VariableIsSound ==
    \A t \in Task :
        worker[t] = "region" /\ region[t] # NoRow
            => RowIsSound(region[t], Key(t), overtaken) /\ Lists(region[t], t.run)

\* What GetRegion saw is still so.
ReadIsCurrent ==
    \A t \in Task, d \in Stores :
        worker[t] = "region" =>
            /\ step[t][d] = "create" => \/ regionTable[d][Key(t)] = NoRow
                                        \/ <<t, d, "create">> \in overtaken
            /\ step[t][d] = "update" => /\ regionTable[d][Key(t)] # NoRow
                                        /\ \/ storeRegion[t][d] = regionTable[d][Key(t)]
                                           \/ <<t, d, "update">> \in overtaken

RegionIInv == RowsAreSound /\ VariableIsSound /\ ReadIsCurrent

LEMMA RegionInit == Init => RegionIInv
<1> SUFFICES ASSUME Init
             PROVE  RegionIInv
  OBVIOUS
<1>1. worker = [t \in Task |-> "none"]
  BY DEF Init
<1>2. PICK earlier \in SUBSET (Regions \X Sessions) : EarlierTables(earlier)
  BY EarlierRun
<1>3. EarlierRow.avg = Average(EarlierRow.medians)
  BY DEF EarlierRow
<1>4. RowsAreSound
  BY <1>2, <1>3 DEF EarlierTables, RowsAreSound, RowIsSound
<1> QED
  BY <1>1, <1>4 DEF RegionIInv, VariableIsSound, ReadIsCurrent

LEMMA SoundRowsStay ==
    ASSUME NEW row, NEW j, NEW late, NEW later, late \subseteq later, RowIsSound(row, j, late)
    PROVE  RowIsSound(row, j, later)
BY DEF RowIsSound

LEMMA NewRowIsSound ==
    ASSUME NEW t \in Task, NEW late
    PROVE  RowIsSound(NewRow(t), Key(t), late) /\ Lists(NewRow(t), t.run)
<1> DEFINE row == NewRow(t)
<1>1. row.medians = <<t.run>> /\ row.avg = Average(<<t.run>>)
  BY DEF NewRow
<1> HIDE DEF row
<1>2. Range(row.medians) = {t.run}
  BY <1>1 DEF Range
<1>3. RowIsSound(row, Key(t), late) /\ Lists(row, t.run)
  BY <1>1, <1>2 DEF RowIsSound, Lists
<1> QED
  BY <1>3 DEF row

LEMMA AppendedIsListed ==
    ASSUME NEW list \in Seq(Samples), NEW x \in Runs
    PROVE  /\ Range(Append(list, x)) = Range(list) \cup {x}
           /\ Append(list, x)[Len(Append(list, x))] = x
<1>1. /\ Len(list) \in Nat /\ DOMAIN list = 1..Len(list)
      /\ Len(Append(list, x)) = Len(list) + 1
      /\ DOMAIN Append(list, x) = 1..(Len(list) + 1)
      /\ \A i \in 1..Len(list) : Append(list, x)[i] = list[i]
      /\ Append(list, x)[Len(list) + 1] = x
  OBVIOUS
<1>2. \A i \in 1..(Len(list) + 1) : i \in 1..Len(list) \/ i = Len(list) + 1
  BY <1>1
<1>3. \A i \in 1..Len(list) : i \in 1..(Len(list) + 1)
  BY <1>1
<1>4. Len(list) + 1 \in 1..(Len(list) + 1)
  BY <1>1
<1> QED
  BY <1>1, <1>2, <1>3, <1>4 DEF Range

\* Whatever was read, nothing leaves the list.
LEMMA UpdatedRowLists ==
    ASSUME NEW t \in Task, NEW row \in RegionRow, NEW read
    PROVE  \A r : Lists(UpdatedRow(t, row, read), r) <=> Lists(row, r) \/ r = t.run
<1> DEFINE new == UpdatedRow(t, row, read)
<1>1. new.medians = Append(row.medians, t.run)
  BY DEF UpdatedRow
<1> HIDE DEF new
<1>2. t.run \in Runs /\ row.medians \in Seq(Samples)
  BY TaskFacts DEF RegionRow
<1>3. Range(new.medians) = Range(row.medians) \cup {t.run}
  BY <1>1, <1>2, AppendedIsListed
<1>4. \A r : Lists(new, r) <=> Lists(row, r) \/ r = t.run
  BY <1>3 DEF Lists
<1> QED
  BY <1>4 DEF new

\* The sample that is written is the latest, and the average is right if what
\* was read is what is there.
LEMMA UpdatedRowIsSound ==
    ASSUME NEW t \in Task, NEW d \in Stores, NEW late,
           NEW row \in RegionRow, NEW read, read = row \/ <<t, d, "update">> \in late
    PROVE  /\ RowIsSound(UpdatedRow(t, row, read), Key(t), late)
           /\ \A r : Lists(UpdatedRow(t, row, read), r) <=> Lists(row, r) \/ r = t.run
<1> DEFINE new == UpdatedRow(t, row, read)
<1>1. /\ new.medians = Append(row.medians, t.run)
      /\ new.avg = Average(Append(read.medians, t.run))
  BY DEF UpdatedRow
<1> HIDE DEF new
<1>2. t.run \in Runs /\ row.medians \in Seq(Samples)
  BY TaskFacts DEF RegionRow
<1>3. /\ Range(new.medians) = Range(row.medians) \cup {t.run}
      /\ new.medians[Len(new.medians)] = t.run
  BY <1>1, <1>2, AppendedIsListed
<1>4. LatestSampler(Key(t), new) = t
  BY <1>3 DEF LatestSampler, Key, Task
<1>5. RowIsSound(new, Key(t), late)
  <2>1. CASE read = row
    BY <1>1, <2>1 DEF RowIsSound
  <2>2. CASE <<t, d, "update">> \in late
    BY <1>4, <2>2 DEF RowIsSound
  <2> QED
    BY <2>1, <2>2
<1> QED
  BY <1>5, UpdatedRowLists DEF new

LEMMA OvertakeMarks ==
    ASSUME NEW t \in Task, NEW d \in Stores, Overtake(t, d)
    PROVE  /\ overtaken \subseteq overtaken'
           /\ \A u \in Task \ {t} :
                  Key(u) = Key(t) /\ worker[u] = "region" /\ step[u][d] \in {"get", "create", "update"}
                      => <<u, d, step[u][d]>> \in overtaken'
BY DEF Overtake

\* A step of the goroutine of a task, or of the loop that spawns it.
LEMMA RegionWorker ==
    ASSUME Shape, RegionIInv, NEW t \in Task, Spawn(t) \/ Worker(t)
    PROVE  RegionIInv'
<1> USE DEF RegionIInv, Shape, ControlShape, LocalShape
<1>1. UNCHANGED <<regionTable, overtaken>>
  BY DEF Spawn, Worker, Load, GiveUp, SessionStored, RegionSaved, historyVars, lateVars
<1>2. \A u \in Task \ {t} : /\ worker'[u] = worker[u] /\ region'[u] = region[u]
                            /\ \A d \in Stores : /\ step'[u][d] = step[u][d]
                                                 /\ storeRegion'[u][d] = storeRegion[u][d]
  BY DEF Spawn, Worker, Load, GiveUp, SessionStored, RegionSaved, Leave
<1>3. worker'[t] = "region" => region'[t] = NewRow(t) /\ \A d \in Stores : step'[t][d] = "get"
  BY DEF Spawn, Worker, Load, GiveUp, SessionStored, RegionSaved, Leave, OnStores
<1>4. RowsAreSound'
  BY <1>1 DEF RowsAreSound
<1>5. VariableIsSound'
  <2> SUFFICES ASSUME NEW u \in Task, worker'[u] = "region", region'[u] # NoRow
               PROVE  RowIsSound(region'[u], Key(u), overtaken') /\ Lists(region'[u], u.run)
    BY Zenon DEF VariableIsSound, Key, Lists
  <2>1. CASE u = t
    BY <1>3, <2>1, NewRowIsSound
  <2>2. CASE u # t
    BY <1>1, <1>2, <2>2 DEF VariableIsSound
  <2> QED
    BY <2>1, <2>2
<1>6. ReadIsCurrent'
  BY <1>1, <1>2, <1>3 DEF ReadIsCurrent, Key
<1> QED
  BY <1>4, <1>5, <1>6

\* A store call that writes no region row.
LEMMA RegionUnwritten ==
    ASSUME Shape, RegionIInv, NEW t \in Task, NEW d \in Stores,
           GetSession(t, d) \/ CreateSession(t, d) \/ GetRegion(t, d) \/ StoreCallFails(t, d)
    PROVE  RegionIInv'
<1> USE DEF RegionIInv, Shape, ControlShape, LocalShape
<1>1. UNCHANGED <<worker, regionTable, overtaken>>
  BY DEF GetSession, CreateSession, GetRegion, StoreCallFails, historyVars, lateVars
<1>2. \A u \in Task, x \in Stores :
          (u # t \/ x # d) => /\ step'[u][x] = step[u][x]
                              /\ storeRegion'[u][x] = storeRegion[u][x]
  BY DEF GetSession, CreateSession, GetRegion, StoreCallFails, WriteAnswered, Goto
<1>3. \A u \in Task : region'[u] = region[u] \/ region'[u] = NoRow
  BY DEF GetSession, CreateSession, GetRegion, StoreCallFails
<1>4. worker[t] = "region" => \/ step'[t][d] = "error"
                              \/ /\ storeRegion'[t][d] = regionTable[d][Key(t)]
                                 /\ step'[t][d] = IF regionTable[d][Key(t)] = NoRow
                                                  THEN "create" ELSE "update"
  BY DEF GetSession, CreateSession, GetRegion, StoreCallFails, Goto
<1>5. RowsAreSound'
  BY <1>1 DEF RowsAreSound
<1>6. VariableIsSound'
  BY <1>1, <1>3 DEF VariableIsSound, Key, Lists
<1>7. ReadIsCurrent'
  <2> SUFFICES ASSUME NEW u \in Task, NEW x \in Stores, worker[u] = "region"
               PROVE  /\ step'[u][x] = "create" => \/ regionTable[x][Key(u)] = NoRow
                                                   \/ <<u, x, "create">> \in overtaken
                      /\ step'[u][x] = "update" => /\ regionTable[x][Key(u)] # NoRow
                                                   /\ \/ storeRegion'[u][x] = regionTable[x][Key(u)]
                                                      \/ <<u, x, "update">> \in overtaken
    BY <1>1 DEF ReadIsCurrent, Key
  <2>1. CASE u = t /\ x = d
    BY <1>4, <2>1
  <2>2. CASE u # t \/ x # d
    BY <1>2, <2>2 DEF ReadIsCurrent
  <2> QED
    BY <2>1, <2>2
<1> QED
  BY <1>5, <1>6, <1>7

\* What a write does: the goroutines of other runs that are at work on the row
\* are overtaken.
LEMMA RegionWritten ==
    ASSUME Shape, RegionIInv, NEW t \in Task, NEW d \in Stores, NEW row,
           worker[t] = "region", row # NoRow,
           RowIsSound(row, Key(t), overtaken'), Lists(row, t.run),
           NEW to \in {"ok", "error"},
           step' = [step EXCEPT ![t][d] = to],
           regionTable' = [regionTable EXCEPT ![d][Key(t)] = row],
           NEW var, var = NoRow \/ var = row \/ var = region[t],
           \A u \in Task : region'[u] = IF u = t THEN var ELSE region[u],
           Overtake(t, d), UNCHANGED <<worker, storeRegion>>
    PROVE  RegionIInv'
<1> USE DEF RegionIInv, Shape, ControlShape
<1>1. overtaken \subseteq overtaken'
  BY OvertakeMarks
<1>2. \A u \in Task, x \in Stores :
          step'[u][x] = IF u = t /\ x = d THEN to ELSE step[u][x]
  OBVIOUS
<1>3. \A x \in Stores, j \in Regions \X Sessions :
          regionTable'[x][j] = IF x = d /\ j = Key(t) THEN row ELSE regionTable[x][j]
  BY TaskFacts DEF TableShape
<1>4. RowsAreSound'
  <2> SUFFICES ASSUME NEW x \in Stores, NEW j \in Regions \X Sessions, regionTable'[x][j] # NoRow
               PROVE  RowIsSound(regionTable'[x][j], j, overtaken')
    BY DEF RowsAreSound
  <2>1. CASE x = d /\ j = Key(t)
    BY <1>3, <2>1
  <2>2. CASE ~(x = d /\ j = Key(t))
    <3>1. regionTable'[x][j] = regionTable[x][j]
      BY <1>3, <2>2
    <3> QED
      BY <1>1, <3>1, SoundRowsStay DEF RowsAreSound
  <2> QED
    BY <2>1, <2>2
<1>5. VariableIsSound'
  <2> SUFFICES ASSUME NEW u \in Task, worker[u] = "region", region'[u] # NoRow
               PROVE  RowIsSound(region'[u], Key(u), overtaken') /\ Lists(region'[u], u.run)
    BY Zenon DEF VariableIsSound, Key, Lists
  <2>1. CASE region'[u] = region[u]
    BY <1>1, <2>1, SoundRowsStay DEF VariableIsSound
  <2>2. CASE region'[u] # region[u]
    BY <2>2
  <2> QED
    BY <2>1, <2>2
<1>6. ReadIsCurrent'
  <2> SUFFICES ASSUME NEW u \in Task, NEW x \in Stores, worker[u] = "region"
               PROVE  /\ step'[u][x] = "create" => \/ regionTable'[x][Key(u)] = NoRow
                                                   \/ <<u, x, "create">> \in overtaken'
                      /\ step'[u][x] = "update" => /\ regionTable'[x][Key(u)] # NoRow
                                                   /\ \/ storeRegion[u][x] = regionTable'[x][Key(u)]
                                                      \/ <<u, x, "update">> \in overtaken'
    BY DEF ReadIsCurrent, Key
  <2>0. Key(u) \in Regions \X Sessions
    BY TaskFacts
  <2>1. CASE u = t /\ x = d
    BY <1>2, <2>1
  <2>2. CASE u # t /\ x = d /\ Key(u) = Key(t)
    <3>1. step'[u][x] = step[u][x] /\ regionTable'[x][Key(u)] = row
      BY <1>2, <1>3, <2>0, <2>2
    <3>2. step[u][d] \in {"create", "update"} => <<u, d, step[u][d]>> \in overtaken'
      BY <2>2, OvertakeMarks
    <3> QED
      BY <2>2, <3>1, <3>2
  <2>3. CASE ~(x = d /\ (u = t \/ Key(u) = Key(t)))
    <3>1. step'[u][x] = step[u][x] /\ regionTable'[x][Key(u)] = regionTable[x][Key(u)]
      BY <1>2, <1>3, <2>0, <2>3
    <3> QED
      BY <1>1, <3>1 DEF ReadIsCurrent
  <2> QED
    BY <2>1, <2>2, <2>3
<1> QED
  BY <1>4, <1>5, <1>6

LEMMA RegionCreate ==
    ASSUME Shape, RegionIInv, NEW t \in Task, NEW d \in Stores, CreateRegion(t, d)
    PROVE  RegionIInv'
<1> USE DEF RegionIInv
<1>1. /\ worker[t] = "region" /\ step[t][d] = "create"
      /\ UNCHANGED <<worker, storeRegion, region>>
  BY DEF CreateRegion
<1>2. CASE UNCHANGED <<regionTable, lateVars>> /\ step' = [step EXCEPT ![t][d] = "error"]
  <2>1. \A u \in Task, x \in Stores :
            step'[u][x] = IF u = t /\ x = d THEN "error" ELSE step[u][x]
    BY <1>2 DEF Shape, ControlShape
  <2> QED
    BY <1>1, <1>2, <2>1 DEF RowsAreSound, VariableIsSound, ReadIsCurrent, Key, Lists, lateVars
<1>3. ASSUME region[t] # NoRow, NEW to \in {"ok", "error"},
             step' = [step EXCEPT ![t][d] = to],
             regionTable' = [regionTable EXCEPT ![d][Key(t)] = region[t]],
             Overtake(t, d)
      PROVE  RegionIInv'
  <2>1. RowIsSound(region[t], Key(t), overtaken') /\ Lists(region[t], t.run)
    BY <1>1, <1>3, OvertakeMarks, SoundRowsStay DEF VariableIsSound
  <2>2. \A u \in Task : region'[u] = IF u = t THEN region[t] ELSE region[u]
    BY <1>1
  <2> QED
    BY <1>1, <1>3, <2>1, <2>2, RegionWritten
<1> QED
  BY <1>2, <1>3 DEF CreateRegion, WriteAnswered, Goto

LEMMA RegionUpdate ==
    ASSUME NoRowHasNoTotal, Shape, TypeIInv, RegionIInv,
           NEW t \in Task, NEW d \in Stores, UpdateRegion(t, d)
    PROVE  RegionIInv'
<1> USE DEF RegionIInv
<1> DEFINE old == regionTable[d][Key(t)]
           row == UpdatedRow(t, regionTable[d][Key(t)], storeRegion[t][d])
<1>1. /\ worker[t] = "region" /\ step[t][d] = "update"
      /\ regionTable' = [regionTable EXCEPT ![d][Key(t)] = row]
      /\ Overtake(t, d)
      /\ UNCHANGED <<worker, storeRegion>>
  BY DEF UpdateRegion
<1>2. PICK to \in {"ok", "error"}, var \in {row, NoRow} :
          /\ step' = [step EXCEPT ![t][d] = to]
          /\ \A u \in Task : region'[u] = IF u = t THEN var ELSE region[u]
  BY DEF UpdateRegion, WriteAnswered, Goto, Shape, LocalShape
<1>3. storeRegion[t][d] = old \/ <<t, d, "update">> \in overtaken'
  BY <1>1, OvertakeMarks DEF ReadIsCurrent
<1>4. old \in RegionRow
  BY <1>1 DEF TypeIInv, RowIInv, UpdatesHaveRows
<1>5. RowIsSound(row, Key(t), overtaken') /\ Lists(row, t.run)
  BY <1>3, <1>4, UpdatedRowIsSound
<1>6. row # NoRow
  BY RowsAreRows
<1> HIDE DEF old, row
<1> QED
  BY <1>1, <1>2, <1>5, <1>6, RegionWritten

LEMMA RegionStep ==
    ASSUME NoRowHasNoTotal, Shape, TypeIInv, RegionIInv, [Next]_vars
    PROVE  RegionIInv'
<1>1. ASSUME UNCHANGED <<worker, step, storeRegion, region, regionTable, overtaken>>
      PROVE  RegionIInv'
  BY <1>1 DEF RegionIInv, RowsAreSound, VariableIsSound, ReadIsCurrent, Key, Lists
<1>2. ASSUME NEW r \in Runs,
             \/ SaveEnds(r) \/ RunEnds(r)
             \/ \E failure \in [Regions \X Sessions -> BOOLEAN \cup {NoRow}] : StartRun(r, failure)
             \/ \E s \in Sessions : Aggregates(r, s)
             \/ \E s \in Sessions, d \in Stores : Aggregator(r, s, d)
      PROVE  UNCHANGED <<worker, step, storeRegion, region, regionTable, overtaken>>
  BY <1>2 DEF SaveEnds, RunEnds, StartRun, Aggregates, Aggregator, GetSessionRegions,
              UpdateSession, AggregationFails, saveVars, historyVars, lateVars
<1>3. UNCHANGED vars => UNCHANGED <<worker, step, storeRegion, region, regionTable, overtaken>>
  BY DEF vars, saveVars, historyVars, lateVars
<1>4. ASSUME NEW t \in Task, NEW d \in Stores, StoreWorker(t, d)
      PROVE  RegionIInv'
  BY <1>4, RegionUnwritten, RegionCreate, RegionUpdate DEF StoreWorker
<1> QED
  BY <1>1, <1>2, <1>3, <1>4, NextCases, RegionWorker

LEMMA RegionHolds == ASSUME NoRowHasNoTotal PROVE Spec => []RegionIInv
<1>1. Shape /\ TypeIInv /\ RegionIInv /\ [Next]_vars => RegionIInv'
  BY RegionStep
<1> QED
  BY RegionInit, ShapeHolds, TypeHolds, <1>1, PTL DEF Spec

\* However the runs overlap, the average stored with a region's row is that of
\* every sample on its list, also when the row was copied from another store,
\* unless the latest sample is one that an overtaken goroutine took.
THEOREM AverageOfSavedHolds == NoRowHasNoTotal => (Spec => []AverageOfSaved)
<1> SUFFICES ASSUME NoRowHasNoTotal
             PROVE  Spec => []AverageOfSaved
  OBVIOUS
<1>1. RegionIInv => AverageOfSaved
  BY DEF RegionIInv, RowsAreSound, RowIsSound, AverageOfSaved
<1> QED
  BY RegionHolds, <1>1, PTL

\* What FailureSticks says of a step.
FailureKept ==
    \A d \in Stores, j \in Regions \X Sessions :
        \/ (regionTable[d][j] # NoRow /\ regionTable[d][j].failure) => regionTable'[d][j].failure
        \/ \E t \in Task : Key(t) = j /\ step'[t][d] # "update"
                           /\ <<t, d, "update">> \in overtaken /\ step[t][d] = "update"

LEMMA FailureStep ==
    ASSUME Shape, RegionIInv, [Next]_vars
    PROVE  FailureKept
<1> SUFFICES ASSUME NEW d \in Stores, NEW j \in Regions \X Sessions,
                    regionTable[d][j] # NoRow, regionTable[d][j].failure
             PROVE  \/ regionTable'[d][j].failure
                    \/ \E t \in Task : Key(t) = j /\ step'[t][d] # "update"
                           /\ <<t, d, "update">> \in overtaken /\ step[t][d] = "update"
  BY DEF FailureKept
<1>1. CASE regionTable'[d][j] = regionTable[d][j]
  BY <1>1
<1>2. ASSUME NEW t \in Task, NEW e \in Stores, CreateRegion(t, e)
      PROVE  regionTable'[d][j] = regionTable[d][j]
  <2>1. \/ regionTable' = regionTable
        \/ /\ regionTable[e][Key(t)] = NoRow
           /\ regionTable' = [regionTable EXCEPT ![e][Key(t)] = region[t]]
    BY <1>2 DEF CreateRegion
  <2> QED
    BY <2>1 DEF Shape, TableShape
<1>3. ASSUME NEW t \in Task, NEW e \in Stores, UpdateRegion(t, e), e = d, Key(t) = j,
             storeRegion[t][d] = regionTable[d][j]
      PROVE  regionTable'[d][j].failure
  <2>1. regionTable'[d][j] = UpdatedRow(t, regionTable[d][j], storeRegion[t][d])
    BY <1>3 DEF UpdateRegion, Shape, TableShape
  <2> DEFINE new == UpdatedRow(t, regionTable[d][j], storeRegion[t][d])
  <2>2. new.failure = (snapshot[t].failure \/ storeRegion[t][d].failure)
    BY DEF UpdatedRow
  <2> HIDE DEF new
  <2>3. storeRegion[t][d].failure
    BY <1>3
  <2>4. new.failure
    BY <2>2, <2>3, Zenon
  <2> QED
    BY <2>1, <2>4 DEF new
<1>4. ASSUME NEW t \in Task, NEW e \in Stores, UpdateRegion(t, e), e = d, Key(t) = j,
             storeRegion[t][d] # regionTable[d][j]
      PROVE  /\ Key(t) = j /\ step'[t][d] # "update"
             /\ <<t, d, "update">> \in overtaken /\ step[t][d] = "update"
  <2>1. worker[t] = "region" /\ step[t][d] = "update"
    BY <1>4 DEF UpdateRegion
  <2>2. step'[t][d] \in {"ok", "error"}
    BY <1>4 DEF UpdateRegion, WriteAnswered, Goto, Shape, ControlShape
  <2> QED
    BY <1>4, <2>1, <2>2 DEF RegionIInv, ReadIsCurrent
<1>5. ASSUME NEW t \in Task, NEW e \in Stores, UpdateRegion(t, e), ~(e = d /\ Key(t) = j)
      PROVE  regionTable'[d][j] = regionTable[d][j]
  BY <1>5 DEF UpdateRegion, Shape, TableShape
<1>6. \/ UNCHANGED regionTable
      \/ \E t \in Task, e \in Stores : CreateRegion(t, e) \/ UpdateRegion(t, e)
  BY NextCases DEF vars, StartRun, SaveEnds, RunEnds, Spawn, Worker, Load, GiveUp,
                   SessionStored, RegionSaved, StoreWorker, GetSession, CreateSession, GetRegion,
                   StoreCallFails, Aggregates, Aggregator, GetSessionRegions, UpdateSession,
                   AggregationFails
<1> QED
  BY <1>1, <1>2, <1>3, <1>4, <1>5, <1>6

\* However the runs overlap, a region's row keeps its failure flag: each run
\* carries over the flag it read, and only a goroutine that was overtaken
\* between the reading and the writing carries over one that is out of date.
THEOREM FailureSticksHolds == NoRowHasNoTotal => (Spec => FailureSticks)
<1> SUFFICES ASSUME NoRowHasNoTotal
             PROVE  Spec => FailureSticks
  OBVIOUS
<1>1. Shape /\ RegionIInv /\ [Next]_vars => [FailureKept]_vars
  BY FailureStep
<1>2. Spec => [][FailureKept]_vars
  BY ShapeHolds, RegionHolds, <1>1, PTL DEF Spec
<1> QED
  BY <1>2 DEF FailureSticks, FailureKept

--------------------------------------------------------------------------------
(***************************************************************************)
(* The aggregation. When a session's row is not the aggregate of the       *)
(* region rows, some run owes the aggregation that mends it, or has made   *)
(* it without being faithful: no run alters a region row after its own     *)
(* aggregation. What a run owes once another has aggregated counts only if *)
(* the two were at work together, or it began later.                       *)
(***************************************************************************)
IsAggregate(s, d) == sessionTable[d][s] = Aggregate(RegionRows(d, s))

Owes(q, s, d) == \/ phase[q] \in {"save", "aggregate"} /\ s \in sessionsInStore[q]
                        /\ aggregation[q][s][d] \in {"none", "get", "update"}
                 \/ aggregation[q][s][d] = "error"
                 \/ <<q, s, d>> \in outdated

\* Was, or is, run q at work after run r began?
Besides(q, r) == q # r /\ (q > r \/ q \in running[r])

RowsAreCurrent ==
    \A r \in Runs, s \in Sessions, d \in Stores :
        aggregation[r][s][d] = "update" /\ <<r, s, d>> \notin outdated
            => rows[r][s][d] = RegionRows(d, s)

AggregateOrOwed ==
    \A r \in Runs, s \in Sessions, d \in Stores :
        aggregation[r][s][d] = "ok" /\ <<r, s, d>> \notin outdated
            => IsAggregate(s, d) \/ \E q \in Runs : Besides(q, r) /\ Owes(q, s, d)

AggregateIInv == RowsAreCurrent /\ AggregateOrOwed

LEMMA AggregateInit == Init => AggregateIInv
<1> SUFFICES ASSUME Init
             PROVE  AggregateIInv
  OBVIOUS
<1>1. \A r \in Runs, s \in Sessions, d \in Stores : aggregation[r][s][d] = "none"
  BY DEF Init, NotAggregated, OnStores
<1> QED
  BY <1>1 DEF AggregateIInv, RowsAreCurrent, AggregateOrOwed

\* A run that is at work is beside any other that has come to aggregate.
LEMMA AtWorkIsBeside ==
    ASSUME Control, NEW q \in Runs, NEW r \in Runs, q # r,
           phase[q] \in {"save", "aggregate"}, phase[r] \in {"aggregate", "done"}
    PROVE  Besides(q, r)
<1>1. q \in Nat /\ r \in Nat
  BY SnapAssumption
<1>2. CASE q > r
  BY <1>2 DEF Besides
<1>3. CASE q < r
  BY <1>3 DEF Control, InOrder, Besides
<1> QED
  BY <1>1, <1>2, <1>3

\* What other steps than those of the aggregators and the region writes keep.
LEMMA AggregateKept ==
    ASSUME AggregateIInv, UNCHANGED <<rows, regionTable, outdated>>,
           \A r \in Runs, s \in Sessions, d \in Stores :
               /\ aggregation'[r][s][d] = "update" <=> aggregation[r][s][d] = "update"
               /\ aggregation'[r][s][d] = "ok" <=> aggregation[r][s][d] = "ok",
           \A r \in Runs, s \in Sessions, d \in Stores :
               aggregation[r][s][d] = "ok" => /\ sessionTable'[d][s] = sessionTable[d][s]
                                              /\ running'[r] = running[r],
           \A q \in Runs, s \in Sessions, d \in Stores : Owes(q, s, d) => Owes(q, s, d)'
    PROVE  AggregateIInv'
<1> USE DEF AggregateIInv
<1>1. \A s \in Sessions, d \in Stores : RegionRows(d, s)' = RegionRows(d, s)
  BY DEF RegionRows
<1>2. RowsAreCurrent'
  BY <1>1 DEF RowsAreCurrent
<1>3. AggregateOrOwed'
  <2> SUFFICES ASSUME NEW r \in Runs, NEW s \in Sessions, NEW d \in Stores,
                      aggregation'[r][s][d] = "ok", <<r, s, d>> \notin outdated
               PROVE  IsAggregate(s, d)' \/ \E q \in Runs : Besides(q, r)' /\ Owes(q, s, d)'
    BY DEF AggregateOrOwed
  <2>1. aggregation[r][s][d] = "ok"
    OBVIOUS
  <2>2. CASE IsAggregate(s, d)
    BY <1>1, <2>1, <2>2 DEF IsAggregate
  <2>3. ASSUME NEW q \in Runs, Besides(q, r), Owes(q, s, d)
        PROVE  Besides(q, r)' /\ Owes(q, s, d)'
    BY <2>1, <2>3 DEF Besides
  <2> QED
    BY <2>1, <2>2, <2>3 DEF AggregateOrOwed
<1> QED
  BY <1>2, <1>3

\* A step of the goroutine of a task, or of the loop that spawns it: more
\* sessions are to be aggregated.
LEMMA AggregateWorker ==
    ASSUME Shape, AggregateIInv, NEW t \in Task, Spawn(t) \/ Worker(t)
    PROVE  AggregateIInv'
<1>1. UNCHANGED <<phase, aggregation, rows, sessionTable, regionTable, running, outdated>>
  BY DEF Spawn, Worker, Load, GiveUp, SessionStored, RegionSaved, aggregateVars, historyVars,
         begunVars, lateVars
<1>2. \A r \in Runs : sessionsInStore[r] \subseteq sessionsInStore'[r]
  <2>1. \/ sessionsInStore' = sessionsInStore
        \/ sessionsInStore' = [sessionsInStore EXCEPT ![t.run] = @ \cup {t.session}]
    BY DEF Spawn, Worker, Load, GiveUp, SessionStored, RegionSaved
  <2> QED
    BY <2>1 DEF Shape, ControlShape
<1>3. \A q \in Runs, s \in Sessions, d \in Stores : Owes(q, s, d) => Owes(q, s, d)'
  BY <1>1, <1>2 DEF Owes
<1> QED
  BY <1>1, <1>3, AggregateKept

LEMMA AggregateRun ==
    ASSUME Shape, Control, AggregateIInv, NEW r \in Runs,
           SaveEnds(r) \/ RunEnds(r)
               \/ \E failure \in [Regions \X Sessions -> BOOLEAN \cup {NoRow}] : StartRun(r, failure)
    PROVE  AggregateIInv'
<1>1. UNCHANGED <<sessionsInStore, aggregation, rows, sessionTable, regionTable, outdated>>
  BY DEF SaveEnds, RunEnds, StartRun, saveVars, aggregateVars, historyVars, lateVars
<1>2. \A q \in Runs, s \in Sessions, d \in Stores :
          aggregation[q][s][d] = "ok" => running'[q] = running[q]
  <2>1. running' = running \/ phase[r] = "waiting"
    BY DEF SaveEnds, RunEnds, StartRun, historyVars, begunVars
  <2>2. \A q \in Runs : q # r => running'[q] = running[q]
    BY DEF SaveEnds, RunEnds, StartRun, historyVars, begunVars, Shape, HistoryShape
  <2>3. \A s \in Sessions, d \in Stores : phase[r] = "waiting" => aggregation[r][s][d] = "none"
    BY DEF Control, AggregatesStored
  <2> QED
    BY <2>1, <2>2, <2>3
<1>3. ASSUME NEW q \in Runs, NEW s \in Sessions, NEW d \in Stores, Owes(q, s, d)
      PROVE  Owes(q, s, d)'
  <2>1. CASE phase'[q] = phase[q]
    BY <1>1, <1>3, <2>1 DEF Owes
  <2>2. CASE phase'[q] # phase[q]
    <3>1. q = r
      BY <2>2 DEF SaveEnds, RunEnds, StartRun, Shape, ControlShape
    <3>2. CASE phase[q] = "save"
      <4>1. phase'[q] = "aggregate"
        BY <2>2, <3>1, <3>2 DEF SaveEnds, RunEnds, StartRun, Shape, ControlShape
      <4> QED
        BY <1>1, <1>3, <4>1 DEF Owes
    <3>3. CASE phase[q] = "aggregate"
      <4>1. RunEnds(q)
        BY <3>1, <3>3 DEF SaveEnds, StartRun
      <4>2. s \in sessionsInStore[q] => aggregation[q][s][d] \in {"ok", "error"}
        BY <4>1 DEF RunEnds, Ended
      <4> QED
        BY <1>1, <1>3, <4>2 DEF Owes
    <3>4. CASE phase[q] \notin {"save", "aggregate"}
      BY <1>1, <1>3, <3>4 DEF Owes
    <3> QED
      BY <3>2, <3>3, <3>4
  <2> QED
    BY <2>1, <2>2
<1> QED
  BY <1>1, <1>2, <1>3, AggregateKept

LEMMA AggregateStarts ==
    ASSUME Shape, Control, AggregateIInv, NEW r \in Runs, NEW s \in Sessions, Aggregates(r, s)
    PROVE  AggregateIInv'
<1>1. UNCHANGED <<phase, sessionsInStore, rows, sessionTable, regionTable, running, outdated>>
  BY DEF Aggregates, saveVars, historyVars, begunVars, lateVars
<1>2. \A q \in Runs, x \in Sessions, d \in Stores :
          aggregation'[q][x][d] = IF q = r /\ x = s THEN "get" ELSE aggregation[q][x][d]
  BY DEF Aggregates, OnStores, Shape, ControlShape
<1>3. \A d \in Stores : aggregation[r][s][d] = "none"
  BY DEF Aggregates, OnStores
<1>4. \A q \in Runs, x \in Sessions, d \in Stores : Owes(q, x, d) => Owes(q, x, d)'
  BY <1>1, <1>2, <1>3 DEF Owes
<1> QED
  BY <1>1, <1>2, <1>3, <1>4, AggregateKept

\* A region row is written by a run that has to aggregate yet; an aggregation
\* that read the row before becomes outdated.
LEMMA AggregateWritten ==
    ASSUME Shape, Control, AggregateIInv, NEW t \in Task, NEW d \in Stores,
           worker[t] = "region", Overtake(t, d), NEW row,
           regionTable' = [regionTable EXCEPT ![d][Key(t)] = row],
           UNCHANGED <<phase, sessionsInStore, aggregation, rows, sessionTable, running>>
    PROVE  AggregateIInv'
<1> USE DEF AggregateIInv
<1>1. t.run \in Runs /\ t.session \in Sessions /\ Key(t) \in Regions \X Sessions
  BY TaskFacts
<1>2. phase[t.run] = "save" /\ t.session \in sessionsInStore[t.run]
  BY DEF Control, WorkersInSave, Active
<1>3. \A r \in Runs, s \in Sessions, e \in Stores :
          aggregation[r][s][e] # "none" => phase[r] \in {"aggregate", "done"}
  BY DEF Control, AggregatesStored
<1>4. /\ outdated \subseteq outdated'
      /\ \A r \in Runs : aggregation[r][t.session][d] = "update" => <<r, t.session, d>> \in outdated'
  <2>1. \A r \in Runs : aggregation[r][t.session][d] = "update" => r # t.run
    BY <1>1, <1>2, <1>3
  <2> QED
    BY <2>1 DEF Overtake
<1>5. \A s \in Sessions, e \in Stores :
          ~(s = t.session /\ e = d) => RegionRows(e, s)' = RegionRows(e, s)
  <2> SUFFICES ASSUME NEW s \in Sessions, NEW e \in Stores, ~(s = t.session /\ e = d)
               PROVE  RegionRows(e, s)' = RegionRows(e, s)
    OBVIOUS
  <2>1. \A g \in Regions : regionTable'[e][<<g, s>>] = regionTable[e][<<g, s>>]
    BY <1>1 DEF Key, Shape, TableShape
  <2> QED
    BY <2>1 DEF RegionRows
<1>6. \A q \in Runs, r \in Runs, s \in Sessions, e \in Stores :
          /\ Besides(q, r)' <=> Besides(q, r)
          /\ Owes(q, s, e) => Owes(q, s, e)'
  BY <1>4 DEF Besides, Owes
<1>7. RowsAreCurrent'
  <2> SUFFICES ASSUME NEW r \in Runs, NEW s \in Sessions, NEW e \in Stores,
                      aggregation[r][s][e] = "update", <<r, s, e>> \notin outdated'
               PROVE  rows[r][s][e] = RegionRows(e, s)'
    BY DEF RowsAreCurrent
  <2>1. ~(s = t.session /\ e = d)
    BY <1>4
  <2> QED
    BY <1>4, <1>5, <2>1 DEF RowsAreCurrent
<1>8. AggregateOrOwed'
  <2> SUFFICES ASSUME NEW r \in Runs, NEW s \in Sessions, NEW e \in Stores,
                      aggregation[r][s][e] = "ok", <<r, s, e>> \notin outdated'
               PROVE  IsAggregate(s, e)' \/ \E q \in Runs : Besides(q, r)' /\ Owes(q, s, e)'
    BY DEF AggregateOrOwed
  <2>1. CASE s = t.session /\ e = d
    <3>1. phase[r] \in {"aggregate", "done"}
      BY <1>3
    <3>2. t.run # r /\ Besides(t.run, r)
      BY <1>1, <1>2, <3>1, AtWorkIsBeside
    <3>3. Owes(t.run, s, e)
      <4>1. aggregation[t.run][s][e] = "none"
        BY <1>1, <1>2, <1>3
      <4> QED
        BY <1>2, <2>1, <4>1 DEF Owes
    <3> QED
      BY <1>1, <1>6, <3>2, <3>3
  <2>2. CASE ~(s = t.session /\ e = d)
    <3>1. IsAggregate(s, e)' <=> IsAggregate(s, e)
      BY <1>5, <2>2 DEF IsAggregate
    <3>2. IsAggregate(s, e) \/ \E q \in Runs : Besides(q, r) /\ Owes(q, s, e)
      BY <1>4 DEF AggregateOrOwed
    <3> QED
      BY <1>6, <3>1, <3>2
  <2> QED
    BY <2>1, <2>2
<1> QED
  BY <1>7, <1>8

\* A store call of a task's goroutine. None creates the row of a session that
\* has been aggregated, as that has a row.
LEMMA AggregateStoreWorker ==
    ASSUME Shape, Control, FirstIInv, AggregateIInv, NEW t \in Task, NEW d \in Stores,
           StoreWorker(t, d)
    PROVE  AggregateIInv'
<1>1. UNCHANGED <<phase, sessionsInStore, aggregation, rows, running>>
  BY DEF StoreWorker, GetSession, CreateSession, GetRegion, CreateRegion, UpdateRegion,
         StoreCallFails, aggregateVars, historyVars, begunVars
<1>2. CASE UNCHANGED <<regionTable, outdated>>
  <2>1. \A r \in Runs, s \in Sessions, e \in Stores :
            aggregation[r][s][e] = "ok" => sessionTable'[e][s] = sessionTable[e][s]
    <3>1. \A r \in Runs, s \in Sessions, e \in Stores :
              aggregation[r][s][e] = "ok" => HasRow(e, s)
      BY DEF Control, AggregatesStored, FirstIInv, SessionFirst
    <3>2. \/ sessionTable' = sessionTable
          \/ /\ ~HasRow(d, t.session)
             /\ sessionTable' = [sessionTable EXCEPT ![d][t.session] = EmptySession]
      BY DEF StoreWorker, GetSession, CreateSession, GetRegion, CreateRegion, UpdateRegion,
             StoreCallFails
    <3> QED
      BY <3>1, <3>2 DEF Shape, TableShape
  <2>2. \A q \in Runs, s \in Sessions, e \in Stores : Owes(q, s, e) => Owes(q, s, e)'
    BY <1>1, <1>2 DEF Owes
  <2> QED
    BY <1>1, <1>2, <2>1, <2>2, AggregateKept
<1>3. CASE /\ worker[t] = "region" /\ Overtake(t, d) /\ sessionTable' = sessionTable
           /\ \E row : regionTable' = [regionTable EXCEPT ![d][Key(t)] = row]
  BY <1>1, <1>3, AggregateWritten
<1> QED
  BY <1>2, <1>3 DEF StoreWorker, GetSession, CreateSession, GetRegion, CreateRegion, UpdateRegion,
                    StoreCallFails, historyVars, lateVars

LEMMA AggregateAggregator ==
    ASSUME Shape, Control, AggregateIInv, NEW r \in Runs, NEW s \in Sessions, NEW d \in Stores,
           Aggregator(r, s, d)
    PROVE  AggregateIInv'
<1> USE DEF AggregateIInv, Shape
<1>1. /\ UNCHANGED <<phase, sessionsInStore, regionTable, running>>
      /\ aggregation[r][s][d] \in {"get", "update"}
  BY DEF Aggregator, GetSessionRegions, UpdateSession, AggregationFails, saveVars, historyVars,
         begunVars
<1>2. phase[r] = "aggregate" /\ s \in sessionsInStore[r]
  BY <1>1 DEF Control, AggregatesStored, AggregationsEnded, ControlShape
<1>3. \A x \in Sessions, e \in Stores : RegionRows(e, x)' = RegionRows(e, x)
  BY <1>1 DEF RegionRows
<1>4. PICK to \in {"update", "ok", "error"},
           read \in {NoRow} \cup {RowsThatCame(d, s, come) : come \in SUBSET Regions} :
          /\ aggregation' = [aggregation EXCEPT ![r][s][d] = to]
          /\ rows' = [rows EXCEPT ![r][s][d] = read]
          /\ to = "update" => read = RegionRows(d, s) \/ <<r, s, d>> \in outdated'
          /\ outdated' = outdated \/ outdated' = outdated \cup {<<r, s, d>>}
          /\ \/ sessionTable' = sessionTable /\ to # "ok"
             \/ /\ aggregation[r][s][d] = "update" /\ to # "update" /\ outdated' = outdated
                /\ sessionTable' = [sessionTable EXCEPT ![d][s] = Aggregate(rows[r][s][d])]
  <2>1. CASE GetSessionRegions(r, s, d)
    <3>1. PICK come \in SUBSET Regions :
              /\ rows' = [rows EXCEPT ![r][s][d] = RowsThatCame(d, s, come)]
              /\ \/ RowsThatCame(d, s, come) = RegionRows(d, s) /\ outdated' = outdated
                 \/ outdated' = outdated \cup {<<r, s, d>>}
      BY <2>1 DEF GetSessionRegions
    <3>2. /\ aggregation' = [aggregation EXCEPT ![r][s][d] = "update"]
          /\ sessionTable' = sessionTable
      BY <2>1 DEF GetSessionRegions
    <3> QED
      BY <3>1, <3>2
  <2>2. CASE UpdateSession(r, s, d)
    <3>1. PICK to \in {"ok", "error"} : aggregation' = [aggregation EXCEPT ![r][s][d] = to]
      BY <2>2 DEF UpdateSession
    <3> QED
      BY <2>2, <3>1 DEF UpdateSession, historyVars, lateVars
  <2>3. CASE AggregationFails(r, s, d)
    BY <2>3 DEF AggregationFails, historyVars, lateVars
  <2> QED
    BY <2>1, <2>2, <2>3 DEF Aggregator
<1>5. /\ \A q \in Runs, x \in Sessions, e \in Stores :
             ~(q = r /\ x = s /\ e = d) => /\ aggregation'[q][x][e] = aggregation[q][x][e]
                                           /\ rows'[q][x][e] = rows[q][x][e]
                                           /\ <<q, x, e>> \in outdated' <=> <<q, x, e>> \in outdated
      /\ aggregation'[r][s][d] = to /\ rows'[r][s][d] = read
      /\ outdated \subseteq outdated'
  BY <1>4 DEF ControlShape, LocalShape
<1>6. \A q \in Runs, p \in Runs, x \in Sessions, e \in Stores :
          /\ Besides(q, p)' <=> Besides(q, p)
          /\ ~(q = r /\ x = s /\ e = d) /\ Owes(q, x, e) => Owes(q, x, e)'
  BY <1>1, <1>5 DEF Besides, Owes
<1>7. RowsAreCurrent'
  BY <1>3, <1>4, <1>5 DEF RowsAreCurrent
<1>8. AggregateOrOwed'
  <2> SUFFICES ASSUME NEW p \in Runs, NEW x \in Sessions, NEW e \in Stores,
                      aggregation'[p][x][e] = "ok", <<p, x, e>> \notin outdated'
               PROVE  IsAggregate(x, e)' \/ \E q \in Runs : Besides(q, p)' /\ Owes(q, x, e)'
    BY DEF AggregateOrOwed
  <2>1. CASE ~(x = s /\ e = d)
    <3>1. sessionTable'[e][x] = sessionTable[e][x]
      BY <1>4, <2>1 DEF TableShape
    <3>2. IsAggregate(x, e) \/ \E q \in Runs : Besides(q, p) /\ Owes(q, x, e)
      BY <1>5, <2>1 DEF AggregateOrOwed
    <3> QED
      BY <1>3, <1>6, <2>1, <3>1, <3>2 DEF IsAggregate
  <2>2. CASE x = s /\ e = d /\ to = "ok" /\ <<r, s, d>> \notin outdated
    <3>1. /\ aggregation[r][s][d] = "update"
          /\ sessionTable' = [sessionTable EXCEPT ![d][s] = Aggregate(rows[r][s][d])]
      BY <1>4, <2>2
    <3>2. rows[r][s][d] = RegionRows(d, s)
      BY <2>2, <3>1 DEF RowsAreCurrent
    <3>3. sessionTable'[d][s] = Aggregate(RegionRows(d, s))
      BY <3>1, <3>2 DEF TableShape
    <3> QED
      BY <1>3, <2>2, <3>3 DEF IsAggregate
  <2>3. CASE x = s /\ e = d /\ (to # "ok" \/ <<r, s, d>> \in outdated)
    <3>1. p # r
      BY <1>5, <2>3
    <3>2. aggregation[p][s][d] = "ok" /\ <<p, s, d>> \notin outdated
      BY <1>5, <2>3, <3>1
    <3>3. phase[p] \in {"aggregate", "done"}
      BY <3>2 DEF Control, AggregatesStored
    <3>4. Besides(r, p)
      BY <1>2, <3>1, <3>3, AtWorkIsBeside
    <3>5. Owes(r, s, d)'
      <4>1. CASE <<r, s, d>> \in outdated
        BY <1>5, <4>1 DEF Owes
      <4>2. CASE to \in {"update", "error"}
        BY <1>1, <1>2, <1>5, <4>2 DEF Owes
      <4> QED
        BY <1>4, <2>3, <4>1, <4>2
    <3> QED
      BY <1>6, <2>3, <3>4, <3>5
  <2> QED
    BY <1>4, <2>1, <2>2, <2>3
<1> QED
  BY <1>7, <1>8

LEMMA AggregateStep ==
    ASSUME Shape, Control, FirstIInv, AggregateIInv, [Next]_vars
    PROVE  AggregateIInv'
<1>1. ASSUME UNCHANGED vars
      PROVE  AggregateIInv'
  <2>1. UNCHANGED <<phase, sessionsInStore, aggregation, rows, sessionTable, regionTable, running,
                    outdated>>
    BY <1>1 DEF vars, saveVars, aggregateVars, historyVars, begunVars, lateVars
  <2>2. \A q \in Runs, s \in Sessions, d \in Stores : Owes(q, s, d) => Owes(q, s, d)'
    BY <2>1 DEF Owes
  <2> QED
    BY <2>1, <2>2, AggregateKept
<1> QED
  BY <1>1, NextCases, AggregateRun, AggregateWorker, AggregateStoreWorker, AggregateStarts,
     AggregateAggregator

\* When no run is at work that has been at work since the latest began, none of
\* them owes an aggregation, unless it was not faithful.
LEMMA NothingOwed ==
    ASSUME Shape, Control, AggregateIInv
    PROVE  SessionIsAggregate
<1> SUFFICES ASSUME NEW r \in Runs, NEW s \in Sessions, NEW d \in Stores,
                    Latest(r), aggregation[r][s][d] = "ok",
                    \A q \in running[r] : phase[q] = "done",
                    \A q \in running[r] \cup {r} : Faithful(q, s, d)
             PROVE  IsAggregate(s, d)
  BY DEF SessionIsAggregate, IsAggregate
<1>1. <<r, s, d>> \notin outdated
  BY DEF Faithful
<1>2. ASSUME NEW q \in Runs, Besides(q, r), Owes(q, s, d)
      PROVE  FALSE
  <2>1. CASE q \in running[r]
    BY <1>2, <2>1 DEF Owes, Faithful
  <2>2. CASE q > r
    <3>1. phase[q] = "waiting"
      BY <2>2 DEF Latest
    <3>2. aggregation[q][s][d] = "none"
      BY <3>1 DEF Control, AggregatesStored
    <3>3. <<q, s, d>> \notin outdated
      <4>1. <<q, s, d>> \in outdated => aggregation[q][s][d] # "none"
        BY DEF Control, OutdatedStarted
      <4> QED
        BY <3>2, <4>1
    <3> QED
      BY <1>2, <3>1, <3>2, <3>3 DEF Owes
  <2> QED
    BY <1>2, <2>1, <2>2 DEF Besides
<1> QED
  BY <1>1, <1>2 DEF AggregateIInv, AggregateOrOwed

\* However the runs overlap: when the latest run to begin and those it found at
\* work have ended, the row of a session it aggregated is the aggregate of the
\* region rows as they are then, whichever of the runs wrote last, if each of
\* them was faithful to the rows it read.
THEOREM SessionIsAggregateHolds == NoRowHasNoTotal => (Spec => []SessionIsAggregate)
<1> SUFFICES ASSUME NoRowHasNoTotal
             PROVE  Spec => []SessionIsAggregate
  OBVIOUS
<1>1. Shape /\ Control /\ FirstIInv /\ AggregateIInv /\ [Next]_vars => AggregateIInv'
  BY AggregateStep
<1>2. Shape /\ Control /\ AggregateIInv => SessionIsAggregate
  BY NothingOwed
<1> QED
  BY AggregateInit, ShapeHolds, ControlHolds, FirstHolds, <1>1, <1>2, PTL DEF Spec

--------------------------------------------------------------------------------
(***************************************************************************)
(* A run without a failed call. Every store has the row of a session known *)
(* when the run began, so that none of the run's goroutines is refused,    *)
(* but one that another run overtook before it could create its row.       *)
(***************************************************************************)
KnownHaveRows ==
    \A r \in Runs, d \in Stores : \A s \in known[r] : HasRow(d, s)

\* No call of the task's run has failed, and its session was known.
Intact(t) == failures[t.run] = 0 /\ snapshot[t] # NoRow /\ t.session \in known[t.run]

Refused(t, d) == <<t, d, "create">> \in overtaken

\* How far the goroutine of an intact task has come.
IntactGoOn ==
    \A t \in Task, d \in Stores :
        Intact(t) =>
            /\ worker[t] = "session" => step[t][d] \in {"get", "ok"}
            /\ worker[t] = "region" => /\ region[t] # NoRow
                                       /\ step[t][d] # "idle"
                                       /\ step[t][d] = "ok" => Saved(t, d)
                                       /\ step[t][d] = "error" => Refused(t, d)
            /\ worker[t] = "gone" => Saved(t, d) \/ Refused(t, d)

KnownIInv == KnownHaveRows /\ IntactGoOn

LEMMA KnownInit == Init => KnownIInv
<1> SUFFICES ASSUME Init
             PROVE  KnownIInv
  OBVIOUS
<1>1. /\ known = [r \in Runs |-> {}]
      /\ worker = [t \in Task |-> "none"]
  BY DEF Init
<1> QED
  BY <1>1 DEF KnownIInv, KnownHaveRows, IntactGoOn

LEMMA KnownRowsStep ==
    ASSUME NoRowHasNoTotal, Shape, KnownHaveRows, [Next]_vars
    PROVE  KnownHaveRows'
<1> SUFFICES ASSUME NEW r \in Runs, NEW d \in Stores, NEW s \in known'[r]
             PROVE  HasRow(d, s)'
  BY Zenon DEF KnownHaveRows, HasRow
<1>1. known'[r] = known[r] \/ known'[r] = {x \in Sessions : \A e \in Stores : HasRow(e, x)}
  <2>1. ASSUME NEW q \in Runs,
               \E failure \in [Regions \X Sessions -> BOOLEAN \cup {NoRow}] : StartRun(q, failure)
        PROVE  \/ known'[r] = known[r]
               \/ known'[r] = {x \in Sessions : \A e \in Stores : HasRow(e, x)}
    BY <2>1 DEF StartRun, Shape, ControlShape
  <2>2. \/ known' = known
        \/ \E q \in Runs, failure \in [Regions \X Sessions -> BOOLEAN \cup {NoRow}] :
               StartRun(q, failure)
    <3>1. UNCHANGED vars => known' = known
      BY DEF vars, historyVars, begunVars
    <3>2. ASSUME NEW t \in Task, Spawn(t) \/ Worker(t)
          PROVE  known' = known
      BY <3>2 DEF Spawn, Worker, Load, GiveUp, SessionStored, RegionSaved, historyVars, begunVars
    <3>3. ASSUME NEW t \in Task, NEW e \in Stores, StoreWorker(t, e)
          PROVE  known' = known
      BY <3>3 DEF StoreWorker, GetSession, CreateSession, GetRegion, CreateRegion, UpdateRegion,
                  StoreCallFails, historyVars, begunVars
    <3>4. ASSUME NEW q \in Runs,
                 \/ SaveEnds(q) \/ RunEnds(q)
                 \/ \E x \in Sessions : Aggregates(q, x)
                 \/ \E x \in Sessions, e \in Stores : Aggregator(q, x, e)
          PROVE  known' = known
      BY <3>4 DEF SaveEnds, RunEnds, Aggregates, Aggregator, GetSessionRegions, UpdateSession,
                  AggregationFails, historyVars, begunVars
    <3> QED
      BY <3>1, <3>2, <3>3, <3>4, NextCases
  <2> QED
    BY <2>1, <2>2
<1>2. s \in Sessions /\ HasRow(d, s)
  BY <1>1 DEF KnownHaveRows, Shape, ControlShape
<1> QED
  BY <1>2, RowsStay

LEMMA OvertakenStay == [Next]_vars => overtaken \subseteq overtaken'
<1> SUFFICES ASSUME [Next]_vars
             PROVE  overtaken \subseteq overtaken'
  OBVIOUS
<1>1. UNCHANGED overtaken \/ \E t \in Task, d \in Stores : Overtake(t, d)
  BY NextCases DEF vars, StartRun, SaveEnds, RunEnds, Spawn, Worker, Load, GiveUp, SessionStored,
                   RegionSaved, StoreWorker, GetSession, CreateSession, GetRegion, CreateRegion,
                   UpdateRegion, StoreCallFails, Aggregates, Aggregator, GetSessionRegions,
                   UpdateSession, AggregationFails, historyVars, lateVars
<1> QED
  BY <1>1 DEF Overtake

\* What was saved of a region stays in its row: a row is created where there
\* is none, and an update appends to its list.
LEMMA SavedStays ==
    ASSUME NoRowHasNoTotal, Shape, TypeIInv, [Next]_vars,
           NEW t \in Task, NEW d \in Stores, Saved(t, d)
    PROVE  Saved(t, d)'
<1> DEFINE old == regionTable[d][Key(t)]
<1>1. CASE regionTable'[d][Key(t)] = regionTable[d][Key(t)]
  BY <1>1 DEF Saved, Key
<1>2. ASSUME NEW u \in Task, NEW e \in Stores, CreateRegion(u, e)
      PROVE  regionTable'[d][Key(t)] = regionTable[d][Key(t)]
  <2>1. \/ regionTable' = regionTable
        \/ /\ regionTable[e][Key(u)] = NoRow
           /\ regionTable' = [regionTable EXCEPT ![e][Key(u)] = region[u]]
    BY <1>2 DEF CreateRegion
  <2> QED
    BY <2>1, TaskFacts DEF Shape, TableShape, Saved
<1>3. ASSUME NEW u \in Task, NEW e \in Stores, UpdateRegion(u, e)
      PROVE  Saved(t, d)'
  <2>1. /\ worker[u] = "region" /\ step[u][e] = "update"
        /\ regionTable' = [regionTable EXCEPT ![e][Key(u)] =
                               UpdatedRow(u, regionTable[e][Key(u)], storeRegion[u][e])]
    BY <1>3 DEF UpdateRegion
  <2>2. CASE ~(e = d /\ Key(u) = Key(t))
    <3>1. regionTable'[d][Key(t)] = regionTable[d][Key(t)]
      BY <2>1, <2>2, TaskFacts DEF Shape, TableShape
    <3> QED
      BY <1>1, <3>1
  <2>3. CASE e = d /\ Key(u) = Key(t)
    <3> DEFINE read == storeRegion[u][e]
    <3>1. old \in RegionRow
      BY <2>1, <2>3 DEF TypeIInv, RowIInv, UpdatesHaveRows
    <3>2. regionTable'[d][Key(t)] = UpdatedRow(u, old, read)
      BY <2>1, <2>3, TaskFacts DEF Shape, TableShape
    <3>3. Lists(old, t.run)
      BY DEF Saved, Lists
    <3> HIDE DEF old, read
    <3>4. Lists(UpdatedRow(u, old, read), t.run)
      BY <3>1, <3>3, UpdatedRowLists
    <3>5. UpdatedRow(u, old, read) # NoRow
      BY RowsAreRows
    <3> QED
      BY <3>2, <3>4, <3>5, Zenon DEF Saved, Lists, Key
  <2> QED
    BY <2>2, <2>3
<1>4. \/ UNCHANGED regionTable
      \/ \E u \in Task, e \in Stores : CreateRegion(u, e) \/ UpdateRegion(u, e)
  BY NextCases DEF vars, StartRun, SaveEnds, RunEnds, Spawn, Worker, Load, GiveUp,
                   SessionStored, RegionSaved, StoreWorker, GetSession, CreateSession, GetRegion,
                   StoreCallFails, Aggregates, Aggregator, GetSessionRegions, UpdateSession,
                   AggregationFails
<1> QED
  BY <1>1, <1>2, <1>3, <1>4

\* A goroutine whose own variables and call do not change stays as far.
LEMMA IntactElsewhere ==
    ASSUME NoRowHasNoTotal, Shape, TypeIInv, RegionIInv, KnownIInv, [Next]_vars,
           NEW t \in Task, NEW d \in Stores, Intact(t), Intact(t)',
           UNCHANGED worker[t], UNCHANGED step[t][d], UNCHANGED region[t]
    PROVE  /\ worker'[t] = "session" => step'[t][d] \in {"get", "ok"}
           /\ worker'[t] = "region" => /\ region'[t] # NoRow
                                       /\ step'[t][d] # "idle"
                                       /\ step'[t][d] = "ok" => Saved(t, d)'
                                       /\ step'[t][d] = "error" => Refused(t, d)'
           /\ worker'[t] = "gone" => Saved(t, d)' \/ Refused(t, d)'
<1>1. (Saved(t, d) => Saved(t, d)') /\ (Refused(t, d) => Refused(t, d)')
  BY SavedStays, OvertakenStay DEF Refused
<1> QED
  BY <1>1 DEF KnownIInv, IntactGoOn

LEMMA IntactWorker ==
    ASSUME NoRowHasNoTotal, Shape, TypeIInv, RegionIInv, KnownIInv, [Next]_vars,
           NEW u \in Task, Spawn(u) \/ Worker(u)
    PROVE  IntactGoOn'
<1> USE DEF KnownIInv, Shape, ControlShape
<1> SUFFICES ASSUME NEW t \in Task, NEW d \in Stores, Intact(t)'
             PROVE  /\ worker'[t] = "session" => step'[t][d] \in {"get", "ok"}
                    /\ worker'[t] = "region" =>
                           /\ region'[t] # NoRow
                           /\ step'[t][d] # "idle"
                           /\ step'[t][d] = "ok" => Saved(t, d)'
                           /\ step'[t][d] = "error" => Refused(t, d)'
                    /\ worker'[t] = "gone" => Saved(t, d)' \/ Refused(t, d)'
  BY Zenon DEF IntactGoOn, Intact, Saved, Refused, Key
<1>1. UNCHANGED <<failures, snapshot, known, regionTable>>
  BY DEF Spawn, Worker, Load, GiveUp, SessionStored, RegionSaved, historyVars, begunVars
<1>2. Intact(t)
  BY <1>1 DEF Intact
<1>3. CASE u # t
  <2>1. UNCHANGED worker[t] /\ UNCHANGED step[t][d] /\ UNCHANGED region[t]
    BY <1>3 DEF Spawn, Worker, Load, GiveUp, SessionStored, RegionSaved, Leave, LocalShape
  <2> QED
    BY <1>2, <2>1, IntactElsewhere
<1>4. CASE u = t
  <2>1. CASE Spawn(t)
    BY <2>1 DEF Spawn
  <2>2. CASE Load(t) \/ SessionStored(t)
    <3>1. /\ worker'[t] \in {"session", "region"}
          /\ step'[t][d] = "get"
          /\ worker'[t] = "region" => region'[t] = NewRow(t)
      BY <2>2 DEF Load, SessionStored, OnStores, LocalShape
    <3> QED
      BY <3>1, RowsAreRows
  <2>3. CASE GiveUp(t)
    <3>1. worker[t] = "session" /\ \E x \in Stores : step[t][x] = "error"
      BY <2>3 DEF GiveUp, SomeError
    <3> QED
      BY <1>2, <3>1 DEF IntactGoOn
  <2>4. CASE RegionSaved(t)
    <3>1. worker[t] = "region" /\ step[t][d] \in {"ok", "error"} /\ worker'[t] = "gone"
      BY <2>4 DEF RegionSaved, AllAnswered, Leave
    <3>2. Saved(t, d) \/ Refused(t, d)
      BY <1>2, <3>1 DEF IntactGoOn
    <3> QED
      BY <3>1, <3>2, SavedStays, OvertakenStay DEF Refused
  <2> QED
    BY <1>4, <2>1, <2>2, <2>3, <2>4 DEF Worker
<1> QED
  BY <1>3, <1>4

\* A call that fails is counted, so that an intact run has none.
LEMMA IntactStoreWorker ==
    ASSUME NoRowHasNoTotal, Shape, TypeIInv, RegionIInv, KnownIInv, [Next]_vars,
           NEW u \in Task, NEW x \in Stores, StoreWorker(u, x)
    PROVE  IntactGoOn'
<1> USE DEF KnownIInv, Shape, ControlShape
<1> SUFFICES ASSUME NEW t \in Task, NEW d \in Stores, Intact(t)'
             PROVE  /\ worker'[t] = "session" => step'[t][d] \in {"get", "ok"}
                    /\ worker'[t] = "region" =>
                           /\ region'[t] # NoRow
                           /\ step'[t][d] # "idle"
                           /\ step'[t][d] = "ok" => Saved(t, d)'
                           /\ step'[t][d] = "error" => Refused(t, d)'
                    /\ worker'[t] = "gone" => Saved(t, d)' \/ Refused(t, d)'
  BY Zenon DEF IntactGoOn, Intact, Saved, Refused, Key
<1>1. /\ UNCHANGED <<worker, snapshot, known>>
      /\ failures' = failures \/ CountFailure(u.run)
  BY DEF StoreWorker, GetSession, CreateSession, GetRegion, CreateRegion, UpdateRegion,
         StoreCallFails, WriteAnswered, historyVars, begunVars
<1>2. CountFailure(u.run) => failures'[u.run] # 0
  BY TaskFacts DEF CountFailure
<1>3. failures[t.run] = 0
  <2>1. CASE failures' = failures
    BY <2>1 DEF Intact
  <2>2. CASE CountFailure(u.run)
    <3>1. t.run # u.run
      BY <1>2, <2>2 DEF Intact
    <3>2. failures'[t.run] = failures[t.run]
      BY <2>2, <3>1, TaskFacts DEF CountFailure
    <3> QED
      BY <3>2 DEF Intact
  <2> QED
    BY <1>1, <2>1, <2>2
<1>4. Intact(t)
  BY <1>1, <1>3 DEF Intact
<1>5. CASE u # t
  <2>1. UNCHANGED worker[t] /\ UNCHANGED step[t][d] /\ UNCHANGED region[t]
    BY <1>1, <1>5 DEF StoreWorker, GetSession, CreateSession, GetRegion, CreateRegion,
                      UpdateRegion, StoreCallFails, WriteAnswered, Goto, LocalShape
  <2> QED
    BY <1>4, <2>1, IntactElsewhere
<1>6. CASE u = t
  <2>1. ~CountFailure(t.run)
    BY <1>2, <1>6 DEF Intact
  <2>2. \A s \in known[t.run] : \A e \in Stores : HasRow(e, s)
    BY TaskFacts DEF KnownHaveRows
  <2>3. HasRow(x, t.session) /\ HasRow(d, t.session)
    BY <1>4, <2>2 DEF Intact
  <2>4. CASE worker[t] = "session"
    <3>1. GetSession(t, x)
      BY <1>4, <1>6, <2>1, <2>4 DEF StoreWorker, CreateSession, GetRegion, CreateRegion,
                                    UpdateRegion, StoreCallFails, IntactGoOn
    <3>2. step' = [step EXCEPT ![t][x] = "ok"]
      BY <2>3, <3>1 DEF GetSession, Goto
    <3>3. step'[t][d] \in {"get", "ok"}
      BY <1>4, <2>4, <3>2 DEF IntactGoOn
    <3> QED
      BY <1>1, <2>4, <3>3
  <2>5. CASE worker[t] = "region"
    <3>1. /\ region[t] # NoRow
          /\ step[t][d] # "idle"
          /\ step[t][d] = "ok" => Saved(t, d)
          /\ step[t][d] = "error" => Refused(t, d)
      BY <1>4, <2>5 DEF IntactGoOn
    <3>2. /\ region'[t] # NoRow
          /\ \E to \in {"create", "update", "ok", "error"} :
                 /\ step' = [step EXCEPT ![t][x] = to]
                 /\ to = "ok" => Saved(t, x)'
                 /\ to = "error" => Refused(t, x)'
      <4>1. CASE GetRegion(t, x)
        BY <3>1, <4>1 DEF GetRegion, Goto
      <4>2. CASE CreateRegion(t, x) /\ regionTable[x][Key(t)] # NoRow
        <5>1. step' = [step EXCEPT ![t][x] = "error"] /\ region' = region
          BY <4>2 DEF CreateRegion, Goto
        <5>2. Refused(t, x)
          BY <2>5, <4>2 DEF CreateRegion, RegionIInv, ReadIsCurrent, Refused
        <5> QED
          BY <3>1, <5>1, <5>2, OvertakenStay DEF Refused
      <4>3. CASE CreateRegion(t, x) /\ regionTable[x][Key(t)] = NoRow
        <5>1. /\ regionTable' = [regionTable EXCEPT ![x][Key(t)] = region[t]]
              /\ step' = [step EXCEPT ![t][x] = "ok"]
              /\ region' = region
          BY <2>1, <3>1, <4>3 DEF CreateRegion, WriteAnswered, Goto
        <5>2. regionTable'[x][Key(t)] = region[t]
          BY <5>1, TaskFacts DEF TableShape
        <5>3. Lists(region[t], t.run)
          BY <2>5, <3>1 DEF RegionIInv, VariableIsSound
        <5> QED
          BY <3>1, <5>1, <5>2, <5>3 DEF Saved, Key, Lists
      <4>4. CASE UpdateRegion(t, x)
        <5> DEFINE old == regionTable[x][Key(t)]
                   read == storeRegion[t][x]
        <5>1. old \in RegionRow
          BY <4>4 DEF UpdateRegion, TypeIInv, RowIInv, UpdatesHaveRows
        <5>2. /\ step' = [step EXCEPT ![t][x] = "ok"]
              /\ regionTable' = [regionTable EXCEPT ![x][Key(t)] = UpdatedRow(t, old, read)]
              /\ region' = [region EXCEPT ![t] = IF step'[t][x] = "ok"
                                                 THEN UpdatedRow(t, old, read) ELSE NoRow]
          BY <2>1, <4>4 DEF UpdateRegion, WriteAnswered, Goto
        <5>3. step'[t][x] = "ok"
          BY <5>2
        <5>4. /\ regionTable'[x][Key(t)] = UpdatedRow(t, old, read)
              /\ region'[t] = UpdatedRow(t, old, read)
          BY <5>2, <5>3, TaskFacts DEF TableShape, LocalShape
        <5> HIDE DEF old, read
        <5>5. Lists(UpdatedRow(t, old, read), t.run) /\ UpdatedRow(t, old, read) # NoRow
          BY <5>1, UpdatedRowLists, RowsAreRows
        <5>6. Saved(t, x)'
          BY <5>4, <5>5, Zenon DEF Saved, Lists, Key
        <5> QED
          BY <5>2, <5>4, <5>5, <5>6
      <4> QED
        BY <1>6, <2>1, <2>5, <4>1, <4>2, <4>3, <4>4
           DEF StoreWorker, GetSession, CreateSession, StoreCallFails
    <3>3. (Saved(t, d) => Saved(t, d)') /\ (Refused(t, d) => Refused(t, d)')
      BY SavedStays, OvertakenStay DEF Refused
    <3>4. CASE x = d
      BY <1>1, <2>5, <3>2, <3>4
    <3>5. CASE x # d
      <4>1. step'[t][d] = step[t][d]
        BY <3>2, <3>5
      <4> QED
        BY <1>1, <2>5, <3>1, <3>2, <3>3, <4>1
    <3> QED
      BY <3>4, <3>5
  <2> QED
    BY <1>6, <2>4, <2>5 DEF StoreWorker, GetSession, CreateSession, GetRegion, CreateRegion,
                            UpdateRegion, StoreCallFails
<1> QED
  BY <1>5, <1>6

LEMMA IntactOthers ==
    ASSUME NoRowHasNoTotal, Shape, TypeIInv, Control, RegionIInv, KnownIInv, [Next]_vars,
           NEW r \in Runs,
           \/ SaveEnds(r) \/ RunEnds(r)
           \/ \E failure \in [Regions \X Sessions -> BOOLEAN \cup {NoRow}] : StartRun(r, failure)
           \/ \E s \in Sessions : Aggregates(r, s)
           \/ \E s \in Sessions, d \in Stores : Aggregator(r, s, d)
    PROVE  IntactGoOn'
<1> USE DEF KnownIInv, Shape, ControlShape
<1> SUFFICES ASSUME NEW t \in Task, NEW d \in Stores, Intact(t)'
             PROVE  /\ worker'[t] = "session" => step'[t][d] \in {"get", "ok"}
                    /\ worker'[t] = "region" =>
                           /\ region'[t] # NoRow
                           /\ step'[t][d] # "idle"
                           /\ step'[t][d] = "ok" => Saved(t, d)'
                           /\ step'[t][d] = "error" => Refused(t, d)'
                    /\ worker'[t] = "gone" => Saved(t, d)' \/ Refused(t, d)'
  BY Zenon DEF IntactGoOn, Intact, Saved, Refused, Key
<1>1. UNCHANGED <<worker, step, region>>
  BY DEF SaveEnds, RunEnds, StartRun, Aggregates, Aggregator, GetSessionRegions, UpdateSession,
         AggregationFails, saveVars
<1>2. failures[t.run] = 0
  <2>1. failures' = failures \/ CountFailure(r)
    BY DEF SaveEnds, RunEnds, StartRun, Aggregates, Aggregator, GetSessionRegions,
           UpdateSession, AggregationFails
  <2>2. CASE failures' = failures
    BY <2>2 DEF Intact
  <2>3. CASE CountFailure(r)
    BY <2>3, TaskFacts DEF CountFailure, Intact
  <2> QED
    BY <2>1, <2>2, <2>3
<1>3. CASE snapshot'[t] = snapshot[t] /\ known'[t.run] = known[t.run]
  <2>1. Intact(t)
    BY <1>2, <1>3 DEF Intact
  <2> QED
    BY <1>1, <2>1, IntactElsewhere
<1>4. CASE worker[t] = "none"
  BY <1>1, <1>4
<1>5. \/ snapshot'[t] = snapshot[t] /\ known'[t.run] = known[t.run]
      \/ worker[t] = "none"
  <2>1. ASSUME \E failure \in [Regions \X Sessions -> BOOLEAN \cup {NoRow}] : StartRun(r, failure)
        PROVE  \/ snapshot'[t] = snapshot[t] /\ known'[t.run] = known[t.run]
               \/ worker[t] = "none"
    BY <2>1, TaskFacts DEF StartRun, Control, WorkersInSave
  <2> QED
    BY <2>1 DEF SaveEnds, RunEnds, Aggregates, Aggregator, GetSessionRegions, UpdateSession,
                AggregationFails, saveVars, historyVars, begunVars
<1> QED
  BY <1>3, <1>4, <1>5

LEMMA KnownStep ==
    ASSUME NoRowHasNoTotal, Shape, TypeIInv, Control, RegionIInv, KnownIInv, [Next]_vars
    PROVE  KnownIInv'
<1>1. KnownHaveRows'
  BY KnownRowsStep DEF KnownIInv
<1>2. ASSUME UNCHANGED vars
      PROVE  IntactGoOn'
  <2>1. UNCHANGED <<worker, step, region, failures, snapshot, known, regionTable, overtaken>>
    BY <1>2 DEF vars, saveVars, historyVars, begunVars, lateVars
  <2>2. IntactGoOn
    BY DEF KnownIInv
  <2> QED
    BY <2>1, <2>2 DEF IntactGoOn, Intact, Saved, Refused, Key
<1>3. IntactGoOn'
  BY <1>2, NextCases, IntactWorker, IntactStoreWorker, IntactOthers
<1> QED
  BY <1>1, <1>3 DEF KnownIInv

\* However the runs overlap, a run none of whose store calls failed has saved
\* every region's data of the sessions every store held when it began, in every
\* store, but where another run created the row that it was about to create.
THEOREM KnownSessionsSavedHolds == NoRowHasNoTotal => (Spec => []KnownSessionsSaved)
<1> SUFFICES ASSUME NoRowHasNoTotal
             PROVE  Spec => []KnownSessionsSaved
  OBVIOUS
<1>1. Shape /\ TypeIInv /\ Control /\ RegionIInv /\ KnownIInv /\ [Next]_vars => KnownIInv'
  BY KnownStep
<1>2. Control /\ KnownIInv => KnownSessionsSaved
  BY TaskFacts DEF Control, AllTasksEnded, KnownIInv, IntactGoOn, Intact, Refused,
                   KnownSessionsSaved, RanWithoutFailure
<1> QED
  BY KnownInit, ShapeHolds, TypeHolds, ControlHolds, RegionHolds, <1>1, <1>2, PTL DEF Spec

================================================================================
