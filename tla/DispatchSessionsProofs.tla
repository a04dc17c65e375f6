------------------------- MODULE DispatchSessionsProofs -------------------------
(***************************************************************************)
(* Proofs about DispatchSessions for every set of applications and caches, *)
(* every batch size and every bound on the concurrency.                    *)
(***************************************************************************)
EXTENDS DispatchSessions, FiniteSetTheorems, TLAPS

\* What BatchWriterProofs proves of the batch writer, for the writer of a run.
Proved == INSTANCE BatchWriterProofs
              WITH Producers <- Sessions, Keys <- Sessions, Values <- Heights,
                   NoValue <- NotCached, MaxSent <- Cardinality(Sessions)

--------------------------------------------------------------------------------
(* The batch writer inside the run *)

LEMMA WriterAssumption == Proved!BatchWriterAssumption
BY FS_CardinalityType, DispatchAssumption
DEF Proved!BatchWriterAssumption, Heights, NotCached

\* The two instances of BatchWriter are the same specification.
LEMMA SameInit == Writer!Init => Proved!Init
BY DEF Writer!Init, Proved!Init, Writer!Content, Proved!Content

LEMMA SameSteps ==
    /\ \A cs : Writer!Start(cs) => Proved!Start(cs)
    /\ \A p, i : Writer!Send(p, i) => Proved!Send(p, i)
    /\ \A p : Writer!ProducerDone(p) => Proved!ProducerDone(p)
    /\ Writer!Close => Proved!Close
    /\ Writer!ReceiveItem => Proved!ReceiveItem
    /\ Writer!ReceiveClosed => Proved!ReceiveClosed
    /\ Writer!BatchWritten => Proved!BatchWritten
<1>. USE DEF Writer!monitorVars, Proved!monitorVars, Writer!historyVars, Proved!historyVars, Writer!HasRoom, Proved!HasRoom, Writer!Full, Proved!Full
<1>1. \A cs : Writer!Start(cs) => Proved!Start(cs)
  BY DEF Writer!Start, Proved!Start
<1>2. \A p, i : Writer!Send(p, i) => Proved!Send(p, i)
  BY DEF Writer!Send, Proved!Send
<1>3. \A p : Writer!ProducerDone(p) => Proved!ProducerDone(p)
  BY DEF Writer!ProducerDone, Proved!ProducerDone
<1>4. Writer!Close => Proved!Close
  BY DEF Writer!Close, Proved!Close
<1>5. Writer!ReceiveItem => Proved!ReceiveItem
  BY DEF Writer!ReceiveItem, Proved!ReceiveItem
<1>6. Writer!ReceiveClosed => Proved!ReceiveClosed
  BY DEF Writer!ReceiveClosed, Proved!ReceiveClosed
<1>7. Writer!BatchWritten => Proved!BatchWritten
  BY DEF Writer!BatchWritten, Proved!BatchWritten
<1>. QED BY <1>1, <1>2, <1>3, <1>4, <1>5, <1>6, <1>7

LEMMA SamePipelines ==
    ASSUME NEW c, Writer!RunPipeline(c) PROVE Proved!RunPipeline(c)
<1>. USE DEF Writer!Content, Proved!Content, Writer!IsLatest, Proved!IsLatest, Writer!MayHold, Proved!MayHold, Writer!AfterPipeline, Proved!AfterPipeline, Writer!AfterFailure, Proved!AfterFailure
<1>1. Writer!PipelineSucceeds(c) => Proved!PipelineSucceeds(c)
  BY DEF Writer!PipelineSucceeds, Proved!PipelineSucceeds
<1>2. Writer!PipelineFails(c) => Proved!PipelineFails(c)
  BY DEF Writer!PipelineFails, Proved!PipelineFails
<1>. QED BY <1>1, <1>2 DEF Writer!RunPipeline, Proved!RunPipeline

--------------------------------------------------------------------------------
(* The inductive invariant *)

\* The service's own part of the type invariant; the semaphore is never held
\* more than Concurrency times because Spawn takes no slot past that.
ServiceTypes ==
    /\ main \in {"connect", "height", "apps", "spawn", "wait", "drain", "returned", "panicked"}
    /\ result \in Results
    /\ connected \in SUBSET Caches
    /\ open \in SUBSET connected
    /\ blockHeight \in 0..MaxHeight
    /\ pending \in SUBSET Sessions
    /\ worker \in [Sessions -> WorkerStates]
    /\ session \in [Sessions -> 0..MaxHeight]
    /\ slots \in 0..Concurrency
    /\ expired \in BOOLEAN
    /\ undispatched \in SUBSET Sessions

\* Every counted failure is that of a session of its own, and what is sent is
\* what Dispatch returned.
Bookkeeping ==
    /\ failedDispatcherCalls \in 0..Cardinality(undispatched)
    /\ \A s \in undispatched : worker[s] \in {"ended", "done", "gone"}
    /\ \A s \in pending : worker[s] = "none"
    /\ \A s \in Sessions : worker[s] = "send" => session[s] \in Heights

\* The senders are the goroutines that wg still counts; the connections are
\* closed after the monitor's exit.
Shutdown ==
    /\ senders = {s \in Sessions : worker[s] \notin {"done", "gone"}}
    /\ (connected # {} /\ open = {}) => pc = "exited"

DInv == ServiceTypes /\ Bookkeeping /\ Shutdown /\ Proved!IInv

LEMMA DInvInit == Init => DInv
<1>. SUFFICES ASSUME Init PROVE DInv
  OBVIOUS
<1>1. Proved!IInv
  BY WriterAssumption, SameInit, Proved!IInvInit DEF Init
<1>2. ServiceTypes
  <2>1. 0 \in 0..MaxHeight /\ 0 \in 0..Concurrency
    BY DispatchAssumption
  <2>. QED BY <2>1 DEF Init, ServiceTypes, Results, WorkerStates, NotCached
<1>3. Bookkeeping
  BY FS_EmptySet DEF Init, Bookkeeping
<1>4. Shutdown
  BY DEF Init, Shutdown, Writer!Init
<1>. QED BY <1>1, <1>2, <1>3, <1>4 DEF DInv

LEMMA WriterStep ==
    ASSUME ServiceTypes, Bookkeeping, [Next]_vars
    PROVE  [Proved!Next]_(Proved!vars) /\ [Writer!Next]_(Writer!vars)
<1>. DEFINE Goal == [Proved!Next]_(Proved!vars) /\ [Writer!Next]_(Writer!vars)
<1>1. ASSUME UNCHANGED writerVars PROVE Goal
  BY <1>1 DEF writerVars, Proved!vars, Writer!vars
<1>2. CASE GetStakedApplications
  <2>1. connected \in SUBSET Caches /\ Writer!Start(connected)
    BY <1>2 DEF GetStakedApplications, ServiceTypes
  <2>. QED BY <2>1, SameSteps DEF Proved!Next, Writer!Next
<1>3. ASSUME NEW s \in Sessions, SendSession(s) PROVE Goal
  <2>1. Writer!Send(s, [key |-> s, value |-> session[s]])
    BY <1>3 DEF SendSession
  <2>2. [key |-> s, value |-> session[s]] \in Writer!Item
    BY <1>3 DEF SendSession, Bookkeeping, Writer!Item
  <2>3. Writer!Item = Proved!Item
    BY DEF Writer!Item, Proved!Item
  <2>. QED BY <2>1, <2>2, <2>3, SameSteps DEF Proved!Next, Writer!Next
<1>4. ASSUME NEW s \in Sessions, WgDone(s) PROVE Goal
  BY <1>4, SameSteps DEF WgDone, Proved!Next, Writer!Next
<1>5. CASE CloseBatch
  BY <1>5, SameSteps DEF CloseBatch, Proved!Next, Writer!Next
<1>6. CASE Monitor
  BY <1>6, SameSteps DEF Monitor, Proved!Next, Writer!Next, Proved!Monitor, Writer!Monitor
<1>7. ASSUME NEW c \in Caches, RunPipeline(c) PROVE Goal
  <2>1. Writer!RunPipeline(c)
    BY <1>7 DEF RunPipeline, Writer!RunPipeline
  <2>. QED BY <2>1, SamePipelines DEF Proved!Next, Writer!Next
<1>. QED
  BY <1>1, <1>2, <1>3, <1>4, <1>5, <1>6, <1>7
  DEF Next, Main, Worker, Terminated, vars, Connect, ConnectFails, GetBlockHeight,
      GetBlockHeightFails, GetStakedApplicationsFails, Spawn, LoopEnds, Check, Dispatch,
      DispatchFails, Release, TooManyErrors, CloseConnections, Expire

LEMMA HeightsBounded == \A h \in Heights : h \in 0..MaxHeight
BY DispatchAssumption DEF Heights

LEMMA SlotsStep ==
    ASSUME slots \in 0..Concurrency, NEW s, Spawn(s) \/ Release(s)
    PROVE  slots' \in 0..Concurrency
<1>1. CASE Spawn(s)
  <2>1. slots' = slots \/ (slots < Concurrency /\ slots' = slots + 1)
    BY <1>1 DEF Spawn
  <2>. QED BY <2>1, DispatchAssumption
<1>2. CASE Release(s)
  <2>1. slots' = slots \/ (slots # 0 /\ slots' = slots - 1)
    BY <1>2 DEF Release
  <2>. QED BY <2>1, DispatchAssumption
<1>. QED BY <1>1, <1>2

LEMMA ServiceTypesStep ==
    ASSUME ServiceTypes, [Next]_vars
    PROVE  ServiceTypes'
<1>. USE DispatchAssumption DEF ServiceTypes, WorkerStates, Results, setupVars, workerVars
<1>1. CASE Main
  <2>1. ASSUME NEW cs \in SUBSET Caches, Connect(cs) PROVE ServiceTypes'
    BY <2>1 DEF Connect
  <2>2. CASE ConnectFails \/ GetBlockHeightFails \/ GetStakedApplicationsFails
    BY <2>2 DEF ConnectFails, GetBlockHeightFails, GetStakedApplicationsFails, Return
  <2>3. ASSUME NEW h \in Heights, GetBlockHeight(h) PROVE ServiceTypes'
    <3>1. h \in 0..MaxHeight
      BY HeightsBounded
    <3>. QED BY <2>3, <3>1 DEF GetBlockHeight
  <2>4. CASE GetStakedApplications
    BY <2>4 DEF GetStakedApplications
  <2>5. ASSUME NEW s \in Sessions, Spawn(s) PROVE ServiceTypes'
    <3>1. slots' \in 0..Concurrency
      BY <2>5, SlotsStep
    <3>. QED BY <2>5, <3>1 DEF Spawn
  <2>6. CASE LoopEnds \/ CloseBatch
    BY <2>6 DEF LoopEnds, CloseBatch
  <2>7. CASE TooManyErrors \/ CloseConnections
    BY <2>7 DEF TooManyErrors, CloseConnections, Return
  <2>. QED BY <1>1, <2>1, <2>2, <2>3, <2>4, <2>5, <2>6, <2>7 DEF Main
<1>2. ASSUME NEW s \in Sessions, Worker(s) PROVE ServiceTypes'
  <2>1. CASE Check(s)
    BY <2>1 DEF Check
  <2>2. ASSUME NEW h \in Heights, Dispatch(s, h) PROVE ServiceTypes'
    <3>1. h \in 0..MaxHeight
      BY HeightsBounded
    <3>. QED BY <2>2, <3>1 DEF Dispatch
  <2>3. CASE DispatchFails(s)
    BY <2>3 DEF DispatchFails
  <2>4. CASE SendSession(s) \/ WgDone(s)
    BY <2>4 DEF SendSession, WgDone
  <2>5. CASE Release(s)
    <3>1. slots' \in 0..Concurrency
      BY <2>5, SlotsStep
    <3>. QED BY <2>5, <3>1 DEF Release
  <2>. QED BY <1>2, <2>1, <2>2, <2>3, <2>4, <2>5 DEF Worker
<1>3. CASE Monitor
  BY <1>3 DEF Monitor, serviceVars
<1>4. ASSUME NEW c \in Caches, RunPipeline(c) PROVE ServiceTypes'
  BY <1>4 DEF RunPipeline, serviceVars
<1>5. CASE Expire
  BY <1>5 DEF Expire
<1>6. CASE UNCHANGED vars
  BY <1>6 DEF vars, serviceVars
<1>. QED BY <1>1, <1>2, <1>3, <1>4, <1>5, <1>6 DEF Next, Terminated

LEMMA BookkeepingStep ==
    ASSUME ServiceTypes, Bookkeeping, [Next]_vars
    PROVE  Bookkeeping'
<1>. USE DEF ServiceTypes, Bookkeeping, setupVars, workerVars
<1>0. IsFiniteSet(undispatched) /\ Cardinality(undispatched) \in Nat
  BY DispatchAssumption, FS_Subset, FS_CardinalityType
<1>1. ASSUME NEW s \in Sessions, Spawn(s) PROVE Bookkeeping'
  BY <1>1 DEF Spawn
<1>2. ASSUME NEW s \in Sessions, Check(s) PROVE Bookkeeping'
  BY <1>2 DEF Check
<1>3. ASSUME NEW s \in Sessions, NEW h \in Heights, Dispatch(s, h) PROVE Bookkeeping'
  BY <1>3 DEF Dispatch
<1>4. ASSUME NEW s \in Sessions, DispatchFails(s) PROVE Bookkeeping'
  <2>1. s \notin undispatched
    BY <1>4 DEF DispatchFails
  <2>2. Cardinality(undispatched') = Cardinality(undispatched) + 1
    BY <1>0, <1>4, <2>1, FS_AddElement DEF DispatchFails
  <2>3. failedDispatcherCalls' \in 0..Cardinality(undispatched')
    BY <1>0, <1>4, <2>2 DEF DispatchFails
  <2>. QED BY <1>4, <2>3 DEF DispatchFails
<1>5. ASSUME NEW s \in Sessions, SendSession(s) \/ WgDone(s) PROVE Bookkeeping'
  BY <1>5 DEF SendSession, WgDone
<1>6. ASSUME NEW s \in Sessions, Release(s) PROVE Bookkeeping'
  BY <1>6 DEF Release
<1>7. CASE UNCHANGED <<pending, workerVars>>
  BY <1>7
<1>. QED
  BY <1>1, <1>2, <1>3, <1>4, <1>5, <1>6, <1>7
  DEF Next, Main, Worker, Terminated, Monitor, RunPipeline, Expire, Connect, ConnectFails,
      GetBlockHeight, GetBlockHeightFails, GetStakedApplications, GetStakedApplicationsFails,
      LoopEnds, CloseBatch, TooManyErrors, CloseConnections, vars, serviceVars

\* The monitor stays exited, and only a goroutine's wg.Done() takes it off the
\* senders.
LEMMA ShutdownStep ==
    ASSUME ServiceTypes, Bookkeeping, Shutdown, [Next]_vars
    PROVE  Shutdown'
<1>. USE DEF ServiceTypes, Shutdown, setupVars, workerVars, writerVars
<1>1. ASSUME NEW cs \in SUBSET Caches, Connect(cs) PROVE Shutdown'
  BY <1>1 DEF Connect
<1>2. CASE GetStakedApplications
  BY <1>2 DEF GetStakedApplications, Writer!Start, Writer!historyVars
<1>3. ASSUME NEW s \in Sessions, Spawn(s) PROVE Shutdown'
  BY <1>3 DEF Spawn, Bookkeeping
<1>4. ASSUME NEW s \in Sessions, Check(s) PROVE Shutdown'
  BY <1>4 DEF Check
<1>5. ASSUME NEW s \in Sessions, NEW h \in Heights, Dispatch(s, h) PROVE Shutdown'
  BY <1>5 DEF Dispatch
<1>6. ASSUME NEW s \in Sessions, DispatchFails(s) PROVE Shutdown'
  BY <1>6 DEF DispatchFails
<1>7. ASSUME NEW s \in Sessions, SendSession(s) PROVE Shutdown'
  BY <1>7 DEF SendSession, Writer!Send, Writer!monitorVars
<1>8. ASSUME NEW s \in Sessions, WgDone(s) PROVE Shutdown'
  BY <1>8 DEF WgDone, Writer!ProducerDone, Writer!monitorVars
<1>9. ASSUME NEW s \in Sessions, Release(s) PROVE Shutdown'
  BY <1>9 DEF Release
<1>10. CASE CloseBatch
  BY <1>10 DEF CloseBatch, Writer!Close, Writer!monitorVars
<1>11. CASE CloseConnections
  BY <1>11 DEF CloseConnections
<1>12. CASE Monitor
  BY <1>12 DEF Monitor, serviceVars, Writer!Monitor, Writer!ReceiveItem, Writer!ReceiveClosed,
               Writer!BatchWritten, Writer!historyVars
<1>13. ASSUME NEW c \in Caches, RunPipeline(c) PROVE Shutdown'
  BY <1>13 DEF RunPipeline, serviceVars, Writer!PipelineSucceeds, Writer!PipelineFails
<1>14. CASE UNCHANGED <<connected, open, pc, senders, worker>>
  BY <1>14
<1>. QED
  BY <1>1, <1>2, <1>3, <1>4, <1>5, <1>6, <1>7, <1>8, <1>9, <1>10, <1>11, <1>12, <1>13, <1>14
  DEF Next, Main, Worker, Terminated, Expire, ConnectFails, GetBlockHeight,
      GetBlockHeightFails, GetStakedApplicationsFails, LoopEnds, TooManyErrors, vars,
      serviceVars

LEMMA DInvStep == DInv /\ [Next]_vars => DInv'
<1>. SUFFICES ASSUME DInv, [Next]_vars PROVE DInv'
  OBVIOUS
<1>1. ServiceTypes' /\ Bookkeeping' /\ Shutdown'
  BY ServiceTypesStep, BookkeepingStep, ShutdownStep DEF DInv
<1>2. Proved!IInv'
  BY WriterStep, WriterAssumption, Proved!IInvStep DEF DInv
<1>. QED BY <1>1, <1>2 DEF DInv

LEMMA DInvariant == Spec => []DInv
BY DInvInit, DInvStep, PTL DEF Spec

--------------------------------------------------------------------------------
(* Theorems *)

\* Every variable of a run keeps its type; in particular no more is taken from
\* the semaphore than it has, and no more failures are counted than sessions.
THEOREM TypeCorrect == Spec => []TypeOK
<1>1. DInv => TypeOK
  <2>. SUFFICES ASSUME DInv PROVE TypeOK
    OBVIOUS
  <2>1. failedDispatcherCalls \in 0..Cardinality(Sessions)
    <3>1. undispatched \in SUBSET Sessions /\ failedDispatcherCalls \in 0..Cardinality(undispatched)
      BY DEF DInv, ServiceTypes, Bookkeeping
    <3>2. /\ Cardinality(undispatched) <= Cardinality(Sessions)
          /\ Cardinality(undispatched) \in Nat /\ Cardinality(Sessions) \in Nat
      BY <3>1, DispatchAssumption, FS_Subset, FS_CardinalityType
    <3>. QED BY <3>1, <3>2
  <2>2. Writer!TypeOK
    BY DEF DInv, Proved!IInv, Writer!TypeOK, Proved!TypeOK, Writer!Item, Proved!Item,
           Writer!Content, Proved!Content
  <2>. QED BY <2>1, <2>2 DEF TypeOK, DInv, ServiceTypes
<1>. QED BY <1>1, DInvariant, PTL

\* A dispatcher run uses the batch writer as BatchWriter describes it, so the
\* theorems about BatchWriter hold inside every run.
THEOREM DrivesWriterHolds == Spec => DrivesWriter
<1>1. Init => Writer!Init
  BY DEF Init
<1>2. DInv /\ [Next]_vars => [Writer!Next]_(Writer!vars)
  BY WriterStep DEF DInv
<1>. QED BY <1>1, <1>2, DInvariant, PTL DEF Spec, DrivesWriter, Writer!Spec

\* No goroutine sends on the closed channel, whatever order they end in: the
\* channel is closed only when every one of them has called wg.Done().
THEOREM ClosedAfterLastSendHolds == Spec => []ClosedAfterLastSend
<1>1. DInv => ClosedAfterLastSend
  BY DEF DInv, Shutdown, ClosedAfterLastSend, Proved!IInv, Proved!Control
<1>. QED BY <1>1, DInvariant, PTL

\* No redis connection is used by a check or a pipeline after it was closed.
THEOREM NoUseAfterCloseHolds == Spec => []NoUseAfterClose
<1>1. DInv => NoUseAfterClose
  BY DEF DInv, Shutdown, NoUseAfterClose, Proved!IInv, Proved!Control
<1>. QED BY <1>1, DInvariant, PTL

--------------------------------------------------------------------------------
(* The semaphore *)

\* Until the deadline passes, what is held of the semaphore is what the
\* goroutines between Acquire and Release hold, one each.
Accounted == ~expired => slots = Cardinality(Holding)

LEMMA HoldingFinite ==
    ASSUME ServiceTypes
    PROVE  IsFiniteSet(Holding) /\ Cardinality(Holding) \in Nat
<1>1. Holding \in SUBSET Sessions
  BY DEF Holding
<1>. QED BY <1>1, DispatchAssumption, FS_Subset, FS_CardinalityType

LEMMA AccountedInit == Init => Accounted
<1>. SUFFICES ASSUME Init PROVE slots = Cardinality(Holding)
  BY DEF Accounted
<1>1. Holding = {}
  BY DEF Init, Holding
<1>. QED BY <1>1, FS_EmptySet DEF Init

LEMMA AccountedStep ==
    ASSUME ServiceTypes, ServiceTypes', Bookkeeping, Accounted, [Next]_vars
    PROVE  Accounted'
<1>. USE DEF ServiceTypes, Accounted, setupVars, workerVars, writerVars
<1>1. ASSUME NEW s \in Sessions, Spawn(s) PROVE Accounted'
  <2>. SUFFICES ASSUME ~expired PROVE slots' = Cardinality(Holding')
    BY <1>1 DEF Spawn
  <2>1. s \notin Holding /\ Holding' = Holding \cup {s}
    BY <1>1 DEF Spawn, Bookkeeping, Holding
  <2>2. slots' = slots + 1
    BY <1>1 DEF Spawn
  <2>. QED BY <2>1, <2>2, HoldingFinite, FS_AddElement
<1>2. ASSUME NEW s \in Sessions, Release(s) PROVE Accounted'
  <2>. SUFFICES ASSUME ~expired PROVE slots' = Cardinality(Holding')
    BY <1>2 DEF Release
  <2>1. s \in Holding /\ Holding' = Holding \ {s}
    BY <1>2 DEF Release, Holding
  <2>2. Cardinality(Holding') = Cardinality(Holding) - 1 /\ Cardinality(Holding') \in Nat
    BY <2>1, HoldingFinite, FS_RemoveElement, FS_CardinalityType
  <2>3. slots # 0
    BY <2>2, HoldingFinite
  <2>. QED BY <1>2, <2>2, <2>3 DEF Release
<1>3. CASE Holding' = Holding /\ slots' = slots /\ (expired => expired')
  BY <1>3
<1>4. ASSUME NEW s \in Sessions,
             \/ Check(s) \/ DispatchFails(s) \/ SendSession(s) \/ WgDone(s)
             \/ \E h \in Heights : Dispatch(s, h)
      PROVE  Accounted'
  <2>1. Holding' = Holding
    BY <1>4 DEF Check, DispatchFails, SendSession, WgDone, Dispatch, Holding
  <2>2. slots' = slots /\ expired' = expired
    BY <1>4 DEF Check, DispatchFails, SendSession, WgDone, Dispatch
  <2>. QED BY <1>3, <2>1, <2>2
<1>5. CASE worker' = worker /\ slots' = slots /\ (expired => expired')
  BY <1>3, <1>5 DEF Holding
<1>. QED
  BY <1>1, <1>2, <1>4, <1>5
  DEF Next, Main, Worker, Terminated, Expire, Connect, ConnectFails, GetBlockHeight,
      GetBlockHeightFails, GetStakedApplications, GetStakedApplicationsFails, LoopEnds,
      CloseBatch, TooManyErrors, CloseConnections, Monitor, RunPipeline, vars, serviceVars

\* Until the deadline passes no more than dispatchConcurrency goroutines are
\* between Acquire and Release.
THEOREM ConcurrencyBoundedHolds == Spec => []ConcurrencyBounded
<1>1. DInv /\ Accounted /\ [Next]_vars => Accounted'
  BY AccountedStep, DInvStep DEF DInv
<1>2. DInv /\ Accounted => ConcurrencyBounded
  BY DispatchAssumption DEF DInv, ServiceTypes, Accounted, ConcurrencyBounded
<1>. QED BY <1>1, <1>2, AccountedInit, DInvariant, PTL DEF Spec

--------------------------------------------------------------------------------
(* What the caches hold when the run returns *)

Over == {"ended", "done", "gone"}
Completed == {"ok", "close error", "too many errors"}

\* The caches of the writer are the connected ones; before the loop nothing
\* runs, and the run completes only after the monitor's exit.
Phases ==
    /\ main \in {"connect", "height", "apps"} => /\ pc = "idle"
                                                 /\ \A s \in Sessions : worker[s] = "none"
    /\ pc # "idle" => caches = connected
    /\ result \in Completed => pc = "exited"

\* What is on its way to the caches is what Dispatch returned, and everything
\* it returned is on its way, once its goroutine has sent it.
SentIsDispatched ==
    \A i \in DOMAIN sent : /\ worker[sent[i].key] \in Over
                           /\ sent[i].value = session[sent[i].key]
DispatchedIsSent ==
    \A s \in Sessions : session[s] # NotCached =>
        worker[s] = "send" \/ \E i \in DOMAIN sent : sent[i].key = s

\* A goroutine that ended without a dispatch found its session in as many
\* caches as it asked, where it still is: nobody else writes that session.
FoundStays ==
    \A s \in Sessions \ undispatched :
        worker[s] \in Over /\ session[s] = NotCached =>
            Cardinality({c \in connected : content[c][s] >= blockHeight}) >= ClientsToCheck

LEMMA PhasesStep ==
    ASSUME ServiceTypes, Phases, Proved!Control, [Next]_vars
    PROVE  Phases'
<1>. USE DEF ServiceTypes, Phases, Completed, setupVars, workerVars, writerVars
<1>1. ASSUME NEW cs \in SUBSET Caches, Connect(cs) PROVE Phases'
  BY <1>1 DEF Connect
<1>2. CASE ConnectFails \/ GetBlockHeightFails \/ GetStakedApplicationsFails
  BY <1>2 DEF ConnectFails, GetBlockHeightFails, GetStakedApplicationsFails, Return
<1>3. ASSUME NEW h \in Heights, GetBlockHeight(h) PROVE Phases'
  BY <1>3 DEF GetBlockHeight
<1>4. CASE GetStakedApplications
  BY <1>4 DEF GetStakedApplications, Writer!Start, Writer!historyVars
<1>5. ASSUME NEW s \in Sessions, Spawn(s) PROVE Phases'
  BY <1>5 DEF Spawn
<1>6. CASE LoopEnds
  BY <1>6 DEF LoopEnds
<1>7. CASE CloseBatch
  BY <1>7 DEF CloseBatch, Writer!Close, Writer!monitorVars
<1>8. CASE TooManyErrors \/ CloseConnections
  BY <1>8 DEF TooManyErrors, CloseConnections, Return
<1>9. ASSUME NEW s \in Sessions, Worker(s) PROVE Phases'
  <2>1. worker[s] # "none"
    BY <1>9 DEF Worker, Check, Dispatch, DispatchFails, SendSession, WgDone, Release
  <2>2. /\ main \notin {"connect", "height", "apps"}
        /\ main' \in {main, "panicked"}
        /\ UNCHANGED <<pc, caches, connected, result>>
    BY <1>9, <2>1
    DEF Worker, Check, Dispatch, DispatchFails, SendSession, WgDone, Release, Writer!Send,
        Writer!ProducerDone, Writer!monitorVars
  <2>. QED BY <2>2
<1>10. CASE Monitor
  BY <1>10 DEF Monitor, serviceVars, Writer!Monitor, Writer!ReceiveItem, Writer!ReceiveClosed,
               Writer!BatchWritten, Writer!historyVars
<1>11. ASSUME NEW c \in Caches, RunPipeline(c) PROVE Phases'
  BY <1>11 DEF RunPipeline, serviceVars, Writer!PipelineSucceeds, Writer!PipelineFails
<1>12. CASE Expire
  BY <1>12 DEF Expire
<1>13. CASE UNCHANGED vars
  BY <1>13 DEF vars, serviceVars
<1>. QED
  BY <1>1, <1>2, <1>3, <1>4, <1>5, <1>6, <1>7, <1>8, <1>9, <1>10, <1>11, <1>12, <1>13
  DEF Next, Main, Terminated

LEMMA ElementType == ASSUME NEW S, NEW q \in Seq(S), NEW i \in DOMAIN q PROVE q[i] \in S
OBVIOUS

LEMMA SentTypes ==
    ASSUME Proved!TypeOK, NEW i \in DOMAIN sent
    PROVE  sent[i].key \in Sessions /\ sent[i].value \in Heights
<1>1. sent \in Seq([key : Sessions, value : Heights])
  BY DEF Proved!TypeOK, Proved!Item
<1>2. sent[i] \in [key : Sessions, value : Heights]
  BY <1>1, ElementType
<1>. QED BY <1>2

LEMMA SentStep ==
    ASSUME ServiceTypes, Bookkeeping, Proved!TypeOK, SentIsDispatched, DispatchedIsSent,
           [Next]_vars
    PROVE  SentIsDispatched' /\ DispatchedIsSent'
<1>. USE DEF ServiceTypes, SentIsDispatched, DispatchedIsSent, Over, setupVars, workerVars,
             writerVars
<1>0. \A i \in DOMAIN sent : sent[i].key \in Sessions
  BY SentTypes
<1>1. ASSUME NEW s \in Sessions, Spawn(s) PROVE SentIsDispatched' /\ DispatchedIsSent'
  BY <1>0, <1>1 DEF Spawn, Bookkeeping
<1>2. ASSUME NEW s \in Sessions, Check(s) PROVE SentIsDispatched' /\ DispatchedIsSent'
  BY <1>0, <1>2 DEF Check
<1>3. ASSUME NEW s \in Sessions, NEW h \in Heights, Dispatch(s, h)
      PROVE  SentIsDispatched' /\ DispatchedIsSent'
  BY <1>0, <1>3 DEF Dispatch
<1>4. ASSUME NEW s \in Sessions, DispatchFails(s)
      PROVE  SentIsDispatched' /\ DispatchedIsSent'
  BY <1>0, <1>4 DEF DispatchFails
<1>5. ASSUME NEW s \in Sessions, SendSession(s)
      PROVE  SentIsDispatched' /\ DispatchedIsSent'
  <2>. DEFINE item == [key |-> s, value |-> session[s]]
  <2>1. /\ sent' = Append(sent, item)
        /\ worker' = [worker EXCEPT ![s] = "ended"]
        /\ session' = session
    BY <1>5 DEF SendSession, Writer!Send
  <2>2. sent \in Seq(Proved!Item) /\ item \in Proved!Item
    BY <1>5 DEF SendSession, Bookkeeping, Proved!TypeOK, Proved!Item, Proved!Content
  <2>3. /\ DOMAIN sent' = DOMAIN sent \cup {Len(sent) + 1}
        /\ \A i \in DOMAIN sent : sent'[i] = sent[i]
        /\ sent'[Len(sent) + 1] = item
    BY <2>1, <2>2
  <2>4. item.key = s /\ item.value = session[s]
    OBVIOUS
  <2>. HIDE DEF item
  <2>. QED BY <1>0, <2>1, <2>3, <2>4
<1>6. ASSUME NEW s \in Sessions, WgDone(s) \/ Release(s)
      PROVE  SentIsDispatched' /\ DispatchedIsSent'
  <2>1. /\ worker[s] \in Over /\ worker' \in [Sessions -> WorkerStates]
        /\ worker'[s] \in Over /\ \A t \in Sessions \ {s} : worker'[t] = worker[t]
        /\ UNCHANGED <<session, sent>>
    BY <1>6 DEF WgDone, Release, Writer!ProducerDone, WorkerStates
  <2>. QED BY <1>0, <2>1
<1>7. CASE UNCHANGED <<worker, session, sent>>
  BY <1>7
<1>. QED
  BY <1>1, <1>2, <1>3, <1>4, <1>5, <1>6, <1>7
  DEF Next, Main, Worker, Terminated, Expire, Connect, ConnectFails, GetBlockHeight,
      GetBlockHeightFails, GetStakedApplications, GetStakedApplicationsFails, LoopEnds,
      CloseBatch, TooManyErrors, CloseConnections, Monitor, RunPipeline, vars, serviceVars,
      Writer!Start, Writer!Close, Writer!Monitor, Writer!ReceiveItem, Writer!ReceiveClosed,
      Writer!BatchWritten, Writer!PipelineSucceeds, Writer!PipelineFails, Writer!historyVars

\* A pipeline writes no session whose goroutine sent nothing.
LEMMA PipelineLeavesOthers ==
    ASSUME Proved!TypeOK, Proved!Control, Proved!Conservation, SentIsDispatched,
           NEW c \in Caches, Proved!RunPipeline(c),
           NEW s \in Sessions, session[s] = NotCached, NEW d \in Caches
    PROVE  content'[d][s] = content[d][s]
<1>1. PICK new : /\ content' = [content EXCEPT ![c] = new]
                 /\ \/ Proved!IsLatest(content[c], items, s, new[s])
                    \/ Proved!MayHold(content[c], items, s, new[s])
  BY DEF Proved!RunPipeline, Proved!PipelineSucceeds, Proved!PipelineFails,
         Proved!AfterPipeline, Proved!AfterFailure, Proved!Content
<1>2. pc = "write" /\ c \in writing
  BY DEF Proved!RunPipeline, Proved!PipelineSucceeds, Proved!PipelineFails
<1>3. ASSUME NEW i \in DOMAIN items PROVE items[i].key # s
  <2>1. PICK j \in DOMAIN sent : sent[j] = items[i]
    BY <1>2, WriterAssumption, Proved!ItemsAreSent
  <2>2. sent[j].value \in Heights
    BY SentTypes
  <2>. QED BY <2>1, <2>2 DEF SentIsDispatched, Heights, NotCached
<1>4. new[s] = content[c][s]
  BY <1>1, <1>3 DEF Proved!IsLatest, Proved!MayHold
<1>. QED BY <1>1, <1>4 DEF Proved!TypeOK, Proved!Item, Proved!Content

LEMMA CheckFinds ==
    ASSUME ServiceTypes, NEW s \in Sessions, Check(s), worker'[s] \in Over
    PROVE  Cardinality({c \in connected : content[c][s] >= blockHeight}) >= ClientsToCheck
<1>. DEFINE Found == {c \in connected : content[c][s] >= blockHeight}
<1>1. PICK hits \in SUBSET Found : Cardinality(hits) = ClientsToCheck
  <2>1. PICK clients \in SUBSET connected :
            \E hits \in HitsAmong(clients, s) :
                worker' = [worker EXCEPT ![s] = IF Cardinality(hits) # ClientsToCheck
                                                THEN "dispatch" ELSE "ended"]
    BY DEF Check
  <2>2. PICK hits \in HitsAmong(clients, s) : Cardinality(hits) = ClientsToCheck
    BY <2>1 DEF ServiceTypes, Over
  <2>3. hits \in SUBSET Found
    BY <2>2 DEF HitsAmong
  <2>. QED BY <2>2, <2>3
<1>2. IsFiniteSet(Found)
  BY DispatchAssumption, FS_Subset DEF ServiceTypes
<1>3. Cardinality(hits) <= Cardinality(Found) /\ Cardinality(hits) \in Nat
      /\ Cardinality(Found) \in Nat
  BY <1>1, <1>2, FS_Subset, FS_CardinalityType
<1>. QED BY <1>1, <1>3

LEMMA FoundStep ==
    ASSUME DInv, Phases, SentIsDispatched, FoundStays, [Next]_vars
    PROVE  FoundStays'
<1>. USE DEF DInv, ServiceTypes, FoundStays, ClientsToCheck, Over, setupVars, workerVars,
             writerVars
<1>. DEFINE Found(s) == {c \in connected : content[c][s] >= blockHeight}
<1>1. ASSUME NEW cs \in SUBSET Caches, Connect(cs) PROVE FoundStays'
  BY <1>1 DEF Connect, Phases
<1>2. ASSUME NEW h \in Heights, GetBlockHeight(h) PROVE FoundStays'
  BY <1>2 DEF GetBlockHeight, Phases
<1>3. ASSUME NEW s \in Sessions, Spawn(s) PROVE FoundStays'
  BY <1>3 DEF Spawn
<1>4. ASSUME NEW s \in Sessions, Check(s) PROVE FoundStays'
  <2>1. ASSUME NEW t \in Sessions \ undispatched, worker'[t] \in Over, session[t] = NotCached
        PROVE  Cardinality(Found(t)) >= ClientsToCheck
    <3>1. CASE t = s
      BY <1>4, <2>1, <3>1, CheckFinds
    <3>2. CASE t # s
      BY <1>4, <2>1, <3>2 DEF Check
    <3>. QED BY <3>1, <3>2
  <2>. QED BY <1>4, <2>1 DEF Check
<1>5. ASSUME NEW s \in Sessions, NEW h \in Heights, Dispatch(s, h) PROVE FoundStays'
  BY <1>5 DEF Dispatch
<1>6. ASSUME NEW s \in Sessions, DispatchFails(s) PROVE FoundStays'
  BY <1>6 DEF DispatchFails
<1>7. ASSUME NEW s \in Sessions, SendSession(s) PROVE FoundStays'
  <2>1. session[s] # NotCached
    BY <1>7 DEF SendSession, Bookkeeping, Heights, NotCached
  <2>. QED BY <1>7, <2>1 DEF SendSession, Writer!Send
<1>8. ASSUME NEW s \in Sessions, WgDone(s) \/ Release(s) PROVE FoundStays'
  BY <1>8 DEF WgDone, Release, Writer!ProducerDone
<1>9. ASSUME NEW c \in Caches, RunPipeline(c) PROVE FoundStays'
  <2>1. Proved!RunPipeline(c)
    BY <1>9, SamePipelines DEF RunPipeline, Writer!RunPipeline
  <2>2. ASSUME NEW s \in Sessions \ undispatched, worker[s] \in Over, session[s] = NotCached
        PROVE  {d \in connected : content'[d][s] >= blockHeight} = Found(s)
    BY <2>1, <2>2, PipelineLeavesOthers DEF Proved!IInv
  <2>. QED BY <1>9, <2>2 DEF RunPipeline, serviceVars
<1>10. CASE UNCHANGED <<undispatched, worker, session, connected, content, blockHeight>>
  BY <1>10
<1>. QED
  BY <1>1, <1>2, <1>3, <1>4, <1>5, <1>6, <1>7, <1>8, <1>9, <1>10
  DEF Next, Main, Worker, Terminated, Expire, ConnectFails, GetBlockHeightFails,
      GetStakedApplications, GetStakedApplicationsFails, LoopEnds, CloseBatch, TooManyErrors,
      CloseConnections, Monitor, vars, serviceVars, Writer!Start, Writer!Close,
      Writer!Monitor, Writer!ReceiveItem, Writer!ReceiveClosed, Writer!BatchWritten,
      Writer!historyVars

\* When a run returns after its loop, whatever failed on the way and however
\* its goroutines were interleaved, a session it dispatched is held with that
\* height by every connected cache without a failed pipeline, and one it did
\* not dispatch is still up to date in as many caches as it asked.
THEOREM SettledOnReturnHolds == Spec => []SettledOnReturn
<1>. DEFINE SInv == Phases /\ SentIsDispatched /\ DispatchedIsSent /\ FoundStays
<1>1. Init => SInv /\ Proved!CleanCachesCurrent
  <2>. SUFFICES ASSUME Init PROVE SInv /\ Proved!CleanCachesCurrent
    OBVIOUS
  <2>1. Proved!CleanCachesCurrent
    BY WriterAssumption, SameInit, Proved!CurrentInit DEF Init
  <2>2. Phases /\ DispatchedIsSent /\ FoundStays
    BY DEF Init, Phases, DispatchedIsSent, FoundStays, Writer!Init, Over, Completed
  <2>3. SentIsDispatched
    <3>1. sent = <<>>
      BY DEF Init, Writer!Init
    <3>. QED BY <3>1 DEF SentIsDispatched
  <2>. QED BY <2>1, <2>2, <2>3
<1>2. DInv /\ SInv /\ Proved!CleanCachesCurrent /\ [Next]_vars
          => SInv' /\ Proved!CleanCachesCurrent'
  <2>. SUFFICES ASSUME DInv, SInv, Proved!CleanCachesCurrent, [Next]_vars
                PROVE  SInv' /\ Proved!CleanCachesCurrent'
    OBVIOUS
  <2>1. Proved!TypeOK /\ Proved!Control /\ ServiceTypes /\ Bookkeeping
    BY DEF DInv, Proved!IInv
  <2>2. Proved!CleanCachesCurrent'
    BY <2>1, WriterStep, WriterAssumption, Proved!CurrentStep
  <2>. QED BY <2>1, <2>2, PhasesStep, SentStep, FoundStep
<1>3. DInv /\ SInv /\ Proved!CleanCachesCurrent => SettledOnReturn
  <2>. SUFFICES ASSUME DInv, SInv, Proved!CleanCachesCurrent, result \in Completed,
                       NEW s \in Sessions \ undispatched
                PROVE  IF session[s] = NotCached
                       THEN Cardinality({c \in connected : content[c][s] >= blockHeight})
                                >= ClientsToCheck
                       ELSE \A c \in connected \ failed : content[c][s] = session[s]
    BY DEF SettledOnReturn, Completed
  <2>1. pc = "exited" /\ caches = connected /\ worker[s] \in Over
    <3>1. pc = "exited" /\ caches = connected
      BY DEF Phases
    <3>2. worker[s] \in {"done", "gone"}
      BY <3>1 DEF DInv, Proved!IInv, Proved!Control, Shutdown
    <3>. QED BY <3>1, <3>2 DEF Over
  <2>2. CASE session[s] = NotCached
    BY <2>1, <2>2 DEF FoundStays
  <2>3. CASE session[s] # NotCached
    <3>. SUFFICES ASSUME NEW c \in connected, c \notin failed
                  PROVE  content[c][s] = session[s]
      BY <2>3
    <3>1. PICK i \in DOMAIN sent : sent[i].key = s
      BY <2>1, <2>3 DEF DispatchedIsSent, Over
    <3>2. attempted[c] = sent /\ c \in Caches
      <4>1. attempted[c] \in Seq(Proved!Item) /\ c \in Caches
        BY DEF DInv, ServiceTypes, Proved!IInv, Proved!TypeOK, Proved!Item, Proved!Content
      <4>2. Proved!InFlight(c) = <<>> /\ batch = <<>>
        BY <2>1 DEF DInv, Proved!IInv, Proved!Control, Proved!InFlight
      <4>3. (attempted[c] \o <<>>) \o <<>> = sent
        BY <2>1, <4>2 DEF DInv, Proved!IInv, Proved!Conservation
      <4>. QED BY <4>1, <4>3, Proved!EmptyConcat
    <3>3. Proved!IsLatest(content[c], sent, s, content[c][s])
      BY <3>1, <3>2 DEF Proved!CleanCachesCurrent
    <3>4. PICK j \in DOMAIN sent : sent[j] = [key |-> s, value |-> content[c][s]]
      BY <3>1, <3>3 DEF Proved!IsLatest
    <3>. QED BY <3>4 DEF SentIsDispatched
  <2>. QED BY <2>2, <2>3
<1>. QED BY <1>1, <1>2, <1>3, DInvariant, PTL DEF Spec
================================================================================
