---------------------------- MODULE DispatchSessions ----------------------------
(***************************************************************************)
(* One run of the global dispatcher (global-dispatcher/cmd/dispatch):      *)
(* connect to the caches, ask for the block height and the staked          *)
(* applications, then for every application and chain a goroutine, at most *)
(* Concurrency at a time, that asks some caches whether the session is up  *)
(* to date, dispatches it if not and hands it to the batch writer. The     *)
(* batch writer is the module BatchWriter, whose actions this one takes    *)
(* together with the service's own.                                        *)
(***************************************************************************)
EXTENDS Naturals, Sequences, FiniteSets

CONSTANTS Sessions,         \* the application-chain pairs of the staked applications
          MaxHeight,        \* bound: block heights are 1..MaxHeight
          Caches,           \* redisConnectionStrings
          BatchSize,        \* cacheBatchSize
          Concurrency,      \* dispatchConcurrency
          MaxClients,       \* maxClientsCacheCheck
          MaxErrors,        \* maxDispatchersErrorsAllowed
          MayExpire         \* can the run's context reach its deadline?

ASSUME DispatchAssumption == /\ IsFiniteSet(Sessions)
                             /\ IsFiniteSet(Caches)
                             /\ MaxHeight \in Nat \ {0}
                             /\ BatchSize \in Nat
                             /\ Concurrency \in Nat \ {0}
                             /\ MaxClients \in Nat
                             /\ MaxErrors \in Nat
                             /\ MayExpire \in BOOLEAN

Heights == 1..MaxHeight
NotCached == 0

VARIABLES main,         \* where DispatchSessions is
          result,       \* what it returned
          connected,    \* the caches ConnectToCacheClients returned
          open,         \* the connections that have not been closed
          blockHeight,
          pending,      \* the sessions whose goroutine is not spawned yet
          worker,       \* where the goroutine of each session is
          session,      \* the height of the session its Dispatch returned
          slots,        \* how much of the semaphore is held
          failedDispatcherCalls,
          expired,      \* is the context past its deadline?
          undispatched  \* history: the sessions Dispatch returned no session for

\* The batch writer's own variables; see BatchWriter. The goroutines counted
\* by wg are its senders.
VARIABLES pc, batch, closed, items, ok, caches, writing, content, senders, sent,
          attempted, failed

writerVars == <<pc, batch, closed, items, ok, caches, writing, content, senders,
                sent, attempted, failed>>
setupVars == <<connected, blockHeight>>
workerVars == <<worker, session, slots, failedDispatcherCalls, undispatched>>
serviceVars == <<main, result, open, setupVars, pending, workerVars, expired>>
vars == <<serviceVars, writerVars>>

Writer == INSTANCE BatchWriter
              WITH Producers <- Sessions, Keys <- Sessions, Values <- Heights,
                   NoValue <- NotCached, MaxSent <- Cardinality(Sessions)

Init == /\ main = "connect"
        /\ result = "none"
        /\ connected = {}
        /\ open = {}
        /\ blockHeight = 0
        /\ pending = Sessions
        /\ worker = [s \in Sessions |-> "none"]
        /\ session = [s \in Sessions |-> NotCached]
        /\ slots = 0
        /\ failedDispatcherCalls = 0
        /\ expired = FALSE
        /\ undispatched = {}
        /\ Writer!Init

\* A panic in any goroutine ends the process.
Running == main # "panicked"

Return(r) == main' = "returned" /\ result' = r

--------------------------------------------------------------------------------
(* The main goroutine, up to the loop *)

\* ConnectToCacheClients skips the instances that cannot be reached.
Connect(cs) == /\ main = "connect"
               /\ cs # {}
               /\ connected' = cs
               /\ open' = cs
               /\ main' = "height"
               /\ UNCHANGED <<result, blockHeight, pending, workerVars, expired,
                              writerVars>>

ConnectFails == /\ main = "connect"
                /\ Return("connect error")
                /\ UNCHANGED <<open, setupVars, pending, workerVars, expired, writerVars>>

GetBlockHeight(h) == /\ main = "height"
                     /\ blockHeight' = h
                     /\ main' = "apps"
                     /\ UNCHANGED <<result, connected, open, pending, workerVars, expired,
                                    writerVars>>

\* The early returns leave the connections open.
GetBlockHeightFails ==
    /\ main = "height"
    /\ Return("height error")
    /\ UNCHANGED <<open, setupVars, pending, workerVars, expired, writerVars>>

GetStakedApplications ==
    /\ main = "apps"
    /\ main' = "spawn"
    /\ Writer!Start(connected)
    /\ UNCHANGED <<result, open, setupVars, pending, workerVars, expired>>

GetStakedApplicationsFails ==
    /\ main = "apps"
    /\ Return("apps error")
    /\ UNCHANGED <<open, setupVars, pending, workerVars, expired, writerVars>>

\* A bug to look for: the semaphore is not taken.
SpawnAnyway(s) == /\ main = "spawn"
                  /\ s \in pending
                  /\ slots' = slots + 1
                  /\ pending' = pending \ {s}
                  /\ worker' = [worker EXCEPT ![s] = "check"]
                  /\ UNCHANGED <<main, result, open, setupVars, session,
                                 failedDispatcherCalls, undispatched, expired, writerVars>>

\* The error of sem.Acquire is ignored: past the deadline the loop spawns the
\* goroutine even though the semaphore is full.
Spawn(s) == /\ main = "spawn"
            /\ s \in pending
            /\ \/ slots < Concurrency /\ slots' = slots + 1
               \/ slots >= Concurrency /\ expired /\ UNCHANGED slots
            /\ pending' = pending \ {s}
            /\ worker' = [worker EXCEPT ![s] = "check"]
            /\ UNCHANGED <<main, result, open, setupVars, session, failedDispatcherCalls,
                           undispatched, expired, writerVars>>

LoopEnds == /\ main = "spawn"
            /\ pending = {}
            /\ main' = "wait"
            /\ UNCHANGED <<result, open, setupVars, pending, workerVars, expired, writerVars>>

--------------------------------------------------------------------------------
(* The goroutine of one session *)

ClientsToCheck == IF Cardinality(connected) < MaxClients
                  THEN Cardinality(connected) ELSE MaxClients

\* ShouldDispatch asks ClientsToCheck caches, any of them, at once; hits are
\* those that answered with a session of this block height or a later one.
\* Past the deadline no redis call succeeds.
HitsAmong(clients, s) ==
    IF expired THEN {{}}
               ELSE SUBSET {c \in clients : content[c][s] >= blockHeight}

\* A bug to look for: one cache that is up to date is enough.
CheckAnyHit(s) ==
    /\ worker[s] = "check"
    /\ \E clients \in SUBSET connected :
          /\ Cardinality(clients) = ClientsToCheck
          /\ \E hits \in HitsAmong(clients, s) :
                worker' = [worker EXCEPT ![s] = IF hits = {} THEN "dispatch" ELSE "ended"]
    /\ UNCHANGED <<main, result, open, setupVars, pending, session, slots,
                   failedDispatcherCalls, undispatched, expired, writerVars>>

Check(s) ==
    /\ worker[s] = "check"
    /\ \E clients \in SUBSET connected :
          /\ Cardinality(clients) = ClientsToCheck
          /\ \E hits \in HitsAmong(clients, s) :
                worker' = [worker EXCEPT ![s] = IF Cardinality(hits) # ClientsToCheck
                                                THEN "dispatch" ELSE "ended"]
    /\ UNCHANGED <<main, result, open, setupVars, pending, session, slots,
                   failedDispatcherCalls, undispatched, expired, writerVars>>

\* The session carries the height at which the dispatcher node answered,
\* which may be behind or ahead of the run's blockHeight.
Dispatch(s, h) ==
    /\ worker[s] = "dispatch"
    /\ session' = [session EXCEPT ![s] = h]
    /\ worker' = [worker EXCEPT ![s] = "send"]
    /\ UNCHANGED <<main, result, open, setupVars, pending, slots, failedDispatcherCalls,
                   undispatched, expired, writerVars>>

\* Fewer nodes than a session needs is no error and is not counted; any
\* other failure is.
DispatchFails(s) ==
    /\ worker[s] = "dispatch"
    /\ failedDispatcherCalls' \in {failedDispatcherCalls, failedDispatcherCalls + 1}
    /\ undispatched' = undispatched \cup {s}
    /\ worker' = [worker EXCEPT ![s] = "ended"]
    /\ UNCHANGED <<main, result, open, setupVars, pending, session, slots, expired,
                   writerVars>>

SendSession(s) ==
    /\ worker[s] = "send"
    /\ Writer!Send(s, [key |-> s, value |-> session[s]])
    /\ worker' = [worker EXCEPT ![s] = "ended"]
    /\ UNCHANGED <<main, result, open, setupVars, pending, session, slots,
                   failedDispatcherCalls, undispatched, expired>>

\* The deferred calls run last in, first out: wg.Done() before sem.Release(1).
WgDone(s) == /\ worker[s] = "ended"
             /\ Writer!ProducerDone(s)
             /\ worker' = [worker EXCEPT ![s] = "done"]
             /\ UNCHANGED <<main, result, open, setupVars, pending, session, slots,
                            failedDispatcherCalls, undispatched, expired>>

\* Release of a semaphore nothing of which is held panics.
Release(s) == /\ worker[s] = "done"
              /\ worker' = [worker EXCEPT ![s] = "gone"]
              /\ IF slots = 0 THEN main' = "panicked" /\ UNCHANGED slots
                              ELSE slots' = slots - 1 /\ UNCHANGED main
              /\ UNCHANGED <<result, open, setupVars, pending, session,
                             failedDispatcherCalls, undispatched, expired, writerVars>>

--------------------------------------------------------------------------------
(* The batch writer's goroutines *)

Monitor == Writer!Monitor /\ UNCHANGED serviceVars

\* Past the deadline a pipeline fails before it sends anything.
RunPipeline(c) == /\ \/ ~expired /\ Writer!PipelineSucceeds(c)
                     \/ Writer!PipelineFails(c) /\ (expired => UNCHANGED content)
                     \/ expired /\ items = <<>> /\ Writer!PipelineSucceeds(c)
                  /\ UNCHANGED serviceVars

--------------------------------------------------------------------------------
(* The main goroutine, after the loop *)

\* A bug to look for: wg.Wait() is left out.
CloseBatchUnawaited ==
    /\ main = "wait"
    /\ closed' = TRUE
    /\ main' = "drain"
    /\ UNCHANGED <<result, open, setupVars, pending, workerVars, expired, pc, batch, items,
                   ok, caches, writing, content, senders, sent, attempted, failed>>

\* wg.Wait() returned.
CloseBatch == /\ main = "wait"
              /\ Writer!Close
              /\ main' = "drain"
              /\ UNCHANGED <<result, open, setupVars, pending, workerVars, expired>>

\* cacheWg.Wait() returned. Too many failed calls are returned as an error
\* before the connections are closed.
TooManyErrors ==
    /\ main = "drain"
    /\ pc = "exited"
    /\ failedDispatcherCalls > MaxErrors
    /\ Return("too many errors")
    /\ UNCHANGED <<open, setupVars, pending, workerVars, expired, writerVars>>

\* A bug to look for: cacheWg.Wait() is left out.
CloseConnectionsUnawaited ==
    /\ main = "drain"
    /\ failedDispatcherCalls <= MaxErrors
    /\ open' = {}
    /\ Return("ok") \/ Return("close error")
    /\ UNCHANGED <<setupVars, pending, workerVars, expired, writerVars>>

CloseConnections ==
    /\ main = "drain"
    /\ pc = "exited"
    /\ failedDispatcherCalls <= MaxErrors
    /\ open' = {}
    /\ Return("ok") \/ Return("close error")
    /\ UNCHANGED <<setupVars, pending, workerVars, expired, writerVars>>

\* context.WithTimeout of the command line tool, or the lambda's deadline.
Expire == /\ MayExpire
          /\ main # "returned"
          /\ ~expired
          /\ expired' = TRUE
          /\ UNCHANGED <<main, result, open, setupVars, pending, workerVars, writerVars>>

Main == \/ \E cs \in SUBSET Caches : Connect(cs)
        \/ ConnectFails
        \/ \E h \in Heights : GetBlockHeight(h)
        \/ GetBlockHeightFails
        \/ GetStakedApplications
        \/ GetStakedApplicationsFails
        \/ \E s \in Sessions : Spawn(s)
        \/ LoopEnds
        \/ CloseBatch
        \/ TooManyErrors
        \/ CloseConnections

Worker(s) == \/ Check(s)
             \/ \E h \in Heights : Dispatch(s, h)
             \/ DispatchFails(s)
             \/ SendSession(s)
             \/ WgDone(s)
             \/ Release(s)

\* The run is over; the explicit step lets TLC look for deadlocks.
Terminated == /\ main = "returned" => \A s \in Sessions : worker[s] \in {"none", "gone"}
              /\ main \in {"returned", "panicked"}
              /\ UNCHANGED vars

Next == \/ Running /\ \/ Main
                      \/ \E s \in Sessions : Worker(s)
                      \/ Monitor
                      \/ \E c \in Caches : RunPipeline(c)
                      \/ Expire
        \/ Terminated

Spec == Init /\ [][Next]_vars

\* Every call the goroutines make returns: redis and HTTP calls have their
\* own timeouts. Nothing forces the deadline to pass.
FairSpec == /\ Spec
            /\ WF_vars(Running /\ Main)
            /\ \A s \in Sessions : WF_vars(Running /\ Worker(s))
            /\ WF_vars(Running /\ Monitor)
            /\ \A c \in Caches : WF_vars(Running /\ RunPipeline(c))

--------------------------------------------------------------------------------

WorkerStates == {"none", "check", "dispatch", "send", "ended", "done", "gone"}
Results == {"none", "connect error", "height error", "apps error", "too many errors",
            "close error", "ok"}

TypeOK == /\ main \in {"connect", "height", "apps", "spawn", "wait", "drain", "returned",
                       "panicked"}
          /\ result \in Results
          /\ connected \in SUBSET Caches
          /\ open \in SUBSET connected
          /\ blockHeight \in 0..MaxHeight
          /\ pending \in SUBSET Sessions
          /\ worker \in [Sessions -> WorkerStates]
          /\ session \in [Sessions -> 0..MaxHeight]
          /\ slots \in 0..Concurrency
          /\ failedDispatcherCalls \in 0..Cardinality(Sessions)
          /\ expired \in BOOLEAN
          /\ undispatched \in SUBSET Sessions
          /\ Writer!TypeOK

\* The goroutines between Acquire and Release.
Holding == {s \in Sessions : worker[s] \notin {"none", "gone"}}

\* While the deadline has not passed, no more than Concurrency goroutines are
\* between the semaphore's Acquire and Release, whatever order they end in.
ConcurrencyBounded == ~expired => Cardinality(Holding) <= Concurrency

\* No goroutine may still send when the channel is closed: a send on a closed
\* channel would bring the process down.
ClosedAfterLastSend ==
    closed => \A s \in Sessions : worker[s] \notin {"check", "dispatch", "send"}

\* No connection is used once it is closed: by then the checks are over and
\* the last pipeline has ended.
NoUseAfterClose ==
    (connected # {} /\ open = {}) =>
        /\ writing = {} /\ pc = "exited"
        /\ \A s \in Sessions : worker[s] # "check"

\* When the run returns after its loop, a session that was dispatched is held
\* with exactly that height by every connected cache that had no failed
\* pipeline, and a session that was not dispatched was up to date in as many
\* caches as are checked, unless the dispatcher gave no session for it.
SettledOnReturn ==
    result \in {"ok", "close error", "too many errors"} =>
        \A s \in Sessions \ undispatched :
            IF session[s] = NotCached
            THEN Cardinality({c \in connected : content[c][s] >= blockHeight})
                     >= ClientsToCheck
            ELSE \A c \in connected \ failed : content[c][s] = session[s]

\* The service drives the batch writer as its contract expects, so what is
\* shown of BatchWriter holds inside the run.
DrivesWriter == Writer!Spec

\* DispatchSessions returns, whatever fails, and so reports the failed calls.
AlwaysReports == <>(main = "returned")
================================================================================
