--------------------------- MODULE ApplicationChecks ---------------------------
(***************************************************************************)
(* The fishermen's QoS checks as the lambda runs them:                     *)
(* RunApplicationChecks spawns a goroutine per application and chain, each *)
(* hands its session to the goroutine monitorAppBatch over the global      *)
(* channel application, and the monitor groups the sessions and invokes    *)
(* the checks of a whole group. A lambda process serves one invocation     *)
(* after another; the monitors of earlier invocations are still there.     *)
(*                                                                         *)
(* An invoked function (fishermen/cmd/perform-application-check) checks    *)
(* every application of its group in a goroutine of its own (see AppChecks *)
(* for one of them), and all of them write the maps of the response.       *)
(*                                                                         *)
(* The batch writer (see BatchWriter) appears as what it promises: it      *)
(* accepts results until its channel is closed.                            *)
(***************************************************************************)
EXTENDS Naturals, Sequences, FiniteSets

CONSTANTS Sessions,         \* the application-chain pairs of the staked applications
          AppOf,            \* the application each of them belongs to
          ChecksPerInvoke,  \* checksPerInvoke, also the capacity of the channel
          Concurrency,      \* dispatchConcurrency
          MayDrop,          \* can a goroutine end without handing over its session?
          MaxInvocations    \* bound: invocations one process serves

ASSUME ChecksAssumption == /\ IsFiniteSet(Sessions)
                           /\ ChecksPerInvoke \in Nat
                           /\ Concurrency \in Nat \ {0}
                           /\ MayDrop \in BOOLEAN
                           /\ MaxInvocations \in Nat \ {0}

Invocations == 1..MaxInvocations
TotalApps == Cardinality(Sessions)

\* What a goroutine sends to the monitor: its session and, with it, the batch
\* channel of its invocation and its own WaitGroup.
Message == [inv : Invocations, session : Sessions]
None == 0

VARIABLES inv,         \* the invocation being served, or the last one served
          handler,     \* where lambdaHandler is
          worker,      \* where the goroutine of each session is
          slots,       \* how much of the invocation's semaphore is held
          chan,        \* the application channel each invocation made
          monitor,     \* the channel each invocation's monitor receives from
          batch,       \* each monitor's map, as the set of its messages
          processed,   \* each monitor's processedApps
          checks,      \* the running performChecks: the messages whose results are not
                       \* cached yet, those being checked, those being written to the
                       \* response, and the wg to release
          closed,      \* the invocations whose batch channel has been closed
          panicked,
          dropped,     \* history: the messages that were never handed over
          replaced,    \* history: the messages whose place in a monitor's map another
                       \* message of the same application took
          invoked,     \* history: the messages some performChecks was started with
          repeated     \* history: was some message given to two performChecks?

handlerVars == <<inv, handler>>
monitorVars == <<monitor, batch, processed>>
historyVars == <<dropped, replaced, invoked, repeated>>
vars == <<handlerVars, worker, slots, chan, monitorVars, checks, closed, panicked,
          historyVars>>

\* The global variable application holds the channel of the latest invocation.
application == inv

Init == /\ inv = None
        /\ handler = "returned"
        /\ worker = [s \in Sessions |-> "none"]
        /\ slots = 0
        /\ chan = [k \in Invocations |-> <<>>]
        /\ monitor = [k \in Invocations |-> None]
        /\ batch = [k \in Invocations |-> {}]
        /\ processed = [k \in Invocations |-> 0]
        /\ checks = {}
        /\ closed = {}
        /\ panicked = FALSE
        /\ dropped = {}
        /\ replaced = {}
        /\ invoked = {}
        /\ repeated = FALSE

--------------------------------------------------------------------------------
(* lambdaHandler and RunApplicationChecks *)

\* The new channel and the new monitor, then the calls before the loop.
Invoke == /\ handler = "returned"
          /\ inv < MaxInvocations
          /\ inv' = inv + 1
          /\ handler' = "prepare"
          /\ worker' = [s \in Sessions |-> "none"]
          /\ slots' = 0
          /\ UNCHANGED <<chan, monitorVars, checks, closed, panicked, historyVars>>

Prepare == /\ handler = "prepare"
           /\ handler' \in {"loop", "returned"}
           /\ UNCHANGED <<inv, worker, slots, chan, monitorVars, checks, closed, panicked,
                          historyVars>>

\* A bug to look for: the semaphore is not taken.
SpawnUnbounded(s) == /\ handler = "loop"
                     /\ worker[s] = "none"
                     /\ slots' = slots + 1
                     /\ worker' = [worker EXCEPT ![s] = "session"]
                     /\ UNCHANGED <<handlerVars, chan, monitorVars, checks, closed, panicked,
                                    historyVars>>

\* wg.Add(1) and sem.Acquire, which waits for a free slot.
Spawn(s) == /\ handler = "loop"
            /\ worker[s] = "none"
            /\ slots < Concurrency
            /\ slots' = slots + 1
            /\ worker' = [worker EXCEPT ![s] = "session"]
            /\ UNCHANGED <<handlerVars, chan, monitorVars, checks, closed, panicked,
                           historyVars>>

LoopEnds == /\ handler = "loop"
            /\ \A s \in Sessions : worker[s] # "none"
            /\ handler' = "wait"
            /\ UNCHANGED <<inv, worker, slots, chan, monitorVars, checks, closed, panicked,
                           historyVars>>

\* wg.Wait() returned: close the batch channel. The rest of the run, up to
\* the handler's return, waits for the batch writer only.
CloseBatch == /\ handler = "wait"
              /\ \A s \in Sessions : worker[s] = "gone"
              /\ closed' = closed \cup {inv}
              /\ handler' = "returned"
              /\ UNCHANGED <<inv, worker, slots, chan, monitorVars, checks, panicked,
                             historyVars>>

--------------------------------------------------------------------------------
(* The goroutine of one session *)

Mine(s) == [inv |-> inv, session |-> s]

\* getSession found or dispatched a session and its blockchain is known.
GetSession(s) == /\ worker[s] = "session"
                 /\ worker' = [worker EXCEPT ![s] = "submit"]
                 /\ UNCHANGED <<handlerVars, slots, chan, monitorVars, checks, closed,
                                panicked, historyVars>>

\* It did not, or the blockchain is not in the database: the goroutine ends,
\* and the monitor does not hear of it.
GetSessionFails(s) == /\ MayDrop
                      /\ worker[s] = "session"
                      /\ worker' = [worker EXCEPT ![s] = "ended"]
                      /\ dropped' = dropped \cup {Mine(s)}
                      /\ UNCHANGED <<handlerVars, slots, chan, monitorVars, checks, closed,
                                     panicked, replaced, invoked, repeated>>

\* getAppToCheck: the send, then wg.Wait() until the monitor, or the checks,
\* release it. With ChecksPerInvoke 0 the channel is unbuffered.
HasRoom == \/ Len(chan[inv]) < ChecksPerInvoke
           \/ chan[inv] = <<>> /\ inv \in {monitor[k] : k \in Invocations}

GetAppToCheck(s) == /\ worker[s] = "submit"
                    /\ HasRoom
                    /\ chan' = [chan EXCEPT ![inv] = Append(@, Mine(s))]
                    /\ worker' = [worker EXCEPT ![s] = "waiting"]
                    /\ UNCHANGED <<handlerVars, slots, monitorVars, checks, closed, panicked,
                                   historyVars>>

\* sem.Release(1) and wg.Done(), in this order.
WorkerEnds(s) == /\ worker[s] = "ended"
                 /\ slots' = slots - 1
                 /\ worker' = [worker EXCEPT ![s] = "gone"]
                 /\ UNCHANGED <<handlerVars, chan, monitorVars, checks, closed, panicked,
                                historyVars>>

\* wg.Done() on the WaitGroup of message m: its goroutine goes on.
Released(m) == [worker EXCEPT ![m.session] = "ended"]

--------------------------------------------------------------------------------
(* monitorAppBatch *)

\* The head of the loop evaluates the global variable, whatever invocation it
\* belongs to by now, and blocks on that channel.
AwaitApp(k) == /\ k <= inv
               /\ monitor[k] = None
               /\ monitor' = [monitor EXCEPT ![k] = application]
               /\ UNCHANGED <<handlerVars, worker, slots, chan, batch, processed, checks,
                              closed, panicked, historyVars>>

\* A bug to look for: the map is keyed by application and chain.
PutSession(b, m) == b \cup {m}

\* batch[AppPublicKey] = app
Put(b, m) == {n \in b : AppOf[n.session] # AppOf[m.session]} \cup {m}

\* What loses its place to m.
GivesWay(b, m) == {n \in b : AppOf[n.session] = AppOf[m.session]}

\* A bug to look for: the size of the batch is not looked at.
FlushesOnlyComplete(k, m) == processed[k] + 1 < TotalApps

\* Not every application was processed, and the batch is not full.
KeepsCollecting(k, m) == /\ processed[k] + 1 < TotalApps
                         /\ Cardinality(Put(batch[k], m)) < ChecksPerInvoke

Receive(k, m) == /\ monitor[k] # None
                 /\ chan[monitor[k]] # <<>>
                 /\ m = Head(chan[monitor[k]])
                 /\ chan' = [chan EXCEPT ![monitor[k]] = Tail(@)]
                 /\ processed' = [processed EXCEPT ![k] = @ + 1]
                 /\ monitor' = [monitor EXCEPT ![k] = None]
                 /\ replaced' = replaced \cup GivesWay(batch[k], m)
                 /\ UNCHANGED <<handlerVars, slots, closed, panicked, dropped>>

\* The message is put in the batch and its goroutine released.
Collect(k, m) == /\ Receive(k, m)
                 /\ KeepsCollecting(k, m)
                 /\ batch' = [batch EXCEPT ![k] = Put(@, m)]
                 /\ worker' = Released(m)
                 /\ UNCHANGED <<checks, invoked, repeated>>

NewChecks(b, m) ==
    [stage |-> "invoke", left |-> b, checking |-> b, writing |-> {}, wg |-> m]

\* A bug to look for: the goroutine of the last message is released at once.
StartChecksReleasing(k, m) ==
    /\ Receive(k, m)
    /\ ~KeepsCollecting(k, m)
    /\ LET b == Put(batch[k], m)
       IN  /\ checks' = checks \cup {NewChecks(b, m)}
           /\ invoked' = invoked \cup b
           /\ repeated' = (repeated \/ b \cap invoked # {})
    /\ batch' = [batch EXCEPT ![k] = {}]
    /\ worker' = Released(m)

\* The message completes the batch: go performChecks(...), which releases the
\* goroutine of this message only when it ends.
StartChecks(k, m) ==
    /\ Receive(k, m)
    /\ ~KeepsCollecting(k, m)
    /\ LET b == Put(batch[k], m)
       IN  /\ checks' = checks \cup {NewChecks(b, m)}
           /\ invoked' = invoked \cup b
           /\ repeated' = (repeated \/ b \cap invoked # {})
    /\ batch' = [batch EXCEPT ![k] = {}]
    /\ UNCHANGED worker

--------------------------------------------------------------------------------
(* performChecks *)

Becomes(c, d) == /\ checks' = (checks \ {c}) \cup {d}
                 /\ UNCHANGED panicked

Goes(c, d) == /\ Becomes(c, d)
              /\ UNCHANGED <<handlerVars, worker, slots, chan, monitorVars, closed, historyVars>>

InvokeChecks(c) == /\ c.stage = "invoke"
                   /\ Goes(c, [c EXCEPT !.stage = "perform"])

\* The invoked function: the checks of one application are done, and its
\* goroutine writes their results to the maps of the response, unlocked.
BeginWrite(c, m) == /\ c.stage = "perform"
                    /\ m \in c.checking
                    /\ Goes(c, [c EXCEPT !.checking = @ \ {m}, !.writing = @ \cup {m}])

\* Of writes at the same time, one entry may get lost.
EndWrite(c, m) == /\ c.stage = "perform"
                  /\ m \in c.writing
                  /\ \E lost \in IF c.writing = {m} THEN {{}}
                                 ELSE {{}} \cup {{n} : n \in c.writing} :
                        Goes(c, [c EXCEPT !.writing = @ \ {m}, !.left = @ \ lost])

\* wg.Wait() of the invoked function, and its response.
Respond(c) == /\ c.stage = "perform"
              /\ c.checking = {} /\ c.writing = {}
              /\ Goes(c, [c EXCEPT !.stage = "cache"])

\* The results of one application go to the batch channel of the invocation
\* its message came with; a send on a closed channel panics.
CacheResults(c, m) == /\ c.stage = "cache"
                      /\ m \in c.left
                      /\ IF m.inv \in closed
                         THEN panicked' = TRUE /\ UNCHANGED checks
                         ELSE Becomes(c, [c EXCEPT !.left = @ \ {m}])
                      /\ UNCHANGED <<handlerVars, worker, slots, chan, monitorVars, closed,
                                     historyVars>>

\* The deferred wg.Done().
EndChecks(c) == /\ checks' = checks \ {c}
                /\ worker' = Released(c.wg)
                /\ UNCHANGED <<handlerVars, slots, chan, monitorVars, closed, panicked,
                               historyVars>>

\* A failed invocation drops the results of the whole batch.
InvokeFails(c) == c.stage = "invoke" /\ EndChecks(c)

\* A bug to look for: the death of the invoked function releases nobody.
WritesCollideUnreleased(c) ==
    /\ c.stage = "perform"
    /\ Cardinality(c.writing) > 1
    /\ checks' = checks \ {c}
    /\ UNCHANGED <<handlerVars, worker, slots, chan, monitorVars, closed, panicked,
                   historyVars>>

\* The Go runtime may also notice the writes at the same time, and ends the
\* invoked function: its response has no body, which is an error.
WritesCollide(c) == /\ c.stage = "perform"
                    /\ Cardinality(c.writing) > 1
                    /\ EndChecks(c)

ResultsCached(c) == c.stage = "cache" /\ c.left = {} /\ EndChecks(c)

Handler == \/ Invoke
           \/ Prepare
           \/ \E s \in Sessions : Spawn(s)
           \/ LoopEnds
           \/ CloseBatch

Worker(s) == \/ GetSession(s)
             \/ GetSessionFails(s)
             \/ GetAppToCheck(s)
             \/ WorkerEnds(s)

Monitor(k) == \/ AwaitApp(k)
              \/ \E m \in Message : Collect(k, m)
              \/ \E m \in Message : StartChecks(k, m)

PerformChecks(c) == \/ InvokeChecks(c)
                    \/ InvokeFails(c)
                    \/ \E m \in Message : BeginWrite(c, m) \/ EndWrite(c, m)
                    \/ WritesCollide(c)
                    \/ Respond(c)
                    \/ \E m \in c.left : CacheResults(c, m)
                    \/ ResultsCached(c)

\* The process has served its last invocation, or is gone; the explicit step
\* lets TLC look for deadlocks.
Terminated == /\ panicked \/ (handler = "returned" /\ inv = MaxInvocations)
              /\ UNCHANGED vars

Next == \/ ~panicked /\ \/ Handler
                        \/ \E s \in Sessions : Worker(s)
                        \/ \E k \in Invocations : Monitor(k)
                        \/ \E c \in checks : PerformChecks(c)
        \/ Terminated

Spec == Init /\ [][Next]_vars

\* HTTP, redis and lambda calls have timeouts, so every goroutine goes on.
\* Nothing forces another invocation.
FairSpec == /\ Spec
            /\ WF_vars(~panicked /\ handler # "returned" /\ Handler)
            /\ \A s \in Sessions : WF_vars(~panicked /\ Worker(s))
            /\ \A k \in Invocations : WF_vars(~panicked /\ Monitor(k))
            /\ WF_vars(~panicked /\ \E c \in checks : PerformChecks(c))

--------------------------------------------------------------------------------

WorkerStates == {"none", "session", "submit", "waiting", "ended", "gone"}

TypeOK == /\ inv \in 0..MaxInvocations
          /\ handler \in {"prepare", "loop", "wait", "returned"}
          /\ worker \in [Sessions -> WorkerStates]
          /\ slots \in 0..Concurrency
          /\ \A k \in Invocations : /\ chan[k] \in Seq(Message)
                                    /\ Len(chan[k]) <= ChecksPerInvoke + 1
          /\ monitor \in [Invocations -> 0..MaxInvocations]
          /\ batch \in [Invocations -> SUBSET Message]
          /\ processed \in [Invocations -> Nat]
          /\ \A c \in checks : /\ c.stage \in {"invoke", "perform", "cache"}
                               /\ c.left \subseteq Message /\ c.wg \in Message
                               /\ c.checking \cup c.writing \subseteq Message
                               /\ c.checking \cap c.writing = {}
          /\ closed \subseteq Invocations
          /\ panicked \in BOOLEAN
          /\ dropped \subseteq Message
          /\ replaced \subseteq Message
          /\ invoked \subseteq Message
          /\ repeated \in BOOLEAN

GroupLimit == IF ChecksPerInvoke = 0 THEN 1 ELSE ChecksPerInvoke

\* While checks run, the goroutine they still have to release keeps its run
\* from closing the batch channel. So results are sent on a closed channel
\* only by a group that a monitor of an earlier invocation put together from
\* the sessions of two invocations.
ChecksKeepBatchOpen == \A c \in checks : /\ c.wg.inv \notin closed
                                         /\ \A m \in c.left :
                                               m.inv \in closed => m.inv < c.wg.inv

\* A group never holds more than checksPerInvoke sessions, nor two of one
\* application, and no session is checked twice in a run.
GroupsAreSound == /\ \A c \in checks : /\ Cardinality(c.left) <= GroupLimit
                                       /\ \A m, n \in c.left :
                                            AppOf[m.session] = AppOf[n.session] => m = n
                  /\ ~repeated

\* The sessions that were handed over but that no checks were started with.
Lost == {s \in Sessions : Mine(s) \notin dropped \cup invoked}

RunCompleted == handler = "returned" /\ inv \in closed

\* The comment of RunApplicationChecks: it obtains all applications needed to
\* run QoS checks and performs them. Every session that was obtained has had
\* its checks started when the run returns.
AllChecked == RunCompleted => Lost = {}

\* What a completed run did not check is explained: while its session was in a
\* monitor's map, one of the same application took its place; or it is still
\* there, in a group that is smaller than a full one, whose monitor waits for
\* sessions that will not come: some were dropped, or went to the monitor of
\* another invocation. A second chain alone loses nothing, unless the two are
\* in one group.
LossIsBounded ==
    RunCompleted =>
        \A s \in Lost :
            \/ Mine(s) \in replaced
            \/ /\ dropped # {} \/ inv > 1
               /\ \E k \in Invocations : /\ Mine(s) \in batch[k]
                                          /\ processed[k] < TotalApps
                                          /\ Cardinality(batch[k]) < GroupLimit

\* An invocation always comes to its end: no goroutine waits for a release
\* that nobody makes, whichever calls fail, also when the invoked function
\* dies of its unlocked writes. Only a group of two invocations can end the
\* process before (see ChecksKeepBatchOpen).
HandlerReturns == (handler = "loop") ~> (handler = "returned" \/ (panicked /\ inv > 1))
================================================================================
