------------------------------ MODULE BatchWriter ------------------------------
(***************************************************************************)
(* The batch writer of shared/cache/batch.go: the goroutines of a service  *)
(* send items on a buffered channel; one monitor goroutine collects them   *)
(* and writes them to every connected redis, one pipeline per cache and    *)
(* per batch, all caches in parallel. The service closes the channel when  *)
(* its goroutines are done, and waits for the monitor to exit.             *)
(***************************************************************************)
EXTENDS Naturals, Sequences, FiniteSets

CONSTANTS Producers,  \* the goroutines that send items
          Keys,       \* the cache keys of the items
          Values,     \* the marshalled values of the items
          NoValue,    \* what a cache holds for a key that was never set
          Caches,     \* the redis instances
          BatchSize,  \* options.BatchSize, also the capacity of the channel
          MaxSent     \* bound: how many items the producers send in all

ASSUME BatchWriterAssumption == /\ BatchSize \in Nat
                                /\ MaxSent \in Nat
                                /\ NoValue \notin Values

Item == [key : Keys, value : Values]
Content == [Keys -> Values \cup {NoValue}]

VARIABLES pc,         \* the monitor: "idle", "receive", "write" or "exited"
          batch,      \* the channel's buffer
          closed,     \* has the channel been closed?
          items,      \* the monitor's current batch
          ok,         \* second result of the monitor's last receive
          caches,     \* options.Caches: the instances that were connected
          writing,    \* the caches whose goroutine of writeBatch still runs
          content,    \* what each redis holds
          senders,    \* the producers that have not finished
          sent,       \* history: the items sent on the channel, in order
          attempted,  \* history: per cache, the items of the executed pipelines
          failed      \* history: the caches one of whose pipelines failed

monitorVars == <<pc, items, ok, writing>>
historyVars == <<attempted, failed>>
vars == <<pc, batch, closed, items, ok, caches, writing, content, senders,
          sent, attempted, failed>>

Init == /\ pc = "idle"
        /\ batch = <<>>
        /\ closed = FALSE
        /\ items = <<>>
        /\ ok = TRUE
        /\ caches = {}
        /\ writing = {}
        /\ content \in [Caches -> Content]
        /\ senders = Producers
        /\ sent = <<>>
        /\ attempted = [c \in Caches |-> <<>>]
        /\ failed = {}

(***************************************************************************)
(* BatchWriter(): makes the channel and spawns the monitor.                *)
(***************************************************************************)
Start(cs) == /\ pc = "idle"
             /\ cs # {}
             /\ pc' = "receive"
             /\ caches' = cs
             /\ UNCHANGED <<batch, closed, items, ok, writing, content, senders,
                            sent, historyVars>>

\* A send completes when the buffer has room, or when the monitor waits for
\* it: with BatchSize 0 the channel is unbuffered.
HasRoom == \/ Len(batch) < BatchSize
           \/ pc = "receive" /\ batch = <<>>

Send(p, i) == /\ pc # "idle"
              /\ p \in senders
              /\ ~closed
              /\ HasRoom
              /\ Len(sent) < MaxSent
              /\ batch' = Append(batch, i)
              /\ sent' = Append(sent, i)
              /\ UNCHANGED <<monitorVars, closed, caches, content, senders,
                             historyVars>>

ProducerDone(p) == /\ pc # "idle"
                   /\ p \in senders
                   /\ senders' = senders \ {p}
                   /\ UNCHANGED <<monitorVars, batch, closed, caches, content,
                                  sent, historyVars>>

\* close(cacheBatch), after wg.Wait(): no producer is left.
Close == /\ pc # "idle"
         /\ senders = {}
         /\ ~closed
         /\ closed' = TRUE
         /\ UNCHANGED <<monitorVars, batch, caches, content, senders, sent,
                        historyVars>>

Full(its) == Len(its) >= BatchSize

(***************************************************************************)
(* monitorBatch: one receive. A closed channel first yields what is left   *)
(* in its buffer; only then is the receive's ok false, and the last batch, *)
(* possibly empty, is written.                                             *)
(***************************************************************************)
ReceiveItem == /\ pc = "receive"
               /\ batch # <<>>
               /\ batch' = Tail(batch)
               /\ items' = Append(items, Head(batch))
               /\ ok' = TRUE
               /\ IF Full(items')
                  THEN pc' = "write" /\ writing' = caches
                  ELSE UNCHANGED <<pc, writing>>
               /\ UNCHANGED <<closed, caches, content, senders, sent, historyVars>>

\* A bug to look for: the nil item of a closed channel joins the batch.
ReceiveClosedAppendingNil ==
    /\ pc = "receive"
    /\ batch = <<>>
    /\ closed
    /\ items' = Append(items, NoValue)
    /\ ok' = FALSE
    /\ pc' = "write"
    /\ writing' = caches
    /\ UNCHANGED <<batch, closed, caches, content, senders, sent, historyVars>>

\* A bug to look for: the monitor exits without writing the last batch.
ReceiveClosedDropping == /\ pc = "receive"
                         /\ batch = <<>>
                         /\ closed
                         /\ ok' = FALSE
                         /\ pc' = "exited"
                         /\ items' = <<>>
                         /\ UNCHANGED <<batch, closed, caches, writing, content, senders, sent,
                                        historyVars>>

\* A bug to look for: the result ok of the receive is not looked at.
ReceiveClosedUnnoticed == /\ pc = "receive"
                          /\ batch = <<>>
                          /\ closed
                          /\ pc' = "write"
                          /\ writing' = caches
                          /\ UNCHANGED <<batch, closed, items, ok, caches, content, senders,
                                         sent, historyVars>>

ReceiveClosed == /\ pc = "receive"
                 /\ batch = <<>>
                 /\ closed
                 /\ ok' = FALSE
                 /\ pc' = "write"
                 /\ writing' = caches
                 /\ UNCHANGED <<batch, closed, items, caches, content, senders,
                                sent, historyVars>>

\* v is what key k holds once the SETs of its have been applied in order to
\* a cache that held old.
IsLatest(old, its, k, v) ==
    \/ /\ \A i \in DOMAIN its : its[i].key # k
       /\ v = old[k]
    \/ \E i \in DOMAIN its : /\ its[i] = [key |-> k, value |-> v]
                             /\ \A j \in DOMAIN its : j > i => its[j].key # k

\* v is what key k may hold when the pipeline was cut short: some SETs of
\* its were applied, others were not.
MayHold(old, its, k, v) ==
    \/ v = old[k]
    \/ \E i \in DOMAIN its : its[i] = [key |-> k, value |-> v]

AfterFailure(old, its) ==
    {new \in Content : \A k \in Keys : MayHold(old, its, k, new[k])}
AfterPipeline(old, its) ==
    {new \in Content : \A k \in Keys : IsLatest(old, its, k, new[k])}

(***************************************************************************)
(* writeBatch: the goroutine of one cache executes its pipeline, which     *)
(* sets every item in order, or fails and leaves any part of them applied. *)
(* A failure is logged by writeBatch and nothing is retried.               *)
(***************************************************************************)
PipelineSucceeds(c) ==
    /\ pc = "write"
    /\ c \in writing
    /\ content' \in {[content EXCEPT ![c] = new] : new \in AfterPipeline(content[c], items)}
    /\ writing' = writing \ {c}
    /\ attempted' = [attempted EXCEPT ![c] = @ \o items]
    /\ UNCHANGED <<pc, batch, closed, items, ok, caches, senders, sent, failed>>

PipelineFails(c) ==
    /\ pc = "write"
    /\ c \in writing
    /\ items # <<>>
    /\ content' \in {[content EXCEPT ![c] = new] : new \in AfterFailure(content[c], items)}
    /\ writing' = writing \ {c}
    /\ attempted' = [attempted EXCEPT ![c] = @ \o items]
    /\ failed' = failed \cup {c}
    /\ UNCHANGED <<pc, batch, closed, items, ok, caches, senders, sent>>

\* A bug to look for: items is not reset after a batch.
BatchWrittenKeepingItems ==
    /\ pc = "write"
    /\ writing = {}
    /\ pc' = IF ok THEN "receive" ELSE "exited"
    /\ UNCHANGED <<batch, closed, items, ok, caches, writing, content, senders, sent,
                   historyVars>>

\* A bug to look for: writeBatch does not wait for its goroutines.
BatchWrittenUnawaited ==
    /\ pc = "write"
    /\ items' = <<>>
    /\ pc' = IF ok THEN "receive" ELSE "exited"
    /\ UNCHANGED <<batch, closed, ok, caches, writing, content, senders, sent,
                   historyVars>>

\* A bug to look for: an error of writeBatch ends the monitor.
BatchWrittenStoppingOnError ==
    /\ pc = "write"
    /\ writing = {}
    /\ items' = <<>>
    /\ pc' = IF ok /\ failed = {} THEN "receive" ELSE "exited"
    /\ UNCHANGED <<batch, closed, ok, caches, writing, content, senders, sent,
                   historyVars>>

\* writeBatch returned: g.Wait() saw every cache's goroutine end.
BatchWritten == /\ pc = "write"
                /\ writing = {}
                /\ items' = <<>>
                /\ pc' = IF ok THEN "receive" ELSE "exited"
                /\ UNCHANGED <<batch, closed, ok, caches, writing, content, senders,
                               sent, historyVars>>

RunPipeline(c) == PipelineSucceeds(c) \/ PipelineFails(c)
Monitor == ReceiveItem \/ ReceiveClosed \/ BatchWritten

\* The run is over; the explicit step lets TLC look for deadlocks.
Terminated == pc = "exited" /\ UNCHANGED vars

Next == \/ \E cs \in SUBSET Caches : Start(cs)
        \/ \E p \in Producers, i \in Item : Send(p, i)
        \/ \E p \in Producers : ProducerDone(p)
        \/ Close
        \/ Monitor
        \/ \E c \in Caches : RunPipeline(c)
        \/ Terminated

Spec == Init /\ [][Next]_vars

\* The Go scheduler runs the monitor and the goroutines of writeBatch; every
\* redis call has a timeout, so each of them ends.
WriterFairness == WF_vars(Monitor) /\ \A c \in Caches : WF_vars(RunPipeline(c))

\* A service's goroutines end, and the service then closes the channel.
ServiceFairness == /\ \A p \in Producers : WF_vars(ProducerDone(p))
                   /\ WF_vars(Close)

FairSpec == Spec /\ WriterFairness /\ ServiceFairness

--------------------------------------------------------------------------------

TypeOK == /\ pc \in {"idle", "receive", "write", "exited"}
          /\ batch \in Seq(Item)
          /\ closed \in BOOLEAN
          /\ items \in Seq(Item)
          /\ ok \in BOOLEAN
          /\ caches \in SUBSET Caches
          /\ writing \in SUBSET Caches
          /\ content \in [Caches -> Content]
          /\ senders \in SUBSET Producers
          /\ sent \in Seq(Item)
          /\ attempted \in [Caches -> Seq(Item)]
          /\ failed \in SUBSET Caches

\* The items of the current batch that cache c has not been offered yet.
InFlight(c) == IF pc = "write" /\ c \notin writing THEN <<>> ELSE items

\* At every moment, what a connected cache was offered, the batch it still
\* has to write and the channel's buffer make up exactly the items sent, in
\* their order: no item is lost, repeated or overtaken, whichever batch,
\* goroutine or closing of the channel it meets.
Conservation ==
    \A c \in caches : (attempted[c] \o InFlight(c)) \o batch = sent

\* When the monitor has exited (which releases the service's cacheWg.Wait),
\* every connected cache was offered every item, the partial last batch too.
NothingLeftBehind ==
    pc = "exited" => \A c \in caches : attempted[c] = sent

\* A cache none of whose pipelines failed holds, for every key it was
\* offered, the value offered last: batches, and the items of a batch, never
\* overwrite a newer value by an older one.
CleanCachesCurrent ==
    \A c \in Caches \ failed, k \in Keys :
        (\E i \in DOMAIN attempted[c] : attempted[c][i].key = k)
            => IsLatest(content[c], attempted[c], k, content[c][k])

\* Two caches are never further apart than one batch, and the writer as a
\* whole delivers in order: it implements OrderedDelivery.
BatchWindow == IF BatchSize = 0 THEN 1 ELSE BatchSize
Phase == CASE pc = "idle"   -> "new"
           [] pc = "exited" -> "done"
           [] OTHER         -> "open"
Abstract == INSTANCE OrderedDelivery
                WITH Items <- Item, Window <- BatchWindow, phase <- Phase,
                     targets <- caches, accepted <- sent, offered <- attempted
Delivery == Abstract!Spec

\* A goroutine blocked on the full channel is let go again, however slow or
\* broken the caches are: the writer itself never stops receiving while the
\* channel is open.
BlockedSenderResumes == (pc # "idle" /\ ~closed /\ ~HasRoom) ~> HasRoom

\* The monitor exits, so the service's wait for it ends.
MonitorExits == closed ~> (pc = "exited")
================================================================================
