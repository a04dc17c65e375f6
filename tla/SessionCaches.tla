----------------------------- MODULE SessionCaches -----------------------------
(***************************************************************************)
(* One session in all the caches, over many runs of the global dispatcher. *)
(* The schedule starts a run every minute and lets it take six, and failed *)
(* runs are retried, so runs overlap and know nothing of each other. Each  *)
(* asks some of the caches, chosen at random, whether they hold the        *)
(* session of its block height, and if not all do, dispatches it and       *)
(* writes it to all (see DispatchSessions for what one run does inside).   *)
(* Meanwhile blocks are made, entries outlive their TTL, instances cannot  *)
(* be reached, nodes lag behind, runs crash, and an operator flushes the   *)
(* caches with the function cache/cmd/flush.                               *)
(***************************************************************************)
EXTENDS Naturals, FiniteSets

CONSTANTS Caches,      \* redisConnectionStrings
          MaxClients,  \* maxClientsCacheCheck
          Runs,        \* bound: the runs that can be going on at once
          MaxHeight,   \* bound: the blocks that are made
          MaxFaults    \* bound: what goes wrong in all

ASSUME SessionCachesAssumption == /\ IsFiniteSet(Caches) /\ Caches # {}
                                  /\ MaxClients \in Nat \ {0}
                                  /\ MaxHeight \in Nat \ {0}
                                  /\ MaxFaults \in Nat

Heights == 1..MaxHeight
NotCached == 0

VARIABLES height,    \* the height of the chain
          content,   \* the block height of the session each cache holds
          run,       \* the state of each run
          flushing,  \* the caches the flush function has still to flush
          faults     \* what has gone wrong so far

vars == <<height, content, run, flushing, faults>>

\* caches are those the run is connected to, left those it has still to ask,
\* or to write; lagged and overtaken are history: did its dispatcher node lag,
\* and which caches did others write since it answered?
Idle == [pc |-> "idle", blockHeight |-> 0, caches |-> {}, left |-> {}, hits |-> 0,
         session |-> NotCached, lagged |-> FALSE, overtaken |-> {}]

Init == /\ height = 1
        /\ content \in [Caches -> {NotCached, 1}]
        /\ run = [r \in Runs |-> Idle]
        /\ flushing = {}
        /\ faults = 0

Faulty(wrong) == /\ faults' = faults + IF wrong THEN 1 ELSE 0
                 /\ faults' <= MaxFaults

ClientsToCheck(cs) == IF Cardinality(cs) < MaxClients THEN Cardinality(cs) ELSE MaxClients

\* ConnectToCacheClients skips what it cannot reach; the node asked for the
\* block height may be behind.
Start(r, cs, clients, h) ==
    /\ run[r].pc = "idle"
    /\ clients \subseteq cs /\ Cardinality(clients) = ClientsToCheck(cs)
    /\ Faulty(cs # Caches \/ h # height)
    /\ run' = [run EXCEPT ![r] = [Idle EXCEPT !.pc = "ask", !.blockHeight = h,
                                               !.caches = cs, !.left = clients]]
    /\ UNCHANGED <<height, content, flushing>>

\* A bug to look for: any session is a hit, whatever its height.
AskForAny(r, c, answers) ==
    /\ run[r].pc = "ask"
    /\ c \in run[r].left
    /\ Faulty(~answers)
    /\ run' = [run EXCEPT ![r].left = @ \ {c},
                          ![r].hits = IF answers /\ content[c] # NotCached THEN @ + 1 ELSE @]
    /\ UNCHANGED <<height, content, flushing>>

\* A bug to look for: the clients are picked with repetition.
AskRepeatedly(r, c, answers) ==
    /\ run[r].pc = "ask"
    /\ c \in run[r].left
    /\ Faulty(~answers)
    /\ run' = [run EXCEPT ![r].hits = IF answers /\ content[c] >= run[r].blockHeight
                                      THEN @ + 1 ELSE @]
    /\ UNCHANGED <<height, content, flushing>>

\* The goroutine of one client counts a session at the run's block height.
Ask(r, c, answers) ==
    /\ run[r].pc = "ask"
    /\ c \in run[r].left
    /\ Faulty(~answers)
    /\ run' = [run EXCEPT ![r].left = @ \ {c},
                          ![r].hits = IF answers /\ content[c] >= run[r].blockHeight
                                      THEN @ + 1 ELSE @]
    /\ UNCHANGED <<height, content, flushing>>

Decide(r) ==
    /\ run[r].pc = "ask"
    /\ run[r].left = {}
    /\ run' = [run EXCEPT ![r] = IF @.hits # ClientsToCheck(@.caches)
                                 THEN [@ EXCEPT !.pc = "dispatch"] ELSE Idle]
    /\ UNCHANGED <<height, content, flushing, faults>>

\* A bug to look for: the session is marked with the run's block height.
DispatchMarkedByRun(r, h) ==
    /\ run[r].pc = "dispatch"
    /\ Faulty(h # height)
    /\ run' = [run EXCEPT ![r].pc = "write", ![r].session = run[r].blockHeight,
                          ![r].left = run[r].caches, ![r].lagged = h # height]
    /\ UNCHANGED <<height, content, flushing>>

\* The session carries the height of the dispatcher node that made it.
Dispatch(r, h) ==
    /\ run[r].pc = "dispatch"
    /\ Faulty(h # height)
    /\ run' = [run EXCEPT ![r].pc = "write", ![r].session = h,
                          ![r].left = run[r].caches, ![r].lagged = h # height]
    /\ UNCHANGED <<height, content, flushing>>

Written(r, c) == IF run[r].left = {c} THEN Idle ELSE [run[r] EXCEPT !.left = @ \ {c}]

\* writeBatch: the caches in parallel.
Write(r, c) ==
    /\ run[r].pc = "write"
    /\ c \in run[r].left
    /\ content' = [content EXCEPT ![c] = run[r].session]
    /\ run' = [q \in Runs |-> IF q = r THEN Written(r, c)
                              ELSE IF run[q].pc = "write"
                              THEN [run[q] EXCEPT !.overtaken = @ \cup {c}] ELSE run[q]]
    /\ UNCHANGED <<height, flushing, faults>>

WriteFails(r, c) ==
    /\ run[r].pc = "write"
    /\ c \in run[r].left
    /\ Faulty(TRUE)
    /\ run' = [run EXCEPT ![r] = Written(r, c)]
    /\ UNCHANGED <<height, content, flushing>>

\* The dispatch fails, another call of the run does, or the process ends.
Abort(r) == /\ run[r].pc # "idle"
            /\ Faulty(TRUE)
            /\ run' = [run EXCEPT ![r] = Idle]
            /\ UNCHANGED <<height, content, flushing>>

--------------------------------------------------------------------------------
(* What happens around the runs *)

NewBlock == /\ height < MaxHeight
            /\ height' = height + 1
            /\ UNCHANGED <<content, run, flushing, faults>>

Expire(c) == /\ content[c] # NotCached
             /\ Faulty(TRUE)
             /\ content' = [content EXCEPT ![c] = NotCached]
             /\ UNCHANGED <<height, run, flushing>>

\* FlushAll of the flush function, in the caches it could connect to.
FlushAll(cs) == /\ flushing = {}
                /\ Faulty(TRUE)
                /\ flushing' = cs
                /\ UNCHANGED <<height, content, run>>

FlushCache(c) == /\ c \in flushing
                 /\ flushing' = flushing \ {c}
                 /\ content' = [content EXCEPT ![c] = NotCached]
                 /\ UNCHANGED <<height, run, faults>>

FlushFails(c) == /\ c \in flushing
                 /\ Faulty(TRUE)
                 /\ flushing' = flushing \ {c}
                 /\ UNCHANGED <<height, content, run>>

--------------------------------------------------------------------------------

Choices == {clients \in SUBSET Caches : Cardinality(clients) = ClientsToCheck(Caches)}

\* The steps of a run in which nothing goes wrong.
RunStep(r) == \/ \E c \in Caches : Ask(r, c, TRUE) \/ Write(r, c)
              \/ Decide(r)
              \/ Dispatch(r, height)

RunFault(r) == \/ \E c \in Caches : Ask(r, c, FALSE) \/ WriteFails(r, c)
               \/ \E h \in Heights : h < height /\ Dispatch(r, h)
               \/ Abort(r)

Environment == \/ NewBlock
               \/ \E c \in Caches : Expire(c) \/ FlushCache(c) \/ FlushFails(c)
               \/ \E cs \in SUBSET Caches \ {{}} : FlushAll(cs)

Next == \/ \E r \in Runs : \/ RunStep(r)
                           \/ RunFault(r)
                           \/ \E cs \in SUBSET Caches \ {{}}, clients \in SUBSET Caches :
                                 \E h \in 1..height : Start(r, cs, clients, h)
        \/ Environment

Spec == Init /\ [][Next]_vars

\* Runs are started for ever, their calls return, and the random choice of
\* the clients leaves none out for ever. Nothing has to go wrong.
FairSpec == /\ Spec
            /\ \A r \in Runs : /\ WF_vars(RunStep(r))
                               /\ \A clients \in Choices :
                                     SF_vars(Start(r, Caches, clients, height))
            /\ WF_vars(\E c \in Caches : FlushCache(c))

--------------------------------------------------------------------------------

TypeOK == /\ height \in Heights
          /\ content \in [Caches -> 0..MaxHeight]
          /\ \A r \in Runs : /\ run[r].pc \in {"idle", "ask", "dispatch", "write"}
                             /\ run[r].left \subseteq run[r].caches
                             /\ run[r].hits + (IF run[r].pc = "ask"
                                               THEN Cardinality(run[r].left) ELSE 0)
                                    <= ClientsToCheck(run[r].caches)
                             /\ run[r].session \in 0..MaxHeight
          /\ flushing \subseteq Caches
          /\ faults \in 0..MaxFaults

\* A write puts an older session over a newer one only when the dispatcher
\* node of its run lagged, or another run wrote that cache since it answered:
\* a run that is merely slow to dispatch does not undo what is there.
RollbackExplained ==
    [][\A c \in Caches :
           NotCached < content'[c] /\ content'[c] < content[c] =>
               \E r \in Runs : /\ run[r].pc = "write" /\ c \in run[r].left
                               /\ run[r].session = content'[c]
                               /\ run[r].lagged \/ c \in run[r].overtaken]_vars

\* However the runs overlapped and whatever went wrong, once blocks and
\* faults cease every cache comes to hold the session of the chain's height,
\* although each run asks only some of them.
CachesCatchUp == <>[](\A c \in Caches : content[c] = height)
================================================================================
