------------------------ MODULE ApplicationChecksProofs ------------------------
(***************************************************************************)
(* The fishermen's lambda with any number of sessions, invocations and     *)
(* slots, any grouping and any failure of its calls.                       *)
(***************************************************************************)
EXTENDS ApplicationChecks, FiniteSetTheorems, TLAPS

CheckState == [stage : {"invoke", "perform", "cache"}, left : SUBSET Message,
               checking : SUBSET Message, writing : SUBSET Message, wg : Message]

Types == /\ inv \in 0..MaxInvocations
         /\ handler \in {"prepare", "loop", "wait", "returned"}
         /\ worker \in [Sessions -> WorkerStates]
         /\ chan \in [Invocations -> Seq(Message)]
         /\ monitor \in [Invocations -> 0..MaxInvocations]
         /\ batch \in [Invocations -> SUBSET Message]
         /\ processed \in [Invocations -> Nat]
         /\ checks \in SUBSET CheckState
         /\ closed \in SUBSET Invocations
         /\ panicked \in BOOLEAN
         /\ dropped \in SUBSET Message
         /\ replaced \in SUBSET Message
         /\ invoked \in SUBSET Message
         /\ repeated \in BOOLEAN

\* The semaphore counts the goroutines that were spawned and have not ended.
Holding == {s \in Sessions : worker[s] \in {"session", "submit", "waiting", "ended"}}

SlotsHeld == slots = Cardinality(Holding) /\ slots <= Concurrency

ChanBounded == \A k \in Invocations : Len(chan[k]) <= ChecksPerInvoke + 1

\* Goroutines exist only while the handler is in its loop or waits for them.
HandlerState ==
    /\ handler # "returned" => inv \in Invocations \ closed
    /\ handler = "prepare" => \A s \in Sessions : worker[s] = "none"
    /\ handler = "returned" => \A s \in Sessions : worker[s] = IF inv \in closed THEN "gone" ELSE "none"
    /\ \A k \in closed : k <= inv

(***************************************************************************)
(* Where the messages are. A message in a channel is there once, belongs   *)
(* to the current invocation and has a goroutine waiting for its release,  *)
(* as has the one message of a group that its checks release; so nothing   *)
(* is released twice, and nothing of an earlier invocation is.             *)
(***************************************************************************)
ChanState ==
    \A k \in Invocations : \A i \in DOMAIN chan[k] :
        LET m == chan[k][i]
        IN  /\ k = inv /\ m.inv = inv
            /\ worker[m.session] = "waiting"
            /\ m \notin invoked
            /\ \A l \in Invocations : m \notin batch[l]
            /\ \A j \in DOMAIN chan[k] : chan[k][j] = m => j = i

WgState == /\ \A c \in checks : /\ c.wg.inv = inv
                                /\ worker[c.wg.session] = "waiting"
                                /\ c.wg \in invoked
           /\ \A c, d \in checks : c.wg = d.wg => c = d

\* What was handed over is not fresh: no goroutine of it is still to send it.
HandedOver ==
    /\ \A m \in invoked \cup dropped : /\ m.inv <= inv
                                       /\ m.inv = inv => worker[m.session] \notin {"none", "session", "submit"}
    /\ \A k \in Invocations : \A m \in batch[k] :
          m.inv <= inv /\ (m.inv = inv => worker[m.session] \in {"ended", "gone"})

BatchesDisjoint ==
    \A k \in Invocations : /\ batch[k] \cap invoked = {}
                           /\ \A l \in Invocations \ {k} : batch[k] \cap batch[l] = {}

MonitorState ==
    \A k \in Invocations : /\ monitor[k] <= inv
                           /\ k > inv => monitor[k] = None /\ batch[k] = {} /\ processed[k] = 0

\* A group, complete or not.
Group(b) == /\ IsFiniteSet(b)
            /\ \A m, n \in b : AppOf[m.session] = AppOf[n.session] => m = n

BatchState ==
    \A k \in Invocations : /\ Group(batch[k])
                           /\ Cardinality(batch[k]) < GroupLimit
                           /\ batch[k] # {} => processed[k] < TotalApps

ChecksState ==
    \A c \in checks : /\ Group(c.left)
                      /\ Cardinality(c.left) <= GroupLimit
                      /\ \A m \in c.left : m.inv <= inv
                      /\ c.checking \cap c.writing = {}

\* A goroutine of this invocation that was released has its message in a batch
\* or in a group, unless it had to give way to another of its application.
Accounted ==
    \A s \in Sessions :
        worker[s] \in {"ended", "gone"} =>
            \/ Mine(s) \in dropped \cup invoked \cup replaced
            \/ \E k \in Invocations : Mine(s) \in batch[k]

\* In the first invocation there is one monitor, and it counts everything.
Sent == {s \in Sessions : worker[s] \in {"waiting", "ended", "gone"} /\ Mine(s) \notin dropped}
FirstCountsAll == inv = 1 => processed[1] + Len(chan[1]) = Cardinality(Sent)

IInv == /\ Types /\ SlotsHeld /\ ChanBounded /\ HandlerState /\ ChanState /\ WgState /\ HandedOver
        /\ BatchesDisjoint /\ MonitorState /\ BatchState /\ ChecksState /\ Accounted
        /\ FirstCountsAll /\ ~repeated

--------------------------------------------------------------------------------
(* Lemmas on the data *)

LEMMA SessionsFinite == \A T \in SUBSET Sessions : IsFiniteSet(T) /\ Cardinality(T) \in Nat
BY ChecksAssumption, FS_Subset, FS_CardinalityType

LEMMA MineFacts ==
    ASSUME inv \in Invocations
    PROVE  /\ \A s \in Sessions : /\ Mine(s) \in Message
                                  /\ Mine(s).inv = inv /\ Mine(s).session = s
           /\ \A m \in Message : m.session \in Sessions /\ (m.inv = inv => m = Mine(m.session))
BY DEF Mine, Message

LEMMA InvocationFacts ==
    Types => /\ inv \in Nat /\ \A k \in Invocations : k \in Nat /\ k > 0
             /\ \A k \in Invocations : k <= inv => inv \in Invocations
BY ChecksAssumption DEF Types, Invocations

LEMMA ChanMessages ==
    Types => \A k \in Invocations : \A i \in DOMAIN chan[k] :
                 chan[k][i] \in Message /\ chan[k][i].session \in Sessions
<1>. SUFFICES ASSUME Types, NEW k \in Invocations, NEW i \in DOMAIN chan[k]
              PROVE  chan[k][i] \in Message
  BY DEF Message
<1>1. chan[k] \in Seq(Message)
  BY DEF Types
<1>. QED BY <1>1

LEMMA HoldingTypes == Holding \in SUBSET Sessions /\ IsFiniteSet(Holding) /\ Cardinality(Holding) \in Nat
BY SessionsFinite DEF Holding

LEMMA SentTypes == Sent \in SUBSET Sessions /\ IsFiniteSet(Sent) /\ Cardinality(Sent) \in Nat
BY SessionsFinite DEF Sent

LEMMA InitIInv == Init => IInv
<1>. SUFFICES ASSUME Init PROVE IInv
  OBVIOUS
<1>1. Types /\ ChanBounded
  <2>1. chan \in [Invocations -> Seq(Message)] /\ \A k \in Invocations : Len(chan[k]) = 0
    BY DEF Init
  <2>2. worker \in [Sessions -> WorkerStates]
    BY DEF Init, WorkerStates
  <2>3. Types
    <3>1. /\ monitor \in [Invocations -> 0..MaxInvocations]
          /\ batch \in [Invocations -> SUBSET Message]
          /\ processed \in [Invocations -> Nat]
      BY ChecksAssumption DEF Init, None
    <3>2. /\ inv \in 0..MaxInvocations /\ checks \in SUBSET CheckState
          /\ closed \in SUBSET Invocations /\ dropped \in SUBSET Message
          /\ invoked \in SUBSET Message /\ replaced \in SUBSET Message
      BY ChecksAssumption DEF Init, None
    <3>3. /\ handler \in {"prepare", "loop", "wait", "returned"}
          /\ panicked \in BOOLEAN /\ repeated \in BOOLEAN
      BY DEF Init
    <3>. QED BY <2>1, <2>2, <3>1, <3>2, <3>3 DEF Types
  <2>4. ChanBounded
    BY <2>1, ChecksAssumption DEF ChanBounded
  <2>. QED BY <2>3, <2>4
<1>2. SlotsHeld
  <2>1. Holding = {}
    BY DEF Init, Holding
  <2>. QED BY <2>1, FS_EmptySet, ChecksAssumption DEF Init, SlotsHeld
<1>3. BatchState
  BY FS_EmptySet, ChecksAssumption DEF Init, BatchState, Group, GroupLimit
<1>. QED BY <1>1, <1>2, <1>3
         DEF Init, IInv, HandlerState, ChanState, WgState, HandedOver, BatchesDisjoint,
             MonitorState, ChecksState, Accounted, FirstCountsAll, None

--------------------------------------------------------------------------------
(* The handler *)

\* While no goroutine waits there is nothing in the channels, and no checks run.
LEMMA NothingPending ==
    ASSUME IInv, \A s \in Sessions : worker[s] # "waiting"
    PROVE  checks = {} /\ \A k \in Invocations : chan[k] = <<>>
<1>1. checks = {}
  <2>. SUFFICES ASSUME NEW c \in checks PROVE FALSE
    OBVIOUS
  <2>1. c.wg.session \in Sessions
    BY DEF IInv, Types, CheckState, Message
  <2>. QED BY <2>1 DEF IInv, WgState
<1>2. ASSUME NEW k \in Invocations, chan[k] # <<>> PROVE FALSE
  <2>1. chan[k] \in Seq(Message)
    BY DEF IInv, Types
  <2>2. 1 \in DOMAIN chan[k] /\ chan[k][1] \in Message
    BY <1>2, <2>1
  <2>3. worker[chan[k][1].session] = "waiting"
    BY <2>2 DEF IInv, ChanState
  <2>. QED BY <2>2, <2>3 DEF Message
<1>. QED BY <1>1, <1>2

LEMMA InvokeStep == IInv /\ Invoke => IInv'
<1>. SUFFICES ASSUME IInv, Invoke PROVE IInv'
  OBVIOUS
<1>1. /\ handler = "returned" /\ inv < MaxInvocations
      /\ inv' = inv + 1 /\ handler' = "prepare" /\ slots' = 0
      /\ worker' = [s \in Sessions |-> "none"]
      /\ UNCHANGED <<chan, monitor, batch, processed, checks, closed, panicked, dropped,
                     replaced, invoked, repeated>>
  BY DEF Invoke, monitorVars, historyVars
<1>2. inv \in Nat /\ inv' \in Invocations /\ inv' \in 0..MaxInvocations /\ inv' > inv
  BY <1>1, ChecksAssumption DEF IInv, Types, Invocations
<1>3. checks = {} /\ \A k \in Invocations : chan[k] = <<>>
  <2>1. \A s \in Sessions : worker[s] # "waiting"
    BY <1>1 DEF IInv, HandlerState
  <2>. QED BY <2>1, NothingPending
<1>4. Types' /\ ChanBounded'
  BY <1>1, <1>2 DEF IInv, Types, ChanBounded, WorkerStates
<1>5. SlotsHeld'
  <2>1. Holding' = {}
    BY <1>1 DEF Holding
  <2>. QED BY <1>1, <2>1, FS_EmptySet, ChecksAssumption DEF SlotsHeld
<1>6. HandlerState'
  <2>1. inv' \notin closed
    BY <1>2, InvocationFacts DEF IInv, HandlerState, Types
  <2>2. \A k \in closed : k <= inv'
    BY <1>2, InvocationFacts DEF IInv, HandlerState, Types
  <2>. QED BY <1>1, <1>2, <2>1, <2>2 DEF HandlerState
<1>7. ChanState' /\ WgState' /\ ChecksState'
  BY <1>1, <1>3 DEF ChanState, WgState, ChecksState
<1>8. HandedOver'
  <2>1. \A m \in Message : m.inv <= inv => m.inv <= inv' /\ m.inv # inv'
    <3>1. \A m \in Message : m.inv \in Invocations
      BY DEF Message
    <3>. QED BY <1>2, <3>1, ChecksAssumption DEF Invocations
  <2>. QED BY <1>1, <2>1 DEF IInv, Types, HandedOver
<1>9. BatchesDisjoint' /\ BatchState' /\ repeated' = FALSE
  BY <1>1 DEF IInv, Types, BatchesDisjoint, BatchState
<1>10. MonitorState'
  <2>1. \A k \in Invocations : (k > inv' => k > inv) /\ (monitor[k] <= inv => monitor[k] <= inv')
    BY <1>2, InvocationFacts DEF IInv, Types
  <2>. QED BY <1>1, <2>1 DEF IInv, MonitorState
<1>11. Accounted'
  BY <1>1 DEF Accounted
<1>12. FirstCountsAll'
  <2>. SUFFICES ASSUME inv' = 1 PROVE processed[1] + Len(chan[1]) = Cardinality(Sent')
    BY <1>1 DEF FirstCountsAll
  <2>1. processed[1] = 0 /\ chan[1] = <<>>
    BY <1>2, <1>3 DEF IInv, MonitorState, Invocations
  <2>2. Sent' = {}
    BY <1>1 DEF Sent
  <2>. QED BY <2>1, <2>2, FS_EmptySet
<1>. QED BY <1>4, <1>5, <1>6, <1>7, <1>8, <1>9, <1>10, <1>11, <1>12 DEF IInv

\* What the parts say that do not speak of the handler and of closed.
LEMMA OnlyHandlerSteps ==
    ASSUME IInv, handler' \in {"prepare", "loop", "wait", "returned"},
           closed' \in SUBSET Invocations, HandlerState',
           UNCHANGED <<inv, worker, slots, chan, monitorVars, checks, panicked, historyVars>>
    PROVE  IInv'
<1>. USE DEF monitorVars, historyVars
<1>1. Types' /\ ChanBounded'
  BY DEF IInv, Types, ChanBounded
<1>2. Holding' = Holding /\ Sent' = Sent
  BY DEF Holding, Sent, Mine
<1>3. SlotsHeld' /\ FirstCountsAll'
  BY <1>2 DEF IInv, SlotsHeld, FirstCountsAll
<1>4. ChanState' /\ WgState' /\ HandedOver'
  BY DEF IInv, ChanState, WgState, HandedOver
<1>5. BatchesDisjoint' /\ MonitorState' /\ BatchState' /\ ChecksState' /\ ~repeated'
  BY DEF IInv, BatchesDisjoint, MonitorState, BatchState, ChecksState
<1>6. Accounted'
  BY DEF IInv, Accounted, Mine
<1>. QED BY <1>1, <1>3, <1>4, <1>5, <1>6 DEF IInv

LEMMA HandlerOnlySteps == IInv /\ (Prepare \/ LoopEnds \/ CloseBatch) => IInv'
<1>1. ASSUME IInv, Prepare PROVE IInv'
  <2>1. /\ handler = "prepare" /\ handler' \in {"loop", "returned"}
        /\ UNCHANGED <<inv, worker, slots, chan, monitorVars, checks, closed, panicked,
                       historyVars>>
    BY <1>1 DEF Prepare
  <2>2. HandlerState' /\ closed' \in SUBSET Invocations
    BY <1>1, <2>1 DEF IInv, Types, HandlerState
  <2>. QED BY <1>1, <2>1, <2>2, OnlyHandlerSteps
<1>2. ASSUME IInv, LoopEnds PROVE IInv'
  <2>1. /\ handler = "loop" /\ handler' = "wait"
        /\ UNCHANGED <<inv, worker, slots, chan, monitorVars, checks, closed, panicked,
                       historyVars>>
    BY <1>2 DEF LoopEnds
  <2>2. HandlerState' /\ closed' \in SUBSET Invocations
    BY <1>2, <2>1 DEF IInv, Types, HandlerState
  <2>. QED BY <1>2, <2>1, <2>2, OnlyHandlerSteps
<1>3. ASSUME IInv, CloseBatch PROVE IInv'
  <2>1. /\ handler = "wait" /\ handler' = "returned" /\ closed' = closed \cup {inv}
        /\ \A s \in Sessions : worker[s] = "gone"
        /\ UNCHANGED <<inv, worker, slots, chan, monitorVars, checks, panicked, historyVars>>
    BY <1>3 DEF CloseBatch
  <2>2. inv \in Invocations /\ inv <= inv
    BY <1>3, <2>1, InvocationFacts DEF IInv, HandlerState
  <2>3. HandlerState' /\ closed' \in SUBSET Invocations
    BY <1>3, <2>1, <2>2 DEF IInv, Types, HandlerState
  <2>. QED BY <1>3, <2>1, <2>3, OnlyHandlerSteps
<1>. QED BY <1>1, <1>2, <1>3

--------------------------------------------------------------------------------
(* The goroutine of one session *)

\* A step of one goroutine before it hands over its session, or after its
\* release: the monitors and the checks do not notice.
LEMMA OneWorkerSteps ==
    ASSUME IInv, NEW s \in Sessions, NEW x,
           \/ worker[s] = "none" /\ x = "session"
           \/ worker[s] = "session" /\ x = "submit"
           \/ worker[s] = "ended" /\ x = "gone",
           handler # "returned" /\ handler # "prepare",
           worker' = [worker EXCEPT ![s] = x],
           SlotsHeld',
           UNCHANGED <<handlerVars, chan, monitorVars, checks, closed, panicked, historyVars>>
    PROVE  IInv'
<1>. USE DEF handlerVars, monitorVars, historyVars
<1>1. /\ worker \in [Sessions -> WorkerStates]
      /\ \A t \in Sessions : worker'[t] = IF t = s THEN x ELSE worker[t]
  BY DEF IInv, Types
<1>2. Types' /\ ChanBounded'
  BY <1>1 DEF IInv, Types, ChanBounded, WorkerStates
<1>3. HandlerState'
  BY DEF IInv, HandlerState
<1>4. inv \in Invocations
  BY DEF IInv, HandlerState
<1>5. ChanState'
  <2>. SUFFICES ASSUME NEW k \in Invocations, NEW i \in DOMAIN chan[k]
                PROVE  worker'[chan[k][i].session] = "waiting"
    BY DEF IInv, ChanState
  <2>1. chan[k][i].session \in Sessions
    BY ChanMessages DEF IInv
  <2>. QED BY <1>1, <2>1 DEF IInv, ChanState
<1>6. WgState'
  <2>1. \A c \in checks : c.wg.session \in Sessions
    BY DEF IInv, Types, CheckState, Message
  <2>. QED BY <1>1, <2>1 DEF IInv, WgState
<1>7. HandedOver'
  <2>1. \A m \in Message : m.session \in Sessions
    BY DEF Message
  <2>. QED BY <1>1, <2>1 DEF IInv, Types, HandedOver
<1>8. BatchesDisjoint' /\ MonitorState' /\ BatchState' /\ ChecksState' /\ ~repeated'
  BY DEF IInv, BatchesDisjoint, MonitorState, BatchState, ChecksState
<1>9. Accounted'
  BY <1>1 DEF IInv, Accounted, Mine
<1>10. FirstCountsAll'
  <2>1. Sent' = Sent
    BY <1>1 DEF Sent, Mine
  <2>. QED BY <2>1 DEF IInv, FirstCountsAll
<1>. QED BY <1>2, <1>3, <1>5, <1>6, <1>7, <1>8, <1>9, <1>10 DEF IInv

\* A session whose goroutine is under way: the handler is in its loop or waits.
LEMMA UnderWay ==
    ASSUME IInv, NEW s \in Sessions, worker[s] \notin {"none", "gone"}
    PROVE  handler \notin {"returned", "prepare"} /\ inv \in Invocations /\ inv \notin closed
BY DEF IInv, Types, HandlerState

LEMMA HoldingKept ==
    ASSUME IInv, Holding' = Holding, slots' = slots
    PROVE  SlotsHeld'
BY DEF IInv, SlotsHeld

LEMMA SpawnStep == ASSUME IInv, NEW s \in Sessions, Spawn(s) PROVE IInv'
<1>1. /\ handler = "loop" /\ worker[s] = "none" /\ slots < Concurrency /\ slots' = slots + 1
      /\ worker' = [worker EXCEPT ![s] = "session"]
      /\ UNCHANGED <<handlerVars, chan, monitorVars, checks, closed, panicked, historyVars>>
  BY DEF Spawn
<1>2. SlotsHeld'
  <2>1. Holding' = Holding \cup {s} /\ s \notin Holding
    BY <1>1 DEF IInv, Types, Holding
  <2>2. Cardinality(Holding') = Cardinality(Holding) + 1
    BY <2>1, HoldingTypes, FS_AddElement
  <2>. QED BY <1>1, <2>2, HoldingTypes, ChecksAssumption DEF IInv, SlotsHeld
<1>. QED BY <1>1, <1>2, OneWorkerSteps

LEMMA GetSessionStep == ASSUME IInv, NEW s \in Sessions, GetSession(s) PROVE IInv'
<1>1. /\ worker[s] = "session" /\ worker' = [worker EXCEPT ![s] = "submit"] /\ slots' = slots
      /\ UNCHANGED <<handlerVars, chan, monitorVars, checks, closed, panicked, historyVars>>
  BY DEF GetSession
<1>2. SlotsHeld'
  <2>1. Holding' = Holding
    BY <1>1 DEF IInv, Types, Holding
  <2>. QED BY <1>1, <2>1, HoldingKept
<1>. QED BY <1>1, <1>2, UnderWay, OneWorkerSteps

LEMMA WorkerEndsStep == ASSUME IInv, NEW s \in Sessions, WorkerEnds(s) PROVE IInv'
<1>1. /\ worker[s] = "ended" /\ worker' = [worker EXCEPT ![s] = "gone"] /\ slots' = slots - 1
      /\ UNCHANGED <<handlerVars, chan, monitorVars, checks, closed, panicked, historyVars>>
  BY DEF WorkerEnds
<1>2. SlotsHeld'
  <2>1. Holding' = Holding \ {s} /\ s \in Holding
    BY <1>1 DEF IInv, Types, Holding
  <2>2. Cardinality(Holding') = Cardinality(Holding) - 1
    BY <2>1, HoldingTypes, FS_RemoveElement
  <2>. QED BY <1>1, <2>2, HoldingTypes, ChecksAssumption DEF IInv, SlotsHeld
<1>. QED BY <1>1, <1>2, UnderWay, OneWorkerSteps

\* A goroutine that has not handed over its session: its message is nowhere.
LEMMA Fresh ==
    ASSUME IInv, NEW s \in Sessions, worker[s] \in {"session", "submit"}
    PROVE  /\ Mine(s) \in Message /\ Mine(s).inv = inv /\ Mine(s).session = s
           /\ Mine(s) \notin invoked /\ Mine(s) \notin dropped
           /\ \A k \in Invocations : Mine(s) \notin batch[k]
           /\ \A k \in Invocations : \A i \in DOMAIN chan[k] : chan[k][i] # Mine(s)
<1>1. inv \in Invocations
  BY UnderWay
<1>2. Mine(s) \in Message /\ Mine(s).inv = inv /\ Mine(s).session = s
  BY <1>1, MineFacts
<1>. QED BY <1>2 DEF IInv, HandedOver, ChanState

LEMMA GetSessionFailsStep == ASSUME IInv, NEW s \in Sessions, GetSessionFails(s) PROVE IInv'
<1>. USE DEF handlerVars, monitorVars, historyVars
<1>1. /\ worker[s] = "session" /\ worker' = [worker EXCEPT ![s] = "ended"] /\ slots' = slots
      /\ dropped' = dropped \cup {Mine(s)}
      /\ UNCHANGED <<handlerVars, chan, monitorVars, checks, closed, panicked, replaced, invoked, repeated>>
  BY DEF GetSessionFails
<1>2. /\ worker \in [Sessions -> WorkerStates]
      /\ \A t \in Sessions : worker'[t] = IF t = s THEN "ended" ELSE worker[t]
  BY <1>1 DEF IInv, Types
<1>3. /\ Mine(s) \in Message /\ Mine(s).inv = inv /\ Mine(s).session = s
      /\ Mine(s) \notin dropped /\ inv \in Invocations /\ inv <= inv
      /\ handler \notin {"returned", "prepare"}
  BY <1>1, Fresh, UnderWay, InvocationFacts DEF IInv
<1>4. Types' /\ ChanBounded'
  BY <1>1, <1>2, <1>3 DEF IInv, Types, ChanBounded, WorkerStates
<1>5. SlotsHeld'
  <2>1. Holding' = Holding
    BY <1>1, <1>2 DEF Holding
  <2>. QED BY <1>1, <2>1, HoldingKept
<1>6. HandlerState'
  BY <1>1, <1>3 DEF IInv, HandlerState
<1>7. ChanState'
  <2>. SUFFICES ASSUME NEW k \in Invocations, NEW i \in DOMAIN chan[k]
                PROVE  worker'[chan[k][i].session] = "waiting"
    BY <1>1 DEF IInv, ChanState
  <2>1. chan[k][i].session \in Sessions
    BY ChanMessages DEF IInv
  <2>. QED BY <1>1, <1>2, <2>1 DEF IInv, ChanState
<1>8. WgState'
  <2>1. \A c \in checks : c.wg.session \in Sessions
    BY DEF IInv, Types, CheckState, Message
  <2>. QED BY <1>1, <1>2, <2>1 DEF IInv, WgState
<1>9. HandedOver'
  <2>1. \A m \in Message : m.session \in Sessions
    BY DEF Message
  <2>. QED BY <1>1, <1>2, <1>3, <2>1 DEF IInv, Types, HandedOver
<1>10. BatchesDisjoint' /\ MonitorState' /\ BatchState' /\ ChecksState' /\ ~repeated'
  BY <1>1 DEF IInv, BatchesDisjoint, MonitorState, BatchState, ChecksState
<1>11. Accounted'
  <2>1. \A t \in Sessions : Mine(t)' = Mine(t)
    BY <1>1 DEF Mine
  <2>. QED BY <1>1, <1>2, <2>1 DEF IInv, Accounted
<1>12. FirstCountsAll'
  <2>1. \A t \in Sessions : Mine(t)' = Mine(t) /\ (Mine(t) = Mine(s) => t = s)
    BY <1>1 DEF Mine
  <2>2. Sent' = Sent
    BY <1>1, <1>2, <2>1 DEF Sent
  <2>. QED BY <1>1, <2>2 DEF IInv, FirstCountsAll
<1>. QED BY <1>4, <1>5, <1>6, <1>7, <1>8, <1>9, <1>10, <1>11, <1>12 DEF IInv

LEMMA GetAppToCheckStep == ASSUME IInv, NEW s \in Sessions, GetAppToCheck(s) PROVE IInv'
<1>. USE DEF handlerVars, monitorVars, historyVars
<1>1. /\ worker[s] = "submit" /\ HasRoom
      /\ worker' = [worker EXCEPT ![s] = "waiting"]
      /\ chan' = [chan EXCEPT ![inv] = Append(chan[inv], Mine(s))]
      /\ UNCHANGED <<handlerVars, slots, monitorVars, checks, closed, panicked, historyVars>>
  BY DEF GetAppToCheck
<1>2. /\ worker \in [Sessions -> WorkerStates]
      /\ \A t \in Sessions : worker'[t] = IF t = s THEN "waiting" ELSE worker[t]
  BY <1>1 DEF IInv, Types
<1>3. /\ Mine(s) \in Message /\ Mine(s).inv = inv /\ Mine(s).session = s
      /\ Mine(s) \notin invoked /\ Mine(s) \notin dropped
      /\ \A k \in Invocations : Mine(s) \notin batch[k]
      /\ \A k \in Invocations : \A i \in DOMAIN chan[k] : chan[k][i] # Mine(s)
      /\ inv \in Invocations /\ handler \notin {"returned", "prepare"}
  BY <1>1, Fresh, UnderWay
<1>4. chan \in [Invocations -> Seq(Message)]
  BY DEF IInv, Types
<1>5. /\ \A k \in Invocations \ {inv} : chan'[k] = chan[k]
      /\ chan'[inv] \in Seq(Message) /\ Len(chan'[inv]) = Len(chan[inv]) + 1
      /\ DOMAIN chan'[inv] = DOMAIN chan[inv] \cup {Len(chan[inv]) + 1}
      /\ \A i \in DOMAIN chan[inv] : chan'[inv][i] = chan[inv][i]
      /\ chan'[inv][Len(chan[inv]) + 1] = Mine(s)
      /\ Len(chan[inv]) + 1 \notin DOMAIN chan[inv]
  BY <1>1, <1>3, <1>4
<1>6. Types'
  <2>1. chan' \in [Invocations -> Seq(Message)]
    BY <1>1, <1>3, <1>4, <1>5
  <2>. QED BY <1>1, <1>2, <2>1 DEF IInv, Types, WorkerStates
<1>7. ChanBounded'
  <2>1. Len(chan'[inv]) <= ChecksPerInvoke + 1
    <3>1. Len(chan[inv]) \in Nat /\ (chan[inv] = <<>> => Len(chan[inv]) = 0)
      BY <1>3, <1>4
    <3>. QED BY <1>1, <1>5, <3>1, ChecksAssumption DEF HasRoom
  <2>. QED BY <1>5, <2>1 DEF IInv, ChanBounded
<1>8. SlotsHeld'
  <2>1. Holding' = Holding
    BY <1>1, <1>2 DEF Holding
  <2>. QED BY <1>1, <2>1, HoldingKept
<1>9. HandlerState'
  BY <1>1, <1>3 DEF IInv, HandlerState
<1>10. ChanState'
  <2>. SUFFICES ASSUME NEW k \in Invocations, NEW i \in DOMAIN chan'[k]
                PROVE  /\ k = inv /\ chan'[k][i].inv = inv
                       /\ worker'[chan'[k][i].session] = "waiting"
                       /\ chan'[k][i] \notin invoked
                       /\ \A l \in Invocations : chan'[k][i] \notin batch[l]
                       /\ \A j \in DOMAIN chan'[k] : chan'[k][j] = chan'[k][i] => j = i
    <3>1. inv' = inv /\ batch' = batch /\ invoked' = invoked
      BY <1>1
    <3>. QED BY <3>1, Zenon DEF ChanState
  <2>1. ASSUME NEW l \in Invocations, NEW j \in DOMAIN chan[l]
        PROVE  /\ l = inv /\ chan[l][j].inv = inv
               /\ chan[l][j].session \in Sessions /\ worker[chan[l][j].session] = "waiting"
               /\ chan[l][j] \notin invoked
               /\ \A n \in Invocations : chan[l][j] \notin batch[n]
               /\ \A n \in DOMAIN chan[l] : chan[l][n] = chan[l][j] => n = j
    <3>1. chan[l][j] \in Message
      BY <1>4
    <3>. QED BY <3>1 DEF IInv, ChanState, Message
  <2>2. k = inv
    BY <1>5, <2>1
  <2>3. CASE i \in DOMAIN chan[inv]
    BY <1>1, <1>2, <1>3, <1>5, <2>1, <2>2, <2>3
  <2>4. CASE i = Len(chan[inv]) + 1
    BY <1>1, <1>2, <1>3, <1>5, <2>2, <2>4
  <2>. QED BY <1>5, <2>2, <2>3, <2>4
<1>11. WgState'
  <2>1. \A c \in checks : c.wg.session \in Sessions
    BY DEF IInv, Types, CheckState, Message
  <2>. QED BY <1>1, <1>2, <2>1 DEF IInv, WgState
<1>12. HandedOver'
  <2>1. \A m \in Message : m.session \in Sessions
    BY DEF Message
  <2>. QED BY <1>1, <1>2, <2>1 DEF IInv, Types, HandedOver
<1>13. BatchesDisjoint' /\ MonitorState' /\ BatchState' /\ ChecksState' /\ ~repeated'
  BY <1>1 DEF IInv, BatchesDisjoint, MonitorState, BatchState, ChecksState
<1>14. Accounted'
  <2>1. \A t \in Sessions : Mine(t)' = Mine(t)
    BY <1>1 DEF Mine
  <2>. QED BY <1>1, <1>2, <2>1 DEF IInv, Accounted
<1>15. FirstCountsAll'
  <2>1. \A t \in Sessions : Mine(t)' = Mine(t)
    BY <1>1 DEF Mine
  <2>2. Sent' = Sent \cup {s} /\ s \notin Sent
    BY <1>1, <1>2, <1>3, <2>1 DEF Sent
  <2>3. Cardinality(Sent') = Cardinality(Sent) + 1
    BY <2>2, SentTypes, FS_AddElement
  <2>4. inv = 1 => processed[1] \in Nat /\ Len(chan[1]) \in Nat /\ Len(chan'[1]) = Len(chan[1]) + 1
    BY <1>3, <1>4, <1>5 DEF IInv, Types
  <2>. QED BY <1>1, <2>3, <2>4, SentTypes DEF IInv, FirstCountsAll
<1>. QED BY <1>6, <1>7, <1>8, <1>9, <1>10, <1>11, <1>12, <1>13, <1>14, <1>15 DEF IInv

--------------------------------------------------------------------------------
(* The monitors *)

LEMMA AwaitAppStep == ASSUME IInv, NEW k \in Invocations, AwaitApp(k) PROVE IInv'
<1>. USE DEF handlerVars, historyVars
<1>1. /\ k <= inv /\ monitor' = [monitor EXCEPT ![k] = inv]
      /\ UNCHANGED <<handlerVars, worker, slots, chan, batch, processed, checks, closed,
                     panicked, historyVars>>
  BY DEF AwaitApp, application
<1>2. inv \in 0..MaxInvocations /\ inv \in Nat
  BY InvocationFacts DEF IInv, Types
<1>3. Types' /\ ChanBounded' /\ HandlerState'
  BY <1>1, <1>2 DEF IInv, Types, ChanBounded, HandlerState
<1>4. Holding' = Holding /\ Sent' = Sent
  BY <1>1 DEF Holding, Sent, Mine
<1>5. SlotsHeld' /\ FirstCountsAll'
  BY <1>1, <1>4 DEF IInv, SlotsHeld, FirstCountsAll
<1>6. ChanState' /\ WgState' /\ HandedOver'
  BY <1>1 DEF IInv, ChanState, WgState, HandedOver
<1>7. BatchesDisjoint' /\ BatchState' /\ ChecksState' /\ ~repeated'
  BY <1>1 DEF IInv, BatchesDisjoint, BatchState, ChecksState
<1>8. MonitorState'
  <2>1. ~(k > inv) /\ inv <= inv
    BY <1>1, <1>2, InvocationFacts DEF IInv
  <2>. QED BY <1>1, <2>1 DEF IInv, Types, MonitorState
<1>9. Accounted'
  BY <1>1 DEF IInv, Accounted, Mine
<1>. QED BY <1>3, <1>5, <1>6, <1>7, <1>8, <1>9 DEF IInv

\* What every receive does: it takes the first message out of the channel of
\* the current invocation, whose goroutine waits.
LEMMA Received ==
    ASSUME IInv, NEW k \in Invocations, NEW m \in Message, Receive(k, m)
    PROVE  /\ k <= inv /\ inv \in Invocations /\ m.inv = inv /\ m = Mine(m.session)
           /\ m.session \in Sessions /\ worker[m.session] = "waiting"
           /\ m \notin invoked /\ \A l \in Invocations : m \notin batch[l]
           /\ \A c \in checks : c.wg # m
           /\ chan[inv] \in Seq(Message) /\ chan[inv] # <<>> /\ m = Head(chan[inv])
           /\ chan' = [chan EXCEPT ![inv] = Tail(chan[inv])]
           /\ processed' = [processed EXCEPT ![k] = processed[k] + 1]
           /\ monitor' = [monitor EXCEPT ![k] = None]
           /\ UNCHANGED <<inv, handler, slots, closed, panicked, dropped>>
           /\ handler \notin {"returned", "prepare"}
<1>1. /\ monitor[k] # None /\ chan[monitor[k]] # <<>> /\ m = Head(chan[monitor[k]])
      /\ chan' = [chan EXCEPT ![monitor[k]] = Tail(chan[monitor[k]])]
      /\ processed' = [processed EXCEPT ![k] = processed[k] + 1]
      /\ monitor' = [monitor EXCEPT ![k] = None]
      /\ UNCHANGED <<inv, handler, slots, closed, panicked, dropped>>
  BY DEF Receive, handlerVars
<1>2. monitor[k] \in Invocations
  BY <1>1, ChecksAssumption DEF IInv, Types, None, Invocations
<1>3. chan[monitor[k]] \in Seq(Message)
  BY <1>2 DEF IInv, Types
<1>4. 1 \in DOMAIN chan[monitor[k]] /\ m = chan[monitor[k]][1]
  BY <1>1, <1>3
<1>5. /\ monitor[k] = inv /\ m.inv = inv /\ worker[m.session] = "waiting" /\ m \notin invoked
      /\ \A l \in Invocations : m \notin batch[l]
  BY <1>2, <1>4 DEF IInv, ChanState
<1>6. m.session \in Sessions /\ m = Mine(m.session)
  BY <1>2, <1>5, MineFacts
<1>7. \A c \in checks : c.wg # m
  BY <1>5 DEF IInv, WgState
<1>8. k <= inv
  <2>1. monitor[k] # None => ~(k > inv)
    BY DEF IInv, MonitorState
  <2>. QED BY <1>1, <2>1, InvocationFacts DEF IInv
<1>9. handler \notin {"returned", "prepare"}
  BY <1>5, <1>6, UnderWay
<1>. QED BY <1>1, <1>2, <1>3, <1>5, <1>6, <1>7, <1>8, <1>9

\* The rest of the channel: none of it is m.
LEMMA RestOfChan ==
    ASSUME IInv, NEW k \in Invocations, NEW m \in Message, Receive(k, m)
    PROVE  /\ chan' \in [Invocations -> Seq(Message)]
           /\ ChanBounded'
           /\ \A l \in Invocations : \A i \in DOMAIN chan'[l] :
                 LET n == chan'[l][i]
                 IN  /\ l = inv /\ n \in Message /\ n.inv = inv /\ n.session \in Sessions
                     /\ n # m /\ n.session # m.session
                     /\ worker[n.session] = "waiting" /\ n \notin invoked
                     /\ \A q \in Invocations : n \notin batch[q]
                     /\ \A j \in DOMAIN chan'[l] : chan'[l][j] = n => j = i
           /\ Len(chan[inv]) \in Nat /\ Len(chan'[inv]) = Len(chan[inv]) - 1
<1>1. /\ inv \in Invocations /\ chan[inv] \in Seq(Message) /\ chan[inv] # <<>>
      /\ m = Head(chan[inv]) /\ chan' = [chan EXCEPT ![inv] = Tail(chan[inv])]
      /\ m = Mine(m.session) /\ chan \in [Invocations -> Seq(Message)]
  BY Received DEF IInv, Types
<1>2. /\ chan'[inv] = Tail(chan[inv]) /\ \A l \in Invocations \ {inv} : chan'[l] = chan[l]
      /\ m = chan[inv][1] /\ 1 \in DOMAIN chan[inv]
      /\ Tail(chan[inv]) \in Seq(Message)
      /\ Len(Tail(chan[inv])) = Len(chan[inv]) - 1 /\ Len(chan[inv]) \in Nat
      /\ \A i \in DOMAIN Tail(chan[inv]) :
            i + 1 \in DOMAIN chan[inv] /\ i + 1 # 1 /\ Tail(chan[inv])[i] = chan[inv][i + 1]
  BY <1>1
<1>3. chan' \in [Invocations -> Seq(Message)]
  BY <1>1, <1>2
<1>4. ChanBounded'
  <2>1. Len(chan'[inv]) <= ChecksPerInvoke + 1
    BY <1>1, <1>2, ChecksAssumption DEF IInv, ChanBounded
  <2>. QED BY <1>2, <2>1 DEF IInv, ChanBounded
<1>5. ASSUME NEW l \in Invocations, NEW i \in DOMAIN chan[l]
      PROVE  LET n == chan[l][i]
             IN  /\ l = inv /\ n \in Message /\ n.inv = inv /\ n.session \in Sessions
                 /\ n = Mine(n.session)
                 /\ worker[n.session] = "waiting" /\ n \notin invoked
                 /\ \A q \in Invocations : n \notin batch[q]
                 /\ \A j \in DOMAIN chan[l] : chan[l][j] = n => j = i
  BY <1>1, ChanMessages, MineFacts DEF IInv, ChanState
<1>6. ASSUME NEW l \in Invocations, NEW i \in DOMAIN chan'[l]
      PROVE  LET n == chan'[l][i]
             IN  /\ l = inv /\ n \in Message /\ n.inv = inv /\ n.session \in Sessions
                 /\ n # m /\ n.session # m.session
                 /\ worker[n.session] = "waiting" /\ n \notin invoked
                 /\ \A q \in Invocations : n \notin batch[q]
                 /\ \A j \in DOMAIN chan'[l] : chan'[l][j] = n => j = i
  <2>1. l = inv
    BY <1>2, <1>5
  <2>2. i \in DOMAIN Tail(chan[inv])
    BY <1>2, <2>1
  <2>. DEFINE n == chan[inv][i + 1]
  <2>3. i + 1 \in DOMAIN chan[inv] /\ i + 1 # 1 /\ chan'[l][i] = n
    BY <1>2, <2>1, <2>2
  <2>4. /\ n \in Message /\ n.inv = inv /\ n.session \in Sessions /\ n = Mine(n.session)
        /\ worker[n.session] = "waiting" /\ n \notin invoked
        /\ \A q \in Invocations : n \notin batch[q]
        /\ \A j \in DOMAIN chan[inv] : chan[inv][j] = n => j = i + 1
    BY <1>1, <1>5, <2>3
  <2>5. n # m
    BY <1>2, <2>3, <2>4
  <2>6. n.session # m.session
    BY <1>1, <2>4, <2>5
  <2>7. ASSUME NEW j \in DOMAIN chan'[l], chan'[l][j] = n PROVE j = i
    <3>1. j \in DOMAIN Tail(chan[inv]) /\ j + 1 \in DOMAIN chan[inv] /\ chan[inv][j + 1] = n
      BY <1>2, <2>1, <2>7
    <3>2. j + 1 = i + 1
      BY <2>4, <3>1
    <3>3. i \in Int /\ j \in Int
      BY <1>2, <2>2, <3>1
    <3>. QED BY <3>2, <3>3
  <2>. HIDE DEF n
  <2>. QED BY <2>1, <2>3, <2>4, <2>5, <2>6, <2>7
<1>. QED BY <1>2, <1>3, <1>4, <1>6

LEMMA PutGroup ==
    ASSUME NEW b \in SUBSET Message, Group(b), NEW m \in Message
    PROVE  /\ Put(b, m) \in SUBSET Message /\ m \in Put(b, m)
           /\ Put(b, m) \subseteq b \cup {m}
           /\ \A n \in b : n \notin Put(b, m) => AppOf[n.session] = AppOf[m.session]
           /\ Group(Put(b, m))
           /\ Cardinality(b) \in Nat /\ Cardinality(Put(b, m)) \in Nat
           /\ Cardinality(Put(b, m)) <= Cardinality(b) + 1
<1>. DEFINE kept == {n \in b : AppOf[n.session] # AppOf[m.session]}
<1>1. Put(b, m) = kept \cup {m}
  BY DEF Put
<1>2. kept \in SUBSET b /\ IsFiniteSet(b)
  BY DEF Group
<1>3. IsFiniteSet(kept) /\ Cardinality(kept) <= Cardinality(b)
  BY <1>2, FS_Subset
<1>4. Cardinality(kept) \in Nat /\ Cardinality(b) \in Nat
  BY <1>2, <1>3, FS_CardinalityType
<1>5. IsFiniteSet(kept \cup {m}) /\ Cardinality(kept \cup {m}) <= Cardinality(kept) + 1
  <2>. HIDE DEF kept
  <2>1. /\ IsFiniteSet(kept \cup {m})
        /\ Cardinality(kept \cup {m}) = IF m \in kept THEN Cardinality(kept) ELSE Cardinality(kept) + 1
    BY <1>3, FS_AddElement, Zenon
  <2>. QED BY <1>4, <2>1
<1>6. Cardinality(kept \cup {m}) \in Nat
  BY <1>5, FS_CardinalityType
<1>7. Group(Put(b, m))
  BY <1>1, <1>5 DEF Group
<1>8. Cardinality(Put(b, m)) <= Cardinality(b) + 1
  <2>. HIDE DEF kept
  <2>. QED BY <1>1, <1>3, <1>4, <1>5, <1>6
<1>. QED BY <1>1, <1>4, <1>6, <1>7, <1>8

LEMMA LimitFacts == GroupLimit \in Nat /\ GroupLimit > 0 /\ ChecksPerInvoke \in Nat
                    /\ ChecksPerInvoke <= GroupLimit /\ TotalApps \in Nat
BY ChecksAssumption, SessionsFinite DEF GroupLimit, TotalApps

\* A message of this invocation whose place another took: one of its application.
LEMMA PutAccounts ==
    ASSUME IInv, NEW k \in Invocations, NEW m \in Message, Receive(k, m),
           NEW n \in batch[k], n \notin Put(batch[k], m)
    PROVE  n \in replaced'
BY DEF Put, GivesWay, Receive

\* Who gave way stays recorded, and was in a batch before.
LEMMA ReplacedGrows ==
    ASSUME IInv, NEW k \in Invocations, NEW m \in Message, Receive(k, m)
    PROVE  replaced' \in SUBSET Message /\ replaced \subseteq replaced'
<1>1. replaced' = replaced \cup GivesWay(batch[k], m)
  BY DEF Receive
<1>2. GivesWay(batch[k], m) \subseteq batch[k]
  BY DEF GivesWay
<1>3. batch[k] \in SUBSET Message /\ replaced \in SUBSET Message
  BY DEF IInv, Types
<1>. QED BY <1>1, <1>2, <1>3

LEMMA CollectStep ==
    ASSUME IInv, NEW k \in Invocations, NEW m \in Message, Collect(k, m)
    PROVE  IInv'
<1>. DEFINE b == Put(batch[k], m)
<1>1. /\ Receive(k, m) /\ processed[k] + 1 < TotalApps /\ Cardinality(b) < ChecksPerInvoke
      /\ batch' = [batch EXCEPT ![k] = b]
      /\ worker' = [worker EXCEPT ![m.session] = "ended"]
      /\ UNCHANGED <<checks, invoked, repeated>>
  BY DEF Collect, KeepsCollecting, Released
<1>2. /\ k <= inv /\ inv \in Invocations /\ inv \in Nat /\ m.inv = inv /\ m = Mine(m.session)
      /\ m.session \in Sessions /\ worker[m.session] = "waiting"
      /\ m \notin invoked /\ \A l \in Invocations : m \notin batch[l]
      /\ \A c \in checks : c.wg # m
      /\ processed' = [processed EXCEPT ![k] = processed[k] + 1]
      /\ monitor' = [monitor EXCEPT ![k] = None]
      /\ UNCHANGED <<inv, handler, slots, closed, panicked, dropped>>
      /\ handler \notin {"returned", "prepare"}
  BY <1>1, Received, InvocationFacts DEF IInv
<1>3. /\ b \in SUBSET Message /\ m \in b /\ b \subseteq batch[k] \cup {m} /\ Group(b)
      /\ Cardinality(b) \in Nat
  BY PutGroup DEF IInv, Types, BatchState
<1>. HIDE DEF b
<1>4. /\ worker \in [Sessions -> WorkerStates] /\ batch \in [Invocations -> SUBSET Message]
      /\ processed \in [Invocations -> Nat] /\ monitor \in [Invocations -> 0..MaxInvocations]
  BY DEF IInv, Types
<1>5. /\ \A t \in Sessions : worker'[t] = IF t = m.session THEN "ended" ELSE worker[t]
      /\ \A l \in Invocations : batch'[l] = IF l = k THEN b ELSE batch[l]
      /\ \A l \in Invocations : processed'[l] = IF l = k THEN processed[k] + 1 ELSE processed[l]
      /\ \A l \in Invocations : monitor'[l] = IF l = k THEN None ELSE monitor[l]
  BY <1>1, <1>2, <1>4
<1>6. Types'
  <2>1. chan' \in [Invocations -> Seq(Message)]
    BY <1>1, RestOfChan
  <2>2. worker' \in [Sessions -> WorkerStates]
    BY <1>1, <1>4 DEF WorkerStates
  <2>3. /\ batch' \in [Invocations -> SUBSET Message] /\ processed' \in [Invocations -> Nat]
        /\ monitor' \in [Invocations -> 0..MaxInvocations]
    BY <1>1, <1>2, <1>3, <1>4, ChecksAssumption DEF None
  <2>. QED BY <1>1, <1>2, <2>1, <2>2, <2>3, ReplacedGrows DEF IInv, Types
<1>7. ChanBounded'
  BY <1>1, RestOfChan
<1>8. SlotsHeld'
  <2>1. Holding' = Holding
    BY <1>2, <1>5 DEF Holding
  <2>. QED BY <1>2, <2>1, HoldingKept
<1>9. HandlerState'
  BY <1>2 DEF IInv, HandlerState
<1>10. ChanState'
  <2>. SUFFICES ASSUME NEW l \in Invocations, NEW i \in DOMAIN chan'[l]
                PROVE  /\ l = inv /\ chan'[l][i].inv = inv
                       /\ worker'[chan'[l][i].session] = "waiting"
                       /\ chan'[l][i] \notin invoked
                       /\ \A q \in Invocations : chan'[l][i] \notin batch'[q]
                       /\ \A j \in DOMAIN chan'[l] : chan'[l][j] = chan'[l][i] => j = i
    <3>1. inv' = inv /\ invoked' = invoked
      BY <1>1, <1>2
    <3>. QED BY <3>1, Zenon DEF ChanState
  <2>1. /\ l = inv /\ chan'[l][i].inv = inv /\ chan'[l][i].session \in Sessions
        /\ chan'[l][i] # m /\ chan'[l][i].session # m.session
        /\ worker[chan'[l][i].session] = "waiting" /\ chan'[l][i] \notin invoked
        /\ \A q \in Invocations : chan'[l][i] \notin batch[q]
        /\ \A j \in DOMAIN chan'[l] : chan'[l][j] = chan'[l][i] => j = i
    BY <1>1, RestOfChan
  <2>2. \A q \in Invocations : chan'[l][i] \notin batch'[q]
    BY <1>3, <1>5, <2>1
  <2>. QED BY <1>5, <2>1, <2>2
<1>11. WgState'
  <2>. SUFFICES ASSUME NEW c \in checks PROVE worker'[c.wg.session] = "waiting"
    BY <1>1, <1>2 DEF IInv, WgState
  <2>1. c.wg \in Message /\ c.wg.inv = inv /\ worker[c.wg.session] = "waiting"
    BY DEF IInv, Types, CheckState, WgState
  <2>2. c.wg = Mine(c.wg.session) /\ c.wg.session \in Sessions
    BY <1>2, <2>1, MineFacts
  <2>3. c.wg.session # m.session
    BY <1>2, <2>2
  <2>. QED BY <1>5, <2>1, <2>2, <2>3
<1>12. HandedOver'
  <2>1. \A n \in Message : n.session \in Sessions
    BY DEF Message
  <2>2. inv <= inv
    BY <1>2
  <2>3. \A n \in invoked \cup dropped : n.session \in Sessions
    BY <2>1 DEF IInv, Types
  <2>4. \A n \in invoked \cup dropped :
           /\ n.inv <= inv
           /\ n.inv = inv => worker'[n.session] \notin {"none", "session", "submit"}
    BY <1>5, <2>3 DEF IInv, HandedOver
  <2>5. ASSUME NEW l \in Invocations, NEW n \in batch'[l]
        PROVE  n.inv <= inv /\ (n.inv = inv => worker'[n.session] \in {"ended", "gone"})
    <3>1. CASE n = m
      BY <1>2, <1>5, <2>2, <3>1
    <3>2. CASE n # m
      <4>1. n \in batch[l] /\ n.session \in Sessions
        BY <1>3, <1>4, <1>5, <2>1, <3>2
      <4>. QED BY <1>5, <4>1 DEF IInv, HandedOver
    <3>. QED BY <3>1, <3>2
  <2>. QED BY <1>1, <1>2, <2>4, <2>5 DEF HandedOver
<1>13. BatchesDisjoint'
  <2>. SUFFICES ASSUME NEW l \in Invocations
                PROVE  /\ batch'[l] \cap invoked = {}
                       /\ \A q \in Invocations \ {l} : batch'[l] \cap batch'[q] = {}
    BY <1>1 DEF BatchesDisjoint
  <2>. QED BY <1>2, <1>3, <1>5 DEF IInv, BatchesDisjoint
<1>14. MonitorState'
  <2>1. ~(k > inv) /\ None <= inv
    BY <1>2, InvocationFacts DEF IInv, None
  <2>. QED BY <1>2, <1>5, <2>1 DEF IInv, MonitorState
<1>15. BatchState'
  BY <1>1, <1>3, <1>5, LimitFacts DEF IInv, BatchState
<1>16. ChecksState' /\ ~repeated'
  BY <1>1, <1>2 DEF IInv, ChecksState
<1>17. Accounted'
  <2>. SUFFICES ASSUME NEW s \in Sessions, worker'[s] \in {"ended", "gone"},
                       Mine(s) \notin dropped \cup invoked,
                       \A l \in Invocations : Mine(s) \notin batch'[l]
                PROVE  Mine(s) \in replaced'
    <3>1. \A t \in Sessions : Mine(t)' = Mine(t)
      BY <1>2 DEF Mine
    <3>. QED BY <1>1, <1>2, <3>1 DEF Accounted
  <2>1. s # m.session
    <3>1. m \in batch'[k]
      BY <1>3, <1>5
    <3>. QED BY <1>2, <3>1
  <2>2. CASE Mine(s) \in batch[k]
    BY <1>1, <1>5, <2>2, PutAccounts DEF b
  <2>3. CASE Mine(s) \notin batch[k]
    BY <1>1, <1>5, <2>1, <2>3, ReplacedGrows DEF IInv, Accounted
  <2>. QED BY <2>2, <2>3
<1>18. FirstCountsAll'
  <2>. SUFFICES ASSUME inv = 1 PROVE processed'[1] + Len(chan'[1]) = Cardinality(Sent')
    BY <1>2 DEF FirstCountsAll
  <2>1. Sent' = Sent
    BY <1>2, <1>5 DEF Sent, Mine
  <2>2. k = 1
    BY <1>2, InvocationFacts DEF IInv, Invocations
  <2>3. Len(chan[1]) \in Nat /\ Len(chan'[1]) = Len(chan[1]) - 1
    BY <1>1, RestOfChan
  <2>4. processed[1] \in Nat /\ processed'[1] = processed[1] + 1
    BY <1>4, <1>5, <2>2
  <2>. QED BY <2>1, <2>3, <2>4, SentTypes DEF IInv, FirstCountsAll
<1>. QED BY <1>6, <1>7, <1>8, <1>9, <1>10, <1>11, <1>12, <1>13, <1>14, <1>15, <1>16, <1>17, <1>18
         DEF IInv

LEMMA StartChecksStep ==
    ASSUME IInv, NEW k \in Invocations, NEW m \in Message, StartChecks(k, m)
    PROVE  IInv'
<1>. DEFINE b == Put(batch[k], m)
            c == NewChecks(b, m)
<1>1. /\ Receive(k, m) /\ checks' = checks \cup {c} /\ invoked' = invoked \cup b
      /\ repeated' = (repeated \/ b \cap invoked # {})
      /\ batch' = [batch EXCEPT ![k] = {}] /\ worker' = worker
  BY DEF StartChecks
<1>2. /\ k <= inv /\ inv \in Invocations /\ inv \in Nat /\ m.inv = inv /\ m = Mine(m.session)
      /\ m.session \in Sessions /\ worker[m.session] = "waiting"
      /\ m \notin invoked /\ \A l \in Invocations : m \notin batch[l]
      /\ \A d \in checks : d.wg # m
      /\ processed' = [processed EXCEPT ![k] = processed[k] + 1]
      /\ monitor' = [monitor EXCEPT ![k] = None]
      /\ UNCHANGED <<inv, handler, slots, closed, panicked, dropped>>
      /\ handler \notin {"returned", "prepare"}
  BY <1>1, Received, InvocationFacts DEF IInv
<1>3. /\ b \in SUBSET Message /\ m \in b /\ b \subseteq batch[k] \cup {m} /\ Group(b)
      /\ Cardinality(b) \in Nat /\ Cardinality(batch[k]) \in Nat
      /\ Cardinality(b) <= Cardinality(batch[k]) + 1
  BY PutGroup DEF IInv, Types, BatchState
<1>4. /\ c \in CheckState /\ c.left = b /\ c.wg = m /\ c.checking \cap c.writing = {}
  <2>. HIDE DEF b
  <2>. QED BY <1>3 DEF NewChecks, CheckState
<1>. HIDE DEF b, c
<1>5. /\ batch \in [Invocations -> SUBSET Message] /\ checks \in SUBSET CheckState
      /\ invoked \in SUBSET Message /\ dropped \in SUBSET Message
      /\ processed \in [Invocations -> Nat] /\ monitor \in [Invocations -> 0..MaxInvocations]
  BY DEF IInv, Types
<1>6. /\ \A l \in Invocations : batch'[l] = IF l = k THEN {} ELSE batch[l]
      /\ \A l \in Invocations : processed'[l] = IF l = k THEN processed[k] + 1 ELSE processed[l]
      /\ \A l \in Invocations : monitor'[l] = IF l = k THEN None ELSE monitor[l]
  BY <1>1, <1>2, <1>5
<1>7. b \cap invoked = {}
  BY <1>2, <1>3 DEF IInv, BatchesDisjoint
<1>8. Types'
  <2>1. chan' \in [Invocations -> Seq(Message)]
    BY <1>1, RestOfChan
  <2>2. /\ batch' \in [Invocations -> SUBSET Message] /\ processed' \in [Invocations -> Nat]
        /\ monitor' \in [Invocations -> 0..MaxInvocations] /\ invoked' \in SUBSET Message
        /\ checks' \in SUBSET CheckState /\ repeated' = repeated
    BY <1>1, <1>2, <1>3, <1>4, <1>5, <1>7, ChecksAssumption DEF None, IInv, Types
  <2>. QED BY <1>1, <1>2, <2>1, <2>2, ReplacedGrows DEF IInv, Types
<1>9. ChanBounded'
  BY <1>1, RestOfChan
<1>10. SlotsHeld'
  <2>1. Holding' = Holding
    BY <1>1 DEF Holding
  <2>. QED BY <1>2, <2>1, HoldingKept
<1>11. HandlerState'
  BY <1>2 DEF IInv, HandlerState
<1>12. ChanState'
  <2>. SUFFICES ASSUME NEW l \in Invocations, NEW i \in DOMAIN chan'[l]
                PROVE  /\ l = inv /\ chan'[l][i].inv = inv
                       /\ worker[chan'[l][i].session] = "waiting"
                       /\ chan'[l][i] \notin invoked'
                       /\ \A q \in Invocations : chan'[l][i] \notin batch'[q]
                       /\ \A j \in DOMAIN chan'[l] : chan'[l][j] = chan'[l][i] => j = i
    <3>1. inv' = inv /\ worker' = worker
      BY <1>1, <1>2
    <3>. QED BY <3>1, Zenon DEF ChanState
  <2>1. /\ l = inv /\ chan'[l][i].inv = inv /\ chan'[l][i] # m
        /\ worker[chan'[l][i].session] = "waiting" /\ chan'[l][i] \notin invoked
        /\ \A q \in Invocations : chan'[l][i] \notin batch[q]
        /\ \A j \in DOMAIN chan'[l] : chan'[l][j] = chan'[l][i] => j = i
    BY <1>1, RestOfChan
  <2>2. \A q \in Invocations : chan'[l][i] \notin batch'[q]
    BY <1>6, <2>1
  <2>3. chan'[l][i] \notin invoked'
    BY <1>1, <1>3, <2>1
  <2>. QED BY <2>1, <2>2, <2>3
<1>13. WgState'
  BY <1>1, <1>2, <1>3, <1>4 DEF IInv, WgState
<1>14. HandedOver'
  <2>1. inv <= inv
    BY <1>2
  <2>2. ASSUME NEW n \in b
        PROVE  n.inv <= inv /\ (n.inv = inv => worker[n.session] \notin {"none", "session", "submit"})
    <3>1. CASE n = m
      BY <1>2, <2>1, <3>1
    <3>2. CASE n \in batch[k]
      BY <3>2 DEF IInv, HandedOver
    <3>. QED BY <1>3, <3>1, <3>2
  <2>3. \A l \in Invocations : \A n \in batch'[l] : n \in batch[l]
    BY <1>6
  <2>. QED BY <1>1, <1>2, <2>2, <2>3 DEF IInv, HandedOver
<1>15. BatchesDisjoint'
  <2>. SUFFICES ASSUME NEW l \in Invocations
                PROVE  /\ batch'[l] \cap invoked' = {}
                       /\ \A q \in Invocations \ {l} : batch'[l] \cap batch'[q] = {}
    BY DEF BatchesDisjoint
  <2>1. batch'[l] \cap b = {}
    BY <1>2, <1>3, <1>6 DEF IInv, BatchesDisjoint
  <2>. QED BY <1>1, <1>6, <2>1 DEF IInv, BatchesDisjoint
<1>16. MonitorState'
  <2>1. ~(k > inv) /\ None <= inv
    BY <1>2, InvocationFacts DEF IInv, None
  <2>. QED BY <1>2, <1>6, <2>1 DEF IInv, MonitorState
<1>17. BatchState'
  BY <1>6, LimitFacts, FS_EmptySet DEF IInv, BatchState, Group
<1>18. ChecksState'
  <2>1. \A n \in b : n.inv <= inv
    BY <1>2, <1>3 DEF IInv, HandedOver
  <2>2. Cardinality(b) <= GroupLimit
    BY <1>3, LimitFacts DEF IInv, BatchState
  <2>. QED BY <1>1, <1>2, <1>3, <1>4, <2>1, <2>2 DEF IInv, ChecksState
<1>19. ~repeated'
  BY <1>1, <1>7 DEF IInv
<1>20. Accounted'
  <2>. SUFFICES ASSUME NEW s \in Sessions, worker[s] \in {"ended", "gone"},
                       Mine(s) \notin dropped \cup invoked',
                       \A l \in Invocations : Mine(s) \notin batch'[l]
                PROVE  Mine(s) \in replaced'
    <3>1. \A t \in Sessions : Mine(t)' = Mine(t)
      BY <1>2 DEF Mine
    <3>. QED BY <1>1, <1>2, <3>1 DEF Accounted
  <2>1. CASE Mine(s) \in batch[k]
    BY <1>1, <2>1, PutAccounts DEF b
  <2>2. CASE Mine(s) \notin batch[k]
    BY <1>1, <1>6, <2>2, ReplacedGrows DEF IInv, Accounted
  <2>. QED BY <2>1, <2>2
<1>21. FirstCountsAll'
  <2>. SUFFICES ASSUME inv = 1 PROVE processed'[1] + Len(chan'[1]) = Cardinality(Sent')
    BY <1>2 DEF FirstCountsAll
  <2>1. Sent' = Sent
    BY <1>1, <1>2 DEF Sent, Mine
  <2>2. k = 1
    BY <1>2, InvocationFacts DEF IInv, Invocations
  <2>3. Len(chan[1]) \in Nat /\ Len(chan'[1]) = Len(chan[1]) - 1
    BY <1>1, RestOfChan
  <2>4. processed[1] \in Nat /\ processed'[1] = processed[1] + 1
    BY <1>5, <1>6, <2>2
  <2>. QED BY <2>1, <2>3, <2>4, SentTypes DEF IInv, FirstCountsAll
<1>. QED BY <1>8, <1>9, <1>10, <1>11, <1>12, <1>13, <1>14, <1>15, <1>16, <1>17, <1>18, <1>19,
            <1>20, <1>21 DEF IInv

--------------------------------------------------------------------------------
(* performChecks *)

\* The checks of a group go on, with the same goroutine to release in the end.
LEMMA ChecksGoOn ==
    ASSUME IInv, NEW c \in checks, NEW d \in CheckState,
           d.wg = c.wg, d.left \subseteq c.left, d.checking \cap d.writing = {},
           Goes(c, d)
    PROVE  IInv'
<1>. USE DEF handlerVars, monitorVars, historyVars
<1>1. /\ checks' = (checks \ {c}) \cup {d}
      /\ UNCHANGED <<handlerVars, worker, slots, chan, monitorVars, closed, panicked, historyVars>>
  BY DEF Goes, Becomes
<1>2. Types' /\ ChanBounded' /\ HandlerState'
  BY <1>1 DEF IInv, Types, ChanBounded, HandlerState
<1>3. Holding' = Holding /\ Sent' = Sent
  BY <1>1 DEF Holding, Sent, Mine
<1>4. SlotsHeld' /\ FirstCountsAll'
  BY <1>1, <1>3 DEF IInv, SlotsHeld, FirstCountsAll
<1>5. ChanState' /\ HandedOver'
  BY <1>1 DEF IInv, ChanState, HandedOver
<1>6. WgState'
  BY <1>1 DEF IInv, WgState
<1>7. BatchesDisjoint' /\ MonitorState' /\ BatchState' /\ ~repeated'
  BY <1>1 DEF IInv, BatchesDisjoint, MonitorState, BatchState
<1>8. ChecksState'
  <2>1. IsFiniteSet(c.left) /\ Cardinality(c.left) <= GroupLimit
    BY DEF IInv, ChecksState, Group
  <2>2. IsFiniteSet(d.left) /\ Cardinality(d.left) <= Cardinality(c.left)
        /\ Cardinality(d.left) \in Nat /\ Cardinality(c.left) \in Nat
    BY <2>1, FS_Subset, FS_CardinalityType
  <2>3. Cardinality(d.left) <= GroupLimit
    BY <2>1, <2>2, LimitFacts
  <2>4. Group(d.left) /\ \A m \in d.left : m.inv <= inv
    BY <2>2 DEF IInv, ChecksState, Group
  <2>. QED BY <1>1, <2>3, <2>4 DEF IInv, ChecksState
<1>9. Accounted'
  BY <1>1 DEF IInv, Accounted, Mine
<1>. QED BY <1>2, <1>4, <1>5, <1>6, <1>7, <1>8, <1>9 DEF IInv

LEMMA CheckTypes ==
    ASSUME IInv, NEW c \in checks
    PROVE  c \in CheckState /\ c.checking \cap c.writing = {}
BY DEF IInv, Types, ChecksState

LEMMA PerformStep ==
    ASSUME IInv, NEW c \in checks,
           \/ InvokeChecks(c) \/ Respond(c)
           \/ \E m \in Message : BeginWrite(c, m) \/ EndWrite(c, m)
    PROVE  IInv'
<1>0. c \in CheckState /\ c.checking \cap c.writing = {}
  BY CheckTypes
<1>1. CASE InvokeChecks(c)
  <2>. DEFINE d == [c EXCEPT !.stage = "perform"]
  <2>1. Goes(c, d)
    BY <1>1 DEF InvokeChecks
  <2>2. d \in CheckState /\ d.wg = c.wg /\ d.left = c.left /\ d.checking = c.checking
        /\ d.writing = c.writing
    BY <1>0 DEF CheckState
  <2>. HIDE DEF d
  <2>. QED BY <1>0, <2>1, <2>2, ChecksGoOn
<1>2. CASE Respond(c)
  <2>. DEFINE d == [c EXCEPT !.stage = "cache"]
  <2>1. Goes(c, d)
    BY <1>2 DEF Respond
  <2>2. d \in CheckState /\ d.wg = c.wg /\ d.left = c.left /\ d.checking = c.checking
        /\ d.writing = c.writing
    BY <1>0 DEF CheckState
  <2>. HIDE DEF d
  <2>. QED BY <1>0, <2>1, <2>2, ChecksGoOn
<1>3. ASSUME NEW m \in Message, BeginWrite(c, m) PROVE IInv'
  <2>. DEFINE d == [c EXCEPT !.checking = c.checking \ {m}, !.writing = c.writing \cup {m}]
  <2>1. Goes(c, d)
    BY <1>3 DEF BeginWrite
  <2>2. d \in CheckState /\ d.wg = c.wg /\ d.left = c.left /\ d.checking = c.checking \ {m}
        /\ d.writing = c.writing \cup {m}
    BY <1>0 DEF CheckState
  <2>. HIDE DEF d
  <2>3. d.checking \cap d.writing = {} /\ d.left \subseteq c.left
    BY <1>0, <2>2
  <2>. QED BY <2>1, <2>2, <2>3, ChecksGoOn
<1>4. ASSUME NEW m \in Message, EndWrite(c, m) PROVE IInv'
  <2>1. PICK lost : Goes(c, [c EXCEPT !.writing = c.writing \ {m}, !.left = c.left \ lost])
    BY <1>4 DEF EndWrite
  <2>. DEFINE d == [c EXCEPT !.writing = c.writing \ {m}, !.left = c.left \ lost]
  <2>2. d \in CheckState /\ d.wg = c.wg /\ d.left = c.left \ lost /\ d.checking = c.checking
        /\ d.writing = c.writing \ {m}
    BY <1>0 DEF CheckState
  <2>3. Goes(c, d)
    BY <2>1
  <2>. HIDE DEF d
  <2>4. d.checking \cap d.writing = {} /\ d.left \subseteq c.left
    BY <1>0, <2>2
  <2>. QED BY <2>2, <2>3, <2>4, ChecksGoOn
<1>. QED BY <1>1, <1>2, <1>3, <1>4

LEMMA CacheResultsStep ==
    ASSUME IInv, NEW c \in checks, NEW m, CacheResults(c, m)
    PROVE  IInv'
<1>0. c \in CheckState /\ c.checking \cap c.writing = {}
  BY CheckTypes
<1>1. CASE m.inv \in closed
  <2>. USE DEF handlerVars, monitorVars, historyVars
  <2>1. /\ panicked' = TRUE
        /\ UNCHANGED <<handlerVars, worker, slots, chan, monitorVars, checks, closed, historyVars>>
    BY <1>1 DEF CacheResults
  <2>2. Types' /\ ChanBounded' /\ HandlerState'
    BY <2>1 DEF IInv, Types, ChanBounded, HandlerState
  <2>3. Holding' = Holding /\ Sent' = Sent
    BY <2>1 DEF Holding, Sent, Mine
  <2>4. SlotsHeld' /\ FirstCountsAll'
    BY <2>1, <2>3 DEF IInv, SlotsHeld, FirstCountsAll
  <2>5. ChanState' /\ HandedOver' /\ WgState'
    BY <2>1 DEF IInv, ChanState, HandedOver, WgState
  <2>6. BatchesDisjoint' /\ MonitorState' /\ BatchState' /\ ChecksState' /\ ~repeated'
    BY <2>1 DEF IInv, BatchesDisjoint, MonitorState, BatchState, ChecksState
  <2>7. Accounted'
    BY <2>1 DEF IInv, Accounted, Mine
  <2>. QED BY <2>2, <2>4, <2>5, <2>6, <2>7 DEF IInv
<1>2. CASE m.inv \notin closed
  <2>. DEFINE d == [c EXCEPT !.left = c.left \ {m}]
  <2>1. Goes(c, d)
    BY <1>2 DEF CacheResults, Goes
  <2>2. d \in CheckState /\ d.wg = c.wg /\ d.left = c.left \ {m} /\ d.checking = c.checking
        /\ d.writing = c.writing
    BY <1>0 DEF CheckState
  <2>. HIDE DEF d
  <2>. QED BY <1>0, <2>1, <2>2, ChecksGoOn
<1>. QED BY <1>1, <1>2

LEMMA EndChecksStep == ASSUME IInv, NEW c \in checks, EndChecks(c) PROVE IInv'
<1>. USE DEF handlerVars, monitorVars, historyVars
<1>. DEFINE s == c.wg.session
<1>1. /\ checks' = checks \ {c} /\ worker' = [worker EXCEPT ![s] = "ended"]
      /\ UNCHANGED <<handlerVars, slots, chan, monitorVars, closed, panicked, historyVars>>
  BY DEF EndChecks, Released
<1>2. /\ c.wg \in Message /\ c.wg.inv = inv /\ worker[s] = "waiting" /\ c.wg \in invoked
      /\ s \in Sessions
  BY DEF IInv, Types, CheckState, WgState, Message
<1>3. inv \in Invocations /\ handler \notin {"returned", "prepare"}
  BY <1>2, UnderWay
<1>4. /\ worker \in [Sessions -> WorkerStates]
      /\ \A t \in Sessions : worker'[t] = IF t = s THEN "ended" ELSE worker[t]
  BY <1>1, <1>2 DEF IInv, Types
<1>5. c.wg = Mine(s)
  BY <1>2, <1>3, MineFacts
<1>. HIDE DEF s
<1>6. Types' /\ ChanBounded' /\ HandlerState'
  BY <1>1, <1>2, <1>3, <1>4 DEF IInv, Types, ChanBounded, HandlerState, WorkerStates
<1>7. SlotsHeld'
  <2>1. Holding' = Holding
    BY <1>2, <1>4 DEF Holding
  <2>. QED BY <1>1, <2>1, HoldingKept
<1>8. ChanState'
  <2>. SUFFICES ASSUME NEW k \in Invocations, NEW i \in DOMAIN chan[k]
                PROVE  worker'[chan[k][i].session] = "waiting"
    BY <1>1 DEF IInv, ChanState
  <2>1. /\ chan[k][i] \in Message /\ chan[k][i].session \in Sessions /\ chan[k][i].inv = inv
        /\ chan[k][i] \notin invoked /\ worker[chan[k][i].session] = "waiting"
    BY ChanMessages DEF IInv, ChanState
  <2>2. chan[k][i] = Mine(chan[k][i].session)
    BY <1>3, <2>1, MineFacts
  <2>3. chan[k][i].session # s
    BY <1>2, <1>5, <2>1, <2>2
  <2>. QED BY <1>4, <2>1, <2>3
<1>9. WgState'
  <2>. SUFFICES ASSUME NEW d \in checks, d # c
                PROVE  worker'[d.wg.session] = "waiting"
    BY <1>1 DEF IInv, WgState
  <2>1. /\ d.wg \in Message /\ d.wg.session \in Sessions /\ d.wg.inv = inv /\ d.wg # c.wg
        /\ worker[d.wg.session] = "waiting"
    BY DEF IInv, Types, CheckState, WgState, Message
  <2>2. d.wg = Mine(d.wg.session)
    BY <1>3, <2>1, MineFacts
  <2>3. d.wg.session # s
    BY <1>5, <2>1, <2>2
  <2>. QED BY <1>4, <2>1, <2>3
<1>10. HandedOver'
  <2>1. \A m \in Message : m.session \in Sessions
    BY DEF Message
  <2>. QED BY <1>1, <1>4, <2>1 DEF IInv, Types, HandedOver
<1>11. BatchesDisjoint' /\ MonitorState' /\ BatchState' /\ ChecksState' /\ ~repeated'
  BY <1>1 DEF IInv, BatchesDisjoint, MonitorState, BatchState, ChecksState
<1>12. Accounted'
  <2>1. \A t \in Sessions : Mine(t)' = Mine(t)
    BY <1>1 DEF Mine
  <2>. QED BY <1>1, <1>2, <1>4, <1>5, <2>1 DEF IInv, Accounted
<1>13. FirstCountsAll'
  <2>1. Sent' = Sent
    BY <1>1, <1>2, <1>4 DEF Sent, Mine
  <2>. QED BY <1>1, <2>1 DEF IInv, FirstCountsAll
<1>. QED BY <1>6, <1>7, <1>8, <1>9, <1>10, <1>11, <1>12, <1>13 DEF IInv

--------------------------------------------------------------------------------

LEMMA IInvStep == IInv /\ [Next]_vars => IInv'
<1>. SUFFICES ASSUME IInv, [Next]_vars PROVE IInv'
  OBVIOUS
<1>1. CASE Handler
  BY <1>1, InvokeStep, HandlerOnlySteps, SpawnStep DEF Handler
<1>2. ASSUME NEW s \in Sessions, Worker(s) PROVE IInv'
  BY <1>2, GetSessionStep, GetSessionFailsStep, GetAppToCheckStep, WorkerEndsStep DEF Worker
<1>3. ASSUME NEW k \in Invocations, Monitor(k) PROVE IInv'
  BY <1>3, AwaitAppStep, CollectStep, StartChecksStep DEF Monitor
<1>4. ASSUME NEW c \in checks, PerformChecks(c) PROVE IInv'
  <2>1. CASE InvokeFails(c) \/ WritesCollide(c) \/ ResultsCached(c)
    BY <2>1, EndChecksStep DEF InvokeFails, WritesCollide, ResultsCached
  <2>2. ASSUME NEW m, CacheResults(c, m) PROVE IInv'
    BY <2>2, CacheResultsStep
  <2>. QED BY <1>4, <2>1, <2>2, PerformStep DEF PerformChecks
<1>5. CASE UNCHANGED vars
  <2>. USE <1>5 DEF vars, handlerVars, monitorVars, historyVars
  <2>1. HandlerState' /\ handler' = handler /\ closed' = closed
    BY DEF IInv, HandlerState
  <2>. QED BY <2>1, OnlyHandlerSteps DEF IInv, Types
<1>. QED BY <1>1, <1>2, <1>3, <1>4, <1>5 DEF Next, Terminated

LEMMA InductiveInvariant == Spec => []IInv
BY InitIInv, IInvStep, PTL DEF Spec

(***************************************************************************)
(* The types of the variables. The semaphore of a run is never released    *)
(* more often than it was taken, although a monitor of an earlier          *)
(* invocation may do the releasing, and the channel keeps to its capacity. *)
(***************************************************************************)
THEOREM TypeCorrect == Spec => []TypeOK
<1>1. IInv => TypeOK
  <2>. SUFFICES ASSUME IInv PROVE TypeOK
    OBVIOUS
  <2>1. slots \in 0..Concurrency
    BY HoldingTypes, ChecksAssumption DEF IInv, SlotsHeld
  <2>2. ASSUME NEW c \in checks
        PROVE  /\ c.stage \in {"invoke", "perform", "cache"}
               /\ c.left \subseteq Message /\ c.wg \in Message
               /\ c.checking \cup c.writing \subseteq Message
               /\ c.checking \cap c.writing = {}
    BY CheckTypes DEF CheckState
  <2>. QED BY <2>1, <2>2 DEF IInv, Types, ChanBounded, TypeOK
<1>. QED BY <1>1, InductiveInvariant, PTL

(***************************************************************************)
(* performChecks, its cacheBatch and its wg: as long as checks run, their  *)
(* run waits for them, so that its batch channel is open; only results of  *)
(* an earlier invocation may meet a closed one.                            *)
(***************************************************************************)
THEOREM ChecksKeepBatchOpenHolds == Spec => []ChecksKeepBatchOpen
<1>1. IInv => ChecksKeepBatchOpen
  <2>. SUFFICES ASSUME IInv, NEW c \in checks
                PROVE  /\ c.wg.inv \notin closed
                       /\ \A m \in c.left : m.inv \in closed => m.inv < c.wg.inv
    BY DEF ChecksKeepBatchOpen
  <2>1. c.wg.inv = inv /\ worker[c.wg.session] = "waiting" /\ c.wg.session \in Sessions
    BY DEF IInv, Types, CheckState, WgState, Message
  <2>2. inv \notin closed
    BY <2>1, UnderWay
  <2>3. \A m \in c.left : m.inv <= inv /\ m.inv \in Invocations
    BY DEF IInv, Types, CheckState, ChecksState, Message
  <2>. QED BY <2>1, <2>2, <2>3, InvocationFacts DEF IInv
<1>. QED BY <1>1, InductiveInvariant, PTL

(***************************************************************************)
(* monitorAppBatch: no group exceeds checksPerInvoke or has two chains of  *)
(* one application, and no session is given to two groups, however many    *)
(* monitors of earlier invocations compete for the messages.               *)
(***************************************************************************)
THEOREM GroupsAreSoundHolds == Spec => []GroupsAreSound
<1>1. IInv => GroupsAreSound
  BY DEF IInv, ChecksState, Group, GroupsAreSound
<1>. QED BY <1>1, InductiveInvariant, PTL

(***************************************************************************)
(* RunApplicationChecks and monitorAppBatch: a session that a completed    *)
(* run obtained and did not check gave way to another chain of its         *)
(* application, or sits in an incomplete group whose monitor waits for     *)
(* sessions that were dropped or went to another monitor. With one         *)
(* invocation and nothing dropped the first is the only reason.            *)
(***************************************************************************)
THEOREM LossIsBoundedHolds == Spec => []LossIsBounded
<1>1. IInv => LossIsBounded
  <2>. SUFFICES ASSUME IInv, handler = "returned", inv \in closed, NEW s \in Sessions,
                       Mine(s) \notin dropped \cup invoked,
                       Mine(s) \notin replaced
                PROVE  /\ dropped # {} \/ inv > 1
                       /\ \E k \in Invocations : /\ Mine(s) \in batch[k]
                                                /\ processed[k] < TotalApps
                                                /\ Cardinality(batch[k]) < GroupLimit
    BY DEF LossIsBounded, RunCompleted, Lost
  <2>1. \A t \in Sessions : worker[t] = "gone"
    BY DEF IInv, HandlerState
  <2>2. PICK k \in Invocations : Mine(s) \in batch[k]
    BY <2>1 DEF IInv, Accounted
  <2>3. processed[k] < TotalApps /\ Cardinality(batch[k]) < GroupLimit
    BY <2>2 DEF IInv, BatchState
  <2>4. inv \in Invocations /\ inv \in Nat /\ inv > 0
    BY InvocationFacts DEF IInv, Types
  <2>5. ASSUME dropped = {}, ~(inv > 1) PROVE FALSE
    <3>1. inv = 1 /\ k = 1
      <4>1. inv = 1
        BY <2>4, <2>5
      <4>2. ~(k > inv)
        BY <2>2 DEF IInv, MonitorState
      <4>. QED BY <4>1, <4>2, InvocationFacts DEF IInv
    <3>2. Sent = Sessions
      BY <2>1, <2>5 DEF Sent
    <3>3. Len(chan[1]) = 0
      BY <2>1, <2>4, <3>1, NothingPending
    <3>4. processed[1] \in Nat
      BY <2>4, <3>1 DEF IInv, Types
    <3>5. processed[1] = TotalApps
      BY <3>1, <3>2, <3>3, <3>4 DEF IInv, FirstCountsAll, TotalApps
    <3>. QED BY <2>3, <3>1, <3>4, <3>5
  <2>. QED BY <2>2, <2>3, <2>5
<1>. QED BY <1>1, InductiveInvariant, PTL
================================================================================
