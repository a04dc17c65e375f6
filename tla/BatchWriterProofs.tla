--------------------------- MODULE BatchWriterProofs ---------------------------
(***************************************************************************)
(* Proofs about BatchWriter for every number of producers and caches, and  *)
(* every BatchSize.                                                        *)
(***************************************************************************)
EXTENDS BatchWriter, SequenceTheorems, TLAPS

--------------------------------------------------------------------------------
(* Sequences *)

LEMMA EmptyConcat ==
    ASSUME NEW S, NEW s \in Seq(S)
    PROVE  /\ s \o <<>> = s
           /\ <<>> \o s = s
BY ConcatEmptySeq

LEMMA ConcatInSeq ==
    ASSUME NEW S, NEW s \in Seq(S), NEW t \in Seq(S)
    PROVE  s \o t \in Seq(S)
BY ConcatProperties

LEMMA ItemsAssociative ==
    ASSUME NEW s \in Seq(Item), NEW t \in Seq(Item), NEW u \in Seq(Item)
    PROVE  (s \o t) \o u = s \o (t \o u)
BY ConcatAssociative

\* Moving the head of t to the end of s changes nothing of s \o t.
LEMMA ConcatShift ==
    \A a, s, t \in Seq(Item) :
        t # <<>> => (a \o Append(s, Head(t))) \o Tail(t) = (a \o s) \o t
<1>. SUFFICES ASSUME NEW a \in Seq(Item), NEW s \in Seq(Item), NEW t \in Seq(Item),
                     t # <<>>
              PROVE  (a \o Append(s, Head(t))) \o Tail(t) = (a \o s) \o t
  OBVIOUS
<1>1. Head(t) \in Item /\ Tail(t) \in Seq(Item)
  BY HeadTailProperties
<1>. DEFINE h == <<Head(t)>>
<1>2. h \in Seq(Item)
  BY <1>1
<1>3. Append(s, Head(t)) = s \o h
  BY <1>1, AppendIsConcat
<1>4. t = h \o Tail(t)
  <2>1. h \o Tail(t) \in Seq(Item)
    BY <1>1, <1>2, ConcatProperties
  <2>2. Len(h \o Tail(t)) = Len(t)
    BY <1>1
  <2>3. ASSUME NEW i \in 1..Len(t) PROVE (h \o Tail(t))[i] = t[i]
    BY <1>1, <2>3
  <2>. QED BY <2>1, <2>2, <2>3, SeqEqual
<1>. HIDE DEF h
<1>5. (a \o (s \o h)) \o Tail(t) = ((a \o s) \o h) \o Tail(t)
  BY <1>2, ItemsAssociative, Zenon
<1>6. a \o s \in Seq(Item)
  BY ConcatProperties
<1>7. ((a \o s) \o h) \o Tail(t) = (a \o s) \o (h \o Tail(t))
  BY <1>1, <1>2, <1>6, ItemsAssociative, Zenon
<1>. QED BY <1>3, <1>4, <1>5, <1>7

LEMMA ConcatAppend ==
    \A s, t \in Seq(Item), e \in Item : s \o Append(t, e) = Append(s \o t, e)
OBVIOUS

LEMMA PrefixOfConcat ==
    ASSUME NEW S, NEW s \in Seq(S), NEW t \in Seq(S)
    PROVE  /\ SubSeq(s \o t, 1, Len(s)) = s
           /\ Len(s \o t) = Len(s) + Len(t)
OBVIOUS

--------------------------------------------------------------------------------
(* The inductive invariant *)

\* Before BatchWriter() is called nothing has happened.
Untouched == pc = "idle" => /\ caches = {} /\ batch = <<>> /\ items = <<>>
                            /\ sent = <<>> /\ ~closed
                            /\ attempted = [c \in Caches |-> <<>>]

\* Where the monitor is tells what the channel, its batch and the pipelines
\* can be: it leaves the loop only through the receive of a closed, empty
\* channel, and no pipeline runs outside writeBatch.
Control == /\ writing \subseteq caches
           /\ pc \in {"idle", "receive"} => ok
           /\ pc # "write" => writing = {}
           /\ pc = "exited" => ~ok /\ items = <<>>
           /\ ~ok => closed /\ batch = <<>>
           /\ closed => senders = {}

\* A batch is written as soon as it is full.
BatchBound == /\ pc = "receive" => Len(items) < BatchWindow
              /\ Len(items) <= BatchWindow

IInv == TypeOK /\ Untouched /\ Control /\ BatchBound /\ Conservation

LEMMA TypeInit == Init => TypeOK
BY EmptySeq DEF Init, TypeOK

LEMMA TypeStep == TypeOK /\ [Next]_vars => TypeOK'
<1>. SUFFICES ASSUME TypeOK, [Next]_vars PROVE TypeOK'
  OBVIOUS
<1>1. ASSUME NEW cs \in SUBSET Caches, Start(cs) PROVE TypeOK'
  BY <1>1 DEF Start, TypeOK, historyVars
<1>2. ASSUME NEW p \in Producers, NEW i \in Item, Send(p, i) PROVE TypeOK'
  BY <1>2 DEF Send, TypeOK, monitorVars, historyVars
<1>3. ASSUME NEW p \in Producers, ProducerDone(p) PROVE TypeOK'
  BY <1>3 DEF ProducerDone, TypeOK, monitorVars, historyVars
<1>4. CASE Close
  BY <1>4 DEF Close, TypeOK, monitorVars, historyVars
<1>5. CASE ReceiveItem
  <2>1. Head(batch) \in Item /\ Tail(batch) \in Seq(Item)
    BY <1>5, HeadTailProperties DEF ReceiveItem, TypeOK
  <2>2. items' \in Seq(Item) /\ batch' \in Seq(Item)
    BY <1>5, <2>1, AppendProperties DEF ReceiveItem, TypeOK
  <2>. QED BY <1>5, <2>2 DEF ReceiveItem, TypeOK, historyVars
<1>6. CASE ReceiveClosed
  BY <1>6 DEF ReceiveClosed, TypeOK, historyVars
<1>7. ASSUME NEW c \in Caches, RunPipeline(c) PROVE TypeOK'
  <2>1. attempted[c] \o items \in Seq(Item)
    BY ConcatInSeq DEF TypeOK
  <2>2. content' \in [Caches -> Content]
    <3>1. PICK new \in Content : content' = [content EXCEPT ![c] = new]
      BY <1>7 DEF RunPipeline, PipelineSucceeds, PipelineFails, AfterPipeline, AfterFailure
    <3>. QED BY <3>1 DEF TypeOK
  <2>. QED BY <1>7, <2>1, <2>2 DEF RunPipeline, PipelineSucceeds, PipelineFails, TypeOK
<1>8. CASE BatchWritten
  BY <1>8, EmptySeq DEF BatchWritten, TypeOK, historyVars
<1>9. CASE UNCHANGED vars
  BY <1>9 DEF vars, TypeOK
<1>. QED
  BY <1>1, <1>2, <1>3, <1>4, <1>5, <1>6, <1>7, <1>8, <1>9
  DEF Next, Monitor, Terminated

\* Every variable keeps its type: no step of a producer, of the monitor or of
\* a pipeline of shared/cache/batch.go leaves the state space.
THEOREM TypeCorrect == Spec => []TypeOK
BY TypeInit, TypeStep, PTL DEF Spec

--------------------------------------------------------------------------------
(* Control and bounds *)

LEMMA ControlStep ==
    ASSUME TypeOK, Untouched, Control, [Next]_vars
    PROVE  Untouched' /\ Control'
<1>1. ASSUME NEW cs \in SUBSET Caches, Start(cs) PROVE Untouched' /\ Control'
  BY <1>1 DEF Start, Untouched, Control, historyVars
<1>2. ASSUME NEW p \in Producers, NEW i \in Item, Send(p, i)
      PROVE  Untouched' /\ Control'
  BY <1>2 DEF Send, Untouched, Control, monitorVars, historyVars
<1>3. ASSUME NEW p \in Producers, ProducerDone(p) PROVE Untouched' /\ Control'
  BY <1>3 DEF ProducerDone, Untouched, Control, monitorVars, historyVars
<1>4. CASE Close
  BY <1>4 DEF Close, Untouched, Control, monitorVars, historyVars
<1>5. CASE ReceiveItem
  BY <1>5 DEF ReceiveItem, Untouched, Control, historyVars
<1>6. CASE ReceiveClosed
  BY <1>6 DEF ReceiveClosed, Untouched, Control, historyVars
<1>7. ASSUME NEW c \in Caches, RunPipeline(c) PROVE Untouched' /\ Control'
  BY <1>7 DEF RunPipeline, PipelineSucceeds, PipelineFails, Untouched, Control
<1>8. CASE BatchWritten
  BY <1>8 DEF BatchWritten, Untouched, Control, historyVars, TypeOK
<1>9. CASE UNCHANGED vars
  BY <1>9 DEF vars, Untouched, Control
<1>. QED
  BY <1>1, <1>2, <1>3, <1>4, <1>5, <1>6, <1>7, <1>8, <1>9
  DEF Next, Monitor, Terminated

LEMMA WindowIsPositive == BatchWindow \in Nat \ {0} /\ BatchSize <= BatchWindow
BY BatchWriterAssumption DEF BatchWindow

LEMMA BatchBoundStep ==
    ASSUME TypeOK, Untouched, BatchBound, [Next]_vars
    PROVE  BatchBound'
<1>. USE WindowIsPositive, BatchWriterAssumption
<1>0. /\ Len(items) \in Nat
      /\ Len(<<>>) = 0
  BY LenProperties, EmptySeq DEF TypeOK
<1>1. ASSUME NEW cs \in SUBSET Caches, Start(cs) PROVE BatchBound'
  BY <1>0, <1>1 DEF Start, Untouched, BatchBound, BatchWindow
<1>2. CASE ReceiveItem
  <2>1. Head(batch) \in Item
    BY <1>2, HeadTailProperties DEF ReceiveItem, TypeOK
  <2>2. Len(items') = Len(items) + 1
    BY <1>2, <2>1, AppendProperties DEF ReceiveItem, TypeOK
  <2>3. Len(items') <= BatchWindow
    BY <1>0, <1>2, <2>2 DEF ReceiveItem, BatchBound, BatchWindow
  <2>4. pc' = "receive" => Len(items') < BatchSize
    BY <1>0, <1>2, <2>2 DEF ReceiveItem, Full
  <2>. QED BY <1>0, <2>2, <2>3, <2>4 DEF BatchBound, BatchWindow
<1>3. CASE ReceiveClosed
  BY <1>0, <1>3 DEF ReceiveClosed, BatchBound, BatchWindow
<1>4. CASE BatchWritten
  BY <1>0, <1>4 DEF BatchWritten, BatchBound, BatchWindow
<1>5. CASE UNCHANGED <<pc, items>>
  BY <1>5 DEF BatchBound, BatchWindow
<1>. QED
  BY <1>1, <1>2, <1>3, <1>4, <1>5
  DEF Next, Monitor, Terminated, vars, Send, ProducerDone, Close, RunPipeline,
      PipelineSucceeds, PipelineFails, monitorVars

--------------------------------------------------------------------------------
(* Conservation *)

LEMMA ConservationStep ==
    ASSUME TypeOK, Untouched, Control, Conservation, [Next]_vars
    PROVE  Conservation'
<1>1. ASSUME NEW cs \in SUBSET Caches, Start(cs) PROVE Conservation'
  BY <1>1, EmptyConcat, EmptySeq
  DEF Start, Untouched, Conservation, InFlight, historyVars
<1>2. ASSUME NEW p \in Producers, NEW i \in Item, Send(p, i) PROVE Conservation'
  <2>1. SUFFICES ASSUME NEW c \in caches
                 PROVE  (attempted[c] \o InFlight(c)) \o Append(batch, i) = Append(sent, i)
    BY <1>2 DEF Send, Conservation, InFlight, monitorVars, historyVars
  <2>2. InFlight(c) \in Seq(Item) /\ attempted[c] \in Seq(Item)
    BY EmptySeq DEF InFlight, TypeOK
  <2>3. attempted[c] \o InFlight(c) \in Seq(Item)
    BY <2>2, ConcatInSeq
  <2>4. batch \in Seq(Item) /\ (attempted[c] \o InFlight(c)) \o batch = sent
    BY DEF Conservation, TypeOK
  <2>. QED BY <2>3, <2>4, ConcatAppend, Zenon
<1>3. CASE ReceiveItem
  <2>1. SUFFICES ASSUME NEW c \in caches
                 PROVE  (attempted[c] \o InFlight(c)') \o Tail(batch) = sent
    BY <1>3 DEF ReceiveItem, Conservation, InFlight, historyVars
  <2>2. InFlight(c)' = Append(items, Head(batch)) /\ InFlight(c) = items
    BY <1>3 DEF ReceiveItem, InFlight, Control
  <2>3. /\ attempted[c] \in Seq(Item) /\ items \in Seq(Item)
        /\ batch \in Seq(Item) /\ batch # <<>>
    BY <1>3 DEF ReceiveItem, TypeOK
  <2>4. (attempted[c] \o items) \o batch = sent
    BY <2>2 DEF Conservation
  <2>5. (attempted[c] \o Append(items, Head(batch))) \o Tail(batch)
            = (attempted[c] \o items) \o batch
    BY <2>3, ConcatShift, Zenon
  <2>. QED BY <2>2, <2>4, <2>5
<1>4. CASE ReceiveClosed
  BY <1>4 DEF ReceiveClosed, Conservation, InFlight, Control, historyVars
<1>5. ASSUME NEW c \in Caches, RunPipeline(c) PROVE Conservation'
  <2>1. SUFFICES ASSUME NEW d \in caches
                 PROVE  ((attempted[d] \o InFlight(d)) \o batch = sent)'
    BY <1>5 DEF RunPipeline, PipelineSucceeds, PipelineFails, Conservation
  <2>2. CASE d = c
    <3>1. attempted[d] \o items \in Seq(Item)
      BY ConcatInSeq DEF TypeOK
    <3>2. attempted'[d] = attempted[d] \o items /\ InFlight(d)' = <<>> /\ InFlight(d) = items
      BY <1>5, <2>2 DEF RunPipeline, PipelineSucceeds, PipelineFails, InFlight, TypeOK
    <3>3. attempted'[d] \o InFlight(d)' = attempted[d] \o InFlight(d)
      BY <3>1, <3>2, EmptyConcat
    <3>. QED
      BY <1>5, <3>3 DEF RunPipeline, PipelineSucceeds, PipelineFails, Conservation
  <2>3. CASE d # c
    BY <1>5, <2>3
    DEF RunPipeline, PipelineSucceeds, PipelineFails, Conservation, InFlight, TypeOK
  <2>. QED BY <2>2, <2>3
<1>6. CASE BatchWritten
  <2>. SUFFICES ASSUME NEW c \in caches PROVE InFlight(c)' = InFlight(c)
    BY <1>6 DEF BatchWritten, Conservation, historyVars
  <2>. QED BY <1>6 DEF BatchWritten, InFlight
<1>7. CASE UNCHANGED <<pc, batch, items, caches, writing, sent, attempted>>
  BY <1>7 DEF Conservation, InFlight
<1>. QED
  BY <1>1, <1>2, <1>3, <1>4, <1>5, <1>6, <1>7
  DEF Next, Monitor, Terminated, vars, ProducerDone, Close, monitorVars, historyVars

LEMMA IInvInit == Init => IInv
<1>. SUFFICES ASSUME Init PROVE IInv
  OBVIOUS
<1>1. TypeOK
  BY TypeInit
<1>2. Untouched /\ Control /\ Conservation
  BY DEF Init, Untouched, Control, Conservation
<1>3. BatchBound
  BY WindowIsPositive, EmptySeq DEF Init, BatchBound
<1>. QED BY <1>1, <1>2, <1>3 DEF IInv

LEMMA IInvStep == IInv /\ [Next]_vars => IInv'
BY TypeStep, ControlStep, BatchBoundStep, ConservationStep DEF IInv

LEMMA InductiveInvariant == Spec => []IInv
BY IInvInit, IInvStep, PTL DEF Spec

\* Nothing handed to the batch writer is lost, repeated or reordered on its
\* way to any connected cache: offered, being written and buffered items are
\* at every moment exactly the items sent.
THEOREM ConservationHolds == Spec => []Conservation
<1>1. IInv => Conservation
  BY DEF IInv
<1>. QED BY <1>1, InductiveInvariant, PTL

\* The monitor exits only when every connected cache was offered everything,
\* so the service's cacheWg.Wait() returns after the last partial batch.
THEOREM NothingLeftBehindHolds == Spec => []NothingLeftBehind
<1>1. IInv => NothingLeftBehind
  <2>. SUFFICES ASSUME IInv, pc = "exited", NEW c \in caches
                PROVE  attempted[c] = sent
    BY DEF NothingLeftBehind
  <2>1. InFlight(c) = <<>> /\ batch = <<>>
    BY DEF IInv, Control, InFlight
  <2>2. attempted[c] \in Seq(Item)
    BY DEF IInv, TypeOK
  <2>. QED BY <2>1, <2>2, EmptyConcat DEF IInv, Conservation
<1>. QED BY <1>1, InductiveInvariant, PTL

--------------------------------------------------------------------------------
(* What the caches hold *)

LEMMA PartOfConcat ==
    ASSUME NEW S, NEW q \in Seq(S), NEW r \in Seq(S), NEW t \in Seq(S), NEW i \in DOMAIN r
    PROVE  /\ Len(q) + i \in DOMAIN ((q \o r) \o t)
           /\ ((q \o r) \o t)[Len(q) + i] = r[i]
  OBVIOUS

\* Every item of the batch a cache is being offered was sent.
LEMMA ItemsAreSent ==
    ASSUME TypeOK, Control, Conservation, pc = "write", NEW c \in writing,
           NEW i \in DOMAIN items
    PROVE  \E j \in DOMAIN sent : sent[j] = items[i]
<1>1. c \in caches /\ (attempted[c] \o items) \o batch = sent
  BY DEF Control, Conservation, InFlight
<1>2. /\ attempted[c] \in Seq(Item) /\ items \in Seq(Item)
      /\ batch \in Seq(Item)
  BY DEF TypeOK
<1>3. /\ Len(attempted[c]) + i \in DOMAIN ((attempted[c] \o items) \o batch)
      /\ ((attempted[c] \o items) \o batch)[Len(attempted[c]) + i] = items[i]
  BY <1>2, PartOfConcat
<1>. QED BY <1>1, <1>3

\* The last write of a concatenation is the last write of its second part
\* or, if that part does not write the key, of the first.
LEMMA LatestOfConcat ==
    ASSUME NEW s \in Seq(Item), NEW t \in Seq(Item), NEW k \in Keys,
           NEW old, NEW new,
           IsLatest(old, t, k, new[k]),
           (\E i \in DOMAIN s : s[i].key = k) => IsLatest(old, s, k, old[k]),
           \E i \in DOMAIN (s \o t) : (s \o t)[i].key = k
    PROVE  IsLatest(new, s \o t, k, new[k])
<1>. DEFINE st == s \o t
<1>1. /\ Len(s) \in Nat /\ Len(t) \in Nat
      /\ DOMAIN s = 1..Len(s) /\ DOMAIN t = 1..Len(t)
      /\ DOMAIN st = 1..(Len(s) + Len(t))
      /\ \A i \in 1..Len(s) : st[i] = s[i]
      /\ \A i \in 1..Len(t) : st[Len(s) + i] = t[i]
      /\ \A i \in DOMAIN st : i > Len(s) => i - Len(s) \in DOMAIN t /\ st[i] = t[i - Len(s)]
  OBVIOUS
<1>. HIDE DEF st
<1>2. CASE \E i \in DOMAIN t : t[i].key = k
  <2>1. PICK i \in DOMAIN t : /\ t[i] = [key |-> k, value |-> new[k]]
                              /\ \A j \in DOMAIN t : j > i => t[j].key # k
    BY <1>2 DEF IsLatest
  <2>2. Len(s) + i \in DOMAIN st /\ st[Len(s) + i] = [key |-> k, value |-> new[k]]
    BY <1>1, <2>1
  <2>3. ASSUME NEW j \in DOMAIN st, j > Len(s) + i PROVE st[j].key # k
    <3>1. j > Len(s) /\ j - Len(s) > i
      BY <1>1, <2>3
    <3>. QED BY <1>1, <2>1, <3>1
  <2>. QED BY <2>2, <2>3 DEF IsLatest, st
<1>3. CASE \A i \in DOMAIN t : t[i].key # k
  <2>1. new[k] = old[k]
    BY <1>3 DEF IsLatest
  <2>2. \E i \in DOMAIN s : s[i].key = k
    <3>1. PICK n \in DOMAIN st : st[n].key = k
      BY DEF st
    <3>2. n <= Len(s)
      BY <1>1, <1>3, <3>1
    <3>. QED BY <1>1, <3>1, <3>2
  <2>3. PICK i \in DOMAIN s : /\ s[i] = [key |-> k, value |-> old[k]]
                              /\ \A j \in DOMAIN s : j > i => s[j].key # k
    BY <2>2 DEF IsLatest
  <2>4. i \in DOMAIN st /\ st[i] = [key |-> k, value |-> new[k]]
    BY <1>1, <2>1, <2>3
  <2>5. ASSUME NEW j \in DOMAIN st, j > i PROVE st[j].key # k
    BY <1>1, <1>3, <2>3, <2>5
  <2>. QED BY <2>4, <2>5 DEF IsLatest, st
<1>. QED BY <1>2, <1>3

LEMMA CurrentInit == Init => CleanCachesCurrent
<1>. SUFFICES ASSUME Init, NEW c \in Caches PROVE DOMAIN attempted[c] = {}
  BY DEF CleanCachesCurrent
<1>. QED BY EmptySeq DEF Init

LEMMA CurrentStep ==
    ASSUME TypeOK, CleanCachesCurrent, [Next]_vars
    PROVE  CleanCachesCurrent'
<1>1. ASSUME NEW c \in Caches, PipelineSucceeds(c) PROVE CleanCachesCurrent'
  <2>1. SUFFICES ASSUME NEW d \in Caches, d \notin failed', NEW k \in Keys,
                        \E i \in DOMAIN attempted'[d] : attempted'[d][i].key = k
                 PROVE  IsLatest(content'[d], attempted'[d], k, content'[d][k])
    BY DEF CleanCachesCurrent, IsLatest
  <2>2. PICK new \in AfterPipeline(content[c], items) :
            content' = [content EXCEPT ![c] = new]
    BY <1>1 DEF PipelineSucceeds
  <2>3. attempted' = [attempted EXCEPT ![c] = @ \o items] /\ failed' = failed
    BY <1>1 DEF PipelineSucceeds
  <2>4. CASE d = c
    <3>1. /\ content'[d] = new /\ attempted'[d] = attempted[d] \o items
          /\ attempted[d] \in Seq(Item) /\ items \in Seq(Item)
      BY <2>2, <2>3, <2>4 DEF TypeOK
    <3>2. IsLatest(content[d], items, k, new[k])
      BY <2>2, <2>4 DEF AfterPipeline
    <3>3. (\E i \in DOMAIN attempted[d] : attempted[d][i].key = k)
              => IsLatest(content[d], attempted[d], k, content[d][k])
      BY <2>1, <2>3 DEF CleanCachesCurrent
    <3>4. \E i \in DOMAIN (attempted[d] \o items) : (attempted[d] \o items)[i].key = k
      BY <2>1, <3>1
    <3>5. IsLatest(new, attempted[d] \o items, k, new[k])
      BY <3>1, <3>2, <3>3, <3>4, LatestOfConcat
    <3>. QED BY <3>1, <3>5
  <2>5. CASE d # c
    <3>1. content'[d] = content[d] /\ attempted'[d] = attempted[d]
      BY <2>2, <2>3, <2>5 DEF TypeOK
    <3>. QED BY <2>1, <2>3, <3>1 DEF CleanCachesCurrent
  <2>. QED BY <2>4, <2>5
<1>2. ASSUME NEW c \in Caches, PipelineFails(c) PROVE CleanCachesCurrent'
  <2>1. SUFFICES ASSUME NEW d \in Caches, d \notin failed', NEW k \in Keys,
                        \E i \in DOMAIN attempted'[d] : attempted'[d][i].key = k
                 PROVE  IsLatest(content'[d], attempted'[d], k, content'[d][k])
    BY DEF CleanCachesCurrent, IsLatest
  <2>2. d # c /\ d \notin failed
    BY <1>2, <2>1 DEF PipelineFails
  <2>3. content'[d] = content[d] /\ attempted'[d] = attempted[d]
    BY <1>2, <2>2 DEF PipelineFails, TypeOK
  <2>. QED BY <2>1, <2>2, <2>3 DEF CleanCachesCurrent
<1>3. CASE UNCHANGED <<content, attempted, failed>>
  BY <1>3 DEF CleanCachesCurrent, IsLatest
<1>. QED
  BY <1>1, <1>2, <1>3
  DEF Next, Monitor, Terminated, vars, Start, Send, ProducerDone, Close, ReceiveItem,
      ReceiveClosed, BatchWritten, RunPipeline, historyVars

\* A cache whose pipelines all succeeded holds, for every key, the value sent
\* last among those it was offered, whatever batches they were split into.
THEOREM CleanCachesCurrentHolds == Spec => []CleanCachesCurrent
BY CurrentInit, CurrentStep, TypeInit, TypeStep, PTL DEF Spec

--------------------------------------------------------------------------------
(* Refinement *)

\* The batch writer implements OrderedDelivery with a window of one batch.
THEOREM WriterRefinesDelivery == Spec => Delivery
<1>. USE DEF Phase
<1>1. Init => Abstract!Init
  BY DEF Init, Abstract!Init
<1>2. IInv /\ IInv' /\ [Next]_vars => [Abstract!Next]_Abstract!vars
  <2>. SUFFICES ASSUME IInv, IInv', [Next]_vars PROVE [Abstract!Next]_Abstract!vars
    OBVIOUS
  <2>1. ASSUME NEW cs \in SUBSET Caches, Start(cs) PROVE Abstract!Open(cs)
    BY <2>1 DEF Start, Abstract!Open, historyVars
  <2>2. ASSUME NEW p \in Producers, NEW i \in Item, Send(p, i) PROVE Abstract!Accept(i)
    <3>1. pc # "exited" /\ pc # "idle"
      BY <2>2 DEF Send, IInv, Control
    <3>. QED BY <2>2, <3>1 DEF Send, Abstract!Accept, monitorVars, historyVars, IInv, TypeOK
  <2>3. ASSUME NEW c \in Caches, RunPipeline(c)
        PROVE  \E n \in 0..Len(sent) : c \in caches /\ Abstract!Offer(c, n)
    <3>1. /\ pc = "write" /\ c \in writing /\ c \in caches /\ Phase = "open" /\ Phase' = "open"
          /\ attempted' = [attempted EXCEPT ![c] = @ \o items]
          /\ UNCHANGED <<caches, sent>>
      BY <2>3 DEF RunPipeline, PipelineSucceeds, PipelineFails, IInv, Control
    <3>. DEFINE n == Len(attempted[c] \o items)
    <3>2. /\ attempted[c] \in Seq(Item) /\ items \in Seq(Item) /\ batch \in Seq(Item)
          /\ attempted[c] \o items \in Seq(Item)
      BY ConcatInSeq DEF IInv, TypeOK
    <3>3. (attempted[c] \o items) \o batch = sent
      BY <3>1 DEF IInv, Conservation, InFlight
    <3>4. n = Len(attempted[c]) + Len(items) /\ Len(sent) = n + Len(batch)
      BY <3>2, <3>3, PrefixOfConcat
    <3>5. /\ n \in 0..Len(sent) /\ Len(attempted[c]) <= n
      BY <3>2, <3>4, LenProperties
    <3>6. SubSeq(sent, 1, n) = attempted[c] \o items
      BY <3>2, <3>3, PrefixOfConcat
    <3>7. ASSUME NEW d \in caches PROVE n <= Len(attempted[d]) + BatchWindow
      <4>1. /\ attempted[d] \in Seq(Item) /\ InFlight(d) \in Seq(Item)
            /\ attempted[d] \o InFlight(d) \in Seq(Item)
        BY EmptySeq, ConcatInSeq DEF IInv, TypeOK, InFlight
      <4>2. (attempted[d] \o InFlight(d)) \o batch = sent
        BY DEF IInv, Conservation
      <4>3. Len(sent) = Len(attempted[d]) + Len(InFlight(d)) + Len(batch)
        BY <3>2, <4>1, <4>2, PrefixOfConcat
      <4>4. Len(InFlight(d)) <= BatchWindow
        BY WindowIsPositive, EmptySeq DEF IInv, BatchBound, InFlight
      <4>. QED BY <3>2, <3>4, <4>1, <4>3, <4>4, WindowIsPositive, LenProperties
    <3>. QED BY <3>1, <3>5, <3>6, <3>7 DEF Abstract!Offer
  <2>4. CASE BatchWritten
    <3>1. CASE ok
      BY <2>4, <3>1 DEF BatchWritten, Abstract!vars, historyVars
    <3>2. CASE ~ok
      <4>1. pc' = "exited" /\ pc = "write"
        BY <2>4, <3>2 DEF BatchWritten
      <4>2. ASSUME NEW c \in caches PROVE attempted[c] = sent
        <5>1. InFlight(c) = <<>> /\ batch = <<>> /\ attempted[c] \in Seq(Item)
          BY <2>4, <3>2, <4>1 DEF BatchWritten, IInv, TypeOK, Control, InFlight
        <5>. QED BY <5>1, EmptyConcat DEF IInv, Conservation
      <4>3. Abstract!Finish
        BY <2>4, <4>1, <4>2 DEF BatchWritten, Abstract!Finish, historyVars
      <4>. QED BY <4>3 DEF Abstract!Next
    <3>. QED BY <3>1, <3>2
  <2>5. ASSUME NEW p \in Producers, ProducerDone(p) PROVE UNCHANGED Abstract!vars
    BY <2>5 DEF ProducerDone, Abstract!vars, monitorVars, historyVars
  <2>6. CASE Close
    BY <2>6 DEF Close, Abstract!vars, monitorVars, historyVars
  <2>7. CASE ReceiveItem \/ ReceiveClosed
    BY <2>7 DEF ReceiveItem, ReceiveClosed, Abstract!vars, historyVars
  <2>8. CASE UNCHANGED vars
    BY <2>8 DEF vars, Abstract!vars
  <2>. QED
    BY <2>1, <2>2, <2>3, <2>4, <2>5, <2>6, <2>7, <2>8
    DEF Next, Monitor, Terminated, Abstract!Next
<1>. QED BY <1>1, <1>2, InductiveInvariant, PTL DEF Spec, Delivery, Abstract!Spec
================================================================================
