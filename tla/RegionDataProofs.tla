---------------------------- MODULE RegionDataProofs ----------------------------
(***************************************************************************)
(* What the snapshot reads of a region, whatever the portal changes under  *)
(* it, for every set of nodes and of sessions, every number of changes,    *)
(* every order of the keys and every placement of them on the shards.      *)
(***************************************************************************)
EXTENDS RegionData, FiniteSetTheorems, TLAPS

(***************************************************************************)
(* The inductive invariant. held remembers what a key held, so that what   *)
(* was read of a key, now or earlier, is in it. A key that was there all   *)
(* along was seen by KEYS, if its shard was asked: a key that was not has  *)
(* held NoValue since.                                                     *)
(***************************************************************************)
LogKey(n) == KeyOf("service", n, NoSession)
MarkKey(n) == KeyOf("failure", n, NoSession)
Steady(k) == NoValue \notin held[k]
WasAsked(k) == asked[k.kind] = ShardOf[k.node]

Entry == [session : Sessions \cup {NoSession, NoValue}, successes : Value, failures : Value,
          failure : BOOLEAN]

Types == /\ content \in [Key -> Value]
         /\ held \in [Key -> SUBSET Value]
         /\ keys \in Seq(Key)
         /\ AppData \in [Nodes -> Entry]
         /\ asked \in [Kinds -> Shards \cup {NoShard}]

\* A log that is there names a session.
LogsNameSessions == \A n \in Nodes : held[LogKey(n)] \subseteq Sessions \cup {NoValue}

HeldIsKnown == \A k \in Key : content[k] \in held[k]

ReadWasHeld == /\ DOMAIN results \subseteq DOMAIN keys /\ errors \subseteq DOMAIN results
               /\ \A i \in DOMAIN results : IF i \in errors THEN results[i] = NoValue
                                            ELSE results[i] \in held[keys[i]]

NoPipelineYet == ~InPipeline => DOMAIN results = {} /\ errors = {}

\* Which keys have been listed, and which entries made, when the reading has
\* come to a stage.
ListedInStage(kind) == CASE kind = "service"  -> {"logs"}
                         [] kind = "success"  -> {"failures", "failure", "values"}
                         [] kind = "failures" -> {"failure", "values"}
                         [] kind = "failure"  -> {"values"}

SteadyIsListed ==
    \A kind \in Kinds :
        stage \in ListedInStage(kind)
            => \A k \in KeysOf(kind) : Steady(k) /\ WasAsked(k) => k \in Listed

SteadyIsValid ==
    stage \in {"success", "failures", "failure", "values", "done"}
        => \A n \in Nodes :
               Steady(LogKey(n)) /\ WasAsked(LogKey(n)) /\ LogKey(n) \notin dropped
                   => n \in Valid

NoEntriesYet == stage \in {"service", "logs"} => AppData = [n \in Nodes |-> NoEntry]

NothingCountedYet ==
    stage # "done" => \A n \in Nodes : /\ AppData[n].successes = 0
                                       /\ AppData[n].failures = 0
                                       /\ AppData[n].failure = FALSE

IInv == /\ Types /\ LogsNameSessions /\ HeldIsKnown /\ ReadWasHeld /\ NoPipelineYet
        /\ SteadyIsListed /\ SteadyIsValid /\ NoEntriesYet /\ NothingCountedYet
        /\ EntriesWereSo

LEMMA KeyFacts ==
    /\ KeysOf("service") = {LogKey(n) : n \in Nodes}
    /\ \A n \in Nodes, kind \in Counters, s \in Sessions :
           KeyOf(kind, n, s) \in KeysOf(kind)
    /\ \A n \in Nodes : MarkKey(n) \in KeysOf("failure")
    /\ \A kind : KeysOf(kind) \subseteq Key
    /\ \A kind : \A k \in KeysOf(kind) : k.kind = kind /\ k.node \in Nodes
<1>1. \A n \in Nodes : LogKey(n) \in KeysOf("service")
  BY DEF LogKey, KeyOf, KeysOf, Key
<1>2. ASSUME NEW k \in KeysOf("service") PROVE \E n \in Nodes : k = LogKey(n)
  BY <1>2 DEF LogKey, KeyOf, KeysOf, Key, Counters
<1>3. \A n \in Nodes, kind \in Counters, s \in Sessions : KeyOf(kind, n, s) \in KeysOf(kind)
  BY DEF KeyOf, KeysOf, Key
<1>4. \A n \in Nodes : MarkKey(n) \in KeysOf("failure")
  BY DEF MarkKey, KeyOf, KeysOf, Key
<1>5. \A kind : \A k \in KeysOf(kind) : k.kind = kind /\ k.node \in Nodes
  BY DEF KeysOf, Key
<1>. QED BY <1>1, <1>2, <1>3, <1>4, <1>5 DEF KeysOf

LEMMA ValueFacts == /\ NoValue \in Value /\ 0 \in Value
                    /\ Sessions \subseteq Value
                    /\ NoValue \notin Sessions /\ NoSession \notin Sessions
BY RegionDataAssumption DEF Value

LEMMA NoEntryFacts == /\ NoEntry \in Entry /\ NoEntry.session \notin Sessions
                      /\ NoEntry.successes = 0 /\ NoEntry.failures = 0
                      /\ NoEntry.failure = FALSE
BY ValueFacts DEF NoEntry, Entry

\* A listing has the keys that were found, in some order.
LEMMA ListingFacts ==
    ASSUME NEW P \in SUBSET Key, NEW q \in SetToSeqs(P)
    PROVE  q \in Seq(Key) /\ {q[i] : i \in DOMAIN q} = P
<1>. DEFINE c == Cardinality(P)
<1>1. IsFiniteSet(P) /\ c \in Nat
  BY RegionDataAssumption, FS_Subset, FS_CardinalityType
<1>2. q \in [1..c -> P] /\ \A i, j \in 1..c : i # j => q[i] # q[j]
  BY DEF SetToSeqs
<1>3. q \in Injection(1..c, P)
  BY <1>2 DEF Injection, IsInjective
<1>4. IsFiniteSet(1..c) /\ Cardinality(1..c) = c
  <2>1. 1 \in Int /\ c \in Int
    BY <1>1
  <2>2. Cardinality(1..c) = IF 1 > c THEN 0 ELSE c - 1 + 1
    BY <2>1, FS_Interval
  <2>. QED BY <1>1, <2>1, <2>2, FS_Interval
<1>. HIDE DEF c
<1>5. q \in Surjection(1..c, P)
  <2>1. Cardinality(1..c) = Cardinality(P)
    BY <1>4 DEF c
  <2>. QED BY <1>1, <1>3, <2>1, FS_Injection
<1>6. {q[i] : i \in DOMAIN q} = P
  BY <1>2, <1>5 DEF Surjection
<1>7. q \in Seq(Key)
  BY <1>1, <1>2
<1>. QED BY <1>6, <1>7

LEMMA InitIInv == Init => IInv
<1>. SUFFICES ASSUME Init PROVE IInv
  OBVIOUS
<1>1. PICK present \in SUBSET Key, named \in [Nodes -> Sessions] :
          content = [k \in Key |-> CASE k \notin present     -> NoValue
                                     [] k.kind = "service" -> named[k.node]
                                     [] OTHER              -> 1]
  BY DEF Init
<1>2. \A k \in Key : content[k] \in Value
  <2>. SUFFICES ASSUME NEW k \in Key PROVE content[k] \in Value
    OBVIOUS
  <2>1. k.node \in Nodes
    BY DEF Key
  <2>2. 1 \in Value
    BY RegionDataAssumption DEF Value
  <2>. QED BY <1>1, <2>1, <2>2, ValueFacts
<1>3. Types
  BY <1>1, <1>2, NoEntryFacts DEF Init, Types
<1>4. LogsNameSessions
  BY <1>1, KeyFacts DEF Init, LogsNameSessions, LogKey, KeyOf
<1>5. HeldIsKnown /\ ReadWasHeld /\ NoPipelineYet
  BY DEF Init, HeldIsKnown, ReadWasHeld, NoPipelineYet, Nothing
<1>6. SteadyIsListed /\ SteadyIsValid /\ NoEntriesYet
  BY DEF Init, SteadyIsListed, SteadyIsValid, NoEntriesYet, ListedInStage, Counters, Kinds
<1>7. NothingCountedYet /\ EntriesWereSo
  BY NoEntryFacts DEF Init, NothingCountedYet, EntriesWereSo, Valid
<1>. QED BY <1>3, <1>4, <1>5, <1>6, <1>7 DEF IInv

(***************************************************************************)
(* EntriesWereSo of one entry, for the steps that leave the entries alone. *)
(***************************************************************************)
EntryWasSo(n) ==
    LET s == AppData[n].session
        mark == KeyOf("failure", n, NoSession)
    IN  /\ s \in held[KeyOf("service", n, NoSession)]
        /\ \A kind \in Counters :
              LET k == KeyOf(kind, n, s)
              IN  \/ CountOf(kind, n) \in held[k]
                  \/ CountOf(kind, n) = 0 /\ (NoValue \in held[k] \/ Unread(k))
        /\ IF AppData[n].failure THEN Yes \in held[mark]
           ELSE held[mark] # {Yes} \/ Unread(mark)

LEMMA EachEntry == EntriesWereSo <=> \A n \in Valid : EntryWasSo(n)
BY DEF EntriesWereSo, EntryWasSo

LEMMA EachEntryNext == EntriesWereSo' <=> \A n \in Valid' : EntryWasSo(n)'
BY DEF EntriesWereSo, EntryWasSo

\* Before the end nothing is counted, and what is said of the session is all.
LEMMA EntriesBeforeTheEnd ==
    ASSUME NothingCountedYet', (stage # "done")',
           \A n \in Valid' : (AppData[n].session \in held[LogKey(n)])'
    PROVE  EntriesWereSo'
BY DEF NothingCountedYet, EntriesWereSo, LogKey, CountOf, Unread, Valid, Counters

LEMMA ChangeStep ==
    ASSUME IInv, NEW k \in Key, NEW v \in Value, Change(k, v)
    PROVE  IInv'
<1>1. /\ UNCHANGED <<stage, keys, results, errors, AppData, asked, dropped>>
      /\ stage # "done"
  BY DEF Change, readVars
<1>2. Types' /\ HeldIsKnown'
  BY <1>1 DEF IInv, Types, HeldIsKnown, Change
<1>3. LogsNameSessions'
  <2>. SUFFICES ASSUME NEW n \in Nodes
                PROVE  held'[LogKey(n)] \subseteq Sessions \cup {NoValue}
    BY DEF LogsNameSessions, LogKey
  <2>1. CASE k = LogKey(n)
    <3>1. v \in Sessions \cup {NoValue}
      BY <2>1 DEF Change, NewValues, LogKey, KeyOf
    <3>. QED BY <3>1, KeyFacts DEF IInv, Types, LogsNameSessions, Change
  <2>2. CASE k # LogKey(n)
    BY <2>2, KeyFacts DEF IInv, Types, LogsNameSessions, Change
  <2>. QED BY <2>1, <2>2
<1>4. /\ \A l \in Key : held[l] \subseteq held'[l]
      /\ \A l \in Key : Steady(l)' => Steady(l)
  BY DEF IInv, Types, Change, Steady
<1>5. ReadWasHeld'
  <2>1. \A i \in DOMAIN keys : keys[i] \in Key
    BY DEF IInv, Types
  <2>. QED BY <1>1, <1>4, <2>1 DEF IInv, ReadWasHeld
<1>6. SteadyIsListed'
  <2>1. \A l : WasAsked(l)' <=> WasAsked(l)
    BY <1>1 DEF WasAsked
  <2>2. Listed' = Listed
    BY <1>1 DEF Listed
  <2>. QED BY <1>1, <1>4, <2>1, <2>2, KeyFacts DEF IInv, SteadyIsListed, ListedInStage
<1>7. SteadyIsValid'
  <2>1. \A n \in Nodes : /\ LogKey(n) \in Key /\ LogKey(n)' = LogKey(n)
                         /\ WasAsked(LogKey(n))' <=> WasAsked(LogKey(n))
    BY <1>1, KeyFacts DEF WasAsked, LogKey
  <2>2. \A n \in Nodes : Steady(LogKey(n))' => Steady(LogKey(n))
    BY <1>4, <2>1 DEF Steady, LogKey
  <2>. QED BY <1>1, <2>1, <2>2 DEF IInv, SteadyIsValid, Valid
<1>8. NoEntriesYet' /\ NothingCountedYet' /\ NoPipelineYet'
  BY <1>1 DEF IInv, NoEntriesYet, NothingCountedYet, NoPipelineYet, InPipeline
<1>9. EntriesWereSo'
  <2>1. \A n \in Valid' : n \in Nodes /\ n \in Valid /\ LogKey(n) \in Key
    BY <1>1, KeyFacts DEF Valid
  <2>2. \A n \in Valid' : AppData'[n].session \in held'[LogKey(n)]
    BY <1>1, <1>4, <2>1 DEF IInv, EntriesWereSo, LogKey
  <2>. QED BY <1>1, <1>8, <2>2, EntriesBeforeTheEnd DEF LogKey
<1>. QED BY <1>2, <1>3, <1>5, <1>6, <1>7, <1>8, <1>9 DEF IInv

\* A step of the reading that makes no entry and does not end it.
LEMMA EntriesKept ==
    ASSUME IInv, UNCHANGED <<content, AppData, held>>, (stage # "done")', stage # "done"
    PROVE  LogsNameSessions' /\ HeldIsKnown' /\ NothingCountedYet' /\ EntriesWereSo'
<1>1. LogsNameSessions' /\ HeldIsKnown' /\ NothingCountedYet'
  BY DEF IInv, LogsNameSessions, LogKey, HeldIsKnown, NothingCountedYet
<1>2. \A n \in Valid' : AppData'[n].session \in held'[LogKey(n)]
  BY DEF IInv, EntriesWereSo, Valid, LogKey
<1>. QED BY <1>1, <1>2, EntriesBeforeTheEnd DEF LogKey

\* What KEYS found of a kind on the shard that it asked.
LEMMA FoundFacts ==
    ASSUME IInv, NEW kind \in Kinds, NEW found, Keys(kind, found)
    PROVE  /\ found \in Seq(Key)
           /\ asked' \in [Kinds -> Shards \cup {NoShard}]
           /\ \A other \in Kinds \ {kind} : asked'[other] = asked[other]
           /\ \A k \in KeysOf(kind) :
                 Steady(k) /\ asked'[kind] = ShardOf[k.node]
                     => \E i \in DOMAIN found : found[i] = k
<1>1. PICK shard \in Shards : /\ asked' = [asked EXCEPT ![kind] = shard]
                              /\ found \in SetToSeqs(Present(kind, shard))
  BY DEF Keys
<1>2. Present(kind, shard) \in SUBSET Key
  BY DEF Present, KeysOf
<1>3. found \in Seq(Key) /\ {found[i] : i \in DOMAIN found} = Present(kind, shard)
  BY <1>1, <1>2, ListingFacts
<1>4. /\ asked' \in [Kinds -> Shards \cup {NoShard}] /\ asked'[kind] = shard
      /\ \A other \in Kinds \ {kind} : asked'[other] = asked[other]
  BY <1>1 DEF IInv, Types
<1>5. ASSUME NEW k \in KeysOf(kind), Steady(k), shard = ShardOf[k.node]
      PROVE  \E i \in DOMAIN found : found[i] = k
  <2>1. content[k] # NoValue
    BY <1>5, KeyFacts DEF IInv, HeldIsKnown, Steady
  <2>2. k \in Present(kind, shard)
    BY <1>5, <2>1 DEF Present
  <2>. QED BY <1>3, <2>2
<1>. QED BY <1>3, <1>4, <1>5

LEMMA ListServiceLogsStep == IInv /\ ListServiceLogs => IInv'
<1>. SUFFICES ASSUME IInv, ListServiceLogs PROVE IInv'
  OBVIOUS
<1>1. /\ UNCHANGED <<content, held, results, errors, AppData, dropped>>
      /\ Keys("service", keys') /\ stage = "service"
      /\ stage' = IF keys' = <<>> THEN "success" ELSE "logs"
  BY DEF ListServiceLogs, cacheVars
<1>2. "service" \in Kinds
  BY DEF Kinds
<1>3. /\ keys' \in Seq(Key) /\ asked' \in [Kinds -> Shards \cup {NoShard}]
      /\ \A k \in KeysOf("service") :
            Steady(k) /\ asked'["service"] = ShardOf[k.node]
                => \E i \in DOMAIN keys' : keys'[i] = k
  BY <1>1, <1>2, FoundFacts
<1>4. Types'
  BY <1>1, <1>3 DEF IInv, Types
<1>5. ReadWasHeld' /\ NoPipelineYet'
  <2>1. DOMAIN results = {} /\ errors = {}
    BY <1>1 DEF IInv, NoPipelineYet, InPipeline
  <2>. QED BY <1>1, <2>1 DEF ReadWasHeld, NoPipelineYet
<1>6. SteadyIsListed'
  <2>. SUFFICES ASSUME NEW kind \in Kinds, stage' \in ListedInStage(kind),
                       NEW k \in KeysOf(kind), Steady(k)', WasAsked(k)'
                PROVE  k \in Listed'
    BY DEF SteadyIsListed
  <2>1. kind = "service" /\ Steady(k) /\ asked'["service"] = ShardOf[k.node]
    BY <1>1, KeyFacts DEF ListedInStage, Kinds, Counters, Steady, WasAsked
  <2>. QED BY <1>3, <2>1 DEF Listed
<1>7. SteadyIsValid'
  <2>. SUFFICES ASSUME keys' = <<>>, NEW n \in Nodes, Steady(LogKey(n)), WasAsked(LogKey(n))'
                PROVE  FALSE
    BY <1>1 DEF SteadyIsValid, Steady, LogKey
  <2>1. LogKey(n) \in KeysOf("service") /\ asked'["service"] = ShardOf[LogKey(n).node]
    BY KeyFacts DEF WasAsked
  <2>2. PICK i \in DOMAIN keys' : keys'[i] = LogKey(n)
    BY <1>3, <2>1
  <2>. QED BY <2>2
<1>8. NoEntriesYet'
  BY <1>1 DEF IInv, NoEntriesYet
<1>. QED BY <1>1, <1>4, <1>5, <1>6, <1>7, <1>8, EntriesKept DEF IInv

LEMMA ListCountersStep == IInv /\ ListCounters => IInv'
<1>. SUFFICES ASSUME IInv, ListCounters PROVE IInv'
  OBVIOUS
<1>1. PICK found : Keys(stage, found) /\ keys' = keys \o found
  BY DEF ListCounters
<1>2. /\ UNCHANGED <<content, held, results, errors, AppData, dropped>>
      /\ \/ stage = "success" /\ stage' = "failures"
         \/ stage = "failures" /\ stage' = "failure"
         \/ stage = "failure" /\ stage' = "values"
      /\ stage \in Kinds
  BY DEF ListCounters, Following, Counters, Kinds, cacheVars
<1>3. /\ found \in Seq(Key) /\ asked' \in [Kinds -> Shards \cup {NoShard}]
      /\ \A other \in Kinds \ {stage} : asked'[other] = asked[other]
      /\ \A k \in KeysOf(stage) :
            Steady(k) /\ asked'[stage] = ShardOf[k.node]
                => \E i \in DOMAIN found : found[i] = k
  BY <1>1, <1>2, FoundFacts
<1>4. keys \in Seq(Key)
  BY DEF IInv, Types
<1>5. /\ keys' \in Seq(Key)
      /\ \A i \in DOMAIN keys : i \in DOMAIN keys' /\ keys'[i] = keys[i]
      /\ \A i \in DOMAIN found :
            Len(keys) + i \in DOMAIN keys' /\ keys'[Len(keys) + i] = found[i]
  BY <1>1, <1>3, <1>4
<1>6. /\ \A k \in Listed : k \in Listed'
      /\ \A i \in DOMAIN found : found[i] \in Listed'
  BY <1>5 DEF Listed
<1>7. Types'
  BY <1>2, <1>3, <1>5 DEF IInv, Types
<1>8. ReadWasHeld' /\ NoPipelineYet'
  <2>1. DOMAIN results = {} /\ errors = {}
    BY <1>2 DEF IInv, NoPipelineYet, InPipeline
  <2>. QED BY <1>2, <2>1 DEF ReadWasHeld, NoPipelineYet
<1>9. SteadyIsListed'
  <2>. SUFFICES ASSUME NEW kind \in Kinds, stage' \in ListedInStage(kind),
                       NEW k \in KeysOf(kind), Steady(k)', WasAsked(k)'
                PROVE  k \in Listed'
    BY DEF SteadyIsListed
  <2>1. k.kind = kind /\ Steady(k) /\ asked'[kind] = ShardOf[k.node]
    BY <1>2, KeyFacts DEF Steady, WasAsked
  <2>2. CASE kind = stage
    BY <1>3, <1>6, <2>1, <2>2
  <2>3. CASE kind # stage
    <3>1. stage \in ListedInStage(kind)
      BY <1>2, <2>3 DEF ListedInStage, Kinds, Counters
    <3>2. WasAsked(k)
      BY <1>3, <2>1, <2>3 DEF WasAsked
    <3>. QED BY <1>6, <2>1, <3>1, <3>2 DEF IInv, SteadyIsListed
  <2>. QED BY <2>2, <2>3
<1>10. SteadyIsValid'
  <2>1. asked'["service"] = asked["service"]
    BY <1>2, <1>3 DEF Kinds
  <2>2. \A n \in Nodes : LogKey(n).kind = "service"
    BY KeyFacts
  <2>3. \A n \in Nodes : WasAsked(LogKey(n))' <=> WasAsked(LogKey(n))
    BY <2>1, <2>2 DEF WasAsked, LogKey
  <2>. QED BY <1>2, <2>3 DEF IInv, SteadyIsValid, Valid, Steady, LogKey
<1>11. NoEntriesYet'
  BY <1>2 DEF NoEntriesYet
<1>. QED BY <1>2, <1>7, <1>8, <1>9, <1>10, <1>11, EntriesKept DEF IInv

\* A GET gives what the key holds, or nothing when it fails.
LEMMA PipelineStep ==
    ASSUME IInv, NEW i \in DOMAIN keys, Get(i) \/ GetFails(i)
    PROVE  IInv'
<1>1. /\ UNCHANGED <<content, held, stage, keys, AppData, asked, dropped>>
      /\ stage \in {"logs", "values"}
      /\ i \notin DOMAIN results
  BY DEF Get, GetFails, InPipeline, cacheVars
<1>2. ReadWasHeld'
  <2>1. keys[i] \in Key
    BY DEF IInv, Types
  <2>2. CASE Get(i)
    <3>1. /\ DOMAIN results' = DOMAIN results \cup {i} /\ results'[i] = content[keys[i]]
          /\ \A j \in DOMAIN results : results'[j] = results[j]
          /\ errors' = errors
      BY <1>1, <2>2 DEF Get
    <3>2. content[keys[i]] \in held[keys[i]]
      BY <2>1 DEF IInv, HeldIsKnown
    <3>3. i \notin errors
      BY <1>1 DEF IInv, ReadWasHeld
    <3>. QED BY <1>1, <3>1, <3>2, <3>3 DEF IInv, ReadWasHeld
  <2>3. CASE GetFails(i)
    BY <1>1, <2>3 DEF IInv, ReadWasHeld, GetFails
  <2>. QED BY <2>2, <2>3
<1>3. Types' /\ NoPipelineYet' /\ NoEntriesYet'
  BY <1>1 DEF IInv, Types, NoPipelineYet, InPipeline, NoEntriesYet
<1>4. SteadyIsListed'
  BY <1>1 DEF IInv, SteadyIsListed, ListedInStage, Steady, WasAsked, Listed
<1>5. SteadyIsValid'
  BY <1>1 DEF IInv, SteadyIsValid, Valid, Steady, WasAsked, LogKey
<1>. QED BY <1>1, <1>2, <1>3, <1>4, <1>5, EntriesKept DEF IInv

(***************************************************************************)
(* The end of a pipeline: what comes with a listed key is what it held, or *)
(* nothing, when its GET failed, which is then recorded.                   *)
(***************************************************************************)
LEMMA ResultFacts ==
    ASSUME IInv, PipelineEnds, NEW k \in Listed
    PROVE  /\ ResultFor(k) \in held[k] \/ (ResultFor(k) = NoValue /\ k \in dropped')
           /\ ResultFor(k) \in Value
<1>. DEFINE i == CHOOSE j \in DOMAIN keys : keys[j] = k
<1>1. i \in DOMAIN keys /\ keys[i] = k
  BY DEF Listed
<1>2. DOMAIN results = DOMAIN keys /\ dropped' = dropped \cup {keys[j] : j \in errors}
  BY DEF PipelineEnds, PipelineSucceeds
<1>3. ResultFor(k) = results[i]
  BY DEF ResultFor, Result
<1>4. k \in Key
  BY <1>1 DEF IInv, Types
<1>. HIDE DEF i
<1>5. CASE i \in errors
  BY <1>1, <1>2, <1>3, <1>5, ValueFacts DEF IInv, ReadWasHeld
<1>6. CASE i \notin errors
  BY <1>1, <1>2, <1>3, <1>4, <1>6 DEF IInv, ReadWasHeld, Types
<1>. QED BY <1>5, <1>6

LEMMA ServiceLogsReadStep == IInv /\ ServiceLogsRead => IInv'
<1>. SUFFICES ASSUME IInv, ServiceLogsRead PROVE IInv'
  OBVIOUS
<1>1. /\ UNCHANGED <<content, held, asked>>
      /\ stage = "logs" /\ stage' = "success"
      /\ PipelineEnds /\ keys' = <<>> /\ results' = Nothing /\ errors' = {}
  BY DEF ServiceLogsRead, PipelineEnds, cacheVars
<1>2. ASSUME NEW n \in Nodes
      PROVE  \/ /\ LogKey(n) \in Listed
                /\ AppData'[n] \in [session : {Log(n)}, successes : {0}, failures : {0},
                                    failure : {FALSE}]
             \/ LogKey(n) \notin Listed /\ AppData'[n] = NoEntry
  <2>1. AppData[n] = NoEntry
    BY <1>1 DEF IInv, NoEntriesYet
  <2>2. AppData'[n] = IF LogKey(n) \in Listed THEN [NoEntry EXCEPT !.session = Log(n)]
                                              ELSE AppData[n]
    BY DEF ServiceLogsRead, LogKey
  <2>3. [NoEntry EXCEPT !.session = Log(n)]
            \in [session : {Log(n)}, successes : {0}, failures : {0}, failure : {FALSE}]
    BY DEF NoEntry
  <2>. QED BY <2>1, <2>2, <2>3
<1>3. ASSUME NEW n \in Nodes, LogKey(n) \in Listed
      PROVE  /\ Log(n) \in Sessions \cup {NoSession}
             /\ Log(n) \in Sessions => Log(n) \in held[LogKey(n)]
             /\ Steady(LogKey(n)) /\ LogKey(n) \notin dropped' => Log(n) \in Sessions
  <2>1. \/ ResultFor(LogKey(n)) \in held[LogKey(n)]
        \/ ResultFor(LogKey(n)) = NoValue /\ LogKey(n) \in dropped'
    BY <1>1, <1>3, ResultFacts
  <2>2. Log(n) = IF ResultFor(LogKey(n)) = NoValue THEN NoSession ELSE ResultFor(LogKey(n))
    BY DEF Log, LogKey
  <2>. QED BY <2>1, <2>2, ValueFacts DEF IInv, LogsNameSessions, Steady
<1>4. AppData' \in [Nodes -> Entry]
  <2>1. AppData' = [n \in Nodes |-> AppData'[n]]
    BY DEF ServiceLogsRead
  <2>2. \A n \in Nodes : AppData'[n] \in Entry
    BY <1>2, <1>3, NoEntryFacts, ValueFacts DEF Entry
  <2>. QED BY <2>1, <2>2
<1>5. Types' /\ ReadWasHeld' /\ NoPipelineYet'
  BY <1>1, <1>4 DEF IInv, Types, ReadWasHeld, NoPipelineYet, Nothing
<1>6. LogsNameSessions' /\ HeldIsKnown' /\ SteadyIsListed' /\ NoEntriesYet'
  BY <1>1 DEF IInv, LogsNameSessions, LogKey, HeldIsKnown, SteadyIsListed, ListedInStage,
              Counters, Kinds, NoEntriesYet
<1>7. NothingCountedYet'
  <2>1. ASSUME NEW n \in Nodes
        PROVE  AppData'[n].successes = 0 /\ AppData'[n].failures = 0 /\ AppData'[n].failure = FALSE
    BY <1>2, NoEntryFacts
  <2>. QED BY <2>1 DEF NothingCountedYet
<1>8. SteadyIsValid'
  <2>. SUFFICES ASSUME NEW n \in Nodes, Steady(LogKey(n)), WasAsked(LogKey(n)),
                       LogKey(n) \notin dropped'
                PROVE  AppData'[n].session \in Sessions
    BY <1>1 DEF SteadyIsValid, Valid, Steady, WasAsked, LogKey
  <2>1. LogKey(n) \in Listed
    BY <1>1, KeyFacts DEF IInv, SteadyIsListed, ListedInStage, Kinds
  <2>. QED BY <1>2, <1>3, <2>1
<1>9. EntriesWereSo'
  <2>1. ASSUME NEW n \in Nodes, AppData'[n].session \in Sessions
        PROVE  AppData'[n].session \in held[LogKey(n)]
    <3>1. LogKey(n) \in Listed
      BY <1>2, <2>1, NoEntryFacts
    <3>. QED BY <1>2, <1>3, <2>1, <3>1
  <2>2. \A n \in Valid' : (AppData[n].session \in held[LogKey(n)])'
    BY <1>1, <2>1 DEF Valid, LogKey
  <2>. QED BY <1>1, <1>7, <2>2, EntriesBeforeTheEnd
<1>. QED BY <1>5, <1>6, <1>7, <1>8, <1>9 DEF IInv

LEMMA CountersReadStep == IInv /\ CountersRead => IInv'
<1>. SUFFICES ASSUME IInv, CountersRead PROVE IInv'
  OBVIOUS
<1>1. /\ UNCHANGED <<content, held, asked>>
      /\ stage = "values" /\ stage' = "done"
      /\ PipelineEnds /\ keys' = <<>> /\ results' = Nothing /\ errors' = {}
      /\ dropped \subseteq dropped'
  BY DEF CountersRead, PipelineEnds, cacheVars
<1>2. ASSUME NEW n \in Nodes
      PROVE  AppData'[n] = IF AppData[n] = NoEntry THEN NoEntry
                           ELSE [AppData[n] EXCEPT !.successes = Count("success", n),
                                                   !.failures = Count("failures", n),
                                                   !.failure = Marked(n)]
  BY DEF CountersRead, EntryWithCounts, Counted
<1>3. ASSUME NEW n \in Nodes, NEW kind \in Counters PROVE Count(kind, n) \in Value
  <2>. DEFINE k == KeyOf(kind, n, AppData[n].session)
  <2>1. k \in Listed => ResultFor(k) \in Value
    BY <1>1, ResultFacts
  <2>. QED BY <2>1, ValueFacts DEF Count
<1>4. AppData' \in [Nodes -> Entry]
  <2>1. AppData' = [n \in Nodes |-> AppData'[n]]
    BY DEF CountersRead
  <2>2. \A n \in Nodes : AppData'[n] \in Entry
    <3>. SUFFICES ASSUME NEW n \in Nodes PROVE AppData'[n] \in Entry
      OBVIOUS
    <3>1. AppData[n] \in Entry
      BY DEF IInv, Types
    <3>2. /\ Count("success", n) \in Value /\ Count("failures", n) \in Value
          /\ Marked(n) \in BOOLEAN
      BY <1>3 DEF Counters, Marked
    <3>3. CASE AppData[n] = NoEntry
      BY <1>2, <3>1, <3>3
    <3>4. CASE AppData[n] # NoEntry
      BY <1>2, <3>1, <3>2, <3>4 DEF Entry
    <3>. QED BY <3>3, <3>4
  <2>. QED BY <2>1, <2>2
<1>5. ASSUME NEW n \in Nodes
      PROVE  /\ AppData'[n].session = AppData[n].session
             /\ n \in Valid => /\ AppData'[n].successes = Count("success", n)
                              /\ AppData'[n].failures = Count("failures", n)
                              /\ AppData'[n].failure = Marked(n)
  <2>1. AppData[n] \in Entry
    BY DEF IInv, Types
  <2>2. n \in Valid => AppData[n] # NoEntry
    BY NoEntryFacts DEF Valid
  <2>. QED BY <1>2, <2>1, <2>2 DEF Entry
<1>6. Valid' = Valid
  BY <1>5 DEF Valid
<1>7. Types' /\ ReadWasHeld' /\ NoPipelineYet'
  BY <1>1, <1>4 DEF IInv, Types, ReadWasHeld, NoPipelineYet, Nothing
<1>8. /\ LogsNameSessions' /\ HeldIsKnown' /\ SteadyIsListed' /\ NoEntriesYet'
      /\ NothingCountedYet'
  BY <1>1 DEF IInv, LogsNameSessions, LogKey, HeldIsKnown, SteadyIsListed, ListedInStage,
              Counters, Kinds, NoEntriesYet, NothingCountedYet
<1>9. SteadyIsValid'
  BY <1>1, <1>6 DEF IInv, SteadyIsValid, Steady, WasAsked, LogKey
<1>10. ASSUME NEW kind \in Kinds, NEW k \in KeysOf(kind), kind # "service",
              k \notin Listed, NoValue \notin held[k]
       PROVE  Unread(k)'
  <2>1. ~WasAsked(k)
    BY <1>1, <1>10 DEF IInv, SteadyIsListed, ListedInStage, Kinds, Counters, Steady
  <2>. QED BY <1>1, <2>1 DEF Unread, WasAsked
<1>11. \A k : k \in dropped' => Unread(k)'
  BY DEF Unread
<1>12. EntriesWereSo'
  <2>. SUFFICES ASSUME NEW n \in Valid', NEW s, s = AppData[n].session
                PROVE  EntryWasSo(n)'
    BY EachEntryNext
  <2>1. n \in Nodes /\ n \in Valid /\ s \in Sessions /\ s \in held[LogKey(n)]
    BY <1>6 DEF Valid, IInv, EntriesWereSo, LogKey
  <2>2. ASSUME NEW kind \in Counters
        PROVE  \/ Count(kind, n) \in held[KeyOf(kind, n, s)]
               \/ /\ Count(kind, n) = 0
                  /\ NoValue \in held[KeyOf(kind, n, s)] \/ Unread(KeyOf(kind, n, s))'
    <3>. DEFINE k == KeyOf(kind, n, s)
    <3>1. k \in KeysOf(kind) /\ kind \in Kinds /\ kind # "service"
      BY <2>1, KeyFacts DEF Counters, Kinds
    <3>2. CASE k \in Listed
      <4>1. ResultFor(k) \in held[k] \/ (ResultFor(k) = NoValue /\ k \in dropped')
        BY <1>1, <3>2, ResultFacts
      <4>2. Count(kind, n) = IF ResultFor(k) # NoValue THEN ResultFor(k) ELSE 0
        BY <3>2 DEF Count
      <4>3. k \in dropped' => Unread(k)'
        BY <1>11
      <4>. HIDE DEF k
      <4>4. \/ Count(kind, n) \in held[k]
            \/ Count(kind, n) = 0 /\ (NoValue \in held[k] \/ Unread(k)')
        BY <4>1, <4>2, <4>3
      <4>. QED BY <4>4 DEF k
    <3>3. CASE k \notin Listed
      <4>1. Count(kind, n) = 0
        BY <3>3 DEF Count
      <4>2. NoValue \notin held[k] => Unread(k)'
        BY <1>10, <3>1, <3>3
      <4>. QED BY <4>1, <4>2
    <3>. QED BY <3>2, <3>3
  <2>3. IF Marked(n) THEN Yes \in held[MarkKey(n)]
        ELSE held[MarkKey(n)] # {Yes} \/ Unread(MarkKey(n))'
    <3>. DEFINE k == MarkKey(n)
    <3>1. k \in KeysOf("failure") /\ "failure" \in Kinds /\ Yes # NoValue
      BY <2>1, KeyFacts, RegionDataAssumption DEF Kinds, Yes
    <3>2. Marked(n) <=> k \in Listed /\ ResultFor(k) = Yes
      BY DEF Marked, MarkKey
    <3>3. k \in Listed => \/ ResultFor(k) \in held[k]
                          \/ ResultFor(k) = NoValue /\ k \in dropped'
      BY <1>1, ResultFacts
    <3>. HIDE DEF k
    <3>4. CASE k \in Listed
      BY <1>11, <3>1, <3>2, <3>3, <3>4 DEF k
    <3>5. CASE k \notin Listed
      BY <1>10, <3>1, <3>2, <3>5 DEF k
    <3>. QED BY <3>4, <3>5
  <2>4. AppData'[n].session = s /\ AppData'[n].failure = Marked(n)
    BY <1>5, <2>1
  <2>5. \A kind \in Counters : CountOf(kind, n)' = Count(kind, n)
    BY <1>5, <2>1 DEF CountOf, Counters
  <2>. QED BY <1>1, <2>1, <2>2, <2>3, <2>4, <2>5 DEF EntryWasSo, LogKey, MarkKey
<1>. QED BY <1>7, <1>8, <1>9, <1>12 DEF IInv

LEMMA CallFailsStep == IInv /\ CallFails => IInv'
<1>. SUFFICES ASSUME IInv, CallFails PROVE IInv'
  OBVIOUS
<1>1. /\ UNCHANGED <<content, AppData, held, asked, dropped>>
      /\ stage' = "failed" /\ keys' = <<>> /\ results' = Nothing /\ errors' = {}
      /\ stage # "done"
  BY DEF CallFails, cacheVars
<1>2. Types' /\ ReadWasHeld' /\ NoPipelineYet'
  BY <1>1 DEF IInv, Types, ReadWasHeld, NoPipelineYet, Nothing
<1>3. SteadyIsListed' /\ SteadyIsValid' /\ NoEntriesYet'
  BY <1>1 DEF SteadyIsListed, SteadyIsValid, NoEntriesYet, ListedInStage, Kinds, Counters
<1>. QED BY <1>1, <1>2, <1>3, EntriesKept DEF IInv

LEMMA IInvStep == IInv /\ [Next]_vars => IInv'
<1>. SUFFICES ASSUME IInv, [Next]_vars PROVE IInv'
  OBVIOUS
<1>1. CASE \E k \in Key, v \in Value : Change(k, v)
  BY <1>1, ChangeStep
<1>2. CASE \E i \in DOMAIN keys : Get(i) \/ GetFails(i)
  BY <1>2, PipelineStep
<1>3. CASE ListServiceLogs \/ ListCounters \/ ServiceLogsRead \/ CountersRead \/ CallFails
  BY <1>3, ListServiceLogsStep, ListCountersStep, ServiceLogsReadStep, CountersReadStep,
     CallFailsStep
<1>4. CASE UNCHANGED vars
  <2>1. UNCHANGED <<content, held, stage, keys, results, errors, AppData, asked, dropped>>
    BY <1>4 DEF vars, cacheVars, readVars
  <2>2. Types' /\ LogsNameSessions' /\ HeldIsKnown' /\ ReadWasHeld' /\ NoPipelineYet'
    BY <2>1 DEF IInv, Types, LogsNameSessions, HeldIsKnown, ReadWasHeld, NoPipelineYet,
                InPipeline, LogKey
  <2>3. SteadyIsListed' /\ SteadyIsValid' /\ NoEntriesYet' /\ NothingCountedYet'
    BY <2>1 DEF IInv, SteadyIsListed, SteadyIsValid, NoEntriesYet, NothingCountedYet, Valid,
                Steady, WasAsked, LogKey, Listed
  <2>4. EntriesWereSo'
    BY <2>1 DEF IInv, EntriesWereSo, Valid, CountOf, Unread
  <2>. QED BY <2>2, <2>3, <2>4 DEF IInv
<1>. QED BY <1>1, <1>2, <1>3, <1>4 DEF Next, Terminated

LEMMA InductiveInvariant == Spec => []IInv
BY InitIInv, IInvStep, PTL DEF Spec

--------------------------------------------------------------------------------

(***************************************************************************)
(* getServiceLogData, getSuccessAndFailureData: whatever the portal        *)
(* changes and whatever expires while a region is read, an entry says of   *)
(* its session, of its counts and of its failure mark only what the caches *)
(* held while they were read, and never mixes the counts of two sessions;  *)
(* a count is zero without that, or a mark false, only for a key that was  *)
(* not read: the reading failed before, KEYS asked another shard, or the   *)
(* error of its GET was dropped.                                           *)
(***************************************************************************)
THEOREM EntriesWereSoHolds == Spec => []EntriesWereSo
BY InductiveInvariant, PTL DEF IInv

(***************************************************************************)
(* getServiceLogData, getSuccessAndFailureData: a reading without errors   *)
(* has an entry for every node whose log was there throughout, unless KEYS *)
(* asked another shard or the error of its GET was dropped.                *)
(***************************************************************************)
THEOREM SteadyIsReadHolds == Spec => []SteadyIsRead
<1>1. IInv => SteadyIsRead
  <2>. SUFFICES ASSUME IInv, stage = "done", NEW n \in Nodes, Steady(LogKey(n)),
                       ~Unread(LogKey(n))
                PROVE  n \in Valid
    BY DEF SteadyIsRead, Steady, LogKey
  <2>. QED BY DEF IInv, SteadyIsValid, Unread, WasAsked
<1>. QED BY <1>1, InductiveInvariant, PTL
================================================================================
