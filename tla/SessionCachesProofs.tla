-------------------------- MODULE SessionCachesProofs --------------------------
(***************************************************************************)
(* One session in any number of caches, written by any number of           *)
(* overlapping runs of the global dispatcher.                              *)
(***************************************************************************)
EXTENDS SessionCaches, FiniteSetTheorems, TLAPS

RunState == [pc : {"idle", "ask", "dispatch", "write"}, blockHeight : 0..MaxHeight,
             caches : SUBSET Caches, left : SUBSET Caches, hits : Nat,
             session : 0..MaxHeight, lagged : BOOLEAN, overtaken : SUBSET Caches]

Types == /\ height \in Heights
         /\ content \in [Caches -> 0..MaxHeight]
         /\ run \in [Runs -> RunState]
         /\ flushing \in SUBSET Caches
         /\ faults \in 0..MaxFaults

\* Asking a client uses it up, so that it counts at most once.
HitsBounded(st) ==
    /\ st.left \subseteq st.caches
    /\ st.hits + (IF st.pc = "ask" THEN Cardinality(st.left) ELSE 0) <= ClientsToCheck(st.caches)

\* A cache that nobody else wrote since the dispatcher node, at the chain's
\* height, answered the run holds nothing newer than the run's session.
NewestUnlessOvertaken(st) ==
    st.pc = "write" /\ ~st.lagged =>
        \A c \in Caches \ st.overtaken : content[c] <= st.session

\* No node makes a session of a block that has not been made.
RunSound(st) == /\ HitsBounded(st)
                /\ st.session <= height
                /\ NewestUnlessOvertaken(st)

NoneAhead == \A c \in Caches : content[c] <= height

IInv == /\ Types
        /\ NoneAhead
        /\ \A r \in Runs : RunSound(run[r])

--------------------------------------------------------------------------------

LEMMA CachesFinite == \A T \in SUBSET Caches : IsFiniteSet(T) /\ Cardinality(T) \in Nat
BY SessionCachesAssumption, FS_Subset, FS_CardinalityType

LEMMA ClientsNat == \A T \in SUBSET Caches : ClientsToCheck(T) \in Nat
BY CachesFinite, SessionCachesAssumption DEF ClientsToCheck

LEMMA IdleSound == /\ Idle \in RunState /\ Idle.pc = "idle" /\ Idle.left = {}
                   /\ Types => RunSound(Idle)
<1>1. Idle \in RunState /\ Idle.pc = "idle" /\ Idle.left = {} /\ Idle.caches = {}
      /\ Idle.hits = 0 /\ Idle.session = 0
  BY SessionCachesAssumption DEF Idle, RunState, NotCached
<1>2. HitsBounded(Idle)
  BY <1>1, ClientsNat DEF HitsBounded
<1>3. NewestUnlessOvertaken(Idle)
  BY <1>1 DEF NewestUnlessOvertaken
<1>. QED BY <1>1, <1>2, <1>3 DEF RunSound, Types, Heights

LEMMA InitIInv == Init => IInv
<1>. SUFFICES ASSUME Init PROVE IInv
  OBVIOUS
<1>1. Types
  BY IdleSound, SessionCachesAssumption DEF Init, Types, Heights, NotCached
<1>. QED BY <1>1, IdleSound DEF Init, IInv, NoneAhead, NotCached

LEMMA FaultsBounded == \A wrong \in BOOLEAN : Types /\ Faulty(wrong) => faults' \in 0..MaxFaults
BY SessionCachesAssumption DEF Types, Faulty

\* A step of one run that writes nothing: only its own state matters.
LEMMA OneRunSteps ==
    ASSUME IInv, NEW r \in Runs, NEW st \in RunState, RunSound(st),
           run' = [run EXCEPT ![r] = st], UNCHANGED <<height, content, flushing>>,
           faults' \in 0..MaxFaults
    PROVE  IInv'
<1>1. Types' /\ NoneAhead'
  BY DEF IInv, Types, NoneAhead
<1>2. \A q \in Runs : RunSound(run'[q])
  BY DEF IInv, Types
<1>. QED BY <1>1, <1>2 DEF IInv, RunSound, HitsBounded, NewestUnlessOvertaken

LEMMA StartStep ==
    ASSUME IInv, NEW r \in Runs, NEW cs \in SUBSET Caches, NEW clients \in SUBSET Caches,
           NEW h \in 1..height, Start(r, cs, clients, h)
    PROVE  IInv'
<1>. DEFINE st == [Idle EXCEPT !.pc = "ask", !.blockHeight = h, !.caches = cs, !.left = clients]
<1>1. /\ clients \subseteq cs /\ Cardinality(clients) = ClientsToCheck(cs)
      /\ run' = [run EXCEPT ![r] = st] /\ UNCHANGED <<height, content, flushing>>
  BY DEF Start
<1>2. faults' \in 0..MaxFaults
  BY FaultsBounded DEF Start, IInv
<1>3. /\ st \in RunState /\ st.pc = "ask" /\ st.left = clients /\ st.caches = cs /\ st.hits = 0
      /\ st.session = 0
  <2>1. h \in 0..MaxHeight
    BY SessionCachesAssumption DEF IInv, Types, Heights
  <2>2. Idle \in RunState /\ Idle.hits = 0 /\ Idle.session = 0
    BY IdleSound DEF Idle, NotCached
  <2>. QED BY <2>1, <2>2 DEF RunState
<1>4. RunSound(st)
  <2>. HIDE DEF st
  <2>. QED BY <1>1, <1>3, CachesFinite, ClientsNat
           DEF IInv, Types, Heights, RunSound, HitsBounded, NewestUnlessOvertaken
<1>. HIDE DEF st
<1>. QED BY <1>1, <1>2, <1>3, <1>4, OneRunSteps

LEMMA AskStep ==
    ASSUME IInv, NEW r \in Runs, NEW c \in Caches, NEW answers \in BOOLEAN, Ask(r, c, answers)
    PROVE  IInv'
<1>. DEFINE hit == IF answers /\ content[c] >= run[r].blockHeight
                   THEN run[r].hits + 1 ELSE run[r].hits
            st == [run[r] EXCEPT !.left = run[r].left \ {c}, !.hits = hit]
<1>1. /\ run[r].pc = "ask" /\ c \in run[r].left
      /\ run' = [run EXCEPT ![r] = st] /\ UNCHANGED <<height, content, flushing>>
  BY DEF Ask
<1>2. faults' \in 0..MaxFaults
  BY FaultsBounded DEF Ask, IInv
<1>3. run[r] \in RunState /\ RunSound(run[r])
  BY DEF IInv, Types
<1>4. /\ st \in RunState /\ st.pc = "ask" /\ st.left = run[r].left \ {c}
      /\ st.caches = run[r].caches /\ st.hits <= run[r].hits + 1 /\ st.hits \in Nat
      /\ st.session = run[r].session
  <2>1. hit \in Nat /\ hit <= run[r].hits + 1
    BY <1>3 DEF RunState
  <2>. HIDE DEF hit
  <2>. QED BY <1>1, <1>3, <2>1 DEF RunState
<1>5. Cardinality(st.left) = Cardinality(run[r].left) - 1 /\ Cardinality(run[r].left) \in Nat
  BY <1>1, <1>3, <1>4, CachesFinite, FS_RemoveElement DEF RunState
<1>6. RunSound(st)
  <2>. HIDE DEF st
  <2>. QED BY <1>1, <1>3, <1>4, <1>5, ClientsNat
           DEF RunState, RunSound, HitsBounded, NewestUnlessOvertaken
<1>. HIDE DEF st
<1>. QED BY <1>1, <1>2, <1>4, <1>6, OneRunSteps

LEMMA DecideStep == ASSUME IInv, NEW r \in Runs, Decide(r) PROVE IInv'
<1>. DEFINE st == IF run[r].hits # ClientsToCheck(run[r].caches)
                  THEN [run[r] EXCEPT !.pc = "dispatch"] ELSE Idle
<1>1. /\ run[r].pc = "ask" /\ run[r].left = {}
      /\ run' = [run EXCEPT ![r] = st] /\ UNCHANGED <<height, content, flushing, faults>>
  BY DEF Decide
<1>2. run[r] \in RunState /\ RunSound(run[r])
  BY DEF IInv, Types
<1>3. st \in RunState /\ RunSound(st)
  <2>1. CASE run[r].hits = ClientsToCheck(run[r].caches)
    BY <2>1, IdleSound DEF IInv
  <2>2. CASE run[r].hits # ClientsToCheck(run[r].caches)
    <3>1. /\ st \in RunState /\ st.pc = "dispatch" /\ st.left = {} /\ st.hits = run[r].hits
          /\ st.caches = run[r].caches /\ st.session = run[r].session
      BY <1>1, <1>2, <2>2 DEF RunState
    <3>. HIDE DEF st
    <3>2. Cardinality(run[r].left) \in Nat
      BY <1>2, CachesFinite DEF RunState
    <3>. QED BY <1>1, <1>2, <3>1, <3>2, ClientsNat
             DEF RunState, RunSound, HitsBounded, NewestUnlessOvertaken
  <2>. QED BY <2>1, <2>2
<1>. HIDE DEF st
<1>. QED BY <1>1, <1>3, OneRunSteps DEF IInv, Types

LEMMA DispatchStep ==
    ASSUME IInv, NEW r \in Runs, NEW h \in Heights, h <= height, Dispatch(r, h)
    PROVE  IInv'
<1>. DEFINE st == [run[r] EXCEPT !.pc = "write", !.session = h, !.left = run[r].caches,
                                 !.lagged = h # height]
<1>1. /\ run[r].pc = "dispatch"
      /\ run' = [run EXCEPT ![r] = st] /\ UNCHANGED <<height, content, flushing>>
  BY DEF Dispatch
<1>2. faults' \in 0..MaxFaults
  BY FaultsBounded DEF Dispatch, IInv
<1>3. run[r] \in RunState /\ RunSound(run[r]) /\ h \in 0..MaxHeight
  BY DEF IInv, Types, Heights
<1>4. /\ st \in RunState /\ st.pc = "write" /\ st.left = run[r].caches
      /\ st.hits = run[r].hits /\ st.caches = run[r].caches /\ st.session = h
      /\ st.lagged <=> h # height
  BY <1>1, <1>3 DEF RunState
<1>5. RunSound(st)
  <2>. HIDE DEF st
  <2>. QED BY <1>1, <1>3, <1>4
           DEF IInv, NoneAhead, RunState, RunSound, HitsBounded, NewestUnlessOvertaken
<1>. HIDE DEF st
<1>. QED BY <1>1, <1>2, <1>4, <1>5, OneRunSteps

LEMMA WrittenSound ==
    ASSUME IInv, NEW r \in Runs, NEW c \in Caches, run[r].pc = "write"
    PROVE  /\ Written(r, c) \in RunState
           /\ RunSound(Written(r, c))
           /\ \/ Written(r, c) = Idle
              \/ /\ Written(r, c).session = run[r].session
                 /\ Written(r, c).overtaken = run[r].overtaken
<1>1. run[r] \in RunState /\ RunSound(run[r])
  BY DEF IInv, Types
<1>2. CASE run[r].left = {c}
  BY <1>2, IdleSound DEF Written, IInv
<1>3. CASE run[r].left # {c}
  <2>. DEFINE st == [run[r] EXCEPT !.left = run[r].left \ {c}]
  <2>1. Written(r, c) = st
    BY <1>3 DEF Written
  <2>2. /\ st \in RunState /\ st.pc = "write" /\ st.left = run[r].left \ {c}
        /\ st.hits = run[r].hits /\ st.caches = run[r].caches /\ st.session = run[r].session
        /\ st.lagged = run[r].lagged /\ st.overtaken = run[r].overtaken
    BY <1>1 DEF RunState
  <2>. HIDE DEF st
  <2>. QED BY <1>1, <2>1, <2>2 DEF RunSound, HitsBounded, NewestUnlessOvertaken
<1>. QED BY <1>2, <1>3

LEMMA WriteStep ==
    ASSUME IInv, NEW r \in Runs, NEW c \in Caches, Write(r, c)
    PROVE  IInv'
<1>. DEFINE Marked(q) == IF run[q].pc = "write"
                         THEN [run[q] EXCEPT !.overtaken = run[q].overtaken \cup {c}] ELSE run[q]
<1>1. /\ run[r].pc = "write" /\ c \in run[r].left
      /\ content' = [content EXCEPT ![c] = run[r].session]
      /\ run' = [q \in Runs |-> IF q = r THEN Written(r, c) ELSE Marked(q)]
      /\ UNCHANGED <<height, flushing, faults>>
  BY DEF Write
<1>2. /\ run \in [Runs -> RunState] /\ content \in [Caches -> 0..MaxHeight]
      /\ \A q \in Runs : run[q] \in RunState /\ RunSound(run[q])
  BY DEF IInv, Types
<1>3. \A d \in Caches : content'[d] = IF d = c THEN run[r].session ELSE content[d]
  BY <1>1, <1>2
<1>4. NoneAhead'
  BY <1>1, <1>2, <1>3 DEF IInv, NoneAhead, RunSound
<1>5. run'[r] \in RunState /\ RunSound(run[r])'
  <2>1. run'[r] = Written(r, c)
    BY <1>1
  <2>2. \/ run'[r] = Idle
        \/ run'[r].session = run[r].session /\ run'[r].overtaken = run[r].overtaken
    BY <1>1, <2>1, WrittenSound
  <2>3. run'[r] \in RunState /\ RunSound(run'[r])
    BY <1>1, <2>1, WrittenSound
  <2>4. NewestUnlessOvertaken(run[r])'
    BY <1>3, <2>2, <2>3, IdleSound
       DEF RunSound, NewestUnlessOvertaken, RunState, IInv, Types, Heights
  <2>. QED BY <1>1, <2>3, <2>4 DEF RunSound, HitsBounded
<1>6. ASSUME NEW q \in Runs, q # r
      PROVE  run'[q] \in RunState /\ RunSound(run[q])'
  <2>1. run'[q] = Marked(q)
    BY <1>1, <1>6
  <2>2. CASE run[q].pc = "write"
    <3>1. /\ Marked(q) \in RunState /\ Marked(q).pc = "write" /\ Marked(q).left = run[q].left
          /\ Marked(q).hits = run[q].hits /\ Marked(q).caches = run[q].caches
          /\ Marked(q).session = run[q].session /\ Marked(q).lagged = run[q].lagged
          /\ Marked(q).overtaken = run[q].overtaken \cup {c}
      BY <1>2, <2>2 DEF RunState
    <3>. HIDE DEF Marked
    <3>. QED BY <1>1, <1>2, <1>3, <2>1, <2>2, <3>1
             DEF RunSound, HitsBounded, NewestUnlessOvertaken
  <2>3. CASE run[q].pc # "write"
    BY <1>1, <1>2, <2>1, <2>3 DEF RunSound, HitsBounded, NewestUnlessOvertaken
  <2>. QED BY <2>2, <2>3
<1>7. Types'
  <2>1. run' = [q \in Runs |-> run'[q]]
    BY <1>1
  <2>2. \A q \in Runs : run'[q] \in RunState
    BY <1>5, <1>6
  <2>3. run' \in [Runs -> RunState]
    BY <2>1, <2>2
  <2>4. run[r].session \in 0..MaxHeight
    BY <1>2 DEF RunState
  <2>. QED BY <1>1, <1>2, <2>3, <2>4 DEF IInv, Types
<1>. QED BY <1>4, <1>5, <1>6, <1>7 DEF IInv

LEMMA WriteFailsStep ==
    ASSUME IInv, NEW r \in Runs, NEW c \in Caches, WriteFails(r, c)
    PROVE  IInv'
<1>1. /\ run[r].pc = "write"
      /\ run' = [run EXCEPT ![r] = Written(r, c)] /\ UNCHANGED <<height, content, flushing>>
  BY DEF WriteFails
<1>2. faults' \in 0..MaxFaults
  BY FaultsBounded DEF WriteFails, IInv
<1>. QED BY <1>1, <1>2, WrittenSound, OneRunSteps

LEMMA AbortStep == ASSUME IInv, NEW r \in Runs, Abort(r) PROVE IInv'
<1>1. run' = [run EXCEPT ![r] = Idle] /\ UNCHANGED <<height, content, flushing>>
  BY DEF Abort
<1>2. faults' \in 0..MaxFaults
  BY FaultsBounded DEF Abort, IInv
<1>. QED BY <1>1, <1>2, IdleSound, OneRunSteps DEF IInv

\* Around the runs the height only grows, and what the caches hold is only lost.
LEMMA EnvironmentStep == IInv /\ Environment => IInv'
<1>. SUFFICES ASSUME IInv, Environment PROVE IInv'
  OBVIOUS
<1>. DEFINE OnlyLost == /\ run' = run /\ height' \in Heights /\ height' >= height
                        /\ flushing' \in SUBSET Caches /\ faults' \in 0..MaxFaults
                        /\ content' \in [Caches -> 0..MaxHeight]
                        /\ \A c \in Caches : content'[c] = content[c] \/ content'[c] = 0
<1>. USE SessionCachesAssumption DEF IInv, Types, Heights, NotCached
<1>1. OnlyLost
  <2>0. Faulty(TRUE) => faults' \in 0..MaxFaults
    BY FaultsBounded
  <2>1. CASE NewBlock
    BY <2>1 DEF NewBlock
  <2>2. ASSUME NEW c \in Caches, Expire(c) PROVE OnlyLost
    BY <2>0, <2>2 DEF Expire
  <2>3. ASSUME NEW c \in Caches, FlushCache(c) PROVE OnlyLost
    BY <2>3 DEF FlushCache
  <2>4. ASSUME NEW c \in Caches, FlushFails(c) PROVE OnlyLost
    BY <2>0, <2>4 DEF FlushFails
  <2>5. ASSUME NEW cs \in SUBSET Caches, FlushAll(cs) PROVE OnlyLost
    BY <2>0, <2>5 DEF FlushAll
  <2>. HIDE DEF OnlyLost
  <2>. QED BY <2>1, <2>2, <2>3, <2>4, <2>5 DEF Environment
<1>2. Types'
  BY <1>1 DEF IInv, Types
<1>3. NoneAhead'
  BY <1>1 DEF IInv, Types, NoneAhead, Heights
<1>4. ASSUME NEW r \in Runs PROVE RunSound(run[r])'
  <2>1. run[r] \in RunState /\ RunSound(run[r])
    BY DEF IInv, Types
  <2>. QED BY <1>1, <2>1 DEF IInv, Types, Heights, RunState, RunSound, HitsBounded,
                            NewestUnlessOvertaken
<1>. QED BY <1>2, <1>3, <1>4 DEF IInv

LEMMA IInvStep == IInv /\ [Next]_vars => IInv'
<1>. SUFFICES ASSUME IInv, [Next]_vars PROVE IInv'
  OBVIOUS
<1>1. height \in Heights
  BY DEF IInv, Types
<1>2. ASSUME NEW r \in Runs, RunStep(r) PROVE IInv'
  <2>1. height <= height
    BY <1>1, SessionCachesAssumption DEF Heights
  <2>2. ASSUME NEW c \in Caches, Ask(r, c, TRUE) \/ Write(r, c) PROVE IInv'
    BY <2>2, AskStep, WriteStep
  <2>3. CASE Decide(r) \/ Dispatch(r, height)
    BY <1>1, <2>1, <2>3, DecideStep, DispatchStep
  <2>. QED BY <1>2, <2>2, <2>3 DEF RunStep
<1>3. ASSUME NEW r \in Runs, RunFault(r) PROVE IInv'
  <2>1. ASSUME NEW c \in Caches, Ask(r, c, FALSE) \/ WriteFails(r, c) PROVE IInv'
    BY <2>1, AskStep, WriteFailsStep
  <2>2. ASSUME NEW h \in Heights, h < height, Dispatch(r, h) PROVE IInv'
    <3>1. h <= height
      BY <1>1, <2>2, SessionCachesAssumption DEF Heights
    <3>. QED BY <2>2, <3>1, DispatchStep
  <2>. QED BY <1>3, <2>1, <2>2, AbortStep DEF RunFault
<1>4. ASSUME NEW r \in Runs, NEW cs \in SUBSET Caches, NEW clients \in SUBSET Caches,
             NEW h \in 1..height, Start(r, cs, clients, h)
      PROVE  IInv'
  BY <1>4, StartStep
<1>5. CASE Environment
  BY <1>5, EnvironmentStep
<1>6. CASE UNCHANGED vars
  BY <1>6 DEF vars, IInv, Types, NoneAhead, RunSound, HitsBounded, NewestUnlessOvertaken
<1>. QED BY <1>2, <1>3, <1>4, <1>5, <1>6 DEF Next

LEMMA InductiveInvariant == Spec => []IInv
BY InitIInv, IInvStep, PTL DEF Spec

(***************************************************************************)
(* The types of the runs and the caches; a run counts no more hits than it *)
(* has clients to check.                                                   *)
(***************************************************************************)
THEOREM TypeCorrect == Spec => []TypeOK
<1>1. IInv => TypeOK
  <2>. SUFFICES ASSUME IInv PROVE TypeOK
    OBVIOUS
  <2>1. ASSUME NEW r \in Runs
        PROVE  /\ run[r].pc \in {"idle", "ask", "dispatch", "write"}
               /\ HitsBounded(run[r])
               /\ run[r].session \in 0..MaxHeight
    <3>1. run[r] \in RunState /\ RunSound(run[r])
      BY DEF IInv, Types
    <3>. QED BY <3>1 DEF RunState, RunSound
  <2>. QED BY <2>1 DEF IInv, Types, TypeOK, HitsBounded
<1>. QED BY <1>1, InductiveInvariant, PTL

(***************************************************************************)
(* ShouldDispatch and the batch writer, over all runs: a run that is only  *)
(* slow never puts an older session over a newer one. That takes a         *)
(* dispatcher node that lagged, or another run's write in between.         *)
(***************************************************************************)
THEOREM RollbackExplainedHolds == Spec => RollbackExplained
<1>. DEFINE Explained ==
        \A c \in Caches :
           NotCached < content'[c] /\ content'[c] < content[c] =>
               \E r \in Runs : /\ run[r].pc = "write" /\ c \in run[r].left
                               /\ run[r].session = content'[c]
                               /\ run[r].lagged \/ c \in run[r].overtaken
<1>1. IInv /\ [Next]_vars => [Explained]_vars
  <2>. SUFFICES ASSUME IInv, Next, NEW c \in Caches,
                       NotCached < content'[c], content'[c] < content[c]
                PROVE  \E r \in Runs : /\ run[r].pc = "write" /\ c \in run[r].left
                                       /\ run[r].session = content'[c]
                                       /\ run[r].lagged \/ c \in run[r].overtaken
    BY DEF vars
  <2>1. content \in [Caches -> 0..MaxHeight]
    BY DEF IInv, Types
  <2>2. PICK r \in Runs, d \in Caches : Write(r, d)
    <3>1. ~ UNCHANGED content
      BY <2>1
    <3>2. ~ \E d \in Caches : content' = [content EXCEPT ![d] = NotCached]
      BY <2>1 DEF NotCached
    <3>. QED BY <3>1, <3>2 DEF Next, RunStep, RunFault, Environment, Ask, Decide, Dispatch,
                 WriteFails, Abort, Start, NewBlock, Expire, FlushAll, FlushCache, FlushFails
  <2>3. /\ run[r].pc = "write" /\ d \in run[r].left
        /\ content' = [content EXCEPT ![d] = run[r].session]
    BY <2>2 DEF Write
  <2>4. d = c /\ content'[c] = run[r].session
    BY <2>1, <2>3
  <2>5. run[r].lagged \/ c \in run[r].overtaken
    <3>1. run[r] \in RunState /\ NewestUnlessOvertaken(run[r])
      BY DEF IInv, Types, RunSound
    <3>. QED BY <2>1, <2>3, <2>4, <3>1 DEF RunState, NewestUnlessOvertaken
  <2>. QED BY <2>3, <2>4, <2>5
<1>. QED BY <1>1, InductiveInvariant, PTL DEF Spec, RollbackExplained
================================================================================
