-------------------------- MODULE ThrottlingProofs --------------------------
(***************************************************************************)
(* Proofs about module Throttling, for every graph and queue size: the     *)
(* books of the graph are right, and a stream that the application feeds   *)
(* stays within its limit where queues are not grown.                      *)
(*                                                                         *)
(* Neither is inductive.  The books are right because last_reported_full   *)
(* is what they were last brought up to, and it is the truth about every   *)
(* stream that nobody is about to report on.  The queues are bounded       *)
(* because only its own feeder makes a stream full, and reports it before  *)
(* it asks again: what another thread reports late cannot hide that.       *)
(***************************************************************************)
EXTENDS Throttling, FiniteSetTheorems, TLAPS

HiType ==
  [by : Threads \cup {none}, at : Streams \cup {none, "loop", "collect", "grow"},
   grow : SUBSET Streams, size : Int]

TypeInv ==
  /\ graph \in Graphs
  /\ size \in [Streams -> Int] /\ max \in [Streams -> Int]
  /\ reported \in [Streams -> BOOLEAN] /\ full \in [Inputs -> SUBSET Streams]
  /\ count \in Int
  /\ left \in [Threads -> SUBSET Streams]
  /\ calls \in [Threads -> Streams \cup {none}]
  /\ toPop \in SUBSET Streams
  /\ hi \in HiType

Listed == \A s \in Streams, i \in Inputs : (s \in full[i]) = (i \in Upstream(s) /\ reported[s])
Truthful == \A s \in Streams : (\A t \in Threads : calls[t] # s) => reported[s] = IsFull(s)
Counted == count = Cardinality({i \in Inputs : full[i] # {}})
GrowerReported == hi.at \in Streams => \A t \in Threads : hi.by = t => calls[t] = none

BookInv == Listed /\ Truthful /\ Counted /\ GrowerReported /\ ~failed

(* Only the feeder of a stream adds to it, and only to what has room.      *)
RoomLeft ==
  \A t \in Threads : \A s \in left[t] : s \in InStreams => Feeder[s] = t /\ size[s] < max[s]
FeederReports ==
  \A s \in InStreams : /\ size[s] <= max[s]
                       /\ (IsFull(s) /\ calls[Feeder[s]] # s => reported[s])
FeedInv == ReportDeadlock => hi.at \notin Streams /\ RoomLeft /\ FeederReports

ThrottlingInv == TypeInv /\ BookInv /\ FeedInv

-----------------------------------------------------------------------------
(* What the assumption says of the graph that runs.                        *)
LEMMA GraphFacts ==
  ASSUME graph \in Graphs
  PROVE  /\ IsFiniteSet(Inputs)
         /\ \A s \in InStreams : Feeder[s] \in Inputs
         /\ InStreams \cap OutStreams = {}
         /\ Streams \cap {none, "loop", "collect", "grow"} = {}
         /\ ReportDeadlock \in BOOLEAN
<1>1. Inputs \subseteq AllInputs /\ IsFiniteSet(AllInputs)
  BY ThrottlingAssumption DEF Inputs
<1>2. IsFiniteSet(Inputs)
  BY <1>1, FS_Subset
<1>3. \A s \in InStreams : Feeder[s] \in Inputs
  BY ThrottlingAssumption DEF Inputs, InStreams, Feeder
<1>4. InStreams \cap OutStreams = {} /\ Streams \cap {none, "loop", "collect", "grow"} = {}
  BY ThrottlingAssumption DEF InStreams, OutStreams, Streams, Feeder, none
<1>5. ReportDeadlock \in BOOLEAN
  BY ThrottlingAssumption DEF ReportDeadlock
<1>6. QED
  BY <1>2, <1>3, <1>4, <1>5

(* The graph does not change while it runs, nor what is read off it.       *)
LEMMA SameGraph ==
  ASSUME UNCHANGED graph
  PROVE  /\ Inputs' = Inputs /\ Feeder' = Feeder /\ InStreams' = InStreams
         /\ OutStreams' = OutStreams /\ Streams' = Streams /\ Threads' = Threads
         /\ ReportDeadlock' = ReportDeadlock /\ HiType' = HiType
         /\ \A s : Upstream(s)' = Upstream(s)
BY DEF Inputs, Feeder, InStreams, OutStreams, Streams, Threads, Workers, ReportDeadlock, Upstream, HiType

(* The books are right in the initial states.                              *)
LEMMA ThrottlingInvInit == Init => ThrottlingInv
<1> SUFFICES ASSUME Init PROVE ThrottlingInv
  OBVIOUS
<1> USE DEF Init
<1>1. TypeInv
  <2>1. hi \in HiType
    BY DEF NotHandling, HiType
  <2>2. MaxQueueSize \in Int
    BY ThrottlingAssumption
  <2>3. QED
    BY <2>1, <2>2 DEF TypeInv
<1>2. MaxQueueSize \in Nat /\ MaxQueueSize # 0
  BY ThrottlingAssumption
<1>3. \A s \in Streams : IsFull(s) = FALSE
  BY <1>2 DEF IsFull
<1>4. hi.at \notin Streams
  BY GraphFacts DEF NotHandling
<1>5. Listed /\ Truthful /\ GrowerReported
  <2>1. Listed
    BY DEF Listed
  <2>2. Truthful
    BY <1>3 DEF Truthful
  <2>3. GrowerReported
    BY <1>4 DEF GrowerReported
  <2>4. QED
    BY <2>1, <2>2, <2>3
<1>6. Counted
  <2>1. {i \in Inputs : full[i] # {}} = {}
    OBVIOUS
  <2>2. QED
    BY <2>1, FS_EmptySet DEF Counted
<1>7. RoomLeft
  BY DEF RoomLeft
<1>8. FeederReports
  BY <1>2, <1>3 DEF FeederReports, Streams
<1>9. QED
  BY <1>1, <1>4, <1>5, <1>6, <1>7, <1>8 DEF ThrottlingInv, BookInv, FeedInv

(* A change of a queue keeps the books right: when it changes whether the  *)
(* queue is full, the thread that made it is about to report it.           *)
LEMMA ResizeKeepsBooks ==
  ASSUME TypeInv, BookInv, NEW t \in Threads, NEW s \in Streams, NEW n \in Int, NEW m \in Int,
         calls[t] = none, Resize(t, s, n, m),
         UNCHANGED <<graph, reported, full, count, failed>>
  PROVE  /\ size' \in [Streams -> Int] /\ max' \in [Streams -> Int]
         /\ calls' \in [Threads -> Streams \cup {none}]
         /\ Listed' /\ Truthful' /\ Counted' /\ ~failed'
<1> USE SameGraph
<1>1. /\ size' = [size EXCEPT ![s] = n] /\ max' = [max EXCEPT ![s] = m]
      /\ size \in [Streams -> Int] /\ max \in [Streams -> Int]
      /\ calls \in [Threads -> Streams \cup {none}]
      /\ calls' = IF IsFull(s) # (n >= m) THEN [calls EXCEPT ![t] = s] ELSE calls
  BY DEF TypeInv, Resize
<1>2. /\ size' \in [Streams -> Int] /\ max' \in [Streams -> Int]
      /\ calls' \in [Threads -> Streams \cup {none}]
  BY <1>1
<1>3. Listed' /\ Counted' /\ ~failed'
  BY DEF BookInv, Listed, Counted
<1>4. none \notin Streams
  BY GraphFacts DEF TypeInv
<1>5. ASSUME NEW r \in Streams, \A u \in Threads : calls'[u] # r
      PROVE  reported[r] = IsFull(r)'
  <2>1. CASE r = s
    <3>1. IsFull(s) = (n >= m)
      <4>1. SUFFICES ASSUME IsFull(s) # (n >= m) PROVE FALSE
        OBVIOUS
      <4>2. calls'[t] = s
        BY <1>1, <4>1
      <4>3. QED
        BY <1>5, <2>1, <4>2
    <3>2. calls' = calls
      BY <1>1, <3>1
    <3>3. reported[s] = IsFull(s)
      BY <1>5, <2>1, <3>2 DEF BookInv, Truthful
    <3>4. IsFull(s)' = (n >= m)
      BY <1>1 DEF IsFull
    <3>5. QED
      BY <2>1, <3>1, <3>3, <3>4
  <2>2. CASE r # s
    <3>1. \A u \in Threads : calls[u] # r
      BY <1>1, <1>4, <1>5
    <3>2. reported[r] = IsFull(r)
      BY <3>1 DEF BookInv, Truthful
    <3>3. IsFull(r)' = IsFull(r)
      BY <1>1, <2>2 DEF IsFull
    <3>4. QED
      BY <3>2, <3>3
  <2>3. QED
    BY <2>1, <2>2
<1>6. Truthful'
  BY <1>5 DEF Truthful
<1>7. QED
  BY <1>2, <1>3, <1>6

(* A packet is added where there was room for it, by the thread that feeds *)
(* the stream; the thread is about to report the stream it has filled.     *)
LEMMA AddKeepsBounds ==
  ASSUME TypeInv, RoomLeft, FeederReports, NEW t \in Threads, NEW s \in left[t],
         calls[t] = none, AddPacket(t, s), left' = [left EXCEPT ![t] = @ \ {s}],
         UNCHANGED <<graph, reported>>
  PROVE  RoomLeft' /\ FeederReports'
<1> USE SameGraph
<1>1. s \in Streams /\ none \notin Streams /\ \A r \in InStreams : r \in Streams /\ Feeder[r] \in Threads
  BY GraphFacts DEF TypeInv, Streams, Threads
<1>2. /\ size' = [size EXCEPT ![s] = size[s] + 1] /\ max' = max
      /\ size \in [Streams -> Int] /\ max \in [Streams -> Int]
      /\ calls \in [Threads -> Streams \cup {none}] /\ left \in [Threads -> SUBSET Streams]
      /\ calls' = IF IsFull(s) # (size[s] + 1 >= max[s]) THEN [calls EXCEPT ![t] = s] ELSE calls
  BY DEF TypeInv, AddPacket, Resize
<1>3. RoomLeft'
  <2>1. ASSUME NEW u \in Threads, NEW r \in left'[u], r \in InStreams
        PROVE  Feeder[r] = u /\ size'[r] < max'[r]
    <3>1. r \in left[u] /\ Feeder[r] = u /\ size[r] < max[r]
      BY <1>2, <2>1 DEF RoomLeft
    <3>2. r # s
      <4>1. SUFFICES ASSUME r = s PROVE FALSE
        OBVIOUS
      <4>2. Feeder[s] = t
        BY <2>1, <4>1 DEF RoomLeft
      <4>3. u = t /\ s \in left'[t]
        BY <2>1, <3>1, <4>1, <4>2
      <4>4. QED
        BY <1>2, <4>3
    <3>3. QED
      BY <1>1, <1>2, <2>1, <3>1, <3>2
  <2>2. QED
    BY <2>1 DEF RoomLeft
<1>4. ASSUME NEW r \in InStreams
      PROVE  size'[r] <= max'[r] /\ (IsFull(r)' /\ calls'[Feeder[r]] # r => reported[r])
  <2>1. CASE r # s
    <3>1. size'[r] = size[r] /\ max'[r] = max[r] /\ size[r] <= max[r]
      BY <1>1, <1>2, <2>1 DEF FeederReports
    <3>2. IsFull(r)' = IsFull(r)
      BY <3>1 DEF IsFull
    <3>3. calls'[Feeder[r]] # r => calls[Feeder[r]] # r
      <4>1. calls[Feeder[r]] = r => Feeder[r] # t
        BY <1>1
      <4>2. Feeder[r] # t => calls'[Feeder[r]] = calls[Feeder[r]]
        BY <1>1, <1>2
      <4>3. QED
        BY <4>1, <4>2
    <3>4. QED
      BY <3>1, <3>2, <3>3 DEF FeederReports
  <2>2. CASE r = s
    <3>1. Feeder[s] = t /\ size[s] < max[s]
      BY <2>2 DEF RoomLeft
    <3>2. size[s] \in Int /\ max[s] \in Int /\ size'[s] = size[s] + 1 /\ max'[s] = max[s]
      BY <1>1, <1>2
    <3>3. size'[s] <= max'[s]
      BY <3>1, <3>2
    <3>4. IsFull(s)' => calls'[t] = s
      <4>1. SUFFICES ASSUME IsFull(s)' PROVE calls'[t] = s
        OBVIOUS
      <4>2. IsFull(s) = FALSE /\ (size[s] + 1 >= max[s]) = TRUE
        BY <3>1, <3>2, <4>1 DEF IsFull
      <4>3. QED
        BY <1>2, <4>2
    <3>5. QED
      BY <2>2, <3>1, <3>3, <3>4
  <2>3. QED
    BY <2>1, <2>2
<1>5. FeederReports'
  BY <1>4 DEF FeederReports
<1>6. QED
  BY <1>3, <1>5

(* A queue within its limit that loses a packet is not full.               *)
LEMMA PopKeepsBounds ==
  ASSUME TypeInv, RoomLeft, FeederReports, NEW t \in Threads, NEW s \in Streams,
         calls[t] = none, PopPacket(t, s), UNCHANGED <<graph, reported, left>>
  PROVE  RoomLeft' /\ FeederReports'
<1> USE SameGraph
<1>1. none \notin Streams /\ \A r \in InStreams : r \in Streams /\ Feeder[r] \in Threads
  BY GraphFacts DEF TypeInv, Streams, Threads
<1>2. /\ size' = [size EXCEPT ![s] = size[s] - 1] /\ max' = max
      /\ size \in [Streams -> Int] /\ max \in [Streams -> Int]
      /\ calls \in [Threads -> Streams \cup {none}]
      /\ \A u \in Threads : u # t => calls'[u] = calls[u]
  BY DEF TypeInv, PopPacket, Resize
<1>3. \A r \in Streams : size'[r] \in Int /\ size'[r] <= size[r]
  BY <1>2
<1>4. RoomLeft'
  <2>1. ASSUME NEW u \in Threads, NEW r \in left[u], r \in InStreams
        PROVE  Feeder[r] = u /\ size'[r] < max'[r]
    <3>1. Feeder[r] = u /\ size[r] < max[r] /\ r \in Streams
      BY <1>1, <2>1 DEF RoomLeft
    <3>2. QED
      BY <1>2, <1>3, <3>1
  <2>2. QED
    BY <2>1 DEF RoomLeft
<1>5. ASSUME NEW r \in InStreams
      PROVE  size'[r] <= max'[r] /\ (IsFull(r)' /\ calls'[Feeder[r]] # r => reported[r])
  <2>1. size[r] <= max[r] /\ r \in Streams /\ size[r] \in Int /\ max[r] \in Int
    BY <1>1, <1>2 DEF FeederReports
  <2>2. size'[r] <= max'[r]
    BY <1>2, <1>3, <2>1
  <2>3. CASE r = s
    <3>1. ~IsFull(r)'
      BY <1>2, <2>1, <2>3 DEF IsFull
    <3>2. QED
      BY <2>2, <3>1
  <2>4. CASE r # s
    <3>1. IsFull(r)' = IsFull(r)
      BY <1>2, <2>1, <2>4 DEF IsFull
    <3>2. calls'[Feeder[r]] # r => calls[Feeder[r]] # r
      <4>1. calls[Feeder[r]] = r => Feeder[r] # t
        BY <1>1
      <4>2. QED
        BY <1>1, <1>2, <4>1
    <3>3. QED
      BY <2>2, <3>1, <3>2 DEF FeederReports
  <2>5. QED
    BY <2>3, <2>4
<1>6. FeederReports'
  BY <1>5 DEF FeederReports
<1>7. QED
  BY <1>4, <1>6

-----------------------------------------------------------------------------
(* What UpdateThrottledNodes does to the books of a stream whose fullness  *)
(* was reported differently before.                                        *)
Relisted(s, isFull) ==
  [i \in Inputs |-> IF i \notin Upstream(s) THEN full[i]
                    ELSE IF isFull THEN full[i] \cup {s} ELSE full[i] \ {s}]

(* The count follows the lists.                                            *)
LEMMA RecountIsRight ==
  ASSUME graph \in Graphs, full \in [Inputs -> SUBSET Streams], Listed, Counted,
         NEW s \in Streams, NEW isFull \in BOOLEAN, reported[s] = ~isFull
  PROVE  LET after == Relisted(s, isFull)
         IN  Recount(after, isFull, Upstream(s)) = Cardinality({i \in Inputs : after[i] # {}})
<1> DEFINE after == Relisted(s, isFull)
           up == Upstream(s)
           Before == {i \in Inputs : full[i] # {}}
           After == {i \in Inputs : after[i] # {}}
<1>1. up \subseteq Inputs /\ IsFiniteSet(Inputs)
  BY GraphFacts DEF Upstream
<1>2. IsFiniteSet(Before) /\ IsFiniteSet(After) /\ count = Cardinality(Before)
  BY <1>1, FS_Subset DEF Counted
<1>3. Cardinality(Before) \in Nat /\ Cardinality(After) \in Nat
  BY <1>2, FS_CardinalityType
<1>4. CASE isFull
  <2> DEFINE New == {i \in up : full[i] = {}}
  <2>1. IsFiniteSet(New)
    BY <1>1, FS_Subset
  <2>2. After = Before \cup New /\ Before \cap New = {}
    BY <1>1, <1>4 DEF Relisted
  <2>3. Cardinality(After) = Cardinality(Before) + Cardinality(New) - Cardinality(Before \cap New)
    BY <1>2, <2>1, <2>2, FS_Union
  <2>4. Cardinality(Before \cap New) = 0 /\ Cardinality(New) \in Nat
    BY <2>1, <2>2, FS_EmptySet, FS_CardinalityType
  <2>5. Recount(after, isFull, up) = count + Cardinality(New)
    BY <1>4 DEF Recount
  <2> HIDE DEF New, Before, After
  <2>6. Cardinality(After) = count + Cardinality(New)
    BY <1>2, <1>3, <2>3, <2>4
  <2>7. QED
    BY <2>5, <2>6 DEF After
<1>5. CASE ~isFull
  <2> DEFINE Gone == {i \in up : after[i] = {}}
  <2>1. \A i \in up : s \in full[i]
    BY <1>1, <1>5 DEF Listed
  <2>2. After = Before \ Gone /\ Gone = Before \cap Gone
    BY <1>1, <1>5, <2>1 DEF Relisted
  <2>3. Recount(after, isFull, up) = count - Cardinality(Gone)
    BY <1>5 DEF Recount
  <2> HIDE DEF Gone, Before, After
  <2>4. Cardinality(Before \ Gone) = Cardinality(Before) - Cardinality(Before \cap Gone)
    BY <1>2, FS_Difference
  <2>5. Cardinality(After) = count - Cardinality(Gone)
    BY <1>2, <2>2, <2>4
  <2>6. QED
    BY <2>3, <2>5 DEF After
<1>6. QED
  BY <1>4, <1>5

(* A report keeps the books right, whoever makes it and however late: it   *)
(* says what is true now.                                                  *)
LEMMA ReportKeepsBooks ==
  ASSUME ThrottlingInv, NEW t \in Threads, UpdateThrottledNodes(t), UNCHANGED graph
  PROVE  ThrottlingInv'
<1> DEFINE s == calls[t]
           isFull == FoundFull(s)
           after == Relisted(s, isFull)
<1> USE SameGraph DEF ThrottlingInv
<1>1. /\ s \in Streams /\ none \notin Streams
      /\ calls \in [Threads -> Streams \cup {none}] /\ calls' = [calls EXCEPT ![t] = none]
      /\ reported \in [Streams -> BOOLEAN] /\ reported' = [reported EXCEPT ![s] = isFull]
      /\ full \in [Inputs -> SUBSET Streams] /\ count \in Int
      /\ IF reported[s] = isFull THEN UNCHANGED <<full, count, failed>>
         ELSE /\ full' = after /\ count' = Recount(after, isFull, Upstream(s))
              /\ failed' = (failed \/ \E i \in Upstream(s) : (s \in full[i]) = isFull)
      /\ UNCHANGED <<size, max, left, hi, toPop, graph>>
  BY GraphFacts DEF TypeInv, UpdateThrottledNodes, Relisted, streamVars, hiVars, runVars, nodeVars
<1>2. isFull \in BOOLEAN /\ \A r : IsFull(r)' = IsFull(r)
  BY <1>1 DEF TypeInv, FoundFull, IsFull
<1>3. isFull = IsFull(s) /\ Upstream(s) \subseteq Inputs
  BY <1>1, GraphFacts DEF FoundFull, Upstream, TypeInv
<1> HIDE DEF isFull, s
<1>4. \A r \in Streams : reported'[r] = IF r = s THEN isFull ELSE reported[r]
  BY <1>1
<1>5. Listed' /\ full' \in [Inputs -> SUBSET Streams]
  <2>1. CASE reported[s] = isFull
    <3>1. reported' = reported /\ full' = full
      BY <1>1, <2>1
    <3>2. QED
      BY <1>1, <3>1 DEF BookInv, Listed
  <2>2. CASE reported[s] # isFull
    <3>1. full' = Relisted(s, isFull)
      BY <1>1, <2>2
    <3>2. full' \in [Inputs -> SUBSET Streams]
      BY <1>1, <3>1 DEF Relisted
    <3>3. ASSUME NEW r \in Streams, NEW i \in Inputs
          PROVE  (r \in full'[i]) = (i \in Upstream(r) /\ reported'[r])
      <4>1. (r \in full[i]) = (i \in Upstream(r) /\ reported[r])
        BY DEF BookInv, Listed
      <4>2. CASE r # s
        BY <1>4, <3>1, <4>1, <4>2 DEF Relisted
      <4>3. CASE r = s
        BY <1>2, <1>4, <3>1, <4>1, <4>3 DEF Relisted
      <4>4. QED
        BY <4>2, <4>3
    <3>4. QED
      BY <3>2, <3>3 DEF Listed
  <2>3. QED
    BY <2>1, <2>2
<1>6. Counted' /\ count' \in Int /\ ~failed'
  <2>1. CASE reported[s] = isFull
    BY <1>1, <2>1 DEF BookInv, Counted
  <2>2. CASE reported[s] # isFull
    <3>1. reported[s] = ~isFull
      BY <1>1, <1>2, <2>2
    <3>2. count' = Cardinality({i \in Inputs : after[i] # {}}) /\ full' = after
      BY <1>1, <1>2, <2>2, <3>1, RecountIsRight DEF BookInv, TypeInv
    <3>3. Counted'
      BY <3>2 DEF Counted
    <3>4. count' \in Int
      <4>1. IsFiniteSet(Inputs)
        BY GraphFacts DEF TypeInv
      <4>2. IsFiniteSet({i \in Inputs : after[i] # {}})
        BY <4>1, FS_Subset
      <4>3. QED
        BY <3>2, <4>2, FS_CardinalityType
    <3>5. \A i \in Upstream(s) : (s \in full[i]) = ~isFull
      BY <1>1, <1>2, <1>3, <3>1 DEF BookInv, Listed
    <3>6. ~failed'
      BY <1>1, <1>2, <2>2, <3>5 DEF BookInv
    <3>7. QED
      BY <3>3, <3>4, <3>6
  <2>3. QED
    BY <2>1, <2>2
<1>7. Truthful'
  <2>1. ASSUME NEW r \in Streams, \A u \in Threads : calls'[u] # r
        PROVE  reported'[r] = IsFull(r)
    <3>1. CASE r = s
      BY <1>3, <1>4, <3>1
    <3>2. CASE r # s
      <4>1. \A u \in Threads : calls[u] # r
        BY <1>1, <2>1, <3>2 DEF s
      <4>2. QED
        BY <1>4, <3>2, <4>1 DEF BookInv, Truthful
    <3>3. QED
      BY <3>1, <3>2
  <2>2. QED
    BY <1>2, <2>1 DEF Truthful
<1>8. GrowerReported'
  BY <1>1 DEF BookInv, GrowerReported
<1>9. TypeInv'
  <2>1. calls' \in [Threads -> Streams \cup {none}] /\ reported' \in [Streams -> BOOLEAN]
    BY <1>1, <1>2
  <2>2. QED
    BY <1>1, <1>5, <1>6, <2>1 DEF TypeInv
<1>10. FeedInv'
  <2>1. SUFFICES ASSUME ReportDeadlock PROVE hi'.at \notin Streams /\ RoomLeft' /\ FeederReports'
    BY DEF FeedInv
  <2>2. hi'.at \notin Streams /\ RoomLeft'
    BY <1>1, <2>1 DEF FeedInv, RoomLeft
  <2>3. ASSUME NEW r \in InStreams
        PROVE  size[r] <= max[r] /\ (IsFull(r) /\ calls'[Feeder[r]] # r => reported'[r])
    <3>1. r \in Streams /\ Feeder[r] \in Threads
      BY GraphFacts DEF TypeInv, Streams, Threads
    <3>2. size[r] <= max[r] /\ (IsFull(r) /\ calls[Feeder[r]] # r => reported[r])
      BY <2>1 DEF FeedInv, FeederReports
    <3>3. CASE r = s
      BY <1>3, <1>4, <3>1, <3>2, <3>3
    <3>4. CASE r # s
      <4>1. calls'[Feeder[r]] # r => calls[Feeder[r]] # r
        BY <1>1, <3>1, <3>4 DEF s
      <4>2. QED
        BY <1>4, <3>1, <3>2, <3>4, <4>1
    <3>5. QED
      BY <3>3, <3>4
  <2>4. FeederReports'
    BY <1>1, <1>2, <2>3 DEF FeederReports
  <2>5. QED
    BY <2>2, <2>4
<1>11. QED
  BY <1>5, <1>6, <1>7, <1>8, <1>9, <1>10 DEF BookInv

-----------------------------------------------------------------------------
Quiet == UNCHANGED <<graph, size, max, reported, full, count, calls, failed>>

(* A step that leaves queues, books and calls alone, that does not enter a *)
(* stream to grow it, and that takes up packets only where there is room.  *)
LEMMA QuietKeepsBooks ==
  ASSUME ThrottlingInv, Quiet, left' \in [Threads -> SUBSET Streams], toPop' \in SUBSET Streams,
         hi' \in HiType, hi' = hi \/ hi'.at \in {none, "loop", "collect", "grow"},
         ReportDeadlock => RoomLeft'
  PROVE  ThrottlingInv'
<1> USE SameGraph DEF ThrottlingInv, Quiet
<1>1. TypeInv'
  BY DEF TypeInv
<1>2. \A r : IsFull(r)' = IsFull(r)
  BY DEF IsFull
<1>3. Listed' /\ Truthful' /\ Counted' /\ ~failed'
  <2>1. Listed' /\ Counted' /\ ~failed'
    BY DEF BookInv, Listed, Counted
  <2>2. Truthful'
    BY <1>2 DEF BookInv, Truthful
  <2>3. QED
    BY <2>1, <2>2
<1>4. hi' = hi \/ hi'.at \notin Streams
  BY GraphFacts DEF TypeInv
<1>5. GrowerReported'
  BY <1>4 DEF BookInv, GrowerReported
<1>6. FeederReports => FeederReports'
  BY <1>2 DEF FeederReports
<1>7. FeedInv'
  <2>1. SUFFICES ASSUME ReportDeadlock PROVE hi'.at \notin Streams /\ RoomLeft' /\ FeederReports'
    BY DEF FeedInv
  <2>2. hi.at \notin Streams /\ FeederReports
    BY <2>1 DEF FeedInv
  <2>3. QED
    BY <1>4, <1>6, <2>1, <2>2
<1>8. QED
  BY <1>1, <1>3, <1>5, <1>7 DEF BookInv

(* RoomLeft does not depend on where the threads are.                      *)
LEMMA SameRoom ==
  ASSUME Quiet, left' = left, RoomLeft
  PROVE  RoomLeft'
BY SameGraph DEF Quiet, RoomLeft

(* A call of HandleIdle begins the loop or leaves a mark.                  *)
LEMMA CallHandleIdleMoves ==
  ASSUME TypeInv, NEW t \in Threads, CallHandleIdle(t)
  PROVE  hi' \in HiType /\ (hi' = hi \/ hi'.at = "loop")
<1>1. CASE handling = 0
  <2>1. hi' = [NotHandling EXCEPT !.by = t, !.at = "loop"]
    BY <1>1 DEF CallHandleIdle
  <2>2. hi' = [by |-> t, at |-> "loop", grow |-> {}, size |-> 0]
    BY <2>1 DEF NotHandling
  <2>3. QED
    BY <2>2 DEF HiType
<1>2. CASE handling # 0
  BY <1>2 DEF TypeInv, CallHandleIdle
<1>3. QED
  BY <1>1, <1>2

(* The steps of a thread in HandleIdle.                                    *)
LEMMA HandleIdleKeepsBooks ==
  ASSUME ThrottlingInv, NEW t \in Threads, InHandleIdle(t), UNCHANGED graph
  PROVE  ThrottlingInv'
<1> USE SameGraph DEF ThrottlingInv
<1> USE DEF streamVars, bookVars, runVars, nodeVars, appVars, hiVars
<1>1. /\ hi \in HiType /\ left \in [Threads -> SUBSET Streams] /\ toPop \in SUBSET Streams
      /\ full \in [Inputs -> SUBSET Streams]
      /\ Streams \cap {none, "loop", "collect", "grow"} = {}
  BY GraphFacts DEF TypeInv
<1>2. NotHandling \in HiType /\ NotHandling.at = none
  BY DEF NotHandling, HiType
<1>3. \A a \in {"loop", "collect", "grow"} : [hi EXCEPT !.at = a] \in HiType /\ [hi EXCEPT !.at = a].at = a
  BY <1>1 DEF HiType
<1>4. CASE HandleIdle(t)
  <2>1. Quiet /\ left' = left /\ toPop' = toPop
    BY <1>4 DEF HandleIdle, Quiet
  <2>2. hi' = NotHandling \/ hi' = [hi EXCEPT !.at = "collect"] \/ hi' = hi
    BY <1>4 DEF HandleIdle, Return
  <2>3. hi' \in HiType /\ (hi' = hi \/ hi'.at \in {none, "loop", "collect", "grow"})
    BY <1>1, <1>2, <1>3, <2>2
  <2>4. QED
    BY <1>1, <2>1, <2>3, QuietKeepsBooks, SameRoom DEF FeedInv
<1>5. CASE UnthrottleSources(t)
  <2>1. Quiet /\ left' = left /\ toPop' = toPop
    BY <1>5 DEF UnthrottleSources, Quiet
  <2>2. ToGrow \subseteq Streams
    BY <1>1 DEF ToGrow
  <2>3. [hi EXCEPT !.at = "grow", !.grow = ToGrow] \in HiType
        /\ [hi EXCEPT !.at = "grow", !.grow = ToGrow].at = "grow"
    BY <1>1, <2>2 DEF HiType
  <2>4. \/ hi' = NotHandling \/ hi' = [hi EXCEPT !.at = "loop"]
        \/ hi' = [hi EXCEPT !.at = "grow", !.grow = ToGrow]
    BY <1>5 DEF UnthrottleSources, Return
  <2>5. hi' \in HiType /\ hi'.at \in {none, "loop", "collect", "grow"}
    BY <1>2, <1>3, <2>3, <2>4
  <2>6. QED
    BY <1>1, <2>1, <2>5, QuietKeepsBooks, SameRoom DEF FeedInv
<1>6. CASE ReportedDeadlock(t)
  <2>1. Quiet /\ left' = left /\ toPop' = toPop
    BY <1>6 DEF ReportedDeadlock, Quiet
  <2>2. hi' \in HiType /\ hi'.at = "grow"
    BY <1>1, <1>6 DEF ReportedDeadlock, HiType
  <2>3. QED
    BY <1>1, <2>1, <2>2, QuietKeepsBooks, SameRoom DEF FeedInv
<1>7. CASE GrewAll(t)
  <2>1. Quiet /\ left' = left /\ toPop' = toPop
    BY <1>7 DEF GrewAll, Quiet
  <2>2. hi' \in HiType /\ hi'.at = "loop"
    BY <1>3, <1>7 DEF GrewAll
  <2>3. QED
    BY <1>1, <2>1, <2>2, QuietKeepsBooks, SameRoom DEF FeedInv
<1>8. CASE ReadQueueSize(t)
  <2>1. Quiet /\ left' = left /\ toPop' = toPop /\ ~ReportDeadlock /\ hi.by = t /\ calls[t] = none
    BY <1>8 DEF ReadQueueSize, Quiet
  <2>2. PICK s \in hi.grow : hi' = [hi EXCEPT !.size = size[s] + 1, !.at = s]
    BY <1>8 DEF ReadQueueSize
  <2>3. s \in Streams /\ size[s] + 1 \in Int
    BY <1>1, <2>2 DEF HiType, TypeInv
  <2>4. hi' \in HiType /\ hi'.by = t
    BY <1>1, <2>1, <2>2, <2>3 DEF HiType
  <2>5. TypeInv'
    BY <1>1, <2>1, <2>4 DEF TypeInv, Quiet
  <2>6. BookInv'
    <3>1. \A r : IsFull(r)' = IsFull(r)
      BY <2>1 DEF IsFull, Quiet
    <3>2. Truthful'
      BY <2>1, <3>1 DEF BookInv, Truthful, Quiet
    <3>3. Listed' /\ Counted' /\ ~failed'
      BY <2>1 DEF BookInv, Listed, Counted, Quiet
    <3>4. GrowerReported'
      BY <2>1, <2>4 DEF GrowerReported, Quiet
    <3>5. QED
      BY <3>2, <3>3, <3>4 DEF BookInv
  <2>7. QED
    BY <2>1, <2>5, <2>6 DEF FeedInv
<1>9. CASE Grow(t)
  <2> DEFINE s == hi.at
  <2>1. /\ hi.by = t /\ s \in Streams /\ Resize(t, s, size[s], hi.size) /\ calls[t] = none
        /\ hi' = [hi EXCEPT !.size = 0, !.grow = @ \ {hi.at}, !.at = "grow"]
        /\ UNCHANGED <<graph, reported, full, count, failed, left, toPop>>
    BY <1>9 DEF Grow, SetMaxQueueSize, BookInv, GrowerReported
  <2>2. size[s] \in Int /\ hi.size \in Int
    BY <1>1, <2>1 DEF HiType, TypeInv
  <2>3. hi' \in HiType /\ hi'.at = "grow"
    <3>1. PICK rest \in SUBSET Streams : rest = hi.grow \ {hi.at}
      BY <1>1 DEF HiType
    <3>2. hi' = [hi EXCEPT !.size = 0, !.grow = rest, !.at = "grow"]
      BY <2>1, <3>1
    <3>3. hi' = [by |-> hi.by, at |-> "grow", grow |-> rest, size |-> 0] /\ hi.by \in Threads \cup {none}
      BY <1>1, <3>2 DEF HiType
    <3>4. QED
      BY <3>1, <3>3 DEF HiType
  <2> HIDE DEF s
  <2>4. /\ size' \in [Streams -> Int] /\ max' \in [Streams -> Int]
        /\ calls' \in [Threads -> Streams \cup {none}]
        /\ Listed' /\ Truthful' /\ Counted' /\ ~failed'
    BY <2>1, <2>2, ResizeKeepsBooks
  <2>5. TypeInv'
    BY <2>1, <2>3, <2>4 DEF TypeInv
  <2>6. BookInv'
    BY <1>1, <2>3, <2>4 DEF BookInv, GrowerReported
  <2>7. ~ReportDeadlock
    BY <2>1 DEF FeedInv, s
  <2>8. QED
    BY <2>5, <2>6, <2>7 DEF FeedInv
<1>10. QED
  BY <1>4, <1>5, <1>6, <1>7, <1>8, <1>9 DEF InHandleIdle

(* The steps that change no queue and grow none.                           *)
LEMMA OtherStepsKeepBooks ==
  ASSUME ThrottlingInv, UNCHANGED graph, NEW t \in Threads,
         \/ t \in Inputs /\ (\/ Add(t) \/ Ask(t) \/ WaitUntilUnthrottled(t) \/ Propagate(t)
                             \/ Added(t) \/ Close(t) \/ ClosedAllGraphInputStreams(t))
         \/ CheckIfBecameReady(t) \/ ScheduleNode(t)
         \/ RunNextTask(t) \/ EndScheduling(t) \/ FinishTask(t) \/ Fail(t)
  PROVE  ThrottlingInv'
<1> USE SameGraph DEF ThrottlingInv
<1> USE DEF streamVars, bookVars, runVars, nodeVars, appVars, hiVars, closeVars
<1>1. /\ hi \in HiType /\ left \in [Threads -> SUBSET Streams] /\ toPop \in SUBSET Streams
      /\ InStreams \subseteq Streams /\ OutStreams \subseteq Streams
  BY DEF TypeInv, Streams
<1>2. ReportDeadlock => RoomLeft
  BY DEF FeedInv
<1>3. ASSUME Quiet, left' = left, toPop' \in SUBSET Streams, hi' = hi \/ CallHandleIdle(t)
      PROVE  ThrottlingInv'
  <2>1. hi' \in HiType /\ (hi' = hi \/ hi'.at \in {none, "loop", "collect", "grow"})
    BY <1>1, <1>3, CallHandleIdleMoves
  <2>2. ReportDeadlock => RoomLeft'
    BY <1>2, <1>3, SameRoom
  <2>3. QED
    BY <1>1, <1>3, <2>1, <2>2, QuietKeepsBooks
<1>4. CASE Add(t) \/ WaitUntilUnthrottled(t) \/ Propagate(t) \/ Close(t) \/ EndScheduling(t)
  <2>1. Quiet /\ left' = left /\ toPop' = toPop /\ hi' = hi
    BY <1>4 DEF Add, WaitUntilUnthrottled, Propagate, Close, EndScheduling, Quiet
  <2>2. QED
    BY <1>1, <1>3, <2>1
<1>5. CASE Added(t) \/ ClosedAllGraphInputStreams(t) \/ FinishTask(t) \/ ScheduleNode(t)
  <2>1. Quiet /\ left' = left /\ toPop' = toPop /\ (hi' = hi \/ CallHandleIdle(t))
    BY <1>5 DEF Added, ClosedAllGraphInputStreams, FinishTask, ScheduleNode, Quiet
  <2>2. QED
    BY <1>1, <1>3, <2>1
<1>6. CASE CheckIfBecameReady(t)
  <2>1. Quiet /\ left' = left /\ hi' = hi /\ toPop' \in {toPop, Pending}
    BY <1>6 DEF CheckIfBecameReady, Quiet
  <2>2. Pending \subseteq Streams
    BY <1>1 DEF Pending
  <2>3. QED
    BY <1>1, <1>3, <2>1, <2>2
<1>7. CASE RunNextTask(t) \/ Fail(t)
  <2>1. Quiet /\ hi' = hi /\ toPop' = toPop
    BY <1>7 DEF RunNextTask, Fail, Quiet
  <2>2. PICK new \in SUBSET OutStreams : left' = [left EXCEPT ![t] = new]
    BY <1>7 DEF RunNextTask, Fail
  <2>3. left' \in [Threads -> SUBSET Streams]
    BY <1>1, <2>2
  <2>4. ReportDeadlock => RoomLeft'
    <3>1. SUFFICES ASSUME RoomLeft PROVE RoomLeft'
      BY <1>2
    <3>2. InStreams \cap OutStreams = {}
      BY GraphFacts DEF TypeInv
    <3>3. ASSUME NEW u \in Threads, NEW s \in left'[u], s \in InStreams
          PROVE  Feeder[s] = u /\ size[s] < max[s]
      <4>1. s \in left[u]
        BY <1>1, <2>2, <3>2, <3>3
      <4>2. QED
        BY <3>1, <3>3, <4>1 DEF RoomLeft
    <3>4. QED
      BY <2>1, <3>3 DEF RoomLeft, Quiet
  <2>5. QED
    BY <1>1, <2>1, <2>3, <2>4, QuietKeepsBooks
<1>8. CASE t \in Inputs /\ Ask(t)
  <2>1. Quiet /\ hi' = hi /\ toPop' = toPop /\ calls[t] = none
    BY <1>8 DEF Ask, Quiet, At
  <2>2. CASE left' = left
    BY <1>1, <1>3, <2>1, <2>2
  <2>3. CASE left' # left
    <3>1. full[t] = {} /\ left' = [left EXCEPT ![t] = Mirrors(t)]
      BY <1>8, <2>3 DEF Ask
    <3>2. Mirrors(t) \subseteq InStreams /\ \A s \in Mirrors(t) : Feeder[s] = t
      BY DEF Mirrors
    <3>3. left' \in [Threads -> SUBSET Streams]
      BY <1>1, <3>1, <3>2
    <3>4. ReportDeadlock => RoomLeft'
      <4>1. SUFFICES ASSUME ReportDeadlock PROVE RoomLeft'
        OBVIOUS
      <4>2. RoomLeft /\ FeederReports
        BY <4>1 DEF FeedInv
      <4>3. ASSUME NEW s \in Mirrors(t) PROVE size[s] < max[s]
        <5>1. s \in InStreams /\ s \in Streams /\ Feeder[s] = t
          BY <1>1, <3>2
        <5>2. t \in Upstream(s) /\ s \notin full[t]
          BY <3>1, <5>1 DEF Upstream
        <5>3. ~reported[s]
          BY <1>8, <5>1, <5>2 DEF BookInv, Listed
        <5>4. calls[Feeder[s]] # s
          BY <2>1, <5>1, GraphFacts DEF TypeInv
        <5>5. ~IsFull(s)
          BY <4>2, <5>1, <5>3, <5>4 DEF FeederReports
        <5>6. size[s] \in Int /\ max[s] \in Int
          BY <5>1 DEF TypeInv
        <5>7. QED
          BY <5>5, <5>6 DEF IsFull
      <4>4. ASSUME NEW u \in Threads, NEW s \in left'[u], s \in InStreams
            PROVE  Feeder[s] = u /\ size[s] < max[s]
        <5>1. CASE u = t
          <6>1. s \in Mirrors(t)
            BY <1>1, <3>1, <4>4, <5>1
          <6>2. QED
            BY <3>2, <4>3, <5>1, <6>1
        <5>2. CASE u # t
          <6>1. s \in left[u]
            BY <1>1, <3>1, <4>4, <5>2
          <6>2. QED
            BY <4>2, <4>4, <6>1 DEF RoomLeft
        <5>3. QED
          BY <5>1, <5>2
      <4>5. QED
        BY <2>1, <4>4 DEF RoomLeft, Quiet
    <3>5. QED
      BY <1>1, <2>1, <3>3, <3>4, QuietKeepsBooks
  <2>4. QED
    BY <2>2, <2>3
<1>9. QED
  BY <1>4, <1>5, <1>6, <1>7, <1>8

(* Adding a packet and taking one.                                         *)
LEMMA QueueStepsKeepBooks ==
  ASSUME ThrottlingInv, UNCHANGED graph, NEW t \in Threads,
         Feed(t) \/ Emit(t) \/ FillInputSet(t) \/ (t = reader /\ Read)
  PROVE  ThrottlingInv'
<1> USE SameGraph DEF ThrottlingInv
<1> USE DEF streamVars, bookVars, runVars, nodeVars, appVars, hiVars
<1>1. calls[t] = none /\ hi.by # t /\ hi' = hi /\ UNCHANGED <<graph, reported, full, count, failed>>
  BY DEF Feed, Emit, FillInputSet, Read, At
<1>2. /\ left \in [Threads -> SUBSET Streams] /\ toPop \in SUBSET Streams
      /\ \A s \in Streams : size[s] \in Int /\ max[s] \in Int /\ size[s] + 1 \in Int /\ size[s] - 1 \in Int
  BY DEF TypeInv
<1>3. PICK s \in Streams :
        \/ s \in left[t] /\ AddPacket(t, s) /\ left' = [left EXCEPT ![t] = @ \ {s}] /\ toPop' = toPop
        \/ PopPacket(t, s) /\ left' = left /\ toPop' \subseteq toPop
  <2>1. CASE Feed(t) \/ Emit(t)
    <3>1. PICK s \in left[t] : AddPacket(t, s) /\ left' = [left EXCEPT ![t] = @ \ {s}] /\ toPop' = toPop
      BY <2>1 DEF Feed, Emit
    <3>2. s \in Streams
      BY <1>2
    <3>3. QED
      BY <3>1, <3>2
  <2>2. CASE FillInputSet(t)
    <3>1. PICK s \in toPop : PopPacket(t, s) /\ toPop' = toPop \ {s} /\ left' = left
      BY <2>2 DEF FillInputSet
    <3>2. QED
      BY <1>2, <3>1
  <2>3. CASE t = reader /\ Read
    <3>1. PICK s \in OutStreams : PopPacket(t, s) /\ left' = left /\ toPop' = toPop
      BY <2>3 DEF Read
    <3>2. QED
      BY <3>1 DEF Streams
  <2>4. QED
    BY <2>1, <2>2, <2>3
<1>4. PICK n \in Int : Resize(t, s, n, max[s])
  BY <1>2, <1>3 DEF AddPacket, PopPacket
<1>5. left' \in [Threads -> SUBSET Streams] /\ toPop' \in SUBSET Streams
  BY <1>2, <1>3
<1>6. /\ size' \in [Streams -> Int] /\ max' \in [Streams -> Int]
      /\ calls' \in [Threads -> Streams \cup {none}]
      /\ Listed' /\ Truthful' /\ Counted' /\ ~failed'
  BY <1>1, <1>2, <1>4, ResizeKeepsBooks
<1>7. TypeInv'
  BY <1>1, <1>5, <1>6 DEF TypeInv
<1>8. GrowerReported'
  <2>1. \A u \in Threads : u # t => calls'[u] = calls[u]
    BY <1>4 DEF Resize, TypeInv
  <2>2. QED
    BY <1>1, <2>1 DEF BookInv, GrowerReported
<1>9. ASSUME RoomLeft, FeederReports PROVE RoomLeft' /\ FeederReports'
  BY <1>1, <1>3, <1>9, AddKeepsBounds, PopKeepsBounds
<1>10. FeedInv'
  <2>1. SUFFICES ASSUME ReportDeadlock PROVE hi'.at \notin Streams /\ RoomLeft' /\ FeederReports'
    BY DEF FeedInv
  <2>2. hi.at \notin Streams /\ RoomLeft /\ FeederReports
    BY <2>1 DEF FeedInv
  <2>3. QED
    BY <1>1, <1>9, <2>2
<1>11. QED
  BY <1>6, <1>7, <1>8, <1>10 DEF BookInv

(* Every step keeps the inductive invariant.                               *)
LEMMA ThrottlingInvNext ==
  ThrottlingInv /\ [Next /\ UNCHANGED graph]_<<vars, graph>> => ThrottlingInv'
<1> SUFFICES ASSUME ThrottlingInv, [Next /\ UNCHANGED graph]_<<vars, graph>>
             PROVE  ThrottlingInv'
  OBVIOUS
<1>1. CASE UNCHANGED <<vars, graph>>
  <2>1. Quiet /\ left' = left /\ toPop' = toPop /\ hi' = hi
    BY <1>1 DEF vars, streamVars, bookVars, runVars, nodeVars, hiVars, Quiet
  <2>2. ReportDeadlock => RoomLeft'
    BY <2>1, SameRoom DEF ThrottlingInv, FeedInv
  <2>3. left' \in [Threads -> SUBSET Streams] /\ toPop' \in SUBSET Streams /\ hi' \in HiType
    BY <2>1 DEF ThrottlingInv, TypeInv
  <2>4. QED
    BY <2>1, <2>2, <2>3, QuietKeepsBooks
<1>2. CASE Next /\ UNCHANGED graph
  <2> USE <1>2 DEF Threads
  <2>1. CASE \E t \in Threads : UpdateThrottledNodes(t)
    BY <2>1, ReportKeepsBooks
  <2>2. CASE \E t \in Threads : InHandleIdle(t)
    BY <2>2, HandleIdleKeepsBooks
  <2>3. CASE \E t \in Threads : CheckIfBecameReady(t) \/ ScheduleNode(t)
    BY <2>3, OtherStepsKeepBooks
  <2>4. CASE \E t \in Threads : FillInputSet(t)
    BY <2>4, QueueStepsKeepBooks
  <2>5. CASE \E i \in Inputs : \/ Add(i) \/ Ask(i) \/ WaitUntilUnthrottled(i) \/ Propagate(i)
                               \/ Added(i) \/ Close(i) \/ ClosedAllGraphInputStreams(i)
    BY <2>5, OtherStepsKeepBooks
  <2>6. CASE \E i \in Inputs : Feed(i)
    BY <2>6, QueueStepsKeepBooks
  <2>7. CASE \E w \in Workers : RunNextTask(w) \/ EndScheduling(w) \/ FinishTask(w) \/ Fail(w)
    BY <2>7, OtherStepsKeepBooks
  <2>8. CASE \E w \in Workers : Emit(w)
    BY <2>8, QueueStepsKeepBooks
  <2>9. CASE Read
    BY <2>9, QueueStepsKeepBooks
  <2>10. QED
    BY <2>1, <2>2, <2>3, <2>4, <2>5, <2>6, <2>7, <2>8, <2>9 DEF Next, Adds, Works, Reads, Goes
<1>3. QED
  BY <1>1, <1>2

(* The books of full_input_streams_ and of the scheduler agree with the    *)
(* queues, in every graph and however the callbacks of different threads   *)
(* overtake each other; the DCHECKs of UpdateThrottledNodes hold.          *)
THEOREM BooksStayRight == Spec => []BooksAreRight
<1>1. ThrottlingInv => BooksAreRight
  <2>1. SUFFICES ASSUME ThrottlingInv PROVE BooksAreRight
    OBVIOUS
  <2>2. ASSUME NEW s \in Streams, \A t \in Threads : calls[t] # s, NEW i \in Inputs
        PROVE  (s \in full[i]) = (i \in Upstream(s) /\ IsFull(s))
    <3>1. reported[s] = IsFull(s)
      BY <2>1, <2>2 DEF ThrottlingInv, BookInv, Truthful
    <3>2. QED
      BY <2>1, <2>2, <3>1 DEF ThrottlingInv, BookInv, Listed
  <2>3. QED
    BY <2>1, <2>2 DEF ThrottlingInv, BookInv, Counted, BooksAreRight
<1>2. QED
  BY <1>1, ThrottlingInvInit, ThrottlingInvNext, PTL DEF Spec

(* Where queues are not grown, a stream that the application feeds never   *)
(* exceeds its limit, for every limit and every graph: asking and adding   *)
(* are two critical sections, but only the caller itself fills its stream, *)
(* and it has reported that before it asks again.                          *)
THEOREM QueuesStayBounded == Spec => []QueuesBounded
<1>1. ThrottlingInv => QueuesBounded
  BY DEF ThrottlingInv, FeedInv, FeederReports, QueuesBounded
<1>2. QED
  BY <1>1, ThrottlingInvInit, ThrottlingInvNext, PTL DEF Spec

=============================================================================
