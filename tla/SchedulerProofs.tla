--------------------------- MODULE SchedulerProofs ---------------------------
(***************************************************************************)
(* Proofs about module Scheduler, for any threads, queues, sources and     *)
(* layers, and whatever nodes and applications do.                         *)
(***************************************************************************)
EXTENDS Scheduler, FiniteSetTheorems, TLAPS

-----------------------------------------------------------------------------
(* Finite sets and sums over them.                                         *)

(* Sets that differ in one element at most differ in size by that element. *)
LEMMA CardinalityUpdate ==
  ASSUME NEW P, NEW Q, NEW x, IsFiniteSet(P), P \ {x} = Q \ {x}
  PROVE  /\ IsFiniteSet(Q) /\ Cardinality(P) \in Nat /\ Cardinality(Q) \in Nat
         /\ x \in P /\ x \in Q => Cardinality(Q) = Cardinality(P)
         /\ x \in P /\ x \notin Q => Cardinality(Q) = Cardinality(P) - 1
         /\ x \notin P /\ x \in Q => Cardinality(Q) = Cardinality(P) + 1
         /\ x \notin P /\ x \notin Q => Cardinality(Q) = Cardinality(P)
<1> DEFINE R == P \ {x}
<1>1. IsFiniteSet(R) /\ Cardinality(R) = IF x \in P THEN Cardinality(P) - 1 ELSE Cardinality(P)
  BY FS_RemoveElement
<1>2. Cardinality(P) \in Nat
  BY FS_CardinalityType
<1>3. CASE x \in Q
  <2>1. Q = R \cup {x} /\ x \notin R
    BY <1>3
  <2>2. IsFiniteSet(Q) /\ Cardinality(Q) = Cardinality(R) + 1
    BY <1>1, <2>1, FS_AddElement
  <2>3. Cardinality(Q) \in Nat
    BY <2>2, FS_CardinalityType
  <2> HIDE DEF R
  <2>4. QED
    BY <1>1, <1>2, <1>3, <2>2, <2>3
<1>4. CASE x \notin Q
  <2>1. Q = R
    BY <1>4
  <2>2. Cardinality(Q) \in Nat
    BY <1>1, <2>1, FS_CardinalityType
  <2>3. QED
    BY <1>1, <1>2, <1>4, <2>1, <2>2
<1>5. QED
  BY <1>3, <1>4

(* The sum of f[t] over the elements of a finite set, as the size of a set *)
(* that has f[t] elements for each t.                                      *)
Units(T, f) == UNION {{t} \X (1 .. f[t]) : t \in T}
Total(T, f) == Cardinality(Units(T, f))

(* A sum changes by what one of its summands does.                         *)
LEMMA TotalUpdate ==
  ASSUME NEW T, IsFiniteSet(T), NEW f \in [T -> Nat], NEW g \in [T -> Nat], NEW x \in T,
         \A t \in T : t # x => g[t] = f[t]
  PROVE  Total(T, f) \in Nat /\ Total(T, g) = (Total(T, f) - f[x]) + g[x]
<1> DEFINE Rest == UNION {{t} \X (1 .. f[t]) : t \in T \ {x}}
           Summand(h) == {x} \X (1 .. h[x])
<1>1. ASSUME NEW h \in [T -> Nat], \A t \in T : t # x => h[t] = f[t]
      PROVE  Units(T, h) = Rest \cup Summand(h) /\ Rest \cap Summand(h) = {}
  <2>1. Rest = UNION {{t} \X (1 .. h[t]) : t \in T \ {x}}
    BY <1>1
  <2>2. Units(T, h) = Rest \cup Summand(h)
    BY <2>1 DEF Units
  <2>3. Rest \cap Summand(h) = {}
    OBVIOUS
  <2>4. QED
    BY <2>2, <2>3
<1>2. IsFiniteSet(Rest)
  <2> DEFINE Parts == {{t} \X (1 .. f[t]) : t \in T \ {x}}
  <2>1. IsFiniteSet(T \ {x})
    BY FS_RemoveElement
  <2>2. IsFiniteSet(Parts)
    <3> DEFINE F == [t \in T \ {x} |-> {t} \X (1 .. f[t])]
    <3>1. F \in Surjection(T \ {x}, Parts)
      BY DEF Surjection
    <3> HIDE DEF Parts, F
    <3>2. QED
      BY <2>1, <3>1, FS_Surjection, Zenon
  <2>3. \A p \in Parts : IsFiniteSet(p)
    <3>1. ASSUME NEW t \in T PROVE IsFiniteSet({t} \X (1 .. f[t]))
      <4>1. f[t] \in Int /\ 1 \in Int
        OBVIOUS
      <4>2. IsFiniteSet({t}) /\ IsFiniteSet(1 .. f[t])
        BY <4>1, FS_Singleton, FS_Interval, Zenon
      <4>3. QED
        BY <4>2, FS_Product
    <3>2. QED
      BY <3>1
  <2>4. QED
    BY <2>2, <2>3, FS_UNION
<1>3. ASSUME NEW h \in [T -> Nat], \A t \in T : t # x => h[t] = f[t]
      PROVE  Total(T, h) = Cardinality(Rest) + h[x]
  <2>1. h[x] \in Nat /\ IsFiniteSet({x}) /\ Cardinality({x}) = 1
    BY FS_Singleton
  <2>2. IsFiniteSet(1 .. h[x]) /\ Cardinality(1 .. h[x]) = h[x]
    BY <2>1, FS_Interval
  <2>3. IsFiniteSet(Summand(h)) /\ Cardinality(Summand(h)) = h[x]
    <3>1. IsFiniteSet(Summand(h)) /\ Cardinality(Summand(h)) = Cardinality({x}) * Cardinality(1 .. h[x])
      BY <2>1, <2>2, FS_Product
    <3>2. QED
      BY <2>1, <2>2, <3>1
  <2>4. Units(T, h) = Rest \cup Summand(h) /\ Rest \cap Summand(h) = {}
    BY <1>1, <1>3
  <2> HIDE DEF Summand, Rest
  <2>5. Cardinality(Rest \cup Summand(h)) = Cardinality(Rest) + Cardinality(Summand(h)) - Cardinality(Rest \cap Summand(h))
    BY <1>2, <2>3, FS_Union
  <2>6. Cardinality(Rest \cap Summand(h)) = 0 /\ Cardinality(Rest) \in Nat
    BY <1>2, <2>4, FS_EmptySet, FS_CardinalityType
  <2>7. QED
    BY <2>1, <2>3, <2>4, <2>5, <2>6 DEF Total
<1>4. Cardinality(Rest) \in Nat
  BY <1>2, FS_CardinalityType
<1> HIDE DEF Rest
<1>5. Total(T, f) = Cardinality(Rest) + f[x] /\ Total(T, g) = Cardinality(Rest) + g[x]
  BY <1>3
<1>6. QED
  BY <1>4, <1>5

-----------------------------------------------------------------------------

SourceStates == {"unopened", "opening", "ready", "active", "closed"}
Places == {"idle", "open", "work", "run", "ending", "again", "finish", "start", "later",
           "submit", "ready", "added", "stop", "waitIdle", "done"}
HiPlaces == {"none", "loop", "pause", "activate", "submit", "unthrottle", "repeat"}

QueueType == [open : SUBSET Sources, work : Nat, run : SUBSET Sources]
JobType == [at : Places, queue : Queues \cup {"none"}, source : Sources \cup {"none"}]
OweType == [step : {"none", "push", "active", "submit", "idle"}, queue : Queues \cup {"none"},
            kind : {"none", "open", "work", "run"}, source : Sources \cup {"none"}, tasks : Nat]
HiType == [by : Threads \cup {"none"}, at : HiPlaces, left : SUBSET Sources, then : OweType]

TypeInv ==
  /\ graph \in Graphs
  /\ src \in [Sources -> SourceStates] /\ inFlight \subseteq Sources /\ throttled \subseteq Sources
  /\ queue \in [Queues -> QueueType]
  /\ toAdd \in [Queues -> Nat] /\ tasks \in [Queues -> Nat]
  /\ pending \in [Queues -> Int] /\ running \in [Queues -> Int]
  /\ nonIdle \in Int /\ handling \in Nat
  /\ job \in [Threads -> JobType] /\ owes \in [Threads -> OweType] /\ hi \in HiType

Started(s) == s \in Sources /\ src[s] \in {"active", "closed"}

Pushes(t, kind, s) == owes[t].step = "push" /\ owes[t].kind = kind /\ owes[t].source = s
Does(t, places, s) == job[t].at \in places /\ job[t].source = s

(* A source is on its way to be opened once.                               *)
OpenInv ==
  /\ \A q \in Queues : \A s \in queue[q].open : src[s] = "opening" /\ QueueOf[s] = q
  /\ \A t \in Threads, s \in Sources : Pushes(t, "open", s) =>
       /\ src[s] = "opening" /\ owes[t].queue = QueueOf[s]
       /\ s \notin queue[QueueOf[s]].open
       /\ \A u \in Threads : Pushes(u, "open", s) => u = t
  /\ \A t \in Workers, s \in Sources : Does(t, {"open"}, s) =>
       /\ src[s] = "opening" /\ s \notin queue[QueueOf[s]].open
       /\ \A u \in Threads : ~Pushes(u, "open", s)
       /\ \A u \in Workers : Does(u, {"open"}, s) => u = t

(* Only sources whose turn it is are run, and one at a time.               *)
RunInv ==
  /\ \A q \in Queues : \A s \in queue[q].run : Started(s) /\ QueueOf[s] = q /\ s \in inFlight
  /\ \A t \in Threads, s \in Sources : Pushes(t, "run", s) => Started(s) /\ owes[t].queue = QueueOf[s]
  /\ \A t \in Workers, s \in Sources : Does(t, {"run", "ending", "again"}, s) => Started(s)
  /\ \A t \in Workers, s \in Sources : Does(t, {"run", "ending"}, s) =>
       /\ s \in inFlight /\ s \notin queue[QueueOf[s]].run
       /\ \A u \in Workers : Does(u, {"run", "ending"}, s) => u = t
  /\ hi.at \in {"pause", "activate"} => \A s \in hi.left : Started(s)

(* The sources and queues that items and jobs name exist.                  *)
NamesInv ==
  /\ \A t \in Threads : owes[t].step = "push" =>
       /\ owes[t].queue \in Queues /\ owes[t].kind # "none"
       /\ owes[t].kind \in {"open", "run"} => owes[t].source \in Sources
  /\ \A t \in Workers : job[t].at # "idle" =>
       job[t].queue \in Queues
       /\ (job[t].at \in {"open", "run", "ending", "again"} => job[t].source \in Sources)

HandlingInv ==
  /\ handling = 0 => hi = NotHandling
  /\ hi.then.step \in {"none", "submit"}
  /\ hi.at = "loop" => \A t \in Threads : hi.by = t => owes[t] = OwesNothing
  /\ \A t \in Threads : owes[t].step \in {"push", "idle"} => owes[t].tasks = 0

LayersInv == LayersInTurn /\ OpenInv /\ RunInv /\ NamesInv /\ HandlingInv

-----------------------------------------------------------------------------
(* The run has been cleaned up.                                            *)
Done == \E t \in Apps : job[t].at = "done"

AppInv ==
  /\ \A t \in Apps : job[t].at = "start" => state = "not_started"
  /\ Done => \A t \in Apps : job[t].at = "done"

(* The tasks for queue q that a thread has taken from num_tasks_to_add_    *)
(* and not yet given to the executor; the workers that run an item of q.   *)
InHand(o, q) == IF o.queue = q THEN o.tasks ELSE 0
InHands(q) == Total(Threads, [t \in Threads |-> InHand(owes[t], q)]) + InHand(hi.then, q)
WorkOn(q) == {t \in Workers : job[t].at # "idle" /\ job[t].queue = q}

(* Every item in a queue has its task, which waits in the queue, is on its *)
(* way or is with the executor; and the pending tasks are those on their   *)
(* way, with the executor or being run.                                    *)
Ledger ==
  \A q \in Queues :
    /\ Size(queue[q]) = toAdd[q] + tasks[q] + InHands(q)
    /\ pending[q] = tasks[q] + InHands(q) + Cardinality(WorkOn(q))

SchedulerInv == TypeInv /\ LayersInv /\ AppInv /\ (~Done => Ledger /\ CountIsRight)

-----------------------------------------------------------------------------
(* What the assumption says of the graph that runs.                        *)
LEMMA GraphFacts ==
  ASSUME graph \in Graphs
  PROVE  /\ IsFiniteSet(Queues) /\ IsFiniteSet(Sources) /\ IsFiniteSet(Threads)
         /\ IsFiniteSet(Workers) /\ Workers \cap Apps = {}
         /\ Layer \in [Sources -> Nat] /\ QueueOf \in [Sources -> Queues]
         /\ Openers \in [Queues -> Nat]
<1>1. /\ IsFiniteSet(Queues) /\ Sources \subseteq AllSources /\ IsFiniteSet(AllSources)
      /\ IsFiniteSet(Workers) /\ IsFiniteSet(Apps) /\ Workers \cap Apps = {}
  BY SchedulerAssumption DEF Queues, Sources
<1>2. IsFiniteSet(Sources)
  BY <1>1, FS_Subset
<1>3. IsFiniteSet(Threads)
  BY <1>1, FS_Union DEF Threads
<1>4. Layer \in [Sources -> Nat] /\ QueueOf \in [Sources -> Queues] /\ Openers \in [Queues -> Nat]
  BY SchedulerAssumption DEF Layer, QueueOf, Openers, Sources, Queues
<1>5. QED
  BY <1>1, <1>2, <1>3, <1>4

(* The graph does not change while it runs, nor what is read off it.       *)
LEMMA SameGraph ==
  ASSUME UNCHANGED graph
  PROVE  /\ Queues' = Queues /\ Sources' = Sources /\ Layer' = Layer /\ QueueOf' = QueueOf
         /\ Late' = Late /\ Openers' = Openers
         /\ QueueType' = QueueType /\ JobType' = JobType /\ OweType' = OweType /\ HiType' = HiType
BY DEF Queues, Sources, Layer, QueueOf, Late, Openers, QueueType, JobType, OweType, HiType

(* Nothing owed, and nobody in HandleIdle.                                 *)
LEMMA Nothing ==
  /\ OwesNothing \in OweType /\ NotHandling \in HiType /\ Idling \in JobType
  /\ OwesNothing.step = "none" /\ OwesNothing.tasks = 0
  /\ NotHandling.at = "none" /\ NotHandling.then = OwesNothing /\ Idling.at = "idle"
BY DEF OwesNothing, NotHandling, Idling, OweType, HiType, JobType, Places, HiPlaces

JobMoved(t, where) ==
  /\ job' \in [Threads -> JobType]
  /\ job'[t].at = where /\ job'[t].queue = job[t].queue /\ job'[t].source = job[t].source
  /\ \A u \in Threads : u # t => job'[u] = job[u]

(* What Goto does.                                                         *)
LEMMA GotoMoves ==
  ASSUME TypeInv, NEW t \in Threads, NEW where \in Places, Goto(t, where)
  PROVE  JobMoved(t, where)
<1> DEFINE new == [job[t] EXCEPT !.at = where]
<1>1. job \in [Threads -> JobType] /\ job[t] \in JobType
  BY DEF TypeInv
<1>2. new \in JobType /\ new.at = where /\ new.queue = job[t].queue /\ new.source = job[t].source
  BY <1>1 DEF JobType
<1>3. job' = [job EXCEPT ![t] = new]
  BY DEF Goto
<1> HIDE DEF new
<1>4. QED
  BY <1>1, <1>2, <1>3 DEF JobMoved

OwesChanged(t, new) ==
  /\ owes' \in [Threads -> OweType]
  /\ owes'[t] = new
  /\ \A u \in Threads : u # t => owes'[u] = owes[u]

ToPush(q, kind, s) == [step |-> "push", queue |-> q, kind |-> kind, source |-> s, tasks |-> 0]

(* The parts of an item that is being added.                               *)
LEMMA ToPushFields ==
  ASSUME NEW q, NEW kind, NEW s
  PROVE  /\ ToPush(q, kind, s).step = "push" /\ ToPush(q, kind, s).queue = q
         /\ ToPush(q, kind, s).kind = kind /\ ToPush(q, kind, s).source = s
         /\ ToPush(q, kind, s).tasks = 0
BY DEF ToPush

(* What AddItem does.                                                      *)
LEMMA AddItemOwes ==
  ASSUME TypeInv, NEW t \in Threads, NEW q \in Queues, NEW kind \in {"open", "work", "run"},
         NEW s \in Sources \cup {"none"}, AddItem(t, q, kind, s)
  PROVE  /\ OwesChanged(t, owes[t]) \/ OwesChanged(t, ToPush(q, kind, s))
         /\ ~hasError => OwesChanged(t, ToPush(q, kind, s))
<1>1. owes \in [Threads -> OweType]
  BY DEF TypeInv
<1>2. ToPush(q, kind, s) \in OweType
  BY DEF ToPush, OweType
<1>3. owes' = IF hasError THEN owes ELSE [owes EXCEPT ![t] = ToPush(q, kind, s)]
  BY DEF AddItem, ToPush
<1>4. QED
  BY <1>1, <1>2, <1>3 DEF OwesChanged

(* What a call of HandleIdle does: it is entered, or left a mark in.       *)
LEMMA CallHandleIdleMoves ==
  ASSUME TypeInv, HandlingInv, NEW t \in Threads, NEW next \in OweType,
         next.step \in {"none", "submit"}, Unlocked, CallHandleIdle(t, next)
  PROVE  /\ handling' \in Nat /\ hi' \in HiType /\ HandlingInv'
         /\ \/ OwesChanged(t, next) /\ hi' = hi
            \/ /\ OwesChanged(t, OwesNothing) /\ hi = NotHandling
               /\ hi'.at = "loop" /\ hi'.by = t /\ hi'.then = next
<1> USE Nothing
<1>1. handling \in Nat /\ handling' = handling + 1 /\ owes \in [Threads -> OweType] /\ hi \in HiType
  BY DEF TypeInv, CallHandleIdle
<1>2. handling' \in Nat /\ handling' # 0
  BY <1>1
<1>3. CASE handling = 0
  <2>1. hi' = [by |-> t, at |-> "loop", left |-> {}, then |-> next]
        /\ owes' = [owes EXCEPT ![t] = OwesNothing]
    BY <1>3 DEF CallHandleIdle
  <2>2. hi' \in HiType /\ hi'.at = "loop" /\ hi'.by = t /\ hi'.then = next
    BY <2>1 DEF HiType, HiPlaces
  <2>3. OwesChanged(t, OwesNothing) /\ hi = NotHandling
    BY <1>1, <1>3, <2>1 DEF OwesChanged, HandlingInv
  <2>4. HandlingInv'
    BY <1>2, <2>2, <2>3 DEF HandlingInv, OwesChanged
  <2>5. QED
    BY <1>2, <2>2, <2>3, <2>4
<1>4. CASE handling # 0
  <2>1. hi' = hi /\ owes' = [owes EXCEPT ![t] = next]
    BY <1>4 DEF CallHandleIdle
  <2>2. OwesChanged(t, next)
    BY <1>1, <2>1 DEF OwesChanged
  <2>3. HandlingInv'
    BY <1>2, <2>1 DEF HandlingInv, Unlocked
  <2>4. QED
    BY <1>1, <1>2, <2>1, <2>2, <2>3
<1>5. QED
  BY <1>3, <1>4

(* What the return from HandleIdle does: the caller goes on.               *)
LEMMA ReturnMoves ==
  ASSUME TypeInv, HandlingInv, NEW t \in Threads, hi.by = t, ReturnFromHandleIdle
  PROVE  handling' \in Nat /\ hi' = NotHandling /\ HandlingInv' /\ OwesChanged(t, hi.then)
<1> USE Nothing
<1>1. owes \in [Threads -> OweType] /\ hi.then \in OweType
  BY DEF TypeInv, HiType
<1>2. handling' = 0 /\ hi' = NotHandling /\ owes' = [owes EXCEPT ![t] = hi.then]
  BY DEF ReturnFromHandleIdle
<1>3. OwesChanged(t, hi.then)
  BY <1>1, <1>2 DEF OwesChanged
<1>4. HandlingInv'
  BY <1>2 DEF HandlingInv
<1>5. QED
  BY <1>2, <1>3, <1>4

-----------------------------------------------------------------------------
(* Most steps of a thread t leave the sources and the items of the queues  *)
(* alone, or take some away.                                               *)
NewOwes(t) ==
  \/ owes'[t] = owes[t] \/ owes'[t].step # "push"
  \/ \E q \in Queues : owes'[t] = ToPush(q, "work", "none")
  \/ \E s \in Sources : Started(s) /\ owes'[t] = ToPush(QueueOf[s], "run", s)

NewJob(t) ==
  \/ job'[t] = job[t] \/ job'[t] = Idling
  \/ /\ job[t].at # "idle" /\ job'[t].queue = job[t].queue /\ job'[t].source = job[t].source
     /\ \/ job'[t].at = "finish"
        \/ job[t].at = "run" /\ job'[t].at = "ending"
        \/ job[t].at = "ending" /\ job'[t].at = "again"

Keeps(t) ==
  /\ UNCHANGED graph
  /\ \A s \in Sources : src'[s] = src[s] \/ (Started(s) /\ src'[s] = "closed")
  /\ \A q \in Queues : queue'[q].open \subseteq queue[q].open /\ queue'[q].run \subseteq queue[q].run
  /\ \/ inFlight' = inFlight
     \/ t \in Workers /\ job[t].at = "ending" /\ job'[t].at = "again"
        /\ inFlight' = inFlight \ {job[t].source}
  /\ NewOwes(t) /\ \A u \in Threads : u # t => owes'[u] = owes[u]
  /\ t \in Workers => NewJob(t)
  /\ \A u \in Workers : u # t => job'[u] = job[u]
  /\ hi'.at \in {"pause", "activate"} => \A s \in hi'.left : Started(s)

(* Such a step neither starts a source nor sends one anywhere.             *)
LEMMA KeepsLayers ==
  ASSUME TypeInv, LayersInv, NEW t \in Threads, Keeps(t)
  PROVE  LayersInTurn' /\ OpenInv' /\ RunInv' /\ NamesInv'
<1> USE SameGraph DEF Keeps
<1>1. QueueOf \in [Sources -> Queues] /\ Workers \subseteq Threads
  BY GraphFacts DEF TypeInv, Threads
<1>2. \A s \in Sources : /\ src'[s] = "active" => src[s] = "active"
                         /\ src[s] = "closed" => src'[s] = "closed"
                         /\ src[s] = "opening" => src'[s] = "opening"
  BY DEF Started
<1>3. \A s \in Sources : Started(s) => Started(s)'
  BY DEF Started
<1>4. LayersInTurn'
  BY <1>2 DEF LayersInv, LayersInTurn
<1>5. ASSUME NEW u \in Threads, NEW s \in Sources, Pushes(u, "open", s)'
      PROVE  Pushes(u, "open", s) /\ owes'[u].queue = owes[u].queue
  BY <1>5, ToPushFields DEF NewOwes, Pushes
<1>6. ASSUME NEW u \in Threads, NEW s \in Sources, Pushes(u, "run", s)'
      PROVE  Started(s) /\ owes'[u].queue = QueueOf[s]
  <2>1. CASE owes'[u] = owes[u]
    BY <1>6, <2>1 DEF LayersInv, RunInv, Pushes
  <2>2. CASE owes'[u] # owes[u]
    <3>1. u = t
      BY <2>2
    <3>2. PICK r \in Sources : Started(r) /\ owes'[t] = ToPush(QueueOf[r], "run", r)
      BY <1>6, <2>2, <3>1, ToPushFields DEF NewOwes, Pushes
    <3>3. r = s /\ owes'[t].queue = QueueOf[r]
      BY <1>6, <3>1, <3>2, ToPushFields DEF Pushes
    <3>4. QED
      BY <3>1, <3>2, <3>3
  <2>3. QED
    BY <2>1, <2>2
<1>7. ASSUME NEW u \in Workers
      PROVE  /\ job'[u].at = "open" => job'[u] = job[u]
             /\ job'[u].at \in {"run", "ending"} =>
                  job[u].at \in {"run", "ending"} /\ job'[u].source = job[u].source
             /\ job'[u].at = "again" => 
                  job[u].at \in {"ending", "again"} /\ job'[u].source = job[u].source
             /\ job'[u].at # "idle" => job[u].at # "idle" /\ job'[u].queue = job[u].queue
             /\ job'[u].at = "run" => job[u].at = "run"
  <2>1. CASE u # t
    BY <2>1
  <2>2. CASE u = t
    <3>1. NewJob(u)
      BY <2>2
    <3>2. CASE job'[u] = job[u]
      BY <3>2
    <3>3. CASE job'[u] = Idling
      BY <3>3, Nothing
    <3>4. QED
      BY <3>1, <3>2, <3>3 DEF NewJob
  <2>3. QED
    BY <2>1, <2>2
<1>8. OpenInv'
  <2>1. \A q \in Queues : \A s \in queue'[q].open : src'[s] = "opening" /\ QueueOf[s] = q
    BY <1>2 DEF LayersInv, OpenInv, TypeInv, QueueType
  <2>2. ASSUME NEW u \in Threads, NEW s \in Sources, Pushes(u, "open", s)'
        PROVE  /\ src'[s] = "opening" /\ owes'[u].queue = QueueOf[s]
               /\ s \notin queue'[QueueOf[s]].open
               /\ \A v \in Threads : Pushes(v, "open", s)' => v = u
    BY <1>1, <1>2, <1>5, <2>2 DEF LayersInv, OpenInv
  <2>3. ASSUME NEW u \in Workers, NEW s \in Sources, Does(u, {"open"}, s)'
        PROVE  /\ src'[s] = "opening" /\ s \notin queue'[QueueOf[s]].open
               /\ \A v \in Threads : ~Pushes(v, "open", s)'
               /\ \A v \in Workers : Does(v, {"open"}, s)' => v = u
    <3>1. \A v \in Workers : Does(v, {"open"}, s)' => Does(v, {"open"}, s)
      BY <1>7 DEF Does
    <3>2. /\ src[s] = "opening" /\ s \notin queue[QueueOf[s]].open
          /\ \A v \in Threads : ~Pushes(v, "open", s)
          /\ \A v \in Workers : Does(v, {"open"}, s) => v = u
      BY <2>3, <3>1 DEF LayersInv, OpenInv
    <3>3. QED
      BY <1>1, <1>2, <1>5, <3>1, <3>2
  <2>4. QED
    BY <2>1, <2>2, <2>3 DEF OpenInv
<1>9. ASSUME NEW s \in Sources, s \in inFlight, s \notin inFlight'
      PROVE  /\ t \in Workers /\ Does(t, {"run", "ending"}, s) /\ job'[t].at = "again"
             /\ \A q \in Queues : s \notin queue[q].run
  <2>1. t \in Workers /\ job[t].at = "ending" /\ job'[t].at = "again" /\ s = job[t].source
    BY <1>9
  <2>2. Does(t, {"run", "ending"}, s)
    BY <2>1 DEF Does
  <2>3. s \notin queue[QueueOf[s]].run
    BY <2>1, <2>2 DEF LayersInv, RunInv
  <2>4. QED
    BY <2>1, <2>2, <2>3 DEF LayersInv, RunInv
<1>10. RunInv'
  <2>1. ASSUME NEW q \in Queues, NEW s \in queue'[q].run
        PROVE  Started(s)' /\ QueueOf[s] = q /\ s \in inFlight'
    <3>1. s \in queue[q].run /\ Started(s) /\ QueueOf[s] = q /\ s \in inFlight /\ s \in Sources
      BY DEF LayersInv, RunInv, Started
    <3>2. QED
      BY <1>3, <1>9, <3>1
  <2>2. ASSUME NEW u \in Workers, NEW s \in Sources, Does(u, {"run", "ending", "again"}, s)'
        PROVE  Started(s)'
    <3>1. Does(u, {"run", "ending", "again"}, s)
      BY <1>7, <2>2 DEF Does
    <3>2. QED
      BY <1>3, <3>1 DEF LayersInv, RunInv
  <2>3. ASSUME NEW u \in Workers, NEW s \in Sources, Does(u, {"run", "ending"}, s)'
        PROVE  /\ s \in inFlight' /\ s \notin queue'[QueueOf[s]].run
               /\ \A v \in Workers : Does(v, {"run", "ending"}, s)' => v = u
    <3>1. \A v \in Workers : Does(v, {"run", "ending"}, s)' => Does(v, {"run", "ending"}, s)
      BY <1>7 DEF Does
    <3>2. /\ s \in inFlight /\ s \notin queue[QueueOf[s]].run
          /\ \A v \in Workers : Does(v, {"run", "ending"}, s) => v = u
      BY <2>3, <3>1 DEF LayersInv, RunInv
    <3>3. s \in inFlight'
      <4>1. SUFFICES ASSUME s \notin inFlight' PROVE FALSE
        OBVIOUS
      <4>2. t \in Workers /\ Does(t, {"run", "ending"}, s) /\ job'[t].at = "again"
        BY <1>9, <3>2, <4>1
      <4>3. t = u
        BY <3>2, <4>2
      <4>4. QED
        BY <2>3, <4>2, <4>3 DEF Does
    <3>4. QED
      BY <1>1, <3>1, <3>2, <3>3
  <2>4. hi'.at \in {"pause", "activate"} => \A s \in hi'.left : Started(s)'
    BY <1>3 DEF Started
  <2>5. \A u \in Threads, s \in Sources : Pushes(u, "run", s)' => Started(s)' /\ owes'[u].queue = QueueOf[s]
    BY <1>3, <1>6
  <2>6. QED
    BY <2>1, <2>2, <2>3, <2>4, <2>5 DEF RunInv
<1>11. NamesInv'
  <2>1. ASSUME NEW u \in Threads, owes'[u].step = "push"
        PROVE  /\ owes'[u].queue \in Queues /\ owes'[u].kind # "none"
               /\ owes'[u].kind \in {"open", "run"} => owes'[u].source \in Sources
    <3>1. CASE owes'[u] = owes[u]
      BY <2>1, <3>1 DEF LayersInv, NamesInv
    <3>2. CASE owes'[u] # owes[u]
      <4>1. u = t
        BY <3>2
      <4>2. CASE \E q \in Queues : owes'[t] = ToPush(q, "work", "none")
        BY <4>1, <4>2 DEF ToPush
      <4>3. CASE \E s \in Sources : Started(s) /\ owes'[t] = ToPush(QueueOf[s], "run", s)
        BY <1>1, <4>1, <4>3 DEF ToPush
      <4>4. QED
        BY <2>1, <3>2, <4>1, <4>2, <4>3 DEF NewOwes
    <3>3. QED
      BY <3>1, <3>2
  <2>2. ASSUME NEW u \in Workers, job'[u].at # "idle"
        PROVE  job'[u].queue \in Queues
               /\ (job'[u].at \in {"open", "run", "ending", "again"} => job'[u].source \in Sources)
    BY <1>7, <2>2 DEF LayersInv, NamesInv
  <2>3. QED
    BY <2>1, <2>2 DEF NamesInv
<1>12. QED
  BY <1>4, <1>8, <1>10, <1>11

-----------------------------------------------------------------------------
(* The item that is taken first, and what it leaves in the queue.          *)
Takes(c, i) ==
  \/ /\ i.at = "open" /\ i.source \in c.open /\ i.rest.open = c.open \ {i.source}
     /\ i.rest.work = c.work /\ i.rest.run = c.run
  \/ /\ i.at = "work" /\ i.source = "none" /\ c.work > 0 /\ i.rest.work = c.work - 1
     /\ i.rest.open = c.open /\ i.rest.run = c.run
  \/ /\ i.at = "run" /\ i.source \in c.run /\ i.rest.run = c.run \ {i.source}
     /\ i.rest.open = c.open /\ i.rest.work = c.work

(* First chooses one item of the queue.                                    *)
LEMMA FirstTakes ==
  ASSUME NEW c \in QueueType, NEW i \in First(c)
  PROVE  Takes(c, i) /\ i.rest \in QueueType
<1>1. CASE c.open # {}
  <2>1. PICK s \in c.open : i = [at |-> "open", source |-> s, rest |-> [c EXCEPT !.open = @ \ {s}]]
    BY <1>1 DEF First
  <2>2. PICK o \in SUBSET Sources : o = c.open \ {s}
    BY DEF QueueType
  <2>3. i = [at |-> "open", source |-> s, rest |-> [c EXCEPT !.open = o]]
    BY <2>1, <2>2
  <2>4. i.at = "open" /\ i.source = s /\ i.rest = [c EXCEPT !.open = o]
    BY <2>3
  <2>5. i.rest \in QueueType /\ i.rest.open = o /\ i.rest.work = c.work /\ i.rest.run = c.run
    BY <2>4 DEF QueueType
  <2>6. QED
    BY <2>2, <2>4, <2>5 DEF Takes
<1>2. CASE c.open = {} /\ c.work > 0
  <2>1. i = [at |-> "work", source |-> "none", rest |-> [c EXCEPT !.work = @ - 1]]
    BY <1>2 DEF First
  <2>2. PICK n \in Nat : n = c.work - 1
    BY <1>2 DEF QueueType
  <2>3. i = [at |-> "work", source |-> "none", rest |-> [c EXCEPT !.work = n]]
    BY <2>1, <2>2
  <2>4. i.at = "work" /\ i.source = "none" /\ i.rest = [c EXCEPT !.work = n]
    BY <2>3
  <2>5. i.rest \in QueueType /\ i.rest.open = c.open /\ i.rest.work = n /\ i.rest.run = c.run
    BY <2>4 DEF QueueType
  <2>6. QED
    BY <1>2, <2>2, <2>4, <2>5 DEF Takes
<1>3. CASE c.open = {} /\ ~(c.work > 0)
  <2>1. PICK s \in c.run : i = [at |-> "run", source |-> s, rest |-> [c EXCEPT !.run = @ \ {s}]]
    BY <1>3 DEF First
  <2>2. PICK o \in SUBSET Sources : o = c.run \ {s}
    BY DEF QueueType
  <2>3. i = [at |-> "run", source |-> s, rest |-> [c EXCEPT !.run = o]]
    BY <2>1, <2>2
  <2>4. i.at = "run" /\ i.source = s /\ i.rest = [c EXCEPT !.run = o]
    BY <2>3
  <2>5. i.rest \in QueueType /\ i.rest.open = c.open /\ i.rest.work = c.work /\ i.rest.run = o
    BY <2>4 DEF QueueType
  <2>6. QED
    BY <2>2, <2>4, <2>5 DEF Takes
<1>4. QED
  BY <1>1, <1>2, <1>3

TakesTask(t, q, i) ==
  /\ Takes(queue[q], i) /\ i.rest \in QueueType
  /\ queue' \in [Queues -> QueueType] /\ queue'[q] = i.rest
  /\ \A p \in Queues : p # q => queue'[p] = queue[p]
  /\ job' \in [Threads -> JobType]
  /\ job'[t] = [at |-> i.at, queue |-> q, source |-> i.source]
  /\ job'[t].at = i.at /\ job'[t].queue = q /\ job'[t].source = i.source
  /\ \A u \in Threads : u # t => job'[u] = job[u]

(* What RunNextTask does to the queue and to the worker.                   *)
LEMMA RunNextTaskMoves ==
  ASSUME TypeInv, NEW t \in Threads, RunNextTask(t)
  PROVE  \E q \in Queues :
           /\ job[t].at = "idle" /\ tasks[q] > 0 /\ tasks' = [tasks EXCEPT ![q] = @ - 1]
           /\ failed' = (failed \/ ~(Size(queue[q]) > 0))
           /\ IF Size(queue[q]) = 0 THEN UNCHANGED <<queue, job>>
                                    ELSE \E i \in First(queue[q]) : TakesTask(t, q, i)
<1>1. PICK q \in Queues :
        /\ At(t, "idle") /\ tasks[q] > 0
        /\ tasks' = [tasks EXCEPT ![q] = @ - 1]
        /\ Check(Size(queue[q]) > 0)
        /\ IF Size(queue[q]) = 0 THEN UNCHANGED <<queue, job>>
           ELSE \E i \in First(queue[q]) :
                  /\ queue' = [queue EXCEPT ![q] = i.rest]
                  /\ job' = [job EXCEPT ![t] = [at |-> i.at, queue |-> q, source |-> i.source]]
  BY DEF RunNextTask
<1>2. ASSUME NEW i \in First(queue[q]), queue' = [queue EXCEPT ![q] = i.rest],
             job' = [job EXCEPT ![t] = [at |-> i.at, queue |-> q, source |-> i.source]]
      PROVE  TakesTask(t, q, i)
  <2>1. queue \in [Queues -> QueueType] /\ queue[q] \in QueueType /\ job \in [Threads -> JobType]
    BY DEF TypeInv
  <2>2. Takes(queue[q], i) /\ i.rest \in QueueType
    BY <2>1, FirstTakes
  <2>3. queue[q].open \subseteq Sources /\ queue[q].run \subseteq Sources
    BY <2>1 DEF QueueType
  <2>4. [at |-> i.at, queue |-> q, source |-> i.source] \in JobType
    BY <2>2, <2>3 DEF JobType, Places, Takes
  <2>5. PICK j \in JobType : /\ j = [at |-> i.at, queue |-> q, source |-> i.source]
                             /\ j.at = i.at /\ j.queue = q /\ j.source = i.source
    BY <2>4
  <2>6. job' = [job EXCEPT ![t] = j]
    BY <1>2, <2>5
  <2>7. /\ job' \in [Threads -> JobType] /\ job'[t] = j
        /\ \A u \in Threads : u # t => job'[u] = job[u]
    BY <2>1, <2>6
  <2>8. /\ queue' \in [Queues -> QueueType] /\ queue'[q] = i.rest
        /\ \A p \in Queues : p # q => queue'[p] = queue[p]
    BY <1>2, <2>1, <2>2
  <2>9. QED
    BY <2>2, <2>5, <2>7, <2>8 DEF TakesTask
<1>3. QED
  BY <1>1, <1>2 DEF At, Check

Submitted(q) == IF running[q] > 0 THEN toAdd[q] + 1 ELSE 0
Dropped(t) == owes[t].kind = "run" /\ owes[t].source \in inFlight

(* What PushItem does to the queue and to the thread.                      *)
LEMMA PushItemMoves ==
  ASSUME TypeInv, NamesInv, NEW t \in Threads, PushItem(t), ~Dropped(t)
  PROVE  LET q == owes[t].queue
             c == queue[q]
             kind == owes[t].kind
             s == owes[t].source
         IN  /\ owes[t].step = "push" /\ q \in Queues /\ Submitted(q) \in Nat
             /\ queue' \in [Queues -> QueueType]
             /\ queue'[q].open = (IF kind = "open" THEN c.open \cup {s} ELSE c.open)
             /\ queue'[q].work = (IF kind = "work" THEN c.work + 1 ELSE c.work)
             /\ queue'[q].run = (IF kind = "run" THEN c.run \cup {s} ELSE c.run)
             /\ \A p \in Queues : p # q => queue'[p] = queue[p]
             /\ inFlight' = (IF kind = "run" THEN inFlight \cup {s} ELSE inFlight)
             /\ toAdd' = [toAdd EXCEPT ![q] = IF Submitted(q) > 0 THEN 0 ELSE @ + 1]
             /\ pending' = [pending EXCEPT ![q] = @ + Submitted(q)]
             /\ \E new \in OweType :
                  /\ OwesChanged(t, new) /\ new.queue = q /\ new.tasks = Submitted(q)
                  /\ new.step = (IF IsIdle(q) THEN "active" ELSE "submit")
<1> DEFINE q == owes[t].queue
           c == queue[q]
           kind == owes[t].kind
           s == owes[t].source
           step == IF IsIdle(q) THEN "active" ELSE "submit"
           new == [[owes[t] EXCEPT !.step = step] EXCEPT !.tasks = Submitted(q)]
<1>1. owes[t].step = "push" /\ owes[t] \in OweType /\ owes \in [Threads -> OweType]
  BY DEF TypeInv, PushItem
<1>2. q \in Queues /\ (kind \in {"open", "run"} => s \in Sources)
  BY <1>1 DEF NamesInv
<1>3. Submitted(q) \in Nat
  BY <1>2 DEF TypeInv, Submitted
<1>4. c \in QueueType /\ queue \in [Queues -> QueueType]
  BY <1>2 DEF TypeInv
<1>5. /\ inFlight' = (IF kind = "run" THEN inFlight \cup {s} ELSE inFlight)
      /\ queue' = [queue EXCEPT ![q] = Pushed(@, kind, s)]
      /\ toAdd' = [toAdd EXCEPT ![q] = IF Submitted(q) > 0 THEN 0 ELSE @ + 1]
      /\ pending' = [pending EXCEPT ![q] = @ + Submitted(q)]
  BY DEF PushItem, Dropped, Submitted
<1>6. owes' = [owes EXCEPT ![t] = new]
  <2>1. owes' = [owes EXCEPT ![t].step = step, ![t].tasks = Submitted(q)]
    BY DEF PushItem, Dropped, Submitted
  <2>2. QED
    BY <1>1, <2>1
<1>7. new \in OweType /\ new.queue = q /\ new.tasks = Submitted(q) /\ new.step = step
  <2> HIDE DEF q
  <2>1. step \in {"active", "submit"}
    OBVIOUS
  <2> HIDE DEF step
  <2>2. QED
    BY <1>1, <1>3, <2>1 DEF OweType, q
<1> HIDE DEF new
<1>8. OwesChanged(t, new)
  BY <1>1, <1>6, <1>7 DEF OwesChanged
<1>9. /\ Pushed(c, kind, s) \in QueueType
      /\ Pushed(c, kind, s).open = (IF kind = "open" THEN c.open \cup {s} ELSE c.open)
      /\ Pushed(c, kind, s).work = (IF kind = "work" THEN c.work + 1 ELSE c.work)
      /\ Pushed(c, kind, s).run = (IF kind = "run" THEN c.run \cup {s} ELSE c.run)
  <2>1. c.open \in SUBSET Sources /\ c.work \in Nat /\ c.run \in SUBSET Sources
    BY <1>4 DEF QueueType
  <2> HIDE DEF c, kind, s
  <2>2. QED
    BY <1>2, <2>1 DEF Pushed, QueueType
<1>10. /\ queue' \in [Queues -> QueueType] /\ queue'[q] = Pushed(c, kind, s)
       /\ \A p \in Queues : p # q => queue'[p] = queue[p]
  <2> DEFINE d == Pushed(c, kind, s)
  <2>1. queue' = [queue EXCEPT ![q] = d]
    BY <1>4, <1>5
  <2>2. d \in QueueType
    BY <1>9
  <2> HIDE DEF d, q
  <2>3. /\ queue' \in [Queues -> QueueType] /\ queue'[q] = d
        /\ \A p \in Queues : p # q => queue'[p] = queue[p]
    BY <1>2, <1>4, <2>1, <2>2
  <2>4. QED
    BY <2>3 DEF d
<1> HIDE DEF q, c, kind, s, step
<1>11. QED
  BY <1>1, <1>2, <1>3, <1>5, <1>7, <1>8, <1>9, <1>10 DEF q, c, kind, s, step

-----------------------------------------------------------------------------
(* An item that is pushed was on its way before.                           *)
LEMMA PushKeepsLayers ==
  ASSUME TypeInv, LayersInv, NEW t \in Threads, PushItem(t), UNCHANGED graph
  PROVE  LayersInTurn' /\ OpenInv' /\ RunInv' /\ NamesInv'
<1> USE SameGraph
<1>1. /\ src' = src /\ job' = job /\ hi' = hi /\ QueueOf \in [Sources -> Queues]
      /\ owes[t].step = "push"
  BY GraphFacts DEF PushItem, TypeInv, idleVars
<1>2. CASE Dropped(t)
  <2>1. owes' = [owes EXCEPT ![t] = OwesNothing] /\ queue' = queue /\ inFlight' = inFlight
    BY <1>2 DEF PushItem, Dropped, queueVars
  <2>2. Keeps(t)
    BY <1>1, <2>1, Nothing DEF Keeps, NewOwes, NewJob, TypeInv, LayersInv, RunInv
  <2>3. QED
    BY <2>2, KeepsLayers
<1>3. CASE ~Dropped(t)
  <2> DEFINE q == owes[t].queue
             c == queue[q]
             kind == owes[t].kind
             r == owes[t].source
  <2>1. /\ q \in Queues
        /\ queue' \in [Queues -> QueueType]
        /\ queue'[q].open = (IF kind = "open" THEN c.open \cup {r} ELSE c.open)
        /\ queue'[q].run = (IF kind = "run" THEN c.run \cup {r} ELSE c.run)
        /\ \A p \in Queues : p # q => queue'[p] = queue[p]
        /\ inFlight' = (IF kind = "run" THEN inFlight \cup {r} ELSE inFlight)
    BY <1>3, PushItemMoves DEF LayersInv
  <2>2. PICK new : OwesChanged(t, new) /\ new.step # "push"
    BY <1>3, PushItemMoves DEF LayersInv
  <2>3. \A u \in Threads : \A k, s : Pushes(u, k, s)' => u # t /\ Pushes(u, k, s) /\ owes'[u] = owes[u]
    BY <2>2 DEF OwesChanged, Pushes
  <2>4. \A u, places, s : Does(u, places, s)' = Does(u, places, s)
    BY <1>1 DEF Does
  <2>5. \A s : Started(s)' = Started(s)
    BY <1>1 DEF Started
  <2>6. kind \in {"open", "run"} => r \in Sources /\ Pushes(t, kind, r)
    BY <1>1 DEF LayersInv, NamesInv, Pushes
  <2>7. kind = "open" => /\ src[r] = "opening" /\ q = QueueOf[r]
                         /\ \A u \in Threads : Pushes(u, "open", r) => u = t
                         /\ \A u \in Workers : ~Does(u, {"open"}, r)
    BY <2>6 DEF LayersInv, OpenInv
  <2>8. kind = "run" => Started(r) /\ q = QueueOf[r] /\ r \notin inFlight
    BY <1>3, <2>6 DEF LayersInv, RunInv, Dropped
  <2> HIDE DEF q, c, kind, r
  <2>9. \A p \in Queues, s \in Sources :
          /\ s \in queue'[p].open => s \in queue[p].open \/ (kind = "open" /\ p = q /\ s = r)
          /\ s \in queue'[p].run => s \in queue[p].run \/ (kind = "run" /\ p = q /\ s = r)
    BY <2>1 DEF c
  <2>10. \A p \in Queues : queue'[p].open \subseteq Sources /\ queue'[p].run \subseteq Sources
    BY <2>1 DEF QueueType
  <2>11. LayersInTurn'
    BY <1>1 DEF LayersInv, LayersInTurn
  <2>12. OpenInv'
    <3>1. ASSUME NEW p \in Queues, NEW s \in queue'[p].open PROVE src'[s] = "opening" /\ QueueOf[s] = p
      BY <1>1, <2>7, <2>9, <2>10 DEF LayersInv, OpenInv
    <3>2. ASSUME NEW u \in Threads, NEW s \in Sources, Pushes(u, "open", s)'
          PROVE  /\ src'[s] = "opening" /\ owes'[u].queue = QueueOf[s]
                 /\ s \notin queue'[QueueOf[s]].open
                 /\ \A v \in Threads : Pushes(v, "open", s)' => v = u
      <4>1. u # t /\ Pushes(u, "open", s) /\ owes'[u] = owes[u]
        BY <2>3, <3>2
      <4>2. /\ src[s] = "opening" /\ owes[u].queue = QueueOf[s] /\ s \notin queue[QueueOf[s]].open
            /\ \A v \in Threads : Pushes(v, "open", s) => v = u
        BY <4>1 DEF LayersInv, OpenInv
      <4>3. kind = "open" => s # r
        BY <2>7, <4>1
      <4>4. QED
        BY <1>1, <2>3, <2>9, <4>1, <4>2, <4>3
    <3>3. ASSUME NEW u \in Workers, NEW s \in Sources, Does(u, {"open"}, s)'
          PROVE  /\ src'[s] = "opening" /\ s \notin queue'[QueueOf[s]].open
                 /\ \A v \in Threads : ~Pushes(v, "open", s)'
                 /\ \A v \in Workers : Does(v, {"open"}, s)' => v = u
      <4>1. Does(u, {"open"}, s)
        BY <2>4, <3>3
      <4>2. /\ src[s] = "opening" /\ s \notin queue[QueueOf[s]].open
            /\ \A v \in Threads : ~Pushes(v, "open", s)
            /\ \A v \in Workers : Does(v, {"open"}, s) => v = u
        BY <4>1 DEF LayersInv, OpenInv
      <4>3. kind = "open" => s # r
        BY <2>7, <4>1
      <4>4. QED
        BY <1>1, <2>3, <2>4, <2>9, <4>2, <4>3
    <3>4. QED
      BY <3>1, <3>2, <3>3 DEF OpenInv
  <2>13. RunInv'
    <3>1. ASSUME NEW p \in Queues, NEW s \in queue'[p].run
          PROVE  Started(s)' /\ QueueOf[s] = p /\ s \in inFlight'
      <4>1. CASE s \in queue[p].run
        BY <2>1, <2>5, <4>1 DEF LayersInv, RunInv
      <4>2. CASE s \notin queue[p].run
        BY <2>1, <2>5, <2>8, <2>9, <2>10, <4>2
      <4>3. QED
        BY <4>1, <4>2
    <3>2. ASSUME NEW u \in Threads, NEW s \in Sources, Pushes(u, "run", s)'
          PROVE  Started(s)' /\ owes'[u].queue = QueueOf[s]
      <4>1. Pushes(u, "run", s) /\ owes'[u] = owes[u]
        BY <2>3, <3>2
      <4>2. QED
        BY <2>5, <4>1 DEF LayersInv, RunInv
    <3>3. \A u \in Workers, s \in Sources : Does(u, {"run", "ending", "again"}, s)' => Started(s)'
      BY <2>4, <2>5 DEF LayersInv, RunInv
    <3>4. ASSUME NEW u \in Workers, NEW s \in Sources, Does(u, {"run", "ending"}, s)'
          PROVE  /\ s \in inFlight' /\ s \notin queue'[QueueOf[s]].run
                 /\ \A v \in Workers : Does(v, {"run", "ending"}, s)' => v = u
      <4>1. Does(u, {"run", "ending"}, s)
        BY <2>4, <3>4
      <4>2. /\ s \in inFlight /\ s \notin queue[QueueOf[s]].run
            /\ \A v \in Workers : Does(v, {"run", "ending"}, s) => v = u
        BY <4>1 DEF LayersInv, RunInv
      <4>3. kind = "run" => s # r
        BY <2>8, <4>2
      <4>4. s \in inFlight'
        BY <2>1, <4>2
      <4>5. QED
        BY <1>1, <2>4, <2>9, <4>2, <4>3, <4>4
    <3>5. hi'.at \in {"pause", "activate"} => \A s \in hi'.left : Started(s)'
      BY <1>1, <2>5 DEF LayersInv, RunInv
    <3>6. QED
      BY <3>1, <3>2, <3>3, <3>4, <3>5 DEF RunInv
  <2>14. NamesInv'
    <3>1. \A u \in Threads : owes'[u].step = "push" => owes'[u] = owes[u]
      BY <2>2 DEF OwesChanged
    <3>2. QED
      BY <1>1, <3>1 DEF LayersInv, NamesInv
  <2>15. QED
    BY <2>11, <2>12, <2>13, <2>14
<1>4. QED
  BY <1>2, <1>3

(* A worker that takes an item takes it out of its queue.                  *)
LEMMA RunNextTaskKeepsLayers ==
  ASSUME TypeInv, LayersInv, NEW t \in Workers, RunNextTask(t), UNCHANGED graph
  PROVE  LayersInTurn' /\ OpenInv' /\ RunInv' /\ NamesInv'
<1> USE SameGraph
<1>1. /\ src' = src /\ inFlight' = inFlight /\ hi' = hi /\ owes' = owes
      /\ t \in Threads /\ Workers \subseteq Threads
      /\ QueueOf \in [Sources -> Queues]
  BY GraphFacts DEF RunNextTask, TypeInv, idleVars, sourceVars, Threads
<1>2. PICK q \in Queues :
        /\ job[t].at = "idle"
        /\ IF Size(queue[q]) = 0 THEN UNCHANGED <<queue, job>>
                                 ELSE \E i \in First(queue[q]) : TakesTask(t, q, i)
  BY <1>1, RunNextTaskMoves
<1>3. CASE UNCHANGED <<queue, job>>
  <2>1. Keeps(t)
    BY <1>1, <1>3 DEF Keeps, NewOwes, NewJob, LayersInv, RunInv
  <2>2. QED
    BY <1>1, <2>1, KeepsLayers
<1>4. ASSUME NEW i, TakesTask(t, q, i)
      PROVE  LayersInTurn' /\ OpenInv' /\ RunInv' /\ NamesInv'
  <2> DEFINE c == queue[q]
             r == i.source
  <2>1. /\ Takes(c, i) /\ queue'[q] = i.rest /\ \A p \in Queues : p # q => queue'[p] = queue[p]
        /\ job'[t].at = i.at /\ job'[t].queue = q /\ job'[t].source = r
        /\ \A u \in Threads : u # t => job'[u] = job[u]
    BY <1>4 DEF TakesTask
  <2>2. /\ c.open \subseteq Sources /\ c.run \subseteq Sources
        /\ \A p \in Queues : queue[p].open \subseteq Sources /\ queue[p].run \subseteq Sources
    BY DEF TypeInv, QueueType
  <2> HIDE DEF c, r
  <2>3. \A p \in Queues : /\ queue'[p].open \subseteq queue[p].open
                          /\ queue'[p].run \subseteq queue[p].run
    BY <2>1 DEF Takes, c
  <2>4. i.at = "open" => /\ r \in Sources /\ src[r] = "opening" /\ QueueOf[r] = q
                         /\ r \in queue[q].open /\ r \notin queue'[q].open
    BY <2>1, <2>2 DEF Takes, LayersInv, OpenInv, c, r
  <2>5. i.at = "run" => /\ r \in Sources /\ Started(r) /\ QueueOf[r] = q /\ r \in inFlight
                        /\ r \in queue[q].run /\ r \notin queue'[q].run
    BY <2>1, <2>2 DEF Takes, LayersInv, RunInv, c, r
  <2>6. i.at \in {"open", "work", "run"}
    BY <2>1 DEF Takes
  <2>7. \A u, k, s : Pushes(u, k, s)' = Pushes(u, k, s)
    BY <1>1 DEF Pushes
  <2>8. \A s : Started(s)' = Started(s)
    BY <1>1 DEF Started
  <2>9. \A u \in Workers : \A places, s :
          Does(u, places, s)' => Does(u, places, s) \/ (u = t /\ s = r /\ i.at \in places)
    BY <1>1, <2>1 DEF Does
  <2>10. \A places, s : "idle" \notin places => ~Does(t, places, s)
    BY <1>2 DEF Does
  <2>11. LayersInTurn'
    BY <1>1 DEF LayersInv, LayersInTurn
  <2>12. OpenInv'
    <3>1. ASSUME NEW p \in Queues, NEW s \in queue'[p].open PROVE src'[s] = "opening" /\ QueueOf[s] = p
      BY <1>1, <2>3 DEF LayersInv, OpenInv
    <3>2. ASSUME NEW u \in Threads, NEW s \in Sources, Pushes(u, "open", s)'
          PROVE  /\ src'[s] = "opening" /\ owes'[u].queue = QueueOf[s]
                 /\ s \notin queue'[QueueOf[s]].open
                 /\ \A v \in Threads : Pushes(v, "open", s)' => v = u
      <4>1. Pushes(u, "open", s)
        BY <2>7, <3>2
      <4>2. /\ src[s] = "opening" /\ owes[u].queue = QueueOf[s] /\ s \notin queue[QueueOf[s]].open
            /\ \A v \in Threads : Pushes(v, "open", s) => v = u
        BY <4>1 DEF LayersInv, OpenInv
      <4>3. QED
        BY <1>1, <2>3, <2>7, <4>2
    <3>3. ASSUME NEW u \in Workers, NEW s \in Sources, Does(u, {"open"}, s)'
          PROVE  /\ src'[s] = "opening" /\ s \notin queue'[QueueOf[s]].open
                 /\ \A v \in Threads : ~Pushes(v, "open", s)'
                 /\ \A v \in Workers : Does(v, {"open"}, s)' => v = u
      <4>1. CASE Does(u, {"open"}, s)
        <5>1. /\ src[s] = "opening" /\ s \notin queue[QueueOf[s]].open
              /\ \A v \in Threads : ~Pushes(v, "open", s)
              /\ \A v \in Workers : Does(v, {"open"}, s) => v = u
          BY <4>1 DEF LayersInv, OpenInv
        <5>2. i.at = "open" => s # r
          BY <2>4, <5>1
        <5>3. \A v \in Workers : Does(v, {"open"}, s)' => Does(v, {"open"}, s)
          BY <2>9, <5>2
        <5>4. QED
          BY <1>1, <2>3, <2>7, <5>1, <5>3
      <4>2. CASE ~Does(u, {"open"}, s)
        <5>1. u = t /\ s = r /\ i.at = "open"
          BY <2>9, <3>3, <4>2
        <5>2. \A v \in Threads : ~Pushes(v, "open", s)
          BY <2>4, <5>1 DEF LayersInv, OpenInv
        <5>3. \A v \in Workers : ~Does(v, {"open"}, s)
          BY <2>4, <5>1 DEF LayersInv, OpenInv
        <5>4. QED
          BY <1>1, <2>4, <2>7, <2>9, <5>1, <5>2, <5>3
      <4>3. QED
        BY <4>1, <4>2
    <3>4. QED
      BY <3>1, <3>2, <3>3 DEF OpenInv
  <2>13. RunInv'
    <3>1. \A p \in Queues : \A s \in queue'[p].run : Started(s)' /\ QueueOf[s] = p /\ s \in inFlight'
      BY <1>1, <2>3, <2>8 DEF LayersInv, RunInv
    <3>2. \A u \in Threads, s \in Sources : Pushes(u, "run", s)' => Started(s)' /\ owes'[u].queue = QueueOf[s]
      BY <1>1, <2>7, <2>8 DEF LayersInv, RunInv
    <3>3. ASSUME NEW u \in Workers, NEW s \in Sources, Does(u, {"run", "ending", "again"}, s)'
          PROVE  Started(s)'
      <4>1. CASE Does(u, {"run", "ending", "again"}, s)
        BY <2>8, <4>1 DEF LayersInv, RunInv
      <4>2. CASE s = r /\ i.at \in {"run", "ending", "again"}
        BY <2>5, <2>6, <2>8, <4>2
      <4>3. QED
        BY <2>9, <3>3, <4>1, <4>2
    <3>4. ASSUME NEW u \in Workers, NEW s \in Sources, Does(u, {"run", "ending"}, s)'
          PROVE  /\ s \in inFlight' /\ s \notin queue'[QueueOf[s]].run
                 /\ \A v \in Workers : Does(v, {"run", "ending"}, s)' => v = u
      <4>1. CASE Does(u, {"run", "ending"}, s)
        <5>1. /\ s \in inFlight /\ s \notin queue[QueueOf[s]].run
              /\ \A v \in Workers : Does(v, {"run", "ending"}, s) => v = u
          BY <4>1 DEF LayersInv, RunInv
        <5>2. i.at \in {"run", "ending"} => s # r
          BY <2>5, <2>6, <5>1
        <5>3. \A v \in Workers : Does(v, {"run", "ending"}, s)' => Does(v, {"run", "ending"}, s)
          BY <2>9, <5>2
        <5>4. QED
          BY <1>1, <2>3, <5>1, <5>3
      <4>2. CASE ~Does(u, {"run", "ending"}, s)
        <5>1. u = t /\ s = r /\ i.at = "run"
          BY <2>6, <2>9, <3>4, <4>2
        <5>2. \A v \in Workers : ~Does(v, {"run", "ending"}, s)
          BY <2>5, <5>1 DEF LayersInv, RunInv
        <5>3. QED
          BY <1>1, <2>5, <2>9, <5>1, <5>2
      <4>3. QED
        BY <4>1, <4>2
    <3>5. hi'.at \in {"pause", "activate"} => \A s \in hi'.left : Started(s)'
      BY <1>1, <2>8 DEF LayersInv, RunInv
    <3>6. QED
      BY <3>1, <3>2, <3>3, <3>4, <3>5 DEF RunInv
  <2>14. NamesInv'
    <3>1. ASSUME NEW u \in Workers, job'[u].at # "idle"
          PROVE  job'[u].queue \in Queues
                 /\ (job'[u].at \in {"open", "run", "ending", "again"} => job'[u].source \in Sources)
      <4>1. CASE u = t
        BY <2>1, <2>4, <2>5, <2>6, <4>1
      <4>2. CASE u # t
        BY <1>1, <2>1, <3>1, <4>2 DEF LayersInv, NamesInv
      <4>3. QED
        BY <4>1, <4>2
    <3>2. QED
      BY <1>1, <3>1 DEF LayersInv, NamesInv
  <2>15. QED
    BY <2>11, <2>12, <2>13, <2>14
<1>5. QED
  BY <1>2, <1>3, <1>4

(* A source that waited for its side packet is sent to be opened, once.    *)
LEMMA ProduceKeepsLayers ==
  ASSUME TypeInv, LayersInv, NEW t \in Workers, ProduceSidePacket(t), UNCHANGED graph
  PROVE  LayersInTurn' /\ OpenInv' /\ RunInv' /\ NamesInv'
<1> USE SameGraph
<1>1. /\ queue' = queue /\ inFlight' = inFlight /\ hi' = hi /\ job' = job
      /\ t \in Threads /\ Workers \subseteq Threads
      /\ QueueOf \in [Sources -> Queues]
  BY GraphFacts DEF ProduceSidePacket, TypeInv, idleVars, queueVars, Threads
<1>2. PICK r \in Sources : /\ src[r] = "unopened" /\ ~hasError
                           /\ src' = [src EXCEPT ![r] = "opening"] /\ AddItem(t, QueueOf[r], "open", r)
  BY DEF ProduceSidePacket
<1>3. QueueOf[r] \in Queues
  BY <1>1
<1>4. OwesChanged(t, ToPush(QueueOf[r], "open", r))
  BY <1>1, <1>2, <1>3, AddItemOwes
<1>5. /\ owes'[t].step = "push" /\ owes'[t].queue = QueueOf[r]
      /\ owes'[t].kind = "open" /\ owes'[t].source = r
      /\ \A u \in Threads : u # t => owes'[u] = owes[u]
  BY <1>4, ToPushFields DEF OwesChanged
<1>6. \A s \in Sources : src'[s] = IF s = r THEN "opening" ELSE src[s]
  BY <1>2 DEF TypeInv
<1>7. \A s : Started(s) => Started(s)'
  BY <1>2, <1>6 DEF Started
<1>8. \A u \in Threads : \A k, s :
        Pushes(u, k, s)' => (u # t /\ Pushes(u, k, s) /\ owes'[u] = owes[u]) \/ (u = t /\ k = "open" /\ s = r)
  BY <1>5 DEF Pushes
<1>9. \A u, places, s : Does(u, places, s)' = Does(u, places, s)
  BY <1>1 DEF Does
<1>10. LayersInTurn'
  BY <1>2, <1>6 DEF LayersInv, LayersInTurn
<1>11. OpenInv'
  <2>1. ASSUME NEW q \in Queues, NEW s \in queue'[q].open PROVE src'[s] = "opening" /\ QueueOf[s] = q
    <3>1. s \in queue[q].open /\ s \in Sources
      BY <1>1 DEF TypeInv, QueueType
    <3>2. QED
      BY <1>6, <3>1 DEF LayersInv, OpenInv
  <2>2. \A u \in Threads : ~Pushes(u, "open", r)
    BY <1>2 DEF LayersInv, OpenInv
  <2>3. ASSUME NEW u \in Threads, NEW s \in Sources, Pushes(u, "open", s)'
        PROVE  /\ src'[s] = "opening" /\ owes'[u].queue = QueueOf[s]
               /\ s \notin queue'[QueueOf[s]].open
               /\ \A v \in Threads : Pushes(v, "open", s)' => v = u
    <3>1. CASE u = t
      <4>1. s = r
        BY <1>8, <2>3, <3>1
      <4>2. s \notin queue[QueueOf[s]].open
        BY <1>2, <1>3, <4>1 DEF LayersInv, OpenInv
      <4>3. QED
        BY <1>1, <1>5, <1>6, <1>8, <2>2, <3>1, <4>1, <4>2
    <3>2. CASE u # t
      <4>1. Pushes(u, "open", s) /\ owes'[u] = owes[u]
        BY <1>8, <2>3, <3>2
      <4>2. s # r
        BY <2>2, <4>1
      <4>3. /\ src[s] = "opening" /\ owes[u].queue = QueueOf[s] /\ s \notin queue[QueueOf[s]].open
            /\ \A v \in Threads : Pushes(v, "open", s) => v = u
        BY <4>1 DEF LayersInv, OpenInv
      <4>4. QED
        BY <1>1, <1>6, <1>8, <4>1, <4>2, <4>3
    <3>3. QED
      BY <3>1, <3>2
  <2>4. ASSUME NEW u \in Workers, NEW s \in Sources, Does(u, {"open"}, s)'
        PROVE  /\ src'[s] = "opening" /\ s \notin queue'[QueueOf[s]].open
               /\ \A v \in Threads : ~Pushes(v, "open", s)'
               /\ \A v \in Workers : Does(v, {"open"}, s)' => v = u
    <3>1. Does(u, {"open"}, s)
      BY <1>9, <2>4
    <3>2. /\ src[s] = "opening" /\ s \notin queue[QueueOf[s]].open
          /\ \A v \in Threads : ~Pushes(v, "open", s)
          /\ \A v \in Workers : Does(v, {"open"}, s) => v = u
      BY <3>1 DEF LayersInv, OpenInv
    <3>3. s # r
      BY <1>2, <3>2
    <3>4. QED
      BY <1>1, <1>6, <1>8, <1>9, <3>2, <3>3
  <2>5. QED
    BY <2>1, <2>3, <2>4 DEF OpenInv
<1>12. RunInv'
  <2>1. \A q \in Queues : \A s \in queue'[q].run : Started(s)' /\ QueueOf[s] = q /\ s \in inFlight'
    BY <1>1, <1>7 DEF LayersInv, RunInv
  <2>2. ASSUME NEW u \in Threads, NEW s \in Sources, Pushes(u, "run", s)'
        PROVE  Started(s)' /\ owes'[u].queue = QueueOf[s]
    <3>1. Pushes(u, "run", s) /\ owes'[u] = owes[u]
      BY <1>8, <2>2
    <3>2. QED
      BY <1>7, <3>1 DEF LayersInv, RunInv
  <2>3. \A u \in Workers, s \in Sources : Does(u, {"run", "ending", "again"}, s)' => Started(s)'
    BY <1>7, <1>9 DEF LayersInv, RunInv
  <2>4. ASSUME NEW u \in Workers, NEW s \in Sources, Does(u, {"run", "ending"}, s)'
        PROVE  /\ s \in inFlight' /\ s \notin queue'[QueueOf[s]].run
               /\ \A v \in Workers : Does(v, {"run", "ending"}, s)' => v = u
    <3>1. Does(u, {"run", "ending"}, s)
      BY <1>9, <2>4
    <3>2. QED
      BY <1>1, <1>9, <3>1 DEF LayersInv, RunInv
  <2>5. hi'.at \in {"pause", "activate"} => \A s \in hi'.left : Started(s)'
    BY <1>1, <1>7 DEF LayersInv, RunInv
  <2>6. QED
    BY <2>1, <2>2, <2>3, <2>4, <2>5 DEF RunInv
<1>13. NamesInv'
  BY <1>1, <1>3, <1>5 DEF LayersInv, NamesInv
<1>14. QED
  BY <1>10, <1>11, <1>12, <1>13

(* A source that has been opened was opened by one worker only.            *)
LEMMA OpenedKeepsLayers ==
  ASSUME TypeInv, LayersInv, NEW t \in Workers, NodeOpened(t), UNCHANGED graph
  PROVE  LayersInTurn' /\ OpenInv' /\ RunInv' /\ NamesInv'
<1> USE SameGraph
<1> DEFINE r == job[t].source
<1>1. /\ queue' = queue /\ inFlight' = inFlight /\ hi' = hi /\ owes' = owes
      /\ t \in Threads /\ Workers \subseteq Threads /\ job[t].at = "open"
      /\ src' = [src EXCEPT ![r] = "ready"] /\ Goto(t, "finish")
  BY DEF NodeOpened, idleVars, queueVars, Threads, At
<1>2. QueueOf \in [Sources -> Queues]
  BY GraphFacts DEF TypeInv
<1>3. "finish" \in Places
  BY DEF Places
<1>4. JobMoved(t, "finish")
  BY <1>1, <1>3, GotoMoves
<1>5. r \in Sources /\ Does(t, {"open"}, r)
  BY <1>1 DEF LayersInv, NamesInv, Does
<1>6. /\ src[r] = "opening" /\ \A q \in Queues : r \notin queue[q].open
      /\ \A u \in Threads : ~Pushes(u, "open", r)
      /\ \A u \in Workers : Does(u, {"open"}, r) => u = t
  <2>1. /\ src[r] = "opening" /\ r \notin queue[QueueOf[r]].open
        /\ \A u \in Threads : ~Pushes(u, "open", r)
        /\ \A u \in Workers : Does(u, {"open"}, r) => u = t
    BY <1>5 DEF LayersInv, OpenInv
  <2>2. QED
    BY <2>1 DEF LayersInv, OpenInv
<1> HIDE DEF r
<1>7. \A s \in Sources : src'[s] = IF s = r THEN "ready" ELSE src[s]
  BY <1>1 DEF TypeInv
<1>8. \A s : Started(s) => Started(s)'
  BY <1>6, <1>7 DEF Started
<1>9. \A u, k, s : Pushes(u, k, s)' = Pushes(u, k, s)
  BY <1>1 DEF Pushes
<1>10. \A u \in Workers : \A places, s :
         Does(u, places, s)' => Does(u, places, s) \/ (u = t /\ "finish" \in places)
  BY <1>1, <1>4 DEF Does, JobMoved
<1>11. \A s : ~Does(t, {"open"}, s)'
  BY <1>4 DEF Does, JobMoved
<1>12. LayersInTurn'
  BY <1>6, <1>7 DEF LayersInv, LayersInTurn
<1>13. OpenInv'
  <2>1. ASSUME NEW q \in Queues, NEW s \in queue'[q].open PROVE src'[s] = "opening" /\ QueueOf[s] = q
    <3>1. s \in queue[q].open /\ s \in Sources
      BY <1>1 DEF TypeInv, QueueType
    <3>2. QED
      BY <1>6, <1>7, <3>1 DEF LayersInv, OpenInv
  <2>2. ASSUME NEW u \in Threads, NEW s \in Sources, Pushes(u, "open", s)'
        PROVE  /\ src'[s] = "opening" /\ owes'[u].queue = QueueOf[s]
               /\ s \notin queue'[QueueOf[s]].open
               /\ \A v \in Threads : Pushes(v, "open", s)' => v = u
    <3>1. Pushes(u, "open", s) /\ s # r
      BY <1>6, <1>9, <2>2
    <3>2. /\ src[s] = "opening" /\ owes[u].queue = QueueOf[s] /\ s \notin queue[QueueOf[s]].open
          /\ \A v \in Threads : Pushes(v, "open", s) => v = u
      BY <3>1 DEF LayersInv, OpenInv
    <3>3. QED
      BY <1>1, <1>7, <1>9, <3>1, <3>2
  <2>3. ASSUME NEW u \in Workers, NEW s \in Sources, Does(u, {"open"}, s)'
        PROVE  /\ src'[s] = "opening" /\ s \notin queue'[QueueOf[s]].open
               /\ \A v \in Threads : ~Pushes(v, "open", s)'
               /\ \A v \in Workers : Does(v, {"open"}, s)' => v = u
    <3>1. \A v \in Workers : Does(v, {"open"}, s)' => Does(v, {"open"}, s)
      BY <1>10
    <3>2. Does(u, {"open"}, s) /\ u # t
      BY <1>11, <2>3, <3>1
    <3>3. s # r
      BY <1>6, <3>2
    <3>4. /\ src[s] = "opening" /\ s \notin queue[QueueOf[s]].open
          /\ \A v \in Threads : ~Pushes(v, "open", s)
          /\ \A v \in Workers : Does(v, {"open"}, s) => v = u
      BY <3>2 DEF LayersInv, OpenInv
    <3>5. QED
      BY <1>1, <1>7, <1>9, <3>1, <3>3, <3>4
  <2>4. QED
    BY <2>1, <2>2, <2>3 DEF OpenInv
<1>14. RunInv'
  <2>1. \A q \in Queues : \A s \in queue'[q].run : Started(s)' /\ QueueOf[s] = q /\ s \in inFlight'
    BY <1>1, <1>8 DEF LayersInv, RunInv
  <2>2. \A u \in Threads, s \in Sources : Pushes(u, "run", s)' => Started(s)' /\ owes'[u].queue = QueueOf[s]
    BY <1>1, <1>8, <1>9 DEF LayersInv, RunInv
  <2>3. \A u \in Workers, s \in Sources : Does(u, {"run", "ending", "again"}, s)' => Started(s)'
    BY <1>8, <1>10 DEF LayersInv, RunInv
  <2>4. ASSUME NEW u \in Workers, NEW s \in Sources, Does(u, {"run", "ending"}, s)'
        PROVE  /\ s \in inFlight' /\ s \notin queue'[QueueOf[s]].run
               /\ \A v \in Workers : Does(v, {"run", "ending"}, s)' => v = u
    <3>1. \A v \in Workers : Does(v, {"run", "ending"}, s)' => Does(v, {"run", "ending"}, s)
      BY <1>10
    <3>2. QED
      BY <1>1, <2>4, <3>1 DEF LayersInv, RunInv
  <2>5. hi'.at \in {"pause", "activate"} => \A s \in hi'.left : Started(s)'
    BY <1>1, <1>8 DEF LayersInv, RunInv
  <2>6. QED
    BY <2>1, <2>2, <2>3, <2>4, <2>5 DEF RunInv
<1>15. NamesInv'
  <2>1. ASSUME NEW u \in Workers, job'[u].at # "idle"
        PROVE  job'[u].queue \in Queues
               /\ (job'[u].at \in {"open", "run", "ending", "again"} => job'[u].source \in Sources)
    <3>1. CASE u = t
      BY <1>1, <1>4, <3>1 DEF JobMoved, LayersInv, NamesInv
    <3>2. CASE u # t
      BY <1>1, <1>4, <2>1, <3>2 DEF JobMoved, LayersInv, NamesInv
    <3>3. QED
      BY <3>1, <3>2
  <2>2. QED
    BY <1>1, <2>1 DEF LayersInv, NamesInv
<1>16. QED
  BY <1>12, <1>13, <1>14, <1>15

(* A layer is activated when no source is active, and neither a ready nor  *)
(* an unopened one is in a lower layer: all of those have closed.          *)
LEMMA ActivateKeepsLayers ==
  ASSUME TypeInv, LayersInv, NEW t \in Threads, ActivateLayer(t), UNCHANGED graph
  PROVE  LayersInTurn' /\ OpenInv' /\ RunInv' /\ NamesInv'
<1> USE SameGraph
<1>1. queue' = queue /\ inFlight' = inFlight /\ owes' = owes /\ job' = job /\ Active = {}
  BY DEF ActivateLayer, queueVars
<1>2. CASE BlockedByUnopened
  <2>1. src' = src /\ hi' = hi /\ hi.at = "loop"
    BY <1>2 DEF ActivateLayer, InLoop
  <2>2. Keeps(t)
    BY <1>1, <2>1 DEF Keeps, NewOwes, NewJob
  <2>3. QED
    BY <2>2, KeepsLayers
<1>3. CASE ~BlockedByUnopened
  <2>1. /\ src' = [s \in Sources |-> IF s \in NextLayer THEN "active" ELSE src[s]]
        /\ hi' = [hi EXCEPT !.at = "pause", !.left = NextLayer]
    BY <1>3 DEF ActivateLayer
  <2>2. hi'.left = NextLayer
    BY <2>1 DEF TypeInv, HiType
  <2>3. NextLayer \subseteq Sources /\ \A s \in NextLayer : src[s] = "ready"
    BY DEF NextLayer, Ready
  <2>4. \A s \in Sources : src'[s] = IF s \in NextLayer THEN "active" ELSE src[s]
    BY <2>1
  <2>5. \A s : Started(s) => Started(s)'
    BY <2>4 DEF Started
  <2>6. \A s \in NextLayer : Started(s)'
    BY <2>3, <2>4 DEF Started
  <2>7. \A s \in Sources : src[s] = "opening" => src'[s] = "opening"
    BY <2>3, <2>4
  <2>8. LayersInTurn'
    <3>1. ASSUME NEW s \in Sources, NEW r \in Sources, src'[s] = "active", Layer[r] < Layer[s]
          PROVE  src'[r] = "closed"
      <4>1. Layer \in [Sources -> Nat] /\ Layer[s] \in Nat /\ Layer[r] \in Nat
        BY GraphFacts DEF TypeInv
      <4>2. s \in NextLayer
        BY <1>1, <2>4, <3>1 DEF Active
      <4>3. \A u \in Ready : Layer[s] <= Layer[u]
        BY <4>2 DEF NextLayer
      <4>4. r \notin Ready
        BY <3>1, <4>1, <4>3
      <4>5. r \notin Unopened
        <5>1. SUFFICES ASSUME r \in Unopened PROVE FALSE
          OBVIOUS
        <5>2. PICK u \in NextLayer : ~(Layer[r] < Layer[u])
          BY <1>3, <5>1 DEF BlockedByUnopened
        <5>3. u \in Sources /\ Layer[u] \in Nat /\ Layer[s] <= Layer[u]
          BY <2>3, <4>1, <4>3 DEF NextLayer, Ready
        <5>4. QED
          BY <3>1, <4>1, <5>2, <5>3
      <4>6. src[r] \in SourceStates /\ src[r] \notin {"ready", "unopened", "opening", "active"}
        BY <1>1, <4>4, <4>5 DEF TypeInv, Ready, Unopened, Active
      <4>7. r \notin NextLayer
        BY <2>3, <4>6
      <4>8. QED
        BY <2>4, <4>6, <4>7 DEF SourceStates
    <3>2. QED
      BY <3>1 DEF LayersInTurn
  <2>9. OpenInv'
    <3>1. ASSUME NEW q \in Queues, NEW s \in queue'[q].open PROVE src'[s] = "opening" /\ QueueOf[s] = q
      <4>1. s \in queue[q].open /\ s \in Sources
        BY <1>1 DEF TypeInv, QueueType
      <4>2. QED
        BY <2>7, <4>1 DEF LayersInv, OpenInv
    <3>2. QED
      BY <1>1, <2>7, <3>1 DEF LayersInv, OpenInv, Pushes, Does
  <2>10. RunInv'
    <3>1. hi'.at \in {"pause", "activate"} => \A s \in hi'.left : Started(s)'
      BY <2>2, <2>6
    <3>2. \A q \in Queues : \A s \in queue'[q].run : Started(s)' /\ QueueOf[s] = q /\ s \in inFlight'
      BY <1>1, <2>5 DEF LayersInv, RunInv
    <3>3. QED
      BY <1>1, <2>5, <3>1, <3>2 DEF LayersInv, RunInv, Pushes, Does
  <2>11. NamesInv'
    BY <1>1 DEF LayersInv, NamesInv
  <2>12. QED
    BY <2>8, <2>9, <2>10, <2>11
<1>4. QED
  BY <1>2, <1>3

-----------------------------------------------------------------------------
(* How the sums change in a step of a thread t.                            *)

ThreadSteps(t) ==
  /\ UNCHANGED graph /\ owes' \in [Threads -> OweType] /\ hi' \in HiType
  /\ \A u \in Threads : u # t => owes'[u] = owes[u]

(* What is in the hands of thread t, to be submitted.                      *)
LEMMA InHandType ==
  ASSUME NEW o \in OweType, NEW q
  PROVE  InHand(o, q) \in Nat
BY DEF InHand, OweType

(* The tasks on their way change by those that t takes up or hands on.     *)
LEMMA HandsMove ==
  ASSUME TypeInv, NEW t \in Threads, ThreadSteps(t), NEW q \in Queues
  PROVE  /\ InHands(q) \in Nat /\ InHands(q)' \in Nat
         /\ InHands(q)' = InHands(q) + (InHand(owes'[t], q) - InHand(owes[t], q))
                                     + (InHand(hi'.then, q) - InHand(hi.then, q))
<1> USE SameGraph DEF ThreadSteps
<1> DEFINE f == [u \in Threads |-> InHand(owes[u], q)]
           g == [u \in Threads |-> InHand(owes'[u], q)]
<1>1. owes \in [Threads -> OweType] /\ hi.then \in OweType /\ hi'.then \in OweType
  BY DEF TypeInv, HiType
<1>2. f \in [Threads -> Nat] /\ g \in [Threads -> Nat]
  BY <1>1, InHandType
<1>3. \A u \in Threads : u # t => g[u] = f[u]
  BY <1>1
<1>4. IsFiniteSet(Threads)
  BY GraphFacts DEF TypeInv
<1>5. f[t] = InHand(owes[t], q) /\ g[t] = InHand(owes'[t], q) /\ f[t] \in Nat /\ g[t] \in Nat
  BY <1>2
<1>6. /\ InHands(q) = Total(Threads, f) + InHand(hi.then, q)
      /\ InHands(q)' = Total(Threads, g) + InHand(hi'.then, q)
  <2>1. (Total(Threads, f))' = Total(Threads, g) /\ InHand(hi.then, q)' = InHand(hi'.then, q)
    BY DEF InHand, Total, Units
  <2>2. QED
    BY <2>1 DEF InHands
<1> HIDE DEF f, g
<1>7. Total(Threads, f) \in Nat /\ Total(Threads, g) = (Total(Threads, f) - f[t]) + g[t]
  BY <1>2, <1>3, <1>4, TotalUpdate
<1>8. Total(Threads, g) \in Nat
  BY <1>2, <1>4, TotalUpdate
<1>9. InHand(hi.then, q) \in Nat /\ InHand(hi'.then, q) \in Nat
  BY <1>1, InHandType
<1>10. QED
  BY <1>5, <1>6, <1>7, <1>8, <1>9

Owes01(o, step) == IF o.step = step THEN 1 ELSE 0

(* The reports that are owed change by those of t.                         *)
LEMMA OwingMoves ==
  ASSUME TypeInv, NEW t \in Threads, ThreadSteps(t), NEW step
  PROVE  /\ Owing(step) \in Nat /\ Owing(step)' \in Nat
         /\ Owing(step)' = (Owing(step) - Owes01(owes[t], step)) + Owes01(owes'[t], step)
<1> DEFINE P == {u \in Threads : owes[u].step = step}
           Q == {u \in Threads : owes'[u].step = step}
<1>1. IsFiniteSet(P)
  BY GraphFacts, FS_Subset DEF TypeInv
<1>2. P \ {t} = Q \ {t}
  BY DEF ThreadSteps
<1>3. /\ Cardinality(P) \in Nat /\ Cardinality(Q) \in Nat
      /\ t \in P /\ t \in Q => Cardinality(Q) = Cardinality(P)
      /\ t \in P /\ t \notin Q => Cardinality(Q) = Cardinality(P) - 1
      /\ t \notin P /\ t \in Q => Cardinality(Q) = Cardinality(P) + 1
      /\ t \notin P /\ t \notin Q => Cardinality(Q) = Cardinality(P)
  BY <1>1, <1>2, CardinalityUpdate
<1>4. Owing(step) = Cardinality(P) /\ Owing(step)' = Cardinality(Q)
  BY DEF Owing
<1>5. (t \in P) = (owes[t].step = step) /\ (t \in Q) = (owes'[t].step = step)
  OBVIOUS
<1> HIDE DEF P, Q
<1>6. QED
  BY <1>3, <1>4, <1>5 DEF Owes01

(* The workers on a queue change by t.                                     *)
LEMMA WorkMoves ==
  ASSUME TypeInv, NEW t \in Threads, \A u \in Workers : u # t => job'[u] = job[u], NEW q
  PROVE  /\ Cardinality(WorkOn(q)) \in Nat /\ Cardinality(WorkOn(q)') \in Nat
         /\ (t \in WorkOn(q)) = (t \in WorkOn(q)') => Cardinality(WorkOn(q)') = Cardinality(WorkOn(q))
         /\ t \in WorkOn(q) /\ t \notin WorkOn(q)' =>
              Cardinality(WorkOn(q)') = Cardinality(WorkOn(q)) - 1
         /\ t \notin WorkOn(q) /\ t \in WorkOn(q)' =>
              Cardinality(WorkOn(q)') = Cardinality(WorkOn(q)) + 1
<1> DEFINE P == WorkOn(q)
           Q == WorkOn(q)'
<1>1. IsFiniteSet(P)
  BY GraphFacts, FS_Subset DEF TypeInv, WorkOn
<1>2. P \ {t} = Q \ {t}
  BY DEF WorkOn
<1> HIDE DEF P, Q
<1>3. /\ Cardinality(P) \in Nat /\ Cardinality(Q) \in Nat
      /\ t \in P /\ t \in Q => Cardinality(Q) = Cardinality(P)
      /\ t \in P /\ t \notin Q => Cardinality(Q) = Cardinality(P) - 1
      /\ t \notin P /\ t \in Q => Cardinality(Q) = Cardinality(P) + 1
      /\ t \notin P /\ t \notin Q => Cardinality(Q) = Cardinality(P)
  BY <1>1, <1>2, CardinalityUpdate
<1>4. QED
  BY <1>3 DEF P, Q

ActiveQueues == {q \in Queues : ~IsIdle(q)}

(* A step that changes one queue changes the number of active ones by it.  *)
LEMMA ActiveMoves ==
  ASSUME TypeInv, UNCHANGED graph, NEW q \in Queues,
         \A p \in Queues : p # q => IsIdle(p)' = IsIdle(p)
  PROVE  /\ Cardinality(ActiveQueues) \in Nat
         /\ ~IsIdle(q) /\ ~IsIdle(q)' => Cardinality(ActiveQueues') = Cardinality(ActiveQueues)
         /\ IsIdle(q) /\ IsIdle(q)' => Cardinality(ActiveQueues') = Cardinality(ActiveQueues)
         /\ IsIdle(q) /\ ~IsIdle(q)' => Cardinality(ActiveQueues') = Cardinality(ActiveQueues) + 1
         /\ ~IsIdle(q) /\ IsIdle(q)' => Cardinality(ActiveQueues') = Cardinality(ActiveQueues) - 1
<1> DEFINE P == ActiveQueues
           Q == ActiveQueues'
<1>1. IsFiniteSet(P)
  BY GraphFacts, FS_Subset DEF TypeInv, ActiveQueues
<1>2. P \ {q} = Q \ {q} /\ (q \in P) = ~IsIdle(q) /\ (q \in Q) = ~IsIdle(q)'
  BY SameGraph DEF ActiveQueues
<1> HIDE DEF P, Q
<1>3. /\ Cardinality(P) \in Nat /\ Cardinality(Q) \in Nat
      /\ q \in P /\ q \in Q => Cardinality(Q) = Cardinality(P)
      /\ q \in P /\ q \notin Q => Cardinality(Q) = Cardinality(P) - 1
      /\ q \notin P /\ q \in Q => Cardinality(Q) = Cardinality(P) + 1
      /\ q \notin P /\ q \notin Q => Cardinality(Q) = Cardinality(P)
  BY <1>1, <1>2, CardinalityUpdate
<1>4. QED
  BY <1>2, <1>3 DEF P, Q

(* The size of a queue is a number.                                        *)
LEMMA SizeType ==
  ASSUME graph \in Graphs, NEW c \in QueueType
  PROVE  /\ Size(c) \in Nat /\ Cardinality(c.open) \in Nat /\ Cardinality(c.run) \in Nat
         /\ IsFiniteSet(c.open) /\ IsFiniteSet(c.run)
<1>1. IsFiniteSet(c.open) /\ IsFiniteSet(c.run) /\ c.work \in Nat
  BY GraphFacts, FS_Subset DEF QueueType
<1>2. Cardinality(c.open) \in Nat /\ Cardinality(c.run) \in Nat
  BY <1>1, FS_CardinalityType
<1>3. QED
  BY <1>1, <1>2 DEF Size

CountEquation == nonIdle = Cardinality(ActiveQueues) - Owing("active") + Owing("idle")

(* The two parts of CountIsRight.                                          *)
LEMMA CountParts == CountIsRight <=> CountEquation /\ ~failed
BY DEF CountIsRight, CountEquation, ActiveQueues

-----------------------------------------------------------------------------
(* A step that changes no queue, in which t keeps its tasks and reports.   *)
Calm(t) ==
  /\ ThreadSteps(t)
  /\ UNCHANGED <<queue, toAdd, pending, tasks, nonIdle>> /\ (~failed => ~failed')
  /\ \A q \in Queues : InHand(owes'[t], q) + InHand(hi'.then, q) = InHand(owes[t], q) + InHand(hi.then, q)
  /\ \A step \in {"active", "idle"} : (owes'[t].step = step) = (owes[t].step = step)
  /\ \A u \in Workers : u # t => job'[u] = job[u]
  /\ t \in Workers => (job'[t].at = "idle") = (job[t].at = "idle") /\ job'[t].queue = job[t].queue

(* The parts of a thread's record, for arithmetic.                         *)
LEMMA HandFacts ==
  ASSUME TypeInv, NEW t \in Threads, ThreadSteps(t), NEW q \in Queues
  PROVE  /\ InHand(owes[t], q) \in Nat /\ InHand(owes'[t], q) \in Nat
         /\ InHand(hi.then, q) \in Nat /\ InHand(hi'.then, q) \in Nat
BY InHandType DEF TypeInv, ThreadSteps, HiType

(* Whether a queue is idle depends on it alone.                            *)
LEMMA SameIdle ==
  ASSUME NEW q, queue'[q] = queue[q], pending'[q] = pending[q]
  PROVE  IsIdle(q)' = IsIdle(q) /\ Size(queue[q])' = Size(queue[q])
BY DEF IsIdle, Size

(* A calm step keeps the count right.                                      *)
LEMMA CalmKeepsCount ==
  ASSUME TypeInv, Ledger, CountIsRight, NEW t \in Threads, Calm(t)
  PROVE  Ledger' /\ CountIsRight'
<1> USE SameGraph
<1>1. /\ ThreadSteps(t) /\ UNCHANGED <<graph, queue, toAdd, pending, tasks, nonIdle>>
      /\ ~failed' /\ \A u \in Workers : u # t => job'[u] = job[u]
  BY DEF Calm, ThreadSteps, CountIsRight
<1>2. ASSUME NEW q \in Queues
      PROVE  /\ Size(queue[q])' = toAdd'[q] + tasks'[q] + InHands(q)'
             /\ pending'[q] = tasks'[q] + InHands(q)' + Cardinality(WorkOn(q)')
  <2>1. /\ InHands(q) \in Nat /\ InHands(q)' \in Nat
        /\ InHands(q)' = InHands(q) + (InHand(owes'[t], q) - InHand(owes[t], q))
                                    + (InHand(hi'.then, q) - InHand(hi.then, q))
    BY <1>1, HandsMove
  <2>2. InHand(owes'[t], q) + InHand(hi'.then, q) = InHand(owes[t], q) + InHand(hi.then, q)
    BY DEF Calm
  <2>3. InHands(q)' = InHands(q)
    BY <1>1, <2>1, <2>2, HandFacts
  <2>4. (t \in WorkOn(q)) = (t \in WorkOn(q)')
    BY DEF Calm, WorkOn
  <2>5. Cardinality(WorkOn(q)') = Cardinality(WorkOn(q))
    BY <1>1, <2>4, WorkMoves
  <2>6. Size(queue[q])' = Size(queue[q])
    BY <1>1, SameIdle
  <2>7. QED
    BY <1>1, <2>3, <2>5, <2>6 DEF Ledger
<1>3. Ledger'
  BY <1>1, <1>2 DEF Ledger
<1>4. \A q : IsIdle(q)' = IsIdle(q)
  BY <1>1, SameIdle
<1>5. ActiveQueues' = ActiveQueues
  BY <1>1, <1>4 DEF ActiveQueues
<1>6. ASSUME NEW step \in {"active", "idle"} PROVE Owing(step)' = Owing(step)
  <2>1. /\ Owing(step) \in Nat
        /\ Owing(step)' = (Owing(step) - Owes01(owes[t], step)) + Owes01(owes'[t], step)
    BY <1>1, OwingMoves
  <2>2. Owes01(owes'[t], step) = Owes01(owes[t], step) /\ Owes01(owes[t], step) \in Nat
    BY DEF Calm, Owes01
  <2>3. QED
    BY <2>1, <2>2
<1>7. CountIsRight'
  BY <1>1, <1>5, <1>6, CountParts DEF CountIsRight, ActiveQueues
<1>8. QED
  BY <1>3, <1>7

(* A step that changes queue q only.                                       *)
LEMMA OneQueueLedger ==
  ASSUME TypeInv, Ledger, NEW t \in Threads, ThreadSteps(t), NEW q \in Queues,
         \A p \in Queues : p # q =>
           /\ queue'[p] = queue[p] /\ toAdd'[p] = toAdd[p]
           /\ tasks'[p] = tasks[p] /\ pending'[p] = pending[p]
           /\ InHand(owes'[t], p) + InHand(hi'.then, p) = InHand(owes[t], p) + InHand(hi.then, p)
           /\ (t \in WorkOn(p)) = (t \in WorkOn(p)'),
         \A u \in Workers : u # t => job'[u] = job[u],
         Size(queue[q])' = toAdd'[q] + tasks'[q] + InHands(q)',
         pending'[q] = tasks'[q] + InHands(q)' + Cardinality(WorkOn(q)')
  PROVE  Ledger' /\ \A p \in Queues : p # q => IsIdle(p)' = IsIdle(p)
<1> USE SameGraph DEF ThreadSteps
<1>1. ASSUME NEW p \in Queues, p # q
      PROVE  /\ Size(queue[p])' = toAdd'[p] + tasks'[p] + InHands(p)'
             /\ pending'[p] = tasks'[p] + InHands(p)' + Cardinality(WorkOn(p)')
             /\ IsIdle(p)' = IsIdle(p)
  <2>1. /\ InHands(p) \in Nat /\ InHands(p)' \in Nat
        /\ InHands(p)' = InHands(p) + (InHand(owes'[t], p) - InHand(owes[t], p))
                                    + (InHand(hi'.then, p) - InHand(hi.then, p))
    BY HandsMove
  <2>2. InHand(owes'[t], p) + InHand(hi'.then, p) = InHand(owes[t], p) + InHand(hi.then, p)
    BY <1>1
  <2>3. /\ InHand(owes[t], p) \in Nat /\ InHand(owes'[t], p) \in Nat
        /\ InHand(hi.then, p) \in Nat /\ InHand(hi'.then, p) \in Nat
    BY HandFacts
  <2>4. InHands(p)' = InHands(p)
    BY <2>1, <2>2, <2>3
  <2>5. Cardinality(WorkOn(p)') = Cardinality(WorkOn(p))
    BY <1>1, WorkMoves
  <2>6. Size(queue[p])' = Size(queue[p]) /\ IsIdle(p)' = IsIdle(p)
    BY <1>1, SameIdle
  <2>7. QED
    BY <1>1, <2>4, <2>5, <2>6 DEF Ledger
<1>2. Ledger'
  BY <1>1 DEF Ledger
<1>3. QED
  BY <1>1, <1>2

Idle01(q) == IF IsIdle(q) THEN 0 ELSE 1

(* The arithmetic of the count.                                            *)
LEMMA Sums ==
  ASSUME NEW n \in Int, NEW m \in Int, NEW c \in Int, NEW a \in Int, NEW i \in Int,
         NEW q0 \in Int, NEW q1 \in Int, NEW a0 \in Int, NEW a1 \in Int, NEW i0 \in Int, NEW i1 \in Int,
         n = c - a + i, (m - n) + (a1 - a0) = (q1 - q0) + (i1 - i0)
  PROVE  m = (c + (q1 - q0)) - ((a - a0) + a1) + ((i - i0) + i1)
OBVIOUS

(* A step that changes queue q only, in which t takes up h tasks and w     *)
(* workers turn to the queue, keeps the books when they change by as much, *)
(* and the count when the queue becomes active or idle by as much as t     *)
(* comes to owe reports, or gives one.                                     *)
LEMMA OneQueueKeepsCount ==
  ASSUME TypeInv, Ledger, CountIsRight, NEW t \in Threads, ThreadSteps(t), NEW q \in Queues,
         \A p \in Queues : p # q =>
           /\ queue'[p] = queue[p] /\ toAdd'[p] = toAdd[p]
           /\ tasks'[p] = tasks[p] /\ pending'[p] = pending[p]
           /\ InHand(owes'[t], p) + InHand(hi'.then, p) = InHand(owes[t], p) + InHand(hi.then, p)
           /\ (t \in WorkOn(p)) = (t \in WorkOn(p)'),
         \A u \in Workers : u # t => job'[u] = job[u], ~failed',
         NEW h \in Int, NEW w \in Int,
         InHand(owes'[t], q) + InHand(hi'.then, q) = (InHand(owes[t], q) + InHand(hi.then, q)) + h,
         Cardinality(WorkOn(q)') = Cardinality(WorkOn(q)) + w,
         toAdd'[q] \in Int, tasks'[q] \in Int, pending'[q] \in Int, nonIdle' \in Int,
         Size(queue[q])' = Size(queue[q]) + (toAdd'[q] - toAdd[q]) + (tasks'[q] - tasks[q]) + h,
         pending'[q] = pending[q] + (tasks'[q] - tasks[q]) + h + w,
         (nonIdle' - nonIdle) + (Owes01(owes'[t], "active") - Owes01(owes[t], "active")) =
           (Idle01(q)' - Idle01(q)) + (Owes01(owes'[t], "idle") - Owes01(owes[t], "idle"))
  PROVE  Ledger' /\ CountIsRight'
<1>1. /\ InHands(q) \in Nat /\ InHands(q)' \in Nat
      /\ InHands(q)' = InHands(q) + (InHand(owes'[t], q) - InHand(owes[t], q))
                                  + (InHand(hi'.then, q) - InHand(hi.then, q))
  BY HandsMove
<1>2. /\ InHand(owes[t], q) \in Nat /\ InHand(owes'[t], q) \in Nat
      /\ InHand(hi.then, q) \in Nat /\ InHand(hi'.then, q) \in Nat
  BY HandFacts
<1>3. InHands(q)' = InHands(q) + h
  BY <1>1, <1>2
<1>4. /\ Size(queue[q]) = toAdd[q] + tasks[q] + InHands(q)
      /\ pending[q] = tasks[q] + InHands(q) + Cardinality(WorkOn(q))
      /\ Cardinality(WorkOn(q)) \in Nat
      /\ toAdd[q] \in Int /\ tasks[q] \in Int /\ nonIdle \in Int
  BY WorkMoves DEF Ledger, TypeInv
<1>5. /\ Size(queue[q])' = toAdd'[q] + tasks'[q] + InHands(q)'
      /\ pending'[q] = tasks'[q] + InHands(q)' + Cardinality(WorkOn(q)')
  BY <1>1, <1>3, <1>4
<1>6. Ledger' /\ \A p \in Queues : p # q => IsIdle(p)' = IsIdle(p)
  BY <1>5, OneQueueLedger
<1>7. UNCHANGED graph
  BY DEF ThreadSteps
<1>8. /\ Cardinality(ActiveQueues) \in Nat
      /\ ~IsIdle(q) /\ ~IsIdle(q)' => Cardinality(ActiveQueues') = Cardinality(ActiveQueues)
      /\ IsIdle(q) /\ IsIdle(q)' => Cardinality(ActiveQueues') = Cardinality(ActiveQueues)
      /\ IsIdle(q) /\ ~IsIdle(q)' => Cardinality(ActiveQueues') = Cardinality(ActiveQueues) + 1
      /\ ~IsIdle(q) /\ IsIdle(q)' => Cardinality(ActiveQueues') = Cardinality(ActiveQueues) - 1
  BY <1>6, <1>7, ActiveMoves
<1>9. Cardinality(ActiveQueues') = Cardinality(ActiveQueues) + (Idle01(q)' - Idle01(q))
  BY <1>8 DEF Idle01
<1>10. /\ Owing("active") \in Nat
       /\ Owing("active")' = (Owing("active") - Owes01(owes[t], "active")) + Owes01(owes'[t], "active")
       /\ Owing("idle") \in Nat
       /\ Owing("idle")' = (Owing("idle") - Owes01(owes[t], "idle")) + Owes01(owes'[t], "idle")
  BY OwingMoves
<1>11. /\ Owes01(owes[t], "active") \in Int /\ Owes01(owes'[t], "active") \in Int
       /\ Owes01(owes[t], "idle") \in Int /\ Owes01(owes'[t], "idle") \in Int
       /\ Idle01(q) \in Int /\ Idle01(q)' \in Int
  BY DEF Owes01, Idle01
<1>12. nonIdle = Cardinality(ActiveQueues) - Owing("active") + Owing("idle")
  BY CountParts DEF CountEquation
<1>13. nonIdle' = Cardinality(ActiveQueues') - Owing("active")' + Owing("idle")'
  <2>1. /\ Cardinality(ActiveQueues) \in Int /\ Owing("active") \in Int /\ Owing("idle") \in Int
        /\ nonIdle \in Int /\ nonIdle' \in Int
    BY <1>4, <1>8, <1>10
  <2>2. QED
    BY <1>9, <1>10, <1>11, <1>12, <2>1, Sums
<1>14. CountIsRight'
  BY <1>13 DEF CountIsRight, ActiveQueues
<1>15. QED
  BY <1>6, <1>14

(* An item makes its queue one longer.                                     *)
LEMMA PushedSize ==
  ASSUME graph \in Graphs, NEW c \in QueueType, NEW d \in QueueType, NEW kind \in {"open", "work", "run"}, NEW r,
         d.open = (IF kind = "open" THEN c.open \cup {r} ELSE c.open),
         d.work = (IF kind = "work" THEN c.work + 1 ELSE c.work),
         d.run = (IF kind = "run" THEN c.run \cup {r} ELSE c.run),
         kind = "open" => r \notin c.open, kind = "run" => r \notin c.run
  PROVE  Size(d) = Size(c) + 1
<1>1. /\ IsFiniteSet(c.open) /\ IsFiniteSet(c.run)
      /\ Cardinality(c.open) \in Nat /\ Cardinality(c.run) \in Nat /\ c.work \in Nat
  BY SizeType DEF QueueType
<1>2. kind = "open" => Cardinality(d.open) = Cardinality(c.open) + 1
  BY <1>1, FS_AddElement
<1>3. kind = "run" => Cardinality(d.run) = Cardinality(c.run) + 1
  BY <1>1, FS_AddElement
<1>4. CASE kind = "open"
  BY <1>1, <1>2, <1>4 DEF Size
<1>5. CASE kind = "work"
  BY <1>1, <1>5 DEF Size
<1>6. CASE kind = "run"
  BY <1>1, <1>3, <1>6 DEF Size
<1>7. QED
  BY <1>4, <1>5, <1>6

(* An item that is pushed makes the queue one longer, and its task goes    *)
(* into num_tasks_to_add_ or, with those that wait there, into the hands   *)
(* of the thread, which reports the queue if it was idle.                  *)
LEMMA PushKeepsCount ==
  ASSUME TypeInv, LayersInv, Ledger, CountIsRight, NEW t \in Threads, PushItem(t), UNCHANGED graph
  PROVE  Ledger' /\ CountIsRight'
<1> USE SameGraph
<1>1. /\ tasks' = tasks /\ nonIdle' = nonIdle /\ hi' = hi /\ job' = job /\ failed' = failed
      /\ owes[t].step = "push" /\ owes[t].tasks = 0 /\ hi \in HiType /\ ~failed
  BY DEF PushItem, queueVars, idleVars, TypeInv, LayersInv, HandlingInv, CountIsRight
<1>2. CASE Dropped(t)
  <2>1. /\ owes' = [owes EXCEPT ![t] = OwesNothing]
        /\ UNCHANGED <<queue, toAdd, pending>>
    BY <1>2 DEF PushItem, Dropped, queueVars
  <2>2. ThreadSteps(t) /\ owes'[t] = OwesNothing
    BY <1>1, <2>1, Nothing DEF ThreadSteps, TypeInv
  <2>3. \A q : InHand(owes'[t], q) = 0 /\ InHand(owes[t], q) = 0
    BY <1>1, <2>2, Nothing DEF InHand
  <2>4. Calm(t)
    BY <1>1, <2>1, <2>2, <2>3, Nothing DEF Calm
  <2>5. QED
    BY <2>4, CalmKeepsCount
<1>3. CASE ~Dropped(t)
  <2>1. PICK q, kind, r : q = owes[t].queue /\ kind = owes[t].kind /\ r = owes[t].source
    OBVIOUS
  <2>2. q \in Queues /\ Submitted(q) \in Nat
    BY <1>3, <2>1, PushItemMoves DEF LayersInv
  <2>3. PICK n \in Nat : n = Submitted(q)
    BY <2>2
  <2>4. PICK c \in QueueType : c = queue[q]
    BY <2>2 DEF TypeInv
  <2>5. /\ queue' \in [Queues -> QueueType]
        /\ queue'[q].open = (IF kind = "open" THEN c.open \cup {r} ELSE c.open)
        /\ queue'[q].work = (IF kind = "work" THEN c.work + 1 ELSE c.work)
        /\ queue'[q].run = (IF kind = "run" THEN c.run \cup {r} ELSE c.run)
        /\ \A p \in Queues : p # q => queue'[p] = queue[p]
        /\ toAdd' = [toAdd EXCEPT ![q] = IF n > 0 THEN 0 ELSE @ + 1]
        /\ pending' = [pending EXCEPT ![q] = @ + n]
    BY <1>3, <2>1, <2>3, <2>4, PushItemMoves DEF LayersInv
  <2>6. PICK new \in OweType : /\ OwesChanged(t, new) /\ new.queue = q /\ new.tasks = n
                               /\ new.step = (IF IsIdle(q) THEN "active" ELSE "submit")
    BY <1>3, <2>1, <2>3, PushItemMoves DEF LayersInv
  <2>7. toAdd[q] \in Nat /\ tasks[q] \in Nat /\ pending[q] \in Int /\ nonIdle \in Int
    BY <2>2 DEF TypeInv
  <2>8. n = (IF running[q] > 0 THEN toAdd[q] + 1 ELSE 0)
    BY <2>3 DEF Submitted
  <2>9. ThreadSteps(t) /\ owes'[t] = new
    BY <1>1, <2>6 DEF ThreadSteps, OwesChanged
  <2>10. kind = "open" => r \notin c.open
    <3>1. SUFFICES ASSUME kind = "open" PROVE r \notin c.open
      OBVIOUS
    <3>2. r \in Sources /\ Pushes(t, "open", r)
      BY <1>1, <2>1, <3>1 DEF LayersInv, NamesInv, Pushes
    <3>3. owes[t].queue = QueueOf[r] /\ r \notin queue[QueueOf[r]].open
      BY <3>2 DEF LayersInv, OpenInv
    <3>4. QED
      BY <2>1, <2>4, <3>3
  <2>11. kind = "run" => r \notin c.run
    BY <1>3, <2>1, <2>2, <2>4 DEF Dropped, LayersInv, RunInv
  <2>12. kind \in {"open", "work", "run"}
    <3>1. owes[t] \in OweType
      BY DEF TypeInv
    <3>2. owes[t].kind \in {"none", "open", "work", "run"}
      BY <3>1 DEF OweType
    <3>3. owes[t].kind # "none"
      BY <1>1 DEF LayersInv, NamesInv
    <3>4. QED
      BY <2>1, <3>2, <3>3
  <2>13. PICK d \in QueueType : d = queue'[q]
    BY <2>2, <2>5
  <2>14. Size(d) = Size(c) + 1 /\ Size(c) \in Nat
    BY <2>5, <2>10, <2>11, <2>12, <2>13, PushedSize, SizeType DEF TypeInv
  <2>15. Size(queue[q]) = Size(c) /\ Size(queue[q])' = Size(d)
    BY <2>4, <2>13 DEF Size
  <2>16. \A p : InHand(owes[t], p) = 0 /\ InHand(owes'[t], p) = IF p = q THEN n ELSE 0
    BY <1>1, <2>6, <2>9 DEF InHand
  <2>17. InHand(hi.then, q) \in Nat /\ hi'.then = hi.then
    BY <1>1, InHandType DEF HiType
  <2>18. \A p : WorkOn(p)' = WorkOn(p)
    BY <1>1 DEF WorkOn
  <2>19. /\ toAdd'[q] = (IF n > 0 THEN 0 ELSE toAdd[q] + 1) /\ pending'[q] = pending[q] + n
         /\ \A p \in Queues : p # q => toAdd'[p] = toAdd[p] /\ pending'[p] = pending[p]
    BY <2>2, <2>5 DEF TypeInv
  <2>20. \A p \in Queues : p # q =>
           /\ queue'[p] = queue[p] /\ toAdd'[p] = toAdd[p]
           /\ tasks'[p] = tasks[p] /\ pending'[p] = pending[p]
           /\ InHand(owes'[t], p) + InHand(hi'.then, p) = InHand(owes[t], p) + InHand(hi.then, p)
           /\ (t \in WorkOn(p)) = (t \in WorkOn(p)')
    BY <1>1, <2>5, <2>16, <2>17, <2>18, <2>19
  <2>21. InHand(owes'[t], q) + InHand(hi'.then, q) = (InHand(owes[t], q) + InHand(hi.then, q)) + n
    BY <2>16, <2>17
  <2>22. Cardinality(WorkOn(q)) \in Nat
    BY <1>1, WorkMoves
  <2>23. Cardinality(WorkOn(q)') = Cardinality(WorkOn(q)) + 0
    BY <2>18, <2>22
  <2>24. Size(queue[q])' = Size(queue[q]) + (toAdd'[q] - toAdd[q]) + (tasks'[q] - tasks[q]) + n
    BY <1>1, <2>7, <2>8, <2>14, <2>15, <2>19
  <2>25. pending'[q] = pending[q] + (tasks'[q] - tasks[q]) + n + 0
    BY <1>1, <2>7, <2>19
  <2>26. ~IsIdle(q)'
    BY <2>14, <2>15 DEF IsIdle
  <2>27. (nonIdle' - nonIdle) + (Owes01(owes'[t], "active") - Owes01(owes[t], "active")) =
           (Idle01(q)' - Idle01(q)) + (Owes01(owes'[t], "idle") - Owes01(owes[t], "idle"))
    <3>1. /\ Owes01(owes[t], "active") = 0 /\ Owes01(owes[t], "idle") = 0 /\ Owes01(owes'[t], "idle") = 0
          /\ Owes01(owes'[t], "active") = IF IsIdle(q) THEN 1 ELSE 0
      BY <1>1, <2>6, <2>9 DEF Owes01
    <3>2. Idle01(q)' = 1 /\ Idle01(q) = IF IsIdle(q) THEN 0 ELSE 1
      BY <2>26 DEF Idle01
    <3>3. QED
      BY <1>1, <2>7, <3>1, <3>2
  <2>28. toAdd'[q] \in Int /\ tasks'[q] \in Int /\ pending'[q] \in Int /\ nonIdle' \in Int
    BY <1>1, <2>7, <2>19
  <2>29. \A u \in Workers : u # t => job'[u] = job[u]
    BY <1>1
  <2>30. n \in Int /\ 0 \in Int /\ ~failed'
    BY <1>1
  <2>31. QED
    BY <2>2, <2>9, <2>20, <2>21, <2>23, <2>24, <2>25, <2>27, <2>28, <2>29, <2>30, OneQueueKeepsCount
<1>4. QED
  BY <1>2, <1>3

-----------------------------------------------------------------------------
(* Steps of a thread t that leave the queues as they are.                  *)

(* What t owes, or has to do after HandleIdle, stays in its hands.         *)
Handed(t) ==
  /\ ThreadSteps(t) /\ HandlingInv' /\ handling' \in Nat
  /\ \A q \in Queues : InHand(owes'[t], q) + InHand(hi'.then, q) = InHand(owes[t], q) + InHand(hi.then, q)
  /\ \A step \in {"active", "idle"} : (owes'[t].step = step) = (owes[t].step = step)

(* No application goes back to the start, or on when it is done.           *)
AppMay ==
  \A u \in Apps :
    \/ job'[u].at = job[u].at /\ (state' = state \/ state # "not_started")
    \/ job[u].at # "done" /\ job'[u].at \notin {"start", "done"}

CalmStep(t) ==
  /\ Handed(t) /\ AppMay
  /\ UNCHANGED <<graph, queue, toAdd, pending, tasks, nonIdle>> /\ (~failed => ~failed')
  /\ src' \in [Sources -> SourceStates] /\ inFlight' \subseteq Sources /\ throttled' \subseteq Sources
  /\ running' \in [Queues -> Int]
  /\ job' \in [Threads -> JobType] /\ \A u \in Workers : u # t => job'[u] = job[u]
  /\ t \in Workers => (job'[t].at = "idle") = (job[t].at = "idle") /\ job'[t].queue = job[t].queue

(* The application starts once and is done once.                           *)
LEMMA AppsGoOn ==
  ASSUME AppInv, AppMay
  PROVE  AppInv' /\ (~Done' => ~Done)
BY DEF AppInv, AppMay, Done

(* Such a step preserves the invariant if it keeps the layers in turn.     *)
LEMMA CalmStepSafe ==
  ASSUME SchedulerInv, NEW t \in Threads, CalmStep(t), LayersInTurn', OpenInv', RunInv', NamesInv'
  PROVE  SchedulerInv'
<1>1. UNCHANGED graph
  BY DEF CalmStep
<1>2. TypeInv'
  BY <1>1, SameGraph DEF CalmStep, Handed, ThreadSteps, SchedulerInv, TypeInv
<1>3. LayersInv'
  BY DEF CalmStep, Handed, LayersInv
<1>4. AppInv' /\ (~Done' => ~Done)
  BY AppsGoOn DEF CalmStep, SchedulerInv
<1>5. Calm(t)
  BY DEF CalmStep, Handed, Calm
<1>6. ~Done => Ledger' /\ CountIsRight'
  BY <1>5, CalmKeepsCount DEF SchedulerInv
<1>7. QED
  BY <1>2, <1>3, <1>4, <1>6 DEF SchedulerInv

(* Most of them do.                                                        *)
LEMMA KeepingStepSafe ==
  ASSUME SchedulerInv, NEW t \in Threads, CalmStep(t), Keeps(t)
  PROVE  SchedulerInv'
<1>1. LayersInTurn' /\ OpenInv' /\ RunInv' /\ NamesInv'
  BY KeepsLayers DEF SchedulerInv
<1>2. QED
  BY <1>1, CalmStepSafe

(* A thread that owes nothing may begin to add an item.                    *)
LEMMA HandedAdd ==
  ASSUME TypeInv, HandlingInv, NEW t \in Threads, UNCHANGED graph, owes[t] = OwesNothing,
         handling' \in Nat, handling' = 0 => handling = 0,
         NEW new \in OweType, OwesChanged(t, new), new = OwesNothing \/ (new.step = "push" /\ new.tasks = 0),
         hi' \in HiType, hi'.then = hi.then, hi'.by = hi.by, handling = 0 => hi' = hi,
         hi'.at = "loop" => \/ hi.at = "loop" /\ hi.by # t
                            \/ new = OwesNothing /\ (hi.at = "loop" \/ hi.by = t)
  PROVE  Handed(t)
<1> USE Nothing
<1>1. ThreadSteps(t) /\ handling' \in Nat /\ owes'[t] = new
  BY DEF ThreadSteps, OwesChanged, TypeInv
<1>2. \A q : InHand(owes'[t], q) = 0 /\ InHand(owes[t], q) = 0
  BY <1>1 DEF InHand
<1>3. \A q \in Queues : InHand(owes'[t], q) + InHand(hi'.then, q) = InHand(owes[t], q) + InHand(hi.then, q)
  BY <1>2
<1>4. HandlingInv'
  <2>1. handling' = 0 => hi' = NotHandling
    BY DEF HandlingInv
  <2>2. hi'.then.step \in {"none", "submit"}
    BY DEF HandlingInv
  <2>3. hi'.at = "loop" => \A u \in Threads : hi'.by = u => owes'[u] = OwesNothing
    BY <1>1 DEF HandlingInv, OwesChanged
  <2>4. \A u \in Threads : owes'[u].step \in {"push", "idle"} => owes'[u].tasks = 0
    BY <1>1 DEF HandlingInv, OwesChanged
  <2>5. QED
    BY <2>1, <2>2, <2>3, <2>4 DEF HandlingInv
<1>5. \A step \in {"active", "idle"} : (owes'[t].step = step) = (owes[t].step = step)
  BY <1>1
<1>6. QED
  BY <1>1, <1>3, <1>4, <1>5 DEF Handed

(* A thread that owes nothing may do something else.                       *)
LEMMA HandedFree ==
  ASSUME TypeInv, HandlingInv, NEW t \in Threads, UNCHANGED <<graph, owes>>, owes[t] = OwesNothing,
         handling' \in Nat, handling' = 0 => handling = 0,
         hi' \in HiType, hi'.then = hi.then, hi'.by = hi.by, handling = 0 => hi' = hi,
         hi'.at = "loop" => hi.at = "loop" \/ hi.by = t
  PROVE  Handed(t)
<1>1. OwesNothing \in OweType /\ OwesChanged(t, OwesNothing)
  BY Nothing DEF OwesChanged, TypeInv
<1>2. QED
  BY <1>1, HandedAdd

(* A thread that owes nothing calls HandleIdle.                            *)
LEMMA HandedCall ==
  ASSUME TypeInv, HandlingInv, NEW t \in Threads, UNCHANGED graph, owes[t] = OwesNothing, Unlocked,
         CallHandleIdle(t, OwesNothing)
  PROVE  Handed(t) /\ owes'[t] = OwesNothing /\ hi'.at \in {"loop", hi.at} /\ (hi'.at # "loop" => hi' = hi)
<1> USE Nothing
<1>1. /\ handling' \in Nat /\ hi' \in HiType /\ HandlingInv' /\ OwesChanged(t, OwesNothing)
      /\ \/ hi' = hi
         \/ hi = NotHandling /\ hi'.at = "loop" /\ hi'.then = OwesNothing
  BY CallHandleIdleMoves
<1>2. owes'[t] = owes[t] /\ hi'.then = hi.then /\ ThreadSteps(t)
  BY <1>1 DEF OwesChanged, ThreadSteps
<1>3. QED
  BY <1>1, <1>2 DEF Handed

(* A thread returns from HandleIdle and takes up what it had to do.        *)
LEMMA HandedReturn ==
  ASSUME TypeInv, HandlingInv, NEW t \in Threads, UNCHANGED graph, owes[t] = OwesNothing, hi.by = t,
         ReturnFromHandleIdle
  PROVE  Handed(t) /\ owes'[t].step # "push" /\ hi'.at = "none"
<1> USE Nothing
<1>1. handling' \in Nat /\ hi' = NotHandling /\ HandlingInv' /\ OwesChanged(t, hi.then)
  BY ReturnMoves
<1>2. ThreadSteps(t) /\ owes'[t] = hi.then /\ hi'.then = owes[t]
  BY <1>1 DEF OwesChanged, ThreadSteps
<1>3. hi.then.step \in {"none", "submit"}
  BY DEF HandlingInv
<1>4. \A q \in Queues : InHand(hi.then, q) \in Nat /\ InHand(owes[t], q) \in Nat
  BY InHandType DEF TypeInv, HiType
<1>5. \A q \in Queues : InHand(owes'[t], q) + InHand(hi'.then, q) = InHand(owes[t], q) + InHand(hi.then, q)
  BY <1>2, <1>4
<1>6. \A step \in {"active", "idle"} : (owes'[t].step = step) = (owes[t].step = step)
  BY <1>2, <1>3
<1>7. QED
  BY <1>1, <1>2, <1>3, <1>5, <1>6 DEF Handed

(* What a step changes of the jobs.                                        *)
LEMMA JobsStay ==
  ASSUME TypeInv, NEW t \in Threads, UNCHANGED job, state' = state \/ state # "not_started"
  PROVE  /\ AppMay /\ NewJob(t)
         /\ job' \in [Threads -> JobType] /\ \A u \in Workers : u # t => job'[u] = job[u]
         /\ t \in Workers => (job'[t].at = "idle") = (job[t].at = "idle") /\ job'[t].queue = job[t].queue
BY DEF AppMay, NewJob, TypeInv

(* A worker that is busy goes on with its item.                            *)
LEMMA WorkerGoes ==
  ASSUME TypeInv, NEW t \in Workers, NEW where \in Places, where # "idle", job[t].at # "idle",
         Goto(t, where), UNCHANGED state
  PROVE  /\ AppMay /\ JobMoved(t, where)
         /\ job' \in [Threads -> JobType] /\ \A u \in Workers : u # t => job'[u] = job[u]
         /\ t \in Workers => (job'[t].at = "idle") = (job[t].at = "idle") /\ job'[t].queue = job[t].queue
<1>1. t \in Threads /\ t \notin Apps /\ Workers \subseteq Threads /\ Apps \subseteq Threads
  BY SchedulerAssumption DEF Threads
<1>2. JobMoved(t, where)
  BY <1>1, GotoMoves
<1>3. QED
  BY <1>1, <1>2 DEF JobMoved, AppMay

(* An application goes on.                                                 *)
LEMMA AppGoes ==
  ASSUME TypeInv, NEW t \in Apps, NEW where \in Places \ {"start", "done"},
         job[t].at \notin {"start", "done"},
         Goto(t, where), state' = state \/ state # "not_started"
  PROVE  /\ AppMay /\ JobMoved(t, where) /\ t \notin Workers
         /\ job' \in [Threads -> JobType] /\ \A u \in Workers : u # t => job'[u] = job[u]
<1>1. t \in Threads /\ t \notin Workers /\ Workers \subseteq Threads /\ Apps \subseteq Threads
  BY SchedulerAssumption DEF Threads
<1>2. JobMoved(t, where)
  BY <1>1, GotoMoves
<1>3. QED
  BY <1>1, <1>2 DEF JobMoved, AppMay

(* All queues are stopped or set running.                                  *)
LEMMA RunningType ==
  ASSUME TypeInv, NEW on \in BOOLEAN, SetQueuesRunning(on)
  PROVE  running' \in [Queues -> Int]
BY DEF TypeInv, SetQueuesRunning

-----------------------------------------------------------------------------
(* The steps of HandleIdle.                                                *)

(* Facts about the thread in the loop of HandleIdle, or between.           *)
LEMMA InsideFacts ==
  ASSUME SchedulerInv, NEW t \in Threads, InLoop(t) \/ \E at \in HiPlaces : Between(t, at)
  PROVE  /\ TypeInv /\ LayersInv /\ HandlingInv /\ owes[t] = OwesNothing /\ hi.by = t /\ hi \in HiType
         /\ hi.at # "none" => handling # 0
BY Nothing DEF SchedulerInv, LayersInv, HandlingInv, InLoop, Between, TypeInv

(* Nothing is idle, or the graph is not running: HandleIdle returns.       *)
LEMMA LeaveHandleIdleSafe ==
  ASSUME SchedulerInv, NEW t \in Threads, LeaveHandleIdle(t), UNCHANGED graph
  PROVE  SchedulerInv'
<1>1. /\ TypeInv /\ LayersInv /\ HandlingInv /\ owes[t] = OwesNothing /\ hi.by = t
  BY InsideFacts DEF LeaveHandleIdle
<1>2. Handed(t) /\ owes'[t].step # "push" /\ hi'.at = "none"
  BY <1>1, HandedReturn DEF LeaveHandleIdle
<1>3. /\ UNCHANGED <<queue, toAdd, pending, running, tasks, nonIdle, src, inFlight, throttled, job, failed>>
      /\ UNCHANGED state
  BY DEF LeaveHandleIdle, queueVars, sourceVars
<1>4. CalmStep(t)
  BY <1>1, <1>2, <1>3, JobsStay DEF CalmStep, TypeInv
<1>5. Keeps(t)
  BY <1>1, <1>2, <1>3, JobsStay DEF Keeps, NewOwes, Handed, ThreadSteps
<1>6. QED
  BY <1>4, <1>5, KeepingStepSafe

(* The scheduler quits.                                                    *)
LEMMA QuitSafe ==
  ASSUME SchedulerInv, NEW t \in Threads, Quit(t), UNCHANGED graph
  PROVE  SchedulerInv'
<1>1. /\ TypeInv /\ LayersInv /\ HandlingInv /\ owes[t] = OwesNothing /\ hi.by = t
  BY InsideFacts DEF Quit
<1>2. Handed(t) /\ owes'[t].step # "push" /\ hi'.at = "none"
  BY <1>1, HandedReturn DEF Quit
<1>3. /\ UNCHANGED <<queue, toAdd, pending, tasks, nonIdle, src, inFlight, throttled, job, failed>>
      /\ state # "not_started"
  BY DEF Quit, Handles, sourceVars
<1>4. running' \in [Queues -> Int]
  BY <1>1, RunningType DEF Quit
<1>5. CalmStep(t)
  BY <1>1, <1>2, <1>3, <1>4, JobsStay DEF CalmStep, TypeInv
<1>6. Keeps(t)
  BY <1>1, <1>2, <1>3, JobsStay DEF Keeps, NewOwes, Handed, ThreadSteps
<1>7. QED
  BY <1>5, <1>6, KeepingStepSafe

HiMoved(at, left) ==
  hi' \in HiType /\ hi'.at = at /\ hi'.left = left /\ hi'.by = hi.by /\ hi'.then = hi.then

(* The thread in HandleIdle moves on, ...                                  *)
LEMMA HiGoes ==
  ASSUME hi \in HiType, UNCHANGED graph, NEW at \in HiPlaces, hi' = [hi EXCEPT !.at = at]
  PROVE  HiMoved(at, hi.left)
BY SameGraph DEF HiType, HiMoved

(* ... with something left to do, ...                                      *)
LEMMA HiGoesWith ==
  ASSUME hi \in HiType, UNCHANGED graph, NEW at \in HiPlaces, NEW left \in SUBSET Sources,
         hi' = [hi EXCEPT !.at = at, !.left = left]
  PROVE  HiMoved(at, left)
BY SameGraph DEF HiType, HiMoved

(* ... or less of it.                                                      *)
LEMMA HiLeaves ==
  ASSUME hi \in HiType, UNCHANGED graph, NEW s, hi' = [hi EXCEPT !.left = @ \ {s}]
  PROVE  HiMoved(hi.at, hi.left \ {s})
<1>1. PICK left \in SUBSET Sources : left = hi.left \ {s}
  BY DEF HiType
<1>2. hi' = [hi EXCEPT !.left = left]
  BY <1>1
<1>3. HiMoved(hi.at, left)
  BY <1>2, SameGraph DEF HiType, HiMoved
<1>4. QED
  BY <1>1, <1>3

(* HandleIdle returns, or goes round for a call that came meanwhile.       *)
LEMMA NothingLeftToDoSafe ==
  ASSUME SchedulerInv, NEW t \in Threads, NothingLeftToDo(t), UNCHANGED graph
  PROVE  SchedulerInv'
<1>0. "repeat" \in HiPlaces /\ "loop" \in HiPlaces
  BY DEF HiPlaces
<1>1. /\ TypeInv /\ LayersInv /\ HandlingInv /\ owes[t] = OwesNothing /\ hi.by = t /\ hi \in HiType
      /\ handling # 0
  BY <1>0, InsideFacts DEF NothingLeftToDo, InLoop, Between
<1>2. Handed(t) /\ owes'[t].step # "push" /\ hi'.at \in {"none", "loop"}
  <2>1. CASE handling > 1
    <3>1. handling' = 1 /\ hi' = [hi EXCEPT !.at = "loop"] /\ UNCHANGED owes
      BY <2>1 DEF NothingLeftToDo, LeaveOrRepeat
    <3>2. HiMoved("loop", hi.left)
      BY <1>0, <1>1, <3>1, HiGoes
    <3>3. QED
      BY <1>1, <3>1, <3>2, HandedFree, Nothing DEF HiMoved
  <2>2. CASE ~(handling > 1)
    BY <1>1, <2>2, HandedReturn DEF NothingLeftToDo, LeaveOrRepeat
  <2>3. QED
    BY <2>1, <2>2
<1>3. UNCHANGED <<queue, toAdd, pending, running, tasks, nonIdle, src, inFlight, throttled, job, failed, state>>
  BY DEF NothingLeftToDo, queueVars, sourceVars
<1>4. CalmStep(t)
  BY <1>1, <1>2, <1>3, JobsStay DEF CalmStep, TypeInv
<1>5. Keeps(t)
  BY <1>1, <1>2, <1>3, JobsStay DEF Keeps, NewOwes, Handed, ThreadSteps
<1>6. QED
  BY <1>4, <1>5, KeepingStepSafe

(* A step of the thread in HandleIdle that moves it on and adds nothing.   *)
LEMMA MovedSafe ==
  ASSUME SchedulerInv, NEW t \in Threads, UNCHANGED graph, owes[t] = OwesNothing, hi.by = t,
         NEW at, NEW left, HiMoved(at, left), hi.at # "none",
         UNCHANGED <<queue, toAdd, pending, tasks, nonIdle, handling, src, inFlight, throttled, job, failed,
                     state, owes>>,
         running' \in [Queues -> Int], at \in {"pause", "activate"} => \A s \in left : Started(s)
  PROVE  SchedulerInv'
<1>1. TypeInv /\ HandlingInv /\ handling # 0 /\ handling \in Nat
  BY Nothing DEF SchedulerInv, LayersInv, HandlingInv, TypeInv
<1>2. Handed(t)
  BY <1>1, HandedFree DEF HiMoved
<1>3. CalmStep(t)
  BY <1>1, <1>2, JobsStay DEF CalmStep, TypeInv
<1>4. Keeps(t)
  BY <1>1, JobsStay DEF Keeps, NewOwes, HiMoved
<1>5. QED
  BY <1>3, <1>4, KeepingStepSafe

(* The steps that do just that.                                            *)
LEMMA PauseResumeSafe ==
  ASSUME SchedulerInv, NEW t \in Threads, UNCHANGED graph,
         PauseQueues(t) \/ ResumeQueues(t) \/ Unthrottle(t) \/ Unthrottled(t)
  PROVE  SchedulerInv'
<1>0. /\ TypeInv /\ hi \in HiType /\ hi.left \in SUBSET Sources /\ running \in [Queues -> Int]
      /\ throttled \in SUBSET Sources
      /\ {"pause", "activate", "unthrottle", "loop", "repeat", "submit"} \subseteq HiPlaces
      /\ hi.at \in {"pause", "activate"} => \A s \in hi.left : Started(s)
  BY DEF SchedulerInv, LayersInv, RunInv, TypeInv, HiType, HiPlaces
<1>1. owes[t] = OwesNothing /\ hi.by = t /\ hi.at # "none"
  BY <1>0, InsideFacts DEF PauseQueues, ResumeQueues, Unthrottle, Unthrottled, InLoop, Between
<1>2. UNCHANGED <<queue, toAdd, pending, tasks, nonIdle, handling, src, inFlight, throttled, job, failed,
                  state, owes>>
  BY DEF PauseQueues, ResumeQueues, Unthrottle, Unthrottled, queueVars, sourceVars
<1>3. CASE PauseQueues(t)
  <2>1. running' \in [Queues -> Int] /\ hi.at = "pause"
    BY <1>0, <1>3, RunningType DEF PauseQueues, Between
  <2>2. HiMoved("activate", hi.left)
    BY <1>0, <1>3, HiGoes DEF PauseQueues
  <2>3. QED
    BY <1>0, <1>1, <1>2, <2>1, <2>2, MovedSafe
<1>4. CASE ResumeQueues(t)
  <2>1. running' \in [Queues -> Int]
    BY <1>0, <1>4, RunningType DEF ResumeQueues
  <2>2. HiMoved("submit", hi.left)
    BY <1>0, <1>4, HiGoes DEF ResumeQueues
  <2>3. QED
    BY <1>0, <1>1, <1>2, <2>1, <2>2, MovedSafe
<1>5. CASE Unthrottle(t)
  <2>1. running' \in [Queues -> Int]
    BY <1>0, <1>5 DEF Unthrottle, queueVars
  <2>2. PICK at \in {"repeat", "unthrottle"} : hi' = [hi EXCEPT !.at = at, !.left = throttled]
    BY <1>5 DEF Unthrottle
  <2>3. HiMoved(at, throttled)
    BY <1>0, <2>2, HiGoesWith, Zenon
  <2>4. QED
    BY <1>0, <1>1, <1>2, <2>1, <2>2, <2>3, MovedSafe
<1>6. CASE Unthrottled(t)
  <2>1. running' \in [Queues -> Int]
    BY <1>0, <1>6 DEF Unthrottled, queueVars
  <2>2. HiMoved("loop", hi.left)
    BY <1>0, <1>6, HiGoes DEF Unthrottled
  <2>3. QED
    BY <1>0, <1>1, <1>2, <2>1, <2>2, MovedSafe
<1>7. QED
  BY <1>3, <1>4, <1>5, <1>6

(* The next layer of sources is activated, or blocked by an unopened one.  *)
LEMMA ActivateLayerSafe ==
  ASSUME SchedulerInv, NEW t \in Threads, ActivateLayer(t), UNCHANGED graph
  PROVE  SchedulerInv'
<1>1. /\ TypeInv /\ LayersInv /\ HandlingInv /\ owes[t] = OwesNothing /\ hi.by = t /\ hi \in HiType
      /\ hi.at = "loop" /\ handling \in Nat /\ handling # 0
  BY InsideFacts DEF ActivateLayer, InLoop, TypeInv
<1>2. UNCHANGED <<queue, toAdd, pending, running, tasks, nonIdle, handling, state, inFlight, throttled,
                  job, owes, failed>>
  BY DEF ActivateLayer, queueVars
<1>3. NextLayer \in SUBSET Sources /\ "pause" \in HiPlaces
  BY DEF NextLayer, Ready, HiPlaces
<1>4. src' \in [Sources -> SourceStates]
  BY <1>1 DEF ActivateLayer, TypeInv, SourceStates
<1>5. hi' \in HiType /\ hi'.then = hi.then /\ hi'.by = hi.by
  <2>1. CASE BlockedByUnopened
    BY <1>1, <2>1, SameGraph DEF ActivateLayer
  <2>2. CASE ~BlockedByUnopened
    <3>1. hi' = [hi EXCEPT !.at = "pause", !.left = NextLayer]
      BY <2>2 DEF ActivateLayer
    <3>2. HiMoved("pause", NextLayer)
      BY <1>1, <1>3, <3>1, HiGoesWith, Zenon
    <3>3. QED
      BY <3>2 DEF HiMoved
  <2>3. QED
    BY <2>1, <2>2
<1>6. Handed(t)
  BY <1>1, <1>2, <1>5, HandedFree
<1>7. CalmStep(t)
  BY <1>1, <1>2, <1>4, <1>6, JobsStay DEF CalmStep, TypeInv
<1>8. LayersInTurn' /\ OpenInv' /\ RunInv' /\ NamesInv'
  BY <1>1, ActivateKeepsLayers
<1>9. QED
  BY <1>7, <1>8, CalmStepSafe

Adds(t) ==
  \E new \in OweType : /\ OwesChanged(t, new) /\ (new = OwesNothing \/ (new.step = "push" /\ new.tasks = 0))

(* A source that has been started is scheduled, or is not.                 *)
LEMMA AddedSource ==
  ASSUME TypeInv, NEW t \in Threads, owes[t] = OwesNothing, NEW s \in Sources, Started(s),
         AddSource(t, s) \/ UNCHANGED owes
  PROVE  Adds(t) /\ NewOwes(t)
<1>1. OwesNothing \in OweType
  BY Nothing
<1>2. CASE UNCHANGED owes
  <2>1. OwesChanged(t, OwesNothing)
    BY <1>2 DEF OwesChanged, TypeInv
  <2>2. QED
    BY <1>1, <1>2, <2>1 DEF Adds, NewOwes
<1>3. CASE AddSource(t, s)
  <2>1. QueueOf[s] \in Queues
    BY GraphFacts DEF TypeInv
  <2>2. OwesChanged(t, OwesNothing) \/ OwesChanged(t, ToPush(QueueOf[s], "run", s))
    BY <1>3, <2>1, AddItemOwes DEF AddSource
  <2>3. ToPush(QueueOf[s], "run", s) \in OweType
    BY <2>1 DEF ToPush, OweType
  <2>4. CASE OwesChanged(t, OwesNothing)
    BY <1>1, <2>4 DEF Adds, NewOwes, OwesChanged
  <2>5. CASE OwesChanged(t, ToPush(QueueOf[s], "run", s))
    <3>1. NewOwes(t)
      BY <2>5 DEF NewOwes, OwesChanged
    <3>2. QED
      BY <2>3, <2>5, <3>1, ToPushFields DEF Adds
  <2>6. QED
    BY <2>2, <2>4, <2>5
<1>4. QED
  BY <1>2, <1>3

(* Another node is scheduled.                                              *)
LEMMA AddedWork ==
  ASSUME TypeInv, NEW t \in Threads, owes[t] = OwesNothing, NEW q \in Queues, AddItem(t, q, "work", "none")
  PROVE  Adds(t) /\ NewOwes(t)
<1>1. OwesNothing \in OweType
  BY Nothing
<1>2. OwesChanged(t, OwesNothing) \/ OwesChanged(t, ToPush(q, "work", "none"))
  BY AddItemOwes
<1>3. ToPush(q, "work", "none") \in OweType
  BY DEF ToPush, OweType
<1>4. CASE OwesChanged(t, OwesNothing)
  BY <1>1, <1>4 DEF Adds, NewOwes, OwesChanged
<1>5. CASE OwesChanged(t, ToPush(q, "work", "none"))
  <2>1. NewOwes(t)
    BY <1>5 DEF NewOwes, OwesChanged
  <2>2. QED
    BY <1>3, <1>5, <2>1, ToPushFields DEF Adds
<1>6. QED
  BY <1>2, <1>4, <1>5

(* The two steps of HandleIdle that schedule a source.                     *)
LEMMA ActivateSourceSafe ==
  ASSUME SchedulerInv, NEW t \in Threads, ActivateSource(t) \/ UnthrottleSource(t), UNCHANGED graph
  PROVE  SchedulerInv'
<1>0. "activate" \in HiPlaces /\ "unthrottle" \in HiPlaces
  BY DEF HiPlaces
<1>1. /\ TypeInv /\ LayersInv /\ HandlingInv /\ owes[t] = OwesNothing /\ hi.by = t /\ hi \in HiType
      /\ hi.at \in {"activate", "unthrottle"} /\ handling \in Nat /\ handling # 0
  BY <1>0, InsideFacts DEF ActivateSource, UnthrottleSource, Between, TypeInv
<1>2. UNCHANGED <<queue, toAdd, pending, running, tasks, nonIdle, handling, state, src, inFlight,
                  job, failed>>
  BY DEF ActivateSource, UnthrottleSource, queueVars, sourceVars
<1>3. PICK s \in hi.left :
        /\ hi' = [hi EXCEPT !.left = @ \ {s}]
        /\ (Started(s) /\ AddSource(t, s)) \/ UNCHANGED owes
  BY <1>1 DEF ActivateSource, UnthrottleSource, Between, LayersInv, RunInv, Started, HiType
<1>4. s \in Sources /\ HiMoved(hi.at, hi.left \ {s})
  BY <1>1, <1>3, HiLeaves DEF HiType
<1>5. Adds(t) /\ NewOwes(t)
  <2>1. CASE UNCHANGED owes
    BY <1>1, <2>1, Nothing DEF Adds, NewOwes, OwesChanged, TypeInv
  <2>2. CASE ~UNCHANGED owes
    BY <1>1, <1>3, <1>4, <2>2, AddedSource
  <2>3. QED
    BY <2>1, <2>2
<1>6. throttled' \subseteq Sources
  BY <1>1 DEF ActivateSource, UnthrottleSource, sourceVars, TypeInv
<1>7. PICK new \in OweType : /\ OwesChanged(t, new)
                             /\ new = OwesNothing \/ (new.step = "push" /\ new.tasks = 0)
  BY <1>5 DEF Adds
<1>8. Handed(t)
  BY <1>1, <1>2, <1>4, <1>7, HandedAdd DEF HiMoved
<1>9. CalmStep(t)
  BY <1>1, <1>2, <1>6, <1>8, JobsStay DEF CalmStep, TypeInv
<1>10. Keeps(t)
  BY <1>1, <1>2, <1>4, <1>5, <1>7, JobsStay DEF Keeps, OwesChanged, HiMoved, LayersInv, RunInv
<1>11. QED
  BY <1>9, <1>10, KeepingStepSafe

(* The waiting tasks of the running queues are submitted: an empty queue   *)
(* has none, so no queue becomes active.                                   *)
LEMMA SubmitWaitingKeeps ==
  ASSUME TypeInv, SubmitWaiting, NEW t \in Threads, Handed(t), UNCHANGED <<graph, nonIdle>>, ~failed => ~failed',
         \A u \in Workers : u # t => job'[u] = job[u],
         t \in Workers => (job'[t].at = "idle") = (job[t].at = "idle") /\ job'[t].queue = job[t].queue
  PROVE  /\ toAdd' \in [Queues -> Nat] /\ pending' \in [Queues -> Int] /\ tasks' \in [Queues -> Nat]
         /\ Ledger /\ CountIsRight => Ledger' /\ CountIsRight'
<1> USE SameGraph
<1>1. /\ toAdd \in [Queues -> Nat] /\ pending \in [Queues -> Int] /\ tasks \in [Queues -> Nat]
      /\ running \in [Queues -> Int]
  BY DEF TypeInv
<1>2. PICK submit \in [Queues -> Nat] : submit = [q \in Queues |-> IF running[q] > 0 THEN toAdd[q] ELSE 0]
  BY <1>1
<1>3. /\ toAdd' = [q \in Queues |-> toAdd[q] - submit[q]]
      /\ pending' = [q \in Queues |-> pending[q] + submit[q]]
      /\ tasks' = [q \in Queues |-> tasks[q] + submit[q]]
      /\ UNCHANGED queue
  BY <1>2 DEF SubmitWaiting
<1>4. \A q \in Queues : submit[q] \in Nat /\ submit[q] <= toAdd[q]
  BY <1>1, <1>2
<1>5. toAdd' \in [Queues -> Nat] /\ pending' \in [Queues -> Int] /\ tasks' \in [Queues -> Nat]
  BY <1>1, <1>3, <1>4
<1>6. ASSUME Ledger, CountIsRight PROVE Ledger' /\ CountIsRight'
  <2>1. ASSUME NEW q \in Queues
        PROVE  /\ Size(queue[q])' = toAdd'[q] + tasks'[q] + InHands(q)'
               /\ pending'[q] = tasks'[q] + InHands(q)' + Cardinality(WorkOn(q)')
               /\ IsIdle(q)' = IsIdle(q)
    <3>1. /\ InHands(q) \in Nat /\ InHands(q)' \in Nat
          /\ InHands(q)' = InHands(q) + (InHand(owes'[t], q) - InHand(owes[t], q))
                                      + (InHand(hi'.then, q) - InHand(hi.then, q))
      BY HandsMove DEF Handed
    <3>2. InHand(owes'[t], q) + InHand(hi'.then, q) = InHand(owes[t], q) + InHand(hi.then, q)
      BY DEF Handed
    <3>3. InHands(q)' = InHands(q)
      BY <3>1, <3>2, HandFacts DEF Handed
    <3>4. (t \in WorkOn(q)) = (t \in WorkOn(q)')
      BY DEF WorkOn
    <3>5. Cardinality(WorkOn(q)') = Cardinality(WorkOn(q)) /\ Cardinality(WorkOn(q)) \in Nat
      BY <3>4, WorkMoves
    <3>6. Size(queue[q])' = Size(queue[q])
      BY <1>3 DEF Size
    <3>7. /\ Size(queue[q]) = toAdd[q] + tasks[q] + InHands(q)
          /\ pending[q] = tasks[q] + InHands(q) + Cardinality(WorkOn(q))
      BY <1>6 DEF Ledger
    <3>8. /\ toAdd[q] \in Nat /\ tasks[q] \in Nat /\ submit[q] \in Nat /\ submit[q] <= toAdd[q]
          /\ toAdd'[q] = toAdd[q] - submit[q] /\ tasks'[q] = tasks[q] + submit[q]
          /\ pending'[q] = pending[q] + submit[q]
      BY <1>1, <1>3, <1>4
    <3>9. /\ Size(queue[q])' = toAdd'[q] + tasks'[q] + InHands(q)'
          /\ pending'[q] = tasks'[q] + InHands(q)' + Cardinality(WorkOn(q)')
      BY <3>1, <3>3, <3>5, <3>6, <3>7, <3>8
    <3>10. Size(queue[q]) = 0 => pending'[q] = pending[q]
      <4>1. SUFFICES ASSUME Size(queue[q]) = 0 PROVE submit[q] = 0
        BY <3>1, <3>5, <3>7, <3>8
      <4>2. toAdd[q] = 0
        BY <3>1, <3>7, <3>8, <4>1
      <4>3. QED
        BY <3>8, <4>2
    <3>11. IsIdle(q)' = IsIdle(q)
      BY <3>6, <3>10 DEF IsIdle
    <3>12. QED
      BY <3>9, <3>11
  <2>2. Ledger'
    BY <2>1 DEF Ledger
  <2>3. ActiveQueues' = ActiveQueues
    BY <2>1 DEF ActiveQueues
  <2>4. ASSUME NEW step \in {"active", "idle"} PROVE Owing(step)' = Owing(step)
    <3>1. /\ Owing(step) \in Nat
          /\ Owing(step)' = (Owing(step) - Owes01(owes[t], step)) + Owes01(owes'[t], step)
      BY OwingMoves DEF Handed
    <3>2. Owes01(owes'[t], step) = Owes01(owes[t], step) /\ Owes01(owes[t], step) \in Nat
      BY DEF Handed, Owes01
    <3>3. QED
      BY <3>1, <3>2
  <2>5. CountIsRight'
    BY <1>6, <2>3, <2>4, CountParts DEF CountIsRight, ActiveQueues
  <2>6. QED
    BY <2>2, <2>5
<1>7. QED
  BY <1>5, <1>6

(* The tasks of the new layer go to the executors.                         *)
LEMMA SubmitLayerSafe ==
  ASSUME SchedulerInv, NEW t \in Threads, SubmitLayer(t), UNCHANGED graph
  PROVE  SchedulerInv'
<1>0. "submit" \in HiPlaces /\ "loop" \in HiPlaces
  BY DEF HiPlaces
<1>1. /\ TypeInv /\ LayersInv /\ HandlingInv /\ AppInv /\ owes[t] = OwesNothing /\ hi.by = t /\ hi \in HiType
      /\ hi.at = "submit" /\ handling \in Nat /\ handling # 0
  BY <1>0, InsideFacts DEF SubmitLayer, Between, TypeInv, SchedulerInv
<1>2. UNCHANGED <<queue, running, nonIdle, handling, state, src, inFlight, throttled, job, owes, failed>>
  BY DEF SubmitLayer, SubmitWaiting, sourceVars
<1>3. HiMoved("loop", hi.left)
  BY <1>0, <1>1, HiGoes DEF SubmitLayer
<1>4. Handed(t)
  BY <1>1, <1>2, <1>3, HandedFree DEF HiMoved
<1>5. /\ AppMay /\ NewJob(t) /\ job' \in [Threads -> JobType] /\ \A u \in Workers : u # t => job'[u] = job[u]
      /\ t \in Workers => (job'[t].at = "idle") = (job[t].at = "idle") /\ job'[t].queue = job[t].queue
  BY <1>1, <1>2, JobsStay
<1>6. /\ toAdd' \in [Queues -> Nat] /\ pending' \in [Queues -> Int] /\ tasks' \in [Queues -> Nat]
      /\ Ledger /\ CountIsRight => Ledger' /\ CountIsRight'
  BY <1>1, <1>2, <1>4, <1>5, SubmitWaitingKeeps DEF SubmitLayer
<1>7. TypeInv'
  BY <1>1, <1>2, <1>4, <1>5, <1>6, SameGraph DEF TypeInv, Handed, ThreadSteps
<1>8. Keeps(t)
  BY <1>2, <1>3, <1>5 DEF Keeps, NewOwes, HiMoved
<1>9. LayersInv'
  BY <1>1, <1>4, <1>8, KeepsLayers DEF LayersInv, Handed
<1>10. AppInv' /\ (~Done' => ~Done)
  BY <1>1, <1>5, AppsGoOn
<1>11. QED
  BY <1>6, <1>7, <1>9, <1>10 DEF SchedulerInv

(* HandleIdle, whichever step it takes.                                    *)
LEMMA HandleIdleSafe ==
  ASSUME SchedulerInv, NEW t \in Threads, HandleIdle(t), UNCHANGED graph
  PROVE  SchedulerInv'
BY LeaveHandleIdleSafe, QuitSafe, ActivateLayerSafe, PauseResumeSafe, ActivateSourceSafe, SubmitLayerSafe,
   NothingLeftToDoSafe DEF HandleIdle

-----------------------------------------------------------------------------
(* The steps of an addition to a queue.                                    *)

(* A step keeps the types of what only threads hold.                       *)
LEMMA PushSafe ==
  ASSUME SchedulerInv, NEW t \in Threads, PushItem(t), UNCHANGED graph
  PROVE  SchedulerInv'
<1>1. TypeInv /\ LayersInv /\ NamesInv /\ HandlingInv /\ AppInv /\ owes[t].step = "push"
  BY DEF SchedulerInv, LayersInv, PushItem
<1>2. UNCHANGED <<running, tasks, nonIdle, handling, hi, state, src, throttled, job, failed>>
  BY DEF PushItem, queueVars, idleVars
<1>3. AppMay
  BY <1>1, <1>2, JobsStay
<1>4. /\ queue' \in [Queues -> QueueType] /\ toAdd' \in [Queues -> Nat] /\ pending' \in [Queues -> Int]
      /\ inFlight' \subseteq Sources
      /\ \E new \in OweType : OwesChanged(t, new) /\ new.step \in {"none", "active", "submit"}
  <2>1. CASE Dropped(t)
    <3>1. /\ owes' = [owes EXCEPT ![t] = OwesNothing] /\ UNCHANGED <<queue, toAdd, pending, inFlight>>
      BY <2>1 DEF PushItem, Dropped, queueVars
    <3>2. OwesChanged(t, OwesNothing)
      BY <1>1, <3>1, Nothing DEF OwesChanged, TypeInv
    <3>3. QED
      BY <1>1, <3>1, <3>2, Nothing DEF TypeInv
  <2>2. CASE ~Dropped(t)
    <3>1. PICK q, kind, s : q = owes[t].queue /\ kind = owes[t].kind /\ s = owes[t].source
      OBVIOUS
    <3>2. /\ q \in Queues /\ Submitted(q) \in Nat /\ queue' \in [Queues -> QueueType]
          /\ toAdd' = [toAdd EXCEPT ![q] = IF Submitted(q) > 0 THEN 0 ELSE @ + 1]
          /\ pending' = [pending EXCEPT ![q] = @ + Submitted(q)]
          /\ inFlight' = (IF kind = "run" THEN inFlight \cup {s} ELSE inFlight)
      BY <1>1, <2>2, <3>1, PushItemMoves
    <3>3. \E new \in OweType : OwesChanged(t, new) /\ new.step \in {"none", "active", "submit"}
      BY <1>1, <2>2, PushItemMoves
    <3>4. kind = "run" => s \in Sources
      BY <1>1, <3>1 DEF NamesInv
    <3>5. toAdd \in [Queues -> Nat] /\ pending \in [Queues -> Int] /\ inFlight \subseteq Sources
      BY <1>1 DEF TypeInv
    <3>6. toAdd' \in [Queues -> Nat] /\ pending' \in [Queues -> Int]
      BY <3>2, <3>5
    <3>7. QED
      BY <3>2, <3>3, <3>4, <3>5, <3>6
  <2>3. QED
    BY <2>1, <2>2
<1>5. PICK new \in OweType : OwesChanged(t, new) /\ new.step \in {"none", "active", "submit"}
  BY <1>4
<1>6. TypeInv'
  BY <1>1, <1>2, <1>4, <1>5, SameGraph DEF TypeInv, OwesChanged
<1>7. HandlingInv'
  <2>1. hi.at = "loop" => hi.by # t
    BY <1>1, Nothing DEF HandlingInv
  <2>2. QED
    BY <1>1, <1>2, <1>5, <2>1 DEF HandlingInv, OwesChanged
<1>8. LayersInv'
  BY <1>1, <1>7, PushKeepsLayers DEF LayersInv
<1>9. ~Done => Ledger' /\ CountIsRight'
  BY PushKeepsCount DEF SchedulerInv
<1>10. AppInv' /\ (~Done' => ~Done)
  BY <1>1, <1>3, AppsGoOn
<1>11. QED
  BY <1>6, <1>8, <1>9, <1>10 DEF SchedulerInv

(* There is a queue.                                                       *)
LEMMA SomeQueue ==
  ASSUME TypeInv
  PROVE  \E q \in Queues : TRUE
BY SchedulerAssumption DEF TypeInv, Queues

(* The report of a queue that has become active or idle: the count changes *)
(* by what is no longer owed.                                              *)
LEMMA QueueIdleStateChangedSafe ==
  ASSUME SchedulerInv, NEW t \in Threads, QueueIdleStateChanged(t), UNCHANGED graph
  PROVE  SchedulerInv'
<1> USE Nothing
<1>1. /\ TypeInv /\ LayersInv /\ HandlingInv /\ AppInv /\ owes[t].step \in {"active", "idle"} /\ Unlocked
      /\ owes[t] \in OweType /\ owes \in [Threads -> OweType] /\ hi \in HiType /\ nonIdle \in Int
      /\ handling \in Nat
  BY DEF SchedulerInv, LayersInv, QueueIdleStateChanged, TypeInv
<1>2. UNCHANGED <<queue, toAdd, pending, running, tasks, state, src, inFlight, throttled, job, failed>>
  BY DEF QueueIdleStateChanged, queueVars, sourceVars
<1>3. PICK n \in {-1, 1} : n = IF owes[t].step = "idle" THEN -1 ELSE 1
  OBVIOUS
<1>4. nonIdle' = nonIdle + n /\ nonIdle' \in Int
  BY <1>1, <1>3 DEF QueueIdleStateChanged
<1>5. PICK next \in OweType :
        /\ next = IF owes[t].step = "idle" THEN OwesNothing ELSE [owes[t] EXCEPT !.step = "submit"]
        /\ next.step \in {"none", "submit"} /\ next.tasks = owes[t].tasks
        /\ owes[t].step = "active" => next.queue = owes[t].queue
  <2>1. CASE owes[t].step = "idle"
    BY <1>1, <2>1 DEF HandlingInv
  <2>2. CASE owes[t].step # "idle"
    <3> DEFINE new == [owes[t] EXCEPT !.step = "submit"]
    <3>1. new \in OweType /\ new.step = "submit" /\ new.tasks = owes[t].tasks /\ new.queue = owes[t].queue
      BY <1>1 DEF OweType
    <3>2. new = IF owes[t].step = "idle" THEN OwesNothing ELSE [owes[t] EXCEPT !.step = "submit"]
      BY <2>2
    <3> HIDE DEF new
    <3>3. QED
      BY <3>1, <3>2
  <2>3. QED
    BY <2>1, <2>2
<1>6. /\ handling' \in Nat /\ hi' \in HiType /\ HandlingInv'
      /\ \/ OwesChanged(t, next) /\ hi' = hi
         \/ /\ OwesChanged(t, OwesNothing) /\ hi = NotHandling
            /\ hi'.at = "loop" /\ hi'.then = next
  <2>1. CASE nonIdle' = 0
    <3>1. CallHandleIdle(t, next)
      BY <1>5, <2>1 DEF QueueIdleStateChanged
    <3>2. QED
      BY <1>1, <1>5, <3>1, CallHandleIdleMoves
  <2>2. CASE nonIdle' # 0
    <3>1. owes' = [owes EXCEPT ![t] = next] /\ UNCHANGED <<handling, hi>>
      BY <1>5, <2>2 DEF QueueIdleStateChanged
    <3>2. OwesChanged(t, next)
      BY <1>1, <3>1 DEF OwesChanged
    <3>3. HandlingInv'
      BY <1>1, <1>5, <3>1, <3>2 DEF HandlingInv, OwesChanged, Unlocked
    <3>4. QED
      BY <1>1, <3>1, <3>2, <3>3, SameGraph
  <2>3. QED
    BY <2>1, <2>2
<1>7. ThreadSteps(t) /\ owes'[t].step \in {"none", "submit"}
  BY <1>5, <1>6 DEF ThreadSteps, OwesChanged
<1>8. \A q \in Queues : InHand(owes'[t], q) + InHand(hi'.then, q) = InHand(owes[t], q) + InHand(hi.then, q)
  <2>1. ASSUME NEW q \in Queues
        PROVE  InHand(owes'[t], q) + InHand(hi'.then, q) = InHand(owes[t], q) + InHand(hi.then, q)
    <3>1. InHand(next, q) = InHand(owes[t], q)
      BY <1>1, <1>5 DEF InHand, HandlingInv
    <3>2. InHand(OwesNothing, q) = 0 /\ InHand(next, q) \in Nat
      BY InHandType DEF InHand
    <3>3. QED
      BY <1>6, <3>1, <3>2 DEF OwesChanged
  <2>2. QED
    BY <2>1
<1>9. /\ AppMay /\ NewJob(t) /\ job' \in [Threads -> JobType] /\ \A u \in Workers : u # t => job'[u] = job[u]
  BY <1>1, <1>2, JobsStay
<1>10. TypeInv'
  BY <1>1, <1>2, <1>4, <1>6, <1>7, SameGraph DEF TypeInv, ThreadSteps
<1>11. Keeps(t)
  BY <1>1, <1>2, <1>6, <1>7, <1>9 DEF Keeps, NewOwes, ThreadSteps, LayersInv, RunInv
<1>12. LayersInv'
  BY <1>1, <1>6, <1>11, KeepsLayers DEF LayersInv
<1>13. AppInv' /\ (~Done' => ~Done)
  BY <1>1, <1>9, AppsGoOn
<1>14. ASSUME Ledger, CountIsRight PROVE Ledger' /\ CountIsRight'
  <2>1. PICK q \in Queues : TRUE
    BY <1>1, SomeQueue
  <2>2. \A p : WorkOn(p)' = WorkOn(p) /\ IsIdle(p)' = IsIdle(p)
    BY <1>2 DEF WorkOn, IsIdle, Size
  <2>3. \A p \in Queues : p # q =>
           /\ queue'[p] = queue[p] /\ toAdd'[p] = toAdd[p]
           /\ tasks'[p] = tasks[p] /\ pending'[p] = pending[p]
           /\ InHand(owes'[t], p) + InHand(hi'.then, p) = InHand(owes[t], p) + InHand(hi.then, p)
           /\ (t \in WorkOn(p)) = (t \in WorkOn(p)')
    BY <1>2, <1>8, <2>2
  <2>4. /\ InHand(owes[t], q) \in Nat /\ InHand(hi.then, q) \in Nat /\ Cardinality(WorkOn(q)) \in Nat
    BY <1>1, <1>7, <1>9, HandFacts, WorkMoves
  <2>5. /\ InHand(owes'[t], q) + InHand(hi'.then, q) = (InHand(owes[t], q) + InHand(hi.then, q)) + 0
        /\ Cardinality(WorkOn(q)') = Cardinality(WorkOn(q)) + 0
    BY <1>8, <2>2, <2>4
  <2>6. toAdd[q] \in Int /\ tasks[q] \in Int /\ pending[q] \in Int /\ Size(queue[q]) \in Int
    BY <1>1, SizeType DEF TypeInv
  <2>7. Size(queue[q])' = Size(queue[q])
    BY <1>2 DEF Size
  <2>8. /\ toAdd'[q] \in Int /\ tasks'[q] \in Int /\ pending'[q] \in Int
        /\ Size(queue[q])' = Size(queue[q]) + (toAdd'[q] - toAdd[q]) + (tasks'[q] - tasks[q]) + 0
        /\ pending'[q] = pending[q] + (tasks'[q] - tasks[q]) + 0 + 0
    BY <1>2, <2>6, <2>7
  <2>9. /\ Owes01(owes'[t], "active") = 0 /\ Owes01(owes'[t], "idle") = 0
        /\ Owes01(owes[t], "idle") - Owes01(owes[t], "active") = 0 - n
        /\ Owes01(owes[t], "idle") \in Int /\ Owes01(owes[t], "active") \in Int
    BY <1>1, <1>3, <1>7 DEF Owes01
  <2>10. Idle01(q)' = Idle01(q) /\ Idle01(q) \in Int
    BY <2>2 DEF Idle01
  <2>11. (nonIdle' - nonIdle) + (Owes01(owes'[t], "active") - Owes01(owes[t], "active")) =
           (Idle01(q)' - Idle01(q)) + (Owes01(owes'[t], "idle") - Owes01(owes[t], "idle"))
    BY <1>1, <1>3, <1>4, <2>9, <2>10
  <2>12. ~failed' /\ 0 \in Int
    BY <1>2, <1>14 DEF CountIsRight
  <2>13. QED
    BY <1>1, <1>4, <1>7, <1>9, <1>14, <2>3, <2>5, <2>8, <2>11, <2>12, OneQueueKeepsCount
<1>15. QED
  BY <1>10, <1>12, <1>13, <1>14 DEF SchedulerInv

(* The executor gets the tasks from the hands of the thread.               *)
LEMMA SubmitTasksSafe ==
  ASSUME SchedulerInv, NEW t \in Threads, SubmitTasks(t), UNCHANGED graph
  PROVE  SchedulerInv'
<1> USE Nothing
<1>1. /\ TypeInv /\ LayersInv /\ HandlingInv /\ AppInv /\ owes[t].step = "submit"
      /\ owes[t] \in OweType /\ owes \in [Threads -> OweType] /\ hi \in HiType
      /\ tasks \in [Queues -> Nat]
  BY DEF SchedulerInv, LayersInv, SubmitTasks, TypeInv
<1>2. /\ UNCHANGED <<queue, toAdd, pending, running, nonIdle, handling, hi, state, src, inFlight, throttled>>
      /\ UNCHANGED <<job, failed>>
  BY DEF SubmitTasks, idleVars, sourceVars
<1>3. PICK n \in Nat : n = owes[t].tasks
  BY <1>1 DEF OweType
<1>4. PICK q : q = owes[t].queue
  OBVIOUS
<1>5. tasks' = [tasks EXCEPT ![q] = @ + n] /\ OwesChanged(t, OwesNothing)
  BY <1>1, <1>3, <1>4 DEF SubmitTasks, OwesChanged
<1>6. tasks' \in [Queues -> Nat]
  <2>1. CASE q \in Queues
    BY <1>1, <1>5, <2>1
  <2>2. CASE q \notin Queues
    <3>1. tasks' = tasks
      BY <1>1, <1>5, <2>2
    <3>2. QED
      BY <1>1, <3>1
  <2>3. QED
    BY <2>1, <2>2
<1>7. ThreadSteps(t) /\ owes'[t] = OwesNothing
  BY <1>1, <1>2, <1>5, SameGraph DEF ThreadSteps, OwesChanged
<1>8. HandlingInv'
  <2>1. hi.at = "loop" => hi.by # t
    BY <1>1 DEF HandlingInv
  <2>2. QED
    BY <1>1, <1>2, <1>5, <2>1 DEF HandlingInv, OwesChanged
<1>9. /\ AppMay /\ NewJob(t) /\ job' \in [Threads -> JobType] /\ \A u \in Workers : u # t => job'[u] = job[u]
  BY <1>1, <1>2, JobsStay
<1>10. TypeInv'
  BY <1>1, <1>2, <1>6, <1>7, SameGraph DEF TypeInv, ThreadSteps
<1>11. Keeps(t)
  BY <1>1, <1>2, <1>7, <1>9 DEF Keeps, NewOwes, ThreadSteps, LayersInv, RunInv
<1>12. LayersInv'
  BY <1>1, <1>8, <1>11, KeepsLayers DEF LayersInv
<1>13. AppInv' /\ (~Done' => ~Done)
  BY <1>1, <1>9, AppsGoOn
<1>14. ASSUME Ledger, CountIsRight PROVE Ledger' /\ CountIsRight'
  <2>1. \A p : InHand(owes'[t], p) = 0 /\ InHand(owes[t], p) = IF p = q THEN n ELSE 0
    BY <1>3, <1>4, <1>7 DEF InHand
  <2>2. \A p : WorkOn(p)' = WorkOn(p) /\ IsIdle(p)' = IsIdle(p)
    BY <1>2 DEF WorkOn, IsIdle, Size
  <2>3. CASE q \in Queues
    <3>1. \A p \in Queues : p # q =>
             /\ queue'[p] = queue[p] /\ toAdd'[p] = toAdd[p]
             /\ tasks'[p] = tasks[p] /\ pending'[p] = pending[p]
             /\ InHand(owes'[t], p) + InHand(hi'.then, p) = InHand(owes[t], p) + InHand(hi.then, p)
             /\ (t \in WorkOn(p)) = (t \in WorkOn(p)')
      BY <1>1, <1>2, <1>5, <2>1, <2>2
    <3>2. InHand(hi.then, q) \in Nat /\ Cardinality(WorkOn(q)) \in Nat
      BY <1>1, <1>7, <1>9, <2>3, HandFacts, WorkMoves
    <3>3. PICK h \in Int : h = 0 - n
      OBVIOUS
    <3>4. /\ InHand(owes'[t], q) + InHand(hi'.then, q) = (InHand(owes[t], q) + InHand(hi.then, q)) + h
          /\ Cardinality(WorkOn(q)') = Cardinality(WorkOn(q)) + 0
      BY <1>2, <2>1, <2>2, <3>2, <3>3
    <3>5. /\ toAdd[q] \in Int /\ tasks[q] \in Int /\ pending[q] \in Int /\ Size(queue[q]) \in Int
          /\ nonIdle \in Int
      BY <1>1, <2>3, SizeType DEF TypeInv
    <3>6. Size(queue[q])' = Size(queue[q])
      BY <1>2 DEF Size
    <3>7. tasks'[q] = tasks[q] + n
      BY <1>1, <1>5, <2>3
    <3>8. /\ toAdd'[q] \in Int /\ tasks'[q] \in Int /\ pending'[q] \in Int /\ nonIdle' \in Int
          /\ Size(queue[q])' = Size(queue[q]) + (toAdd'[q] - toAdd[q]) + (tasks'[q] - tasks[q]) + h
          /\ pending'[q] = pending[q] + (tasks'[q] - tasks[q]) + h + 0
      BY <1>2, <3>3, <3>5, <3>6, <3>7
    <3>9. /\ Owes01(owes'[t], "active") = 0 /\ Owes01(owes'[t], "idle") = 0
          /\ Owes01(owes[t], "active") = 0 /\ Owes01(owes[t], "idle") = 0
      BY <1>1, <1>7 DEF Owes01
    <3>10. Idle01(q)' = Idle01(q) /\ Idle01(q) \in Int
      BY <2>2 DEF Idle01
    <3>11. (nonIdle' - nonIdle) + (Owes01(owes'[t], "active") - Owes01(owes[t], "active")) =
             (Idle01(q)' - Idle01(q)) + (Owes01(owes'[t], "idle") - Owes01(owes[t], "idle"))
      BY <1>2, <3>5, <3>9, <3>10
    <3>12. ~failed' /\ 0 \in Int
      BY <1>2, <1>14 DEF CountIsRight
    <3>13. QED
      BY <1>1, <1>7, <1>9, <1>14, <2>3, <3>1, <3>4, <3>8, <3>11, <3>12, OneQueueKeepsCount
  <2>4. CASE q \notin Queues
    <3>1. tasks' = tasks
      BY <1>1, <1>5, <2>4
    <3>2. \A p \in Queues : InHand(owes'[t], p) = InHand(owes[t], p)
      BY <2>1, <2>4
    <3>3. Calm(t)
      BY <1>1, <1>2, <1>7, <1>9, <3>1, <3>2 DEF Calm
    <3>4. QED
      BY <1>1, <1>14, <3>3, CalmKeepsCount
  <2>5. QED
    BY <2>3, <2>4
<1>15. QED
  BY <1>10, <1>12, <1>13, <1>14 DEF SchedulerInv

-----------------------------------------------------------------------------
(* The steps of a worker.                                                  *)

(* Facts about a thread that is between two steps of its own.              *)
LEMMA FreeFacts ==
  ASSUME SchedulerInv, NEW t \in Threads, Free(t)
  PROVE  /\ TypeInv /\ LayersInv /\ HandlingInv /\ AppInv /\ owes[t] = OwesNothing /\ hi.by # t
         /\ hi \in HiType /\ handling \in Nat /\ nonIdle \in Int
         /\ hi.at \in {"pause", "activate"} => \A s \in hi.left : Started(s)
BY DEF SchedulerInv, LayersInv, RunInv, Free, TypeInv

(* The item that is taken makes its queue one shorter.                     *)
LEMMA TakenSize ==
  ASSUME graph \in Graphs, NEW c \in QueueType, NEW i, Takes(c, i), i.rest \in QueueType
  PROVE  Size(i.rest) = Size(c) - 1
<1>1. /\ IsFiniteSet(c.open) /\ IsFiniteSet(c.run)
      /\ Cardinality(c.open) \in Nat /\ Cardinality(c.run) \in Nat /\ c.work \in Nat
  BY SizeType DEF QueueType
<1>2. CASE i.at = "open"
  <2>1. i.source \in c.open /\ i.rest.open = c.open \ {i.source} /\ i.rest.work = c.work /\ i.rest.run = c.run
    BY <1>2 DEF Takes
  <2>2. Cardinality(i.rest.open) = Cardinality(c.open) - 1
    <3>1. PICK o, s : o = c.open /\ s = i.source
      OBVIOUS
    <3>2. Cardinality(o \ {s}) = Cardinality(o) - 1
      BY <1>1, <2>1, <3>1, FS_RemoveElement
    <3>3. QED
      BY <2>1, <3>1, <3>2
  <2>3. QED
    BY <1>1, <2>1, <2>2 DEF Size
<1>3. CASE i.at = "work"
  <2>1. i.rest.open = c.open /\ i.rest.work = c.work - 1 /\ i.rest.run = c.run
    BY <1>3 DEF Takes
  <2>2. QED
    BY <1>1, <2>1 DEF Size
<1>4. CASE i.at = "run"
  <2>1. i.source \in c.run /\ i.rest.run = c.run \ {i.source} /\ i.rest.work = c.work /\ i.rest.open = c.open
    BY <1>4 DEF Takes
  <2>2. Cardinality(i.rest.run) = Cardinality(c.run) - 1
    <3>1. PICK o, s : o = c.run /\ s = i.source
      OBVIOUS
    <3>2. Cardinality(o \ {s}) = Cardinality(o) - 1
      BY <1>1, <2>1, <3>1, FS_RemoveElement
    <3>3. QED
      BY <2>1, <3>1, <3>2
  <2>3. QED
    BY <1>1, <2>1, <2>2 DEF Size
<1>5. QED
  BY <1>2, <1>3, <1>4 DEF Takes

(* A task of the executor has its item in the queue, and the worker that   *)
(* takes it keeps the queue from being idle.                               *)
LEMMA RunNextTaskKeepsCount ==
  ASSUME TypeInv, LayersInv, Ledger, CountIsRight, NEW t \in Workers, RunNextTask(t), UNCHANGED graph
  PROVE  Ledger' /\ CountIsRight'
<1>1. t \in Threads /\ UNCHANGED <<toAdd, pending, nonIdle, hi, owes>> /\ ~failed
  BY DEF Threads, RunNextTask, idleVars, CountIsRight
<1>2. PICK q \in Queues :
        /\ job[t].at = "idle" /\ tasks[q] > 0 /\ tasks' = [tasks EXCEPT ![q] = @ - 1]
        /\ failed' = (failed \/ ~(Size(queue[q]) > 0))
        /\ IF Size(queue[q]) = 0 THEN UNCHANGED <<queue, job>>
                                 ELSE \E i \in First(queue[q]) : TakesTask(t, q, i)
  BY <1>1, RunNextTaskMoves
<1>3. ThreadSteps(t)
  BY <1>1, SameGraph DEF ThreadSteps, TypeInv
<1>4. /\ InHands(q) \in Nat /\ Cardinality(WorkOn(q)) \in Nat
      /\ Size(queue[q]) = toAdd[q] + tasks[q] + InHands(q)
      /\ pending[q] = tasks[q] + InHands(q) + Cardinality(WorkOn(q))
      /\ toAdd[q] \in Nat /\ tasks[q] \in Nat /\ pending[q] \in Int /\ nonIdle \in Int
  <2>1. InHands(q) \in Nat
    BY <1>1, <1>3, HandsMove
  <2>2. Cardinality(WorkOn(q)) \in Nat
    <3>1. IsFiniteSet(WorkOn(q))
      BY GraphFacts, FS_Subset DEF TypeInv, WorkOn
    <3>2. QED
      BY <3>1, FS_CardinalityType
  <2>3. QED
    BY <2>1, <2>2 DEF Ledger, TypeInv
<1>5. Size(queue[q]) > 0 /\ Size(queue[q]) # 0 /\ pending[q] > 0 /\ pending[q] # 0 /\ Size(queue[q]) \in Int
  BY <1>2, <1>4
<1>6. PICK i \in First(queue[q]) : TakesTask(t, q, i)
  BY <1>2, <1>5
<1>7. Size(queue[q])' = Size(queue[q]) - 1
  <2>1. queue[q] \in QueueType /\ Takes(queue[q], i) /\ i.rest \in QueueType /\ graph \in Graphs
    BY <1>6 DEF TakesTask, TypeInv
  <2>2. Size(i.rest) = Size(queue[q]) - 1
    BY <2>1, TakenSize
  <2>3. queue'[q] = i.rest
    BY <1>6 DEF TakesTask
  <2>4. Size(queue[q])' = Size(i.rest)
    BY <2>3 DEF Size
  <2>5. QED
    BY <2>2, <2>4
<1>8. /\ tasks'[q] = tasks[q] - 1 /\ \A p \in Queues : p # q => tasks'[p] = tasks[p]
  BY <1>2 DEF TypeInv
<1>9. \A u \in Workers : u # t => job'[u] = job[u]
  BY <1>6 DEF TakesTask, Threads
<1>10. \A p \in Queues : t \notin WorkOn(p) /\ ((t \in WorkOn(p)') = (p = q))
  BY <1>2, <1>6 DEF WorkOn, TakesTask, Takes
<1>11. Cardinality(WorkOn(q)') = Cardinality(WorkOn(q)) + 1
  BY <1>1, <1>9, <1>10, WorkMoves
<1>12. \A p \in Queues : p # q =>
         /\ queue'[p] = queue[p] /\ toAdd'[p] = toAdd[p]
         /\ tasks'[p] = tasks[p] /\ pending'[p] = pending[p]
         /\ InHand(owes'[t], p) + InHand(hi'.then, p) = InHand(owes[t], p) + InHand(hi.then, p)
         /\ (t \in WorkOn(p)) = (t \in WorkOn(p)')
  BY <1>1, <1>6, <1>8, <1>10 DEF TakesTask
<1>13. InHand(owes[t], q) \in Nat /\ InHand(hi.then, q) \in Nat
  BY <1>1, <1>3, HandFacts
<1>14. InHand(owes'[t], q) + InHand(hi'.then, q) = (InHand(owes[t], q) + InHand(hi.then, q)) + 0
  BY <1>1, <1>13
<1>15. /\ toAdd'[q] \in Int /\ tasks'[q] \in Int /\ pending'[q] \in Int /\ nonIdle' \in Int
       /\ Size(queue[q])' = Size(queue[q]) + (toAdd'[q] - toAdd[q]) + (tasks'[q] - tasks[q]) + 0
       /\ pending'[q] = pending[q] + (tasks'[q] - tasks[q]) + 0 + 1
  BY <1>1, <1>4, <1>5, <1>7, <1>8
<1>16. Idle01(q)' = 1 /\ Idle01(q) = 1
  BY <1>1, <1>5 DEF Idle01, IsIdle
<1>17. /\ Owes01(owes'[t], "active") = Owes01(owes[t], "active")
       /\ Owes01(owes'[t], "idle") = Owes01(owes[t], "idle")
       /\ Owes01(owes[t], "active") \in Int /\ Owes01(owes[t], "idle") \in Int
  BY <1>1 DEF Owes01
<1>18. (nonIdle' - nonIdle) + (Owes01(owes'[t], "active") - Owes01(owes[t], "active")) =
         (Idle01(q)' - Idle01(q)) + (Owes01(owes'[t], "idle") - Owes01(owes[t], "idle"))
  BY <1>1, <1>4, <1>16, <1>17
<1>19. ~failed' /\ 0 \in Int /\ 1 \in Int
  <2>1. ~failed'
    BY <1>1, <1>2, <1>5, Zenon
  <2>2. QED
    BY <2>1
<1>20. QED
  BY <1>1, <1>3, <1>9, <1>11, <1>12, <1>14, <1>15, <1>18, <1>19, OneQueueKeepsCount

(* RunNextTask preserves the invariant.                                    *)
LEMMA RunNextTaskSafe ==
  ASSUME SchedulerInv, NEW t \in Workers, RunNextTask(t), UNCHANGED graph
  PROVE  SchedulerInv'
<1>1. t \in Threads /\ t \notin Apps /\ Apps \subseteq Threads
  BY SchedulerAssumption DEF Threads
<1>2. TypeInv /\ LayersInv /\ HandlingInv /\ AppInv
  BY DEF SchedulerInv, LayersInv
<1>3. UNCHANGED <<toAdd, pending, running, nonIdle, handling, hi, state, src, inFlight, throttled, owes>>
  BY DEF RunNextTask, idleVars, sourceVars
<1>4. PICK q \in Queues :
        /\ tasks[q] > 0 /\ tasks' = [tasks EXCEPT ![q] = @ - 1]
        /\ IF Size(queue[q]) = 0 THEN UNCHANGED <<queue, job>>
                                 ELSE \E i \in First(queue[q]) : TakesTask(t, q, i)
  BY <1>1, <1>2, RunNextTaskMoves
<1>5. tasks' \in [Queues -> Nat]
  BY <1>2, <1>4 DEF TypeInv
<1>6. /\ queue' \in [Queues -> QueueType] /\ job' \in [Threads -> JobType]
      /\ \A u \in Apps : job'[u] = job[u]
  BY <1>1, <1>2, <1>4 DEF TypeInv, TakesTask
<1>7. TypeInv'
  BY <1>2, <1>3, <1>5, <1>6, SameGraph DEF TypeInv
<1>8. HandlingInv'
  BY <1>2, <1>3 DEF HandlingInv
<1>9. LayersInv'
  BY <1>1, <1>2, <1>8, RunNextTaskKeepsLayers DEF LayersInv
<1>10. AppMay
  BY <1>3, <1>6 DEF AppMay
<1>11. AppInv' /\ (~Done' => ~Done)
  BY <1>2, <1>10, AppsGoOn
<1>12. ~Done => Ledger' /\ CountIsRight'
  BY RunNextTaskKeepsCount DEF SchedulerInv
<1>13. QED
  BY <1>7, <1>9, <1>11, <1>12 DEF SchedulerInv

(* What FinishTask does.                                                   *)
LEMMA FinishTaskMoves ==
  ASSUME TypeInv, NamesInv, NEW t \in Workers, FinishTask(t), UNCHANGED graph
  PROVE  \E q \in Queues :
           /\ q = job[t].queue /\ job[t].at = "finish" /\ Free(t)
           /\ pending' = [pending EXCEPT ![q] = @ - 1]
           /\ failed' = (failed \/ ~(pending[q] > 0))
           /\ job' \in [Threads -> JobType] /\ job'[t] = Idling
           /\ \A u \in Threads : u # t => job'[u] = job[u]
           /\ \E new \in OweType :
                /\ OwesChanged(t, new) /\ new.tasks = 0 /\ new.queue = "none"
                /\ new.step = IF Size(queue[q]) = 0 /\ pending[q] = 1 THEN "idle" ELSE "none"
<1> USE Nothing
<1>1. t \in Threads /\ job[t].at = "finish" /\ Free(t) /\ owes[t] = OwesNothing
  BY DEF Threads, FinishTask, At, Free
<1>2. PICK q \in Queues : q = job[t].queue
  BY <1>1 DEF NamesInv
<1>3. /\ pending' = [pending EXCEPT ![q] = @ - 1]
      /\ failed' = (failed \/ ~(pending[q] > 0))
      /\ job' = [job EXCEPT ![t] = Idling]
      /\ owes' = IF Size(queue[q]) = 0 /\ pending[q] = 1 THEN [owes EXCEPT ![t].step = "idle"] ELSE owes
  BY <1>2 DEF FinishTask, Check
<1>4. job' \in [Threads -> JobType] /\ job'[t] = Idling /\ \A u \in Threads : u # t => job'[u] = job[u]
  BY <1>1, <1>3 DEF TypeInv
<1>5. owes \in [Threads -> OweType]
  BY DEF TypeInv
<1>6. \E new \in OweType :
        /\ OwesChanged(t, new) /\ new.tasks = 0 /\ new.queue = "none"
        /\ new.step = IF Size(queue[q]) = 0 /\ pending[q] = 1 THEN "idle" ELSE "none"
  <2>1. CASE Size(queue[q]) = 0 /\ pending[q] = 1
    <3> DEFINE new == [OwesNothing EXCEPT !.step = "idle"]
    <3>1. new \in OweType /\ new.tasks = 0 /\ new.queue = "none" /\ new.step = "idle"
      BY DEF OwesNothing, OweType
    <3>2. owes' = [owes EXCEPT ![t] = new]
      BY <1>1, <1>3, <1>5, <2>1
    <3> HIDE DEF new
    <3>3. OwesChanged(t, new)
      BY <1>1, <1>5, <3>1, <3>2 DEF OwesChanged
    <3>4. QED
      BY <2>1, <3>1, <3>3
  <2>2. CASE ~(Size(queue[q]) = 0 /\ pending[q] = 1)
    <3>1. OwesChanged(t, OwesNothing)
      BY <1>1, <1>3, <1>5, <2>2 DEF OwesChanged
    <3>2. OwesNothing.queue = "none"
      BY DEF OwesNothing
    <3>3. QED
      BY <2>2, <3>1, <3>2
  <2>3. QED
    BY <2>1, <2>2
<1>7. QED
  BY <1>1, <1>2, <1>3, <1>4, <1>6

(* A worker that has finished was counted as pending, and reports the      *)
(* queue when it was the last.                                             *)
LEMMA FinishTaskKeepsCount ==
  ASSUME TypeInv, LayersInv, Ledger, CountIsRight, NEW t \in Workers, FinishTask(t), UNCHANGED graph
  PROVE  Ledger' /\ CountIsRight'
<1> USE Nothing
<1>1. t \in Threads /\ UNCHANGED <<queue, toAdd, tasks, nonIdle, hi>> /\ ~failed
  BY DEF Threads, FinishTask, idleVars, CountIsRight
<1>2. PICK q \in Queues :
        /\ q = job[t].queue /\ job[t].at = "finish" /\ Free(t)
        /\ pending' = [pending EXCEPT ![q] = @ - 1]
        /\ failed' = (failed \/ ~(pending[q] > 0))
        /\ job'[t] = Idling /\ \A u \in Threads : u # t => job'[u] = job[u]
        /\ \E new \in OweType :
             /\ OwesChanged(t, new) /\ new.tasks = 0
             /\ new.step = IF Size(queue[q]) = 0 /\ pending[q] = 1 THEN "idle" ELSE "none"
  BY FinishTaskMoves DEF LayersInv
<1>3. PICK new \in OweType :
             /\ OwesChanged(t, new) /\ new.tasks = 0
             /\ new.step = IF Size(queue[q]) = 0 /\ pending[q] = 1 THEN "idle" ELSE "none"
  BY <1>2
<1>4. ThreadSteps(t) /\ owes'[t] = new /\ owes[t] = OwesNothing
  BY <1>1, <1>2, <1>3, SameGraph DEF ThreadSteps, TypeInv, OwesChanged, Free
<1>5. \A u \in Workers : u # t => job'[u] = job[u]
  BY <1>2 DEF Threads
<1>6. \A p \in Queues : t \notin WorkOn(p)' /\ ((t \in WorkOn(p)) = (p = q))
  BY <1>2 DEF WorkOn
<1>7. PICK w \in Int : w = 0 - 1
  OBVIOUS
<1>8. /\ Cardinality(WorkOn(q)') = Cardinality(WorkOn(q)) + w
      /\ Cardinality(WorkOn(q)) \in Nat /\ Cardinality(WorkOn(q)') \in Nat
  <2>1. t \in WorkOn(q) /\ t \notin WorkOn(q)'
    BY <1>6
  <2>2. /\ Cardinality(WorkOn(q)) \in Nat /\ Cardinality(WorkOn(q)') \in Nat
        /\ Cardinality(WorkOn(q)') = Cardinality(WorkOn(q)) - 1
    BY <1>1, <1>5, <2>1, WorkMoves
  <2>3. QED
    BY <1>7, <2>2
<1>9. /\ InHands(q) \in Nat
      /\ Size(queue[q]) = toAdd[q] + tasks[q] + InHands(q)
      /\ pending[q] = tasks[q] + InHands(q) + Cardinality(WorkOn(q))
      /\ toAdd[q] \in Nat /\ tasks[q] \in Nat /\ pending[q] \in Int /\ nonIdle \in Int
  BY <1>1, <1>4, HandsMove DEF Ledger, TypeInv
<1>10. pending[q] > 0
  BY <1>7, <1>8, <1>9
<1>11. pending'[q] = pending[q] - 1 /\ \A p \in Queues : p # q => pending'[p] = pending[p]
  BY <1>2 DEF TypeInv
<1>12. \A p : InHand(owes'[t], p) = 0 /\ InHand(owes[t], p) = 0
  BY <1>3, <1>4 DEF InHand
<1>13. \A p \in Queues : p # q =>
         /\ queue'[p] = queue[p] /\ toAdd'[p] = toAdd[p]
         /\ tasks'[p] = tasks[p] /\ pending'[p] = pending[p]
         /\ InHand(owes'[t], p) + InHand(hi'.then, p) = InHand(owes[t], p) + InHand(hi.then, p)
         /\ (t \in WorkOn(p)) = (t \in WorkOn(p)')
  BY <1>1, <1>6, <1>11, <1>12
<1>14. InHand(hi.then, q) \in Nat
  BY <1>1, <1>4, HandFacts
<1>15. InHand(owes'[t], q) + InHand(hi'.then, q) = (InHand(owes[t], q) + InHand(hi.then, q)) + 0
  BY <1>1, <1>12, <1>14
<1>16. Size(queue[q])' = Size(queue[q])
  BY <1>1 DEF Size
<1>17. /\ toAdd'[q] \in Int /\ tasks'[q] \in Int /\ pending'[q] \in Int /\ nonIdle' \in Int
       /\ Size(queue[q])' = Size(queue[q]) + (toAdd'[q] - toAdd[q]) + (tasks'[q] - tasks[q]) + 0
       /\ pending'[q] = pending[q] + (tasks'[q] - tasks[q]) + 0 + w
  BY <1>1, <1>7, <1>9, <1>11, <1>16
<1>18. /\ Idle01(q) = 1
       /\ Idle01(q)' = IF Size(queue[q]) = 0 /\ pending[q] = 1 THEN 0 ELSE 1
  <2>1. ~IsIdle(q)
    BY <1>9, <1>10 DEF IsIdle
  <2>2. IsIdle(q)' = (Size(queue[q]) = 0 /\ pending[q] = 1)
    BY <1>9, <1>11, <1>16 DEF IsIdle
  <2>3. QED
    BY <2>1, <2>2 DEF Idle01
<1>19. /\ Owes01(owes'[t], "active") = 0 /\ Owes01(owes[t], "active") = 0 /\ Owes01(owes[t], "idle") = 0
       /\ Owes01(owes'[t], "idle") = IF Size(queue[q]) = 0 /\ pending[q] = 1 THEN 1 ELSE 0
  BY <1>3, <1>4 DEF Owes01
<1>20. (nonIdle' - nonIdle) + (Owes01(owes'[t], "active") - Owes01(owes[t], "active")) =
         (Idle01(q)' - Idle01(q)) + (Owes01(owes'[t], "idle") - Owes01(owes[t], "idle"))
  BY <1>1, <1>9, <1>18, <1>19
<1>21. ~failed'
  BY <1>1, <1>2, <1>10, Zenon
<1>22. 0 \in Int
  OBVIOUS
<1>23. QED
  BY <1>1, <1>4, <1>5, <1>8, <1>13, <1>15, <1>17, <1>20, <1>21, <1>22, OneQueueKeepsCount

(* FinishTask preserves the invariant.                                     *)
LEMMA FinishTaskSafe ==
  ASSUME SchedulerInv, NEW t \in Workers, FinishTask(t), UNCHANGED graph
  PROVE  SchedulerInv'
<1> USE Nothing
<1>1. t \in Threads /\ t \notin Apps /\ Apps \subseteq Threads /\ Workers \subseteq Threads
  BY SchedulerAssumption DEF Threads
<1>2. /\ TypeInv /\ LayersInv /\ HandlingInv /\ AppInv /\ NamesInv
      /\ pending \in [Queues -> Int] /\ hi \in HiType
  BY DEF SchedulerInv, LayersInv, TypeInv
<1>3. UNCHANGED <<queue, toAdd, running, tasks, nonIdle, handling, hi, state, src, inFlight, throttled>>
  BY DEF FinishTask, idleVars, sourceVars
<1>4. PICK q \in Queues :
        /\ job[t].at = "finish" /\ Free(t)
        /\ pending' = [pending EXCEPT ![q] = @ - 1]
        /\ job' \in [Threads -> JobType] /\ job'[t] = Idling
        /\ \A u \in Threads : u # t => job'[u] = job[u]
        /\ \E new \in OweType :
             /\ OwesChanged(t, new) /\ new.tasks = 0
             /\ new.step = IF Size(queue[q]) = 0 /\ pending[q] = 1 THEN "idle" ELSE "none"
  BY <1>2, FinishTaskMoves
<1>5. PICK new \in OweType :
             /\ OwesChanged(t, new) /\ new.tasks = 0 /\ new.step \in {"idle", "none"}
  BY <1>4
<1>6. ThreadSteps(t) /\ owes'[t] = new /\ hi.by # t
  BY <1>2, <1>3, <1>4, <1>5, SameGraph DEF ThreadSteps, OwesChanged, Free
<1>7. TypeInv'
  <2>1. pending' \in [Queues -> Int]
    BY <1>2, <1>4
  <2>2. QED
    BY <1>2, <1>3, <1>4, <1>6, <2>1, SameGraph DEF TypeInv, ThreadSteps
<1>8. HandlingInv'
  BY <1>2, <1>3, <1>5, <1>6 DEF HandlingInv, OwesChanged
<1>9. Keeps(t)
  BY <1>1, <1>2, <1>3, <1>4, <1>5, <1>6 DEF Keeps, NewOwes, NewJob, ThreadSteps, LayersInv, RunInv
<1>10. LayersInv'
  BY <1>1, <1>2, <1>8, <1>9, KeepsLayers DEF LayersInv
<1>11. AppMay
  BY <1>1, <1>3, <1>4 DEF AppMay
<1>12. AppInv' /\ (~Done' => ~Done)
  BY <1>2, <1>11, AppsGoOn
<1>13. ~Done => Ledger' /\ CountIsRight'
  BY FinishTaskKeepsCount DEF SchedulerInv
<1>14. QED
  BY <1>7, <1>10, <1>12, <1>13 DEF SchedulerInv

(* A step of a thread between others, outside HandleIdle, that leaves the  *)
(* queues alone; what it may do to the sources, and to the jobs.           *)
LEMMA FreeStepSafe ==
  ASSUME SchedulerInv, NEW t \in Threads, Free(t), UNCHANGED graph,
         UNCHANGED <<queue, toAdd, pending, tasks, nonIdle, handling, hi, failed>>,
         running' \in [Queues -> Int], Adds(t), NewOwes(t), AppMay,
         job' \in [Threads -> JobType], \A u \in Workers : u # t => job'[u] = job[u],
         t \in Workers => /\ NewJob(t)
                          /\ (job'[t].at = "idle") = (job[t].at = "idle") /\ job'[t].queue = job[t].queue,
         src' \in [Sources -> SourceStates], throttled' \subseteq Sources,
         \A s \in Sources : src'[s] = src[s] \/ (Started(s) /\ src'[s] = "closed"),
         \/ inFlight' = inFlight
         \/ t \in Workers /\ job[t].at = "ending" /\ job'[t].at = "again"
            /\ inFlight' = inFlight \ {job[t].source}
  PROVE  SchedulerInv'
<1>1. /\ TypeInv /\ LayersInv /\ HandlingInv /\ owes[t] = OwesNothing /\ hi.by # t
      /\ hi \in HiType /\ handling \in Nat
      /\ hi.at \in {"pause", "activate"} => \A s \in hi.left : Started(s)
  BY FreeFacts
<1>2. PICK new \in OweType : /\ OwesChanged(t, new)
                             /\ new = OwesNothing \/ (new.step = "push" /\ new.tasks = 0)
  BY DEF Adds
<1>3. Handed(t)
  BY <1>1, <1>2, HandedAdd, SameGraph
<1>4. inFlight' \subseteq Sources
  BY <1>1 DEF TypeInv
<1>5. CalmStep(t)
  BY <1>3, <1>4 DEF CalmStep
<1>6. Keeps(t)
  BY <1>1, <1>2 DEF Keeps, OwesChanged
<1>7. QED
  BY <1>5, <1>6, KeepingStepSafe

(* Nothing is added.                                                       *)
LEMMA AddsNothing ==
  ASSUME TypeInv, NEW t \in Threads, owes[t] = OwesNothing, UNCHANGED owes
  PROVE  Adds(t) /\ NewOwes(t)
BY Nothing DEF Adds, NewOwes, OwesChanged, TypeInv

(* What a node does while it runs.                                         *)
LEMMA EmitSafe ==
  ASSUME SchedulerInv, NEW t \in Workers, UNCHANGED graph,
         Emit(t) \/ UpdateThrottledNodes(t) \/ Stop(t)
  PROVE  SchedulerInv'
<1>1. t \in Threads /\ Free(t)
  BY DEF Threads, Emit, UpdateThrottledNodes, Stop, At
<1>2. TypeInv /\ owes[t] = OwesNothing
  BY <1>1, FreeFacts
<1>3. /\ UNCHANGED <<queue, toAdd, pending, running, tasks, nonIdle, handling, hi, state, failed>>
      /\ UNCHANGED <<src, inFlight, job>>
  BY DEF Emit, UpdateThrottledNodes, Stop, queueVars, idleVars, sourceVars
<1>4. throttled' \subseteq Sources
  BY <1>2 DEF Emit, UpdateThrottledNodes, Stop, sourceVars, TypeInv
<1>5. Adds(t) /\ NewOwes(t)
  <2>1. CASE Emit(t)
    BY <1>1, <1>2, <2>1, AddedWork DEF Emit
  <2>2. CASE UpdateThrottledNodes(t)
    <3>1. PICK s \in throttled : IF src[s] = "active" THEN AddSource(t, s) ELSE UNCHANGED owes
      BY <2>2 DEF UpdateThrottledNodes
    <3>2. s \in Sources
      BY <1>2 DEF TypeInv
    <3>3. CASE src[s] = "active"
      BY <1>1, <1>2, <3>1, <3>2, <3>3, AddedSource DEF Started
    <3>4. CASE src[s] # "active"
      BY <1>1, <1>2, <3>1, <3>4, AddsNothing
    <3>5. QED
      BY <3>3, <3>4
  <2>3. CASE Stop(t)
    BY <1>1, <1>2, <2>3, AddsNothing DEF Stop
  <2>4. QED
    BY <2>1, <2>2, <2>3
<1>6. /\ AppMay /\ NewJob(t) /\ job' \in [Threads -> JobType] /\ \A u \in Workers : u # t => job'[u] = job[u]
      /\ (job'[t].at = "idle") = (job[t].at = "idle") /\ job'[t].queue = job[t].queue
  BY <1>1, <1>2, <1>3, JobsStay
<1>7. src' \in [Sources -> SourceStates] /\ running' \in [Queues -> Int]
  BY <1>2, <1>3 DEF TypeInv
<1>8. QED
  BY <1>1, <1>3, <1>4, <1>5, <1>6, <1>7, FreeStepSafe

(* The step with which a worker goes on to another part of its job.        *)
LEMMA WorkerGoesSafe ==
  ASSUME SchedulerInv, NEW t \in Workers, Free(t), UNCHANGED graph,
         UNCHANGED <<queue, toAdd, pending, running, tasks, nonIdle, handling, hi, state, failed, throttled>>,
         NEW where \in {"finish", "ending", "again"}, Goto(t, where), job[t].at # "idle",
         where = "ending" => job[t].at = "run", where = "again" => job[t].at = "ending",
         Adds(t), NewOwes(t),
         src' \in [Sources -> SourceStates],
         \A s \in Sources : src'[s] = src[s] \/ (Started(s) /\ src'[s] = "closed"),
         \/ inFlight' = inFlight
         \/ where = "again" /\ inFlight' = inFlight \ {job[t].source}
  PROVE  SchedulerInv'
<1>1. t \in Threads
  BY DEF Threads
<1>2. TypeInv /\ where \in Places
  BY DEF SchedulerInv, Places
<1>3. /\ AppMay /\ JobMoved(t, where)
      /\ job' \in [Threads -> JobType] /\ \A u \in Workers : u # t => job'[u] = job[u]
      /\ (job'[t].at = "idle") = (job[t].at = "idle") /\ job'[t].queue = job[t].queue
  BY <1>2, WorkerGoes
<1>4. NewJob(t)
  BY <1>3 DEF NewJob, JobMoved
<1>5. running' \in [Queues -> Int] /\ throttled' \subseteq Sources
  BY <1>2 DEF TypeInv
<1>6. job'[t].at = where
  BY <1>3 DEF JobMoved
<1>7. QED
  BY <1>1, <1>3, <1>4, <1>5, <1>6, FreeStepSafe

(* The steps that do just that.                                            *)
LEMMA WorkDoneSafe ==
  ASSUME SchedulerInv, NEW t \in Workers, UNCHANGED graph,
         Fail(t) \/ WorkDone(t) \/ SourceGoesOn(t) \/ EndScheduling(t) \/ \E s \in Sources : CloseSource(t, s)
  PROVE  SchedulerInv'
<1>1. t \in Threads /\ Free(t)
  BY DEF Threads, Fail, WorkDone, SourceGoesOn, EndScheduling, CloseSource, At
<1>2. /\ TypeInv /\ LayersInv /\ owes[t] = OwesNothing /\ src \in [Sources -> SourceStates]
      /\ inFlight \subseteq Sources
  BY <1>1, FreeFacts DEF TypeInv
<1>3. /\ UNCHANGED <<queue, toAdd, pending, running, tasks, nonIdle, handling, hi, state, failed, throttled, owes>>
      /\ job[t].at # "idle"
  BY DEF Fail, WorkDone, SourceGoesOn, EndScheduling, CloseSource, queueVars, idleVars, sourceVars, At
<1>4. Adds(t) /\ NewOwes(t)
  BY <1>1, <1>2, <1>3, AddsNothing
<1>5. CASE Fail(t) \/ WorkDone(t) \/ SourceGoesOn(t)
  <2>1. src' = src /\ inFlight' = inFlight
    BY <1>5 DEF Fail, WorkDone, SourceGoesOn, sourceVars
  <2>2. Goto(t, "finish") \/ (Goto(t, "ending") /\ job[t].at = "run")
    BY <1>5 DEF Fail, WorkDone, SourceGoesOn, At
  <2>3. CASE Goto(t, "finish")
    BY <1>1, <1>2, <1>3, <1>4, <2>1, <2>3, WorkerGoesSafe
  <2>4. CASE Goto(t, "ending") /\ job[t].at = "run"
    BY <1>1, <1>2, <1>3, <1>4, <2>1, <2>4, WorkerGoesSafe
  <2>5. QED
    BY <2>2, <2>3, <2>4
<1>6. CASE EndScheduling(t)
  <2>1. src' = src /\ inFlight' = inFlight \ {job[t].source} /\ Goto(t, "again") /\ job[t].at = "ending"
    BY <1>6 DEF EndScheduling, At
  <2>2. QED
    BY <1>1, <1>2, <1>3, <1>4, <2>1, WorkerGoesSafe
<1>7. CASE \E s \in Sources : CloseSource(t, s)
  <2>1. PICK s \in Sources : CloseSource(t, s)
    BY <1>7
  <2>2. /\ src' = [src EXCEPT ![s] = "closed"] /\ inFlight' = inFlight /\ Goto(t, "finish")
        /\ job[t].at = "run" /\ job[t].source = s
    BY <2>1 DEF CloseSource, At
  <2>3. Started(s)
    BY <1>2, <2>2 DEF LayersInv, RunInv, Does
  <2>4. src' \in [Sources -> SourceStates]
    BY <1>2, <2>2 DEF SourceStates
  <2>5. \A r \in Sources : src'[r] = src[r] \/ (Started(r) /\ src'[r] = "closed")
    BY <1>2, <2>2, <2>3
  <2>6. QED
    BY <1>1, <1>2, <1>3, <1>4, <2>2, <2>4, <2>5, WorkerGoesSafe
<1>8. QED
  BY <1>5, <1>6, <1>7

(* A source that goes on is scheduled again unless it is throttled.        *)
LEMMA ScheduleNodeSafe ==
  ASSUME SchedulerInv, NEW t \in Workers, UNCHANGED graph, ScheduleNodeIfNotThrottled(t)
  PROVE  SchedulerInv'
<1>1. t \in Threads /\ Free(t) /\ job[t].at = "again"
  BY DEF Threads, ScheduleNodeIfNotThrottled, At
<1>2. TypeInv /\ LayersInv /\ owes[t] = OwesNothing /\ src \in [Sources -> SourceStates]
  BY <1>1, FreeFacts DEF TypeInv
<1>3. /\ UNCHANGED <<queue, toAdd, pending, running, tasks, nonIdle, handling, hi, state, failed>>
      /\ UNCHANGED <<src, inFlight, throttled>> /\ Goto(t, "finish")
  BY DEF ScheduleNodeIfNotThrottled, queueVars, idleVars, sourceVars
<1>4. PICK s \in Sources : s = job[t].source
  BY <1>1, <1>2 DEF LayersInv, NamesInv
<1>5. Started(s)
  BY <1>1, <1>2, <1>4 DEF LayersInv, RunInv, Does
<1>6. AddSource(t, s) \/ UNCHANGED owes
  BY <1>4 DEF ScheduleNodeIfNotThrottled
<1>7. Adds(t) /\ NewOwes(t)
  BY <1>1, <1>2, <1>5, <1>6, AddedSource
<1>8. QED
  BY <1>1, <1>2, <1>3, <1>7, WorkerGoesSafe

(* A source that waited for its side packet is scheduled to be opened.     *)
LEMMA ProduceSidePacketSafe ==
  ASSUME SchedulerInv, NEW t \in Workers, UNCHANGED graph, ProduceSidePacket(t)
  PROVE  SchedulerInv'
<1>1. t \in Threads /\ Free(t)
  BY DEF Threads, ProduceSidePacket, At
<1>2. /\ TypeInv /\ LayersInv /\ HandlingInv /\ owes[t] = OwesNothing /\ hi.by # t
      /\ hi \in HiType /\ handling \in Nat /\ src \in [Sources -> SourceStates]
  BY <1>1, FreeFacts DEF TypeInv
<1>3. /\ UNCHANGED <<queue, toAdd, pending, running, tasks, nonIdle, handling, hi, state, failed>>
      /\ UNCHANGED <<inFlight, throttled, job>>
  BY DEF ProduceSidePacket, queueVars, idleVars
<1>4. PICK s \in Sources :
        src' = [src EXCEPT ![s] = "opening"] /\ ~hasError /\ AddItem(t, QueueOf[s], "open", s)
  BY DEF ProduceSidePacket
<1>5. QueueOf[s] \in Queues
  BY <1>2, GraphFacts DEF TypeInv
<1>6. PICK new \in OweType : OwesChanged(t, new) /\ new.step = "push" /\ new.tasks = 0
  <2>1. OwesChanged(t, ToPush(QueueOf[s], "open", s))
    BY <1>1, <1>2, <1>4, <1>5, AddItemOwes
  <2>2. ToPush(QueueOf[s], "open", s) \in OweType
    BY <1>5 DEF ToPush, OweType
  <2>3. QED
    BY <2>1, <2>2, ToPushFields
<1>7. Handed(t)
  BY <1>1, <1>2, <1>3, <1>6, HandedAdd, SameGraph
<1>8. src' \in [Sources -> SourceStates]
  BY <1>2, <1>4 DEF SourceStates
<1>9. CalmStep(t)
  BY <1>1, <1>2, <1>3, <1>7, <1>8, JobsStay DEF CalmStep, TypeInv
<1>10. LayersInTurn' /\ OpenInv' /\ RunInv' /\ NamesInv'
  BY <1>1, <1>2, ProduceKeepsLayers
<1>11. QED
  BY <1>1, <1>9, <1>10, CalmStepSafe

(* An opened source waits for its layer.                                   *)
LEMMA NodeOpenedSafe ==
  ASSUME SchedulerInv, NEW t \in Workers, UNCHANGED graph, NodeOpened(t)
  PROVE  SchedulerInv'
<1>1. t \in Threads /\ Free(t) /\ job[t].at = "open" /\ "finish" \in Places
  BY DEF Threads, NodeOpened, At, Places
<1>2. /\ TypeInv /\ LayersInv /\ HandlingInv /\ owes[t] = OwesNothing /\ hi.by # t
      /\ hi \in HiType /\ handling \in Nat /\ src \in [Sources -> SourceStates]
  BY <1>1, FreeFacts DEF TypeInv
<1>3. /\ UNCHANGED <<queue, toAdd, pending, running, tasks, nonIdle, handling, hi, state, failed>>
      /\ UNCHANGED <<inFlight, throttled, owes>> /\ Goto(t, "finish")
  BY DEF NodeOpened, queueVars, idleVars
<1>4. Handed(t)
  BY <1>1, <1>2, <1>3, HandedFree, SameGraph
<1>5. src' \in [Sources -> SourceStates]
  BY <1>2 DEF NodeOpened, SourceStates
<1>6. /\ AppMay /\ job' \in [Threads -> JobType] /\ \A u \in Workers : u # t => job'[u] = job[u]
      /\ (job'[t].at = "idle") = (job[t].at = "idle") /\ job'[t].queue = job[t].queue
  BY <1>1, <1>2, <1>3, WorkerGoes
<1>7. CalmStep(t)
  BY <1>2, <1>3, <1>4, <1>5, <1>6 DEF CalmStep, TypeInv
<1>8. LayersInTurn' /\ OpenInv' /\ RunInv' /\ NamesInv'
  BY <1>1, <1>2, OpenedKeepsLayers
<1>9. QED
  BY <1>1, <1>7, <1>8, CalmStepSafe

-----------------------------------------------------------------------------
(* The steps of an application.                                            *)

(* Those that stay out of HandleIdle.                                      *)
LEMMA AddPacketSafe ==
  ASSUME SchedulerInv, NEW t \in Apps, UNCHANGED graph,
         AddPacket(t) \/ AskUntilIdle(t) \/ WaitUntilIdle(t) \/ CloseAllSourceNodes(t)
  PROVE  SchedulerInv'
<1>1. /\ t \in Threads /\ Free(t) /\ job[t].at \notin {"start", "done"}
      /\ {"added", "waitIdle", "ready"} \subseteq Places
  BY DEF Threads, AddPacket, AskUntilIdle, WaitUntilIdle, CloseAllSourceNodes, At, Places
<1>2. TypeInv /\ owes[t] = OwesNothing
  BY <1>1, FreeFacts
<1>3. /\ UNCHANGED <<queue, toAdd, pending, running, tasks, nonIdle, handling, hi, state, failed>>
      /\ UNCHANGED <<src, inFlight, throttled>>
  BY DEF AddPacket, AskUntilIdle, WaitUntilIdle, CloseAllSourceNodes, queueVars, idleVars, sourceVars
<1>4. PICK where \in {"added", "waitIdle", "ready"} : Goto(t, where)
  BY DEF AddPacket, AskUntilIdle, WaitUntilIdle, CloseAllSourceNodes
<1>5. Adds(t) /\ NewOwes(t)
  <2>1. CASE AddPacket(t)
    BY <1>1, <1>2, <2>1, AddedWork DEF AddPacket
  <2>2. CASE AskUntilIdle(t) \/ WaitUntilIdle(t) \/ CloseAllSourceNodes(t)
    BY <1>1, <1>2, <2>2, AddsNothing DEF AskUntilIdle, WaitUntilIdle, CloseAllSourceNodes
  <2>3. QED
    BY <2>1, <2>2
<1>6. /\ AppMay /\ t \notin Workers
      /\ job' \in [Threads -> JobType] /\ \A u \in Workers : u # t => job'[u] = job[u]
  BY <1>1, <1>2, <1>3, <1>4, AppGoes
<1>7. /\ src' \in [Sources -> SourceStates] /\ running' \in [Queues -> Int] /\ throttled' \subseteq Sources
  BY <1>2, <1>3 DEF TypeInv
<1>8. QED
  BY <1>1, <1>3, <1>5, <1>6, <1>7, FreeStepSafe

(* The application pauses the graph.                                       *)
LEMMA PauseSafe ==
  ASSUME SchedulerInv, NEW t \in Apps, UNCHANGED graph, Pause(t)
  PROVE  SchedulerInv'
<1>1. t \in Threads /\ Free(t) /\ t \notin Workers
  BY SchedulerAssumption DEF Threads, Pause, At
<1>2. TypeInv /\ owes[t] = OwesNothing
  BY <1>1, FreeFacts
<1>3. /\ UNCHANGED <<queue, toAdd, pending, tasks, nonIdle, handling, hi, failed>>
      /\ UNCHANGED <<src, inFlight, throttled, owes, job>> /\ state # "not_started"
  BY DEF Pause, sourceVars
<1>4. Adds(t) /\ NewOwes(t)
  BY <1>1, <1>2, <1>3, AddsNothing
<1>5. running' \in [Queues -> Int]
  BY <1>2, RunningType DEF Pause
<1>6. AppMay /\ job' \in [Threads -> JobType] /\ \A u \in Workers : u # t => job'[u] = job[u]
  BY <1>1, <1>2, <1>3, JobsStay
<1>7. src' \in [Sources -> SourceStates] /\ throttled' \subseteq Sources
  BY <1>2, <1>3 DEF TypeInv
<1>8. QED
  BY <1>1, <1>3, <1>4, <1>5, <1>6, <1>7, FreeStepSafe

(* Those that call HandleIdle.                                             *)
LEMMA CallStepSafe ==
  ASSUME SchedulerInv, NEW t \in Apps, Free(t), Unlocked, UNCHANGED graph,
         CallHandleIdle(t, OwesNothing) \/ UNCHANGED <<handling, hi, owes>>,
         UNCHANGED <<queue, toAdd, pending, tasks, nonIdle, src, inFlight, throttled>>, ~failed => ~failed',
         running' \in [Queues -> Int], AppMay,
         job' \in [Threads -> JobType], \A u \in Workers : job'[u] = job[u]
  PROVE  SchedulerInv'
<1>1. t \in Threads /\ t \notin Workers
  BY SchedulerAssumption DEF Threads
<1>2. /\ TypeInv /\ LayersInv /\ HandlingInv /\ owes[t] = OwesNothing /\ hi.by # t
      /\ hi \in HiType /\ handling \in Nat
      /\ hi.at \in {"pause", "activate"} => \A s \in hi.left : Started(s)
  BY <1>1, FreeFacts
<1>3. Handed(t) /\ owes'[t] = OwesNothing /\ (hi'.at # "loop" => hi' = hi)
  <2>1. CASE CallHandleIdle(t, OwesNothing)
    BY <1>1, <1>2, <2>1, HandedCall
  <2>2. CASE UNCHANGED <<handling, hi, owes>>
    BY <1>1, <1>2, <2>2, HandedFree, SameGraph
  <2>3. QED
    BY <2>1, <2>2
<1>4. CalmStep(t)
  BY <1>1, <1>2, <1>3 DEF CalmStep, TypeInv
<1>5. Keeps(t)
  BY <1>1, <1>2, <1>3 DEF Keeps, NewOwes, Handed, ThreadSteps
<1>6. QED
  BY <1>1, <1>4, <1>5, KeepingStepSafe

(* A thread that is to go on elsewhere.                                    *)
LEMMA IdlingAt ==
  ASSUME NEW where \in Places
  PROVE  [Idling EXCEPT !.at = where] \in JobType /\ [Idling EXCEPT !.at = where].at = where
BY DEF Idling, JobType

(* The application starts the run.                                         *)
LEMMA StartSafe ==
  ASSUME SchedulerInv, NEW t \in Apps, UNCHANGED graph, Start(t)
  PROVE  SchedulerInv'
<1>1. /\ t \in Threads /\ Free(t) /\ Unlocked /\ job[t].at = "start" /\ CallHandleIdle(t, OwesNothing)
      /\ Workers \cap Apps = {} /\ Workers \subseteq Threads /\ Apps \subseteq Threads
      /\ SetQueuesRunning(TRUE)
  BY SchedulerAssumption DEF Threads, Start, At
<1>2. TypeInv /\ AppInv
  BY DEF SchedulerInv
<1>3. UNCHANGED <<queue, toAdd, pending, tasks, nonIdle, src, inFlight, throttled>>
  BY DEF Start, sourceVars
<1>4. state = "not_started"
  BY <1>1, <1>2 DEF AppInv
<1>5. ~failed => ~failed'
  <2>1. failed' = (failed \/ ~(state = "not_started"))
    BY DEF Start, Check
  <2>2. QED
    BY <1>4, <2>1, Zenon
<1>6. running' \in [Queues -> Int]
  BY <1>1, <1>2, RunningType
<1>7. PICK j \in JobType, k \in JobType : /\ j = [Idling EXCEPT !.at = "submit"] /\ j.at = "submit"
                                          /\ k = [Idling EXCEPT !.at = "ready"] /\ k.at = "ready"
  <2>1. "submit" \in Places /\ "ready" \in Places
    BY DEF Places
  <2>2. QED
    BY <2>1, IdlingAt, Zenon
<1>8. job' = [u \in Threads |-> IF u = t THEN j ELSE IF u \in Apps THEN k ELSE job[u]]
  BY <1>7 DEF Start
<1>9. job' \in [Threads -> JobType]
  BY <1>2, <1>7, <1>8 DEF TypeInv
<1>10. /\ \A u \in Workers : job'[u] = job[u]
       /\ \A u \in Apps : job'[u].at \in {"submit", "ready"}
  BY <1>1, <1>7, <1>8
<1>11. \A u \in Apps : job[u].at # "done"
  BY <1>1, <1>2 DEF AppInv, Done
<1>12. AppMay
  BY <1>10, <1>11 DEF AppMay
<1>13. QED
  BY <1>1, <1>3, <1>5, <1>6, <1>9, <1>10, <1>12, CallStepSafe

(* The other calls of HandleIdle by an application.                        *)
LEMMA AppCallsSafe ==
  ASSUME SchedulerInv, NEW t \in Apps, UNCHANGED graph,
         AddedPacketToGraphInputStream(t) \/ ClosedAllGraphInputStreams(t) \/ Resume(t) \/ Cancel(t)
  PROVE  SchedulerInv'
<1>1. /\ t \in Threads /\ Free(t) /\ Unlocked /\ job[t].at \notin {"start", "done"}
      /\ {"ready", "stop", "submit"} \subseteq Places \ {"start", "done"} /\ Workers \cap Apps = {}
  BY SchedulerAssumption DEF Threads, AddedPacketToGraphInputStream, ClosedAllGraphInputStreams, Resume,
     Cancel, At, Places
<1>2. TypeInv /\ running \in [Queues -> Int]
  BY DEF SchedulerInv, TypeInv
<1>3. /\ UNCHANGED <<queue, toAdd, pending, tasks, nonIdle, src, inFlight, throttled, failed>>
      /\ CallHandleIdle(t, OwesNothing) \/ UNCHANGED <<handling, hi, owes>>
      /\ state' = state \/ state # "not_started"
  BY DEF AddedPacketToGraphInputStream, ClosedAllGraphInputStreams, Resume, Cancel, queueVars, sourceVars
<1>4. PICK where \in {"ready", "stop", "submit"} : Goto(t, where)
  BY DEF AddedPacketToGraphInputStream, ClosedAllGraphInputStreams, Resume, Cancel
<1>5. running' \in [Queues -> Int]
  <2>1. CASE UNCHANGED running
    BY <1>2, <2>1, SameGraph
  <2>2. CASE SetQueuesRunning(TRUE)
    BY <1>2, <2>2, RunningType
  <2>3. QED
    BY <2>1, <2>2 DEF AddedPacketToGraphInputStream, ClosedAllGraphInputStreams, Resume, Cancel, queueVars
<1>6. /\ AppMay /\ t \notin Workers
      /\ job' \in [Threads -> JobType] /\ \A u \in Workers : u # t => job'[u] = job[u]
  BY <1>1, <1>2, <1>3, <1>4, AppGoes
<1>7. \A u \in Workers : job'[u] = job[u]
  BY <1>6
<1>8. QED
  BY <1>1, <1>3, <1>5, <1>6, <1>7, CallStepSafe

(* After a start, a resumption or a cancellation the tasks are submitted.  *)
LEMMA SubmitAfterSafe ==
  ASSUME SchedulerInv, NEW t \in Apps, UNCHANGED graph, SubmitAfter(t)
  PROVE  SchedulerInv'
<1>1. /\ t \in Threads /\ Free(t) /\ job[t].at = "submit" /\ "ready" \in Places \ {"start", "done"}
      /\ Goto(t, "ready") /\ SubmitWaiting
  BY DEF Threads, SubmitAfter, At, Places
<1>2. /\ TypeInv /\ LayersInv /\ HandlingInv /\ AppInv /\ owes[t] = OwesNothing /\ hi.by # t
      /\ hi \in HiType /\ handling \in Nat
      /\ hi.at \in {"pause", "activate"} => \A s \in hi.left : Started(s)
  BY <1>1, FreeFacts
<1>3. UNCHANGED <<queue, running, nonIdle, handling, hi, state, src, inFlight, throttled, owes, failed>>
  BY DEF SubmitAfter, SubmitWaiting, idleVars, sourceVars
<1>4. Handed(t)
  BY <1>1, <1>2, <1>3, HandedFree, SameGraph
<1>5. /\ AppMay /\ t \notin Workers
      /\ job' \in [Threads -> JobType] /\ \A u \in Workers : u # t => job'[u] = job[u]
  BY <1>1, <1>2, <1>3, AppGoes
<1>6. /\ toAdd' \in [Queues -> Nat] /\ pending' \in [Queues -> Int] /\ tasks' \in [Queues -> Nat]
      /\ Ledger /\ CountIsRight => Ledger' /\ CountIsRight'
  BY <1>1, <1>2, <1>3, <1>4, <1>5, SubmitWaitingKeeps
<1>7. TypeInv'
  BY <1>2, <1>3, <1>4, <1>5, <1>6, SameGraph DEF TypeInv, Handed, ThreadSteps
<1>8. Keeps(t)
  BY <1>2, <1>3, <1>5 DEF Keeps, NewOwes
<1>9. LayersInv'
  BY <1>1, <1>2, <1>4, <1>8, KeepsLayers DEF LayersInv, Handed
<1>10. AppInv' /\ (~Done' => ~Done)
  BY <1>2, <1>5, AppsGoOn
<1>11. QED
  BY <1>6, <1>7, <1>9, <1>10 DEF SchedulerInv

(* The run is cleaned up.                                                  *)
LEMMA CleanupSafe ==
  ASSUME SchedulerInv, NEW t \in Apps, UNCHANGED graph, CleanupAfterRun(t)
  PROVE  SchedulerInv'
<1>1. /\ t \in Threads /\ Free(t) /\ state = "terminated"
      /\ Workers \cap Apps = {} /\ Workers \subseteq Threads /\ Apps \subseteq Threads
  BY SchedulerAssumption DEF Threads, CleanupAfterRun, At
<1>2. /\ TypeInv /\ LayersInv /\ HandlingInv /\ AppInv /\ owes[t] = OwesNothing /\ hi.by # t
      /\ hi \in HiType /\ handling \in Nat /\ nonIdle \in Int
      /\ hi.at \in {"pause", "activate"} => \A s \in hi.left : Started(s)
  BY <1>1, FreeFacts
<1>3. UNCHANGED <<pending, running, tasks, handling, hi, state, src, inFlight, throttled, owes>>
  BY DEF CleanupAfterRun, sourceVars
<1>4. PICK d \in QueueType : d = [open |-> {}, work |-> 0, run |-> {}] /\ d.open = {} /\ d.run = {}
  <2> DEFINE d == [open |-> {}, work |-> 0, run |-> {}]
  <2>1. d \in QueueType /\ d.open = {} /\ d.run = {}
    BY DEF QueueType
  <2> HIDE DEF d
  <2>2. QED
    BY <2>1, Zenon DEF d
<1>5. queue' = [q \in Queues |-> d] /\ toAdd' = [q \in Queues |-> 0]
  BY <1>4 DEF CleanupAfterRun
<1>6. PICK j \in JobType : j = [Idling EXCEPT !.at = "done"] /\ j.at = "done"
  <2>1. "done" \in Places
    BY DEF Places
  <2>2. QED
    BY <2>1, IdlingAt, Zenon
<1>7. job' = [u \in Threads |-> IF u \in Apps THEN j ELSE job[u]]
  BY <1>6 DEF CleanupAfterRun
<1>8. /\ job' \in [Threads -> JobType] /\ \A u \in Workers : job'[u] = job[u]
      /\ \A u \in Apps : job'[u].at = "done"
  BY <1>1, <1>2, <1>6, <1>7 DEF TypeInv
<1>9. nonIdle' \in Int
  <2>1. IsFiniteSet(ActiveQueues)
    BY <1>2, GraphFacts, FS_Subset DEF TypeInv, ActiveQueues
  <2>2. Cardinality(ActiveQueues) \in Nat
    BY <2>1, FS_CardinalityType
  <2>3. nonIdle' = nonIdle - Cardinality(ActiveQueues)
    BY DEF CleanupAfterRun, ActiveQueues
  <2>4. QED
    BY <1>2, <2>2, <2>3
<1>10. TypeInv'
  <2>1. queue' \in [Queues -> QueueType] /\ toAdd' \in [Queues -> Nat]
    BY <1>5
  <2>2. QED
    BY <1>2, <1>3, <1>8, <1>9, <2>1, SameGraph DEF TypeInv
<1>11. HandlingInv'
  BY <1>2, <1>3 DEF HandlingInv
<1>12. Keeps(t)
  <2>1. \A q \in Queues : queue'[q].open \subseteq queue[q].open /\ queue'[q].run \subseteq queue[q].run
    BY <1>4, <1>5
  <2>2. QED
    BY <1>1, <1>2, <1>3, <1>8, <2>1 DEF Keeps, NewOwes
<1>13. LayersInv'
  BY <1>1, <1>2, <1>11, <1>12, KeepsLayers DEF LayersInv
<1>14. AppInv' /\ Done'
  BY <1>8 DEF AppInv, Done
<1>15. QED
  BY <1>10, <1>13, <1>14 DEF SchedulerInv

-----------------------------------------------------------------------------
(* A sum of zeros.                                                         *)
LEMMA TotalOfZeros ==
  ASSUME NEW T, NEW f, \A t \in T : f[t] = 0
  PROVE  Total(T, f) = 0
<1>1. \A t \in T : {t} \X (1 .. f[t]) = {}
  OBVIOUS
<1>2. Units(T, f) = {}
  BY <1>1 DEF Units
<1>3. QED
  BY <1>2, FS_EmptySet DEF Total

(* PrepareForRun leaves the books in order.                                *)
LEMMA SchedulerInvInit == Init => SchedulerInv
<1> SUFFICES ASSUME Init PROVE SchedulerInv
  OBVIOUS
<1> USE Nothing
<1>1. /\ IsFiniteSet(Queues) /\ IsFiniteSet(Sources) /\ IsFiniteSet(Threads)
      /\ Workers \cap Apps = {} /\ QueueOf \in [Sources -> Queues] /\ Openers \in [Queues -> Nat]
      /\ Workers \subseteq Threads /\ Apps \subseteq Threads /\ graph \in Graphs
  BY GraphFacts DEF Init, Threads
<1>2. /\ queue = [q \in Queues |-> [open |-> Early(q), work |-> Openers[q], run |-> {}]]
      /\ toAdd = [q \in Queues |-> Size(queue[q])]
      /\ nonIdle = Cardinality({q \in Queues : toAdd[q] > 0})
      /\ pending = [q \in Queues |-> 0] /\ running = pending /\ tasks = pending
      /\ handling = 0 /\ hi = NotHandling /\ state = "not_started"
      /\ src = [s \in Sources |-> IF s \in Late THEN "unopened" ELSE "opening"]
      /\ inFlight = {} /\ throttled = {} /\ owes = [t \in Threads |-> OwesNothing] /\ failed = FALSE
  BY DEF Init
<1>3. PICK j \in JobType, k \in JobType, starter \in Apps :
        /\ j.at = "start" /\ k.at = "later"
        /\ job = [t \in Threads |-> IF t = starter THEN j ELSE IF t \in Apps THEN k ELSE Idling]
  <2>1. "start" \in Places /\ "later" \in Places
    BY DEF Places
  <2>2. PICK j, k : /\ j = [Idling EXCEPT !.at = "start"] /\ k = [Idling EXCEPT !.at = "later"]
    OBVIOUS
  <2>3. j \in JobType /\ j.at = "start" /\ k \in JobType /\ k.at = "later"
    BY <2>1, <2>2, IdlingAt, Zenon
  <2>4. PICK starter \in Apps :
          job = [t \in Threads |-> IF t = starter THEN j ELSE IF t \in Apps THEN k ELSE Idling]
    BY <2>2 DEF Init
  <2>5. QED
    BY <2>3, <2>4
<1>4. /\ job \in [Threads -> JobType] /\ \A t \in Workers : job[t] = Idling
      /\ \A t \in Apps : job[t].at \in {"start", "later"}
  BY <1>1, <1>3
<1>5. \A q \in Queues : /\ queue[q] \in QueueType /\ queue[q].open = Early(q) /\ queue[q].run = {}
  <2>1. ASSUME NEW q \in Queues
        PROVE  queue[q] \in QueueType /\ queue[q].open = Early(q) /\ queue[q].run = {}
    <3>1. queue[q] = [open |-> Early(q), work |-> Openers[q], run |-> {}]
      BY <1>2
    <3>2. Early(q) \subseteq Sources /\ Openers[q] \in Nat
      BY <1>1 DEF Early
    <3>3. QED
      BY <3>1, <3>2 DEF QueueType
  <2>2. QED
    BY <2>1
<1>6. queue \in [Queues -> QueueType]
  <2>1. DOMAIN queue = Queues /\ queue = [q \in Queues |-> queue[q]]
    BY <1>2
  <2>2. QED
    BY <1>5, <2>1
<1>7. \A q \in Queues : Size(queue[q]) \in Nat
  BY <1>1, <1>5, SizeType
<1>8. \A q \in Queues : /\ toAdd[q] = Size(queue[q]) /\ pending[q] = 0 /\ tasks[q] = 0
  BY <1>2
<1>9. TypeInv
  <2>1. toAdd \in [Queues -> Nat]
    BY <1>2, <1>7
  <2>2. nonIdle \in Int
    <3>1. IsFiniteSet({q \in Queues : toAdd[q] > 0})
      BY <1>1, FS_Subset
    <3>2. QED
      BY <1>2, <3>1, FS_CardinalityType
  <2>3. src \in [Sources -> SourceStates] /\ owes \in [Threads -> OweType]
    BY <1>2 DEF SourceStates
  <2>4. pending \in [Queues -> Int] /\ running \in [Queues -> Int] /\ tasks \in [Queues -> Nat]
    BY <1>2
  <2>5. QED
    BY <1>1, <1>2, <1>4, <1>6, <2>1, <2>2, <2>3, <2>4 DEF TypeInv
<1>10. LayersInv
  <2>1. LayersInTurn
    BY <1>2 DEF LayersInTurn
  <2>2. \A t \in Threads : owes[t].step = "none"
    BY <1>2
  <2>3. \A t \in Workers : job[t].at = "idle"
    BY <1>4
  <2>5. \A q \in Queues : \A s \in queue[q].open : src[s] = "opening" /\ QueueOf[s] = q
    BY <1>2, <1>5 DEF Early
  <2>6. OpenInv
    BY <2>2, <2>3, <2>5 DEF OpenInv, Pushes, Does
  <2>7. RunInv
    BY <1>2, <1>5, <2>2, <2>3 DEF RunInv, Pushes, Does
  <2>8. NamesInv
    BY <2>2, <2>3 DEF NamesInv
  <2>9. HandlingInv
    BY <1>2, <2>2 DEF HandlingInv
  <2>10. QED
    BY <2>1, <2>6, <2>7, <2>8, <2>9 DEF LayersInv
<1>11. AppInv
  BY <1>2, <1>4 DEF AppInv, Done
<1>12. Ledger
  <2>1. ASSUME NEW q \in Queues
        PROVE  /\ Size(queue[q]) = toAdd[q] + tasks[q] + InHands(q)
               /\ pending[q] = tasks[q] + InHands(q) + Cardinality(WorkOn(q))
    <3>1. InHand(OwesNothing, q) = 0
      BY DEF InHand
    <3>2. PICK f : f = [t \in Threads |-> InHand(owes[t], q)]
      OBVIOUS
    <3>3. \A t \in Threads : f[t] = 0
      BY <1>2, <3>1, <3>2
    <3>4. Total(Threads, f) = 0
      BY <3>3, TotalOfZeros
    <3>5. InHands(q) = 0
      BY <1>2, <3>1, <3>2, <3>4 DEF InHands
    <3>6. WorkOn(q) = {}
      BY <1>4 DEF WorkOn
    <3>7. Cardinality(WorkOn(q)) = 0
      BY <3>6, FS_EmptySet
    <3>8. QED
      BY <1>7, <1>8, <3>5, <3>7
  <2>2. QED
    BY <2>1 DEF Ledger
<1>13. CountIsRight
  <2>1. \A step \in {"active", "idle"} : {t \in Threads : owes[t].step = step} = {}
    BY <1>2
  <2>2. Owing("active") = 0 /\ Owing("idle") = 0
    BY <2>1, FS_EmptySet DEF Owing
  <2>3. \A q \in Queues : (toAdd[q] > 0) = ~IsIdle(q)
    BY <1>7, <1>8 DEF IsIdle
  <2>4. {q \in Queues : toAdd[q] > 0} = {q \in Queues : ~IsIdle(q)}
    BY <2>3
  <2>5. nonIdle = Cardinality({q \in Queues : ~IsIdle(q)}) /\ nonIdle \in Int
    BY <1>2, <1>9, <2>4 DEF TypeInv
  <2>6. ~failed
    BY <1>2
  <2>7. QED
    BY <2>2, <2>5, <2>6 DEF CountIsRight
<1>14. QED
  BY <1>9, <1>10, <1>11, <1>12, <1>13 DEF SchedulerInv

(* Every step preserves the invariant.                                     *)
LEMMA SchedulerInvNext == SchedulerInv /\ [Next /\ UNCHANGED graph]_<<vars, graph>> => SchedulerInv'
<1> SUFFICES ASSUME SchedulerInv, [Next /\ UNCHANGED graph]_<<vars, graph>> PROVE SchedulerInv'
  OBVIOUS
<1>1. CASE Next /\ UNCHANGED graph
  <2>1. ASSUME NEW t \in Threads, Adding(t) \/ HandleIdle(t) PROVE SchedulerInv'
    BY <1>1, <2>1, PushSafe, QueueIdleStateChangedSafe, SubmitTasksSafe, HandleIdleSafe DEF Adding
  <2>2. ASSUME NEW t \in Workers, NodeActs(t) \/ Work(t) PROVE SchedulerInv'
    BY <1>1, <2>2, EmitSafe, ProduceSidePacketSafe, WorkDoneSafe, RunNextTaskSafe, NodeOpenedSafe,
       ScheduleNodeSafe, FinishTaskSafe DEF NodeActs, Work
  <2>3. ASSUME NEW t \in Apps, AppActs(t) \/ AppContinues(t) PROVE SchedulerInv'
    BY <1>1, <2>3, AddPacketSafe, AppCallsSafe, PauseSafe, StartSafe, SubmitAfterSafe, CleanupSafe
       DEF AppActs, AppContinues
  <2>4. QED
    BY <1>1, <2>1, <2>2, <2>3 DEF Next
<1>2. CASE UNCHANGED <<vars, graph>>
  <2>1. /\ UNCHANGED <<graph, queue, toAdd, pending, running, tasks, nonIdle, handling, hi, state>>
        /\ UNCHANGED <<src, inFlight, throttled, job, owes, failed>>
    BY <1>2 DEF vars, queueVars, idleVars, sourceVars
  <2>2. TypeInv'
    BY <2>1, SameGraph DEF SchedulerInv, TypeInv
  <2>3. LayersInv'
    BY <2>1, SameGraph DEF SchedulerInv, LayersInv, LayersInTurn, OpenInv, RunInv, NamesInv, HandlingInv,
       Pushes, Does, Started
  <2>4. AppInv' /\ Done' = Done
    BY <2>1 DEF SchedulerInv, AppInv, Done
  <2>5. Ledger' = Ledger
    BY <2>1, SameGraph DEF Ledger, InHands, InHand, WorkOn, Size, Total, Units
  <2>6. CountIsRight' = CountIsRight
    BY <2>1, SameGraph DEF CountIsRight, Owing, IsIdle, Size
  <2>7. QED
    BY <2>2, <2>3, <2>4, <2>5, <2>6 DEF SchedulerInv
<1>3. QED
  BY <1>1, <1>2

(* In every run, whatever nodes and applications do, a source is active    *)
(* only when those of the lower layers have closed (scheduler.cc,          *)
(* TryToScheduleNextSourceLayer and AddNodeToSourcesQueue).                *)
THEOREM LayersStayInTurn == Spec => []LayersInTurn
<1>1. SchedulerInv => LayersInTurn
  BY DEF SchedulerInv, LayersInv
<1>2. QED
  BY <1>1, SchedulerInvInit, SchedulerInvNext, PTL DEF Spec

(* Until the run is cleaned up the scheduler's count of active queues is   *)
(* right, but for the reports that threads still owe, and no CHECK of the  *)
(* queues fails (scheduler_queue.cc, AddItemToQueue and RunNextTask).      *)
THEOREM CountStaysRight == Spec => [](~Done => CountIsRight)
<1>1. SchedulerInv => (~Done => CountIsRight)
  BY DEF SchedulerInv
<1>2. QED
  BY <1>1, SchedulerInvInit, SchedulerInvNext, PTL DEF Spec

-----------------------------------------------------------------------------
(* The end of a run: what the scheduler finds at rest, and leaves behind.  *)

(* At most one application drives the graph; nodes do not fail while it    *)
(* feeds; and a graph with several queues is neither paused nor fed while  *)
(* it has sources.                                                         *)
OneApp == \A a, b \in Apps : a = b
OneQueue == \A p, q \in Queues : p = q
Unraced ==
  /\ ~({"feed", "fail"} \subseteq Ops)
  /\ OneQueue \/ ("pause" \notin Ops /\ (Sources = {} \/ "feed" \notin Ops))

(* The thread inside HandleIdle; those outside it that are adding an item, *)
(* and that owe the report of a queue they have made active.               *)
Inside(t) == hi.at # "none" /\ hi.by = t
Calls(t) == owes[t].step \in {"push", "active"} /\ ~Inside(t)
Waits(t) == owes[t].step = "active" /\ ~Inside(t)

Stopped == state \in {"not_started", "terminated"}
Switching == ~OneQueue /\ hi.at \in {"pause", "activate"}

(* A queue runs while the graph does, unless a layer is being activated.   *)
RunningRight ==
  \A q \in Queues : running[q] = (IF state \in {"running", "cancelling"} THEN 1 ELSE 0)
                                 - (IF hi.at = "activate" THEN 1 ELSE 0)

Entered ==
  /\ state \in {"not_started", "running", "paused", "cancelling", "terminated"}
  /\ hi.at = "none" => handling = 0
  /\ hi.at \notin {"none", "loop"} => Sources # {}
  /\ state = "not_started" => hi.at = "none" /\ \A t \in Apps : job[t].at \in {"start", "later"}
  /\ state = "terminated" =>
       /\ closed \/ hasError
       /\ hi.at = "none" \/ (hi.at = "loop" /\ hi.by \in Apps)
  /\ state = "paused" => "pause" \in Ops

(* A worker adds an item while it runs another; an application only while  *)
(* the graph can take a packet.                                            *)
MayCall(t) ==
  /\ owes[t].queue \in Queues
  /\ t \in Workers => job[t].at # "idle"
  /\ t \in Apps => ~closed /\ ~hasError /\ "feed" \in Ops

Callers == \A t \in Threads : Calls(t) => MayCall(t)

(* Before and after the run nothing is pending and nobody is about to      *)
(* change that; nor, with several queues, while a layer is activated, but  *)
(* for the thread that does it.                                            *)
Quietly(t) == owes[t].step \in {"none", "submit"} \/ (hi.at = "activate" /\ hi.by = t)
AtRest ==
  Stopped \/ Switching =>
    /\ \A q \in Queues : pending[q] = 0 /\ (hi.at = "pause" => toAdd[q] = 0)
    /\ \A t \in Threads : Quietly(t)

(* Workers owe the reports of different queues, which have tasks.          *)
Apart ==
  \A t \in Workers : Waits(t) =>
    /\ owes[t].tasks > 0
    /\ \A u \in Workers : Waits(u) /\ owes[u].queue = owes[t].queue => u = t

(* No ring of queues, each made active by a worker on the one before.      *)
Grounded ==
  \A S \in SUBSET Queues : S # {} =>
    \E q \in S : \A t \in Workers : Waits(t) /\ owes[t].queue = q => job[t].queue \notin S

RestInv == RunningRight /\ Entered /\ Callers /\ AtRest /\ Apart /\ Grounded

(* The run has been cleaned up, and nothing is left of it.                 *)
Finished ==
  /\ state = "terminated" /\ hi = NotHandling /\ handling = 0 /\ nonIdle = 0 /\ ~failed
  /\ \A q \in Queues : IsIdle(q) /\ tasks[q] = 0 /\ running[q] = 0
  /\ \A t \in Threads : owes[t].step \in {"none", "submit"} /\ (owes[t].queue \in Queues => owes[t].tasks = 0)
  /\ \A t \in Workers : job[t].at = "idle"

RestsInv == OneApp /\ Unraced => IF Done THEN Finished ELSE RestInv

-----------------------------------------------------------------------------
(* What the books say of pending tasks.                                    *)

(* A summand is at most the sum.                                           *)
LEMMA TotalCovers ==
  ASSUME NEW T, IsFiniteSet(T), NEW f \in [T -> Nat], NEW x \in T
  PROVE  Total(T, f) \in Nat /\ f[x] <= Total(T, f)
<1> DEFINE g == [f EXCEPT ![x] = 0]
<1>1. g \in [T -> Nat] /\ g[x] = 0 /\ \A t \in T : t # x => g[t] = f[t]
  OBVIOUS
<1> HIDE DEF g
<1>2. Total(T, f) \in Nat /\ Total(T, g) = (Total(T, f) - f[x]) + g[x]
  BY <1>1, TotalUpdate
<1>3. Total(T, g) \in Nat
  BY <1>1, TotalUpdate
<1>4. f[x] \in Nat
  OBVIOUS
<1>5. QED
  BY <1>1, <1>2, <1>3, <1>4

(* Every task in hand or with the executor, and every busy worker, keeps a *)
(* task of the queue pending.                                              *)
LEMMA PendingFacts ==
  ASSUME TypeInv, Ledger, NEW q \in Queues
  PROVE  /\ InHands(q) \in Nat /\ tasks[q] \in Nat /\ toAdd[q] \in Nat /\ Size(queue[q]) \in Nat
         /\ Cardinality(WorkOn(q)) \in Nat /\ IsFiniteSet(WorkOn(q))
         /\ Size(queue[q]) = toAdd[q] + tasks[q] + InHands(q)
         /\ pending[q] = tasks[q] + InHands(q) + Cardinality(WorkOn(q))
         /\ \A t \in Threads : owes[t].queue = q => owes[t].tasks \in Nat /\ owes[t].tasks <= InHands(q)
         /\ \A t \in Workers : job[t].at # "idle" /\ job[t].queue = q => Cardinality(WorkOn(q)) > 0
<1>1. /\ tasks[q] \in Nat /\ toAdd[q] \in Nat /\ queue[q] \in QueueType /\ graph \in Graphs
      /\ owes \in [Threads -> OweType] /\ hi.then \in OweType
      /\ IsFiniteSet(Threads) /\ IsFiniteSet(Workers)
  BY GraphFacts DEF TypeInv, HiType
<1>2. Size(queue[q]) \in Nat
  BY <1>1, SizeType
<1>3. IsFiniteSet(WorkOn(q)) /\ Cardinality(WorkOn(q)) \in Nat
  BY <1>1, FS_Subset, FS_CardinalityType DEF WorkOn
<1>4. PICK f \in [Threads -> Nat] : f = [t \in Threads |-> InHand(owes[t], q)]
  BY <1>1, InHandType
<1>5. PICK h \in Nat : h = InHand(hi.then, q)
  BY <1>1, InHandType
<1>6. InHands(q) = Total(Threads, f) + h
  BY <1>4, <1>5 DEF InHands
<1>7. ASSUME NEW t \in Threads
      PROVE  /\ InHands(q) \in Nat
             /\ owes[t].queue = q => owes[t].tasks \in Nat /\ owes[t].tasks <= InHands(q)
  <2>1. Total(Threads, f) \in Nat /\ f[t] <= Total(Threads, f) /\ f[t] \in Nat
    BY <1>1, TotalCovers
  <2>2. owes[t].queue = q => owes[t].tasks = f[t]
    BY <1>4 DEF InHand
  <2>3. QED
    BY <1>6, <2>1, <2>2
<1>8. InHands(q) \in Nat
  <2>1. CASE \E t \in Threads : TRUE
    BY <1>7, <2>1
  <2>2. CASE ~\E t \in Threads : TRUE
    <3>1. Total(Threads, f) = 0
      BY <2>2, TotalOfZeros
    <3>2. QED
      BY <1>5, <1>6, <3>1
  <2>3. QED
    BY <2>1, <2>2
<1>9. ASSUME NEW t \in Workers, job[t].at # "idle", job[t].queue = q
      PROVE  Cardinality(WorkOn(q)) > 0
  <2>1. WorkOn(q) # {}
    BY <1>9 DEF WorkOn
  <2>2. Cardinality(WorkOn(q)) # 0
    BY <1>3, <2>1, FS_EmptySet
  <2>3. QED
    BY <1>3, <2>2
<1>10. QED
  BY <1>1, <1>2, <1>3, <1>7, <1>8, <1>9 DEF Ledger

(* The queue of a busy worker is active, ...                               *)
LEMMA BusyPending ==
  ASSUME SchedulerInv, ~Done, NEW t \in Workers, job[t].at # "idle"
  PROVE  \E q \in Queues : q = job[t].queue /\ pending[q] > 0 /\ ~IsIdle(q)
<1>1. TypeInv /\ NamesInv /\ Ledger
  BY DEF SchedulerInv, LayersInv
<1>2. PICK q \in Queues : q = job[t].queue
  BY <1>1 DEF NamesInv
<1>3. /\ InHands(q) \in Nat /\ tasks[q] \in Nat /\ Cardinality(WorkOn(q)) \in Nat
      /\ pending[q] = tasks[q] + InHands(q) + Cardinality(WorkOn(q))
      /\ Cardinality(WorkOn(q)) > 0
  BY <1>1, <1>2, PendingFacts
<1>4. pending[q] > 0
  BY <1>3
<1>5. ~IsIdle(q)
  BY <1>4 DEF IsIdle
<1>6. QED
  BY <1>2, <1>4, <1>5

(* ... and so is that of a worker that owes its report.                    *)
LEMMA WaitsPending ==
  ASSUME SchedulerInv, ~Done, RestInv, NEW t \in Workers, Waits(t)
  PROVE  /\ job[t].at # "idle"
         /\ \E q \in Queues : q = owes[t].queue /\ pending[q] > 0 /\ ~IsIdle(q)
<1>1. TypeInv /\ Ledger /\ t \in Threads
  BY DEF SchedulerInv, Threads
<1>2. Calls(t) /\ owes[t].tasks > 0
  BY DEF RestInv, Apart, Waits, Calls
<1>3. job[t].at # "idle" /\ owes[t].queue \in Queues
  BY <1>1, <1>2 DEF RestInv, Callers, MayCall
<1>4. PICK q \in Queues : q = owes[t].queue
  BY <1>3
<1>5. /\ InHands(q) \in Nat /\ tasks[q] \in Nat /\ Cardinality(WorkOn(q)) \in Nat
      /\ pending[q] = tasks[q] + InHands(q) + Cardinality(WorkOn(q))
      /\ owes[t].tasks \in Nat /\ owes[t].tasks <= InHands(q)
  BY <1>1, <1>4, PendingFacts
<1>6. pending[q] > 0
  BY <1>2, <1>5
<1>7. ~IsIdle(q)
  BY <1>6 DEF IsIdle
<1>8. QED
  BY <1>3, <1>4, <1>6, <1>7

(* When the scheduler counts no active queue, and neither the thread in    *)
(* HandleIdle nor an application is about to report one, there is none:    *)
(* workers owe the reports of fewer queues than are active, as the first   *)
(* of a row of queues is active by itself.                                 *)
LEMMA ZeroIsIdle ==
  ASSUME SchedulerInv, ~Done, RestInv, nonIdle = 0,
         \A t \in Threads : Inside(t) => owes[t].step \notin {"push", "active"},
         \A t \in Apps : ~Calls(t)
  PROVE  /\ \A q \in Queues : IsIdle(q) /\ pending[q] = 0
         /\ \A t \in Threads : owes[t].step \in {"none", "submit"}
         /\ \A t \in Workers : job[t].at = "idle"
<1> DEFINE A == {t \in Threads : owes[t].step = "active"}
           I == {t \in Threads : owes[t].step = "idle"}
<1>1. /\ TypeInv /\ Ledger /\ CountEquation /\ IsFiniteSet(Threads) /\ IsFiniteSet(Queues)
      /\ Threads = Workers \cup Apps
  BY GraphFacts, CountParts DEF SchedulerInv, TypeInv, Threads
<1>2. IsFiniteSet(A) /\ IsFiniteSet(I) /\ IsFiniteSet(ActiveQueues)
  <2>1. A \in SUBSET Threads /\ I \in SUBSET Threads /\ ActiveQueues \in SUBSET Queues
    BY DEF ActiveQueues
  <2>2. QED
    BY <1>1, <2>1, FS_Subset
<1>3. Cardinality(A) \in Nat /\ Cardinality(I) \in Nat /\ Cardinality(ActiveQueues) \in Nat
  BY <1>2, FS_CardinalityType
<1>4. Cardinality(A) = Cardinality(ActiveQueues) + Cardinality(I)
  <2>1. 0 = Cardinality(ActiveQueues) - Cardinality(A) + Cardinality(I)
    BY <1>1 DEF CountEquation, Owing
  <2>2. QED
    BY <1>3, <2>1
<1>5. \A t \in A : t \in Workers /\ Waits(t)
  <2>1. ASSUME NEW t \in A PROVE t \in Workers /\ Waits(t)
    <3>1. ~Inside(t) /\ Waits(t) /\ Calls(t)
      BY DEF Waits, Calls
    <3>2. QED
      BY <1>1, <3>1
  <2>2. QED
    BY <2>1
<1>6. \A t \in A : owes[t].queue \in ActiveQueues /\ job[t].queue \in ActiveQueues
  <2>1. ASSUME NEW t \in A PROVE owes[t].queue \in ActiveQueues /\ job[t].queue \in ActiveQueues
    <3>1. t \in Workers /\ Waits(t)
      BY <1>5
    <3>2. job[t].at # "idle" /\ owes[t].queue \in ActiveQueues
      BY <3>1, WaitsPending DEF ActiveQueues
    <3>3. job[t].queue \in ActiveQueues
      BY <3>1, <3>2, BusyPending DEF ActiveQueues
    <3>4. QED
      BY <3>2, <3>3
  <2>2. QED
    BY <2>1
<1>7. \A t, u \in A : owes[t].queue = owes[u].queue => t = u
  BY <1>5 DEF RestInv, Apart
<1>8. ActiveQueues = {}
  <2>1. SUFFICES ASSUME ActiveQueues # {} PROVE FALSE
    OBVIOUS
  <2>2. PICK q \in ActiveQueues :
          \A t \in Workers : Waits(t) /\ owes[t].queue = q => job[t].queue \notin ActiveQueues
    <3>1. ActiveQueues \in SUBSET Queues
      BY DEF ActiveQueues
    <3>2. QED
      BY <2>1, <3>1 DEF RestInv, Grounded
  <2> DEFINE R == ActiveQueues \ {q}
             f == [t \in A |-> owes[t].queue]
  <2>3. \A t \in A : owes[t].queue \in R
    BY <1>5, <1>6, <2>2
  <2>4. f \in Injection(A, R)
    <3> HIDE DEF A, R
    <3>1. f \in [A -> R] /\ \A t \in A : f[t] = owes[t].queue
      BY <2>3
    <3> HIDE DEF f
    <3>2. \A t, u \in A : f[t] = f[u] => t = u
      BY <1>7, <3>1
    <3>3. QED
      BY <3>1, <3>2 DEF Injection, IsInjective
  <2>5. IsFiniteSet(R) /\ Cardinality(R) = Cardinality(ActiveQueues) - 1
    BY <1>2, FS_RemoveElement
  <2> HIDE DEF R, f, A
  <2>6. Cardinality(A) <= Cardinality(R)
    BY <2>4, <2>5, FS_Injection
  <2>7. QED
    BY <1>3, <1>4, <2>5, <2>6
<1>9. A = {} /\ I = {}
  <2>1. A = {}
    BY <1>6, <1>8
  <2>2. Cardinality(I) = 0
    <3>1. Cardinality(A) = 0 /\ Cardinality(ActiveQueues) = 0
      BY <1>8, <2>1, FS_EmptySet
    <3>2. QED
      BY <1>3, <1>4, <3>1
  <2>3. I = {}
    BY <1>2, <2>2, FS_EmptySet
  <2>4. QED
    BY <2>1, <2>3
<1>10. \A q \in Queues : IsIdle(q) /\ pending[q] = 0
  BY <1>8 DEF ActiveQueues, IsIdle
<1>11. \A t \in Workers : job[t].at = "idle"
  BY <1>10, BusyPending
<1>12. ASSUME NEW t \in Threads PROVE owes[t].step # "push"
  <2>1. SUFFICES ASSUME owes[t].step = "push" PROVE FALSE
    OBVIOUS
  <2>2. Calls(t)
    BY <2>1 DEF Calls
  <2>3. t \in Workers
    BY <1>1, <2>2
  <2>4. QED
    BY <1>11, <2>2, <2>3 DEF RestInv, Callers, MayCall
<1>13. ASSUME NEW t \in Threads PROVE owes[t].step \in {"none", "submit"}
  <2>1. owes[t].step \in {"none", "push", "active", "submit", "idle"}
    BY <1>1 DEF TypeInv, OweType
  <2>2. t \notin A /\ t \notin I
    BY <1>9
  <2>3. QED
    BY <1>12, <2>1, <2>2
<1>14. QED
  BY <1>10, <1>11, <1>13

-----------------------------------------------------------------------------
(* What a step of a thread t may do.                                       *)

(* Only t enters or leaves HandleIdle.                                     *)
OthersStay(t) ==
  /\ ThreadSteps(t)
  /\ \A u \in Workers : u # t => job'[u] = job[u]
  /\ \A u \in Threads : u # t => Inside(u)' = Inside(u)

(* Those who add items may go on, and so may t.                            *)
CallersMay(t) ==
  /\ \A u \in Apps : u # t /\ Calls(u) => ~closed' /\ ~hasError'
  /\ Calls(t)' => MayCall(t)'

(* Who adds an item still may.                                            *)
LEMMA CallersKeep ==
  ASSUME Callers, NEW t \in Threads, OthersStay(t), CallersMay(t)
  PROVE  Callers'
<1>1. UNCHANGED graph /\ Queues' = Queues /\ Ops' = Ops
  BY SameGraph DEF OthersStay, ThreadSteps, Ops
<1>2. ASSUME NEW u \in Threads, Calls(u)' PROVE MayCall(u)'
  <2>1. CASE u = t
    BY <1>2, <2>1 DEF CallersMay
  <2>2. CASE u # t
    <3>1. owes'[u] = owes[u] /\ Inside(u)' = Inside(u) /\ (u \in Workers => job'[u] = job[u])
      BY <2>2 DEF OthersStay, ThreadSteps
    <3>2. Calls(u)
      BY <1>2, <3>1 DEF Calls
    <3>3. MayCall(u)
      BY <3>2 DEF Callers
    <3>4. u \in Apps => ~closed' /\ ~hasError'
      BY <2>2, <3>2 DEF CallersMay
    <3>5. QED
      BY <1>1, <3>1, <3>3, <3>4 DEF MayCall
  <2>3. QED
    BY <2>1, <2>2
<1>3. QED
  BY <1>2 DEF Callers

(* A step after which no new worker waits.                                 *)
LEMMA WaitersKeep ==
  ASSUME Apart, Grounded, NEW t \in Threads, OthersStay(t), t \in Workers => ~Waits(t)'
  PROVE  Apart' /\ Grounded'
<1>1. Queues' = Queues
  BY SameGraph DEF OthersStay, ThreadSteps
<1>2. ASSUME NEW u \in Workers, Waits(u)'
      PROVE  Waits(u) /\ owes'[u] = owes[u] /\ job'[u] = job[u]
  <2>1. u # t /\ u \in Threads
    BY <1>2 DEF Threads
  <2>2. owes'[u] = owes[u] /\ Inside(u)' = Inside(u) /\ job'[u] = job[u]
    BY <2>1 DEF OthersStay, ThreadSteps
  <2>3. QED
    BY <1>2, <2>2 DEF Waits
<1>3. Apart'
  BY <1>2 DEF Apart
<1>4. ASSUME NEW S \in SUBSET Queues, S # {}
      PROVE  \E q \in S : \A u \in Workers : Waits(u)' /\ owes'[u].queue = q => job'[u].queue \notin S
  <2>1. PICK q \in S : \A u \in Workers : Waits(u) /\ owes[u].queue = q => job[u].queue \notin S
    BY <1>4 DEF Grounded
  <2>2. \A u \in Workers : Waits(u)' /\ owes'[u].queue = q => job'[u].queue \notin S
    BY <1>2, <2>1
  <2>3. QED
    BY <2>2
<1>5. Grounded'
  BY <1>1, <1>4 DEF Grounded
<1>6. QED
  BY <1>3, <1>5

(* How t may move in HandleIdle, without a layer being activated.          *)
HiSteps(t) ==
  /\ \/ hi'.at = hi.at /\ hi'.by = hi.by
     \/ hi.at \notin {"pause", "activate"} /\ hi'.at \notin {"pause", "activate"}
  /\ hi'.at = "none" => handling' = 0
  /\ hi'.at \notin {"none", "loop"} => Sources # {} /\ ~Stopped
  /\ state = "not_started" => hi'.at = "none"
  /\ state = "terminated" => hi'.at = "none" \/ hi'.by \in Apps

(* What the state says of HandleIdle, of the applications and of the end.  *)
LEMMA EnteredKeeps ==
  ASSUME Entered, NEW t, HiSteps(t), UNCHANGED <<graph, state>>, closed \/ hasError => closed' \/ hasError',
         state = "not_started" => \A u \in Apps : job'[u].at = job[u].at
  PROVE  Entered'
<1>1. Sources' = Sources /\ Ops' = Ops
  BY SameGraph DEF Ops
<1>2. QED
  BY <1>1 DEF Entered, HiSteps, Stopped

(* Where nothing happens, t changes nothing.                               *)
StaysCalm(t) ==
  Stopped \/ Switching =>
    /\ \A q \in Queues : pending'[q] = pending[q] /\ (hi.at = "pause" => toAdd'[q] = toAdd[q])
    /\ owes'[t].step \in {"none", "submit"} \/ (hi.at = "activate" /\ hi.by = t)

(* Before and after the run, or in the middle of a layer, all stays calm.  *)
LEMMA RestKeeps ==
  ASSUME Entered, AtRest, NEW t \in Threads, OthersStay(t), HiSteps(t), StaysCalm(t), UNCHANGED state
  PROVE  AtRest'
<1>1. Queues' = Queues
  BY SameGraph DEF OthersStay, ThreadSteps
<1>2. SUFFICES ASSUME (Stopped \/ Switching)' PROVE AtRest'
  BY DEF AtRest
<1>3. /\ Stopped' = Stopped /\ (Switching' => Switching /\ hi'.at = hi.at /\ hi'.by = hi.by)
      /\ Stopped => hi.at \in {"none", "loop"} /\ hi'.at \in {"none", "loop"}
  BY <1>1 DEF Stopped, Switching, OneQueue, HiSteps, Entered
<1>4. Stopped \/ Switching
  BY <1>2, <1>3
<1>5. \A q \in Queues : pending'[q] = 0 /\ (hi'.at = "pause" => toAdd'[q] = 0)
  BY <1>2, <1>3, <1>4 DEF AtRest, StaysCalm
<1>6. ASSUME NEW u \in Threads PROVE Quietly(u)'
  <2>1. Quietly(u)
    BY <1>4 DEF AtRest
  <2>2. owes'[u] = owes[u] \/ (u = t /\ (owes'[t].step \in {"none", "submit"} \/ (hi.at = "activate" /\ hi.by = t)))
    BY <1>4 DEF OthersStay, ThreadSteps, StaysCalm
  <2>3. CASE Stopped
    BY <1>3, <2>1, <2>2, <2>3 DEF Quietly
  <2>4. CASE ~Stopped
    BY <1>2, <1>3, <2>1, <2>2, <2>4 DEF Quietly
  <2>5. QED
    BY <2>3, <2>4
<1>7. QED
  BY <1>1, <1>5, <1>6 DEF AtRest

(* The queues run while the graph does.                                    *)
LEMMA RunningKeeps ==
  ASSUME RunningRight, UNCHANGED <<graph, running, state>>, NEW t, HiSteps(t)
  PROVE  RunningRight'
<1>1. Queues' = Queues
  BY SameGraph
<1>2. (hi'.at = "activate") = (hi.at = "activate")
  BY DEF HiSteps
<1>3. QED
  BY <1>1, <1>2 DEF RunningRight

(* A step that does what these say keeps the invariant.                    *)
LEMMA StepKeeps ==
  ASSUME RestInv, NEW t \in Threads, OthersStay(t), HiSteps(t), UNCHANGED <<state, running>>,
         closed \/ hasError => closed' \/ hasError',
         state = "not_started" => \A u \in Apps : job'[u].at = job[u].at,
         CallersMay(t), StaysCalm(t), t \in Workers => ~Waits(t)'
  PROVE  RestInv'
<1>1. UNCHANGED graph
  BY DEF OthersStay, ThreadSteps
<1>2. RunningRight'
  BY <1>1, RunningKeeps DEF RestInv
<1>3. Entered'
  BY <1>1, EnteredKeeps DEF RestInv
<1>4. AtRest'
  BY RestKeeps DEF RestInv
<1>5. Callers'
  BY CallersKeep DEF RestInv
<1>6. Apart' /\ Grounded'
  BY WaitersKeep DEF RestInv
<1>7. QED
  BY <1>2, <1>3, <1>4, <1>5, <1>6 DEF RestInv

(* The thread in HandleIdle stays where it is, ...                         *)
LEMMA HiStays ==
  ASSUME Entered, NEW t, hi'.at = hi.at, hi'.by = hi.by, UNCHANGED handling
  PROVE  HiSteps(t) /\ \A u : Inside(u)' = Inside(u)
BY DEF Entered, HiSteps, Inside, Stopped

(* ... goes on to another part, ...                                        *)
LEMMA HiMoves ==
  ASSUME Entered, NEW t, NEW at, NEW left, HiMoved(at, left),
         hi.at \notin {"none", "pause", "activate"}, at \notin {"none", "pause", "activate"},
         at # "loop" => Sources # {} /\ ~Stopped
  PROVE  HiSteps(t) /\ \A u : Inside(u)' = Inside(u)
BY DEF Entered, HiSteps, Inside, Stopped, HiMoved

(* ... or returns.                                                         *)
LEMMA HiReturns ==
  ASSUME Entered, TypeInv, HandlingInv, NEW t \in Threads, hi.by = t, hi.at \notin {"none", "pause", "activate"},
         ReturnFromHandleIdle
  PROVE  /\ HiSteps(t) /\ OwesChanged(t, hi.then) /\ hi.then.step \in {"none", "submit"}
         /\ \A u \in Threads : u # t => Inside(u)' = Inside(u)
<1>1. hi' = NotHandling /\ hi'.at = "none" /\ OwesChanged(t, hi.then)
  BY ReturnMoves, Nothing
<1>2. handling' = 0
  BY DEF ReturnFromHandleIdle
<1>3. HiSteps(t)
  BY <1>1, <1>2 DEF HiSteps
<1>4. \A u \in Threads : u # t => Inside(u)' = Inside(u)
  BY <1>1 DEF Inside
<1>5. QED
  BY <1>1, <1>3, <1>4 DEF HandlingInv

(* A thread calls HandleIdle.                                              *)
LEMMA HiCalls ==
  ASSUME Entered, TypeInv, HandlingInv, NEW t \in Threads, NEW next \in OweType, next.step \in {"none", "submit"},
         Unlocked, CallHandleIdle(t, next), state # "not_started", state = "terminated" => t \in Apps
  PROVE  /\ HiSteps(t) /\ (hi'.at = "activate") = (hi.at = "activate")
         /\ owes'[t].step \in {"none", "submit"} /\ owes' \in [Threads -> OweType] /\ hi' \in HiType
         /\ \A u \in Threads : u # t => owes'[u] = owes[u] /\ Inside(u)' = Inside(u)
<1> USE Nothing
<1>1. /\ hi' \in HiType
      /\ \/ OwesChanged(t, next) \/ OwesChanged(t, OwesNothing)
  BY CallHandleIdleMoves
<1>2. CASE handling = 0
  <2>1. hi = NotHandling /\ hi'.at = "loop" /\ hi'.by = t /\ hi.at = "none"
    BY <1>2 DEF CallHandleIdle, HandlingInv
  <2>2. HiSteps(t)
    BY <2>1 DEF HiSteps
  <2>3. \A u \in Threads : u # t => Inside(u)' = Inside(u)
    BY <2>1 DEF Inside
  <2>4. QED
    BY <1>1, <2>1, <2>2, <2>3 DEF OwesChanged
<1>3. CASE handling # 0
  <2>1. hi' = hi /\ hi.at # "none"
    BY <1>3 DEF CallHandleIdle, Entered
  <2>2. HiSteps(t)
    BY <2>1 DEF HiSteps, Entered, Stopped
  <2>3. QED
    BY <1>1, <2>1, <2>2 DEF OwesChanged, Inside
<1>4. QED
  BY <1>2, <1>3

(* What only t does.                                                       *)
LEMMA OnlyThread ==
  ASSUME SchedulerInv', UNCHANGED graph, NEW t \in Threads,
         \A u \in Workers : u # t => job'[u] = job[u],
         \A u \in Threads : u # t => owes'[u] = owes[u] /\ Inside(u)' = Inside(u)
  PROVE  OthersStay(t)
BY SameGraph DEF SchedulerInv, TypeInv, OthersStay, ThreadSteps

(* Adding an item begins unless an error was recorded.                     *)
LEMMA AddItemBegins ==
  ASSUME TypeInv, NEW t \in Threads, NEW q, NEW kind, NEW s, AddItem(t, q, kind, s)
  PROVE  /\ \A u \in Threads : u # t => owes'[u] = owes[u]
         /\ owes'[t] = owes[t] \/ (owes'[t].step = "push" /\ ~hasError)
<1>1. PICK new : new = ToPush(q, kind, s) /\ new.step = "push"
  BY ToPushFields
<1>2. owes' = IF hasError THEN owes ELSE [owes EXCEPT ![t] = new]
  BY <1>1 DEF AddItem, ToPush
<1>3. QED
  BY <1>1, <1>2 DEF TypeInv

-----------------------------------------------------------------------------
(* The thread in HandleIdle.                                               *)

(* A step of it that adds an item at most.                                 *)
LEMMA InsideKeeps ==
  ASSUME SchedulerInv', RestInv, NEW t \in Threads, Inside(t), UNCHANGED <<graph, state, running, job, closed>>,
         HiSteps(t), \A u \in Threads : u # t => owes'[u] = owes[u] /\ Inside(u)' = Inside(u),
         hasError' = hasError \/ (~hasError /\ hasError' = closed), StaysCalm(t),
         owes'[t].step \in {"none", "submit"} \/ (owes'[t].step = "push" /\ Inside(t)')
  PROVE  RestInv'
<1>1. OthersStay(t)
  BY OnlyThread
<1>2. ~Calls(t)' /\ ~Waits(t)'
  BY DEF Calls, Waits
<1>3. \A u \in Apps : Calls(u) => ~closed' /\ ~hasError'
  BY DEF RestInv, Callers, MayCall, Threads
<1>4. CallersMay(t)
  BY <1>2, <1>3 DEF CallersMay
<1>5. closed \/ hasError => closed' \/ hasError'
  OBVIOUS
<1>6. QED
  BY <1>1, <1>2, <1>4, <1>5, StepKeeps

(* Where t is while it goes round in HandleIdle.                           *)
LEMMA InsideAt ==
  ASSUME SchedulerInv, RestInv, NEW t \in Threads, InLoop(t) \/ \E at \in HiPlaces \ {"none"} : Between(t, at)
  PROVE  /\ TypeInv /\ HandlingInv /\ Entered /\ Inside(t) /\ owes[t] = OwesNothing /\ hi.by = t /\ hi \in HiType
         /\ hi.at # "none" /\ owes[t].step = "none"
         /\ hi.at \in {"submit", "unthrottle", "repeat"} => ~Stopped /\ ~Switching
<1>1. TypeInv /\ HandlingInv /\ owes[t] = OwesNothing /\ hi.by = t /\ hi \in HiType /\ hi.at # "none"
  BY InsideFacts DEF InLoop, Between, HiPlaces
<1>2. owes[t].step = "none"
  BY <1>1, Nothing
<1>3. QED
  BY <1>1, <1>2 DEF RestInv, Entered, Inside, Stopped, Switching

(* A step of t in HandleIdle that changes no queue and adds no item.       *)
LEMMA QuietInside ==
  ASSUME SchedulerInv', RestInv, NEW t \in Threads, Inside(t),
         UNCHANGED <<graph, state, running, job, closed, pending, toAdd>>,
         HiSteps(t), \A u \in Threads : u # t => owes'[u] = owes[u] /\ Inside(u)' = Inside(u),
         hasError' = hasError \/ (~hasError /\ hasError' = closed), owes'[t].step \in {"none", "submit"}
  PROVE  RestInv'
<1>1. StaysCalm(t)
  BY DEF StaysCalm
<1>2. QED
  BY <1>1, InsideKeeps

(* HandleIdle returns or goes round.                                       *)
LEMMA LeaveRests ==
  ASSUME SchedulerInv, SchedulerInv', RestInv, NEW t \in Threads,
         LeaveHandleIdle(t) \/ NothingLeftToDo(t), UNCHANGED graph
  PROVE  RestInv'
<1>0. "repeat" \in HiPlaces \ {"none"} /\ "loop" \in HiPlaces
  BY DEF HiPlaces
<1>1. /\ TypeInv /\ HandlingInv /\ Entered /\ Inside(t) /\ hi.by = t /\ hi \in HiType
      /\ owes[t].step = "none" /\ hi.at \in {"loop", "repeat"}
  BY <1>0, InsideAt DEF LeaveHandleIdle, NothingLeftToDo, InLoop, Between
<1>2. UNCHANGED <<state, running, job, closed, hasError, pending, toAdd>>
  BY DEF LeaveHandleIdle, NothingLeftToDo, queueVars, flagVars
<1>3. CASE ReturnFromHandleIdle
  <2>1. /\ HiSteps(t) /\ OwesChanged(t, hi.then) /\ hi.then.step \in {"none", "submit"}
        /\ \A u \in Threads : u # t => Inside(u)' = Inside(u)
    BY <1>1, <1>3, HiReturns
  <2>2. QED
    BY <1>1, <1>2, <2>1, QuietInside DEF OwesChanged
<1>4. CASE hi' = [hi EXCEPT !.at = "loop"] /\ UNCHANGED owes
  <2>1. HiMoved("loop", hi.left)
    BY <1>0, <1>1, <1>4, HiGoes
  <2>2. HiSteps(t) /\ \A u : Inside(u)' = Inside(u)
    BY <1>1, <2>1, HiMoves
  <2>3. QED
    BY <1>1, <1>2, <1>4, <2>2, QuietInside
<1>5. QED
  BY <1>3, <1>4 DEF LeaveHandleIdle, NothingLeftToDo, LeaveOrRepeat

(* It lets throttled sources go on.                                        *)
LEMMA UnthrottleRests ==
  ASSUME SchedulerInv, SchedulerInv', RestInv, NEW t \in Threads,
         Unthrottle(t) \/ Unthrottled(t), UNCHANGED graph
  PROVE  RestInv'
<1>0. {"repeat", "unthrottle"} \subseteq HiPlaces \ {"none"} /\ "loop" \in HiPlaces
  BY DEF HiPlaces
<1>1. /\ TypeInv /\ HandlingInv /\ Entered /\ Inside(t) /\ hi.by = t /\ hi \in HiType
      /\ owes[t].step = "none" /\ hi.at \in {"loop", "unthrottle"} /\ throttled \in SUBSET Sources
  BY <1>0, InsideAt DEF Unthrottle, Unthrottled, InLoop, Between, TypeInv
<1>2. UNCHANGED <<state, running, job, closed, hasError, pending, toAdd, owes>>
  BY DEF Unthrottle, Unthrottled, queueVars, flagVars
<1>3. \E at, left : at \in {"loop", "repeat", "unthrottle"} /\ HiMoved(at, left) /\ (at # "loop" => Sources # {} /\ ~Stopped)
  <2>1. CASE Unthrottle(t)
    <3>1. Sources # {} /\ ~Stopped
      BY <2>1 DEF Unthrottle, Active, Handles, Stopped
    <3>2. PICK at \in {"repeat", "unthrottle"} : hi' = [hi EXCEPT !.at = at, !.left = throttled]
      BY <2>1 DEF Unthrottle
    <3>3. HiMoved(at, throttled)
      BY <1>0, <1>1, <3>2, HiGoesWith, Zenon
    <3>4. QED
      BY <3>1, <3>3
  <2>2. CASE Unthrottled(t)
    <3>1. HiMoved("loop", hi.left)
      BY <1>0, <1>1, <2>2, HiGoes DEF Unthrottled
    <3>2. QED
      BY <3>1
  <2>3. QED
    BY <2>1, <2>2
<1>4. HiSteps(t) /\ \A u : Inside(u)' = Inside(u)
  <2>1. PICK at, left : at \in {"loop", "repeat", "unthrottle"} /\
          HiMoved(at, left) /\ (at # "loop" => Sources # {} /\ ~Stopped)
    BY <1>3
  <2>2. hi.at \notin {"none", "pause", "activate"} /\ at \notin {"none", "pause", "activate"}
    BY <1>1, <2>1
  <2>3. QED
    BY <1>1, <2>1, <2>2, HiMoves
<1>5. QED
  BY <1>1, <1>2, <1>4, QuietInside

(* It submits the tasks of a new layer.                                    *)
LEMMA SubmitLayerRests ==
  ASSUME SchedulerInv, SchedulerInv', RestInv, NEW t \in Threads, SubmitLayer(t), UNCHANGED graph
  PROVE  RestInv'
<1>0. "submit" \in HiPlaces \ {"none"} /\ "loop" \in HiPlaces
  BY DEF HiPlaces
<1>1. /\ TypeInv /\ HandlingInv /\ Entered /\ Inside(t) /\ hi.by = t /\ hi \in HiType
      /\ owes[t].step = "none" /\ hi.at = "submit" /\ ~Stopped /\ ~Switching
  BY <1>0, InsideAt DEF SubmitLayer, Between
<1>2. UNCHANGED <<state, running, job, closed, hasError, owes>>
  BY DEF SubmitLayer, SubmitWaiting, flagVars
<1>3. HiMoved("loop", hi.left)
  BY <1>0, <1>1, HiGoes DEF SubmitLayer
<1>4. HiSteps(t) /\ \A u : Inside(u)' = Inside(u)
  BY <1>1, <1>3, HiMoves
<1>5. StaysCalm(t)
  BY <1>1 DEF StaysCalm
<1>6. QED
  BY <1>1, <1>2, <1>4, <1>5, InsideKeeps

(* It schedules a source.                                                  *)
LEMMA ActivateSourceRests ==
  ASSUME SchedulerInv, SchedulerInv', RestInv, NEW t \in Threads,
         ActivateSource(t) \/ UnthrottleSource(t), UNCHANGED graph
  PROVE  RestInv'
<1>0. {"activate", "unthrottle"} \subseteq HiPlaces \ {"none"}
  BY DEF HiPlaces
<1>1. /\ TypeInv /\ HandlingInv /\ Entered /\ Inside(t) /\ hi.by = t /\ hi \in HiType
      /\ owes[t].step = "none" /\ hi.at \in {"activate", "unthrottle"}
      /\ hi.at = "unthrottle" => ~Stopped /\ ~Switching
  BY <1>0, InsideAt DEF ActivateSource, UnthrottleSource, Between
<1>2. UNCHANGED <<state, running, job, closed, hasError, pending, toAdd, handling>>
  BY DEF ActivateSource, UnthrottleSource, queueVars, flagVars
<1>3. PICK s \in hi.left : hi' = [hi EXCEPT !.left = @ \ {s}] /\ (AddSource(t, s) \/ UNCHANGED owes)
  BY DEF ActivateSource, UnthrottleSource
<1>4. HiMoved(hi.at, hi.left \ {s})
  BY <1>1, <1>3, HiLeaves
<1>5. HiSteps(t) /\ \A u : Inside(u)' = Inside(u)
  BY <1>1, <1>2, <1>4, HiStays DEF HiMoved
<1>6. /\ \A u \in Threads : u # t => owes'[u] = owes[u]
      /\ owes'[t] = owes[t] \/ owes'[t].step = "push"
  <2>1. CASE AddSource(t, s)
    BY <1>1, <2>1, AddItemBegins DEF AddSource
  <2>2. QED
    BY <1>3, <2>1
<1>7. StaysCalm(t)
  BY <1>1, <1>2 DEF StaysCalm, Entered, Stopped
<1>8. Inside(t)'
  BY <1>1, <1>5
<1>9. QED
  BY <1>1, <1>2, <1>5, <1>6, <1>7, <1>8, InsideKeeps

(* Nobody adds an item or reports a queue.                                 *)
LEMMA QuietRests ==
  ASSUME \A u \in Threads : owes'[u].step \in {"none", "submit"}
  PROVE  Callers' /\ Apart' /\ Grounded'
<1>1. \A u \in Threads : ~Calls(u)' /\ ~Waits(u)'
  BY DEF Calls, Waits
<1>2. \A u \in Workers : ~Waits(u)'
  BY <1>1 DEF Threads
<1>3. Callers' /\ Apart'
  BY <1>1, <1>2 DEF Callers, Apart
<1>4. ASSUME NEW S \in (SUBSET Queues)', S # {}
      PROVE  \E q \in S : \A u \in Workers : Waits(u)' /\ owes'[u].queue = q => job'[u].queue \notin S
  BY <1>2, <1>4
<1>5. Grounded'
  BY <1>4 DEF Grounded
<1>6. QED
  BY <1>3, <1>5

(* The scheduler quits: no queue is active, and no application can make    *)
(* one so, as it has closed the inputs or an error was recorded.           *)
LEMMA QuitRests ==
  ASSUME SchedulerInv, SchedulerInv', ~Done, RestInv, NEW t \in Threads, Quit(t), UNCHANGED graph
  PROVE  RestInv'
<1>1. /\ TypeInv /\ HandlingInv /\ Entered /\ Inside(t) /\ hi.by = t /\ hi.at = "loop"
      /\ owes[t].step = "none" /\ Handles /\ MayQuit /\ nonIdle = 0
  BY InsideAt DEF Quit, InLoop, Handles
<1>2. closed \/ hasError
  BY <1>1 DEF MayQuit
<1>3. \A u \in Apps : ~Calls(u)
  BY <1>2 DEF RestInv, Callers, MayCall, Threads
<1>4. \A u \in Threads : Inside(u) => u = t
  BY <1>1 DEF Inside
<1>5. /\ \A q \in Queues : IsIdle(q) /\ pending[q] = 0
      /\ \A u \in Threads : owes[u].step \in {"none", "submit"}
  BY <1>1, <1>3, <1>4, ZeroIsIdle
<1>6. /\ state' = "terminated" /\ handling' = 0 /\ hi' = NotHandling /\ hi'.at = "none"
      /\ OwesChanged(t, hi.then) /\ hi.then.step \in {"none", "submit"}
      /\ UNCHANGED <<pending, toAdd, job, closed, hasError>>
      /\ SetQueuesRunning(FALSE)
  BY <1>1, ReturnMoves, Nothing DEF Quit, ReturnFromHandleIdle, HandlingInv, flagVars
<1>7. \A u \in Threads : owes'[u].step \in {"none", "submit"}
  BY <1>5, <1>6 DEF OwesChanged
<1>8. Callers' /\ Apart' /\ Grounded'
  BY <1>7, QuietRests
<1>9. RunningRight'
  BY <1>1, <1>6, SameGraph DEF RestInv, RunningRight, SetQueuesRunning, Handles
<1>10. Entered'
  BY <1>2, <1>6, SameGraph DEF Entered, Ops
<1>11. AtRest'
  BY <1>5, <1>6, <1>7, SameGraph DEF AtRest, Quietly
<1>12. QED
  BY <1>8, <1>9, <1>10, <1>11 DEF RestInv

(* The thread in HandleIdle goes from one part to another, all else stays. *)
LEMMA InsideMoves ==
  ASSUME SchedulerInv', RestInv, NEW t \in Threads, Inside(t), UNCHANGED <<graph, owes, job, closed, hasError>>,
         hi'.by = hi.by, hi'.at # "none"
  PROVE  Callers' /\ Apart' /\ Grounded'
<1>1. \A u : Inside(u)' = Inside(u)
  BY DEF Inside
<1>2. OthersStay(t)
  BY <1>1, OnlyThread
<1>3. ~Calls(t)' /\ ~Waits(t)'
  BY <1>1 DEF Calls, Waits
<1>4. CallersMay(t)
  BY <1>3 DEF CallersMay, RestInv, Callers, MayCall, Threads
<1>5. QED
  BY <1>2, <1>3, <1>4, CallersKeep, WaitersKeep DEF RestInv

(* With several queues, a layer is activated when nothing is pending: all  *)
(* queues are idle, and no application adds packets.                       *)
LEMMA ActivateLayerRests ==
  ASSUME SchedulerInv, SchedulerInv', ~Done, RestInv, Unraced, NEW t \in Threads, ActivateLayer(t), UNCHANGED graph
  PROVE  RestInv'
<1>1. /\ TypeInv /\ Ledger /\ HandlingInv /\ Entered /\ Inside(t) /\ hi.by = t /\ hi.at = "loop" /\ hi \in HiType
      /\ owes[t].step = "none" /\ Handles /\ ~MayQuit /\ nonIdle = 0 /\ Ready # {}
  BY InsideAt DEF ActivateLayer, InLoop, Handles, SchedulerInv
<1>2. UNCHANGED <<state, running, job, closed, pending, toAdd, handling, owes>>
  BY DEF ActivateLayer, queueVars
<1>3. CASE BlockedByUnopened
  <2>1. hi' = hi /\ hasError' = closed /\ ~hasError
    BY <1>1, <1>3 DEF ActivateLayer, MayQuit
  <2>2. HiSteps(t) /\ \A u : Inside(u)' = Inside(u)
    BY <1>1, <1>2, <2>1, HiStays
  <2>3. QED
    BY <1>1, <1>2, <2>1, <2>2, QuietInside
<1>4. CASE ~BlockedByUnopened
  <2>1. hi' = [hi EXCEPT !.at = "pause", !.left = NextLayer] /\ hasError' = hasError
    BY <1>4 DEF ActivateLayer
  <2>2. hi'.at = "pause" /\ hi'.by = hi.by
    BY <1>1, <2>1 DEF HiType
  <2>3. Callers' /\ Apart' /\ Grounded'
    BY <1>1, <1>2, <2>1, <2>2, InsideMoves
  <2>4. RunningRight'
    BY <1>1, <1>2, <2>2, SameGraph DEF RestInv, RunningRight
  <2>5. Sources # {} /\ state \in {"running", "cancelling"}
    BY <1>1 DEF Ready, Handles
  <2>6. Entered'
    BY <1>2, <2>2, <2>5, SameGraph DEF Entered
  <2>7. AtRest'
    <3>1. ~Stopped' /\ (Switching' => ~OneQueue)
      BY <1>2, <2>5, SameGraph DEF Stopped, Switching, OneQueue
    <3>2. ASSUME ~OneQueue
          PROVE  /\ \A q \in Queues : pending[q] = 0 /\ toAdd[q] = 0
                 /\ \A u \in Threads : owes[u].step \in {"none", "submit"}
      <4>1. "feed" \notin Ops
        BY <2>5, <3>2 DEF Unraced
      <4>2. \A u \in Apps : ~Calls(u)
        BY <4>1 DEF RestInv, Callers, MayCall, Threads
      <4>3. \A u \in Threads : Inside(u) => u = t
        BY <1>1 DEF Inside
      <4>4. /\ \A q \in Queues : IsIdle(q) /\ pending[q] = 0
            /\ \A u \in Threads : owes[u].step \in {"none", "submit"}
        BY <1>1, <4>2, <4>3, ZeroIsIdle
      <4>5. ASSUME NEW q \in Queues PROVE toAdd[q] = 0
        <5>1. /\ InHands(q) \in Nat /\ tasks[q] \in Nat /\ toAdd[q] \in Nat
              /\ Size(queue[q]) = toAdd[q] + tasks[q] + InHands(q)
          BY <1>1, PendingFacts
        <5>2. Size(queue[q]) = 0
          BY <4>4 DEF IsIdle
        <5>3. QED
          BY <5>1, <5>2
      <4>6. QED
        BY <4>4, <4>5
    <3>3. QED
      BY <1>2, <3>1, <3>2, SameGraph DEF AtRest, Quietly
  <2>8. QED
    BY <2>3, <2>4, <2>6, <2>7 DEF RestInv
<1>5. QED
  BY <1>3, <1>4

(* The queues are paused while it is activated, and resumed.               *)
LEMMA PauseQueuesRests ==
  ASSUME SchedulerInv, SchedulerInv', RestInv, NEW t \in Threads, PauseQueues(t) \/ ResumeQueues(t), UNCHANGED graph
  PROVE  RestInv'
<1>0. {"pause", "activate", "submit"} \subseteq HiPlaces \ {"none"}
  BY DEF HiPlaces
<1>1. /\ TypeInv /\ Entered /\ Inside(t) /\ hi.by = t /\ hi \in HiType /\ hi.at \in {"pause", "activate"}
  BY <1>0, InsideAt DEF PauseQueues, ResumeQueues, Between
<1>2. UNCHANGED <<state, job, closed, hasError, pending, toAdd, handling, owes>>
  BY DEF PauseQueues, ResumeQueues, flagVars
<1>3. PICK at \in {"activate", "submit"} : hi' = [hi EXCEPT !.at = at] /\ (at = "activate") = (hi.at = "pause")
  BY <1>1 DEF PauseQueues, ResumeQueues, Between
<1>4. hi'.at = at /\ hi'.by = hi.by
  BY <1>1, <1>3 DEF HiType
<1>5. Callers' /\ Apart' /\ Grounded'
  BY <1>1, <1>2, <1>4, InsideMoves
<1>6. RunningRight'
  <2>1. CASE PauseQueues(t)
    <3>1. hi.at = "pause" /\ hi'.at = "activate" /\ SetQueuesRunning(FALSE)
      BY <1>3, <1>4, <2>1 DEF PauseQueues, Between
    <3>2. QED
      BY <1>2, <3>1, SameGraph DEF RestInv, RunningRight, SetQueuesRunning
  <2>2. CASE ResumeQueues(t)
    <3>1. hi.at = "activate" /\ hi'.at = "submit" /\ SetQueuesRunning(TRUE)
      BY <1>3, <1>4, <2>2 DEF ResumeQueues, Between
    <3>2. QED
      BY <1>2, <3>1, SameGraph DEF RestInv, RunningRight, SetQueuesRunning
  <2>3. QED
    BY <2>1, <2>2
<1>7. Entered'
  BY <1>1, <1>2, <1>4, SameGraph DEF Entered, Ops
<1>8. AtRest'
  <2>1. ~Stopped /\ ~Stopped' /\ (Switching' => Switching /\ hi.at = "pause")
    BY <1>1, <1>2, <1>3, <1>4, SameGraph DEF Stopped, Switching, OneQueue, Entered
  <2>2. QED
    BY <1>2, <1>4, <2>1, SameGraph DEF RestInv, AtRest, Quietly
<1>9. QED
  BY <1>5, <1>6, <1>7, <1>8 DEF RestInv

(* HandleIdle, whichever step it takes.                                    *)
LEMMA HandleIdleRests ==
  ASSUME SchedulerInv, SchedulerInv', ~Done, RestInv, Unraced, NEW t \in Threads, HandleIdle(t), UNCHANGED graph
  PROVE  RestInv'
BY LeaveRests, QuitRests, ActivateLayerRests, PauseQueuesRests, ActivateSourceRests, SubmitLayerRests,
   UnthrottleRests DEF HandleIdle

-----------------------------------------------------------------------------
(* The steps of an addition to a queue.                                    *)

(* A step after which t owes no report and has no item to add.             *)
LEMMA QuietStep ==
  ASSUME SchedulerInv', RestInv, NEW t \in Threads,
         UNCHANGED <<graph, state, running, job, closed, hasError, pending, toAdd>>,
         HiSteps(t), \A u \in Threads : u # t => owes'[u] = owes[u] /\ Inside(u)' = Inside(u),
         owes'[t].step \in {"none", "submit"}
  PROVE  RestInv'
<1>1. OthersStay(t)
  BY OnlyThread
<1>2. StaysCalm(t) /\ ~Calls(t)' /\ ~Waits(t)'
  BY DEF StaysCalm, Calls, Waits
<1>3. CallersMay(t)
  BY <1>2 DEF CallersMay, RestInv, Callers, MayCall, Threads
<1>4. QED
  BY <1>1, <1>2, <1>3, StepKeeps

(* The executor gets its tasks.                                            *)
LEMMA SubmitTasksRests ==
  ASSUME SchedulerInv, SchedulerInv', RestInv, NEW t \in Threads, SubmitTasks(t), UNCHANGED graph
  PROVE  RestInv'
<1>1. TypeInv /\ Entered
  BY DEF SchedulerInv, RestInv
<1>2. /\ UNCHANGED <<state, running, job, closed, hasError, pending, toAdd, hi, handling>>
      /\ owes' = [owes EXCEPT ![t] = OwesNothing]
  BY DEF SubmitTasks, idleVars, flagVars
<1>3. owes'[t].step = "none" /\ \A u \in Threads : u # t => owes'[u] = owes[u]
  BY <1>1, <1>2, Nothing DEF TypeInv
<1>4. HiSteps(t) /\ \A u : Inside(u)' = Inside(u)
  BY <1>1, <1>2, HiStays
<1>5. QED
  BY <1>2, <1>3, <1>4, QuietStep

(* The scheduler is told of a queue.                                       *)
LEMMA QueueIdleStateChangedRests ==
  ASSUME SchedulerInv, SchedulerInv', RestInv, NEW t \in Threads, QueueIdleStateChanged(t), UNCHANGED graph
  PROVE  RestInv'
<1>1. TypeInv /\ HandlingInv /\ Entered /\ AtRest /\ Unlocked /\ owes[t].step \in {"active", "idle"}
  BY DEF SchedulerInv, LayersInv, RestInv, QueueIdleStateChanged
<1>2. UNCHANGED <<state, running, job, closed, hasError, pending, toAdd>>
  BY DEF QueueIdleStateChanged, queueVars, flagVars
<1>3. ~Stopped
  <2>1. Stopped => hi.at # "activate"
    BY <1>1 DEF Entered, Stopped
  <2>2. QED
    BY <1>1, <2>1 DEF AtRest, Quietly
<1>4. PICK next \in OweType :
        /\ next = IF owes[t].step = "idle" THEN OwesNothing ELSE [owes[t] EXCEPT !.step = "submit"]
        /\ next.step \in {"none", "submit"}
  <2>1. owes[t] \in OweType
    BY <1>1 DEF TypeInv
  <2>2. CASE owes[t].step = "idle"
    BY <2>2, Nothing
  <2>3. CASE owes[t].step # "idle"
    <3>1. PICK next : next = [owes[t] EXCEPT !.step = "submit"]
      OBVIOUS
    <3>2. next \in OweType /\ next.step = "submit"
      BY <2>1, <3>1 DEF OweType
    <3>3. QED
      BY <2>3, <3>1, <3>2
  <2>4. QED
    BY <2>2, <2>3
<1>5. \/ CallHandleIdle(t, next)
      \/ owes' = [owes EXCEPT ![t] = next] /\ UNCHANGED <<handling, hi>>
  BY <1>4 DEF QueueIdleStateChanged
<1>6. CASE CallHandleIdle(t, next)
  <2>1. state # "not_started" /\ state # "terminated"
    BY <1>3 DEF Stopped
  <2>2. /\ HiSteps(t) /\ owes'[t].step \in {"none", "submit"}
        /\ \A u \in Threads : u # t => owes'[u] = owes[u] /\ Inside(u)' = Inside(u)
    BY <1>1, <1>4, <1>6, <2>1, HiCalls
  <2>3. QED
    BY <1>2, <2>2, QuietStep
<1>7. CASE owes' = [owes EXCEPT ![t] = next] /\ UNCHANGED <<handling, hi>>
  <2>1. owes'[t].step \in {"none", "submit"} /\ \A u \in Threads : u # t => owes'[u] = owes[u]
    BY <1>1, <1>4, <1>7 DEF TypeInv
  <2>2. HiSteps(t) /\ \A u : Inside(u)' = Inside(u)
    BY <1>1, <1>7, HiStays
  <2>3. QED
    BY <1>2, <2>1, <2>2, QuietStep
<1>8. QED
  BY <1>5, <1>6, <1>7

(* A worker makes a queue active: it is another than the one it works for, *)
(* so the graph cannot be paused and the queue gets its task.  No worker   *)
(* waits on this queue, or for it.                                         *)
LEMMA WaiterJoins ==
  ASSUME SchedulerInv, ~Done, RestInv, Unraced, NEW t \in Workers, NEW q \in Queues, IsIdle(q), Calls(t),
         OthersStay(t), UNCHANGED job, owes'[t].queue = q, owes'[t].tasks = Submitted(q), ~Stopped, ~Switching
  PROVE  Apart' /\ Grounded'
<1>1. /\ t \in Threads /\ Queues' = Queues /\ toAdd[q] \in Nat /\ MayCall(t)
  BY SameGraph DEF Threads, OthersStay, ThreadSteps, SchedulerInv, TypeInv, RestInv, Callers
<1>2. job[t].at # "idle"
  BY <1>1 DEF MayCall
<1>3. PICK p \in Queues : p = job[t].queue /\ ~IsIdle(p)
  BY <1>2, BusyPending
<1>4. p # q /\ ~OneQueue
  BY <1>3 DEF OneQueue
<1>5. running[q] = 1
  <2>1. "pause" \notin Ops /\ hi.at # "activate"
    BY <1>4 DEF Unraced, Switching
  <2>2. state \in {"running", "cancelling"}
    BY <2>1 DEF RestInv, Entered, Stopped
  <2>3. QED
    BY <2>1, <2>2 DEF RestInv, RunningRight
<1>6. owes'[t].tasks > 0
  BY <1>1, <1>5 DEF Submitted
<1>7. ASSUME NEW u \in Workers, u # t, Waits(u)'
      PROVE  /\ Waits(u) /\ owes'[u] = owes[u] /\ owes[u].queue # q /\ job[u].queue # q
  <2>1. u \in Threads
    BY DEF Threads
  <2>2. owes'[u] = owes[u] /\ Inside(u)' = Inside(u)
    BY <1>7, <2>1 DEF OthersStay, ThreadSteps
  <2>3. Waits(u)
    BY <1>7, <2>2 DEF Waits
  <2>4. owes[u].queue # q /\ job[u].at # "idle"
    BY <2>3, WaitsPending
  <2>5. job[u].queue # q
    BY <2>4, BusyPending
  <2>6. QED
    BY <2>2, <2>3, <2>4, <2>5
<1>8. Apart'
  <2>1. ASSUME NEW u \in Workers, Waits(u)' PROVE owes'[u].tasks > 0
    BY <1>6, <1>7, <2>1 DEF RestInv, Apart
  <2>2. ASSUME NEW u \in Workers, NEW w \in Workers, Waits(u)', Waits(w)', owes'[w].queue = owes'[u].queue
        PROVE  w = u
    BY <1>7, <2>2 DEF RestInv, Apart
  <2>3. QED
    BY <2>1, <2>2 DEF Apart
<1>9. ASSUME NEW S \in SUBSET Queues, S # {}
      PROVE  \E r \in S : \A u \in Workers : Waits(u)' /\ owes'[u].queue = r => job'[u].queue \notin S
  <2>1. CASE S \ {q} = {}
    <3>1. S = {q}
      BY <1>9, <2>1
    <3>2. \A u \in Workers : Waits(u)' /\ owes'[u].queue = q => job'[u].queue \notin S
      BY <1>3, <1>4, <1>7, <3>1
    <3>3. QED
      BY <3>1, <3>2
  <2>2. CASE S \ {q} # {}
    <3>1. S \ {q} \in SUBSET Queues
      OBVIOUS
    <3>2. PICK r \in S \ {q} : \A u \in Workers : Waits(u) /\ owes[u].queue = r => job[u].queue \notin S \ {q}
      BY <2>2, <3>1 DEF RestInv, Grounded
    <3>3. \A u \in Workers : Waits(u)' /\ owes'[u].queue = r => job'[u].queue \notin S
      BY <1>7, <3>2
    <3>4. QED
      BY <3>2, <3>3
  <2>3. QED
    BY <2>1, <2>2
<1>10. Grounded'
  BY <1>1, <1>9 DEF Grounded
<1>11. QED
  BY <1>8, <1>10

(* An item is pushed.  A queue whose layer is being activated is not       *)
(* running, and submits nothing.                                           *)
LEMMA PushItemRests ==
  ASSUME SchedulerInv, SchedulerInv', ~Done, RestInv, Unraced, NEW t \in Threads, PushItem(t), UNCHANGED graph
  PROVE  RestInv'
<1>1. TypeInv /\ NamesInv /\ Entered /\ AtRest /\ owes[t].step = "push"
  BY DEF SchedulerInv, LayersInv, RestInv, PushItem
<1>2. UNCHANGED <<state, running, job, closed, hasError, hi, handling>>
  BY DEF PushItem, queueVars, idleVars, flagVars
<1>3. HiSteps(t) /\ \A u : Inside(u)' = Inside(u)
  BY <1>1, <1>2, HiStays
<1>4. CASE Dropped(t)
  <2>1. owes' = [owes EXCEPT ![t] = OwesNothing] /\ UNCHANGED <<toAdd, pending>>
    BY <1>4 DEF PushItem, Dropped, queueVars
  <2>2. owes'[t].step = "none" /\ \A u \in Threads : u # t => owes'[u] = owes[u]
    BY <1>1, <2>1, Nothing DEF TypeInv
  <2>3. QED
    BY <1>2, <1>3, <2>1, <2>2, QuietStep
<1>5. CASE ~Dropped(t)
  <2>1. PICK q \in Queues : /\ q = owes[t].queue /\ pending' = [pending EXCEPT ![q] = @ + Submitted(q)]
                            /\ OwesChanged(t, owes'[t]) /\ owes'[t].queue = q /\ owes'[t].tasks = Submitted(q)
                            /\ owes'[t].step = (IF IsIdle(q) THEN "active" ELSE "submit")
    <3>1. /\ owes[t].queue \in Queues
          /\ pending' = [pending EXCEPT ![owes[t].queue] = @ + Submitted(owes[t].queue)]
      BY <1>1, <1>5, PushItemMoves
    <3>2. PICK new \in OweType :
            /\ OwesChanged(t, new) /\ new.queue = owes[t].queue /\ new.tasks = Submitted(owes[t].queue)
            /\ new.step = (IF IsIdle(owes[t].queue) THEN "active" ELSE "submit")
      BY <1>1, <1>5, PushItemMoves
    <3>3. owes'[t] = new
      BY <3>2 DEF OwesChanged
    <3>4. QED
      BY <3>1, <3>2, <3>3
  <2>2. OthersStay(t)
    BY <1>2, <1>3, <2>1, OnlyThread DEF OwesChanged
  <2>3. Calls(t)' => MayCall(t)'
    BY <1>1, <1>2, <1>3, <2>1, SameGraph DEF Calls, MayCall, RestInv, Callers, Ops
  <2>4. CallersMay(t)
    BY <1>2, <2>3 DEF CallersMay, RestInv, Callers, MayCall, Threads
  <2>5. StaysCalm(t)
    <3>1. SUFFICES ASSUME Stopped \/ Switching
                   PROVE  hi.at = "activate" /\ hi.by = t /\ \A p \in Queues : pending'[p] = pending[p]
      BY DEF StaysCalm
    <3>2. hi.at = "activate" /\ hi.by = t
      BY <1>1, <3>1 DEF AtRest, Quietly
    <3>3. running[q] \in {0, -1}
      BY <3>2 DEF RestInv, RunningRight
    <3>4. Submitted(q) = 0 /\ pending \in [Queues -> Int]
      BY <1>1, <3>3 DEF Submitted, TypeInv
    <3>5. QED
      BY <2>1, <3>2, <3>4
  <2>6. CASE t \in Workers => ~Waits(t)'
    BY <1>2, <1>3, <2>2, <2>4, <2>5, <2>6, StepKeeps
  <2>7. CASE t \in Workers /\ Waits(t)'
    <3>1. ~Inside(t) /\ Calls(t) /\ IsIdle(q)
      BY <1>1, <1>3, <2>1, <2>7 DEF Waits, Calls
    <3>2. ~Stopped /\ ~Switching
      BY <1>1, <3>1 DEF AtRest, Quietly, Inside
    <3>3. Apart' /\ Grounded'
      BY <1>2, <2>1, <2>2, <2>7, <3>1, <3>2, WaiterJoins
    <3>4. RunningRight' /\ Entered' /\ AtRest' /\ Callers'
      BY <1>2, <1>3, <2>2, <2>4, <2>5, RunningKeeps, EnteredKeeps, RestKeeps, CallersKeep DEF RestInv
    <3>5. QED
      BY <3>3, <3>4 DEF RestInv
  <2>8. QED
    BY <2>6, <2>7
<1>6. QED
  BY <1>4, <1>5

-----------------------------------------------------------------------------
(* The steps of a worker: it runs something only while the graph runs, and *)
(* while no layer is being activated when there are several queues.        *)
LEMMA BusyRuns ==
  ASSUME SchedulerInv, ~Done, RestInv, NEW t \in Workers, job[t].at # "idle"
  PROVE  ~Stopped /\ ~Switching
<1>1. PICK q \in Queues : pending[q] > 0
  BY BusyPending
<1>2. pending[q] # 0
  BY <1>1
<1>3. QED
  BY <1>2 DEF RestInv, AtRest

(* A step of a worker while the graph runs.                                *)
LEMMA WorkerRests ==
  ASSUME SchedulerInv, SchedulerInv', RestInv, NEW t \in Workers, Free(t), ~Stopped, ~Switching,
         UNCHANGED <<graph, state, running, hi, handling, closed>>,
         hasError' = hasError \/ (hasError' /\ \A u \in Apps : ~Calls(u)),
         \A u \in Threads : u # t => job'[u] = job[u] /\ owes'[u] = owes[u],
         owes'[t].step \in {"none", "idle"} \/ (owes'[t].step = "push" /\ job'[t].at # "idle")
  PROVE  RestInv'
<1>1. t \in Threads /\ t \notin Apps /\ Apps \subseteq Threads /\ Workers \subseteq Threads
  BY SchedulerAssumption DEF Threads
<1>2. HiSteps(t) /\ \A u : Inside(u)' = Inside(u)
  BY HiStays DEF RestInv
<1>3. OthersStay(t)
  BY <1>1, <1>2, OnlyThread
<1>4. Calls(t)' => MayCall(t)'
  BY <1>1, SameGraph DEF Calls, MayCall, SchedulerInv, LayersInv, NamesInv
<1>5. CallersMay(t)
  <2>1. ASSUME NEW u \in Apps, Calls(u) PROVE ~closed' /\ ~hasError'
    BY <1>1, <2>1 DEF RestInv, Callers, MayCall
  <2>2. QED
    BY <1>4, <2>1 DEF CallersMay
<1>6. StaysCalm(t) /\ ~Waits(t)'
  BY DEF StaysCalm, Waits
<1>7. (closed \/ hasError => closed' \/ hasError') /\ \A u \in Apps : job'[u].at = job[u].at
  BY <1>1
<1>8. QED
  BY <1>1, <1>2, <1>3, <1>5, <1>6, <1>7, StepKeeps

(* A worker that goes on with what it does, and may begin to add an item.  *)
LEMMA BusyRests ==
  ASSUME SchedulerInv, SchedulerInv', ~Done, RestInv, NEW t \in Workers, Free(t), job[t].at # "idle",
         UNCHANGED <<graph, state, running, hi, handling, closed>>,
         hasError' = hasError \/ (hasError' /\ \A u \in Apps : ~Calls(u)),
         UNCHANGED job \/ \E where \in {"finish", "ending", "again"} : Goto(t, where),
         UNCHANGED owes \/ \E q, kind, s : AddItem(t, q, kind, s)
  PROVE  RestInv'
<1>1. t \in Threads /\ TypeInv /\ owes[t] = OwesNothing /\ owes[t].step = "none"
  BY Nothing DEF Threads, SchedulerInv, Free
<1>2. ~Stopped /\ ~Switching
  BY BusyRuns
<1>3. job'[t].at # "idle" /\ \A u \in Threads : u # t => job'[u] = job[u]
  <2>1. CASE UNCHANGED job
    BY <2>1
  <2>2. ASSUME NEW where \in {"finish", "ending", "again"}, Goto(t, where)
        PROVE  job'[t].at # "idle" /\ \A u \in Threads : u # t => job'[u] = job[u]
    <3>1. where \in Places
      BY DEF Places
    <3>2. JobMoved(t, where)
      BY <1>1, <2>2, <3>1, GotoMoves
    <3>3. QED
      BY <3>2 DEF JobMoved
  <2>3. QED
    BY <2>1, <2>2
<1>4. /\ \A u \in Threads : u # t => owes'[u] = owes[u]
      /\ owes'[t].step \in {"none", "push"}
  <2>1. ASSUME NEW q, NEW kind, NEW s, AddItem(t, q, kind, s)
        PROVE  /\ \A u \in Threads : u # t => owes'[u] = owes[u]
               /\ owes'[t].step \in {"none", "push"}
    BY <1>1, <2>1, AddItemBegins
  <2>2. CASE UNCHANGED owes
    BY <1>1, <2>2
  <2>3. QED
    BY <2>1, <2>2
<1>5. QED
  BY <1>2, <1>3, <1>4, WorkerRests

(* What a node does.                                                       *)
LEMMA NodeRests ==
  ASSUME SchedulerInv, SchedulerInv', ~Done, RestInv, Unraced, NEW t \in Workers, NodeActs(t), UNCHANGED graph
  PROVE  RestInv'
<1>1. Free(t) /\ job[t].at # "idle"
  BY DEF NodeActs, Emit, ProduceSidePacket, UpdateThrottledNodes, Stop, Fail, At
<1>2. UNCHANGED <<state, running, hi, handling, closed>>
  BY DEF NodeActs, Emit, ProduceSidePacket, UpdateThrottledNodes, Stop, Fail, queueVars, idleVars, flagVars
<1>3. UNCHANGED job \/ \E where \in {"finish", "ending", "again"} : Goto(t, where)
  BY DEF NodeActs, Emit, ProduceSidePacket, UpdateThrottledNodes, Stop, Fail
<1>4. UNCHANGED owes \/ \E q, kind, s : AddItem(t, q, kind, s)
  BY DEF NodeActs, Emit, ProduceSidePacket, UpdateThrottledNodes, Stop, Fail, AddSource
<1>5. hasError' = hasError \/ (hasError' /\ \A u \in Apps : ~Calls(u))
  <2>1. CASE Fail(t)
    <3>1. hasError' /\ "feed" \notin Ops
      BY <2>1 DEF Fail, Unraced
    <3>2. QED
      BY <3>1 DEF RestInv, Callers, MayCall, Threads
  <2>2. CASE ~Fail(t)
    BY <2>2 DEF NodeActs, Emit, ProduceSidePacket, UpdateThrottledNodes, Stop, flagVars
  <2>3. QED
    BY <2>1, <2>2
<1>6. QED
  BY <1>1, <1>2, <1>3, <1>4, <1>5, BusyRests

(* It goes on, ...                                                         *)
LEMMA GoesOnRests ==
  ASSUME SchedulerInv, SchedulerInv', ~Done, RestInv, NEW t \in Workers, UNCHANGED graph,
         \/ WorkDone(t) \/ NodeOpened(t) \/ (\E s \in Sources : CloseSource(t, s))
         \/ SourceGoesOn(t) \/ EndScheduling(t) \/ ScheduleNodeIfNotThrottled(t)
  PROVE  RestInv'
<1>1. /\ Free(t) /\ job[t].at # "idle"
      /\ UNCHANGED <<state, running, hi, handling, closed, hasError>>
      /\ \E where \in {"finish", "ending", "again"} : Goto(t, where)
  BY DEF WorkDone, NodeOpened, CloseSource, SourceGoesOn, EndScheduling, ScheduleNodeIfNotThrottled, At,
     queueVars, idleVars, flagVars
<1>2. UNCHANGED owes \/ \E q, kind, s : AddItem(t, q, kind, s)
  BY DEF WorkDone, NodeOpened, CloseSource, SourceGoesOn, EndScheduling, ScheduleNodeIfNotThrottled, AddSource
<1>3. QED
  BY <1>1, <1>2, BusyRests

(* ... finishes, ...                                                       *)
LEMMA FinishTaskRests ==
  ASSUME SchedulerInv, SchedulerInv', ~Done, RestInv, NEW t \in Workers, FinishTask(t), UNCHANGED graph
  PROVE  RestInv'
<1>1. TypeInv /\ NamesInv /\ UNCHANGED <<state, running, hi, handling, closed, hasError>>
  BY DEF SchedulerInv, LayersInv, FinishTask, idleVars, flagVars
<1>2. PICK q \in Queues :
        /\ job[t].at = "finish" /\ Free(t)
        /\ \A u \in Threads : u # t => job'[u] = job[u]
        /\ \E new \in OweType :
             /\ OwesChanged(t, new) /\ new.tasks = 0 /\ new.queue = "none"
             /\ new.step = IF Size(queue[q]) = 0 /\ pending[q] = 1 THEN "idle" ELSE "none"
  BY <1>1, FinishTaskMoves
<1>3. owes'[t].step \in {"none", "idle"} /\ \A u \in Threads : u # t => owes'[u] = owes[u]
  BY <1>2 DEF OwesChanged
<1>4. ~Stopped /\ ~Switching
  BY <1>2, BusyRuns
<1>5. QED
  BY <1>1, <1>2, <1>3, <1>4, WorkerRests

(* ... and takes another task, which was pending.                          *)
LEMMA RunNextTaskRests ==
  ASSUME SchedulerInv, SchedulerInv', ~Done, RestInv, NEW t \in Workers, RunNextTask(t), UNCHANGED graph
  PROVE  RestInv'
<1>1. /\ TypeInv /\ Ledger /\ t \in Threads
      /\ UNCHANGED <<state, running, hi, handling, closed, hasError, owes>>
  BY DEF SchedulerInv, Threads, RunNextTask, idleVars, flagVars
<1>2. Free(t) /\ owes[t].step = "none"
  BY Nothing DEF RunNextTask, At, Free
<1>3. PICK q \in Queues :
        /\ tasks[q] > 0
        /\ IF Size(queue[q]) = 0 THEN UNCHANGED <<queue, job>>
                                 ELSE \E i \in First(queue[q]) : TakesTask(t, q, i)
  BY <1>1, RunNextTaskMoves
<1>4. \A u \in Threads : u # t => job'[u] = job[u]
  BY <1>3 DEF TakesTask
<1>5. ~Stopped /\ ~Switching
  <2>1. /\ InHands(q) \in Nat /\ tasks[q] \in Nat /\ Cardinality(WorkOn(q)) \in Nat
        /\ pending[q] = tasks[q] + InHands(q) + Cardinality(WorkOn(q))
    BY <1>1, PendingFacts
  <2>2. pending[q] # 0
    BY <1>3, <2>1
  <2>3. QED
    BY <2>2 DEF RestInv, AtRest
<1>6. QED
  BY <1>1, <1>2, <1>4, <1>5, WorkerRests

(* RunNextTask, whichever step it takes.                                   *)
LEMMA WorkRests ==
  ASSUME SchedulerInv, SchedulerInv', ~Done, RestInv, NEW t \in Workers, Work(t), UNCHANGED graph
  PROVE  RestInv'
BY GoesOnRests, FinishTaskRests, RunNextTaskRests DEF Work

-----------------------------------------------------------------------------
(* The steps of the application.                                           *)

(* What an application that owes nothing knows.                            *)
LEMMA FreeApp ==
  ASSUME SchedulerInv, RestInv, NEW t \in Apps, Free(t)
  PROVE  /\ t \in Threads /\ t \notin Workers /\ TypeInv /\ HandlingInv /\ Entered /\ AtRest
         /\ owes[t] = OwesNothing /\ owes[t].step = "none" /\ ~Inside(t) /\ Workers \subseteq Threads
         /\ state = "not_started" => job[t].at \in {"start", "later"}
<1>1. Workers \cap Apps = {}
  BY SchedulerAssumption
<1>2. QED
  BY <1>1, Nothing DEF Threads, Free, Inside, SchedulerInv, LayersInv, RestInv, Entered

(* A step of the only application that leaves the state as it is.          *)
LEMMA AppRests ==
  ASSUME SchedulerInv, SchedulerInv', RestInv, OneApp, NEW t \in Apps, Free(t),
         UNCHANGED <<graph, state, running>>, state # "not_started", HiSteps(t),
         \A u \in Threads : u # t => owes'[u] = owes[u] /\ Inside(u)' = Inside(u),
         \A u \in Workers : job'[u] = job[u],
         closed \/ hasError => closed' \/ hasError', Calls(t)' => MayCall(t)', StaysCalm(t)
  PROVE  RestInv'
<1>1. t \in Threads /\ t \notin Workers
  BY FreeApp
<1>2. OthersStay(t)
  BY <1>1, OnlyThread
<1>3. CallersMay(t)
  BY DEF CallersMay, OneApp
<1>4. QED
  BY <1>1, <1>2, <1>3, StepKeeps

(* Goto of an application.                                                 *)
LEMMA AppGoto ==
  ASSUME TypeInv, NEW t \in Apps, NEW where \in Places, Goto(t, where)
  PROVE  \A u \in Workers : job'[u] = job[u]
<1>1. t \in Threads /\ Workers \cap Apps = {} /\ Workers \subseteq Threads
  BY SchedulerAssumption DEF Threads
<1>2. JobMoved(t, where)
  BY <1>1, GotoMoves
<1>3. QED
  BY <1>1, <1>2 DEF JobMoved

(* It feeds the graph while it may: neither before nor after the run, nor  *)
(* while a layer is activated and there are several queues.                *)
LEMMA AddPacketRests ==
  ASSUME SchedulerInv, SchedulerInv', RestInv, OneApp, Unraced, NEW t \in Apps, AddPacket(t), UNCHANGED graph
  PROVE  RestInv'
<1>1. /\ Free(t) /\ job[t].at = "ready" /\ "feed" \in Ops /\ ~closed /\ Goto(t, "added") /\ "added" \in Places
      /\ UNCHANGED <<state, running, hi, handling, closed, hasError, pending, toAdd>>
      /\ \E q : AddItem(t, q, "work", "none")
  BY DEF AddPacket, At, queueVars, idleVars, flagVars, Places
<1>2. /\ t \in Threads /\ TypeInv /\ Entered /\ owes[t].step = "none" /\ state # "not_started"
  BY <1>1, FreeApp
<1>3. /\ \A u \in Threads : u # t => owes'[u] = owes[u]
      /\ owes'[t].step = "none" \/ (owes'[t].step = "push" /\ ~hasError)
  BY <1>1, <1>2, AddItemBegins
<1>4. HiSteps(t) /\ \A u : Inside(u)' = Inside(u)
  BY <1>1, <1>2, HiStays
<1>5. Calls(t)' => MayCall(t)'
  <2>1. t \notin Workers
    BY <1>1, FreeApp
  <2>2. owes'[t].step = "push" => owes'[t].queue \in Queues'
    BY <1>2 DEF SchedulerInv, LayersInv, NamesInv
  <2>3. Ops' = Ops
    BY DEF Ops
  <2>4. QED
    BY <1>1, <1>3, <2>1, <2>2, <2>3 DEF Calls, MayCall
<1>6. StaysCalm(t)
  <2>1. ~hasError => ~Stopped /\ ~Switching
    BY <1>1, <1>2 DEF Entered, Stopped, Switching, Unraced
  <2>2. QED
    BY <1>1, <1>3, <2>1 DEF StaysCalm
<1>7. \A u \in Workers : job'[u] = job[u]
  BY <1>1, <1>2, AppGoto
<1>8. QED
  BY <1>1, <1>2, <1>3, <1>4, <1>5, <1>6, <1>7, AppRests

(* It waits, or goes on after it has closed the sources.                   *)
LEMMA WaitRests ==
  ASSUME SchedulerInv, SchedulerInv', RestInv, OneApp, NEW t \in Apps, UNCHANGED graph,
         AskUntilIdle(t) \/ WaitUntilIdle(t) \/ CloseAllSourceNodes(t)
  PROVE  RestInv'
<1>1. /\ Free(t) /\ job[t].at \in {"ready", "waitIdle", "stop"}
      /\ UNCHANGED <<state, running, hi, handling, closed, hasError, pending, toAdd, owes>>
  BY DEF AskUntilIdle, WaitUntilIdle, CloseAllSourceNodes, At, queueVars, idleVars, flagVars
<1>2. PICK where \in {"ready", "waitIdle"} : Goto(t, where)
  BY DEF AskUntilIdle, WaitUntilIdle, CloseAllSourceNodes
<1>3. /\ t \in Threads /\ TypeInv /\ Entered /\ owes[t].step = "none" /\ state # "not_started"
  BY <1>1, FreeApp
<1>4. HiSteps(t) /\ \A u : Inside(u)' = Inside(u)
  BY <1>1, <1>3, HiStays
<1>5. where \in Places
  BY DEF Places
<1>6. \A u \in Workers : job'[u] = job[u]
  BY <1>2, <1>3, <1>5, AppGoto
<1>7. StaysCalm(t) /\ ~Calls(t)'
  BY <1>1, <1>3 DEF StaysCalm, Calls
<1>8. QED
  BY <1>1, <1>3, <1>4, <1>6, <1>7, AppRests

(* It tells the scheduler of a packet, or that it has closed the inputs.   *)
LEMMA AppCallsRests ==
  ASSUME SchedulerInv, SchedulerInv', RestInv, OneApp, NEW t \in Apps, UNCHANGED graph,
         AddedPacketToGraphInputStream(t) \/ ClosedAllGraphInputStreams(t)
  PROVE  RestInv'
<1>1. /\ Free(t) /\ job[t].at \in {"ready", "added"} /\ Unlocked
      /\ UNCHANGED <<state, running, hasError, pending, toAdd>> /\ (closed => closed')
      /\ CallHandleIdle(t, OwesNothing) \/ UNCHANGED <<hi, handling, owes>>
  BY DEF AddedPacketToGraphInputStream, ClosedAllGraphInputStreams, At, queueVars, flagVars
<1>2. PICK where \in {"ready", "stop"} : Goto(t, where)
  BY DEF AddedPacketToGraphInputStream, ClosedAllGraphInputStreams
<1>3. /\ t \in Threads /\ TypeInv /\ HandlingInv /\ Entered /\ owes[t].step = "none" /\ state # "not_started"
  BY <1>1, FreeApp
<1>4. where \in Places
  BY DEF Places
<1>5. \A u \in Workers : job'[u] = job[u]
  BY <1>2, <1>3, <1>4, AppGoto
<1>6. /\ HiSteps(t) /\ owes'[t].step \in {"none", "submit"}
      /\ \A u \in Threads : u # t => owes'[u] = owes[u] /\ Inside(u)' = Inside(u)
  <2>1. CASE CallHandleIdle(t, OwesNothing)
    BY <1>1, <1>3, <2>1, HiCalls, Nothing
  <2>2. CASE UNCHANGED <<hi, handling, owes>>
    <3>1. HiSteps(t) /\ \A u : Inside(u)' = Inside(u)
      BY <1>3, <2>2, HiStays
    <3>2. QED
      BY <1>3, <2>2, <3>1
  <2>3. QED
    BY <1>1, <2>1, <2>2
<1>7. StaysCalm(t) /\ ~Calls(t)'
  BY <1>1, <1>6 DEF StaysCalm, Calls
<1>8. QED
  BY <1>1, <1>3, <1>5, <1>6, <1>7, AppRests

(* It submits the tasks that wait: none when the run has ended, or while a *)
(* layer is activated.                                                     *)
LEMMA SubmitAfterRests ==
  ASSUME SchedulerInv, SchedulerInv', RestInv, OneApp, NEW t \in Apps, UNCHANGED graph, SubmitAfter(t)
  PROVE  RestInv'
<1>1. /\ Free(t) /\ job[t].at = "submit" /\ Goto(t, "ready") /\ SubmitWaiting /\ "ready" \in Places
      /\ UNCHANGED <<state, running, hi, handling, closed, hasError, owes>>
  BY DEF SubmitAfter, SubmitWaiting, At, idleVars, flagVars, Places
<1>2. /\ t \in Threads /\ TypeInv /\ Entered /\ AtRest /\ owes[t].step = "none" /\ state # "not_started"
  BY <1>1, FreeApp
<1>3. HiSteps(t) /\ \A u : Inside(u)' = Inside(u)
  BY <1>1, <1>2, HiStays
<1>4. \A u \in Workers : job'[u] = job[u]
  BY <1>1, <1>2, AppGoto
<1>5. ~Calls(t)'
  BY <1>1, <1>2 DEF Calls
<1>6. StaysCalm(t)
  <2>1. ASSUME Stopped \/ Switching, NEW q \in Queues
        PROVE  pending'[q] = pending[q] /\ toAdd'[q] = toAdd[q]
    <3>1. PICK submit \in Nat : submit = IF running[q] > 0 THEN toAdd[q] ELSE 0
      BY <1>2 DEF TypeInv
    <3>2. pending'[q] = pending[q] + submit /\ toAdd'[q] = toAdd[q] - submit
      BY <1>1, <3>1 DEF SubmitWaiting
    <3>3. submit = 0
      <4>1. CASE hi.at = "pause" /\ Switching
        BY <1>2, <2>1, <3>1, <4>1 DEF AtRest
      <4>2. CASE hi.at = "activate"
        <5>1. running[q] \in {0, -1}
          BY <4>2 DEF RestInv, RunningRight
        <5>2. QED
          BY <3>1, <5>1
      <4>3. CASE Stopped
        <5>1. running[q] = 0
          BY <1>2, <4>3 DEF RestInv, RunningRight, Stopped, Entered
        <5>2. QED
          BY <3>1, <5>1
      <4>4. QED
        BY <2>1, <4>1, <4>2, <4>3 DEF Switching
    <3>4. pending[q] \in Int /\ toAdd[q] \in Int
      BY <1>2 DEF TypeInv
    <3>5. QED
      BY <3>2, <3>3, <3>4
  <2>2. QED
    BY <1>1, <1>2, <2>1 DEF StaysCalm
<1>7. QED
  BY <1>1, <1>2, <1>3, <1>4, <1>5, <1>6, AppRests

(* A step of the application that changes the state.                       *)
LEMMA StateRests ==
  ASSUME SchedulerInv, SchedulerInv', RestInv, OneApp, NEW t \in Apps, Free(t),
         UNCHANGED <<graph, pending, toAdd>>, state # "terminated",
         state' \in {"running", "paused", "cancelling"}, state' = "paused" => "pause" \in Ops,
         \A q \in Queues : running'[q] = running[q] + ((IF state' \in {"running", "cancelling"} THEN 1 ELSE 0)
                                                       - (IF state \in {"running", "cancelling"} THEN 1 ELSE 0)),
         \/ UNCHANGED <<hi, handling>>
         \/ hi'.at = hi.at /\ hi'.by = hi.by /\ hi.at # "none"
         \/ hi.at = "none" /\ hi'.at = "loop",
         \A u \in Threads : u # t => owes'[u] = owes[u] /\ Inside(u)' = Inside(u),
         \A u \in Workers : job'[u] = job[u], owes'[t].step = "none"
  PROVE  RestInv'
<1>1. /\ t \in Threads /\ t \notin Workers /\ Entered /\ AtRest /\ Workers \subseteq Threads
  BY FreeApp
<1>2. OthersStay(t)
  BY <1>1, OnlyThread
<1>3. CallersMay(t) /\ ~Calls(t)'
  BY DEF CallersMay, OneApp, Calls
<1>4. Callers' /\ Apart' /\ Grounded'
  BY <1>1, <1>2, <1>3, CallersKeep, WaitersKeep DEF RestInv
<1>5. RunningRight'
  <2>1. (hi'.at = "activate") = (hi.at = "activate")
    OBVIOUS
  <2>2. ASSUME NEW q \in Queues
        PROVE  running'[q] = (IF state' \in {"running", "cancelling"} THEN 1 ELSE 0)
                             - (IF hi'.at = "activate" THEN 1 ELSE 0)
    <3>1. running[q] = (IF state \in {"running", "cancelling"} THEN 1 ELSE 0)
                       - (IF hi.at = "activate" THEN 1 ELSE 0)
      BY DEF RestInv, RunningRight
    <3>2. QED
      BY <2>1, <3>1
  <2>3. QED
    BY <2>2, SameGraph DEF RunningRight
<1>6. Entered'
  <2>1. Sources' = Sources /\ Ops' = Ops
    BY SameGraph DEF Ops
  <2>2. QED
    BY <1>1, <2>1 DEF Entered
<1>7. AtRest'
  <2>1. SUFFICES ASSUME (Stopped \/ Switching)' PROVE AtRest'
    BY DEF AtRest
  <2>2. Switching /\ hi'.at = hi.at /\ hi'.by = hi.by
    BY <2>1, SameGraph DEF Stopped, Switching, OneQueue
  <2>3. \A q \in Queues : pending[q] = 0 /\ (hi.at = "pause" => toAdd[q] = 0)
    BY <1>1, <2>2 DEF AtRest
  <2>4. ASSUME NEW u \in Threads PROVE Quietly(u)'
    <3>1. Quietly(u)
      BY <1>1, <2>2 DEF AtRest
    <3>2. QED
      BY <2>2, <3>1 DEF Quietly
  <2>5. QED
    BY <2>2, <2>3, <2>4, SameGraph DEF AtRest
<1>8. QED
  BY <1>4, <1>5, <1>6, <1>7 DEF RestInv

(* It pauses.                                                              *)
LEMMA PauseRests ==
  ASSUME SchedulerInv, SchedulerInv', RestInv, OneApp, NEW t \in Apps, Pause(t), UNCHANGED graph
  PROVE  RestInv'
<1>1. /\ Free(t) /\ state = "running" /\ state' = "paused" /\ "pause" \in Ops /\ SetQueuesRunning(FALSE)
      /\ UNCHANGED <<hi, handling, job, owes, pending, toAdd>>
  BY DEF Pause, At
<1>2. TypeInv /\ owes[t].step = "none"
  BY <1>1, FreeApp
<1>3. \A q \in Queues : running'[q] = running[q] + (0 - 1)
  BY <1>1, <1>2 DEF SetQueuesRunning, TypeInv
<1>4. \A u : Inside(u)' = Inside(u)
  BY <1>1 DEF Inside
<1>5. \A q \in Queues : running'[q] = running[q] + ((IF state' \in {"running", "cancelling"} THEN 1 ELSE 0)
                                                    - (IF state \in {"running", "cancelling"} THEN 1 ELSE 0))
  BY <1>1, <1>3
<1>6. QED
  BY <1>1, <1>2, <1>4, <1>5, StateRests

(* The steps that call HandleIdle as well.                                 *)
LEMMA CallRests ==
  ASSUME SchedulerInv, SchedulerInv', RestInv, OneApp, NEW t \in Apps, Free(t), Unlocked,
         UNCHANGED <<graph, pending, toAdd>>, state # "terminated",
         state' \in {"running", "cancelling"},
         \/ state \in {"running", "cancelling"} /\ UNCHANGED running
         \/ state \notin {"running", "cancelling"} /\ SetQueuesRunning(TRUE),
         CallHandleIdle(t, OwesNothing), \A u \in Workers : job'[u] = job[u]
  PROVE  RestInv'
<1>1. t \in Threads /\ TypeInv /\ HandlingInv /\ Entered /\ owes[t].step = "none"
  BY FreeApp
<1>2. \A q \in Queues : running'[q] = running[q] + ((IF state' \in {"running", "cancelling"} THEN 1 ELSE 0)
                                                    - (IF state \in {"running", "cancelling"} THEN 1 ELSE 0))
  BY <1>1 DEF SetQueuesRunning, TypeInv
<1>3. owes'[t].step = "none" /\ \A u \in Threads : u # t => owes'[u] = owes[u]
  BY <1>1, Nothing DEF CallHandleIdle, TypeInv
<1>4. CASE handling = 0
  <2>1. hi = NotHandling /\ hi.at = "none" /\ hi'.at = "loop" /\ hi'.by = t
    BY <1>1, <1>4, Nothing DEF CallHandleIdle, HandlingInv
  <2>2. \A u \in Threads : u # t => Inside(u)' = Inside(u)
    BY <2>1 DEF Inside
  <2>3. QED
    BY <1>2, <1>3, <2>1, <2>2, StateRests
<1>5. CASE handling # 0
  <2>1. hi' = hi /\ hi.at # "none"
    BY <1>1, <1>5 DEF CallHandleIdle, Entered
  <2>2. \A u \in Threads : Inside(u)' = Inside(u)
    BY <2>1 DEF Inside
  <2>3. QED
    BY <1>2, <1>3, <2>1, <2>2, StateRests
<1>6. QED
  BY <1>4, <1>5

(* It starts, resumes or cancels the run.                                  *)
LEMMA StartRests ==
  ASSUME SchedulerInv, SchedulerInv', RestInv, OneApp, NEW t \in Apps, UNCHANGED graph,
         Start(t) \/ Resume(t) \/ Cancel(t)
  PROVE  RestInv'
<1>1. /\ Free(t) /\ Unlocked /\ CallHandleIdle(t, OwesNothing) /\ UNCHANGED <<pending, toAdd>>
      /\ state' \in {"running", "cancelling"}
  BY DEF Start, Resume, Cancel, At
<1>2. TypeInv /\ Workers \subseteq Threads /\ Workers \cap Apps = {}
  BY <1>1, FreeApp, SchedulerAssumption
<1>3. /\ state \in {"not_started", "running", "paused"}
      /\ \/ state = "running" /\ UNCHANGED running
         \/ state # "running" /\ SetQueuesRunning(TRUE)
  <2>1. CASE Start(t)
    <3>1. state = "not_started" /\ SetQueuesRunning(TRUE)
      BY <2>1 DEF Start, At, SchedulerInv, AppInv
    <3>2. QED
      BY <3>1
  <2>2. CASE Resume(t)
    <3>1. state = "paused" /\ SetQueuesRunning(TRUE)
      BY <2>2 DEF Resume
    <3>2. QED
      BY <3>1
  <2>3. CASE Cancel(t)
    <3>1. /\ state \in {"running", "paused"}
          /\ IF state = "paused" THEN SetQueuesRunning(TRUE) ELSE UNCHANGED running
      BY <2>3 DEF Cancel
    <3>2. QED
      BY <3>1
  <2>4. QED
    BY <2>1, <2>2, <2>3
<1>4. \A u \in Workers : job'[u] = job[u]
  <2>1. CASE Start(t)
    BY <1>2, <2>1 DEF Start
  <2>2. CASE Resume(t) \/ Cancel(t)
    <3>1. "submit" \in Places /\ Goto(t, "submit")
      BY <2>2 DEF Resume, Cancel, Places
    <3>2. QED
      BY <1>2, <3>1, AppGoto
  <2>3. QED
    BY <2>1, <2>2
<1>5. QED
  BY <1>1, <1>3, <1>4, CallRests

(* After the run nothing is left: what is pending is done, and what was    *)
(* left in the queues is dropped from the count.                           *)
LEMMA CleanupFinishes ==
  ASSUME SchedulerInv, SchedulerInv', ~Done, RestInv, OneApp, NEW t \in Apps, CleanupAfterRun(t), UNCHANGED graph
  PROVE  Finished'
<1>1. /\ Free(t) /\ Unlocked /\ state = "terminated"
      /\ failed' = (failed \/ ~\A q \in Queues : pending[q] = 0 /\ toAdd[q] = Size(queue[q]))
      /\ nonIdle' = nonIdle - Cardinality(ActiveQueues)
      /\ queue' = [q \in Queues |-> [open |-> {}, work |-> 0, run |-> {}]]
      /\ job' = [u \in Threads |-> IF u \in Apps THEN [Idling EXCEPT !.at = "done"] ELSE job[u]]
      /\ UNCHANGED <<pending, running, tasks, handling, hi, state, owes>>
  BY DEF CleanupAfterRun, At, Check, ActiveQueues
<1>2. /\ TypeInv /\ Ledger /\ CountEquation /\ ~failed /\ HandlingInv /\ Entered /\ AtRest
      /\ Workers \subseteq Threads /\ Workers \cap Apps = {} /\ Queues' = Queues
  BY <1>1, FreeApp, CountParts, SchedulerAssumption, SameGraph DEF SchedulerInv
<1>3. hi.at = "none" /\ handling = 0 /\ hi = NotHandling
  BY <1>1, <1>2 DEF Entered, Unlocked, HandlingInv
<1>4. /\ \A q \in Queues : pending[q] = 0
      /\ \A u \in Threads : owes[u].step \in {"none", "submit"}
  BY <1>1, <1>2, <1>3 DEF AtRest, Stopped, Quietly
<1>5. ASSUME NEW q \in Queues
      PROVE  /\ tasks[q] = 0 /\ InHands(q) = 0 /\ toAdd[q] = Size(queue[q])
             /\ \A u \in Threads : owes[u].queue = q => owes[u].tasks = 0
  <2>1. /\ InHands(q) \in Nat /\ tasks[q] \in Nat /\ toAdd[q] \in Nat /\ Cardinality(WorkOn(q)) \in Nat
        /\ Size(queue[q]) = toAdd[q] + tasks[q] + InHands(q)
        /\ pending[q] = tasks[q] + InHands(q) + Cardinality(WorkOn(q))
        /\ \A u \in Threads : owes[u].queue = q => owes[u].tasks \in Nat /\ owes[u].tasks <= InHands(q)
    BY <1>2, PendingFacts
  <2>2. pending[q] = 0
    BY <1>4
  <2>3. tasks[q] = 0 /\ InHands(q) = 0
    BY <2>1, <2>2
  <2>4. toAdd[q] = Size(queue[q])
    BY <2>1, <2>3
  <2>5. \A u \in Threads : owes[u].queue = q => owes[u].tasks = 0
    BY <2>1, <2>3
  <2>6. QED
    BY <2>3, <2>4, <2>5
<1>6. \A u \in Workers : job[u].at = "idle"
  <2>1. ASSUME NEW u \in Workers, job[u].at # "idle" PROVE FALSE
    <3>1. PICK q \in Queues : pending[q] > 0
      BY <2>1, BusyPending
    <3>2. QED
      BY <1>4, <3>1
  <2>2. QED
    BY <2>1
<1>7. nonIdle' = 0
  <2>1. {u \in Threads : owes[u].step = "active"} = {} /\ {u \in Threads : owes[u].step = "idle"} = {}
    BY <1>4
  <2>2. Owing("active") = 0 /\ Owing("idle") = 0
    BY <2>1, FS_EmptySet DEF Owing
  <2>3. ActiveQueues \subseteq Queues /\ IsFiniteSet(Queues)
    BY <1>2, GraphFacts DEF ActiveQueues, TypeInv
  <2>4. Cardinality(ActiveQueues) \in Nat
    BY <2>3, FS_Subset, FS_CardinalityType
  <2>5. nonIdle = Cardinality(ActiveQueues) - 0 + 0
    BY <1>2, <2>2 DEF CountEquation
  <2>6. QED
    BY <1>1, <2>4, <2>5
<1>8. ~failed'
  BY <1>1, <1>2, <1>4, <1>5
<1>9. ASSUME NEW q \in Queues PROVE IsIdle(q)' /\ running'[q] = 0
  <2>1. queue'[q] = [open |-> {}, work |-> 0, run |-> {}]
    BY <1>1
  <2>2. Size(queue[q])' = 0
    BY <2>1, FS_EmptySet DEF Size
  <2>3. running[q] = 0
    BY <1>1, <1>3 DEF RestInv, RunningRight
  <2>4. QED
    BY <1>1, <1>4, <2>2, <2>3 DEF IsIdle
<1>10. \A u \in Workers : job'[u].at = "idle"
  BY <1>1, <1>2, <1>6
<1>11. QED
  BY <1>1, <1>2, <1>3, <1>4, <1>5, <1>7, <1>8, <1>9, <1>10 DEF Finished

-----------------------------------------------------------------------------
(* The application is done when it has cleaned up, and not before.         *)
LEMMA NotDoneYet ==
  ASSUME SchedulerInv, ~Done, NEW t \in Threads,
         \/ UNCHANGED job
         \/ t \in Workers /\ \A u \in Threads : u # t => job'[u] = job[u]
         \/ \E where \in Places \ {"done"} : Goto(t, where)
  PROVE  ~Done'
<1>1. TypeInv /\ Apps \subseteq Threads /\ Workers \cap Apps = {}
  BY SchedulerAssumption DEF SchedulerInv, Threads
<1>2. CASE UNCHANGED job
  BY <1>2 DEF Done
<1>3. CASE t \in Workers /\ \A u \in Threads : u # t => job'[u] = job[u]
  BY <1>1, <1>3 DEF Done
<1>4. ASSUME NEW where \in Places \ {"done"}, Goto(t, where) PROVE ~Done'
  <2>1. JobMoved(t, where)
    BY <1>1, <1>4, GotoMoves
  <2>2. QED
    BY <1>1, <2>1 DEF Done, JobMoved
<1>5. QED
  BY <1>2, <1>3, <1>4

(* What each step of a thread does to the jobs.                            *)
LEMMA ThreadJobs ==
  ASSUME SchedulerInv, ~Done, NEW t \in Threads,
         \/ Adding(t) \/ HandleIdle(t)
         \/ t \in Workers /\ (NodeActs(t) \/ Work(t))
         \/ t \in Apps /\ (AppActs(t) \/ (AppContinues(t) /\ ~CleanupAfterRun(t)))
  PROVE  ~Done'
<1>0. /\ TypeInv /\ NamesInv /\ Workers \subseteq Threads
      /\ {"finish", "ending", "again", "added", "ready", "stop", "submit", "waitIdle"} \subseteq Places \ {"done"}
  BY DEF SchedulerInv, LayersInv, Threads, Places
<1>1. CASE Adding(t) \/ HandleIdle(t)
  <2>1. UNCHANGED job
    BY <1>1 DEF Adding, PushItem, QueueIdleStateChanged, SubmitTasks, HandleIdle, LeaveHandleIdle, Quit,
       ActivateLayer, PauseQueues, ActivateSource, ResumeQueues, SubmitLayer, Unthrottle, UnthrottleSource,
       Unthrottled, NothingLeftToDo
  <2>2. QED
    BY <2>1, NotDoneYet
<1>2. CASE t \in Workers /\ (NodeActs(t) \/ Work(t))
  <2>1. CASE RunNextTask(t)
    <3>1. \A u \in Threads : u # t => job'[u] = job[u]
      BY <1>0, <2>1, RunNextTaskMoves DEF TakesTask
    <3>2. QED
      BY <1>2, <3>1, NotDoneYet
  <2>2. CASE FinishTask(t)
    <3>1. job' = [job EXCEPT ![t] = Idling]
      BY <2>2 DEF FinishTask
    <3>2. \A u \in Threads : u # t => job'[u] = job[u]
      BY <1>0, <3>1 DEF TypeInv
    <3>3. QED
      BY <1>2, <3>2, NotDoneYet
  <2>3. CASE ~RunNextTask(t) /\ ~FinishTask(t)
    <3>1. UNCHANGED job \/ \E where \in {"finish", "ending", "again"} : Goto(t, where)
      BY <1>2, <2>3 DEF NodeActs, Work, Emit, ProduceSidePacket, UpdateThrottledNodes, Stop, Fail, WorkDone,
         NodeOpened, CloseSource, SourceGoesOn, EndScheduling, ScheduleNodeIfNotThrottled
    <3>2. QED
      BY <1>0, <3>1, NotDoneYet
  <2>4. QED
    BY <2>1, <2>2, <2>3
<1>3. CASE t \in Apps /\ (AppActs(t) \/ (AppContinues(t) /\ ~CleanupAfterRun(t)))
  <2>1. CASE Start(t)
    <3>1. job' = [u \in Threads |-> IF u = t THEN [Idling EXCEPT !.at = "submit"]
                                    ELSE IF u \in Apps THEN [Idling EXCEPT !.at = "ready"] ELSE job[u]]
      BY <2>1 DEF Start
    <3>2. [Idling EXCEPT !.at = "submit"].at # "done" /\ [Idling EXCEPT !.at = "ready"].at # "done"
      BY DEF Idling
    <3>3. PICK j, k : /\ j = [Idling EXCEPT !.at = "submit"] /\ k = [Idling EXCEPT !.at = "ready"]
                      /\ j.at # "done" /\ k.at # "done"
      BY <3>2
    <3>4. \A u \in Apps : job'[u] \in {j, k}
      BY <3>1, <3>3 DEF Threads
    <3>5. QED
      BY <3>3, <3>4 DEF Done
  <2>2. CASE ~Start(t)
    <3>1. UNCHANGED job \/ \E where \in {"added", "ready", "stop", "submit", "waitIdle"} : Goto(t, where)
      BY <1>3, <2>2 DEF AppActs, AppContinues, AddPacket, ClosedAllGraphInputStreams, Pause, Cancel, AskUntilIdle,
         SubmitAfter, AddedPacketToGraphInputStream, CloseAllSourceNodes, Resume, WaitUntilIdle
    <3>2. QED
      BY <1>0, <3>1, NotDoneYet
  <2>3. QED
    BY <2>1, <2>2
<1>4. QED
  BY <1>1, <1>2, <1>3

(* When it is done only threads that had no more tasks to submit go on.    *)
LEMMA FinishedStays ==
  ASSUME SchedulerInv, Done, Finished, Next, UNCHANGED graph
  PROVE  Finished' /\ Done'
<1>1. /\ TypeInv /\ Workers \subseteq Threads /\ \A t \in Apps : job[t].at = "done"
      /\ hi.at = "none" /\ Queues' = Queues
  BY Nothing, SameGraph DEF SchedulerInv, AppInv, Threads, Finished
<1>2. ASSUME NEW t \in Threads, SubmitTasks(t) PROVE Finished' /\ Done'
  <2>1. /\ tasks' = [tasks EXCEPT ![owes[t].queue] = @ + owes[t].tasks]
        /\ owes' = [owes EXCEPT ![t] = OwesNothing]
        /\ UNCHANGED <<queue, pending, running, nonIdle, handling, hi, state, job, failed>>
    BY <1>2 DEF SubmitTasks, idleVars
  <2>2. \A q \in Queues : IsIdle(q)' = IsIdle(q)
    BY <2>1, SameIdle
  <2>3. ASSUME NEW q \in Queues PROVE tasks'[q] = 0
    <3>1. tasks[q] = 0 /\ (owes[t].queue = q => owes[t].tasks = 0)
      BY DEF Finished
    <3>2. tasks \in [Queues -> Nat]
      BY <1>1 DEF TypeInv
    <3>3. QED
      BY <2>1, <3>1, <3>2
  <2>4. /\ owes'[t].step = "none" /\ owes'[t].tasks = 0
        /\ \A u \in Threads : u # t => owes'[u] = owes[u]
    BY <1>1, <2>1, Nothing DEF TypeInv
  <2>5. \A u \in Threads : owes'[u].step \in {"none", "submit"} /\ (owes'[u].queue \in Queues => owes'[u].tasks = 0)
    BY <2>4 DEF Finished
  <2>6. QED
    BY <1>1, <2>1, <2>2, <2>3, <2>5 DEF Finished, Done
<1>3. ASSUME NEW t \in Threads PROVE ~PushItem(t) /\ ~QueueIdleStateChanged(t) /\ ~HandleIdle(t)
  <2>1. owes[t].step \in {"none", "submit"}
    BY DEF Finished
  <2>2. ~PushItem(t) /\ ~QueueIdleStateChanged(t)
    BY <2>1 DEF PushItem, QueueIdleStateChanged
  <2>3. ~HandleIdle(t)
    BY <1>1 DEF HandleIdle, LeaveHandleIdle, Quit, ActivateLayer, PauseQueues, ActivateSource, ResumeQueues,
       SubmitLayer, Unthrottle, UnthrottleSource, Unthrottled, NothingLeftToDo, InLoop, Between
  <2>4. QED
    BY <2>2, <2>3
<1>4. ASSUME NEW t \in Workers PROVE ~NodeActs(t) /\ ~Work(t)
  <2>1. job[t].at = "idle" /\ \A q \in Queues : tasks[q] = 0
    BY DEF Finished
  <2>2. ~RunNextTask(t)
    BY <2>1 DEF RunNextTask
  <2>3. QED
    BY <2>1, <2>2 DEF NodeActs, Work, Emit, ProduceSidePacket, UpdateThrottledNodes, Stop, Fail, WorkDone,
       NodeOpened, CloseSource, SourceGoesOn, EndScheduling, ScheduleNodeIfNotThrottled, FinishTask, At
<1>5. ASSUME NEW t \in Apps PROVE ~AppActs(t) /\ ~AppContinues(t)
  BY <1>1 DEF AppActs, AppContinues, AddPacket, ClosedAllGraphInputStreams, Pause, Cancel, AskUntilIdle, Start,
     SubmitAfter, AddedPacketToGraphInputStream, CloseAllSourceNodes, Resume, WaitUntilIdle, CleanupAfterRun, At
<1>6. QED
  BY <1>2, <1>3, <1>4, <1>5 DEF Next, Adding

(* A graph that has not been started is at rest.                           *)
LEMMA RestsInvInit == Init => RestsInv
<1> SUFFICES ASSUME Init PROVE RestsInv
  OBVIOUS
<1>1. SchedulerInv /\ Workers \subseteq Threads /\ Apps \subseteq Threads
  BY SchedulerInvInit DEF Threads
<1>2. /\ state = "not_started" /\ pending = [q \in Queues |-> 0] /\ running = pending
      /\ handling = 0 /\ hi = NotHandling /\ owes = [t \in Threads |-> OwesNothing]
      /\ hi.at = "none" /\ \A t \in Threads : owes[t].step = "none"
  BY Nothing DEF Init
<1>3. \A t \in Apps : job[t].at \in {"start", "later"}
  <2>1. PICK j, k : j = [Idling EXCEPT !.at = "start"] /\ k = [Idling EXCEPT !.at = "later"]
    OBVIOUS
  <2>2. PICK starter \in Apps :
          job = [t \in Threads |-> IF t = starter THEN j ELSE IF t \in Apps THEN k ELSE Idling]
    BY <2>1 DEF Init
  <2>3. j.at = "start" /\ k.at = "later"
    BY <2>1 DEF Idling
  <2>4. QED
    BY <1>1, <2>2, <2>3
<1>4. ~Done
  BY <1>3 DEF Done
<1>5. \A t \in Threads : ~Calls(t) /\ ~Waits(t)
  BY <1>2 DEF Calls, Waits
<1>6. RunningRight /\ Entered
  BY <1>2, <1>3 DEF RunningRight, Entered
<1>7. Callers /\ Apart
  BY <1>1, <1>5 DEF Callers, Apart
<1>8. AtRest
  BY <1>2 DEF AtRest, Quietly
<1>9. Grounded
  BY <1>1, <1>5 DEF Grounded
<1>10. QED
  BY <1>4, <1>6, <1>7, <1>8, <1>9 DEF RestsInv, RestInv

(* Every step preserves the invariant.                                     *)
LEMMA RestsInvNext ==
  SchedulerInv /\ SchedulerInv' /\ RestsInv /\ [Next /\ UNCHANGED graph]_<<vars, graph>> => RestsInv'
<1> SUFFICES ASSUME SchedulerInv, SchedulerInv', RestsInv, [Next /\ UNCHANGED graph]_<<vars, graph>> PROVE RestsInv'
  OBVIOUS
<1>0. UNCHANGED graph
  OBVIOUS
<1>1. SUFFICES ASSUME OneApp, Unraced PROVE IF Done' THEN Finished' ELSE RestInv'
  <2>1. OneApp' = OneApp /\ Unraced' = Unraced
    BY <1>0 DEF OneApp, Unraced, OneQueue, Ops, Queues, Sources
  <2>2. QED
    BY <2>1 DEF RestsInv
<1>2. CASE Next /\ Done
  BY <1>0, <1>1, <1>2, FinishedStays DEF RestsInv
<1>3. CASE Next /\ ~Done
  <2>1. RestInv
    BY <1>1, <1>3 DEF RestsInv
  <2>2. ASSUME NEW t \in Threads, Adding(t) \/ HandleIdle(t) PROVE ~Done' /\ RestInv'
    <3>1. ~Done'
      BY <1>3, <2>2, ThreadJobs
    <3>2. RestInv'
      BY <1>0, <1>1, <1>3, <2>1, <2>2, PushItemRests, QueueIdleStateChangedRests, SubmitTasksRests, HandleIdleRests
         DEF Adding
    <3>3. QED
      BY <3>1, <3>2
  <2>3. ASSUME NEW t \in Workers, NodeActs(t) \/ Work(t) PROVE ~Done' /\ RestInv'
    <3>1. ~Done'
      BY <1>3, <2>3, ThreadJobs DEF Threads
    <3>2. RestInv'
      BY <1>0, <1>1, <1>3, <2>1, <2>3, NodeRests, WorkRests
    <3>3. QED
      BY <3>1, <3>2
  <2>4. ASSUME NEW t \in Apps, AppActs(t) \/ AppContinues(t), ~CleanupAfterRun(t) PROVE ~Done' /\ RestInv'
    <3>1. ~Done'
      BY <1>3, <2>4, ThreadJobs DEF Threads
    <3>2. RestInv'
      BY <1>0, <1>1, <1>3, <2>1, <2>4, AddPacketRests, WaitRests, AppCallsRests, SubmitAfterRests, PauseRests,
         StartRests DEF AppActs, AppContinues
    <3>3. QED
      BY <3>1, <3>2
  <2>5. ASSUME NEW t \in Apps, CleanupAfterRun(t) PROVE Done' /\ Finished'
    <3>1. Finished'
      BY <1>0, <1>1, <1>3, <2>1, <2>5, CleanupFinishes
    <3>2. [Idling EXCEPT !.at = "done"].at = "done"
      BY DEF Idling
    <3>3. PICK j : j = [Idling EXCEPT !.at = "done"] /\ j.at = "done"
      BY <3>2
    <3>4. job'[t] = j
      BY <2>5, <3>3 DEF CleanupAfterRun, Threads
    <3>5. QED
      BY <3>1, <3>3, <3>4 DEF Done
  <2>6. QED
    BY <1>3, <2>2, <2>3, <2>4, <2>5 DEF Next
<1>4. CASE UNCHANGED <<vars, graph>>
  <2>1. /\ UNCHANGED <<graph, queue, toAdd, pending, running, tasks, nonIdle, handling, hi, state>>
        /\ UNCHANGED <<job, owes, failed, closed, hasError>> /\ Queues' = Queues /\ Sources' = Sources /\ Ops' = Ops
    BY <1>4, SameGraph DEF vars, queueVars, idleVars, sourceVars, flagVars, Ops
  <2>2. Done' = Done
    BY <2>1 DEF Done
  <2>3. Finished' = Finished
    BY <2>1 DEF Finished, IsIdle, Size
  <2>4. RunningRight' = RunningRight /\ Entered' = Entered
    BY <2>1 DEF RunningRight, Entered
  <2>5. Callers' = Callers /\ AtRest' = AtRest
    BY <2>1 DEF Callers, Calls, Inside, MayCall, AtRest, Stopped, Switching, OneQueue, Quietly
  <2>6. Apart' = Apart /\ Grounded' = Grounded
    BY <2>1 DEF Apart, Grounded, Waits, Inside
  <2>7. QED
    BY <1>1, <2>2, <2>3, <2>4, <2>5, <2>6 DEF RestsInv, RestInv
<1>5. QED
  BY <1>2, <1>3, <1>4

(* It holds in every run.                                                  *)
LEMMA RestsAlways == Spec => [](SchedulerInv /\ RestsInv)
<1>1. Init => SchedulerInv /\ RestsInv
  BY SchedulerInvInit, RestsInvInit
<1>2. SchedulerInv /\ RestsInv /\ [Next /\ UNCHANGED graph]_<<vars, graph>> => (SchedulerInv /\ RestsInv)'
  BY SchedulerInvNext, RestsInvNext
<1>3. QED
  BY <1>1, <1>2, PTL DEF Spec

(* When the scheduler has quit no node runs and no executor has a task     *)
(* (scheduler.cc, Quit: "All calls to Calculator::Process() have           *)
(* returned"), for one application and a graph without the races that      *)
(* Unraced excludes.                                                       *)
THEOREM QuitsAtRestUnraced == Spec => [](OneApp /\ Unraced => QuitsAtRest)
<1>1. SchedulerInv /\ RestsInv => (OneApp /\ Unraced => QuitsAtRest)
  <2> SUFFICES ASSUME SchedulerInv, RestsInv, OneApp, Unraced, state = "terminated" PROVE QuitsAtRest
    BY DEF QuitsAtRest
  <2>1. CASE Done
    <3>1. Finished
      BY <2>1 DEF RestsInv
    <3>2. QED
      BY <3>1 DEF Finished, QuitsAtRest, Busy
  <2>2. CASE ~Done
    <3>1. RestInv /\ TypeInv /\ Ledger /\ \A q \in Queues : pending[q] = 0
      BY <2>2 DEF RestsInv, RestInv, AtRest, Stopped, SchedulerInv
    <3>2. ASSUME NEW t \in Workers, job[t].at # "idle" PROVE FALSE
      <4>1. PICK q \in Queues : pending[q] > 0
        BY <2>2, <3>2, BusyPending
      <4>2. QED
        BY <3>1, <4>1
    <3>3. ASSUME NEW q \in Queues PROVE tasks[q] = 0
      <4>1. /\ InHands(q) \in Nat /\ tasks[q] \in Nat /\ Cardinality(WorkOn(q)) \in Nat
            /\ pending[q] = tasks[q] + InHands(q) + Cardinality(WorkOn(q))
        BY <3>1, PendingFacts
      <4>2. pending[q] = 0
        BY <3>1
      <4>3. QED
        BY <4>1, <4>2
    <3>4. QED
      BY <3>2, <3>3 DEF QuitsAtRest, Busy
  <2>3. QED
    BY <2>1, <2>2
<1>2. QED
  BY <1>1, RestsAlways, PTL

(* After such a run the counters that Reset leaves alone are as they were, *)
(* and the queues are empty and stopped (scheduler.cc, CleanupAfterRun).   *)
THEOREM RunsLeaveNothingBehind == Spec => [](OneApp /\ Unraced => LeavesNothingBehind)
<1>1. SchedulerInv /\ RestsInv => (OneApp /\ Unraced => LeavesNothingBehind)
  BY DEF RestsInv, LeavesNothingBehind, Done, Finished
<1>2. QED
  BY <1>1, RestsAlways, PTL

(* In such a run the count stays right and no CHECK fails to the end: not  *)
(* the one of CleanupAfterRun either, that no queue has pending tasks      *)
(* (scheduler_queue.cc, CleanupAfterRun).                                  *)
THEOREM CleanupFindsNothingPending == Spec => [](OneApp /\ Unraced => CountIsRight)
<1>1. SchedulerInv /\ RestsInv => (OneApp /\ Unraced => CountIsRight)
  <2> SUFFICES ASSUME SchedulerInv, RestsInv, OneApp, Unraced, Done PROVE CountIsRight
    BY DEF SchedulerInv
  <2>1. Finished
    BY DEF RestsInv
  <2>2. ActiveQueues = {} /\ \A step \in {"active", "idle"} : {t \in Threads : owes[t].step = step} = {}
    BY <2>1 DEF Finished, ActiveQueues
  <2>3. Cardinality(ActiveQueues) = 0 /\ Owing("active") = 0 /\ Owing("idle") = 0
    BY <2>2, FS_EmptySet DEF Owing
  <2>4. QED
    BY <2>1, <2>3, CountParts DEF CountEquation, Finished
<1>2. QED
  BY <1>1, RestsAlways, PTL

(* Only WaitUntilIdle ends the wait of the only application.               *)
LEMMA WaitEnds ==
  ASSUME SchedulerInv, OneApp, Next, NEW t \in Apps, job[t].at = "waitIdle", job'[t].at = "ready", ~Done
  PROVE  WaitUntilIdle(t)
<1>1. /\ TypeInv /\ NamesInv /\ Workers \subseteq Threads /\ t \in Threads /\ t \notin Workers
      /\ {"finish", "ending", "again"} \subseteq Places
  BY SchedulerAssumption DEF SchedulerInv, LayersInv, Threads, Places
<1>2. job'[t] # job[t]
  BY "waitIdle" # "ready"
<1>3. ASSUME NEW u \in Threads PROVE ~Adding(u) /\ ~HandleIdle(u)
  BY <1>2 DEF Adding, PushItem, QueueIdleStateChanged, SubmitTasks, HandleIdle, LeaveHandleIdle, Quit,
     ActivateLayer, PauseQueues, ActivateSource, ResumeQueues, SubmitLayer, Unthrottle, UnthrottleSource,
     Unthrottled, NothingLeftToDo
<1>4. ASSUME NEW u \in Workers PROVE ~NodeActs(u) /\ ~Work(u)
  <2>1. u # t /\ u \in Threads
    BY <1>1
  <2>2. ~RunNextTask(u)
    <3>1. SUFFICES ASSUME RunNextTask(u) PROVE FALSE
      OBVIOUS
    <3>2. job'[t] = job[t]
      BY <1>1, <2>1, <3>1, RunNextTaskMoves DEF TakesTask
    <3>3. QED
      BY <1>2, <3>2
  <2>3. ~FinishTask(u)
    BY <1>1, <1>2, <2>1 DEF FinishTask, TypeInv
  <2>4. ASSUME NEW where \in {"finish", "ending", "again"} PROVE ~Goto(u, where)
    <3>1. Goto(u, where) => JobMoved(u, where)
      BY <1>1, <2>1, GotoMoves
    <3>2. QED
      BY <1>1, <1>2, <2>1, <3>1 DEF JobMoved
  <2>5. QED
    BY <1>2, <2>2, <2>3, <2>4 DEF NodeActs, Work, Emit, ProduceSidePacket, UpdateThrottledNodes, Stop, Fail,
       WorkDone, NodeOpened, CloseSource, SourceGoesOn, EndScheduling, ScheduleNodeIfNotThrottled
<1>5. PICK u \in Apps : AppActs(u) \/ AppContinues(u)
  BY <1>3, <1>4 DEF Next
<1>6. u = t
  BY DEF OneApp
<1>7. /\ ~AddPacket(t) /\ ~ClosedAllGraphInputStreams(t) /\ ~Pause(t) /\ ~Cancel(t) /\ ~AskUntilIdle(t)
      /\ ~Start(t) /\ ~SubmitAfter(t) /\ ~AddedPacketToGraphInputStream(t) /\ ~CloseAllSourceNodes(t)
      /\ ~Resume(t) /\ ~CleanupAfterRun(t)
  BY DEF AddPacket, ClosedAllGraphInputStreams, Pause, Cancel, AskUntilIdle, Start, SubmitAfter,
     AddedPacketToGraphInputStream, CloseAllSourceNodes, Resume, CleanupAfterRun, At
<1>8. QED
  BY <1>5, <1>6, <1>7 DEF AppActs, AppContinues

(* WaitUntilIdle returns when every queue is idle, under the conditions    *)
(* that scheduler.cc, lines 273-279, puts on it: the graph has no sources, *)
(* and no other thread of the application adds packets meanwhile.          *)
THEOREM WaitsUntilIdle ==
  Spec /\ OneApp /\ Unraced /\ Sources = {} => IdleWhenTold
<1> DEFINE Premise == OneApp /\ Unraced /\ Sources = {}
           Told == \A t \in Apps : job[t].at = "waitIdle" /\ job'[t].at = "ready" => \A q \in Queues : IsIdle(q)
<1>1. Premise /\ UNCHANGED graph => Premise'
  BY DEF OneApp, Unraced, OneQueue, Ops, Queues, Sources
<1>2. SchedulerInv /\ RestsInv /\ Premise /\ [Next /\ UNCHANGED graph]_<<vars, graph>> => [Told]_vars
  <2> SUFFICES ASSUME SchedulerInv, RestsInv, Premise, Next, NEW t \in Apps,
                      job[t].at = "waitIdle", job'[t].at = "ready"
               PROVE  \A q \in Queues : IsIdle(q)
    OBVIOUS
  <2>1. ~Done
    BY DEF SchedulerInv, AppInv
  <2>2. RestInv /\ TypeInv /\ HandlingInv /\ Entered
    BY <2>1 DEF RestsInv, RestInv, SchedulerInv, LayersInv
  <2>3. WaitUntilIdle(t)
    BY <2>1, WaitEnds
  <2>4. Free(t) /\ Unlocked /\ nonIdle = 0 /\ owes[t].step = "none"
    BY <2>3, Nothing DEF WaitUntilIdle, At, Free
  <2>5. hi.at = "none"
    BY <2>2, <2>4 DEF Entered, Unlocked
  <2>6. \A u \in Threads : ~Inside(u)
    BY <2>5 DEF Inside
  <2>7. \A u \in Apps : ~Calls(u)
    BY <2>4 DEF Calls, OneApp
  <2>8. QED
    BY <2>1, <2>2, <2>4, <2>6, <2>7, ZeroIsIdle
<1>3. Premise /\ [Next /\ UNCHANGED graph]_<<vars, graph>> => Premise'
  <2>1. CASE UNCHANGED <<vars, graph>>
    BY <1>1, <2>1
  <2>2. CASE Next /\ UNCHANGED graph
    BY <1>1, <2>2
  <2> HIDE DEF Premise
  <2>3. QED
    BY <2>1, <2>2
<1>4. [][Told]_vars => IdleWhenTold
  BY DEF IdleWhenTold
<1> HIDE DEF Premise, Told
<1>5. Spec /\ Premise => [][Told]_vars
  BY <1>2, <1>3, RestsAlways, PTL DEF Spec
<1>6. QED
  BY <1>4, <1>5 DEF Premise

=============================================================================
