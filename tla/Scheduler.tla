------------------------------ MODULE Scheduler ------------------------------
(***************************************************************************)
(* framework/scheduler.cc and scheduler_queue.cc: the queues that hand     *)
(* invocations to their executors, and the scheduler that watches whether  *)
(* all of them are idle, starts the layers of source nodes one after the   *)
(* other, lets throttled sources go on and decides when a run has ended.   *)
(*                                                                         *)
(* A queue holds the OpenNode and the Process invocations of sources and a *)
(* number of invocations of other nodes.  What a node does when it runs is *)
(* anything it may do: make more nodes ready, stop the graph, fail.        *)
(*                                                                         *)
(* Adding an item takes several steps that other threads may come between  *)
(* (owes[t]): the error flag is read, the item is pushed under the lock of *)
(* the queue, the scheduler is told that the queue is active, the executor *)
(* gets its task.  state_mutex_ is held from the call of HandleIdle until  *)
(* it unlocks it or returns (Unlocked).  Setting all queues running, or    *)
(* submitting their waiting tasks, takes one lock after the other in the   *)
(* code and is one step here.                                              *)
(***************************************************************************)
EXTENDS Integers, FiniteSets

CONSTANTS
  Workers, Apps,
  AllSources,    \* the source nodes of all graphs
  Graphs         \* the graphs that are run, and what happens in their runs

AllOps == {"feed", "close", "pause", "cancel", "waitIdle", "fail", "stop", "throttle"}

ASSUME SchedulerAssumption ==
  /\ Workers \cap Apps = {}
  /\ IsFiniteSet(Workers) /\ IsFiniteSet(Apps) /\ IsFiniteSet(AllSources)
  /\ \A g \in Graphs :
       /\ g.queues # {} /\ IsFiniteSet(g.queues)
       /\ g.sources \subseteq AllSources /\ g.late \subseteq g.sources
       /\ g.layer \in [g.sources -> Nat] /\ g.queueOf \in [g.sources -> g.queues]
       /\ g.openers \in [g.queues -> Nat] /\ g.hasInputs \in BOOLEAN
       /\ g.ops \subseteq AllOps /\ g.maxEmits \in Nat

Threads == Workers \cup Apps

VARIABLES
  graph,     \* which of the graphs it is
  state,     \* state_
  closed,    \* graph_input_streams_closed_
  stopping, hasError,   \* of SchedulerShared
  nonIdle,   \* non_idle_queue_count_
  handling,  \* handling_idle_
  hi,        \* the thread inside HandleIdle, where it is, what is left
  queue,     \* queue_: items to open, to work on, sources to run
  toAdd, pending, running,   \* num_tasks_to_add_, num_pending_tasks_, running_count_
  tasks,     \* what the executors have been given
  src,       \* "unopened", "opening", "ready" (sources_queue_), "active", "closed"
  inFlight,  \* the sources with an invocation in flight
  throttled, \* the throttled sources
  job,       \* what each thread is doing
  owes,      \* the AddItemToQueue or idle callback it is in
  emits,     \* items added and pauses so far
  failed     \* a CHECK failed

Queues == graph.queues
Sources == graph.sources
Layer == graph.layer         \* [Sources -> Nat]: source_layer
QueueOf == graph.queueOf     \* [Sources -> Queues]
Late == graph.late           \* sources whose side packets come from another node
Openers == graph.openers     \* [Queues -> Nat]: other nodes opened at the start
HasInputs == graph.hasInputs \* the graph has input streams
Ops == graph.ops             \* what applications and nodes do
MaxEmits == graph.maxEmits   \* bound on the items added, and on pauses

queueVars == <<queue, toAdd, pending, running, tasks>>
idleVars == <<nonIdle, handling, hi, state>>
sourceVars == <<src, inFlight, throttled>>
flagVars == <<closed, stopping, hasError>>
vars == <<queueVars, idleVars, sourceVars, flagVars, job, owes, emits, failed>>

Idling == [at |-> "idle", queue |-> "none", source |-> "none"]
OwesNothing == [step |-> "none", queue |-> "none", kind |-> "none", source |-> "none", tasks |-> 0]
NotHandling == [by |-> "none", at |-> "none", left |-> {}, then |-> OwesNothing]

Early(q) == {s \in Sources \ Late : QueueOf[s] = q}
Size(c) == Cardinality(c.open) + c.work + Cardinality(c.run)
IsIdle(q) == Size(queue[q]) = 0 /\ pending[q] = 0

(* PrepareForRun has reset the scheduler and scheduled the nodes that can  *)
(* be opened.                                                              *)
Init ==
  /\ graph \in Graphs
  /\ state = "not_started" /\ closed = ~HasInputs /\ stopping = FALSE /\ hasError = FALSE
  /\ queue = [q \in Queues |-> [open |-> Early(q), work |-> Openers[q], run |-> {}]]
  /\ toAdd = [q \in Queues |-> Size(queue[q])]
  /\ nonIdle = Cardinality({q \in Queues : toAdd[q] > 0})
  /\ pending = [q \in Queues |-> 0] /\ running = pending /\ tasks = pending
  /\ handling = 0 /\ hi = NotHandling
  /\ src = [s \in Sources |-> IF s \in Late THEN "unopened" ELSE "opening"]
  /\ inFlight = {} /\ throttled = {}
  /\ \E starter \in Apps :
       job = [t \in Threads |-> IF t = starter THEN [Idling EXCEPT !.at = "start"]
                                ELSE IF t \in Apps THEN [Idling EXCEPT !.at = "later"] ELSE Idling]
  /\ owes = [t \in Threads |-> OwesNothing]
  /\ emits = 0 /\ failed = FALSE

Unlocked == hi.at # "loop"
Free(t) == owes[t] = OwesNothing /\ hi.by # t
At(t, where) == job[t].at = where /\ Free(t)
Goto(t, where) == job' = [job EXCEPT ![t].at = where]
Check(condition) == failed' = (failed \/ ~condition)

SetQueuesRunning(on) == running' = [q \in Queues |-> running[q] + (IF on THEN 1 ELSE -1)]

(* Whoever calls it first handles the idle state; the others leave a mark. *)
(* next is what the caller has still to do afterwards.                     *)
CallHandleIdle(t, next) ==
  /\ handling' = handling + 1
  /\ IF handling = 0
       THEN /\ hi' = [by |-> t, at |-> "loop", left |-> {}, then |-> next]
            /\ owes' = [owes EXCEPT ![t] = OwesNothing]
       ELSE owes' = [owes EXCEPT ![t] = next] /\ UNCHANGED hi

ReturnFromHandleIdle ==
  /\ handling' = 0 /\ hi' = NotHandling
  /\ owes' = [owes EXCEPT ![hi.by] = hi.then]

-----------------------------------------------------------------------------
(* AddNode, AddNodeForOpen and AddItemToQueue.                             *)

AddItem(t, q, kind, s) ==
  owes' = IF hasError THEN owes
          ELSE [owes EXCEPT ![t] = [step |-> "push", queue |-> q, kind |-> kind,
                                    source |-> s, tasks |-> 0]]

AddSource(t, s) == AddItem(t, QueueOf[s], "run", s)

Pushed(c, kind, s) ==
  [open |-> IF kind = "open" THEN c.open \cup {s} ELSE c.open,
   work |-> IF kind = "work" THEN c.work + 1 ELSE c.work,
   run |-> IF kind = "run" THEN c.run \cup {s} ELSE c.run]

(* TryToBeginScheduling fails for a source that has an invocation already. *)
PushItem(t) ==
  LET o == owes[t]
      q == o.queue
      wasIdle == IsIdle(q)
      submit == IF running[q] > 0 THEN toAdd[q] + 1 ELSE 0
  IN  /\ o.step = "push"
      /\ IF o.kind = "run" /\ o.source \in inFlight
           THEN owes' = [owes EXCEPT ![t] = OwesNothing] /\ UNCHANGED <<queueVars, inFlight>>
           ELSE /\ inFlight' = IF o.kind = "run" THEN inFlight \cup {o.source} ELSE inFlight
                /\ queue' = [queue EXCEPT ![q] = Pushed(@, o.kind, o.source)]
                /\ toAdd' = [toAdd EXCEPT ![q] = IF submit > 0 THEN 0 ELSE @ + 1]
                /\ pending' = [pending EXCEPT ![q] = @ + submit]
                /\ owes' = [owes EXCEPT ![t].step = IF wasIdle THEN "active" ELSE "submit",
                                        ![t].tasks = submit]
                /\ UNCHANGED <<running, tasks>>
      /\ UNCHANGED <<idleVars, flagVars, src, throttled, job, emits, failed>>

(* QueueIdleStateChanged.                                                  *)
QueueIdleStateChanged(t) ==
  /\ Unlocked
  /\ owes[t].step \in {"active", "idle"}
  /\ nonIdle' = nonIdle + (IF owes[t].step = "idle" THEN -1 ELSE 1)
  /\ LET next == IF owes[t].step = "idle" THEN OwesNothing ELSE [owes[t] EXCEPT !.step = "submit"]
     IN  IF nonIdle' = 0 THEN CallHandleIdle(t, next)
         ELSE owes' = [owes EXCEPT ![t] = next] /\ UNCHANGED <<handling, hi>>
  /\ UNCHANGED <<queueVars, state, sourceVars, flagVars, job, emits, failed>>

SubmitTasks(t) ==
  /\ owes[t].step = "submit"
  /\ tasks' = [tasks EXCEPT ![owes[t].queue] = @ + owes[t].tasks]
  /\ owes' = [owes EXCEPT ![t] = OwesNothing]
  /\ UNCHANGED <<queue, toAdd, pending, running, idleVars, sourceVars, flagVars, job, emits, failed>>

(* SubmitWaitingTasksOnQueues.                                             *)
SubmitWaiting ==
  LET submit == [q \in Queues |-> IF running[q] > 0 THEN toAdd[q] ELSE 0]
  IN  /\ toAdd' = [q \in Queues |-> toAdd[q] - submit[q]]
      /\ pending' = [q \in Queues |-> pending[q] + submit[q]]
      /\ tasks' = [q \in Queues |-> tasks[q] + submit[q]]
      /\ UNCHANGED <<queue, running>>

-----------------------------------------------------------------------------
(* HandleIdle, with state_mutex_ held in "loop".                           *)

InLoop(t) == hi.by = t /\ hi.at = "loop"
(* Whether a queue is active is not asked.  Mutant of Handles.             *)
HandlesBusy == state \in {"running", "cancelling"}

Handles == nonIdle = 0 /\ state \in {"running", "cancelling"}

Active == {s \in Sources : src[s] = "active"}
Ready == {s \in Sources : src[s] = "ready"}
Unopened == {s \in Sources : src[s] \in {"unopened", "opening"}}

(* All layers at once.  Mutant of NextLayer.                               *)
EveryLayer == Ready

(* The sources of the lowest layer in sources_queue_.                      *)
NextLayer == {s \in Ready : \A r \in Ready : Layer[s] <= Layer[r]}
BlockedByUnopened == \E u \in Unopened : \A s \in NextLayer : Layer[u] < Layer[s]

MayQuit == hasError \/ (Active = {} /\ Ready = {} /\ closed)

LeaveOrRepeat ==
  IF handling > 1 THEN handling' = 1 /\ hi' = [hi EXCEPT !.at = "loop"] /\ UNCHANGED owes
  ELSE ReturnFromHandleIdle

LeaveHandleIdle(t) ==
  /\ InLoop(t) /\ ~Handles
  /\ ReturnFromHandleIdle
  /\ UNCHANGED <<queueVars, nonIdle, state, sourceVars, flagVars, job, emits, failed>>

(* The queues go on running.  Mutant of Quit.                              *)
QuitRunning(t) ==
  /\ InLoop(t) /\ Handles /\ MayQuit
  /\ state' = "terminated" /\ ReturnFromHandleIdle
  /\ UNCHANGED <<queueVars, nonIdle, sourceVars, flagVars, job, emits, failed>>

Quit(t) ==
  /\ InLoop(t) /\ Handles /\ MayQuit
  /\ SetQueuesRunning(FALSE)
  /\ state' = "terminated" /\ ReturnFromHandleIdle
  /\ UNCHANGED <<queue, toAdd, pending, tasks, nonIdle, sourceVars, flagVars, job, emits, failed>>

(* TryToScheduleNextSourceLayer.  It returns false when a source of a      *)
(* lower layer is not open, and the loop goes round.                       *)
ActivateLayer(t) ==
  /\ InLoop(t) /\ Handles /\ ~MayQuit /\ Active = {} /\ Ready # {}
  /\ IF BlockedByUnopened
       THEN hasError' = closed /\ UNCHANGED <<src, hi>>
       ELSE /\ src' = [s \in Sources |-> IF s \in NextLayer THEN "active" ELSE src[s]]
            /\ hi' = [hi EXCEPT !.at = "pause", !.left = NextLayer]
            /\ UNCHANGED hasError
  /\ UNCHANGED <<queueVars, nonIdle, handling, state, inFlight, throttled, closed, stopping,
                 job, owes, emits, failed>>

Between(t, at) == hi.by = t /\ hi.at = at /\ owes[t] = OwesNothing

PauseQueues(t) ==
  /\ Between(t, "pause")
  /\ SetQueuesRunning(FALSE)
  /\ hi' = [hi EXCEPT !.at = "activate"]
  /\ UNCHANGED <<queue, toAdd, pending, tasks, nonIdle, handling, state, sourceVars, flagVars,
                 job, owes, emits, failed>>

ActivateSource(t) ==
  \E s \in hi.left :
    /\ Between(t, "activate")
    /\ hi' = [hi EXCEPT !.left = @ \ {s}]
    /\ IF s \in throttled THEN UNCHANGED owes ELSE AddSource(t, s)
    /\ UNCHANGED <<queueVars, nonIdle, handling, state, sourceVars, flagVars, job, emits, failed>>

ResumeQueues(t) ==
  /\ Between(t, "activate") /\ hi.left = {}
  /\ SetQueuesRunning(TRUE)
  /\ hi' = [hi EXCEPT !.at = "submit"]
  /\ UNCHANGED <<queue, toAdd, pending, tasks, nonIdle, handling, state, sourceVars, flagVars,
                 job, owes, emits, failed>>

SubmitLayer(t) ==
  /\ Between(t, "submit")
  /\ SubmitWaiting
  /\ hi' = [hi EXCEPT !.at = "loop"]
  /\ UNCHANGED <<nonIdle, handling, state, sourceVars, flagVars, job, owes, emits, failed>>

(* The graph lets its throttled sources go on (UnthrottleSources).         *)
Unthrottle(t) ==
  /\ InLoop(t) /\ Handles /\ ~MayQuit /\ Active # {}
  /\ hi' = [hi EXCEPT !.at = IF throttled = {} THEN "repeat" ELSE "unthrottle", !.left = throttled]
  /\ UNCHANGED <<queueVars, nonIdle, handling, state, sourceVars, flagVars, job, owes, emits, failed>>

UnthrottleSource(t) ==
  \E s \in hi.left :
    /\ Between(t, "unthrottle")
    /\ hi' = [hi EXCEPT !.left = @ \ {s}]
    /\ throttled' = throttled \ {s}
    /\ IF s \in throttled /\ src[s] = "active" THEN AddSource(t, s) ELSE UNCHANGED owes
    /\ UNCHANGED <<queueVars, nonIdle, handling, state, src, inFlight, flagVars, job, emits, failed>>

Unthrottled(t) ==
  /\ Between(t, "unthrottle") /\ hi.left = {}
  /\ hi' = [hi EXCEPT !.at = "loop"]
  /\ UNCHANGED <<queueVars, nonIdle, handling, state, sourceVars, flagVars, job, owes, emits, failed>>

NothingLeftToDo(t) ==
  /\ \/ InLoop(t) /\ Handles /\ ~MayQuit /\ Active = {} /\ Ready = {}
     \/ Between(t, "repeat")
  /\ LeaveOrRepeat
  /\ UNCHANGED <<queueVars, nonIdle, state, sourceVars, flagVars, job, emits, failed>>

HandleIdle(t) ==
  \/ LeaveHandleIdle(t) \/ Quit(t) \/ ActivateLayer(t) \/ PauseQueues(t) \/ ActivateSource(t)
  \/ ResumeQueues(t) \/ SubmitLayer(t) \/ Unthrottle(t) \/ UnthrottleSource(t)
  \/ Unthrottled(t) \/ NothingLeftToDo(t)

-----------------------------------------------------------------------------
(* A worker: RunNextTask.                                                  *)

(* The item with the highest priority: to open, then other nodes, then     *)
(* sources of the lowest layer.                                            *)
First(c) ==
  IF c.open # {} THEN {[at |-> "open", source |-> s, rest |-> [c EXCEPT !.open = @ \ {s}]] : s \in c.open}
  ELSE IF c.work > 0 THEN {[at |-> "work", source |-> "none", rest |-> [c EXCEPT !.work = @ - 1]]}
  ELSE {[at |-> "run", source |-> s, rest |-> [c EXCEPT !.run = @ \ {s}]] :
          s \in {r \in c.run : \A u \in c.run : Layer[r] <= Layer[u]}}

RunNextTask(t) ==
  \E q \in Queues :
    /\ At(t, "idle") /\ tasks[q] > 0
    /\ tasks' = [tasks EXCEPT ![q] = @ - 1]
    /\ Check(Size(queue[q]) > 0)
    /\ IF Size(queue[q]) = 0 THEN UNCHANGED <<queue, job>>
       ELSE \E i \in First(queue[q]) :
              /\ queue' = [queue EXCEPT ![q] = i.rest]
              /\ job' = [job EXCEPT ![t] = [at |-> i.at, queue |-> q, source |-> i.source]]
    /\ UNCHANGED <<toAdd, pending, running, idleVars, sourceVars, flagVars, owes, emits>>

(* What a node does while it runs: make another node ready, ...            *)
Emit(t) ==
  \E q \in Queues, s \in SUBSET Sources :
    /\ \E where \in {"open", "work", "run"} : At(t, where)
    /\ emits < MaxEmits /\ emits' = emits + 1
    /\ s \subseteq {job[t].source} /\ (s # {} => "throttle" \in Ops /\ job[t].at = "run")
    /\ AddItem(t, q, "work", "none")
    /\ throttled' = throttled \cup s
    /\ UNCHANGED <<queueVars, idleVars, src, inFlight, flagVars, job, failed>>

(* ... produce the side packet a source waits for, ...                     *)
ProduceSidePacket(t) ==
  \E s \in Sources :
    /\ At(t, "work") /\ src[s] = "unopened" /\ ~hasError
    /\ src' = [src EXCEPT ![s] = "opening"]
    /\ AddItem(t, QueueOf[s], "open", s)
    /\ UNCHANGED <<queueVars, idleVars, inFlight, throttled, flagVars, job, emits, failed>>

(* ... take packets from a full queue, ...                                 *)
UpdateThrottledNodes(t) ==
  \E s \in throttled :
    /\ At(t, "work")
    /\ throttled' = throttled \ {s}
    /\ IF src[s] = "active" THEN AddSource(t, s) ELSE UNCHANGED owes
    /\ UNCHANGED <<queueVars, idleVars, src, inFlight, flagVars, job, emits, failed>>

(* ... stop the graph, or fail.                                            *)
Stop(t) ==
  /\ "stop" \in Ops /\ At(t, "work")
  /\ stopping' = TRUE
  /\ UNCHANGED <<queueVars, idleVars, sourceVars, closed, hasError, job, owes, emits, failed>>

(* A source that fails is not closed: it is scheduled again, in vain.      *)
Fail(t) ==
  /\ "fail" \in Ops
  /\ \/ At(t, "work") /\ Goto(t, "finish")
     \/ At(t, "open") /\ Goto(t, "finish")
     \/ At(t, "run") /\ Goto(t, "ending")
  /\ hasError' = TRUE
  /\ UNCHANGED <<queueVars, idleVars, sourceVars, closed, stopping, owes, emits, failed>>

WorkDone(t) ==
  /\ At(t, "work") /\ Goto(t, "finish")
  /\ UNCHANGED <<queueVars, idleVars, sourceVars, flagVars, owes, emits, failed>>

(* NodeOpened: AddNodeToSourcesQueue.                                      *)
NodeOpened(t) ==
  /\ At(t, "open") /\ Unlocked
  /\ src' = [src EXCEPT ![job[t].source] = "ready"]
  /\ Goto(t, "finish")
  /\ UNCHANGED <<queueVars, idleVars, inFlight, throttled, flagVars, owes, emits, failed>>

(* A source closes when it has nothing more, or when the graph stops.      *)
CloseSource(t, s) ==
  /\ At(t, "run") /\ job[t].source = s
  /\ src' = [src EXCEPT ![s] = "closed"]
  /\ Goto(t, "finish")
  /\ UNCHANGED <<queueVars, idleVars, inFlight, throttled, flagVars, owes, emits, failed>>

SourceGoesOn(t) ==
  /\ At(t, "run") /\ ~stopping
  /\ Goto(t, "ending")
  /\ UNCHANGED <<queueVars, idleVars, sourceVars, flagVars, owes, emits, failed>>

(* A throttled source is still counted as in flight.  Mutant of            *)
(* EndScheduling.                                                          *)
EndSchedulingLate(t) ==
  /\ At(t, "ending")
  /\ inFlight' = IF job[t].source \in throttled THEN inFlight ELSE inFlight \ {job[t].source}
  /\ Goto(t, "again")
  /\ UNCHANGED <<queueVars, idleVars, src, throttled, flagVars, owes, emits, failed>>

EndScheduling(t) ==
  /\ At(t, "ending")
  /\ inFlight' = inFlight \ {job[t].source}
  /\ Goto(t, "again")
  /\ UNCHANGED <<queueVars, idleVars, src, throttled, flagVars, owes, emits, failed>>

ScheduleNodeIfNotThrottled(t) ==
  /\ At(t, "again")
  /\ IF job[t].source \in throttled THEN UNCHANGED owes ELSE AddSource(t, job[t].source)
  /\ Goto(t, "finish")
  /\ UNCHANGED <<queueVars, idleVars, sourceVars, flagVars, emits, failed>>

(* A queue counts as idle when it is empty.  Mutant of FinishTask.         *)
FinishWhenEmpty(t) ==
  LET q == job[t].queue
  IN  /\ At(t, "finish")
      /\ pending' = [pending EXCEPT ![q] = @ - 1]
      /\ Check(pending[q] > 0)
      /\ owes' = IF Size(queue[q]) = 0 THEN [owes EXCEPT ![t].step = "idle"] ELSE owes
      /\ job' = [job EXCEPT ![t] = Idling]
      /\ UNCHANGED <<queue, toAdd, running, tasks, idleVars, sourceVars, flagVars, emits>>

FinishTask(t) ==
  LET q == job[t].queue
  IN  /\ At(t, "finish")
      /\ pending' = [pending EXCEPT ![q] = @ - 1]
      /\ Check(pending[q] > 0)
      /\ owes' = IF Size(queue[q]) = 0 /\ pending[q] = 1
                   THEN [owes EXCEPT ![t].step = "idle"] ELSE owes
      /\ job' = [job EXCEPT ![t] = Idling]
      /\ UNCHANGED <<queue, toAdd, running, tasks, idleVars, sourceVars, flagVars, emits>>

-----------------------------------------------------------------------------
(* The application.                                                        *)

Start(t) ==
  /\ At(t, "start") /\ Unlocked
  /\ Check(state = "not_started")
  /\ state' = "running"
  /\ SetQueuesRunning(TRUE)
  /\ CallHandleIdle(t, OwesNothing)
  /\ job' = [u \in Threads |-> IF u = t THEN [Idling EXCEPT !.at = "submit"]
                               ELSE IF u \in Apps THEN [Idling EXCEPT !.at = "ready"] ELSE job[u]]
  /\ UNCHANGED <<queue, toAdd, pending, tasks, nonIdle, sourceVars, flagVars, emits>>

SubmitAfter(t) ==
  /\ At(t, "submit")
  /\ SubmitWaiting
  /\ Goto(t, "ready")
  /\ UNCHANGED <<idleVars, sourceVars, flagVars, owes, emits, failed>>

(* AddPacketToInputStream: a node may become ready, and the scheduler is   *)
(* called afterwards.                                                      *)
AddPacket(t) ==
  \E q \in Queues :
    /\ "feed" \in Ops /\ At(t, "ready") /\ ~closed
    /\ emits < MaxEmits /\ emits' = emits + 1
    /\ AddItem(t, q, "work", "none")
    /\ Goto(t, "added")
    /\ UNCHANGED <<queueVars, idleVars, sourceVars, flagVars, failed>>

AddedPacketToGraphInputStream(t) ==
  /\ At(t, "added") /\ Unlocked
  /\ IF state = "terminated" THEN UNCHANGED <<handling, hi, owes>> ELSE CallHandleIdle(t, OwesNothing)
  /\ Goto(t, "ready")
  /\ UNCHANGED <<queueVars, nonIdle, state, sourceVars, flagVars, emits, failed>>

(* CloseAllPacketSources closes the sources as well.                       *)
ClosedAllGraphInputStreams(t) ==
  \E all \in BOOLEAN :
    /\ "close" \in Ops /\ At(t, "ready") /\ Unlocked /\ ~closed
    /\ closed' = TRUE
    /\ CallHandleIdle(t, OwesNothing)
    /\ Goto(t, IF all THEN "stop" ELSE "ready")
    /\ UNCHANGED <<queueVars, nonIdle, state, sourceVars, stopping, hasError, emits, failed>>

CloseAllSourceNodes(t) ==
  /\ At(t, "stop")
  /\ stopping' = TRUE
  /\ Goto(t, "ready")
  /\ UNCHANGED <<queueVars, idleVars, sourceVars, closed, hasError, owes, emits, failed>>

Pause(t) ==
  /\ "pause" \in Ops /\ At(t, "ready") /\ Unlocked /\ state = "running"
  /\ emits < MaxEmits /\ emits' = emits + 1
  /\ state' = "paused"
  /\ SetQueuesRunning(FALSE)
  /\ UNCHANGED <<queue, toAdd, pending, tasks, nonIdle, handling, hi, sourceVars, flagVars, job,
                 owes, failed>>

Resume(t) ==
  /\ At(t, "ready") /\ Unlocked /\ state = "paused"
  /\ state' = "running"
  /\ SetQueuesRunning(TRUE)
  /\ CallHandleIdle(t, OwesNothing)
  /\ Goto(t, "submit")
  /\ UNCHANGED <<queue, toAdd, pending, tasks, nonIdle, sourceVars, flagVars, emits, failed>>

Cancel(t) ==
  /\ "cancel" \in Ops /\ At(t, "ready") /\ Unlocked /\ state \in {"running", "paused"}
  /\ hasError' = TRUE
  /\ IF state = "paused" THEN SetQueuesRunning(TRUE) ELSE UNCHANGED running
  /\ state' = "cancelling"
  /\ CallHandleIdle(t, OwesNothing)
  /\ Goto(t, "submit")
  /\ UNCHANGED <<queue, toAdd, pending, tasks, nonIdle, sourceVars, closed, stopping, emits, failed>>

AskUntilIdle(t) ==
  /\ "waitIdle" \in Ops /\ At(t, "ready") /\ Goto(t, "waitIdle")
  /\ UNCHANGED <<queueVars, idleVars, sourceVars, flagVars, owes, emits, failed>>

(* The first wake-up ends the wait.  Mutant of WaitUntilIdle.              *)
WaitOnce(t) ==
  /\ At(t, "waitIdle") /\ Unlocked
  /\ Goto(t, "ready")
  /\ UNCHANGED <<queueVars, idleVars, sourceVars, flagVars, owes, emits, failed>>

WaitUntilIdle(t) ==
  /\ At(t, "waitIdle") /\ Unlocked /\ nonIdle = 0
  /\ Goto(t, "ready")
  /\ UNCHANGED <<queueVars, idleVars, sourceVars, flagVars, owes, emits, failed>>

(* WaitUntilDone returns and the run is cleaned up.                        *)
CleanupAfterRun(t) ==
  /\ At(t, "ready") /\ Unlocked /\ state = "terminated"
  /\ Check(\A q \in Queues : pending[q] = 0 /\ toAdd[q] = Size(queue[q]))
  /\ nonIdle' = nonIdle - Cardinality({q \in Queues : ~IsIdle(q)})
  /\ queue' = [q \in Queues |-> [open |-> {}, work |-> 0, run |-> {}]]
  /\ toAdd' = [q \in Queues |-> 0]
  /\ job' = [u \in Threads |-> IF u \in Apps THEN [Idling EXCEPT !.at = "done"] ELSE job[u]]
  /\ UNCHANGED <<pending, running, tasks, handling, hi, state, sourceVars, flagVars, owes, emits>>

-----------------------------------------------------------------------------

Adding(t) == PushItem(t) \/ QueueIdleStateChanged(t) \/ SubmitTasks(t)

NodeActs(t) ==
  Emit(t) \/ ProduceSidePacket(t) \/ UpdateThrottledNodes(t) \/ Stop(t) \/ Fail(t)

Work(t) ==
  \/ RunNextTask(t) \/ WorkDone(t) \/ NodeOpened(t) \/ (\E s \in Sources : CloseSource(t, s))
  \/ SourceGoesOn(t) \/ EndScheduling(t) \/ ScheduleNodeIfNotThrottled(t) \/ FinishTask(t)

AppActs(t) ==
  AddPacket(t) \/ ClosedAllGraphInputStreams(t) \/ Pause(t) \/ Cancel(t) \/ AskUntilIdle(t)

AppContinues(t) ==
  \/ Start(t) \/ SubmitAfter(t) \/ AddedPacketToGraphInputStream(t) \/ CloseAllSourceNodes(t)
  \/ Resume(t) \/ WaitUntilIdle(t) \/ CleanupAfterRun(t)

Next ==
  \/ \E t \in Threads : Adding(t) \/ HandleIdle(t)
  \/ \E t \in Workers : NodeActs(t) \/ Work(t)
  \/ \E t \in Apps : AppActs(t) \/ AppContinues(t)

Spec == Init /\ [][Next /\ UNCHANGED graph]_<<vars, graph>>

(* Threads go on with what they have begun; an application that has paused *)
(* the graph resumes it, and waits for the end.  Nothing obliges it to     *)
(* feed, close or cancel, nor a node to do more than return; but a source  *)
(* has only so much to give.                                               *)
FairSpec ==
  /\ Spec
  /\ \A t \in Threads : WF_vars(Adding(t)) /\ WF_vars(HandleIdle(t))
  /\ \A t \in Workers : WF_vars(Work(t))
  /\ \A s \in AllSources : SF_vars(\E t \in Workers : CloseSource(t, s))
  /\ \A t \in Apps : WF_vars(AppContinues(t))

-----------------------------------------------------------------------------

Busy == {t \in Workers : job[t].at # "idle"}

Owing(step) == Cardinality({t \in Threads : owes[t].step = step})

(* The scheduler's count is the number of queues that are not idle, but    *)
(* for the reports that threads still owe: each change of a queue is       *)
(* reported once, by the thread that made it, whichever report comes first *)
(* (scheduler_queue.cc, AddItemToQueue and RunNextTask).  And the CHECKs   *)
(* hold: no task finds its queue empty, the counters of a queue agree, and *)
(* nothing is pending when a run is cleaned up.                            *)
CountIsRight ==
  /\ nonIdle = Cardinality({q \in Queues : ~IsIdle(q)}) - Owing("active") + Owing("idle")
  /\ ~failed

(* "All calls to Calculator::Process() have returned" when the scheduler   *)
(* quits, and none follows.                                                *)
QuitsAtRest == state = "terminated" => Busy = {} /\ \A q \in Queues : tasks[q] = 0

(* WaitUntilIdle returns when nothing can be scheduled and nothing runs,   *)
(* if only its caller could add packets.                                   *)
IdleWhenTold ==
  [][\A t \in Apps : job[t].at = "waitIdle" /\ job'[t].at = "ready" => \A q \in Queues : IsIdle(q)]_vars

(* A source is active only when those of the lower layers have closed.     *)
LayersInTurn ==
  \A s, r \in Sources : src[s] = "active" /\ Layer[r] < Layer[s] => src[r] = "closed"

(* After a run the counters are ready for the next one: Reset does not     *)
(* touch non_idle_queue_count_ or handling_idle_.                          *)
LeavesNothingBehind ==
  (\E t \in Apps : job[t].at = "done") =>
    /\ nonIdle = 0 /\ handling = 0
    /\ \A q \in Queues : IsIdle(q) /\ running[q] = 0

(* A run ends once the inputs have been closed, or an error was recorded:  *)
(* no source is forgotten while it is throttled, no queue while paused.    *)
Terminates == (closed \/ hasError) ~> state = "terminated"

=============================================================================
