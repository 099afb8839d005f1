--------------------------- MODULE CalculatorNode ---------------------------
(***************************************************************************)
(* One node of a running graph: framework/calculator_node.cc,              *)
(* input_stream_handler.cc (a single sync set, as DefaultInputStreamHandler*)
(* has, no batching, no late preparation), calculator_context_manager.cc,  *)
(* output_stream_handler.cc and InOrderOutputStreamHandler.                *)
(*                                                                         *)
(* Any number of threads enter the node: one per input stream, which adds  *)
(* packets and then notifies, and the workers, which run invocations of    *)
(* the calculator and afterwards look for more.  Whoever finds the node    *)
(* unattended becomes its scheduler (SchedulingLoop); whoever finds the    *)
(* outputs unattended propagates them (PropagationLoop).  Both roles are   *)
(* handed over by flags, never by waiting.                                 *)
(***************************************************************************)
EXTENDS OutputStreamManager, FiniteSets

CONSTANTS
  Nodes,     \* the nodes considered: their number of input streams, in_flight
             \* being max_in_flight_, bounds process_timestamps_, and offset
             \* whether the calculator called SetOffset(0); workers are the
             \* threads of its executor
  AllWorkers,   \* the threads there are to run invocations
  FedTimes   \* the timestamps packets are fed at

ASSUME CalculatorNodeAssumption ==
  /\ Nodes # {}
  /\ Nodes \subseteq [streams : Nat \ {0}, inFlight : Nat \ {0}, bounds : BOOLEAN,
                     offset : BOOLEAN, workers : SUBSET AllWorkers]
  /\ \A n \in Nodes : AllWorkers \cap (1 .. n.streams) = {} /\ n.workers # {}
  /\ IsFiniteSet(AllWorkers)
  /\ FedTimes \subseteq PreStream .. PostStream

VARIABLE node   \* the one of Nodes that runs

Streams == 1 .. node.streams
Workers == node.workers   \* the threads that run invocations
MaxInFlight == node.inFlight
ProcessTimestampBounds == node.bounds
OffsetEnabled == node.offset

Threads == Streams \cup Workers
Parallel == MaxInFlight > 1   \* calculator_run_in_parallel_

VARIABLES
  feed,       \* what was fed to each stream: its bound and its packets
  strm,       \* the input stream managers
  status,     \* status_: "prepared", "opened", "closed"
  sched,      \* scheduling_state_: "idle", "scheduling", "pending"
  inFlight,   \* current_in_flight_
  prepared,   \* prepared_context_for_close_
  lastTs,     \* last_processed_ts_ of the sync set
  active,     \* active_contexts_, by input timestamp
  tasks,      \* invocations in the scheduler queue (Done: CloseNode)
  pc, arg,    \* where a thread is, and the timestamp it works on
  loop,       \* the locals of the thread in SchedulingLoop
  completed,  \* completed_input_timestamps_
  taskBound,  \* task_timestamp_bound_
  prop,       \* propagation_state_: "idle", "packets", "bound", "pending"
  pr,         \* the locals of the thread in PropagationLoop
  shards,     \* what the finished invocations wrote
  manager,    \* the output stream
  mirror,     \* its reader
  inputs,     \* history: the streams with a packet in each input set
  failed      \* a CHECK of the code failed, or a stream reported an error

inputVars == <<feed, strm, lastTs, inputs, prepared>>
schedVars == <<status, sched, inFlight, loop, tasks>>
outputVars == <<completed, taskBound, prop, pr, shards, manager, mirror, active>>
vars == <<inputVars, schedVars, outputVars, pc, arg, failed>>

NoLoop == [at |-> "none", left |-> 0, next |-> 1, bound |-> Done, packet |-> Done]

Init ==
  /\ node \in Nodes
  /\ feed = [i \in Streams |-> [bound |-> PreStream, sent |-> {}]]
  /\ strm = [i \in Streams |-> NewStream(-1)]
  /\ status = "prepared" /\ sched = "idle" /\ inFlight = 0 /\ prepared = FALSE
  /\ lastTs = Unset /\ active = {} /\ tasks = {}
  /\ \E opener \in Workers :
       pc = [t \in Threads |-> IF t = opener THEN "open" ELSE "idle"]
  /\ arg = [t \in Threads |-> Unset]
  /\ loop = NoLoop
  /\ completed = {} /\ taskBound = Unset /\ prop = "idle"
  /\ pr = [at |-> "none", ts |-> Unset]
  /\ shards = << >>
  /\ manager = NewManager /\ mirror = NewStream(-1)
  /\ inputs = << >>
  /\ failed = FALSE

Earliest(S) == CHOOSE t \in S : \A u \in S : t <= u
Goto(t, where) == pc' = [pc EXCEPT ![t] = where]
Check(condition) == failed' = (failed \/ ~condition)

-----------------------------------------------------------------------------
(* The threads that feed the streams: an upstream node keeps its promises. *)

Fed(i, r, bound, packets) ==
  /\ pc[i] = "idle"
  /\ strm' = [strm EXCEPT ![i] = r.stream]
  /\ feed' = [feed EXCEPT ![i] = [bound |-> bound, sent |-> @.sent \cup packets]]
  /\ IF r.notify THEN Goto(i, "notify") ELSE UNCHANGED pc
  /\ Check(r.ok)
  /\ UNCHANGED <<lastTs, inputs, prepared, schedVars, outputVars, arg>>

FeedPacket(i) ==
  \E t \in FedTimes :
    /\ t >= feed[i].bound /\ (t = PostStream => feed[i].sent = {})
    /\ Fed(i, AddPackets(strm[i], <<t>>), NextAllowedInStream(t), {t})

FeedBound(i) ==
  \E b \in FedTimes \cup {Done} :
    /\ b > feed[i].bound
    /\ Fed(i, SetNextTimestampBound(strm[i], b), b, {})

-----------------------------------------------------------------------------
(* Becoming the scheduler.                                                 *)

(* OpenNode ends; NodeOpened then looks at what came in before.            *)
OpenNode(t) ==
  /\ pc[t] = "open"
  /\ status' = "opened"
  /\ Goto(t, "notify")
  /\ UNCHANGED <<inputVars, sched, inFlight, loop, tasks, outputVars, arg, failed>>

(* A notification finds another thread scheduling and is forgotten.        *)
(* Mutant of CheckIfBecameReady.                                           *)
ForgetIfScheduling(t) ==
  /\ pc[t] = "notify"
  /\ IF status = "opened" /\ sched = "idle" /\ inFlight < MaxInFlight
       THEN sched' = "scheduling" /\ loop' = [NoLoop EXCEPT !.at = "enter"] /\ Goto(t, "loop")
       ELSE UNCHANGED <<sched, loop>> /\ Goto(t, "idle")
  /\ UNCHANGED <<inputVars, status, inFlight, tasks, outputVars, arg, failed>>

CheckIfBecameReady(t) ==
  /\ pc[t] = "notify"
  /\ IF status = "opened" /\ sched = "idle" /\ inFlight < MaxInFlight
       THEN sched' = "scheduling" /\ loop' = [NoLoop EXCEPT !.at = "enter"] /\ Goto(t, "loop")
       ELSE /\ sched' = IF status = "opened" /\ sched = "scheduling" THEN "pending" ELSE sched
            /\ Goto(t, "idle") /\ UNCHANGED loop
  /\ UNCHANGED <<inputVars, status, inFlight, tasks, outputVars, arg, failed>>

EndScheduling(t) ==
  /\ pc[t] = "end"
  /\ IF status = "closed" THEN Goto(t, "idle") /\ UNCHANGED <<sched, inFlight, loop, failed>>
     ELSE /\ inFlight' = inFlight - 1
          /\ Check(inFlight > 0)
          /\ IF sched = "idle"
               THEN sched' = "scheduling" /\ loop' = [NoLoop EXCEPT !.at = "enter"] /\ Goto(t, "loop")
               ELSE sched' = "pending" /\ Goto(t, "idle") /\ UNCHANGED loop
  /\ UNCHANGED <<inputVars, status, tasks, outputVars, arg>>

-----------------------------------------------------------------------------
(* SchedulingLoop.  loop.at is the next step; the streams are read one by  *)
(* one, each under its own lock, while packets go on arriving.             *)

In(t, at) == pc[t] = "loop" /\ loop.at = at

Reading(left) ==
  [at |-> IF left > 0 THEN "read" ELSE "leave", left |-> left, next |-> 1,
   bound |-> Done, packet |-> Done]

EnterLoop(t) ==
  /\ In(t, "enter")
  /\ IF status = "closed"
       THEN sched' = "idle" /\ loop' = NoLoop /\ Goto(t, "idle")
       ELSE loop' = Reading(MaxInFlight - inFlight) /\ UNCHANGED <<sched, pc>>
  /\ UNCHANGED <<inputVars, status, inFlight, tasks, outputVars, arg, failed>>

(* GetReadiness collects the earliest bound of the empty streams and the   *)
(* earliest packet of the others.                                          *)
ReadStream(t) ==
  LET s == strm[loop.next]
      m == MinTimestampOrBound(s)
  IN  /\ In(t, "read")
      /\ loop' = [loop EXCEPT !.at = IF loop.next = node.streams THEN "decide" ELSE "read",
                              !.next = @ + 1,
                              !.bound = IF IsEmptyStream(s) THEN Earlier(@, m) ELSE @,
                              !.packet = IF IsEmptyStream(s) THEN @ ELSE Earlier(@, m)]
      /\ UNCHANGED <<inputVars, status, sched, inFlight, tasks, outputVars, pc, arg, failed>>

(* A packet is processed as soon as one stream has it.  Mutant of ReadyAt. *)
ReadyTooSoon(bound, packet) == IF packet < OneOverPostStream THEN packet ELSE Unset

(* The timestamp to process, from the two minima, or Unset.                *)
ReadyAt(bound, packet) ==
  LET settled == IF packet = PostStream /\ bound > packet THEN packet
                 ELSE PreviousAllowedInStream(bound)
  IN  IF ~ProcessTimestampBounds THEN (IF bound > packet THEN packet ELSE Unset)
      ELSE IF Earlier(packet, settled) > Later(lastTs, Unstarted)
             THEN Earlier(packet, settled) ELSE Unset

ReadyForClose == Earlier(loop.bound, loop.packet) >= OneOverPostStream

(* The context is prepared, its input set filled from every stream, and    *)
(* the invocation put into the scheduler queue (AddNode, which counts it). *)
ScheduleProcess(t) ==
  LET ts == ReadyAt(loop.bound, loop.packet)
      popped == [i \in Streams |-> PopPacketAtTimestamp(strm[i], ts)]
  IN  /\ In(t, "decide") /\ ~ReadyForClose /\ ts # Unset
      /\ lastTs' = ts
      /\ strm' = [i \in Streams |-> popped[i].stream]
      /\ inputs' = [u \in DOMAIN inputs \cup {ts} |->
                      IF u = ts THEN {i \in Streams : popped[i].found} ELSE inputs[u]]
      /\ active' = IF Parallel THEN active \cup {ts} ELSE active
      /\ tasks' = tasks \cup {ts}
      /\ inFlight' = inFlight + 1
      /\ loop' = Reading(loop.left - 1)
      /\ Check(/\ inFlight < MaxInFlight
               /\ ts \notin active
               /\ \A i \in Streams : popped[i].ok /\ popped[i].dropped = 0)
      /\ UNCHANGED <<feed, prepared, status, sched, completed, taskBound, prop, pr, shards,
                     manager, mirror, pc, arg>>

(* Without the test for active contexts.  Mutant of MayPrepareClose.       *)
MayPrepareCloseTwice == ~prepared

MayPrepareClose == active = {} /\ ~prepared

ScheduleClose(t) ==
  /\ In(t, "decide") /\ ReadyForClose
  /\ lastTs' = PreviousAllowedInStream(Done)
  /\ IF MayPrepareClose
       THEN tasks' = tasks \cup {Done} /\ inFlight' = inFlight + 1 /\ prepared' = TRUE
            /\ Check(inFlight < MaxInFlight)
       ELSE UNCHANGED <<tasks, inFlight, prepared, failed>>
  /\ loop' = Reading(0)
  /\ UNCHANGED <<feed, strm, inputs, status, sched, outputVars, pc, arg>>

NotReady(t) ==
  /\ In(t, "decide") /\ ~ReadyForClose /\ ReadyAt(loop.bound, loop.packet) = Unset
  /\ loop' = [Reading(0) EXCEPT !.at = "update", !.bound = Earlier(loop.bound, loop.packet)]
  /\ UNCHANGED <<inputVars, status, sched, inFlight, tasks, outputVars, pc, arg, failed>>

(* The loop ends although a notification came in.  Mutant of LeaveLoop.    *)
LeaveLoopAnyway(t) ==
  /\ In(t, "leave")
  /\ sched' = "idle" /\ loop' = NoLoop /\ Goto(t, "idle")
  /\ UNCHANGED <<inputVars, status, inFlight, tasks, outputVars, arg, failed>>

LeaveLoop(t) ==
  /\ In(t, "leave")
  /\ IF sched = "pending" /\ inFlight < MaxInFlight
       THEN sched' = "scheduling" /\ loop' = Reading(MaxInFlight - inFlight) /\ UNCHANGED pc
       ELSE sched' = "idle" /\ loop' = NoLoop /\ Goto(t, "idle")
  /\ UNCHANGED <<inputVars, status, inFlight, tasks, outputVars, arg, failed>>

-----------------------------------------------------------------------------
(* PropagationLoop, entered with timestamp_mutex_ held.  done and bound    *)
(* are what completed_input_timestamps_ and task_timestamp_bound_ become   *)
(* in the step that enters; the thread goes on at back when there is       *)
(* nothing, or nothing more, to propagate.                                 *)

Back(t) == IF loop.at = "update" /\ pc[t] \in {"loop", "loopProp"} THEN "loop" ELSE "end"
Propagating(t) == IF pc[t] = "loop" THEN "loopProp" ELSE "postProp"

(* Where the thread returns to; in the loop it has then only to leave.     *)
Return(t) ==
  /\ Goto(t, Back(t))
  /\ loop' = IF Back(t) = "loop" THEN [loop EXCEPT !.at = "leave"] ELSE loop

(* Whatever has finished is sent.  Mutant of EnterPropagation.             *)
EnterOutOfOrder(t, done, bound) ==
  IF prop # "idle"
    THEN /\ prop' = IF prop = "bound" THEN "pending" ELSE prop
         /\ Return(t) /\ UNCHANGED <<pr, failed>>
    ELSE IF done # {}
      THEN /\ prop' = "packets" /\ pr' = [at |-> "send", ts |-> Earliest(done)]
           /\ Goto(t, Propagating(t)) /\ UNCHANGED <<loop, failed>>
      ELSE Return(t) /\ UNCHANGED <<prop, pr, failed>>

EnterPropagation(t, done, bound) ==
  IF prop # "idle"
    THEN /\ prop' = IF prop = "bound" THEN "pending" ELSE prop
         /\ Return(t) /\ UNCHANGED <<pr, failed>>
    ELSE IF active = {}
      THEN /\ prop' = "bound" /\ pr' = [at |-> "test", ts |-> bound]
           /\ Goto(t, Propagating(t)) /\ UNCHANGED <<loop, failed>>
    ELSE IF done # {} /\ Earliest(done) = Earliest(active)
      THEN /\ prop' = "packets" /\ pr' = [at |-> "send", ts |-> Earliest(active)]
           /\ Goto(t, Propagating(t)) /\ UNCHANGED <<loop, failed>>
      ELSE /\ Check(done = {} \/ Earliest(active) < Earliest(done))
           /\ Return(t) /\ UNCHANGED <<prop, pr>>

(* UpdateTaskTimestampBound, called by the scheduler.                      *)
UpdateTaskTimestampBound(t) ==
  /\ In(t, "update")
  /\ IF ~Parallel
       THEN /\ prop' = "bound" /\ pr' = [at |-> "test", ts |-> loop.bound]
            /\ Goto(t, "loopProp") /\ UNCHANGED <<loop, taskBound, failed>>
     ELSE IF taskBound = loop.bound THEN Return(t) /\ UNCHANGED <<prop, pr, taskBound, failed>>
     ELSE IF loop.bound < taskBound
       THEN failed' = TRUE /\ Return(t) /\ UNCHANGED <<prop, pr, taskBound>>
       ELSE taskBound' = loop.bound /\ EnterPropagation(t, completed, loop.bound)
  /\ UNCHANGED <<inputVars, status, sched, inFlight, tasks, completed, shards, manager, mirror,
                 active, arg>>

Sends(bound, packets) ==
  LET r == Mirrored(mirror, bound, packets)
  IN  /\ manager' = Propagated(manager, bound)
      /\ mirror' = r.stream
      /\ Check(r.ok)

(* PropagateOutputPackets for the shard of the invocation at ts.           *)
SendShard(ts) ==
  Sends(ComputeOutputTimestampBound(shards[ts], ts, OffsetEnabled), IF shards[ts].adds THEN <<ts>> ELSE << >>)

Prop(t, state, at) == pc[t] \in {"loopProp", "postProp"} /\ prop \in state /\ pr.at = at

PropagatePackets(t) ==
  /\ Prop(t, {"packets"}, "send")
  /\ SendShard(pr.ts)
  /\ pr' = [pr EXCEPT !.at = "recycle"]
  /\ UNCHANGED <<inputVars, schedVars, completed, taskBound, prop, shards, active, pc, arg>>

RecycleContext(t) ==
  /\ Prop(t, {"packets"}, "recycle")
  /\ active' = active \ {Earliest(active)}
  /\ pr' = [pr EXCEPT !.at = "relock"]
  /\ UNCHANGED <<inputVars, schedVars, completed, taskBound, prop, shards, manager, mirror,
                 pc, arg, failed>>

(* The mutex is taken again: go on with the next finished invocation, with *)
(* the bound, or stop.                                                     *)
AfterPackets(t) ==
  LET done == completed \ {Earliest(completed)}
  IN  /\ Prop(t, {"packets"}, "relock")
      /\ completed' = done
      /\ IF done = {} /\ active = {} /\ taskBound > NextAllowedInStream(pr.ts)
           THEN prop' = "bound" /\ pr' = [at |-> "test", ts |-> taskBound] /\ UNCHANGED <<pc, loop>>
         ELSE IF active # {} /\ done # {} /\ Earliest(active) = Earliest(done)
           THEN pr' = [at |-> "send", ts |-> Earliest(done)] /\ UNCHANGED <<prop, pc, loop>>
           ELSE prop' = "idle" /\ Return(t) /\ UNCHANGED pr
      /\ Check(active # {} \/ done = {})
      /\ UNCHANGED <<inputVars, status, sched, inFlight, tasks, taskBound, shards, manager,
                     mirror, active, arg>>

(* TryPropagateTimestampBound: the test and the propagation are separate.  *)
TestBound(t) ==
  /\ Prop(t, {"bound", "pending"}, "test")
  /\ pr' = [pr EXCEPT !.at = IF OffsetEnabled /\ IsRangeValue(pr.ts) /\ ~manager.closed
                                /\ pr.ts > manager.bound THEN "send" ELSE "relock"]
  /\ UNCHANGED <<inputVars, schedVars, completed, taskBound, prop, shards, manager, mirror,
                 active, pc, arg, failed>>

PropagateBound(t) ==
  /\ Prop(t, {"bound", "pending"}, "send")
  /\ Sends(pr.ts, << >>)
  /\ pr' = [pr EXCEPT !.at = "relock"]
  /\ UNCHANGED <<inputVars, schedVars, completed, taskBound, prop, shards, active, pc, arg>>

AfterBound(t) ==
  /\ Prop(t, {"bound", "pending"}, "relock")
  /\ IF prop = "pending" /\ active = {}
       THEN /\ Check(pr.ts < taskBound)
            /\ prop' = "bound" /\ pr' = [at |-> "test", ts |-> taskBound] /\ UNCHANGED <<pc, loop>>
     ELSE IF prop = "pending" /\ completed # {} /\ Earliest(completed) = Earliest(active)
       THEN /\ prop' = "packets" /\ pr' = [at |-> "send", ts |-> Earliest(active)]
            /\ UNCHANGED <<pc, loop, failed>>
       ELSE prop' = "idle" /\ Return(t) /\ UNCHANGED <<pr, failed>>
  /\ UNCHANGED <<inputVars, status, sched, inFlight, tasks, completed, taskBound, shards,
                 manager, mirror, active, arg>>

-----------------------------------------------------------------------------
(* A worker: RunNextTask, ProcessNode, CloseNode.                          *)

RunNextTask(t) ==
  \E ts \in tasks :
    /\ pc[t] = "idle"
    /\ tasks' = tasks \ {ts}
    /\ arg' = [arg EXCEPT ![t] = ts]
    /\ Goto(t, IF ts = Done THEN "close" ELSE "process")
    /\ Check(status # "closed")
    /\ UNCHANGED <<inputVars, status, sched, inFlight, loop, outputVars>>

(* PrepareOutputs and Process, which may add a packet.                     *)
ProcessNode(t) ==
  \E adds \in BOOLEAN :
    /\ pc[t] = "process"
    /\ shards' = [u \in DOMAIN shards \cup {arg[t]} |->
                    IF u = arg[t] THEN Shard(manager, adds) ELSE shards[u]]
    /\ Goto(t, "post")
    /\ UNCHANGED <<inputVars, schedVars, completed, taskBound, prop, pr, manager, mirror,
                   active, arg, failed>>

PostProcess(t) ==
  /\ pc[t] = "post"
  /\ IF Parallel
       THEN /\ completed' = completed \cup {arg[t]}
            /\ EnterPropagation(t, completed', taskBound)
            /\ UNCHANGED <<manager, mirror>>
       ELSE SendShard(arg[t]) /\ Goto(t, "end") /\ UNCHANGED <<completed, prop, pr, loop>>
  /\ UNCHANGED <<inputVars, status, sched, inFlight, tasks, taskBound, shards, active, arg>>

(* CloseNode: the input streams are closed, Close is called, the output    *)
(* stream gets its end and is closed, and then the status changes.         *)
CloseInputStreams(t) ==
  /\ pc[t] = "close"
  /\ strm' = [i \in Streams |-> CloseStream(strm[i])]
  /\ Goto(t, "closeOutputs")
  /\ Check(status # "closed")
  /\ UNCHANGED <<feed, lastTs, inputs, prepared, schedVars, outputVars, arg>>

CloseOutputStreams(t) ==
  /\ pc[t] = "closeOutputs"
  /\ mirror' = SetNextTimestampBound(mirror, Done).stream
  /\ manager' = [manager EXCEPT !.bound = Done]
  /\ Goto(t, "closeManager")
  /\ UNCHANGED <<inputVars, schedVars, completed, taskBound, prop, pr, shards, active, arg, failed>>

CloseManager(t) ==
  /\ pc[t] = "closeManager"
  /\ manager' = ClosedManager
  /\ mirror' = SetNextTimestampBound(mirror, Done).stream
  /\ Goto(t, "closed")
  /\ UNCHANGED <<inputVars, schedVars, completed, taskBound, prop, pr, shards, active, arg, failed>>

Closed(t) ==
  /\ pc[t] = "closed"
  /\ status' = "closed"
  /\ Goto(t, "end")
  /\ UNCHANGED <<inputVars, sched, inFlight, loop, tasks, outputVars, arg, failed>>

-----------------------------------------------------------------------------

Schedule(t) ==
  \/ CheckIfBecameReady(t) \/ EnterLoop(t) \/ ReadStream(t) \/ ScheduleProcess(t)
  \/ ScheduleClose(t) \/ NotReady(t) \/ UpdateTaskTimestampBound(t) \/ LeaveLoop(t)

Propagate(t) ==
  \/ PropagatePackets(t) \/ RecycleContext(t) \/ AfterPackets(t)
  \/ TestBound(t) \/ PropagateBound(t) \/ AfterBound(t)

Work(t) ==
  \/ OpenNode(t) \/ RunNextTask(t) \/ ProcessNode(t) \/ PostProcess(t) \/ EndScheduling(t)
  \/ CloseInputStreams(t) \/ CloseOutputStreams(t) \/ CloseManager(t) \/ Closed(t)

Next ==
  \/ \E i \in Streams : FeedPacket(i) \/ FeedBound(i)
  \/ \E t \in Threads : Schedule(t) \/ Propagate(t)
  \/ \E t \in Workers : Work(t)

Spec == Init /\ [][Next /\ UNCHANGED node]_<<vars, node>>

AllThreads == AllWorkers \cup UNION {1 .. n.streams : n \in Nodes}

(* Threads that are running go on running; upstream need not feed more.    *)
FairSpec ==
  /\ Spec
  /\ \A t \in AllThreads : WF_vars(t \in Threads /\ (Schedule(t) \/ Propagate(t)))
  /\ \A t \in AllWorkers : WF_vars(t \in Workers /\ Work(t))

-----------------------------------------------------------------------------

(* The CHECKs of the node, of the two handlers and of the scheduler queue  *)
(* hold, and no stream refuses what it is given: whatever the threads do,  *)
(* the packets and the bounds of the output leave in the order of time.    *)
NoCheckFails == ~failed

(* An input set holds every packet that is ever sent with its timestamp:   *)
(* a node is not run before its inputs for that time have been decided,    *)
(* although their arrival is seen one stream at a time.                    *)
InputSetsComplete ==
  \A ts \in DOMAIN inputs : inputs[ts] = {i \in Streams : ts \in feed[i].sent}

(* Nobody is in the node and nothing is on its way to a worker.            *)
AtRest == tasks = {} /\ (\A t \in Threads : pc[t] = "idle")

EarliestOf(S) == IF S = {} THEN Done ELSE Earliest(S)

BoundNow == EarliestOf({MinTimestampOrBound(strm[i]) : i \in {j \in Streams : IsEmptyStream(strm[j])}})
PacketNow == EarliestOf({Head(strm[i].queue) : i \in {j \in Streams : ~IsEmptyStream(strm[j])}})

(* No wake-up is lost: an opened node at rest has nothing left that it     *)
(* could run, although a notification that finds the scheduler or the      *)
(* limit of invocations in its way does nothing but leave a mark.          *)
NothingStranded ==
  AtRest /\ status = "opened" =>
    /\ Earlier(BoundNow, PacketNow) < OneOverPostStream
    /\ ReadyAt(BoundNow, PacketNow) = Unset
    /\ inFlight = 0 /\ sched = "idle"

(* The packet at ts was sent on, or the invocation for it sent nothing.    *)
HasLeft(ts) ==
  \/ ts \in ToSet(mirror.queue)
  \/ ts \in DOMAIN shards /\ ~shards[ts].adds /\ ts \notin active

Filter == INSTANCE InOrderFilter
            WITH Packets <- FedTimes,
                 inside <- IF Cardinality(Streams) = 1
                             THEN SetToSortSeq({ts \in feed[1].sent : ~HasLeft(ts)}, <)
                             ELSE << >>,
                 results <- IF Cardinality(Streams) = 1 THEN mirror.queue ELSE << >>

(* A node with one input stream is a filter: however many invocations run  *)
(* at once and in whatever order they end, the packets leave it in the     *)
(* order in which they came in, each once.                                 *)
FiltersInOrder == Filter!FilterSpec

(* Once every input stream has ended, the node closes and its reader       *)
(* learns of it.                                                           *)
Closes == (\A i \in Streams : feed[i].bound = Done) ~> (status = "closed" /\ mirror.bound = Done)
=============================================================================
