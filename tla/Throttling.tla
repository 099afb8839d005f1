------------------------------ MODULE Throttling ------------------------------
(***************************************************************************)
(* How a full queue holds back whoever feeds it: CalculatorGraph's         *)
(* AddPacketToInputStream, UpdateThrottledNodes and UnthrottleSources, the *)
(* queue sizes of framework/input_stream_manager.cc, and the part of       *)
(* framework/scheduler.cc that notices that everyone is waiting.           *)
(*                                                                         *)
(* Every graph input stream has a thread of the application that feeds it. *)
(* It is mirrored into some of the input streams of one node, which takes  *)
(* a packet of each, writes one to every graph output stream and may fail. *)
(* A thread of the application reads the graph output streams.             *)
(*                                                                         *)
(* A stream calls back when it became full or not full, after it has       *)
(* released its lock (calls[t]).  Claiming the node, and reading has_error *)
(* and adding the node to its queue, are steps of their own in modules     *)
(* CalculatorNode and Scheduler and one step here.                         *)
(***************************************************************************)
EXTENDS Integers, FiniteSets

CONSTANTS
  Graphs,         \* the graphs considered, see below
  AllInputs, AllWorkers,   \* the graph input streams and executor threads of all of them
  MaxQueueSize    \* max_queue_size

(* The input streams of a graph, each fed by a thread of the application;  *)
(* for every input stream of the node the graph input stream it mirrors;   *)
(* the threads of the executor; the graph output streams with a poller;    *)
(* whether AddPacketToInputStream waits (WAIT_TILL_NOT_FULL) or returns at *)
(* a full stream (ADD_IF_NOT_FULL); report_deadlock; whether the node may  *)
(* fail; a bound on the packets of every graph input stream.               *)
ASSUME ThrottlingAssumption ==
  /\ MaxQueueSize \in Nat \ {0} /\ IsFiniteSet(AllInputs)
  /\ \A g \in Graphs :
       /\ g.inputs \subseteq AllInputs /\ g.workers \subseteq AllWorkers
       /\ \A s \in DOMAIN g.feeder : g.feeder[s] \in g.inputs
       /\ DOMAIN g.feeder \cap g.outputs = {}
       /\ (DOMAIN g.feeder \cup g.outputs) \cap {"none", "loop", "collect", "grow"} = {}
       /\ {g.wait, g.reportDeadlock, g.canFail} \subseteq BOOLEAN
       /\ g.maxPackets \in [g.inputs -> Nat]

VARIABLE graph   \* the one of Graphs that runs

Inputs == graph.inputs
Feeder == graph.feeder
InStreams == DOMAIN Feeder
Workers == graph.workers
OutStreams == graph.outputs
Wait == graph.wait
ReportDeadlock == graph.reportDeadlock
CanFail == graph.canFail
MaxPackets == graph.maxPackets

Streams == InStreams \cup OutStreams
reader == "reader"
Threads == Inputs \cup Workers \cup {reader}
none == "none"

(* OutputStreamToNode and AncestorSources.                                 *)
Upstream(s) == IF s \in InStreams THEN {Feeder[s]} ELSE Inputs

VARIABLES
  size, max,     \* of every stream's queue
  reported,      \* last_reported_stream_full_
  full,          \* full_input_streams_, of the graph input streams
  count,         \* throttled_graph_input_stream_count_
  seq,           \* unthrottle_seq_num_
  hasError, terminated,
  nonIdle,       \* the scheduler's queue is active
  inFlight,      \* the node has an invocation, being prepared, queued or running
  toPop, queued, \* the streams it has still to be given packets of; it is queued
  closed, sent,  \* the closed graph input streams, the packets added to each
  numClosed, allClosed,   \* num_closed_graph_input_streams_, graph_input_streams_closed_
  pc, left,      \* where a thread is, the streams it has still to go through
  sawSeq,        \* seq_num of a waiting thread
  calls,         \* the stream whose callback a thread is in
  handling,      \* handling_idle_
  hi,            \* the thread in HandleIdle: who, where, streams to grow, new_size
  failed         \* a DCHECK failed

streamVars == <<size, max>>
bookVars == <<reported, full, count, seq>>
nodeVars == <<inFlight, toPop, queued>>
runVars == <<hasError, terminated, nonIdle, nodeVars>>
closeVars == <<closed, numClosed, allClosed>>
appVars == <<closeVars, sent, sawSeq>>
hiVars == <<handling, hi>>
vars == <<streamVars, bookVars, runVars, appVars, pc, left, calls, hiVars, failed>>

NotHandling == [by |-> none, at |-> none, grow |-> {}, size |-> 0]

Init ==
  /\ graph \in Graphs
  /\ size = [s \in Streams |-> 0] /\ max = [s \in Streams |-> MaxQueueSize]
  /\ reported = [s \in Streams |-> FALSE] /\ full = [i \in Inputs |-> {}]
  /\ count = 0 /\ seq = 0 /\ sawSeq = [i \in Inputs |-> 0]
  /\ hasError = FALSE /\ terminated = FALSE /\ nonIdle = FALSE
  /\ inFlight = FALSE /\ toPop = {} /\ queued = FALSE
  /\ closed = {} /\ numClosed = 0 /\ allClosed = FALSE /\ sent = [i \in Inputs |-> 0]
  /\ pc = [t \in Threads |-> "out"] /\ left = [t \in Threads |-> {}]
  /\ calls = [t \in Threads |-> none]
  /\ handling = 0 /\ hi = NotHandling /\ failed = FALSE

(* state_mutex_ is held in HandleIdle, except in UnthrottleSources.        *)
Unlocked == hi.at # "loop"
At(t, where) == pc[t] = where /\ calls[t] = none /\ hi.by # t
Goto(t, where) == pc' = [pc EXCEPT ![t] = where]
IsFull(s) == size[s] >= max[s]

-----------------------------------------------------------------------------
(* InputStreamManager, one critical section of stream_mutex_ each.  The    *)
(* callback follows when the section has changed whether the queue is full.*)

Resize(t, s, newSize, newMax) ==
  /\ size' = [size EXCEPT ![s] = newSize] /\ max' = [max EXCEPT ![s] = newMax]
  /\ calls' = IF IsFull(s) # (newSize >= newMax) THEN [calls EXCEPT ![t] = s] ELSE calls

AddPacket(t, s) == Resize(t, s, size[s] + 1, max[s])
PopPacket(t, s) == Resize(t, s, size[s] - 1, max[s])
SetMaxQueueSize(t, s, m) == Resize(t, s, size[s], m)

(* The change is recomputed under full_input_streams_mutex_: callbacks may *)
(* arrive out of order.                                                    *)
FoundFull(s) == IsFull(s)

(* Counts every stream that fills.  Mutant of Recount.                     *)
RecountAll(after, isFull, up) == count + (IF isFull THEN Cardinality(up) ELSE -Cardinality(up))

(* ThrottledGraphInputStream and UnthrottledGraphInputStream.              *)
Recount(after, isFull, up) ==
  IF isFull THEN count + Cardinality({i \in up : full[i] = {}})
            ELSE count - Cardinality({i \in up : after[i] = {}})

NextSeq(after, isFull, up) ==
  IF isFull THEN seq ELSE seq + Cardinality({i \in up : after[i] = {}})

UpdateThrottledNodes(t) ==
  LET s == calls[t]
      up == Upstream(s)
      isFull == FoundFull(s)
      after == [i \in Inputs |-> IF i \notin up THEN full[i]
                                 ELSE IF isFull THEN full[i] \cup {s} ELSE full[i] \ {s}]
  IN  /\ s # none /\ Unlocked
      /\ calls' = [calls EXCEPT ![t] = none]
      /\ reported' = [reported EXCEPT ![s] = isFull]
      /\ IF reported[s] = isFull THEN UNCHANGED <<full, count, seq, failed>>
         ELSE /\ full' = after
              /\ count' = Recount(after, isFull, up)
              /\ seq' = NextSeq(after, isFull, up)
              /\ failed' = (failed \/ \E i \in up : (s \in full[i]) = isFull)
      /\ UNCHANGED <<streamVars, runVars, appVars, pc, left, hiVars>>

-----------------------------------------------------------------------------
(* HandleIdle: whoever calls it first goes through the loop.               *)

CallHandleIdle(t) ==
  /\ Unlocked /\ handling' = handling + 1
  /\ hi' = IF handling = 0 THEN [NotHandling EXCEPT !.by = t, !.at = "loop"] ELSE hi

(* It was called again meanwhile.                                          *)
StaysInLoop == handling > 1

Return == handling' = 0 /\ hi' = NotHandling

HandleIdle(t) ==
  /\ hi.by = t /\ hi.at = "loop"
  /\ \/ /\ nonIdle \/ terminated
        /\ Return /\ UNCHANGED terminated
     \/ /\ ~nonIdle /\ ~terminated /\ (hasError \/ allClosed)
        /\ terminated' = TRUE /\ Return
     \/ /\ ~nonIdle /\ ~terminated /\ ~hasError /\ ~allClosed /\ count > 0
        /\ hi' = [hi EXCEPT !.at = "collect"] /\ UNCHANGED <<handling, terminated>>
     \/ /\ ~nonIdle /\ ~terminated /\ ~hasError /\ ~allClosed /\ count = 0
        /\ IF StaysInLoop THEN handling' = 1 /\ UNCHANGED hi ELSE Return
        /\ UNCHANGED terminated
  /\ UNCHANGED <<streamVars, bookVars, appVars, hasError, nonIdle, nodeVars, pc, left, calls, failed>>

ToGrow == (UNION {full[i] : i \in Inputs}) \ OutStreams

(* UnthrottleSources collects the full streams under the lock and goes     *)
(* through them without it.  When there are none HandleIdle goes on to ask *)
(* whether it was called again.                                            *)
UnthrottleSources(t) ==
  /\ hi.by = t /\ hi.at = "collect" /\ calls[t] = none
  /\ IF ToGrow # {} THEN hi' = [hi EXCEPT !.at = "grow", !.grow = ToGrow] /\ UNCHANGED handling
     ELSE IF StaysInLoop THEN hi' = [hi EXCEPT !.at = "loop"] /\ handling' = 1
     ELSE Return
  /\ UNCHANGED <<streamVars, bookVars, runVars, appVars, pc, left, calls, failed>>

ReportedDeadlock(t) ==
  /\ hi.by = t /\ hi.at = "grow" /\ hi.grow # {} /\ ReportDeadlock
  /\ hasError' = TRUE /\ hi' = [hi EXCEPT !.grow = {}]
  /\ UNCHANGED <<streamVars, bookVars, terminated, nonIdle, nodeVars, appVars, pc, left,
                 calls, handling, failed>>

ReadQueueSize(t) ==
  /\ hi.by = t /\ hi.at = "grow" /\ hi.size = 0 /\ calls[t] = none /\ ~ReportDeadlock
  /\ \E s \in hi.grow : hi' = [hi EXCEPT !.size = size[s] + 1, !.at = s]
  /\ UNCHANGED <<streamVars, bookVars, runVars, appVars, pc, left, calls, handling, failed>>

Grow(t) ==
  /\ hi.by = t /\ hi.at \in Streams
  /\ SetMaxQueueSize(t, hi.at, hi.size)
  /\ hi' = [hi EXCEPT !.size = 0, !.grow = @ \ {hi.at}, !.at = "grow"]
  /\ UNCHANGED <<bookVars, runVars, appVars, pc, left, handling, failed>>

GrewAll(t) ==
  /\ hi.by = t /\ hi.at = "grow" /\ hi.grow = {} /\ calls[t] = none
  /\ hi' = [hi EXCEPT !.at = "loop"]
  /\ UNCHANGED <<streamVars, bookVars, runVars, appVars, pc, left, calls, handling, failed>>

-----------------------------------------------------------------------------
(* The application feeds its graph input stream.                           *)

Add(i) ==
  /\ At(i, "out") /\ i \notin closed /\ sent[i] < MaxPackets[i]
  /\ Goto(i, "asking")
  /\ UNCHANGED <<streamVars, bookVars, runVars, appVars, left, calls, hiVars, failed>>

Mirrors(i) == {s \in InStreams : Feeder[s] = i}

(* Asks only about errors.  Mutant of Ask.                                 *)
AskForErrors(i) ==
  /\ At(i, "asking") /\ Unlocked
  /\ IF hasError THEN Goto(i, "out") /\ UNCHANGED left
     ELSE Goto(i, "adding") /\ left' = [left EXCEPT ![i] = Mirrors(i)]
  /\ UNCHANGED <<streamVars, bookVars, runVars, appVars, calls, hiVars, failed>>

(* Under full_input_streams_mutex_: an error or, if the caller does not    *)
(* want to wait, a full stream ends the call.  Otherwise the number of the *)
(* last unthrottling is noted before the lock is released.                 *)
Ask(i) ==
  /\ At(i, "asking") /\ Unlocked
  /\ IF hasError \/ (full[i] # {} /\ ~Wait)
       THEN Goto(i, "out") /\ UNCHANGED <<left, sawSeq>>
     ELSE IF full[i] # {}
       THEN Goto(i, "waiting") /\ sawSeq' = [sawSeq EXCEPT ![i] = seq] /\ UNCHANGED left
     ELSE Goto(i, "adding") /\ left' = [left EXCEPT ![i] = Mirrors(i)] /\ UNCHANGED sawSeq
  /\ UNCHANGED <<streamVars, bookVars, runVars, closeVars, sent, calls, hiVars, failed>>

(* Does not notice that the run has ended.  Mutant of WaitUntilUnthrottled. *)
WaitForRoom(i) ==
  /\ At(i, "waiting") /\ Unlocked
  /\ seq # sawSeq[i]
  /\ Goto(i, "asking")
  /\ UNCHANGED <<streamVars, bookVars, runVars, appVars, left, calls, hiVars, failed>>

WaitUntilUnthrottled(i) ==
  /\ At(i, "waiting") /\ Unlocked
  /\ seq # sawSeq[i] \/ terminated
  /\ Goto(i, "asking")
  /\ UNCHANGED <<streamVars, bookVars, runVars, appVars, left, calls, hiVars, failed>>

(* An error that came meanwhile ends the call before the packet is         *)
(* propagated to the mirrors.                                              *)
Propagate(i) ==
  /\ At(i, "adding")
  /\ Goto(i, IF hasError THEN "out" ELSE "feeding")
  /\ UNCHANGED <<streamVars, bookVars, runVars, appVars, left, calls, hiVars, failed>>

Feed(i) ==
  /\ At(i, "feeding")
  /\ \E s \in left[i] : AddPacket(i, s) /\ left' = [left EXCEPT ![i] = @ \ {s}]
  /\ Goto(i, "notify")
  /\ UNCHANGED <<bookVars, runVars, appVars, hiVars, failed>>

(* After the last mirror.  Once the scheduler has stopped it is not told.  *)
Added(i) ==
  /\ At(i, "feeding") /\ left[i] = {}
  /\ sent' = [sent EXCEPT ![i] = @ + 1] /\ Goto(i, "out")
  /\ IF terminated THEN UNCHANGED hiVars ELSE CallHandleIdle(i)
  /\ UNCHANGED <<streamVars, bookVars, runVars, closeVars, sawSeq, left, calls, failed>>

Close(i) ==
  /\ At(i, "out") /\ i \notin closed
  /\ closed' = closed \cup {i} /\ Goto(i, "notify")
  /\ UNCHANGED <<streamVars, bookVars, runVars, numClosed, allClosed, sent, sawSeq, left, calls,
                 hiVars, failed>>

ClosedAllGraphInputStreams(i) ==
  /\ At(i, "closing")
  /\ numClosed' = numClosed + 1 /\ Goto(i, "out")
  /\ IF numClosed' = Cardinality(Inputs) THEN allClosed' = TRUE /\ CallHandleIdle(i)
                                         ELSE UNCHANGED <<allClosed, hiVars>>
  /\ UNCHANGED <<streamVars, bookVars, runVars, closed, sent, sawSeq, left, calls, failed>>

-----------------------------------------------------------------------------
(* The node.                                                               *)

Pending == {s \in InStreams : size[s] > 0}
Ready ==
  /\ Pending # {}
  /\ \A s \in InStreams \ Pending : Feeder[s] \in closed

Resumed(t) == IF t \in Workers THEN "finish" ELSE IF t \in closed THEN "closing" ELSE "feeding"

(* The thread that finds the node ready, be it the one that added the last *)
(* packet or the one that ended the last invocation, takes a packet of     *)
(* every stream, with their callbacks, and adds the node to its queue.     *)
CheckIfBecameReady(t) ==
  /\ At(t, "notify")
  /\ IF Ready /\ (t \in Workers \/ ~inFlight)
       THEN inFlight' = TRUE /\ toPop' = Pending /\ Goto(t, "popping")
       ELSE /\ inFlight' = (inFlight /\ t \notin Workers) /\ Goto(t, Resumed(t))
            /\ UNCHANGED toPop
  /\ UNCHANGED <<streamVars, bookVars, hasError, terminated, nonIdle, queued, appVars, left,
                 calls, hiVars, failed>>

FillInputSet(t) ==
  /\ At(t, "popping")
  /\ \E s \in toPop : PopPacket(t, s) /\ toPop' = toPop \ {s}
  /\ UNCHANGED <<bookVars, hasError, terminated, nonIdle, inFlight, queued, appVars, pc, left,
                 hiVars, failed>>

ScheduleNode(t) ==
  /\ At(t, "popping") /\ toPop = {} /\ Unlocked
  /\ queued' = ~hasError /\ nonIdle' = (nonIdle \/ ~hasError)
  /\ Goto(t, Resumed(t))
  /\ UNCHANGED <<streamVars, bookVars, hasError, terminated, inFlight, toPop, appVars, left,
                 calls, hiVars, failed>>

RunNextTask(w) ==
  /\ At(w, "out") /\ queued
  /\ queued' = FALSE
  /\ Goto(w, "emitting") /\ left' = [left EXCEPT ![w] = OutStreams]
  /\ UNCHANGED <<streamVars, bookVars, hasError, terminated, nonIdle, inFlight, toPop, appVars,
                 calls, hiVars, failed>>

Emit(w) ==
  /\ At(w, "emitting")
  /\ \E s \in left[w] : AddPacket(w, s) /\ left' = [left EXCEPT ![w] = @ \ {s}]
  /\ UNCHANGED <<bookVars, runVars, appVars, pc, hiVars, failed>>

EndScheduling(w) ==
  /\ At(w, "emitting") /\ left[w] = {}
  /\ Goto(w, "notify")
  /\ UNCHANGED <<streamVars, bookVars, runVars, appVars, left, calls, hiVars, failed>>

Fail(w) ==
  /\ At(w, "emitting") /\ left[w] = OutStreams /\ CanFail
  /\ hasError' = TRUE /\ left' = [left EXCEPT ![w] = {}] /\ Goto(w, "finish")
  /\ UNCHANGED <<streamVars, bookVars, terminated, nonIdle, nodeVars, appVars, calls, hiVars,
                 failed>>

(* The queue is idle when the task that was just run was its last.         *)
FinishTask(w) ==
  /\ At(w, "finish") /\ Goto(w, "out") /\ Unlocked
  /\ nonIdle' = queued
  /\ IF queued THEN UNCHANGED hiVars ELSE CallHandleIdle(w)
  /\ UNCHANGED <<streamVars, bookVars, hasError, terminated, nodeVars, appVars, left, calls,
                 failed>>

(* OutputStreamPoller::Next.                                               *)
Read ==
  /\ At(reader, "out")
  /\ \E s \in OutStreams : size[s] > 0 /\ PopPacket(reader, s)
  /\ UNCHANGED <<bookVars, runVars, appVars, pc, left, hiVars, failed>>

-----------------------------------------------------------------------------

InHandleIdle(t) ==
  HandleIdle(t) \/ UnthrottleSources(t) \/ ReportedDeadlock(t) \/ ReadQueueSize(t)
    \/ Grow(t) \/ GrewAll(t)

Goes(t) ==
  UpdateThrottledNodes(t) \/ InHandleIdle(t) \/ CheckIfBecameReady(t) \/ FillInputSet(t)
    \/ ScheduleNode(t)
Adds(i) ==
  Goes(i) \/ Ask(i) \/ WaitUntilUnthrottled(i) \/ Propagate(i) \/ Feed(i) \/ Added(i)
    \/ ClosedAllGraphInputStreams(i)
Works(w) == Goes(w) \/ RunNextTask(w) \/ Emit(w) \/ EndScheduling(w) \/ FinishTask(w)
Reads == UpdateThrottledNodes(reader) \/ Read

Next ==
  \/ \E i \in Inputs : Adds(i) \/ Add(i) \/ Close(i)
  \/ \E w \in Workers : Works(w) \/ Fail(w)
  \/ Reads

Spec == Init /\ [][Next /\ UNCHANGED graph]_<<vars, graph>>

(* Every thread goes on with the call it is in, and the application reads  *)
(* its output streams; it need not add or close anything.  Fairness is     *)
(* strong because HandleIdle takes state_mutex_ again and again: a thread  *)
(* that waits for the mutex gets it one day.                               *)
FairSpec ==
  /\ Spec /\ SF_vars(Reads)
  /\ \A i \in AllInputs : SF_vars(i \in Inputs /\ Adds(i))
  /\ \A w \in AllWorkers : SF_vars(w \in Workers /\ Works(w))

-----------------------------------------------------------------------------

(* The books agree with the queues: a stream whose fullness nobody is      *)
(* about to report is listed exactly with the graph input streams it holds *)
(* back, and the scheduler counts those held back.  Callbacks run without  *)
(* the stream's lock and may overtake each other (calculator_graph.cc,     *)
(* UpdateThrottledNodes).                                                  *)
BooksAreRight ==
  /\ \A s \in Streams : (\A t \in Threads : calls[t] # s) =>
       \A i \in Inputs : (s \in full[i]) = (i \in Upstream(s) /\ IsFull(s))
  /\ count = Cardinality({i \in Inputs : full[i] # {}})
  /\ ~failed

(* Where deadlocks are reported and not resolved by growing it, the queue  *)
(* of a stream that the application feeds never exceeds its limit,         *)
(* although the check and the adding are not one critical section          *)
(* (calculator_graph.cc, AddPacketToInputStreamInternal).                  *)
QueuesBounded == ReportDeadlock => \A s \in InStreams : size[s] <= max[s]

IsAt(i, where) == i \in Inputs /\ pc[i] = where

(* AddPacketToInputStream returns: a caller that waits for a full stream   *)
(* is let go on, by the node, by UnthrottleSources when everyone waits, or *)
(* by an error.                                                            *)
CallsReturn == \A i \in AllInputs : IsAt(i, "waiting") ~> IsAt(i, "out")
=============================================================================
