------------------------- MODULE OutputStreamPoller -------------------------
(***************************************************************************)
(* framework/graph_output_stream.{h,cc}, OutputStreamPollerImpl: the queue *)
(* at the end of an output stream of the graph, filled by the node that    *)
(* writes the stream and read by the application with QueueSize and Next,  *)
(* as LibMP's GetOutputQueueSize and GetOutputPacket do.                   *)
(*                                                                         *)
(* Three threads meet here: the application in Next, the thread that       *)
(* propagates the writer's output, and a thread that records an error of   *)
(* the graph.  The poller has a mutex_ of its own besides the stream's, so *)
(* packets come in while Next, under mutex_, looks at the stream.          *)
(***************************************************************************)
EXTENDS InputStreamManager

CONSTANT
  Batches   \* the lists of packets the writer may emit at once

ASSUME PollerAssumption == Batches \subseteq Seq(Timestamps) \ {<< >>}

VARIABLES
  observes,   \* observe_timestamp_bounds, given to AddOutputStreamPoller
  stream,     \* input_stream_
  mutex,      \* mutex_ is held by the application
  hasError,   \* graph_has_error_
  outputTs,   \* output_timestamp_
  app,        \* where the application is: "idle", or in Next
  asked,      \* Next was called because QueueSize() said there is a packet
  seen,       \* what Next last read of the stream: [min, empty]
  signalled,  \* handler_condvar_ has been signalled to the waiting application
  writer,     \* what the writer's thread does next: "run", "notify", "error"
  recorder,   \* another thread in RecordError: "none", "error", "done"
  accepted,   \* history: the packets the stream accepted
  delivered   \* history: the packets Next returned

pollerVars == <<stream, mutex, hasError, outputTs, app, asked, seen, signalled, writer,
                recorder, accepted, delivered>>

PollerInit ==
  /\ observes \in BOOLEAN
  /\ stream = NewStream(-1)
  /\ mutex = FALSE /\ hasError = FALSE /\ outputTs = MinTimestamp
  /\ app = "idle" /\ asked = FALSE /\ seen = [min |-> Unset, empty |-> TRUE]
  /\ signalled = FALSE
  /\ writer = "run" /\ recorder = "none"
  /\ accepted = << >> /\ delivered = << >>

appVars == <<app, asked, seen, outputTs>>

-----------------------------------------------------------------------------
(* The writer: InputStreamHandler's AddPackets and SetNextTimestampBound,  *)
(* called by OutputStreamManager.  An error of the stream is recorded      *)
(* before anything else happens in this thread.                            *)

After(r) == IF ~r.ok THEN "error" ELSE IF r.notify THEN "notify" ELSE "run"

Emit(packets) ==
  LET r == AddPackets(stream, packets)
  IN  /\ writer = "run"
      /\ stream' = r.stream
      /\ writer' = After(r)
      /\ accepted' = accepted \o SubSeq(r.stream.queue, Len(stream.queue) + 1,
                                        Len(r.stream.queue))
      /\ UNCHANGED <<mutex, hasError, appVars, signalled, recorder, delivered>>

RaiseBound(bound) ==
  LET r == SetNextTimestampBound(stream, bound)
  IN  /\ writer = "run"
      /\ stream' = r.stream
      /\ writer' = After(r)
      /\ UNCHANGED <<mutex, hasError, appVars, signalled, recorder, accepted, delivered>>

(* A signal reaches the application only while it waits.                   *)
Signal == signalled' = (signalled \/ app = "waiting")

Notify ==
  /\ writer = "notify" /\ ~mutex
  /\ Signal
  /\ writer' = "run"
  /\ UNCHANGED <<stream, mutex, hasError, appVars, recorder, accepted, delivered>>

(* NotifyError as written without the signal.  Mutant of NotifyError.      *)
NotifyErrorSilently ==
  /\ ~mutex
  /\ hasError' = TRUE
  /\ signalled' = signalled

(* RecordError calls NotifyError of every poller: the writer's error, or   *)
(* one of any other node.                                                  *)
NotifyError == ~mutex /\ hasError' = TRUE /\ Signal

WriterError ==
  /\ writer = "error" /\ NotifyError
  /\ writer' = "run"
  /\ UNCHANGED <<stream, mutex, appVars, recorder, accepted, delivered>>

RecordError ==
  /\ recorder = "none" /\ recorder' = "error"
  /\ UNCHANGED <<stream, mutex, hasError, appVars, signalled, writer, accepted, delivered>>

RecorderError ==
  /\ recorder = "error" /\ NotifyError
  /\ recorder' = "done"
  /\ UNCHANGED <<stream, mutex, appVars, writer, accepted, delivered>>

-----------------------------------------------------------------------------
(* The application.                                                        *)

QueueSizeIsPositive ==
  /\ app = "idle" /\ ~IsEmptyStream(stream)
  /\ app' = "lock" /\ asked' = TRUE
  /\ UNCHANGED <<stream, mutex, hasError, seen, outputTs, signalled, writer, recorder,
                 accepted, delivered>>

CallNext ==
  /\ app = "idle"
  /\ app' = "lock" /\ asked' = FALSE
  /\ UNCHANGED <<stream, mutex, hasError, seen, outputTs, signalled, writer, recorder,
                 accepted, delivered>>

(* The head of the loop of Next, with mutex_ held: entered, or woken.      *)
NextTest ==
  /\ app = "lock" \/ (app = "waiting" /\ signalled)
  /\ ~mutex /\ mutex' = TRUE
  /\ signalled' = FALSE
  /\ seen' = [min |-> MinTimestampOrBound(stream), empty |-> IsEmptyStream(stream)]
  /\ app' = "decide"
  /\ UNCHANGED <<stream, hasError, asked, outputTs, writer, recorder, accepted, delivered>>

BoundChanged ==
  seen.empty /\ observes /\ outputTs < PreviousAllowedInStream(seen.min)

(* The condition of the loop, forgetting the queue.  Mutant of NextReady.  *)
NextReadyForgetsQueue == hasError \/ BoundChanged \/ seen.min = Done

NextReady == hasError \/ ~seen.empty \/ BoundChanged \/ seen.min = Done

(* Wait releases mutex_.                                                   *)
NextWait ==
  /\ app = "decide" /\ ~NextReady
  /\ app' = "waiting" /\ mutex' = FALSE
  /\ UNCHANGED <<stream, hasError, asked, seen, outputTs, signalled, writer, recorder,
                 accepted, delivered>>

(* Next leaves the loop, and returns false on an error with an empty queue *)
(* and at the end of the stream, and an empty packet for a new bound.      *)
NextBreak ==
  /\ app = "decide" /\ NextReady
  /\ outputTs' = IF hasError /\ seen.empty THEN outputTs
                 ELSE IF seen.empty THEN PreviousAllowedInStream(seen.min) ELSE seen.min
  /\ app' = IF seen.empty THEN "idle" ELSE "pop"
  /\ mutex' = FALSE
  /\ UNCHANGED <<stream, hasError, asked, seen, signalled, writer, recorder, accepted, delivered>>

NextPop ==
  LET r == PopPacketAtTimestamp(stream, seen.min)
  IN  /\ app = "pop"
      /\ stream' = r.stream
      /\ delivered' = IF r.found THEN Append(delivered, seen.min) ELSE delivered
      /\ app' = "idle"
      /\ UNCHANGED <<mutex, hasError, asked, seen, outputTs, signalled, writer, recorder,
                     accepted>>

Reset ==
  /\ app = "idle" /\ ~mutex
  /\ hasError' = FALSE
  /\ stream' = NewStream(-1)
  /\ accepted' = << >> /\ delivered' = << >>
  /\ UNCHANGED <<mutex, appVars, signalled, writer, recorder>>

-----------------------------------------------------------------------------

PollerNext ==
  \/ \E packets \in Batches : Emit(packets)
  \/ \E bound \in Timestamps : RaiseBound(bound)
  \/ Notify \/ WriterError \/ RecordError \/ RecorderError
  \/ QueueSizeIsPositive \/ CallNext \/ NextTest \/ NextWait \/ NextBreak \/ NextPop \/ Reset

PollerSpec == PollerInit /\ [][PollerNext /\ UNCHANGED observes]_<<pollerVars, observes>>

(* A call that has begun goes on; nothing makes the writer emit, or the    *)
(* application call.                                                       *)
PollerFairSpec ==
  PollerSpec
  /\ WF_pollerVars(Notify) /\ WF_pollerVars(WriterError) /\ WF_pollerVars(RecorderError)
  /\ WF_pollerVars(NextTest) /\ WF_pollerVars(NextWait) /\ WF_pollerVars(NextBreak)
  /\ WF_pollerVars(NextPop)

-----------------------------------------------------------------------------

(* The application gets what the stream accepted, in that order, nothing   *)
(* twice and nothing left out, although packets arrive between the test in *)
(* Next and the removal, which is made without mutex_.                     *)
DeliversInOrder == delivered \o stream.queue = accepted

(* Next does not block after QueueSize() was positive, which LibMP's user  *)
(* relies on when it calls GetOutputPacket from its tracking loop.         *)
AskedNeverWaits == asked => app # "waiting"

(* Next returns once there is a packet, the stream has ended or the graph  *)
(* has an error: no wake-up is lost between the test of the stream and the *)
(* wait on the condition variable.                                         *)
NextReturns ==
  (app # "idle" /\ (~IsEmptyStream(stream) \/ stream.bound = Done \/ hasError))
    ~> (app = "idle")

(* When bounds are observed, Next also returns for every advance of the    *)
(* stream's bound that it has not reported yet.  A bound of PostStream is  *)
(* the exception: PreviousAllowedInStream makes it look like no advance,   *)
(* and unlike OutputStreamObserver the poller has no special case for it.  *)
BoundsAreReported ==
  (observes /\ app # "idle" /\ IsEmptyStream(stream) /\ outputTs < PreviousAllowedInStream(stream.bound))
    ~> (app = "idle" \/ stream.bound = PostStream)
=============================================================================
