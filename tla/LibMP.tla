------------------------------- MODULE LibMP -------------------------------
(***************************************************************************)
(* The wrapper the game uses to run a MediaPipe graph                      *)
(* (mediapipe/mediapipe/examples/desktop/libmp), seen by its caller: a     *)
(* graph that is created, started and fed one camera image at a time, and  *)
(* the queue of the poller on the "landmarks" output stream.               *)
(*                                                                         *)
(* A camera image is abstracted to the hand it shows, or NoHand.  A packet *)
(* on the "landmarks" stream is abstracted to the hand it was computed     *)
(* from; the graph emits no packet for an image without a hand             *)
(* (modules/hand_landmark/hand_landmark_tracking_cpu.pbtxt).               *)
(***************************************************************************)
EXTENDS Naturals, Sequences

CONSTANTS
  Hands,    \* the hands (pose and place) an image may show
  NoHand    \* an image without a hand

ASSUME LibMPAssumption == NoHand \notin Hands

VARIABLES
  graph,    \* the LibMPImpl object and the run state of its m_graph
  pending,  \* images accepted by the graph and not yet through its calculators
  queue     \* packets waiting in the poller of the "landmarks" stream

libmpVars == <<graph, pending, queue>>

Images == Hands \cup {NoHand}

(* "null": no object (Create failed); "initialized": created, not started; *)
(* "running": Start succeeded; "failed": Start or a calculator failed.     *)
GraphStates == {"null", "initialized", "running", "failed"}

LibMPTypeOK ==
  /\ graph \in GraphStates
  /\ pending \in Seq(Images)
  /\ queue \in Seq(Hands)

LibMPInit ==
  /\ graph = "null"
  /\ pending = << >>
  /\ queue = << >>

-----------------------------------------------------------------------------

(* LibMP::Create: the object, or nullptr when the graph cannot be          *)
(* initialized.                                                            *)
Create(ok) ==
  /\ graph = "null"
  /\ graph' = IF ok THEN "initialized" ELSE "null"
  /\ UNCHANGED <<pending, queue>>

(* LibMPImpl::Start: StartRun of the graph, which may fail (a missing      *)
(* model, for instance).  AddOutputStream precedes it and cannot fail on a *)
(* graph that was initialized with the stream in its configuration.        *)
Start(ok) ==
  /\ graph = "initialized"
  /\ graph' = IF ok THEN "running" ELSE "failed"
  /\ UNCHANGED <<pending, queue>>

(* LibMPImpl::Process: TRUE iff the image was added to the input stream.   *)
(* The graph refuses it before StartRun and after an error.                *)
ProcessSucceeds == graph = "running"

Process(image) ==
  /\ pending' = IF ProcessSucceeds THEN Append(pending, image) ELSE pending
  /\ UNCHANGED <<graph, queue>>

(* LibMPImpl::WaitUntilIdle returns when this holds.                       *)
Idle == pending = << >>

(* LibMPImpl::GetOutputPacket on a non-empty queue: the oldest packet.     *)
GetOutputPacket ==
  /\ queue # << >>
  /\ queue' = Tail(queue)
  /\ UNCHANGED <<graph, pending>>

-----------------------------------------------------------------------------

(* The threads of the graph: the calculators consume the oldest image and  *)
(* emit a landmarks packet when it shows a hand.                           *)
RunCalculators ==
  /\ graph = "running"
  /\ pending # << >>
  /\ pending' = Tail(pending)
  /\ queue' = IF Head(pending) = NoHand THEN queue ELSE Append(queue, Head(pending))
  /\ UNCHANGED graph

(* A calculator reports an error: CalculatorGraph::RecordError stops the   *)
(* run and what was in flight is dropped.                                  *)
GraphError ==
  /\ graph = "running"
  /\ graph' = "failed"
  /\ pending' = << >>
  /\ UNCHANGED queue
=============================================================================
