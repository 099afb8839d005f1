------------------------------ MODULE HandGraph ------------------------------
(***************************************************************************)
(* modules/hand_landmark/hand_landmark_tracking_cpu.pbtxt, the graph that  *)
(* the hand tracker runs: palms are detected only in images whose          *)
(* predecessor showed too few hands, palms and the hands of the previous   *)
(* image are associated, and landmarks are found for each of the resulting *)
(* rectangles.  The rectangles of the landmarks go back to the start.      *)
(*                                                                         *)
(* Chains of calculators that work timestamp by timestamp with the default *)
(* input stream handler are one node here:                                 *)
(*   Detect     HasMinSize, Gate, PalmDetection, Clip and their loop       *)
(*   Associate  AssociationNormRect                                        *)
(*   Body       HandLandmark, LandmarksToRoi                               *)
(* BeginLoop and EndLoop around the body keep a time of their own, and     *)
(* PreviousLoopback, with its ImmediateInputStreamHandler, closes the      *)
(* circle.  Nodes run whenever their inputs allow, several images can be   *)
(* on their way.  What the models see in an image is anything.  The option *)
(* use_prev_landmarks, which the application leaves out, is on.            *)
(***************************************************************************)
EXTENDS Association, FiniteSets, FiniteSetsExt

CONSTANTS
  Settings,     \* see below
  MaxFrames,    \* bound on the images in any setting
  NoPacket

(* num_hands, and what happens in front of the camera: the rectangles in   *)
(* which hands are found, bounds on the palms the detector finds and on    *)
(* the images.                                                             *)
ASSUME HandGraphAssumption ==
  /\ MaxFrames \in Nat
  /\ IsFiniteSet(Rects) /\ NoPacket \notin Rects \cup Seq(Rects)
  /\ Settings \subseteq [numHands : Nat \ {0}, rects : SUBSET Rects, palms : Nat,
                         frames : 0 .. MaxFrames]

(* Images come at even times: between two of them are others, which        *)
(* matters to bounds.                                                      *)
MaxTime == 2 * MaxFrames + 2
INSTANCE PreviousLoopback
INSTANCE LoopCalculators

VARIABLE setting   \* the one of Settings

Frames == 1 .. MaxFrames
Ts(k) == 2 * k
Vectors(n) == UNION {[1..m -> setting.rects] : m \in 0..n}

VARIABLES
  image,     \* the graph input stream
  prev,      \* PREV_LOOP: the rectangles of the previous image
  palm,      \* hand_rects_from_palm_detections
  hand,      \* hand_rects
  item,      \* single_hand_rect, in the time of the loop
  batch,     \* hand_rects_timestamp, in the time of the loop
  body,      \* single_hand_rect_from_landmarks, in the time of the loop
  loop,      \* hand_rects_from_landmarks, as multi_hand_landmarks
  pos,       \* the time every node has processed, per node
  loopTs,    \* loop_internal_timestamp_ of BeginLoop
  coll,      \* input_stream_collection_ of EndLoop, << >> when there is none
  kept,      \* history: the items of every vector that the body has not dropped
  calc,      \* PreviousLoopbackCalculator
  ready, last   \* ready_timestamps_ and last_processed_ts_ of MAIN and LOOP

inner == <<item, batch, body, loopTs, coll, kept>>
loopback == <<prev, calc, ready, last>>
vars == <<image, palm, hand, inner, loop, pos, loopback>>

Nodes == {"Detect", "Associate", "Begin"}
Sides == {"main", "loop"}

(* A stream is the packets it was given and the time before which no more  *)
(* will come.                                                              *)
NewStream == [at |-> << >>, bound |-> 1]

(* The streams in the loop have one reader each; what it has read is gone. *)
NewInner == [at |-> << >>, bound |-> 0]

(* Timestamp::Done for them: after all vectors of rectangles without       *)
(* overlaps, one for each time.                                            *)
LoopDone == MaxTime * (Cardinality(Rects) + 1) + 1

Init ==
  /\ setting \in Settings
  /\ image = NewStream /\ prev = NewStream /\ palm = NewStream /\ hand = NewStream
  /\ loop = NewStream
  /\ item = NewInner /\ batch = NewInner /\ body = NewInner
  /\ loopTs = 0 /\ coll = << >> /\ kept = [t \in 1 .. MaxTime |-> << >>]
  /\ pos = [n \in Nodes |-> Unstarted]
  /\ calc = NewLoopback
  /\ ready = [s \in Sides |-> Unset] /\ last = [s \in Sides |-> Unset]

Has(s, t) == t \in DOMAIN s.at
Value(s, t) == IF Has(s, t) THEN s.at[t] ELSE NoPacket

(* A packet, or the promise that there is none at t.  The bound is clamped *)
(* as Timestamp's addition is: only closing a stream makes it done.        *)
Send(s, t, v) ==
  [at |-> [u \in DOMAIN s.at \cup (IF v = NoPacket THEN {} ELSE {t}) |->
             IF Has(s, u) THEN s.at[u] ELSE v],
   bound |-> IF s.bound > t THEN s.bound ELSE Min({t + 1, MaxTime})]
SetBound(s, b) == [s EXCEPT !.bound = IF b > @ THEN b ELSE @]
IsDone(s) == s.bound = DoneTime

(* What is left of s for a consumer that has processed everything up to p. *)
Queue(s, p) == {t \in DOMAIN s.at : t > p}
MinTimestampOrBound(s, p) == Min(Queue(s, p) \cup {s.bound})

-----------------------------------------------------------------------------
(* A node with the default handler: it processes the earliest packet once  *)
(* every input has a packet then or a later bound.  With TimestampDiff(0), *)
(* and in the loops by the bounds they process, its output learns          *)
(* everything the inputs have settled.                                     *)

Earliest(ins, p) == Min((UNION {Queue(s, p) : s \in ins}) \cup {DoneTime})
Settled(ins, p) == Min({MinTimestampOrBound(s, p) : s \in ins})

Runs(n, ins) ==
  LET t == Earliest(ins, pos[n])
  IN  /\ t < DoneTime
      /\ \A s \in ins : Has(s, t) \/ s.bound > t
      /\ pos' = [pos EXCEPT ![n] = t]

(* Also closes the output, when every input is done.                       *)
Passes(n, ins, out) ==
  /\ Settled(ins, pos[n]) > out.bound
  /\ UNCHANGED pos

(* CollectionHasMinSize.  Without a packet the gate, which takes empty     *)
(* packets as allowed, lets the image pass.                                *)
EnoughHands(v) == v # NoPacket /\ Len(v) >= setting.numHands

(* ClipDetectionVectorSize.                                                *)
Clip(v) == SubSeq(v, 1, Min({Len(v), setting.numHands}))

Detect ==
  /\ \/ /\ Runs("Detect", {image, prev})
        /\ \E found \in Vectors(setting.palms) :
             palm' = IF EnoughHands(Value(prev, pos'["Detect"]))
                       THEN Send(palm, pos'["Detect"], NoPacket)
                       ELSE Send(palm, pos'["Detect"], Collected(Clip(found)))
     \/ /\ Passes("Detect", {image, prev}, palm)
        /\ palm' = SetBound(palm, Settled({image, prev}, pos["Detect"]))
  /\ UNCHANGED <<image, hand, inner, loop, loopback>>

Associate ==
  /\ \/ /\ Runs("Associate", {palm, prev})
        /\ LET t == pos'["Associate"]
               given(s) == IF Has(s, t) THEN s.at[t] ELSE << >>
           IN  hand' = Send(hand, t, GetNonOverlappingElements(<<given(palm), given(prev)>>))
     \/ /\ Passes("Associate", {palm, prev}, hand)
        /\ hand' = SetBound(hand, Settled({palm, prev}, pos["Associate"]))
  /\ UNCHANGED <<image, palm, inner, loop, loopback>>

-----------------------------------------------------------------------------
(* The loop over the rectangles of an image.                               *)

(* BeginLoop processes timestamp bounds: a time that its inputs have       *)
(* settled without a packet is a vector without items.                     *)
BeginTime ==
  LET ins == {image, hand}
      bounds == {s.bound : s \in {u \in ins : Queue(u, pos["Begin"]) = {}}}
  IN  Min({Earliest(ins, pos["Begin"])} \cup {b - 1 : b \in bounds})

PutAll(s, packets, b) ==
  [at |-> [u \in DOMAIN s.at \cup DOMAIN packets |-> IF Has(s, u) THEN s.at[u] ELSE packets[u]],
   bound |-> b]
Put(s, t, v) == PutAll(s, [u \in {t} |-> v], t + 1)
Without(s, t) == [s EXCEPT !.at = [u \in DOMAIN @ \ {t} |-> @[u]]]
Ended(s) == s.at = << >> /\ s.bound = LoopDone

BeginLoop ==
  /\ \/ /\ pos["Begin"] < BeginTime /\ item.bound < LoopDone
        /\ Settled({image, hand}, pos["Begin"]) < DoneTime
        /\ LET t == BeginTime
               v == IF Has(hand, t) THEN hand.at[t] ELSE << >>
               tagged == [i \in DOMAIN v |-> [of |-> t, rect |-> v[i]]]
           IN  /\ pos' = [pos EXCEPT !["Begin"] = t]
               /\ loopTs' = NextTs(loopTs, v)
               /\ item' = PutAll(item, Items(loopTs, tagged), loopTs')
               /\ batch' = Put(batch, loopTs' - 1, t)
     \/ /\ Settled({image, hand}, pos["Begin"]) = DoneTime /\ item.bound < LoopDone
        /\ item' = [item EXCEPT !.bound = LoopDone]
        /\ batch' = [batch EXCEPT !.bound = LoopDone]
        /\ UNCHANGED <<pos, loopTs>>
  /\ UNCHANGED <<image, palm, hand, body, coll, kept, loop, loopback>>

(* A rectangle in which no hand is found gives nothing; otherwise the hand *)
(* may be anywhere by now.                                                 *)
Body ==
  LET t == Min(DOMAIN item.at)
      x == item.at[t]
  IN  /\ \/ /\ item.at # << >>
            /\ item' = Without(item, t)
            /\ \/ body' = SetBound(body, t + 1) /\ UNCHANGED kept
               \/ \E r \in setting.rects :
                    body' = Put(body, t, r) /\ kept' = [kept EXCEPT ![x.of] = Append(@, r)]
         \/ /\ item.at = << >> /\ item.bound > body.bound
            /\ body' = SetBound(body, item.bound)
            /\ UNCHANGED <<item, kept>>
      /\ UNCHANGED <<image, palm, hand, batch, loopTs, coll, loop, pos, loopback>>

EndLoop ==
  LET t == Min(DOMAIN body.at \cup DOMAIN batch.at)
      got == Collect(coll, Value(body, t))
  IN  /\ \/ /\ DOMAIN body.at \cup DOMAIN batch.at # {}
            /\ body.bound > t /\ batch.bound > t
            /\ IF Has(batch, t)
                 THEN loop' = Send(loop, batch.at[t], Collected(got)) /\ coll' = Released(got)
                 ELSE coll' = got /\ UNCHANGED loop
            /\ body' = Without(body, t) /\ batch' = Without(batch, t)
         \/ /\ Ended(body) /\ Ended(batch) /\ ~IsDone(loop)
            /\ loop' = SetBound(loop, DoneTime)
            /\ UNCHANGED <<body, batch, coll>>
      /\ UNCHANGED <<image, palm, hand, item, loopTs, kept, pos, loopback>>

-----------------------------------------------------------------------------
(* ImmediateInputStreamHandler: each of the two streams by itself.         *)

Side(s) == IF s = "main" THEN image ELSE loop

(* GetReadiness of one stream, its timestamp latched until it is filled.   *)
ReadyTime(s) ==
  LET m == MinTimestampOrBound(Side(s), last[s])
      t == IF Has(Side(s), m) THEN m ELSE m - 1
      after == IF last[s] > Unstarted THEN last[s] ELSE Unstarted
  IN  IF ready[s] # Unset THEN ready[s]
      ELSE IF m = DoneTime /\ last[s] >= MaxTime THEN DoneTime
      ELSE IF t > after THEN t ELSE Unset

Latched == [s \in Sides |-> ReadyTime(s)]
Selected == Min(({Latched[s] : s \in Sides} \cup {DoneTime}) \ {Unset})

(* The packet at the selected time, or the bound of the stream.            *)
Filled(s) ==
  LET t == Selected
      due == Latched[s] = t
      p == IF due THEN t ELSE IF Latched[s] # Unset THEN Latched[s] - 1 ELSE last[s]
      m == MinTimestampOrBound(Side(s), p)
  IN  IF due /\ Has(Side(s), t) THEN [ts |-> t, value |-> Side(s).at[t]]
      ELSE [ts |-> m - 1, value |-> NoPacket]

(* What one Process has sent, in its order.                                *)
SendAll(s, packets) ==
  LET send(so_far, x) == Send(so_far, x.ts, x.value)
  IN  FoldLeft(send, s, packets)

RunLoopback ==
  /\ Selected < DoneTime
  /\ \E r \in {Process(calc, Filled("main"), Filled("loop"))} :
       LET sent == SendAll(prev, r.sent)
       IN  /\ calc' = r.calc
           /\ prev' = IF r.closed THEN [sent EXCEPT !.bound = DoneTime] ELSE sent
  /\ last' = [s \in Sides |-> IF Latched[s] \in {Unset, DoneTime} THEN last[s] ELSE Latched[s]]
  /\ ready' = [s \in Sides |-> IF Latched[s] = Selected THEN Unset ELSE Latched[s]]
  /\ UNCHANGED <<image, palm, hand, inner, loop, pos>>

-----------------------------------------------------------------------------

(* LibMPImpl::Process adds an image to the input stream, while those       *)
(* before it may still be on their way.                                    *)
AddImage ==
  /\ ~IsDone(image) /\ Cardinality(DOMAIN image.at) < setting.frames
  /\ image' = Send(image, Ts(Cardinality(DOMAIN image.at) + 1), << >>)
  /\ UNCHANGED <<palm, hand, inner, loop, pos, loopback>>

(* LibMP's destructor calls CloseInputStream.                              *)
CloseInput ==
  /\ ~IsDone(image)
  /\ image' = SetBound(image, DoneTime)
  /\ UNCHANGED <<palm, hand, inner, loop, pos, loopback>>

Next ==
  \/ Detect \/ Associate \/ BeginLoop \/ Body \/ EndLoop \/ RunLoopback
  \/ AddImage \/ CloseInput

Spec == Init /\ [][Next /\ UNCHANGED setting]_<<vars, setting>>

(* The scheduler runs every node that is ready (module Scheduler).  The    *)
(* last conjunct is WF_vars(RunLoopback): a run is possible when a stream  *)
(* is ready.                                                               *)
FairSpec ==
  /\ Spec /\ WF_vars(Detect) /\ WF_vars(Associate)
  /\ WF_vars(BeginLoop) /\ WF_vars(Body) /\ WF_vars(EndLoop)
  /\ []<>(Selected = DoneTime) \/ []<><<RunLoopback>>_vars

-----------------------------------------------------------------------------

(* Every image is processed with the hands of the image before it: with    *)
(* exactly those, or with none if it showed none, however many images are  *)
(* on their way (previous_loopback_calculator.cc).                         *)
PreviousHands ==
  \A k \in Frames : prev.bound > Ts(k) /\ Has(image, Ts(k)) =>
    /\ k = 1 => ~Has(prev, Ts(k))
    /\ k > 1 => loop.bound > Ts(k - 1) /\ Value(prev, Ts(k)) = Value(loop, Ts(k - 1))

(* "This calculator ensures that the output hand_rects vector doesn't      *)
(* contain overlapping regions" (hand_landmark_tracking_cpu.pbtxt).        *)
NoOverlaps ==
  \A t \in DOMAIN hand.at : \A i, j \in DOMAIN hand.at[t] :
    i # j => ~Overlap(hand.at[t][i], hand.at[t][j])

(* What the loop gives for an image is exactly the rectangles that its     *)
(* body found for that image, in their order, and nothing of the images    *)
(* before or after it; no packet if it found none.  The vectors meet again *)
(* in EndLoop by a time that has nothing to do with that of the images.    *)
BatchesComplete ==
  \A t \in 1 .. MaxTime : loop.bound > t => Value(loop, t) = Collected(kept[t])

Answered == \A t \in DOMAIN image.at : loop.bound > t

(* The feedback neither stalls nor waits for itself: every image is        *)
(* answered, if only by "no hands" (a bound).  There are finitely many.    *)
EveryImageAnswered == []<>Answered

(* Once the application has closed the input every stream is closed.       *)
GraphCloses ==
  IsDone(image) ~> IsDone(prev) /\ IsDone(palm) /\ IsDone(hand) /\ Ended(item) /\ IsDone(loop)
=============================================================================
