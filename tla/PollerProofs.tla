---------------------------- MODULE PollerProofs ----------------------------
(***************************************************************************)
(* Proofs about the poller that reads a stream, for every time line and    *)
(* every list of packets a writer may emit.                                *)
(***************************************************************************)
EXTENDS OutputStreamPoller, StreamLemmas

-----------------------------------------------------------------------------
(* The poller.                                                             *)

(* Only the application takes packets out, so what it has seen at the head *)
(* of the queue stays there until it takes it; and what QueueSize saw has  *)
(* not gone when Next looks.                                               *)
PollerInv ==
  /\ Ascends(stream)
  /\ delivered \in Seq(Int) /\ accepted \in Seq(Int)
  /\ DeliversInOrder
  /\ app \in {"decide", "pop"} /\ ~seen.empty =>
       stream.queue # << >> /\ seen.min = Head(stream.queue)
  /\ app = "pop" => ~seen.empty
  /\ asked /\ app = "lock" => stream.queue # << >>
  /\ asked /\ app = "decide" => ~seen.empty
  /\ AskedNeverWaits

(* A step that leaves the application and the queue alone keeps it.        *)
LEMMA PollerRests ==
  ASSUME PollerInv, Ascends(stream)', stream'.queue = stream.queue,
         UNCHANGED <<app, asked, seen, accepted, delivered>>
  PROVE  PollerInv'
BY DEF PollerInv, DeliversInOrder, AskedNeverWaits

(* The stream and its poller start empty.                                  *)
LEMMA PollerInvInit == PollerInit => PollerInv
<1> SUFFICES ASSUME PollerInit PROVE PollerInv
  OBVIOUS
<1>1. Ascends(stream) /\ stream.queue = << >>
  BY NewStreamAscends DEF PollerInit, NewStream
<1>2. << >> \in Seq(Int) /\ << >> \o << >> = << >>
  BY EmptySeq, ConcatEmptySeq
<1>3. QED
  BY <1>1, <1>2 DEF PollerInit, PollerInv, DeliversInOrder, AskedNeverWaits

(* Packets are added behind the head of the queue.                         *)
LEMMA EmitKeeps ==
  ASSUME PollerInv, NEW packets \in Batches, Emit(packets)
  PROVE  PollerInv'
<1> DEFINE r == AddPackets(stream, packets)
           q == stream.queue
<1>1. packets \in Seq(Timestamps)
  BY PollerAssumption
<1>2. stream' = r.stream
  BY DEF Emit
<1>3. accepted' = accepted \o SubSeq(r.stream.queue, Len(q) + 1, Len(r.stream.queue))
  BY DEF Emit
<1>4. UNCHANGED <<app, asked, seen, delivered>>
  BY DEF Emit, appVars
<1>5. Ascends(stream) /\ q \in Seq(Int)
  BY DEF PollerInv, Ascends, StreamType
<1>6. Ascends(r.stream) /\ \E more \in Seq(Int) : r.stream.queue = q \o more
  BY <1>1, <1>5, AddKeepsAscending
<1> HIDE DEF r
<1>7. PICK more \in Seq(Int) : r.stream.queue = q \o more
  BY <1>6
<1>8. stream'.queue = q \o more
  BY <1>2, <1>7
<1>9. /\ SubSeq(q \o more, Len(q) + 1, Len(q \o more)) = more
      /\ q # << >> => q \o more # << >> /\ Head(q \o more) = Head(q)
  BY <1>5, ConcatParts
<1>10. accepted' = accepted \o more
  BY <1>3, <1>7, <1>9
<1>11. delivered \in Seq(Int) /\ accepted \in Seq(Int) /\ delivered \o q = accepted
  BY DEF PollerInv, DeliversInOrder
<1> HIDE DEF q
<1>12. accepted' \in Seq(Int) /\ delivered \o (q \o more) = accepted'
  <2>1. (delivered \o q) \o more = delivered \o (q \o more)
    BY <1>5, <1>11, IntConcat
  <2>2. accepted \o more \in Seq(Int)
    BY <1>11, ConcatProperties
  <2>3. QED
    BY <1>10, <1>11, <2>1, <2>2
<1>13. DeliversInOrder'
  BY <1>4, <1>8, <1>12 DEF DeliversInOrder
<1>14. Ascends(stream)'
  BY <1>2, <1>6
<1>15. /\ stream.queue # << >> => stream'.queue # << >>
       /\ stream.queue # << >> => Head(stream'.queue) = Head(stream.queue)
  BY <1>8, <1>9 DEF q
<1>16. QED
  BY <1>4, <1>11, <1>12, <1>13, <1>14, <1>15 DEF PollerInv, AskedNeverWaits

(* Next removes what it has seen, and hands it over.                       *)
LEMMA PopKeeps ==
  ASSUME PollerInv, NextPop
  PROVE  PollerInv'
<1> DEFINE r == PopPacketAtTimestamp(stream, seen.min)
           q == stream.queue
<1>1. /\ app = "pop" /\ stream' = r.stream /\ app' = "idle"
      /\ delivered' = IF r.found THEN Append(delivered, seen.min) ELSE delivered
      /\ UNCHANGED <<asked, seen, accepted>>
  BY DEF NextPop
<1>2. Ascends(stream) /\ q # << >> /\ seen.min = Head(q) /\ q \in Seq(Int)
  BY <1>1 DEF PollerInv, Ascends, StreamType
<1>3. r.found /\ r.stream.queue = Tail(q) /\ Ascends(r.stream)
  BY <1>2, PopTakesTheHead
<1> HIDE DEF r
<1>4. delivered' = Append(delivered, Head(q)) /\ stream'.queue = Tail(q) /\ Ascends(stream)'
  BY <1>1, <1>2, <1>3
<1>5. delivered \in Seq(Int) /\ accepted \in Seq(Int) /\ delivered \o q = accepted
  BY DEF PollerInv, DeliversInOrder
<1> HIDE DEF q
<1>6. Append(delivered, Head(q)) \in Seq(Int) /\ Append(delivered, Head(q)) \o Tail(q) = delivered \o q
  BY <1>2, <1>5, HeadMoves
<1>7. DeliversInOrder' /\ delivered' \in Seq(Int)
  BY <1>1, <1>4, <1>5, <1>6 DEF DeliversInOrder
<1>8. QED
  BY <1>1, <1>4, <1>5, <1>7 DEF PollerInv, AskedNeverWaits

(* The other steps of Next, of QueueSize and Reset.                        *)
LEMMA AppKeeps ==
  ASSUME PollerInv,
         QueueSizeIsPositive \/ CallNext \/ NextTest \/ NextWait \/ NextBreak \/ Reset
  PROVE  PollerInv'
<1>1. CASE QueueSizeIsPositive \/ CallNext
  BY <1>1 DEF QueueSizeIsPositive, CallNext, IsEmptyStream, PollerInv, DeliversInOrder, AskedNeverWaits
<1>2. CASE NextTest
  <2>1. /\ UNCHANGED <<stream, asked, accepted, delivered>>
        /\ app' = "decide" /\ (app = "lock" \/ app = "waiting")
        /\ seen' = [min |-> MinTimestampOrBound(stream), empty |-> IsEmptyStream(stream)]
    BY <1>2 DEF NextTest
  <2>2. /\ seen'.min = MinTimestampOrBound(stream)
        /\ seen'.empty <=> stream.queue = << >>
    BY <2>1 DEF IsEmptyStream
  <2>3. ~seen'.empty => stream.queue # << >> /\ seen'.min = Head(stream.queue)
    BY <2>2 DEF MinTimestampOrBound, IsEmptyStream
  <2>4. asked => ~seen'.empty
    BY <2>1, <2>2 DEF PollerInv, AskedNeverWaits
  <2>5. QED
    BY <2>1, <2>3, <2>4 DEF PollerInv, DeliversInOrder, AskedNeverWaits
<1>3. CASE NextWait
  <2>1. seen.empty /\ app = "decide" /\ app' = "waiting"
    BY <1>3 DEF NextWait, NextReady
  <2>2. ~asked
    BY <2>1 DEF PollerInv
  <2>3. QED
    BY <1>3, <2>1, <2>2 DEF NextWait, PollerInv, DeliversInOrder, AskedNeverWaits
<1>4. CASE NextBreak
  <2>1. /\ app = "decide" /\ app' = (IF seen.empty THEN "idle" ELSE "pop")
        /\ UNCHANGED <<stream, asked, seen, accepted, delivered>>
    BY <1>4 DEF NextBreak
  <2>2. QED
    BY <2>1 DEF PollerInv, DeliversInOrder, AskedNeverWaits
<1>5. CASE Reset
  <2>1. /\ app = "idle" /\ stream' = NewStream(-1) /\ accepted' = << >> /\ delivered' = << >>
        /\ UNCHANGED <<app, asked, seen>>
    BY <1>5 DEF Reset, appVars
  <2>2. Ascends(stream)' /\ stream'.queue = << >>
    BY <2>1, NewStreamAscends DEF NewStream
  <2>3. << >> \in Seq(Int) /\ << >> \o << >> = << >>
    BY EmptySeq, ConcatEmptySeq
  <2>4. QED
    BY <2>1, <2>2, <2>3 DEF PollerInv, DeliversInOrder, AskedNeverWaits
<1>6. QED
  BY <1>1, <1>2, <1>3, <1>4, <1>5

(* Every step of the three threads keeps the invariant.                    *)
LEMMA PollerInvStep == PollerInv /\ [PollerNext /\ UNCHANGED observes]_<<pollerVars, observes>> => PollerInv'
<1> SUFFICES ASSUME PollerInv, [PollerNext /\ UNCHANGED observes]_<<pollerVars, observes>>
             PROVE  PollerInv'
  OBVIOUS
<1>1. ASSUME NEW packets \in Batches, Emit(packets) PROVE PollerInv'
  BY <1>1, EmitKeeps
<1>2. ASSUME NEW bound \in Timestamps, RaiseBound(bound) PROVE PollerInv'
  <2> DEFINE r == SetNextTimestampBound(stream, bound)
  <2>1. stream' = r.stream /\ UNCHANGED <<app, asked, seen, accepted, delivered>>
    BY <1>2 DEF RaiseBound, appVars
  <2>2. Ascends(stream)
    BY DEF PollerInv
  <2>3. Ascends(r.stream) /\ r.stream.queue = stream.queue
    BY <2>2, BoundKeepsAscending
  <2> HIDE DEF r
  <2>4. QED
    BY <2>1, <2>3, PollerRests
<1>3. CASE Notify \/ WriterError \/ RecordError \/ RecorderError \/ UNCHANGED <<pollerVars, observes>>
  <2>1. UNCHANGED <<stream, app, asked, seen, accepted, delivered>>
    BY <1>3 DEF Notify, WriterError, RecordError, RecorderError, appVars, pollerVars
  <2>2. Ascends(stream)'
    BY <2>1 DEF PollerInv
  <2>3. QED
    BY <2>1, <2>2, PollerRests
<1>4. CASE NextPop
  BY <1>4, PopKeeps
<1>5. CASE QueueSizeIsPositive \/ CallNext \/ NextTest \/ NextWait \/ NextBreak \/ Reset
  BY <1>5, AppKeeps
<1>6. QED
  BY <1>1, <1>2, <1>3, <1>4, <1>5 DEF PollerNext

(* The application gets what the stream accepted, in that order, nothing   *)
(* twice and nothing left out, whatever arrives between the test in Next   *)
(* and the removal without mutex_.                                         *)
THEOREM PollerDeliversInOrder == PollerSpec => []DeliversInOrder
<1>1. PollerInv => DeliversInOrder
  BY DEF PollerInv
<1>2. QED
  BY <1>1, PollerInvInit, PollerInvStep, PTL DEF PollerSpec

(* Next never blocks when QueueSize() was positive.                        *)
THEOREM PollerAskedNeverWaits == PollerSpec => []AskedNeverWaits
<1>1. PollerInv => AskedNeverWaits
  BY DEF PollerInv
<1>2. QED
  BY <1>1, PollerInvInit, PollerInvStep, PTL DEF PollerSpec

=============================================================================
