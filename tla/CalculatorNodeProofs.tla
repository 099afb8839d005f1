------------------------ MODULE CalculatorNodeProofs ------------------------
(***************************************************************************)
(* Proofs of the safety properties of a calculator node, for any number of *)
(* input streams, workers and invocations in flight.                       *)
(***************************************************************************)
EXTENDS CalculatorNode, StreamLemmas

-----------------------------------------------------------------------------
(* The invariant of the inputs.                                            *)

Closing == {"close", "closeOutputs", "closeManager", "closed"}
InHand == {"process", "post", "postProp", "end"} \cup Closing
Places == InHand \cup {"idle", "open", "notify", "loop", "loopProp"}

LoopType ==
  [at : {"none", "enter", "read", "decide", "update", "leave"}, left : Int, next : Int,
   bound : Int, packet : Int]

NodeType ==
  /\ node \in Nodes
  /\ feed \in [Streams -> [bound : Int, sent : SUBSET Int]]
  /\ DOMAIN strm = Streams
  /\ \A i \in Streams : Ascends(strm[i]) /\ strm[i].bound <= Done
  /\ loop \in LoopType /\ loop.bound <= Done
  /\ loop.packet = Done \/ IsAllowedInStream(loop.packet)
  /\ loop.at = "read" => loop.next \in Streams
  /\ loop.at = "decide" => loop.next = node.streams + 1
  /\ lastTs \in Int /\ DOMAIN inputs \subseteq Int
  /\ pc \in [Threads -> Places] /\ inFlight \in Int

(* Nothing earlier than b is or will be queued, and none was read in the   *)
(* present round of the scheduler.                                         *)
Floor(b) ==
  /\ \A i \in Streams : b <= strm[i].bound /\ \A x \in Queued(strm[i]) : b <= x
  /\ b <= loop.bound /\ b <= loop.packet

(* The queue of a stream is what was sent and not yet processed.           *)
Received(i) ==
  /\ ~strm[i].closed => /\ strm[i].bound = feed[i].bound
                        /\ strm[i].some => feed[i].sent # {}
  /\ strm[i].closed => feed[i].bound >= OneOverPostStream
  /\ Queued(strm[i]) \subseteq feed[i].sent
  /\ \A x \in feed[i].sent : x < feed[i].bound /\ (x \in Queued(strm[i]) \/ x \in DOMAIN inputs)

(* What has been read of a stream in this round still holds: streams go on *)
(* only beyond it.                                                         *)
Seen(i) ==
  /\ Queued(strm[i]) = {} => loop.bound <= strm[i].bound
  /\ \A x \in Queued(strm[i]) : Earlier(loop.bound, loop.packet) <= x

(* Time goes on; the node is closed after all packets.                     *)
TimeInv ==
  /\ Floor(lastTs + 1)
  /\ \A a \in DOMAIN inputs : Floor(a + 1) /\ (a <= lastTs \/ Floor(OneOverPostStream))
  /\ prepared => Floor(OneOverPostStream)
  /\ Done \in tasks => prepared
  /\ \A t \in Threads : pc[t] \in Closing => prepared

InputInv ==
  /\ NodeType
  /\ \A i \in Streams : Received(i)
  /\ loop.at \in {"read", "decide"} => \A i \in 1 .. loop.next - 1 : Seen(i)
  /\ TimeInv
  /\ InputSetsComplete

(* The constants of a node.                                                *)
LEMMA NodeFacts ==
  ASSUME node \in Nodes
  PROVE  /\ node.streams \in Nat \ {0} /\ node.inFlight \in Nat \ {0}
         /\ Streams = 1 .. node.streams /\ Workers \subseteq AllWorkers
         /\ Threads = Streams \cup Workers /\ Streams \cap Workers = {}
         /\ MaxInFlight \in Nat \ {0} /\ MaxInFlight = node.inFlight
         /\ Workers # {} /\ IsFiniteSet(Threads)
<1>1. /\ node.streams \in Nat \ {0} /\ node.inFlight \in Nat \ {0}
      /\ node.workers \subseteq AllWorkers /\ node.workers # {}
      /\ AllWorkers \cap (1 .. node.streams) = {}
  BY CalculatorNodeAssumption
<1>2. Streams \cap Workers = {}
  BY <1>1 DEF Streams, Workers
<1>3. IsFiniteSet(Streams)
  BY <1>1, FS_Interval DEF Streams
<1>4. IsFiniteSet(Workers)
  BY <1>1, CalculatorNodeAssumption, FS_Subset DEF Workers
<1>5. IsFiniteSet(Threads)
  BY <1>3, <1>4, FS_Union DEF Threads
<1>6. QED
  BY <1>1, <1>2, <1>5 DEF Streams, Workers, Threads, MaxInFlight

(* The time line.                                                          *)
LEMMA TimeLine ==
  /\ MaxTimestamp \in Nat /\ Unset = -3 /\ Unstarted = -2 /\ PreStream = -1 /\ MinTimestamp = 0
  /\ PostStream = MaxTimestamp + 1 /\ OneOverPostStream = MaxTimestamp + 2
  /\ Done = MaxTimestamp + 3
BY TimestampAssumption
   DEF Unset, Unstarted, PreStream, MinTimestamp, PostStream, OneOverPostStream, Done

(* A step that changes of the inputs at most what the scheduler has read.  *)
LEMMA LoopChanges ==
  ASSUME InputInv, UNCHANGED <<node, feed, strm, lastTs, inputs, prepared>>,
         pc' \in [Threads -> Places], inFlight' \in Int,
         loop' \in LoopType, loop'.bound <= Done,
         loop'.packet = Done \/ IsAllowedInStream(loop'.packet),
         loop'.at = "read" => loop'.next \in Streams,
         loop'.at = "decide" => loop'.next = node.streams + 1,
         \A b \in Int : Floor(b) => b <= loop'.bound /\ b <= loop'.packet,
         (loop.at \in {"read", "decide"} => \A i \in 1 .. loop.next - 1 : Seen(i))',
         Done \in tasks' => Done \in tasks,
         \A t \in Threads : pc'[t] \in Closing => pc[t] \in Closing \/ Done \in tasks
  PROVE  InputInv'
<1>1. Streams' = Streams /\ Threads' = Threads
  BY DEF InputInv, Streams, Threads, Workers
<1>2. NodeType'
  BY <1>1 DEF InputInv, NodeType
<1>3. ASSUME NEW b \in Int, Floor(b) PROVE Floor(b)'
  BY <1>1, <1>3 DEF Floor
<1>4. TimeInv'
  <2>1. lastTs + 1 \in Int /\ OneOverPostStream \in Int /\ \A a \in DOMAIN inputs : a + 1 \in Int
    BY TimestampFacts DEF InputInv, NodeType
  <2>2. QED
    BY <1>1, <1>3, <2>1 DEF InputInv, TimeInv
<1>5. (\A i \in Streams : Received(i))' /\ InputSetsComplete'
  BY <1>1 DEF InputInv, Received, InputSetsComplete
<1>6. QED
  BY <1>2, <1>4, <1>5 DEF InputInv

(* A step that leaves the inputs alone: at most it starts another round.   *)
LEMMA InputRests ==
  ASSUME InputInv, UNCHANGED <<node, feed, strm, lastTs, inputs, prepared>>,
         pc' \in [Threads -> Places], inFlight' \in Int,
         loop' \in LoopType, loop'.bound <= Done,
         loop'.packet = Done \/ IsAllowedInStream(loop'.packet),
         \A b \in Int : b <= loop.bound /\ b <= loop.packet => b <= loop'.bound /\ b <= loop'.packet,
         loop' = loop \/ loop'.at \notin {"read", "decide"} \/ (loop'.at = "read" /\ loop'.next = 1),
         Done \in tasks' => Done \in tasks,
         \A t \in Threads : pc'[t] \in Closing => pc[t] \in Closing \/ Done \in tasks
  PROVE  InputInv'
<1>1. 1 \in Streams
  BY NodeFacts DEF InputInv, NodeType
<1>2. /\ loop'.at = "read" => loop'.next \in Streams
      /\ loop'.at = "decide" => loop'.next = node.streams + 1
  BY <1>1 DEF InputInv, NodeType
<1>3. \A b \in Int : Floor(b) => b <= loop'.bound /\ b <= loop'.packet
  BY DEF Floor
<1>4. (loop.at \in {"read", "decide"} => \A i \in 1 .. loop.next - 1 : Seen(i))'
  <2>1. CASE loop' = loop
    BY <2>1 DEF InputInv, Seen
  <2>2. CASE loop'.at = "read" /\ loop'.next = 1
    BY <2>2
  <2>3. QED
    BY <2>1, <2>2
<1>5. QED
  BY <1>2, <1>3, <1>4, LoopChanges

(* What is fed to a stream comes behind everything that was there.         *)
LEMMA FedKeeps ==
  ASSUME InputInv, UNCHANGED node, NEW i \in Streams, NEW r, NEW bound \in Int,
         NEW packets \in SUBSET Int, Fed(i, r, bound, packets),
         feed[i].bound <= bound, bound <= Done, \A x \in packets : feed[i].bound <= x /\ x < bound,
         Ascends(r.stream), r.stream.closed = strm[i].closed,
         ~strm[i].closed => /\ r.stream.bound = bound
                            /\ Queued(r.stream) = Queued(strm[i]) \cup packets
                            /\ r.stream.some => strm[i].some \/ packets # {},
         strm[i].closed => r.stream = strm[i] /\ packets = {}
  PROVE  InputInv'
<1>1. /\ Streams' = Streams /\ Threads' = Threads /\ i \in Threads
      /\ strm' = [strm EXCEPT ![i] = r.stream]
      /\ feed' = [feed EXCEPT ![i] = [bound |-> bound, sent |-> feed[i].sent \cup packets]]
      /\ pc' = [pc EXCEPT ![i] = "notify"] \/ pc' = pc
      /\ UNCHANGED <<lastTs, inputs, prepared, loop, tasks, inFlight>>
  BY DEF InputInv, Streams, Threads, Workers, Fed, Goto, schedVars
<1>2. /\ node \in Nodes /\ DOMAIN strm = Streams /\ Done \in Int /\ OneOverPostStream \in Int
      /\ \A j \in Streams : Ascends(strm[j]) /\ strm[j].bound <= Done /\ strm[j].bound \in Int
      /\ feed \in [Streams -> [bound : Int, sent : SUBSET Int]]
      /\ loop \in LoopType /\ lastTs \in Int /\ DOMAIN inputs \subseteq Int
      /\ pc \in [Threads -> Places]
  BY HeadIsEarliest, TimestampFacts DEF InputInv, NodeType
<1>3. r.stream.bound \in Int /\ strm[i].bound <= r.stream.bound /\ r.stream.bound <= Done
  <2>1. Received(i)
    BY DEF InputInv
  <2>2. QED
    BY <1>2, <2>1, HeadIsEarliest DEF Received
<1>4. /\ strm'[i] = r.stream /\ \A j \in Streams : j # i => strm'[j] = strm[j]
      /\ DOMAIN strm' = Streams
      /\ feed'[i].bound = bound /\ feed'[i].sent = feed[i].sent \cup packets
      /\ \A j \in Streams : j # i => feed'[j] = feed[j]
      /\ feed' \in [Streams -> [bound : Int, sent : SUBSET Int]]
  BY <1>1, <1>2
<1>5. pc' \in [Threads -> Places] /\ \A t \in Threads : pc'[t] \in Closing => pc[t] \in Closing
  BY <1>1, <1>2 DEF Places, Closing
<1>6. NodeType'
  BY <1>1, <1>2, <1>3, <1>4, <1>5 DEF InputInv, NodeType
<1>7. ASSUME NEW b \in Int, Floor(b) PROVE Floor(b)'
  <2>1. ~strm[i].closed => strm[i].bound = feed[i].bound
    BY DEF InputInv, Received
  <2>2. b <= strm[i].bound /\ \A x \in Queued(strm[i]) : b <= x
    BY <1>7 DEF Floor
  <2>3. \A x \in packets : b <= x
    BY <1>2, <2>1, <2>2
  <2>4. b <= r.stream.bound
    BY <1>2, <1>3, <2>2
  <2>5. \A x \in Queued(r.stream) : b <= x
    BY <2>2, <2>3
  <2>6. QED
    BY <1>1, <1>4, <1>7, <2>4, <2>5 DEF Floor
<1>8. TimeInv'
  <2>1. lastTs + 1 \in Int /\ \A a \in DOMAIN inputs : a + 1 \in Int
    BY <1>2
  <2>2. QED
    BY <1>1, <1>2, <1>5, <1>7, <2>1 DEF InputInv, TimeInv
<1>9. \A a \in DOMAIN inputs : \A x \in packets : a < x
  <2>1. TAKE a \in DOMAIN inputs
  <2>2. a \in Int /\ a + 1 <= strm[i].bound
    BY <1>2 DEF InputInv, TimeInv, Floor
  <2>3. ~strm[i].closed => strm[i].bound = feed[i].bound
    BY DEF InputInv, Received
  <2>4. QED
    BY <1>2, <2>2, <2>3
<1>10. InputSetsComplete'
  <2>1. ASSUME NEW a \in DOMAIN inputs, NEW j \in Streams PROVE a \in feed'[j].sent <=> a \in feed[j].sent
    BY <1>4, <1>9, <2>1
  <2>2. \A a \in DOMAIN inputs : {j \in Streams : a \in feed'[j].sent} = {j \in Streams : a \in feed[j].sent}
    BY <2>1
  <2>3. QED
    BY <1>1, <2>2 DEF InputInv, InputSetsComplete
<1>11. ASSUME NEW j \in Streams PROVE Received(j)'
  <2>1. Received(j)
    BY DEF InputInv
  <2>2. CASE j # i
    BY <1>1, <1>4, <2>1, <2>2 DEF Received
  <2>3. CASE j = i
    <3>1. \A x \in feed[i].sent : x < feed[i].bound /\ x \in Int
      BY <1>2, <2>1, <2>3 DEF Received
    <3>2. feed[i].bound \in Int /\ feed[i].bound <= bound
      BY <1>2
    <3>3. ASSUME NEW x \in feed[i].sent \cup packets PROVE x < bound
      <4>1. CASE x \in feed[i].sent
        BY <3>1, <3>2, <4>1
      <4>2. CASE x \in packets
        BY <4>2
      <4>3. QED
        BY <3>3, <4>1, <4>2
    <3>4. CASE strm[i].closed
      BY <1>1, <1>2, <1>4, <2>1, <2>3, <3>2, <3>3, <3>4 DEF Received
    <3>5. CASE ~strm[i].closed
      BY <1>1, <1>4, <2>1, <2>3, <3>3, <3>5 DEF Received
    <3>6. QED
      BY <3>4, <3>5
  <2>4. QED
    BY <2>2, <2>3
<1>12. (loop.at \in {"read", "decide"} => \A j \in 1 .. loop.next - 1 : Seen(j))'
  <2>1. SUFFICES ASSUME loop.at \in {"read", "decide"}, NEW j \in 1 .. loop.next - 1 PROVE Seen(j)'
    BY <1>1
  <2>2. Seen(j) /\ j \in Streams
    <3>1. loop.next - 1 \in 0 .. node.streams
      BY <1>2, <2>1, NodeFacts DEF InputInv, NodeType
    <3>2. QED
      BY <1>2, <2>1, <3>1, NodeFacts DEF InputInv
  <2>3. CASE j # i
    BY <1>1, <1>4, <2>2, <2>3 DEF Seen
  <2>4. CASE j = i
    <3> DEFINE m == Earlier(loop.bound, loop.packet)
    <3>1. loop.bound \in Int /\ loop.packet \in Int /\ m \in Int /\ m <= loop.bound
      BY <1>2 DEF LoopType, Earlier
    <3>2. CASE strm[i].closed
      BY <1>1, <1>4, <2>2, <2>4, <3>2 DEF Seen
    <3>3. CASE ~strm[i].closed
      <4>1. strm[i].bound = feed[i].bound
        BY <3>3 DEF InputInv, Received
      <4>2. (Queued(strm[i]) = {} => loop.bound <= strm[i].bound) /\ \A x \in Queued(strm[i]) : m <= x
        BY <2>2, <2>4 DEF Seen
      <4>3. \A x \in packets : m <= x
        <5>1. Queued(strm[i]) = {} => m <= strm[i].bound
          BY <1>2, <3>1, <4>2
        <5>2. \A x \in Queued(strm[i]) : x < strm[i].bound /\ x \in Int
          BY <1>2, HeadIsEarliest
        <5>3. m <= strm[i].bound
          BY <1>2, <3>1, <4>2, <5>1, <5>2
        <5>4. QED
          BY <1>2, <3>1, <4>1, <5>3
      <4>4. Queued(r.stream) = {} => loop.bound <= r.stream.bound
        BY <1>2, <1>3, <3>1, <3>3, <4>2
      <4>5. \A x \in Queued(r.stream) : m <= x
        BY <3>3, <4>2, <4>3
      <4>6. QED
        BY <1>1, <1>4, <2>4, <4>4, <4>5 DEF Seen
    <3>4. QED
      BY <3>2, <3>3
  <2>5. QED
    BY <2>3, <2>4
<1>13. QED
  BY <1>1, <1>6, <1>8, <1>10, <1>11, <1>12 DEF InputInv

(* A fed packet.                                                           *)
LEMMA FeedPacketKeeps ==
  ASSUME InputInv, UNCHANGED node, NEW i \in Streams, FeedPacket(i)
  PROVE  InputInv'
<1>1. PICK t \in FedTimes :
        /\ t >= feed[i].bound /\ (t = PostStream => feed[i].sent = {})
        /\ Fed(i, AddPackets(strm[i], <<t>>), NextAllowedInStream(t), {t})
  BY DEF FeedPacket
<1> DEFINE r == AddPackets(strm[i], <<t>>)
           next == NextAllowedInStream(t)
<1>2. t \in PreStream .. PostStream
  BY CalculatorNodeAssumption
<1>3. /\ t \in Int /\ t \in Timestamps /\ IsAllowedInStream(t)
      /\ next \in Int /\ t < next /\ next <= Done
  BY <1>2, TimeLine DEF Timestamps, IsAllowedInStream, NextAllowedInStream
<1>4. Ascends(strm[i]) /\ Received(i) /\ feed[i].bound \in Int
  BY DEF InputInv, NodeType
<1>5. ~strm[i].closed
  <2>1. strm[i].closed => feed[i].bound >= OneOverPostStream
    BY <1>4 DEF Received
  <2>2. QED
    BY <1>1, <1>2, <1>3, <1>4, <2>1, TimeLine
<1>6. t >= strm[i].bound /\ (t = PostStream => ~strm[i].some)
  BY <1>1, <1>4, <1>5 DEF Received
<1>7. /\ Ascends(r.stream) /\ ~r.stream.closed
      /\ Queued(r.stream) = Queued(strm[i]) \cup {t} /\ r.stream.bound = next
  BY <1>3, <1>4, <1>5, <1>6, AddOne
<1>8. r.stream.closed = strm[i].closed
  BY <1>4, <1>5, <1>7, HeadIsEarliest
<1>9. {t} \in SUBSET Int /\ {t} # {} /\ \A x \in {t} : feed[i].bound <= x /\ x < next
  BY <1>1, <1>3, <1>4
<1>10. feed[i].bound <= next
  BY <1>1, <1>3, <1>4
<1> HIDE DEF r, next
<1>11. Fed(i, r, next, {t})
  BY <1>1 DEF r, next
<1>12. QED
  BY <1>3, <1>5, <1>7, <1>8, <1>9, <1>10, <1>11, FedKeeps

(* A fed bound.                                                            *)
LEMMA FeedBoundKeeps ==
  ASSUME InputInv, UNCHANGED node, NEW i \in Streams, FeedBound(i)
  PROVE  InputInv'
<1>1. PICK b \in FedTimes \cup {Done} :
        b > feed[i].bound /\ Fed(i, SetNextTimestampBound(strm[i], b), b, {})
  BY DEF FeedBound
<1> DEFINE r == SetNextTimestampBound(strm[i], b)
<1>2. b \in PreStream .. PostStream \/ b = Done
  BY CalculatorNodeAssumption
<1>3. b \in Int /\ b \in Timestamps /\ b <= Done
  BY <1>2, TimeLine DEF Timestamps
<1>4. Ascends(strm[i]) /\ Received(i) /\ feed[i].bound \in Int
  BY DEF InputInv, NodeType
<1>5. Ascends(r.stream) /\ r.stream.queue = strm[i].queue
  BY <1>3, <1>4, BoundKeepsAscending
<1>6. Queued(r.stream) = Queued(strm[i])
  BY <1>5 DEF Queued
<1>7. CASE strm[i].closed
  <2>1. r.stream = strm[i]
    BY <1>7 DEF SetNextTimestampBound
  <2> HIDE DEF r
  <2>2. Fed(i, r, b, {})
    BY <1>1 DEF r
  <2>3. QED
    BY <1>1, <1>3, <1>4, <1>5, <1>7, <2>1, <2>2, FedKeeps
<1>8. CASE ~strm[i].closed
  <2>1. strm[i].bound = feed[i].bound
    BY <1>4, <1>8 DEF Received
  <2>2. r.stream = [strm[i] EXCEPT !.bound = b]
    BY <1>1, <1>8, <2>1 DEF SetNextTimestampBound
  <2>3. r.stream.bound = b /\ r.stream.closed = strm[i].closed /\ r.stream.some = strm[i].some
    BY <1>4, <2>2 DEF Ascends, StreamType
  <2> HIDE DEF r
  <2>4. Fed(i, r, b, {})
    BY <1>1 DEF r
  <2>5. Queued(r.stream) = Queued(strm[i]) \cup {}
    BY <1>6
  <2>6. QED
    BY <1>1, <1>3, <1>4, <1>5, <1>8, <2>3, <2>4, <2>5, FedKeeps
<1>9. QED
  BY <1>7, <1>8

(* Reading a stream lowers what the scheduler knows to that stream.        *)
LEMMA ReadStreamKeeps ==
  ASSUME InputInv, UNCHANGED node, NEW t \in Threads, ReadStream(t)
  PROVE  InputInv'
<1> DEFINE k == loop.next
           s == strm[k]
           m == MinTimestampOrBound(s)
<1>1. loop.at = "read" /\ k \in Streams /\ k \in 1 .. node.streams /\ node.streams \in Nat
  BY NodeFacts DEF InputInv, NodeType, ReadStream, In
<1>2. /\ loop' = [loop EXCEPT !.at = IF k = node.streams THEN "decide" ELSE "read",
                              !.next = k + 1,
                              !.bound = IF IsEmptyStream(s) THEN Earlier(loop.bound, m) ELSE loop.bound,
                              !.packet = IF IsEmptyStream(s) THEN loop.packet ELSE Earlier(loop.packet, m)]
      /\ UNCHANGED <<feed, strm, lastTs, inputs, prepared, tasks, pc, inFlight>>
  BY DEF ReadStream, inputVars, InputInv, NodeType, LoopType
<1>3. /\ loop \in LoopType /\ loop.bound <= Done /\ Done \in Int
      /\ loop.packet = Done \/ IsAllowedInStream(loop.packet)
  BY TimestampFacts DEF InputInv, NodeType
<1>4. /\ s.bound \in Int /\ s.bound <= Done
      /\ IsEmptyStream(s) <=> Queued(s) = {}
      /\ \A x \in Queued(s) : x \in Int /\ IsAllowedInStream(x) /\ x < s.bound
      /\ ~IsEmptyStream(s) => Head(s.queue) \in Queued(s) /\ \A x \in Queued(s) : Head(s.queue) <= x
  BY <1>1, HeadIsEarliest DEF InputInv, NodeType
<1>5. /\ IsEmptyStream(s) => m = s.bound
      /\ ~IsEmptyStream(s) => m \in Queued(s) /\ \A x \in Queued(s) : m <= x
  BY <1>4 DEF MinTimestampOrBound
<1>6. m \in Int /\ m <= s.bound /\ m <= Done /\ (~IsEmptyStream(s) => IsAllowedInStream(m))
  BY <1>3, <1>4, <1>5
<1> HIDE DEF m, s
<1>7. /\ loop'.at = IF k = node.streams THEN "decide" ELSE "read"
      /\ loop'.next = k + 1
      /\ loop'.bound = IF IsEmptyStream(s) THEN Earlier(loop.bound, m) ELSE loop.bound
      /\ loop'.packet = IF IsEmptyStream(s) THEN loop.packet ELSE Earlier(loop.packet, m)
      /\ loop' \in LoopType
  <2> DEFINE at == IF k = node.streams THEN "decide" ELSE "read"
             bound == IF IsEmptyStream(s) THEN Earlier(loop.bound, m) ELSE loop.bound
             packet == IF IsEmptyStream(s) THEN loop.packet ELSE Earlier(loop.packet, m)
  <2>1. at \in {"decide", "read"} /\ bound \in Int /\ packet \in Int /\ k + 1 \in Int
    BY <1>1, <1>3, <1>6 DEF LoopType, Earlier
  <2>2. loop' = [loop EXCEPT !.at = at, !.next = k + 1, !.bound = bound, !.packet = packet]
    BY <1>2, Zenon
  <2> HIDE DEF at, bound, packet, k
  <2>3. /\ loop'.at = at /\ loop'.next = k + 1 /\ loop'.bound = bound /\ loop'.packet = packet
        /\ loop' \in LoopType
    BY <1>3, <2>1, <2>2 DEF LoopType
  <2>4. QED
    BY <2>3, Zenon DEF at, bound, packet
<1>8. /\ loop'.bound \in Int /\ loop'.packet \in Int
      /\ loop'.bound <= loop.bound /\ loop'.packet <= loop.packet
      /\ loop'.bound <= Done
      /\ loop'.packet = Done \/ IsAllowedInStream(loop'.packet)
  BY <1>3, <1>6, <1>7 DEF LoopType, Earlier
<1>9. ASSUME NEW b \in Int, Floor(b) PROVE b <= loop'.bound /\ b <= loop'.packet
  <2>1. b <= s.bound /\ b <= loop.bound /\ b <= loop.packet /\ \A x \in Queued(s) : b <= x
    BY <1>1, <1>9 DEF Floor, s
  <2>2. b <= m
    BY <1>5, <2>1
  <2>3. QED
    BY <1>3, <1>6, <1>7, <2>1, <2>2 DEF LoopType, Earlier
<1>10. ASSUME NEW i \in 1 .. k PROVE Seen(i)'
  <2> DEFINE n == Earlier(loop.bound, loop.packet)
             n1 == Earlier(loop'.bound, loop'.packet)
  <2>1. n \in Int /\ n1 \in Int /\ n1 <= n /\ n1 <= loop'.bound /\ n1 <= loop'.packet
    BY <1>3, <1>8 DEF Earlier, LoopType
  <2>2. i \in Streams /\ strm[i].bound \in Int /\ \A x \in Queued(strm[i]) : x \in Int
    <3>1. i \in Streams
      BY <1>1 DEF Streams
    <3>2. Ascends(strm[i])
      BY <3>1 DEF InputInv, NodeType
    <3>3. QED
      BY <3>1, <3>2, HeadIsEarliest
  <2>3. CASE i # k
    <3>1. Seen(i)
      BY <1>1, <2>3 DEF InputInv
    <3>2. \A x \in Queued(strm[i]) : n1 <= x
      BY <2>1, <2>2, <3>1 DEF Seen
    <3>3. Queued(strm[i]) = {} => loop'.bound <= strm[i].bound
      BY <1>3, <1>8, <2>2, <3>1 DEF Seen, LoopType
    <3>4. QED
      BY <1>2, <3>2, <3>3 DEF Seen
  <2>4. CASE i = k
    <3>1. \A x \in Queued(s) : n1 <= x
      <4>1. TAKE x \in Queued(s)
      <4>2. ~IsEmptyStream(s) /\ m <= x /\ x \in Int
        BY <1>4, <1>5
      <4>3. loop'.packet <= m
        BY <1>3, <1>6, <1>7, <4>2 DEF Earlier, LoopType
      <4>4. QED
        BY <1>6, <1>8, <2>1, <4>2, <4>3
    <3>2. Queued(s) = {} => loop'.bound <= s.bound
      BY <1>3, <1>4, <1>5, <1>6, <1>7 DEF Earlier, LoopType
    <3>3. QED
      BY <1>2, <2>4, <3>1, <3>2 DEF Seen, s
  <2>5. QED
    BY <2>3, <2>4
<1>11. (loop.at \in {"read", "decide"} => \A i \in 1 .. loop.next - 1 : Seen(i))'
  <2>1. loop'.next - 1 = k
    BY <1>1, <1>7
  <2>2. QED
    BY <1>10, <2>1
<1>12. /\ loop'.at = "read" => loop'.next \in Streams
       /\ loop'.at = "decide" => loop'.next = node.streams + 1
  BY <1>1, <1>7 DEF Streams
<1>13. pc' \in [Threads -> Places] /\ inFlight' \in Int
  BY <1>2 DEF InputInv, NodeType
<1>14. QED
  BY <1>2, <1>7, <1>8, <1>9, <1>11, <1>12, <1>13, LoopChanges

(* The time to process was settled by every stream: it lies after all that *)
(* was processed, not after a packet and before the bounds.                *)
LEMMA ReadyIsSettled ==
  ASSUME InputInv, loop.at = "decide", ~ReadyForClose, NEW ts,
         ts = ReadyAt(loop.bound, loop.packet), ts # Unset
  PROVE  /\ ts \in Int /\ ts < loop.bound /\ ts <= loop.packet /\ lastTs < ts /\ Unstarted < ts
         /\ ts <= PostStream /\ (ts = PostStream => loop.packet = PostStream) /\ ts < Done
         /\ ~Floor(OneOverPostStream)
<1>1. /\ loop.bound \in Int /\ loop.packet \in Int /\ lastTs \in Int
      /\ lastTs + 1 <= loop.bound /\ lastTs + 1 <= loop.packet /\ loop.bound <= Done
  BY DEF InputInv, NodeType, LoopType, TimeInv, Floor
<1>2. ~Floor(OneOverPostStream)
  BY <1>1, TimeLine DEF ReadyForClose, Earlier, Floor
<1> DEFINE settled == IF loop.packet = PostStream /\ loop.bound > loop.packet THEN loop.packet
                      ELSE PreviousAllowedInStream(loop.bound)
<1>3. CASE ~ProcessTimestampBounds
  <2>1. ts = loop.packet /\ loop.bound > loop.packet
    BY <1>3 DEF ReadyAt
  <2>2. IsAllowedInStream(loop.packet)
    BY <1>1, <2>1, TimeLine DEF InputInv, NodeType
  <2>3. QED
    BY <1>1, <1>2, <2>1, <2>2, TimeLine DEF IsAllowedInStream
<1>4. CASE ProcessTimestampBounds
  <2>1. ts = Earlier(loop.packet, settled) /\ ts > Later(lastTs, Unstarted)
    BY <1>4, Zenon DEF ReadyAt
  <2>2. settled \in Int /\ settled <= PostStream /\ (settled > Unstarted => settled < loop.bound)
    BY <1>1, TimeLine DEF PreviousAllowedInStream
  <2>3. settled = PostStream => loop.packet = PostStream
    BY <1>1, TimeLine DEF PreviousAllowedInStream
  <2> HIDE DEF settled
  <2>4. QED
    BY <1>1, <1>2, <2>1, <2>2, <2>3, TimeLine DEF Earlier, Later
<1>5. QED
  BY <1>3, <1>4

(* What is left of the streams when the input set of ts has been taken.    *)
LEMMA TakenInputs ==
  ASSUME InputInv, loop.at = "decide", ~ReadyForClose, NEW ts,
         ts = ReadyAt(loop.bound, loop.packet), ts # Unset,
         NEW i \in Streams, NEW r, r = PopPacketAtTimestamp(strm[i], ts)
  PROVE  /\ ts < strm[i].bound /\ \A x \in Queued(strm[i]) : ts <= x
         /\ r.ok = (strm[i].selected <= ts) /\ r.dropped = 0 /\ r.found = (ts \in Queued(strm[i]))
         /\ Ascends(r.stream) /\ Queued(r.stream) = Queued(strm[i]) \ {ts}
         /\ r.stream.bound = strm[i].bound /\ r.stream.selected = ts
         /\ r.stream.closed = strm[i].closed /\ r.stream.some = strm[i].some
<1>1. ts \in Int /\ ts < loop.bound /\ ts <= loop.packet
  BY ReadyIsSettled
<1>2. loop.bound \in Int /\ loop.packet \in Int
  BY DEF InputInv, NodeType, LoopType
<1>3. Seen(i)
  <2>1. loop.next = node.streams + 1 /\ node.streams \in Nat /\ i \in 1 .. node.streams
    BY NodeFacts DEF InputInv, NodeType
  <2>2. i \in 1 .. loop.next - 1
    BY <2>1
  <2>3. QED
    BY <2>2 DEF InputInv
<1>4. Ascends(strm[i]) /\ strm[i].bound \in Int /\ \A x \in Queued(strm[i]) : x \in Int /\ x < strm[i].bound
  BY HeadIsEarliest DEF InputInv, NodeType
<1>5. \A x \in Queued(strm[i]) : ts <= x
  BY <1>1, <1>2, <1>3, <1>4 DEF Seen, Earlier
<1>6. ts < strm[i].bound
  BY <1>1, <1>2, <1>3, <1>4, <1>5 DEF Seen
<1>7. QED
  BY <1>1, <1>4, <1>5, <1>6, PopOne

(* Scheduling an invocation.                                               *)
LEMMA ScheduleProcessKeeps ==
  ASSUME InputInv, UNCHANGED node, NEW t \in Threads, ScheduleProcess(t)
  PROVE  InputInv'
<1>0. PICK ts : ts = ReadyAt(loop.bound, loop.packet)
  OBVIOUS
<1> DEFINE pop(i) == PopPacketAtTimestamp(strm[i], ts)
<1>1. /\ loop.at = "decide" /\ ~ReadyForClose /\ ts # Unset
      /\ lastTs' = ts /\ strm' = [i \in Streams |-> pop(i).stream]
      /\ inputs' = [u \in DOMAIN inputs \cup {ts} |->
                      IF u = ts THEN {i \in Streams : pop(i).found} ELSE inputs[u]]
      /\ tasks' = tasks \cup {ts} /\ loop' = Reading(loop.left - 1) /\ inFlight' = inFlight + 1
      /\ UNCHANGED <<feed, prepared, pc>>
  <2> DEFINE popped == [i \in Streams |-> pop(i)]
  <2>1. /\ loop.at = "decide" /\ ~ReadyForClose /\ ts # Unset
        /\ lastTs' = ts /\ strm' = [i \in Streams |-> popped[i].stream]
        /\ inputs' = [u \in DOMAIN inputs \cup {ts} |->
                        IF u = ts THEN {i \in Streams : popped[i].found} ELSE inputs[u]]
        /\ tasks' = tasks \cup {ts} /\ loop' = Reading(loop.left - 1) /\ inFlight' = inFlight + 1
        /\ UNCHANGED <<feed, prepared, pc>>
    BY <1>0 DEF ScheduleProcess, In
  <2>2. \A i \in Streams : popped[i] = pop(i)
    OBVIOUS
  <2> HIDE DEF popped, pop
  <2>3. {i \in Streams : popped[i].found} = {i \in Streams : pop(i).found}
    BY <2>2
  <2>4. [i \in Streams |-> popped[i].stream] = [i \in Streams |-> pop(i).stream]
    BY <2>2
  <2>5. QED
    BY <2>1, <2>3, <2>4
<1>2. /\ ts \in Int /\ lastTs < ts /\ ts < Done /\ ~Floor(OneOverPostStream)
  BY <1>0, <1>1, ReadyIsSettled
<1>3. /\ node \in Nodes /\ DOMAIN strm = Streams /\ loop \in LoopType /\ lastTs \in Int
      /\ feed \in [Streams -> [bound : Int, sent : SUBSET Int]]
      /\ DOMAIN inputs \subseteq Int /\ Done \in Int /\ loop.bound <= Done /\ loop.bound \in Int
      /\ \A i \in Streams : Ascends(strm[i]) /\ strm[i].bound <= Done /\ strm[i].bound \in Int
      /\ pc \in [Threads -> Places] /\ inFlight \in Int
  BY TimestampFacts, HeadIsEarliest DEF InputInv, NodeType, LoopType
<1>4. ASSUME NEW i \in Streams
      PROVE  /\ ts < strm[i].bound /\ \A x \in Queued(strm[i]) : ts <= x
             /\ pop(i).found = (ts \in Queued(strm[i]))
             /\ strm'[i] = pop(i).stream
             /\ Ascends(strm'[i]) /\ Queued(strm'[i]) = Queued(strm[i]) \ {ts}
             /\ strm'[i].bound = strm[i].bound
             /\ strm'[i].closed = strm[i].closed /\ strm'[i].some = strm[i].some
  <2> DEFINE r == pop(i)
  <2>1. strm'[i] = r.stream
    BY <1>1
  <2>2. /\ ts < strm[i].bound /\ \A x \in Queued(strm[i]) : ts <= x
        /\ r.found = (ts \in Queued(strm[i]))
        /\ Ascends(r.stream) /\ Queued(r.stream) = Queued(strm[i]) \ {ts}
        /\ r.stream.bound = strm[i].bound
        /\ r.stream.closed = strm[i].closed /\ r.stream.some = strm[i].some
    <3>1. loop.at = "decide" /\ ~ReadyForClose /\ ts # Unset
      BY <1>1
    <3>2. r = PopPacketAtTimestamp(strm[i], ts)
      OBVIOUS
    <3> HIDE DEF r, pop
    <3>3. QED
      BY <1>0, <3>1, <3>2, TakenInputs
  <2>3. QED
    BY <2>1, <2>2
<1> HIDE DEF pop
<1>5. /\ Streams' = Streams /\ Threads' = Threads /\ DOMAIN strm' = Streams
      /\ DOMAIN inputs' = DOMAIN inputs \cup {ts}
      /\ inputs'[ts] = {i \in Streams : pop(i).found}
      /\ \A a \in DOMAIN inputs : a # ts => inputs'[a] = inputs[a]
  BY <1>1 DEF Streams, Threads, Workers
<1>6. /\ loop' \in LoopType /\ loop'.bound = Done /\ loop'.packet = Done
      /\ loop'.next = 1 /\ loop'.at \in {"read", "leave"}
  BY <1>1, <1>3 DEF Reading, LoopType
<1>7. NodeType'
  <2>1. 1 \in Streams
    BY <1>3, NodeFacts
  <2>2. QED
    BY <1>1, <1>2, <1>3, <1>4, <1>5, <1>6, <2>1 DEF NodeType
<1>8. ASSUME NEW b \in Int, Floor(b) PROVE Floor(b)'
  <2>1. b <= Done
    BY <1>3, <1>8 DEF Floor
  <2>2. QED
    BY <1>4, <1>5, <1>6, <1>8, <2>1 DEF Floor
<1>9. Floor(ts + 1)'
  <2>1. ASSUME NEW i \in Streams PROVE ts + 1 <= strm'[i].bound /\ \A x \in Queued(strm'[i]) : ts + 1 <= x
    <3>1. \A x \in Queued(strm[i]) : x \in Int
      BY <1>3, HeadIsEarliest
    <3>2. /\ ts \in Int /\ ts < strm[i].bound /\ strm[i].bound \in Int
          /\ strm'[i].bound = strm[i].bound /\ Queued(strm'[i]) = Queued(strm[i]) \ {ts}
          /\ \A x \in Queued(strm[i]) : ts <= x
      BY <1>2, <1>3, <1>4
    <3>3. ts + 1 <= strm'[i].bound
      BY <3>2
    <3>4. ASSUME NEW x \in Queued(strm'[i]) PROVE ts + 1 <= x
      <4>1. x \in Int /\ ts <= x /\ x # ts
        BY <3>1, <3>2, <3>4
      <4>2. QED
        BY <3>2, <4>1
    <3>5. QED
      BY <3>3, <3>4
  <2>2. QED
    BY <1>2, <1>3, <1>5, <1>6, <2>1 DEF Floor
<1>10. \A a \in DOMAIN inputs : a <= lastTs /\ a < ts
  BY <1>2, <1>3 DEF InputInv, TimeInv
<1>11. ~prepared /\ Done \notin tasks'
  BY <1>1, <1>2, <1>3 DEF InputInv, TimeInv
<1>12. TimeInv'
  <2>1. \A a \in DOMAIN inputs : a + 1 \in Int /\ Floor(a + 1)
    BY <1>3 DEF InputInv, TimeInv
  <2>2. \A a \in DOMAIN inputs : Floor(a + 1)'
    BY <1>8, <2>1
  <2>3. \A a \in DOMAIN inputs' : Floor(a + 1)' /\ a <= lastTs'
    BY <1>1, <1>2, <1>3, <1>5, <1>9, <1>10, <2>2
  <2>4. \A u \in Threads : pc[u] \notin Closing
    BY <1>11 DEF InputInv, TimeInv
  <2>5. QED
    BY <1>1, <1>5, <1>9, <1>11, <2>3, <2>4 DEF TimeInv
<1>13. ASSUME NEW i \in Streams PROVE Received(i)'
  <2>1. Received(i)
    BY DEF InputInv
  <2>2. /\ feed' = feed /\ DOMAIN inputs' = DOMAIN inputs \cup {ts}
        /\ Queued(strm'[i]) = Queued(strm[i]) \ {ts}
    BY <1>1, <1>4, <1>5
  <2>3. strm'[i].bound = strm[i].bound /\ strm'[i].closed = strm[i].closed /\ strm'[i].some = strm[i].some
    BY <1>4
  <2>4. \A x \in feed'[i].sent : x < feed'[i].bound /\ (x \in Queued(strm'[i]) \/ x \in DOMAIN inputs')
    BY <2>1, <2>2 DEF Received
  <2>5. Queued(strm'[i]) \subseteq feed'[i].sent
    BY <2>1, <2>2 DEF Received
  <2>6. QED
    BY <2>1, <2>2, <2>3, <2>4, <2>5 DEF Received
<1>14. InputSetsComplete'
  <2>1. ASSUME NEW i \in Streams PROVE ts \in Queued(strm[i]) <=> ts \in feed[i].sent
    <3>1. Received(i)
      BY DEF InputInv
    <3>2. ts \notin DOMAIN inputs
      BY <1>2, <1>10
    <3>3. QED
      BY <3>1, <3>2 DEF Received
  <2>2. inputs'[ts] = {i \in Streams : ts \in feed[i].sent}
    <3>1. inputs'[ts] = {i \in Streams : pop(i).found}
      BY <1>1
    <3>2. ASSUME NEW i \in Streams PROVE pop(i).found <=> ts \in feed[i].sent
      BY <1>4, <2>1
    <3>3. QED
      BY <3>1, <3>2
  <2>3. ASSUME NEW a \in DOMAIN inputs PROVE inputs'[a] = {i \in Streams : a \in feed[i].sent}
    <3>1. a \in Int /\ ts \in Int /\ a < ts
      BY <1>2, <1>3, <1>10
    <3>2. a # ts
      BY <3>1
    <3>3. inputs'[a] = inputs[a]
      BY <1>5, <3>2
    <3>4. QED
      BY <3>3 DEF InputInv, InputSetsComplete
  <2>4. QED
    BY <1>1, <1>5, <2>2, <2>3 DEF InputSetsComplete
<1>15. (loop.at \in {"read", "decide"} => \A i \in 1 .. loop.next - 1 : Seen(i))'
  BY <1>6
<1>16. QED
  BY <1>5, <1>7, <1>12, <1>13, <1>14, <1>15 DEF InputInv

(* Preparing to close, or giving up because of active contexts.            *)
LEMMA ScheduleCloseKeeps ==
  ASSUME InputInv, UNCHANGED node, NEW t \in Threads, ScheduleClose(t)
  PROVE  InputInv'
<1>1. /\ loop.at = "decide" /\ ReadyForClose
      /\ lastTs' = PreviousAllowedInStream(Done) /\ loop' = Reading(0)
      /\ tasks' = tasks \/ (tasks' = tasks \cup {Done} /\ prepared')
      /\ prepared => prepared'
      /\ inFlight' = inFlight \/ inFlight' = inFlight + 1
      /\ UNCHANGED <<feed, strm, inputs, pc>>
  BY DEF ScheduleClose, In
<1>2. lastTs' = MaxTimestamp /\ lastTs' + 1 \in Int /\ lastTs' + 1 <= OneOverPostStream
  BY <1>1, TimeLine DEF PreviousAllowedInStream
<1>3. /\ loop \in LoopType /\ loop.bound \in Int /\ loop.packet \in Int
      /\ Streams' = Streams /\ Threads' = Threads
      /\ OneOverPostStream \in Int /\ Done \in Int /\ loop.bound <= Done
      /\ DOMAIN inputs \subseteq Int /\ OneOverPostStream <= Done
  BY TimeLine DEF InputInv, NodeType, LoopType, Streams, Threads, Workers
<1>4. OneOverPostStream <= loop.bound /\ OneOverPostStream <= loop.packet
  BY <1>1, <1>3 DEF ReadyForClose, Earlier
<1>5. ASSUME NEW i \in Streams
      PROVE  /\ OneOverPostStream <= strm[i].bound
             /\ \A x \in Queued(strm[i]) : OneOverPostStream <= x
  <2>1. Seen(i)
    <3>1. loop.next = node.streams + 1 /\ node.streams \in Nat /\ i \in 1 .. node.streams
      BY <1>1, NodeFacts DEF InputInv, NodeType
    <3>2. i \in 1 .. loop.next - 1
      BY <3>1
    <3>3. QED
      BY <1>1, <3>2 DEF InputInv
  <2>2. strm[i].bound \in Int /\ \A x \in Queued(strm[i]) : x \in Int /\ x < strm[i].bound
    BY HeadIsEarliest DEF InputInv, NodeType
  <2>3. \A x \in Queued(strm[i]) : OneOverPostStream <= x
    BY <1>3, <1>4, <2>1, <2>2 DEF Seen, Earlier
  <2>4. QED
    BY <1>3, <1>4, <2>1, <2>2, <2>3 DEF Seen
<1>6. /\ loop' \in LoopType /\ loop'.bound = Done /\ loop'.packet = Done
      /\ loop'.at = "leave"
  BY <1>1, <1>3 DEF Reading, LoopType
<1>7. Floor(OneOverPostStream)'
  BY <1>1, <1>3, <1>5, <1>6 DEF Floor
<1>8. NodeType'
  BY <1>1, <1>2, <1>3, <1>6, TimeLine DEF InputInv, NodeType
<1>9. ASSUME NEW b \in Int, b <= OneOverPostStream PROVE Floor(b)'
  <2>1. \A i \in Streams : strm[i].bound \in Int /\ \A x \in Queued(strm[i]) : x \in Int
    BY HeadIsEarliest DEF InputInv, NodeType
  <2>2. QED
    BY <1>1, <1>3, <1>5, <1>6, <1>9, <2>1 DEF Floor
<1>10. ASSUME NEW b \in Int, Floor(b) PROVE Floor(b)'
  BY <1>1, <1>3, <1>6, <1>10 DEF Floor
<1>11. TimeInv'
  <2>1. \A a \in DOMAIN inputs : a + 1 \in Int /\ Floor(a + 1)'
    BY <1>3, <1>10 DEF InputInv, TimeInv
  <2>2. Floor(lastTs + 1)'
    <3>1. PICK b \in Int : b = lastTs' + 1
      BY <1>2
    <3>2. Floor(b)'
      BY <1>2, <1>9, <3>1
    <3>3. QED
      BY <3>1, <3>2 DEF Floor
  <2>3. QED
    BY <1>1, <1>3, <1>7, <2>1, <2>2 DEF InputInv, TimeInv
<1>12. (\A i \in Streams : Received(i))' /\ InputSetsComplete'
  BY <1>1, <1>3 DEF InputInv, Received, InputSetsComplete
<1>13. QED
  BY <1>6, <1>8, <1>11, <1>12 DEF InputInv

(* CloseNode ends the input streams, in which nothing more will come.      *)
LEMMA CloseInputStreamsKeeps ==
  ASSUME InputInv, UNCHANGED node, NEW t \in Threads, CloseInputStreams(t)
  PROVE  InputInv'
<1>1. /\ pc[t] = "close" /\ strm' = [i \in Streams |-> CloseStream(strm[i])]
      /\ pc' = [pc EXCEPT ![t] = "closeOutputs"]
      /\ UNCHANGED <<feed, lastTs, inputs, prepared, tasks, loop, inFlight>>
  BY DEF CloseInputStreams, Goto, schedVars
<1>2. prepared /\ Floor(OneOverPostStream)
  BY <1>1 DEF InputInv, TimeInv, Closing
<1>3. Streams' = Streams /\ Threads' = Threads /\ DOMAIN strm' = Streams
  BY <1>1 DEF Streams, Threads, Workers
<1>4. ASSUME NEW i \in Streams
      PROVE  /\ Ascends(strm'[i]) /\ Queued(strm'[i]) = Queued(strm[i])
             /\ strm'[i].closed /\ strm[i].bound <= strm'[i].bound /\ strm'[i].bound <= Done
             /\ strm[i].bound \in Int /\ strm'[i].bound \in Int
  <2>1. Ascends(strm[i]) /\ strm[i].bound <= Done
    BY DEF InputInv, NodeType
  <2>2. strm'[i] = CloseStream(strm[i])
    BY <1>1
  <2>3. QED
    BY <2>1, <2>2, CloseOne, HeadIsEarliest
<1>5. pc' \in [Threads -> Places] /\ \A u \in Threads : pc'[u] \in Closing => prepared
  BY <1>1, <1>2 DEF InputInv, NodeType, Places, InHand, Closing
<1>6. NodeType'
  BY <1>1, <1>3, <1>4, <1>5 DEF InputInv, NodeType
<1>7. ASSUME NEW b \in Int, Floor(b) PROVE Floor(b)'
  <2>1. ASSUME NEW i \in Streams PROVE b <= strm'[i].bound
    BY <1>4, <1>7 DEF Floor
  <2>2. QED
    BY <1>1, <1>3, <1>4, <1>7, <2>1 DEF Floor
<1>8. TimeInv'
  <2>1. lastTs + 1 \in Int /\ OneOverPostStream \in Int /\ \A a \in DOMAIN inputs : a + 1 \in Int
    BY TimestampFacts DEF InputInv, NodeType
  <2>2. QED
    BY <1>1, <1>3, <1>5, <1>7, <2>1 DEF InputInv, TimeInv
<1>9. ASSUME NEW i \in Streams PROVE Received(i)'
  <2>1. Received(i) /\ OneOverPostStream <= strm[i].bound
    BY <1>2 DEF InputInv, Floor
  <2>2. QED
    BY <1>1, <1>3, <1>4, <2>1, TimestampFacts DEF Received
<1>10. InputSetsComplete'
  BY <1>1, <1>3 DEF InputInv, InputSetsComplete
<1>11. (loop.at \in {"read", "decide"} => \A i \in 1 .. loop.next - 1 : Seen(i))'
  <2>1. SUFFICES ASSUME loop.at \in {"read", "decide"}, NEW i \in 1 .. loop.next - 1 PROVE Seen(i)'
    BY <1>1
  <2>2. Seen(i) /\ i \in Streams
    <3>1. loop.next - 1 \in 0 .. node.streams
      BY <2>1, NodeFacts DEF InputInv, NodeType
    <3>2. QED
      BY <2>1, <3>1, NodeFacts DEF InputInv, NodeType
  <2>3. loop.bound \in Int
    BY DEF InputInv, NodeType, LoopType
  <2>4. QED
    BY <1>1, <1>4, <2>2, <2>3 DEF Seen
<1>12. QED
  BY <1>3, <1>6, <1>8, <1>9, <1>10, <1>11 DEF InputInv

(* What a thread does while the inputs rest: it moves on, and the loop     *)
(* stays, is left, or starts anew.                                         *)
FreshLoop ==
  {l \in LoopType : /\ l.at \in {"none", "enter", "read", "leave"}
                    /\ l.next = 1 /\ l.bound = Done /\ l.packet = Done}

(* A thread that moves on in that way, with the streams and the contexts   *)
(* left alone, keeps the invariant of the inputs.                          *)
LEMMA ThreadMovesOn ==
  ASSUME InputInv, UNCHANGED <<node, inputVars>>, NEW t \in Threads,
         NEW where \in Places, inFlight' \in Int, pc' = pc \/ pc' = [pc EXCEPT ![t] = where],
         where \in Closing => pc[t] \in Closing \/ Done \in tasks,
         Done \in tasks' => Done \in tasks,
         \/ loop' = loop \/ loop' = [loop EXCEPT !.at = "leave"] \/ loop' \in FreshLoop
         \/ loop' = [Reading(0) EXCEPT !.at = "update", !.bound = Earlier(loop.bound, loop.packet)]
  PROVE  InputInv'
<1>1. UNCHANGED <<node, feed, strm, lastTs, inputs, prepared>>
  BY DEF inputVars
<1>2. /\ pc \in [Threads -> Places] /\ loop \in LoopType /\ loop.bound <= Done /\ Done \in Int
      /\ loop.bound \in Int /\ loop.packet \in Int
      /\ loop.packet = Done \/ IsAllowedInStream(loop.packet)
  BY TimestampFacts DEF InputInv, NodeType, LoopType
<1>3. /\ pc' \in [Threads -> Places]
      /\ \A u \in Threads : pc'[u] \in Closing => pc[u] \in Closing \/ Done \in tasks
  BY <1>2
<1>4. loop.packet <= Done
  BY <1>2, TimeLine DEF IsAllowedInStream
<1>5. /\ loop' \in LoopType /\ loop'.bound <= Done
      /\ loop'.packet = Done \/ IsAllowedInStream(loop'.packet)
      /\ \A b \in Int : b <= loop.bound /\ b <= loop.packet => b <= loop'.bound /\ b <= loop'.packet
      /\ loop' = loop \/ loop'.at \notin {"read", "decide"} \/ (loop'.at = "read" /\ loop'.next = 1)
  <2>1. CASE loop' = loop
    BY <1>2, <2>1
  <2>2. CASE loop' = [loop EXCEPT !.at = "leave"]
    BY <1>2, <2>2 DEF LoopType
  <2>3. CASE loop' \in FreshLoop
    BY <1>2, <2>3 DEF FreshLoop
  <2>4. CASE loop' = [Reading(0) EXCEPT !.at = "update", !.bound = Earlier(loop.bound, loop.packet)]
    <3>1. PICK m \in Int : m = Earlier(loop.bound, loop.packet)
      BY <1>2 DEF Earlier
    <3>2. /\ loop' = [at |-> "update", left |-> 0, next |-> 1, bound |-> m, packet |-> Done]
      BY <2>4, <3>1 DEF Reading
    <3>3. /\ m <= Done /\ \A b \in Int : b <= loop.bound /\ b <= loop.packet => b <= m
      BY <1>2, <3>1 DEF Earlier
    <3>4. /\ loop'.at = "update" /\ loop'.bound = m /\ loop'.packet = Done /\ loop' \in LoopType
      BY <1>2, <3>2 DEF LoopType
    <3>5. QED
      BY <1>2, <1>4, <3>3, <3>4
  <2>5. QED
    BY <2>1, <2>2, <2>3, <2>4
<1>6. QED
  BY <1>1, <1>3, <1>5, InputRests

(* The rounds of the scheduler start afresh.                               *)
LEMMA FreshLoops ==
  /\ NoLoop \in FreshLoop /\ [NoLoop EXCEPT !.at = "enter"] \in FreshLoop
  /\ \A left \in Int : Reading(left) \in FreshLoop
<1>1. Done \in Int
  BY TimestampFacts
<1>2. NoLoop \in FreshLoop
  BY <1>1 DEF NoLoop, FreshLoop, LoopType
<1>3. [NoLoop EXCEPT !.at = "enter"] \in FreshLoop
  BY <1>1 DEF NoLoop, FreshLoop, LoopType
<1>4. ASSUME NEW left \in Int PROVE Reading(left) \in FreshLoop
  BY <1>1 DEF Reading, FreshLoop, LoopType
<1>5. QED
  BY <1>2, <1>3, <1>4

(* The scheduler's other steps.                                            *)
LEMMA SchedulerRests ==
  ASSUME InputInv, UNCHANGED node, NEW t \in Threads,
         \/ CheckIfBecameReady(t) \/ EnterLoop(t) \/ NotReady(t) \/ LeaveLoop(t)
         \/ EndScheduling(t)
  PROVE  InputInv'
<1>1. inFlight \in Int /\ MaxInFlight \in Int
  BY NodeFacts DEF InputInv, NodeType
<1>2. MaxInFlight - inFlight \in Int /\ inFlight - 1 \in Int
  BY <1>1
<1>3. {"notify", "loop", "idle"} \subseteq Places /\ {"notify", "loop", "idle"} \cap Closing = {}
  BY DEF Places, Closing
<1>4. /\ UNCHANGED inputVars
      /\ tasks' = tasks /\ inFlight' \in Int
      /\ pc' = pc \/ pc' = [pc EXCEPT ![t] = "loop"] \/ pc' = [pc EXCEPT ![t] = "idle"]
      /\ \/ loop' = loop \/ loop' \in FreshLoop
         \/ loop' = [Reading(0) EXCEPT !.at = "update", !.bound = Earlier(loop.bound, loop.packet)]
  <2>1. CASE CheckIfBecameReady(t)
    BY <1>1, <2>1, FreshLoops DEF CheckIfBecameReady, Goto
  <2>2. CASE EnterLoop(t)
    BY <1>1, <1>2, <2>2, FreshLoops DEF EnterLoop, Goto
  <2>3. CASE NotReady(t)
    BY <1>1, <2>3 DEF NotReady
  <2>4. CASE LeaveLoop(t)
    BY <1>1, <1>2, <2>4, FreshLoops DEF LeaveLoop, Goto
  <2>5. CASE EndScheduling(t)
    BY <1>1, <1>2, <2>5, FreshLoops DEF EndScheduling, Goto
  <2>6. QED
    BY <2>1, <2>2, <2>3, <2>4, <2>5
<1>5. UNCHANGED <<node, inputVars>>
  BY <1>4
<1>6. CASE pc' = pc \/ pc' = [pc EXCEPT ![t] = "loop"]
  BY <1>3, <1>4, <1>5, <1>6, ThreadMovesOn
<1>7. CASE pc' = [pc EXCEPT ![t] = "idle"]
  BY <1>3, <1>4, <1>5, <1>7, ThreadMovesOn
<1>8. QED
  BY <1>4, <1>6, <1>7

(* Where a thread goes when it enters or leaves the propagation.           *)
PropPlaces == {"loop", "loopProp", "postProp", "end"}

(* PropagateOutputs returns to whoever called it.                          *)
LEMMA Returns ==
  ASSUME NEW t \in Threads, Return(t)
  PROVE  \E where \in PropPlaces :
           /\ pc' = [pc EXCEPT ![t] = where]
           /\ loop' = loop \/ loop' = [loop EXCEPT !.at = "leave"]
BY DEF Return, Goto, Back, PropPlaces

(* A caller of PropagateOutputs stays in it or, when another thread is at  *)
(* it, is already back.                                                    *)
LEMMA Enters ==
  ASSUME NEW t \in Threads, NEW done, NEW bound, EnterPropagation(t, done, bound)
  PROVE  \E where \in PropPlaces :
           /\ pc' = [pc EXCEPT ![t] = where]
           /\ loop' = loop \/ loop' = [loop EXCEPT !.at = "leave"]
<1>1. CASE Return(t)
  BY <1>1, Returns
<1>2. CASE Goto(t, Propagating(t)) /\ UNCHANGED loop
  BY <1>2 DEF Goto, Propagating, PropPlaces
<1>3. QED
  BY <1>1, <1>2 DEF EnterPropagation

(* The propagation of the outputs.                                         *)
LEMMA OutputsRest ==
  ASSUME InputInv, UNCHANGED node, NEW t \in Threads,
         UpdateTaskTimestampBound(t) \/ Propagate(t) \/ PostProcess(t)
  PROVE  InputInv'
<1>1. inFlight \in Int
  BY DEF InputInv, NodeType
<1>2. PropPlaces \subseteq Places /\ PropPlaces \cap Closing = {} /\ PropPlaces # {}
  BY DEF PropPlaces, Places, InHand, Closing
<1>3. UNCHANGED <<inputVars, inFlight, tasks>>
  <2>1. CASE UpdateTaskTimestampBound(t)
    BY <2>1 DEF UpdateTaskTimestampBound
  <2>2. CASE Propagate(t)
    BY <2>2 DEF Propagate, PropagatePackets, RecycleContext, AfterPackets, TestBound, PropagateBound,
                AfterBound, schedVars
  <2>3. CASE PostProcess(t)
    BY <2>3 DEF PostProcess
  <2>4. QED
    BY <2>1, <2>2, <2>3
<1>4. PICK where \in PropPlaces :
        /\ pc' = pc \/ pc' = [pc EXCEPT ![t] = where]
        /\ loop' = loop \/ loop' = [loop EXCEPT !.at = "leave"]
  <2>1. CASE UpdateTaskTimestampBound(t)
    <3>1. CASE Goto(t, "loopProp") /\ UNCHANGED loop
      BY <3>1 DEF Goto, PropPlaces
    <3>2. CASE Return(t)
      BY <3>2, Returns
    <3>3. CASE EnterPropagation(t, completed, loop.bound)
      BY <3>3, Enters
    <3>4. QED
      BY <2>1, <3>1, <3>2, <3>3 DEF UpdateTaskTimestampBound
  <2>2. CASE Propagate(t)
    <3>1. CASE UNCHANGED <<pc, loop>>
      BY <1>2, <3>1
    <3>2. CASE Return(t)
      BY <3>2, Returns
    <3>3. QED
      BY <2>2, <3>1, <3>2
         DEF Propagate, PropagatePackets, RecycleContext, AfterPackets, TestBound, PropagateBound,
             AfterBound, schedVars
  <2>3. CASE PostProcess(t)
    <3>1. CASE Goto(t, "end") /\ UNCHANGED loop
      BY <3>1 DEF Goto, PropPlaces
    <3>2. CASE EnterPropagation(t, completed', taskBound)
      BY <3>2, Enters
    <3>3. QED
      BY <2>3, <3>1, <3>2 DEF PostProcess
  <2>4. QED
    BY <2>1, <2>2, <2>3
<1>5. UNCHANGED <<node, inputVars>> /\ inFlight' \in Int /\ tasks' = tasks /\ where \in Places /\ where \notin Closing
  BY <1>1, <1>2, <1>3, <1>4
<1>6. QED
  BY <1>4, <1>5, ThreadMovesOn

(* The other steps of a worker.                                            *)
LEMMA WorkRests ==
  ASSUME InputInv, UNCHANGED node, NEW t \in Threads,
         \/ OpenNode(t) \/ RunNextTask(t) \/ ProcessNode(t)
         \/ CloseOutputStreams(t) \/ CloseManager(t) \/ Closed(t)
  PROVE  InputInv'
<1>1. /\ UNCHANGED <<inputVars, inFlight, loop>>
      /\ Done \in tasks' => Done \in tasks
  BY DEF OpenNode, RunNextTask, ProcessNode, CloseOutputStreams, CloseManager, Closed, schedVars
<1>2. PICK where \in Places :
        /\ pc' = [pc EXCEPT ![t] = where]
        /\ where \in Closing => pc[t] \in Closing \/ Done \in tasks
  <2>1. CASE OpenNode(t)
    <3>1. "notify" \in Places /\ "notify" \notin Closing /\ pc' = [pc EXCEPT ![t] = "notify"]
      BY <2>1 DEF OpenNode, Goto, Places, Closing
    <3>2. QED
      BY <3>1
  <2>2. CASE RunNextTask(t)
    <3>1. PICK ts \in tasks : Goto(t, IF ts = Done THEN "close" ELSE "process")
      BY <2>2 DEF RunNextTask
    <3>2. "close" \in Places /\ "process" \in Places /\ "process" \notin Closing
      BY DEF Places, InHand, Closing
    <3>3. CASE ts = Done
      BY <3>1, <3>2, <3>3 DEF Goto
    <3>4. CASE ts # Done
      BY <3>1, <3>2, <3>4 DEF Goto
    <3>5. QED
      BY <3>3, <3>4
  <2>3. CASE ProcessNode(t)
    BY <2>3 DEF ProcessNode, Goto, Places, InHand, Closing
  <2>4. CASE CloseOutputStreams(t) \/ CloseManager(t) \/ Closed(t)
    BY <2>4 DEF CloseOutputStreams, CloseManager, Closed, Goto, Places, InHand, Closing
  <2>5. QED
    BY <2>1, <2>2, <2>3, <2>4
<1>3. UNCHANGED <<node, inputVars>> /\ inFlight' \in Int
  BY <1>1 DEF InputInv, NodeType
<1>4. QED
  BY <1>1, <1>2, <1>3, ThreadMovesOn

(* The inputs of a node at the start.                                      *)
LEMMA InputInvInit == Init => InputInv
<1> SUFFICES ASSUME Init PROVE InputInv
  OBVIOUS
<1>1. /\ node \in Nodes /\ PreStream \in Int /\ Done \in Int /\ PreStream <= Done
      /\ Unset + 1 <= PreStream /\ Unset + 1 <= Done /\ Unset \in Int /\ Done \notin tasks /\ 1 \in Streams
  BY TimeLine, NodeFacts DEF Init
<1>2. ASSUME NEW i \in Streams
      PROVE  /\ strm[i] = NewStream(-1) /\ Ascends(strm[i]) /\ Queued(strm[i]) = {}
             /\ strm[i].bound = PreStream /\ ~strm[i].closed /\ ~strm[i].some
             /\ feed[i].bound = PreStream /\ feed[i].sent = {}
  <2>1. strm[i] = NewStream(-1) /\ feed[i] = [bound |-> PreStream, sent |-> {}]
    BY DEF Init
  <2>2. NewStream(-1) \in StreamType /\ NewStream(-1).queue = << >> /\ Len(<< >>) = 0
    BY TimestampFacts DEF NewStream, StreamType
  <2>3. Ascends(NewStream(-1)) /\ Queued(NewStream(-1)) = {}
    BY <2>2 DEF Ascends, InOrder, Queued
  <2>4. NewStream(-1).bound = PreStream /\ ~NewStream(-1).closed /\ ~NewStream(-1).some
    BY DEF NewStream
  <2>5. QED
    BY <2>1, <2>3, <2>4
<1>3. loop \in LoopType /\ loop.at = "none" /\ loop.bound = Done /\ loop.packet = Done
  BY <1>1 DEF Init, NoLoop, LoopType
<1>4. pc \in [Threads -> Places] /\ \A t \in Threads : pc[t] \notin Closing
  BY DEF Init, Places, Closing
<1>5. NodeType
  BY <1>1, <1>2, <1>3, <1>4 DEF Init, NodeType
<1>6. TimeInv
  BY <1>1, <1>2, <1>3, <1>4 DEF Init, TimeInv, Floor
<1>7. \A i \in Streams : Received(i)
  BY <1>2 DEF Received
<1>8. QED
  BY <1>3, <1>5, <1>6, <1>7 DEF Init, InputInv, InputSetsComplete

(* Every step keeps it.                                                    *)
LEMMA InputInvStep == InputInv /\ [Next /\ UNCHANGED node]_<<vars, node>> => InputInv'
<1> SUFFICES ASSUME InputInv, [Next /\ UNCHANGED node]_<<vars, node>> PROVE InputInv'
  OBVIOUS
<1>1. CASE UNCHANGED <<vars, node>>
  <2>1. UNCHANGED <<node, feed, strm, lastTs, inputs, prepared, pc, loop, tasks, inFlight>>
    BY <1>1 DEF vars, inputVars, schedVars
  <2>2. /\ pc' \in [Threads -> Places] /\ inFlight' \in Int /\ loop' \in LoopType /\ loop'.bound <= Done
        /\ loop'.packet = Done \/ IsAllowedInStream(loop'.packet)
    BY <2>1 DEF InputInv, NodeType
  <2>3. QED
    BY <2>1, <2>2, InputRests
<1>2. ASSUME UNCHANGED node, NEW i \in Streams, FeedPacket(i) \/ FeedBound(i) PROVE InputInv'
  BY <1>2, FeedPacketKeeps, FeedBoundKeeps
<1>3. ASSUME UNCHANGED node, NEW t \in Threads, Schedule(t) \/ Propagate(t) PROVE InputInv'
  BY <1>3, SchedulerRests, ReadStreamKeeps, ScheduleProcessKeeps, ScheduleCloseKeeps, OutputsRest
     DEF Schedule
<1>4. ASSUME UNCHANGED node, NEW t \in Workers, Work(t) PROVE InputInv'
  <2>1. t \in Threads
    BY DEF Threads
  <2>2. QED
    BY <1>4, <2>1, SchedulerRests, OutputsRest, WorkRests, CloseInputStreamsKeeps DEF Work
<1>5. QED
  BY <1>1, <1>2, <1>3, <1>4 DEF Next

(* The invariant of the inputs holds throughout.                           *)
THEOREM InputsInOrder == Spec => []InputInv
<1>1. QED
  BY InputInvInit, InputInvStep, PTL DEF Spec

(* An input set holds every packet that is ever sent with its timestamp:   *)
(* GetReadiness and FillInputSet never run the calculator too early, for   *)
(* any number of streams, workers and invocations in flight.               *)
THEOREM InputSetsAreComplete == Spec => []InputSetsComplete
<1>1. InputInv => InputSetsComplete
  BY DEF InputInv
<1>2. QED
  BY <1>1, InputsInOrder, PTL

-----------------------------------------------------------------------------
(* The threads: who schedules, who has an invocation in hand, and how many *)
(* invocations there are.                                                  *)

AtLoop == {"loop", "loopProp"}
Hands == {t \in Threads : pc[t] \in InHand}

(* At most one thread schedules, and the state of the node tells.          *)
RolesInv ==
  /\ sched \in {"idle", "scheduling", "pending"} /\ status \in {"prepared", "opened", "closed"}
  /\ \A t, u \in Threads : pc[t] \in AtLoop /\ pc[u] \in AtLoop => t = u
  /\ sched # "idle" <=> \E t \in Threads : pc[t] \in AtLoop
  /\ loop.at = "none" <=> sched = "idle"
  /\ \A t \in Threads : pc[t] = "loopProp" => loop.at = "update"
  /\ \A t, u \in Threads : pc[t] = "open" /\ pc[u] = "open" => t = u
  /\ \A t \in Threads : pc[t] = "open" => status = "prepared"
  /\ status = "prepared" => tasks = {} /\ \A t \in Threads : pc[t] \in {"idle", "open", "notify"}

(* current_in_flight_ counts the invocations that are queued or in hand.   *)
CountInv ==
  /\ inFlight \in Nat /\ inFlight <= MaxInFlight /\ IsFiniteSet(tasks)
  /\ status # "closed" => inFlight = Cardinality(tasks) + Cardinality(Hands)
  /\ loop.at \in {"read", "decide"} => loop.left > 0 /\ inFlight + loop.left <= MaxInFlight
  /\ tasks \subseteq DOMAIN inputs \cup {Done}

(* CloseNode is prepared once, when nothing else is left to be run.        *)
CloseInv ==
  /\ status = "prepared" => ~prepared
  /\ prepared /\ status # "closed" => Done \in tasks \/ \E t \in Threads : pc[t] \in Closing
  /\ prepared => tasks \subseteq {Done} /\ \A t \in Threads : pc[t] \notin {"process", "post"}
  /\ Done \in tasks => \A t \in Threads : pc[t] \notin Closing
  /\ \A t, u \in Threads : pc[t] \in Closing /\ pc[u] \in Closing => t = u
  /\ status = "closed" => prepared /\ tasks = {} /\ \A t \in Threads : pc[t] \notin Closing

(* What the steps of Next do to the places of threads.                     *)
LEMMA MoveFacts ==
  ASSUME InputInv, UNCHANGED node, NEW t \in Threads, NEW where, pc' = [pc EXCEPT ![t] = where]
  PROVE  /\ pc'[t] = where /\ \A u \in Threads : u # t => pc'[u] = pc[u]
         /\ Threads' = Threads /\ Streams' = Streams /\ MaxInFlight' = MaxInFlight
BY DEF InputInv, NodeType, Threads, Streams, Workers, MaxInFlight

(* The locals of the loop in a new round, and when it is to be left.       *)
LEMMA LoopForms ==
  /\ \A left : /\ Reading(left).at = IF left > 0 THEN "read" ELSE "leave"
               /\ Reading(left).left = left /\ Reading(left).next = 1
               /\ Reading(left).bound = Done /\ Reading(left).packet = Done
  /\ \A m : /\ [Reading(0) EXCEPT !.at = "update", !.bound = m].at = "update"
            /\ [Reading(0) EXCEPT !.at = "update", !.bound = m].bound = m
<1>1. \A left : /\ Reading(left).at = IF left > 0 THEN "read" ELSE "leave"
               /\ Reading(left).left = left /\ Reading(left).next = 1
               /\ Reading(left).bound = Done /\ Reading(left).packet = Done
  BY DEF Reading
<1>2. ASSUME NEW m
      PROVE  /\ [Reading(0) EXCEPT !.at = "update", !.bound = m].at = "update"
             /\ [Reading(0) EXCEPT !.at = "update", !.bound = m].bound = m
  BY DEF Reading
<1>3. QED
  BY <1>1, <1>2

(* A thread moves on; the node is scheduled by the same thread as before,  *)
(* by this one, or by nobody any more.                                     *)
LEMMA RolesMove ==
  ASSUME InputInv, RolesInv, UNCHANGED node, NEW t \in Threads,
         NEW where \in Places, pc' = [pc EXCEPT ![t] = where], where # "open",
         sched' \in {"idle", "scheduling", "pending"}, status' \in {"prepared", "opened", "closed"},
         where \in AtLoop => pc[t] \in AtLoop \/ sched = "idle",
         sched' = "idle" <=> (where \notin AtLoop /\ (pc[t] \in AtLoop \/ sched = "idle")),
         loop'.at = "none" <=> sched' = "idle",
         where = "loopProp" => loop'.at = "update",
         pc[t] \in AtLoop \/ sched = "idle" \/ loop' = loop,
         status' = status \/ (status' = "opened" /\ pc[t] = "open") \/ (status' = "closed" /\ status # "prepared"),
         pc[t] # "open" \/ status' = "opened",
         status' = "prepared" => tasks' = {} /\ where \in {"idle", "notify"}
  PROVE  RolesInv'
<1>1. /\ pc'[t] = where /\ \A u \in Threads : u # t => pc'[u] = pc[u]
      /\ Threads' = Threads
  BY MoveFacts
<1>2. \A u \in Threads : pc[u] \in AtLoop => sched # "idle"
  BY DEF RolesInv
<1>3. \A u, v \in Threads : pc'[u] \in AtLoop /\ pc'[v] \in AtLoop => u = v
  BY <1>1, <1>2 DEF RolesInv
<1>4. sched' # "idle" <=> \E u \in Threads : pc'[u] \in AtLoop
  <2>1. CASE where \in AtLoop
    BY <1>1, <2>1
  <2>2. CASE where \notin AtLoop /\ (pc[t] \in AtLoop \/ sched = "idle")
    BY <1>1, <1>2, <2>2 DEF RolesInv
  <2>3. CASE where \notin AtLoop /\ pc[t] \notin AtLoop /\ sched # "idle"
    <3>1. PICK u \in Threads : pc[u] \in AtLoop
      BY <2>3 DEF RolesInv
    <3>2. u # t /\ pc'[u] \in AtLoop
      BY <1>1, <2>3, <3>1
    <3>3. QED
      BY <2>3, <3>2
  <2>4. QED
    BY <2>1, <2>2, <2>3
<1>5. \A u \in Threads : pc'[u] = "loopProp" => loop'.at = "update"
  <2>1. TAKE u \in Threads
  <2>2. HAVE pc'[u] = "loopProp"
  <2>3. CASE u = t
    BY <1>1, <2>2, <2>3
  <2>4. CASE u # t
    <3>1. pc[u] = "loopProp" /\ pc[u] \in AtLoop
      BY <1>1, <2>2, <2>4 DEF AtLoop
    <3>2. pc[t] \notin AtLoop /\ sched # "idle" /\ loop.at = "update"
      BY <1>2, <2>4, <3>1 DEF RolesInv
    <3>3. QED
      BY <3>2
  <2>5. QED
    BY <2>3, <2>4
<1>6. /\ \A u, v \in Threads : pc'[u] = "open" /\ pc'[v] = "open" => u = v
      /\ \A u \in Threads : pc'[u] = "open" => status' = "prepared"
  <2>1. \A u \in Threads : pc'[u] = "open" => u # t /\ pc[u] = "open"
    BY <1>1
  <2>2. QED
    BY <2>1 DEF RolesInv
<1>7. status' = "prepared" => tasks' = {} /\ \A u \in Threads : pc'[u] \in {"idle", "open", "notify"}
  BY <1>1 DEF RolesInv
<1>8. QED
  BY <1>1, <1>3, <1>4, <1>5, <1>6, <1>7 DEF RolesInv

(* No thread moves.                                                        *)
LEMMA RolesRest ==
  ASSUME InputInv, RolesInv, UNCHANGED <<node, pc, status>>,
         sched' \in {"scheduling", "pending"} \/ sched' = sched, sched' = "idle" <=> sched = "idle",
         loop'.at = "none" <=> loop.at = "none",
         loop' = loop \/ (\E t \in Threads : pc[t] = "loop"),
         status = "prepared" => tasks' = tasks
  PROVE  RolesInv'
<1>1. Threads' = Threads
  BY DEF Threads, Streams, Workers
<1>2. \A t \in Threads : pc[t] = "loopProp" => loop' = loop
  BY DEF RolesInv, AtLoop
<1>3. QED
  BY <1>1, <1>2 DEF RolesInv

(* How a thread enters, goes through and leaves the propagation.           *)
LEMMA PropagationMoves ==
  ASSUME InputInv, RolesInv, NEW t \in Threads,
         UpdateTaskTimestampBound(t) \/ Propagate(t) \/ PostProcess(t)
  PROVE  /\ UNCHANGED <<sched, status, tasks, inFlight, feed, strm, lastTs, inputs, prepared, arg>>
         /\ \/ UNCHANGED <<pc, loop>> /\ pc[t] \in {"loopProp", "postProp"}
            \/ /\ pc' = [pc EXCEPT ![t] = "loopProp"] /\ loop' = loop
               /\ pc[t] = "loop" /\ loop.at = "update"
            \/ /\ pc' = [pc EXCEPT ![t] = "loop"] /\ loop' = [loop EXCEPT !.at = "leave"]
               /\ pc[t] \in AtLoop /\ loop.at = "update" /\ loop'.at = "leave"
            \/ pc' = [pc EXCEPT ![t] = "postProp"] /\ loop' = loop /\ pc[t] = "post"
            \/ pc' = [pc EXCEPT ![t] = "end"] /\ loop' = loop /\ pc[t] \in {"post", "postProp"}
<1>1. UNCHANGED <<sched, status, tasks, inFlight, inputVars, arg>>
  BY DEF UpdateTaskTimestampBound, Propagate, PropagatePackets, RecycleContext, AfterPackets,
         TestBound, PropagateBound, AfterBound, schedVars, PostProcess
<1>2. \/ UNCHANGED <<pc, loop>> /\ pc[t] \in {"loopProp", "postProp"}
      \/ Return(t)
      \/ Goto(t, Propagating(t)) /\ UNCHANGED loop /\ pc[t] \in {"loop", "post"}
      \/ Goto(t, "end") /\ UNCHANGED loop /\ pc[t] = "post"
  BY DEF UpdateTaskTimestampBound, Propagate, PropagatePackets, RecycleContext, AfterPackets,
         TestBound, PropagateBound, AfterBound, schedVars, PostProcess, EnterPropagation, In,
         Propagating, Prop
<1>3. pc[t] \in {"loopProp", "postProp", "post"} \/ (pc[t] = "loop" /\ loop.at = "update")
  BY DEF UpdateTaskTimestampBound, Propagate, PropagatePackets, RecycleContext, AfterPackets,
         TestBound, PropagateBound, AfterBound, PostProcess, Prop, In
<1>4. /\ [loop EXCEPT !.at = "leave"].at = "leave" /\ AtLoop = {"loop", "loopProp"}
      /\ pc[t] \in AtLoop => loop.at = "update"
  BY <1>3 DEF InputInv, NodeType, LoopType, RolesInv, AtLoop
<1>5. CASE Return(t)
  BY <1>1, <1>3, <1>4, <1>5 DEF Return, Back, Goto, inputVars
<1>6. CASE Goto(t, Propagating(t)) /\ UNCHANGED loop /\ pc[t] \in {"loop", "post"}
  BY <1>1, <1>3, <1>6 DEF Propagating, Goto, inputVars
<1>7. CASE UNCHANGED <<pc, loop>> /\ pc[t] \in {"loopProp", "postProp"}
  BY <1>1, <1>7 DEF inputVars
<1>8. CASE Goto(t, "end") /\ UNCHANGED loop /\ pc[t] = "post"
  BY <1>1, <1>8 DEF Goto, inputVars
<1>9. QED
  BY <1>2, <1>5, <1>6, <1>7, <1>8

(* The roles stay as they are described.                                   *)
LEMMA RolesStep ==
  ASSUME InputInv, RolesInv, Next, UNCHANGED node
  PROVE  RolesInv'
<1>0. /\ {"idle", "notify", "loop", "loopProp", "end", "postProp"} \subseteq Places
      /\ InHand \subseteq Places /\ "loop" \in AtLoop /\ AtLoop = {"loop", "loopProp"}
      /\ loop \in LoopType /\ pc \in [Threads -> Places]
      /\ \A u \in Threads : pc[u] \in AtLoop => sched # "idle"
      /\ sched = "idle" => loop.at = "none"
      /\ \A u \in Threads : status = "prepared" => pc[u] \in {"idle", "open", "notify"}
      /\ \A u \in Threads : pc[u] = "open" => status = "prepared"
  BY DEF Places, InHand, AtLoop, InputInv, NodeType, RolesInv
<1>1. ASSUME NEW i \in Streams, FeedPacket(i) \/ FeedBound(i) PROVE RolesInv'
  <2>1. i \in Threads /\ UNCHANGED <<sched, loop, status, tasks>>
    BY <1>1 DEF Threads, FeedPacket, FeedBound, Fed, schedVars
  <2>2. pc' = pc \/ (pc[i] = "idle" /\ pc' = [pc EXCEPT ![i] = "notify"])
    BY <1>1 DEF FeedPacket, FeedBound, Fed, Goto
  <2>3. CASE pc' = pc
    BY <2>1, <2>3, RolesRest DEF RolesInv
  <2>4. CASE pc[i] = "idle" /\ pc' = [pc EXCEPT ![i] = "notify"]
    BY <1>0, <2>1, <2>4, RolesMove DEF RolesInv
  <2>5. QED
    BY <2>2, <2>3, <2>4
<1>2. ASSUME NEW t \in Threads, CheckIfBecameReady(t) PROVE RolesInv'
  <2>0. pc[t] = "notify" /\ UNCHANGED <<status, tasks>>
    BY <1>2 DEF CheckIfBecameReady
  <2>1. CASE status = "opened" /\ sched = "idle" /\ inFlight < MaxInFlight
    <3>1. sched' = "scheduling" /\ loop'.at = "enter" /\ pc' = [pc EXCEPT ![t] = "loop"]
      BY <1>2, <2>1 DEF CheckIfBecameReady, Goto, NoLoop
    <3>2. QED
      BY <1>0, <2>0, <2>1, <3>1, RolesMove
  <2>2. CASE ~(status = "opened" /\ sched = "idle" /\ inFlight < MaxInFlight)
    <3>1. /\ loop' = loop /\ pc' = [pc EXCEPT ![t] = "idle"]
          /\ sched' = sched \/ (sched = "scheduling" /\ sched' = "pending")
      BY <1>2, <2>2 DEF CheckIfBecameReady, Goto
    <3>2. QED
      BY <1>0, <2>0, <2>2, <3>1, RolesMove DEF RolesInv
  <2>3. QED
    BY <2>1, <2>2
<1>3. ASSUME NEW t \in Threads, EnterLoop(t) \/ LeaveLoop(t) PROVE RolesInv'
  <2>0. pc[t] = "loop" /\ UNCHANGED <<status, tasks>> /\ loop.at # "none" /\ sched # "idle"
    BY <1>0, <1>3 DEF EnterLoop, LeaveLoop, In
  <2>1. CASE sched' = "idle" /\ loop' = NoLoop /\ Goto(t, "idle")
    <3>1. loop'.at = "none" /\ pc' = [pc EXCEPT ![t] = "idle"]
      BY <2>1 DEF NoLoop, Goto
    <3>2. QED
      BY <1>0, <2>0, <2>1, <3>1, RolesMove DEF RolesInv
  <2>2. CASE loop' = Reading(MaxInFlight - inFlight) /\ UNCHANGED pc /\ (sched' = sched \/ sched' = "scheduling")
    <3>1. loop'.at # "none"
      BY <2>2 DEF Reading
    <3>2. QED
      BY <2>0, <2>2, <3>1, RolesRest
  <2>3. QED
    BY <1>3, <2>1, <2>2 DEF EnterLoop, LeaveLoop
<1>4. ASSUME NEW t \in Threads, ReadStream(t) \/ ScheduleProcess(t) \/ ScheduleClose(t) \/ NotReady(t)
      PROVE  RolesInv'
  <2>1. UNCHANGED <<pc, sched, status>> /\ pc[t] = "loop" /\ loop.at \in {"read", "decide"}
    BY <1>4 DEF ReadStream, ScheduleProcess, ScheduleClose, NotReady, In
  <2>2. loop'.at # "none"
    <3>1. CASE ReadStream(t)
      BY <1>0, <3>1 DEF ReadStream, LoopType
    <3>2. CASE ScheduleProcess(t)
      <4>1. loop' = Reading(loop.left - 1)
        BY <3>2 DEF ScheduleProcess
      <4>2. QED
        BY <4>1 DEF Reading
    <3>3. CASE ScheduleClose(t) \/ NotReady(t)
      <4>1. \/ loop' = Reading(0)
            \/ loop' = [Reading(0) EXCEPT !.at = "update", !.bound = Earlier(loop.bound, loop.packet)]
        BY <3>3 DEF ScheduleClose, NotReady
      <4>2. QED
        BY <4>1, LoopForms
    <3>4. QED
      BY <1>4, <3>1, <3>2, <3>3
  <2>3. QED
    BY <1>0, <2>1, <2>2, RolesRest
<1>6. ASSUME NEW t \in Threads, EndScheduling(t) PROVE RolesInv'
  <2>0. pc[t] = "end" /\ UNCHANGED <<status, tasks>> /\ status # "prepared"
    BY <1>0, <1>6 DEF EndScheduling
  <2>1. CASE status # "closed" /\ sched = "idle"
    <3>1. sched' = "scheduling" /\ loop'.at = "enter" /\ pc' = [pc EXCEPT ![t] = "loop"]
      BY <1>6, <2>1 DEF EndScheduling, Goto, NoLoop
    <3>2. QED
      BY <1>0, <2>0, <2>1, <3>1, RolesMove DEF RolesInv
  <2>2. CASE ~(status # "closed" /\ sched = "idle")
    <3>1. /\ loop' = loop /\ pc' = [pc EXCEPT ![t] = "idle"]
          /\ sched' = sched \/ (sched # "idle" /\ sched' = "pending")
      BY <1>6, <2>2 DEF EndScheduling, Goto
    <3>2. QED
      BY <1>0, <2>0, <2>2, <3>1, RolesMove DEF RolesInv
  <2>3. QED
    BY <2>1, <2>2
<1>7. ASSUME NEW t \in Threads, UpdateTaskTimestampBound(t) \/ Propagate(t) \/ PostProcess(t)
      PROVE  RolesInv'
  <2>1. UNCHANGED <<sched, status, tasks>>
    BY <1>7, PropagationMoves
  <2>2. pc[t] \in {"loop", "loopProp", "post", "postProp"} => status # "prepared" /\ pc[t] # "open"
    BY <1>0
  <2>3. CASE UNCHANGED <<pc, loop>>
    BY <2>1, <2>3, RolesRest
  <2>4. CASE /\ pc' = [pc EXCEPT ![t] = "loopProp"] /\ loop' = loop
             /\ pc[t] = "loop" /\ loop.at = "update"
    BY <1>0, <2>1, <2>2, <2>4, RolesMove DEF RolesInv
  <2>5. CASE /\ pc' = [pc EXCEPT ![t] = "loop"] /\ pc[t] \in AtLoop /\ loop'.at = "leave"
    BY <1>0, <2>1, <2>2, <2>5, RolesMove DEF RolesInv
  <2>6. CASE pc' = [pc EXCEPT ![t] = "postProp"] /\ loop' = loop /\ pc[t] = "post"
    BY <1>0, <2>1, <2>2, <2>6, RolesMove DEF RolesInv
  <2>7. CASE pc' = [pc EXCEPT ![t] = "end"] /\ loop' = loop /\ pc[t] \in {"post", "postProp"}
    BY <1>0, <2>1, <2>2, <2>7, RolesMove DEF RolesInv
  <2>8. QED
    BY <1>7, <2>3, <2>4, <2>5, <2>6, <2>7, PropagationMoves
<1>8. ASSUME NEW t \in Threads, OpenNode(t) PROVE RolesInv'
  <2>1. /\ pc[t] = "open" /\ status' = "opened" /\ pc' = [pc EXCEPT ![t] = "notify"]
        /\ UNCHANGED <<sched, loop>>
    BY <1>8 DEF OpenNode, Goto
  <2>2. QED
    BY <1>0, <2>1, RolesMove DEF RolesInv
<1>9. ASSUME NEW t \in Threads, RunNextTask(t) \/ ProcessNode(t) \/ Closed(t)
             \/ CloseInputStreams(t) \/ CloseOutputStreams(t) \/ CloseManager(t)
      PROVE  RolesInv'
  <2>1. UNCHANGED <<sched, loop>> /\ (status' = status \/ status' = "closed")
    BY <1>9 DEF RunNextTask, ProcessNode, CloseInputStreams, CloseOutputStreams, CloseManager, schedVars, Closed
  <2>2. /\ pc[t] \in {"idle", "process", "close", "closeOutputs", "closeManager", "closed"}
        /\ pc[t] = "idle" => tasks # {}
    BY <1>9 DEF RunNextTask, ProcessNode, CloseInputStreams, CloseOutputStreams, CloseManager, Closed
  <2>3. PICK where \in {"close", "process", "post", "closeOutputs", "closeManager", "closed", "end"} :
          pc' = [pc EXCEPT ![t] = where]
    BY <1>9 DEF RunNextTask, ProcessNode, CloseInputStreams, CloseOutputStreams, CloseManager, Goto, Closed
  <2>4. where \in Places /\ where \notin AtLoop /\ where # "open" /\ pc[t] \notin AtLoop /\ pc[t] # "open"
    BY <1>0, <2>2 DEF InHand, Closing
  <2>5. status # "prepared" /\ status' # "prepared"
    BY <1>0, <2>1, <2>2 DEF RolesInv
  <2>6. QED
    BY <2>1, <2>3, <2>4, <2>5, RolesMove DEF RolesInv
<1>10. QED
  BY <1>1, <1>2, <1>3, <1>4, <1>6, <1>7, <1>8, <1>9 DEF Next, Schedule, Work, Threads

(* The number of threads with an invocation in hand, when one moves on.    *)
LEMMA HandsCounted ==
  ASSUME InputInv, UNCHANGED node, NEW t \in Threads, NEW where, pc' = [pc EXCEPT ![t] = where]
  PROVE  /\ Cardinality(Hands) \in Nat /\ Cardinality(Hands') \in Nat
         /\ pc[t] \in InHand /\ where \notin InHand => Cardinality(Hands') = Cardinality(Hands) - 1
         /\ pc[t] \notin InHand /\ where \in InHand => Cardinality(Hands') = Cardinality(Hands) + 1
<1>1. IsFiniteSet(Hands)
  <2>1. IsFiniteSet(Threads)
    BY NodeFacts DEF InputInv, NodeType
  <2>2. QED
    BY <2>1, FS_Subset DEF Hands
<1>2. Hands \ {t} = Hands' \ {t} /\ (t \in Hands <=> pc[t] \in InHand) /\ (t \in Hands' <=> where \in InHand)
  BY MoveFacts DEF Hands
<1>3. IsFiniteSet(Hands')
  <2>1. Hands' \subseteq Hands \cup {t}
    BY <1>2
  <2>2. IsFiniteSet(Hands \cup {t})
    BY <1>1, FS_AddElement
  <2>3. QED
    BY <2>1, <2>2, FS_Subset
<1>4. Cardinality(Hands) \in Nat /\ Cardinality(Hands') \in Nat
  BY <1>1, <1>3, FS_CardinalityType
<1>5. ASSUME pc[t] \in InHand, where \notin InHand
      PROVE  Cardinality(Hands') = Cardinality(Hands) - 1
  <2>1. t \in Hands /\ Hands' = Hands \ {t}
    BY <1>2, <1>5
  <2>2. QED
    BY <1>1, <2>1, FS_RemoveElement
<1>6. ASSUME pc[t] \notin InHand, where \in InHand
      PROVE  Cardinality(Hands') = Cardinality(Hands) + 1
  <2>1. t \notin Hands /\ Hands' = Hands \cup {t}
    BY <1>2, <1>6
  <2>2. QED
    BY <1>1, <2>1, FS_AddElement
<1>7. QED
  BY <1>4, <1>5, <1>6

(* Nobody has an invocation in hand, or somebody has.                      *)
LEMMA SomeHand ==
  ASSUME InputInv
  PROVE  /\ Cardinality(Hands) \in Nat
         /\ \A t \in Threads : pc[t] \in InHand => Cardinality(Hands) > 0
         /\ (\A t \in Threads : pc[t] \notin InHand) => Cardinality(Hands) = 0
         /\ Cardinality(Hands) = 0 => \A t \in Threads : pc[t] \notin InHand
<1>1. IsFiniteSet(Hands)
  <2>1. IsFiniteSet(Threads)
    BY NodeFacts DEF InputInv, NodeType
  <2>2. QED
    BY <2>1, FS_Subset DEF Hands
<1>2. Cardinality(Hands) \in Nat /\ (Cardinality(Hands) = 0 <=> Hands = {})
  BY <1>1, FS_CardinalityType, FS_EmptySet
<1>3. QED
  BY <1>2 DEF Hands

(* The invocation that is scheduled is later than all before.              *)
LEMMA ReadyIsNew ==
  ASSUME InputInv, NEW t \in Threads, ScheduleProcess(t), NEW ts, ts = ReadyAt(loop.bound, loop.packet)
  PROVE  /\ ts \in Int /\ Unstarted < ts /\ ts < Done /\ lastTs < ts /\ ~prepared
         /\ \A a \in DOMAIN inputs : a \in Int /\ a < ts
         /\ DOMAIN inputs' = DOMAIN inputs \cup {ts}
         /\ loop.at = "decide" /\ pc[t] = "loop"
<1>1. loop.at = "decide" /\ ~ReadyForClose /\ ts # Unset /\ pc[t] = "loop"
  BY DEF ScheduleProcess, In
<1>2. ts \in Int /\ lastTs < ts /\ Unstarted < ts /\ ts < Done /\ ~Floor(OneOverPostStream)
  BY <1>1, ReadyIsSettled
<1>3. lastTs \in Int /\ DOMAIN inputs \subseteq Int
  BY DEF InputInv, NodeType
<1>4. \A a \in DOMAIN inputs : a <= lastTs
  BY <1>2 DEF InputInv, TimeInv
<1>5. ~prepared
  BY <1>2 DEF InputInv, TimeInv
<1>6. DOMAIN inputs' = DOMAIN inputs \cup {ts}
  BY DEF ScheduleProcess
<1>7. QED
  BY <1>1, <1>2, <1>3, <1>4, <1>5, <1>6

(* A step between two places that are both in hand or both not.            *)
LEMMA CountMove ==
  ASSUME InputInv, CountInv, UNCHANGED <<node, inputs, inFlight, tasks>>, NEW t \in Threads,
         NEW where, pc' = pc \/ (pc' = [pc EXCEPT ![t] = where] /\ (pc[t] \in InHand <=> where \in InHand)),
         status' # "closed" => status # "closed",
         loop'.at \in {"read", "decide"} => loop'.left > 0 /\ inFlight + loop'.left <= MaxInFlight
  PROVE  CountInv'
<1>1. MaxInFlight' = MaxInFlight /\ Threads' = Threads
  BY DEF MaxInFlight, Threads, Streams, Workers
<1>2. Hands' = Hands
  <2>1. CASE pc' = pc
    BY <1>1, <2>1 DEF Hands
  <2>2. CASE pc' = [pc EXCEPT ![t] = where] /\ (pc[t] \in InHand <=> where \in InHand)
    BY <2>2, MoveFacts DEF Hands
  <2>3. QED
    BY <2>1, <2>2
<1>3. QED
  BY <1>1, <1>2 DEF CountInv

(* The count stays right.                                                  *)
LEMMA CountStep ==
  ASSUME InputInv, RolesInv, CountInv, Next, UNCHANGED node
  PROVE  CountInv'
<1>0. /\ InHand = {"process", "post", "postProp", "end", "close", "closeOutputs", "closeManager", "closed"}
      /\ loop \in LoopType /\ pc \in [Threads -> Places] /\ MaxInFlight \in Nat \ {0}
      /\ inFlight \in Nat /\ inFlight <= MaxInFlight
      /\ loop.left \in Int
  BY NodeFacts DEF InHand, Closing, InputInv, NodeType, CountInv, LoopType
<1>1. ASSUME NEW i \in Streams, FeedPacket(i) \/ FeedBound(i) PROVE CountInv'
  <2>1. i \in Threads /\ UNCHANGED <<inputs, inFlight, tasks, loop, status>>
    BY <1>1 DEF Threads, FeedPacket, FeedBound, Fed, schedVars
  <2>2. pc' = pc \/ (pc[i] = "idle" /\ pc' = [pc EXCEPT ![i] = "notify"])
    BY <1>1 DEF FeedPacket, FeedBound, Fed, Goto
  <2>3. pc' = pc \/ (pc' = [pc EXCEPT ![i] = "notify"] /\ (pc[i] \in InHand <=> "notify" \in InHand))
    BY <1>0, <2>2
  <2>4. QED
    BY <2>1, <2>3, CountMove DEF CountInv
<1>2. ASSUME NEW t \in Threads, CheckIfBecameReady(t) \/ EnterLoop(t) \/ ReadStream(t) \/ NotReady(t) \/ LeaveLoop(t)
      PROVE CountInv'
  <2>1. UNCHANGED <<inputs, inFlight, tasks, status>>
    BY <1>2 DEF CheckIfBecameReady, EnterLoop, ReadStream, NotReady, LeaveLoop, inputVars
  <2>2. PICK where \in {"loop", "idle"} : pc' = pc \/ (pc' = [pc EXCEPT ![t] = where] /\ pc[t] \in {"loop", "notify"})
    BY <1>2 DEF CheckIfBecameReady, EnterLoop, ReadStream, NotReady, LeaveLoop, Goto, In
  <2>3. loop'.at \in {"read", "decide"} => loop'.left > 0 /\ inFlight + loop'.left <= MaxInFlight
    <3>1. CASE loop' = loop
      BY <3>1 DEF CountInv
    <3>2. CASE loop' = Reading(MaxInFlight - inFlight)
      BY <1>0, <3>2, LoopForms
    <3>3. CASE loop' = NoLoop \/ loop' = [NoLoop EXCEPT !.at = "enter"]
      BY <3>3 DEF NoLoop
    <3>4. CASE NotReady(t)
      <4>1. loop' = [Reading(0) EXCEPT !.at = "update", !.bound = Earlier(loop.bound, loop.packet)]
        BY <3>4 DEF NotReady
      <4>2. QED
        BY <4>1, LoopForms
    <3>5. CASE ReadStream(t)
      <4>1. loop.at = "read" /\ loop'.left = loop.left
        BY <1>0, <3>5 DEF ReadStream, In, LoopType
      <4>2. QED
        BY <4>1 DEF CountInv
    <3>6. QED
      BY <1>2, <3>1, <3>2, <3>3, <3>4, <3>5 DEF CheckIfBecameReady, EnterLoop, LeaveLoop
  <2>4. QED
    BY <1>0, <2>1, <2>2, <2>3, CountMove
<1>3. ASSUME NEW t \in Threads, ScheduleProcess(t) PROVE CountInv'
  <2>1. PICK ts : ts = ReadyAt(loop.bound, loop.packet)
    OBVIOUS
  <2>2. /\ tasks' = tasks \cup {ts} /\ inFlight' = inFlight + 1 /\ loop' = Reading(loop.left - 1)
        /\ UNCHANGED <<status, pc>> /\ loop.at = "decide"
    BY <1>3, <2>1 DEF ScheduleProcess, In
  <2>3. ts \notin DOMAIN inputs /\ ts # Done /\ ts \in Int /\ DOMAIN inputs' = DOMAIN inputs \cup {ts}
    BY <1>3, <2>1, ReadyIsNew, TimestampFacts
  <2>4. ts \notin tasks /\ IsFiniteSet(tasks) /\ loop.left > 0 /\ inFlight + loop.left <= MaxInFlight
    BY <2>2, <2>3 DEF CountInv
  <2>5. IsFiniteSet(tasks') /\ Cardinality(tasks') = Cardinality(tasks) + 1 /\ Cardinality(tasks) \in Nat
    BY <2>2, <2>4, FS_AddElement, FS_CardinalityType
  <2>6. Hands' = Hands /\ Threads' = Threads /\ MaxInFlight' = MaxInFlight
    BY <2>2 DEF Hands, Threads, Streams, Workers, MaxInFlight
  <2>7. loop'.left = loop.left - 1 /\ (loop'.at = "read" => loop.left - 1 > 0) /\ loop'.at \in {"read", "leave"}
    BY <2>2, LoopForms
  <2>8. Cardinality(Hands) \in Nat
    BY SomeHand
  <2>9. status # "closed" => inFlight' = Cardinality(tasks') + Cardinality(Hands')
    BY <1>0, <2>2, <2>5, <2>6, <2>8 DEF CountInv
  <2>10. QED
    BY <1>0, <2>2, <2>3, <2>4, <2>5, <2>6, <2>7, <2>9 DEF CountInv
<1>4. ASSUME NEW t \in Threads, ScheduleClose(t) PROVE CountInv'
  <2>1. /\ loop' = Reading(0) /\ UNCHANGED <<inputs, pc, status>> /\ loop.at = "decide"
        /\ \/ UNCHANGED <<tasks, inFlight>>
           \/ tasks' = tasks \cup {Done} /\ inFlight' = inFlight + 1 /\ ~prepared
    BY <1>4 DEF ScheduleClose, In, MayPrepareClose
  <2>2. loop'.at = "leave"
    BY <2>1, LoopForms
  <2>3. CASE UNCHANGED <<tasks, inFlight>>
    BY <2>1, <2>2, <2>3, CountMove
  <2>4. CASE tasks' = tasks \cup {Done} /\ inFlight' = inFlight + 1 /\ ~prepared
    <3>1. Done \notin tasks /\ IsFiniteSet(tasks) /\ loop.left > 0 /\ inFlight + loop.left <= MaxInFlight
      BY <2>1, <2>4 DEF CountInv, InputInv, TimeInv
    <3>2. IsFiniteSet(tasks') /\ Cardinality(tasks') = Cardinality(tasks) + 1 /\ Cardinality(tasks) \in Nat
      BY <2>4, <3>1, FS_AddElement, FS_CardinalityType
    <3>3. Hands' = Hands /\ Threads' = Threads /\ MaxInFlight' = MaxInFlight
      BY <2>1 DEF Hands, Threads, Streams, Workers, MaxInFlight
    <3>4. Cardinality(Hands) \in Nat
      BY SomeHand
    <3>5. status # "closed" => inFlight' = Cardinality(tasks') + Cardinality(Hands')
      BY <1>0, <2>4, <3>2, <3>3, <3>4 DEF CountInv
    <3>6. QED
      BY <1>0, <2>1, <2>2, <2>4, <3>1, <3>2, <3>3, <3>5 DEF CountInv
  <2>5. QED
    BY <2>1, <2>3, <2>4
<1>5. ASSUME NEW t \in Threads, EndScheduling(t) PROVE CountInv'
  <2>1. pc[t] = "end" /\ UNCHANGED <<inputs, tasks, status>>
    BY <1>5 DEF EndScheduling, inputVars
  <2>2. PICK where \in {"idle", "loop"} : pc' = [pc EXCEPT ![t] = where]
    BY <1>5 DEF EndScheduling, Goto
  <2>3. /\ Cardinality(Hands') = Cardinality(Hands) - 1 /\ Cardinality(Hands) > 0
        /\ Cardinality(Hands) \in Nat /\ Cardinality(Hands') \in Nat
    BY <1>0, <2>1, <2>2, HandsCounted, SomeHand
  <2>4. Threads' = Threads /\ MaxInFlight' = MaxInFlight
    BY <2>2, MoveFacts
  <2>5. loop' = loop \/ loop'.at = "enter"
    BY <1>5 DEF EndScheduling, NoLoop
  <2>6. CASE status = "closed"
    <3>1. inFlight' = inFlight
      BY <1>5, <2>6 DEF EndScheduling
    <3>2. QED
      BY <2>1, <2>4, <2>5, <2>6, <3>1 DEF CountInv
  <2>7. CASE status # "closed"
    <3>1. inFlight' = inFlight - 1
      BY <1>5, <2>7 DEF EndScheduling
    <3>2. Cardinality(tasks) \in Nat /\ inFlight = Cardinality(tasks) + Cardinality(Hands)
      BY <2>7, FS_CardinalityType DEF CountInv
    <3>3. inFlight' \in Nat /\ inFlight' <= MaxInFlight /\ inFlight' = Cardinality(tasks) + Cardinality(Hands')
      BY <1>0, <2>3, <3>1, <3>2
    <3>4. loop'.at \in {"read", "decide"} => loop'.left > 0 /\ inFlight' + loop'.left <= MaxInFlight
      BY <1>0, <2>5, <3>1 DEF CountInv
    <3>5. QED
      BY <2>1, <2>4, <3>3, <3>4 DEF CountInv
  <2>8. QED
    BY <2>6, <2>7
<1>6. ASSUME NEW t \in Threads, RunNextTask(t) PROVE CountInv'
  <2>1. PICK ts \in tasks :
          /\ pc[t] = "idle" /\ tasks' = tasks \ {ts}
          /\ Goto(t, IF ts = Done THEN "close" ELSE "process")
          /\ UNCHANGED <<inputs, status, inFlight, loop>>
    BY <1>6 DEF RunNextTask, inputVars
  <2>2. PICK where \in {"close", "process"} : pc' = [pc EXCEPT ![t] = where]
    BY <2>1 DEF Goto
  <2>3. Cardinality(Hands') = Cardinality(Hands) + 1 /\ Cardinality(Hands) \in Nat
    BY <1>0, <2>1, <2>2, HandsCounted
  <2>4. IsFiniteSet(tasks') /\ Cardinality(tasks') = Cardinality(tasks) - 1 /\ Cardinality(tasks) \in Nat
    BY <2>1, FS_RemoveElement, FS_CardinalityType DEF CountInv
  <2>5. Threads' = Threads /\ MaxInFlight' = MaxInFlight
    BY <2>2, MoveFacts
  <2>6. status # "closed" => inFlight' = Cardinality(tasks') + Cardinality(Hands')
    BY <1>0, <2>1, <2>3, <2>4 DEF CountInv
  <2>7. QED
    BY <2>1, <2>4, <2>5, <2>6 DEF CountInv
<1>7. ASSUME NEW t \in Threads, UpdateTaskTimestampBound(t) \/ Propagate(t) \/ PostProcess(t)
      PROVE  CountInv'
  <2>1. UNCHANGED <<inputs, inFlight, tasks, status>>
    BY <1>7, PropagationMoves
  <2>2. \E where : pc' = pc \/ (pc' = [pc EXCEPT ![t] = where] /\ (pc[t] \in InHand <=> where \in InHand))
    BY <1>0, <1>7, PropagationMoves DEF AtLoop
  <2>3. loop' = loop \/ loop'.at = "leave"
    BY <1>7, PropagationMoves
  <2>4. loop'.at \in {"read", "decide"} => loop'.left > 0 /\ inFlight + loop'.left <= MaxInFlight
    BY <2>3 DEF CountInv
  <2>5. QED
    BY <2>1, <2>2, <2>4, CountMove
<1>8. ASSUME NEW t \in Threads, \/ OpenNode(t) \/ ProcessNode(t) \/ Closed(t)
                                \/ CloseInputStreams(t) \/ CloseOutputStreams(t) \/ CloseManager(t)
      PROVE  CountInv'
  <2>1. UNCHANGED <<inputs, inFlight, tasks, loop>>
    BY <1>8 DEF OpenNode, ProcessNode, CloseInputStreams, CloseOutputStreams, CloseManager, schedVars, Closed, inputVars
  <2>2. status' # "closed" => status # "closed"
    BY <1>8 DEF OpenNode, ProcessNode, CloseInputStreams, CloseOutputStreams, CloseManager, schedVars, Closed, RolesInv
  <2>3. \E where : pc' = [pc EXCEPT ![t] = where] /\ (pc[t] \in InHand <=> where \in InHand)
    BY <1>0, <1>8 DEF OpenNode, ProcessNode, CloseInputStreams, CloseOutputStreams, CloseManager, Goto, Closed
  <2>4. QED
    BY <2>1, <2>2, <2>3, CountMove DEF CountInv
<1>10. QED
  BY <1>1, <1>2, <1>3, <1>4, <1>5, <1>6, <1>7, <1>8 DEF Next, Schedule, Work, Threads

-----------------------------------------------------------------------------
(* The outputs: which invocations are where, and who propagates.           *)

Running == {"process", "post"}
Propagators == {"loopProp", "postProp"}

(* The context at a has been recycled, but is still on the list of the     *)
(* finished invocations.                                                   *)
Recycled(a) == prop = "packets" /\ pr.at = "relock" /\ a = pr.ts

(* An invocation is queued, running or finished.                           *)
BooksInv ==
  /\ \A a \in DOMAIN inputs : a \in Int /\ Unstarted < a /\ a < Done
  /\ completed \subseteq DOMAIN inputs /\ active \subseteq DOMAIN inputs /\ DOMAIN arg = Threads
  /\ \A t \in Threads : pc[t] \in Running => arg[t] \in DOMAIN inputs /\ arg[t] \notin tasks \cup completed
  /\ \A t, u \in Threads : pc[t] \in Running /\ pc[u] \in Running /\ arg[t] = arg[u] => t = u
  /\ tasks \cap completed = {}
  /\ ~Parallel => active = {} /\ completed = {}
  /\ Parallel => \A a \in DOMAIN inputs :
                   a \in active <=> \/ a \in tasks
                                    \/ \E t \in Threads : pc[t] \in Running /\ arg[t] = a
                                    \/ a \in completed /\ ~Recycled(a)

(* The one who propagates sends the earliest invocation; when that one has *)
(* finished, somebody is there to send it.                                 *)
PropInv ==
  /\ prop \in {"idle", "packets", "bound", "pending"} /\ taskBound \in Int
  /\ pr \in [at : {"none", "test", "send", "recycle", "relock"}, ts : Int]
  /\ \A t, u \in Threads : pc[t] \in Propagators /\ pc[u] \in Propagators => t = u
  /\ prop # "idle" <=> \E t \in Threads : pc[t] \in Propagators
  /\ ~Parallel => prop \in {"idle", "bound"} /\ \A t \in Threads : pc[t] # "postProp"
  /\ prop = "packets" => /\ pr.at \in {"send", "recycle", "relock"} /\ pr.ts \in completed
                         /\ \A a \in active \cup completed : pr.ts <= a
  /\ prop \in {"bound", "pending"} => pr.at \in {"test", "send", "relock"}
  /\ active # {} /\ Earliest(active) \in completed => prop \in {"packets", "pending"}

(* A set of times with an element has an earliest one.                     *)
LEMMA EarliestIsFirst ==
  ASSUME NEW S, S # {}, \A a \in S : a \in Int /\ Unstarted < a
  PROVE  /\ Earliest(S) \in S /\ Earliest(S) \in Int /\ \A u \in S : Earliest(S) <= u
         /\ \A x \in S : (\A u \in S : x <= u) => x = Earliest(S)
<1> DEFINE N == {a + 1 : a \in S}
<1>1. N \in SUBSET Nat /\ N # {}
  BY TimeLine
<1>2. PICK n \in N : \A m \in N : n <= m
  <2> HIDE DEF N
  <2>1. QED
    BY <1>1, LeastElement
<1>3. PICK x \in S : n = x + 1
  BY <1>2
<1>4. ASSUME NEW u \in S PROVE x <= u
  <2>1. n <= u + 1 /\ u \in Int /\ x \in Int
    BY <1>2
  <2>2. QED
    BY <1>3, <2>1
<1>5. Earliest(S) \in S /\ \A u \in S : Earliest(S) <= u
  BY <1>4 DEF Earliest
<1>6. ASSUME NEW y \in S, \A u \in S : y <= u PROVE y = Earliest(S)
  <2>1. y <= Earliest(S) /\ Earliest(S) <= y /\ y \in Int /\ Earliest(S) \in Int
    BY <1>5, <1>6
  <2>2. QED
    BY <2>1
<1>7. QED
  BY <1>5, <1>6

(* Among the active contexts, the earliest; among the finished, likewise.  *)
LEMMA EarliestFacts ==
  ASSUME InputInv, BooksInv
  PROVE  \A S \in SUBSET DOMAIN inputs : S # {} =>
           /\ Earliest(S) \in S /\ Earliest(S) \in Int /\ \A u \in S : Earliest(S) <= u
           /\ \A x \in S : (\A u \in S : x <= u) => x = Earliest(S)
<1>1. TAKE S \in SUBSET DOMAIN inputs
<1>2. HAVE S # {}
<1>3. \A a \in S : a \in Int /\ Unstarted < a
  BY DEF BooksInv
<1>4. QED
  BY <1>2, <1>3, EarliestIsFirst

(* Steps that do not concern the outputs.                                  *)
LEMMA BooksRest ==
  ASSUME InputInv, BooksInv, UNCHANGED <<node, inputs, completed, active, arg, prop, pr>>,
         tasks' = tasks \/ tasks' = tasks \cup {Done},
         NEW t \in Threads, NEW where,
         pc' = pc \/ (pc' = [pc EXCEPT ![t] = where] /\ (pc[t] \in Running <=> where \in Running))
  PROVE  BooksInv'
<1>1. Threads' = Threads /\ Parallel' = Parallel
  BY DEF Parallel, MaxInFlight, Threads, Streams, Workers
<1>2. \A u \in Threads : pc'[u] \in Running <=> pc[u] \in Running
  <2>1. CASE pc' = pc
    BY <2>1
  <2>2. CASE pc' = [pc EXCEPT ![t] = where] /\ (pc[t] \in Running <=> where \in Running)
    BY <2>2, MoveFacts
  <2>3. QED
    BY <2>1, <2>2
<1>3. Done \notin DOMAIN inputs /\ \A a \in DOMAIN inputs : a \in tasks' <=> a \in tasks
  BY TimestampFacts DEF BooksInv
<1>4. \A a : Recycled(a)' <=> Recycled(a)
  BY DEF Recycled
<1>5. tasks' \cap completed = {}
  BY <1>3 DEF BooksInv
<1>6. \A u \in Threads : pc'[u] \in Running => arg[u] \in DOMAIN inputs /\ arg[u] \notin tasks' \cup completed
  BY <1>2, <1>3 DEF BooksInv
<1>7. \A a \in DOMAIN inputs : (\E u \in Threads : pc'[u] \in Running /\ arg[u] = a)
                                 <=> (\E u \in Threads : pc[u] \in Running /\ arg[u] = a)
  BY <1>2
<1>8. Parallel => \A a \in DOMAIN inputs :
                   a \in active <=> \/ a \in tasks'
                                    \/ \E u \in Threads : pc'[u] \in Running /\ arg[u] = a
                                    \/ a \in completed /\ ~Recycled(a)'
  BY <1>3, <1>4, <1>7 DEF BooksInv
<1>9. QED
  BY <1>1, <1>2, <1>5, <1>6, <1>8 DEF BooksInv

(* Steps that do not concern the propagation.                              *)
LEMMA PropRest ==
  ASSUME InputInv, PropInv, UNCHANGED <<node, completed, taskBound, prop, pr, active>>,
         NEW t \in Threads, NEW where,
         pc' = pc \/ (pc' = [pc EXCEPT ![t] = where] /\ pc[t] \notin Propagators /\ where \notin Propagators)
  PROVE  PropInv'
<1>1. Threads' = Threads /\ Parallel' = Parallel
  BY DEF Parallel, MaxInFlight, Threads, Streams, Workers
<1>2. \A u \in Threads : pc'[u] = pc[u] \/ (pc'[u] \notin Propagators /\ pc[u] \notin Propagators)
  <2>1. CASE pc' = pc
    BY <2>1
  <2>2. CASE pc' = [pc EXCEPT ![t] = where] /\ pc[t] \notin Propagators /\ where \notin Propagators
    BY <2>2, MoveFacts
  <2>3. QED
    BY <2>1, <2>2
<1>3. /\ \A u \in Threads : pc'[u] \in Propagators <=> pc[u] \in Propagators
      /\ \A u \in Threads : pc'[u] = "postProp" => pc[u] = "postProp"
  BY <1>2 DEF Propagators
<1>4. prop # "idle" <=> \E u \in Threads : pc'[u] \in Propagators
  BY <1>3 DEF PropInv
<1>5. QED
  BY <1>1, <1>3, <1>4 DEF PropInv

(* Another invocation, later than all others.                              *)
LEMMA ScheduleProcessBooked ==
  ASSUME InputInv, CountInv, BooksInv, PropInv, UNCHANGED node, NEW t \in Threads, ScheduleProcess(t)
  PROVE  BooksInv' /\ PropInv'
<1>1. PICK ts : ts = ReadyAt(loop.bound, loop.packet)
  OBVIOUS
<1>2. /\ tasks' = tasks \cup {ts} /\ active' = IF Parallel THEN active \cup {ts} ELSE active
      /\ UNCHANGED <<completed, taskBound, prop, pr, pc, arg>>
  BY <1>1 DEF ScheduleProcess
<1>3. /\ ts \in Int /\ Unstarted < ts /\ ts < Done /\ \A a \in DOMAIN inputs : a \in Int /\ a < ts
      /\ DOMAIN inputs' = DOMAIN inputs \cup {ts}
  BY <1>1, ReadyIsNew
<1>4. Threads' = Threads /\ Parallel' = Parallel /\ ts \notin DOMAIN inputs
  BY <1>3 DEF Parallel, MaxInFlight, Threads, Streams, Workers
<1>5. ts \notin completed /\ ts \notin active /\ ts \notin tasks
  BY <1>3, <1>4 DEF BooksInv, CountInv
<1>6. \A a : Recycled(a)' <=> Recycled(a)
  BY <1>2 DEF Recycled
<1>7. BooksInv'
  <2>1. \A u \in Threads : pc'[u] \in Running =>
          arg'[u] \in DOMAIN inputs' /\ arg'[u] \notin tasks' \cup completed'
    <3>1. TAKE u \in Threads
    <3>2. HAVE pc'[u] \in Running
    <3>3. arg[u] \in DOMAIN inputs /\ arg[u] \notin tasks \cup completed
      BY <1>2, <3>2 DEF BooksInv
    <3>4. QED
      BY <1>2, <1>3, <1>4, <3>3
  <2>2. ASSUME Parallel, NEW a \in DOMAIN inputs'
        PROVE  a \in active' <=> \/ a \in tasks'
                                 \/ \E u \in Threads : pc'[u] \in Running /\ arg'[u] = a
                                 \/ a \in completed' /\ ~Recycled(a)'
    <3>1. CASE a = ts
      BY <1>2, <2>2, <3>1
    <3>2. CASE a # ts
      BY <1>2, <1>3, <1>6, <2>2, <3>2 DEF BooksInv
    <3>3. QED
      BY <3>1, <3>2
  <2>3. tasks' \cap completed' = {}
    BY <1>2, <1>5 DEF BooksInv
  <2>4. \A a \in DOMAIN inputs' : a \in Int /\ Unstarted < a /\ a < Done
    BY <1>3 DEF BooksInv
  <2>5. QED
    BY <1>2, <1>3, <1>4, <2>1, <2>2, <2>3, <2>4 DEF BooksInv
<1>8. active' # {} /\ Earliest(active') \in completed' => prop' \in {"packets", "pending"}
  <2>1. SUFFICES ASSUME active' # {}, Earliest(active') \in completed PROVE prop \in {"packets", "pending"}
    BY <1>2
  <2>2. CASE ~Parallel
    BY <1>2, <2>1, <2>2 DEF BooksInv
  <2>3. CASE Parallel
    <3>1. active' = active \cup {ts} /\ \A a \in active' : a \in Int /\ Unstarted < a
      BY <1>2, <1>3, <2>3 DEF BooksInv
    <3>2. Earliest(active') \in active' /\ \A u \in active' : Earliest(active') <= u
      BY <2>1, <3>1, EarliestIsFirst
    <3>3. Earliest(active') \in active
      BY <1>5, <2>1, <3>1, <3>2
    <3>4. active # {} /\ \A a \in active : a \in Int /\ Unstarted < a
      BY <3>1, <3>3
    <3>5. Earliest(active') = Earliest(active)
      BY <3>1, <3>2, <3>3, <3>4, EarliestIsFirst
    <3>6. QED
      BY <2>1, <3>4, <3>5 DEF PropInv
  <2>4. QED
    BY <2>2, <2>3
<1>9. prop' = "packets" => /\ pr'.at \in {"send", "recycle", "relock"} /\ pr'.ts \in completed'
                           /\ \A a \in active' \cup completed' : pr'.ts <= a
  <2>1. SUFFICES ASSUME prop = "packets" PROVE \A a \in active' : pr.ts <= a
    BY <1>2 DEF PropInv
  <2>2. pr.ts \in completed /\ \A a \in active : pr.ts <= a
    BY <2>1 DEF PropInv
  <2>3. pr.ts <= ts
    BY <1>3, <2>2 DEF BooksInv
  <2>4. QED
    BY <1>2, <2>2, <2>3
<1>10. PropInv'
  BY <1>2, <1>4, <1>8, <1>9 DEF PropInv
<1>11. QED
  BY <1>7, <1>10

(* A worker takes an invocation.                                           *)
LEMMA RunNextTaskBooked ==
  ASSUME InputInv, CountInv, BooksInv, PropInv, UNCHANGED node, NEW t \in Threads, RunNextTask(t)
  PROVE  BooksInv' /\ PropInv'
<1>1. PICK ts \in tasks :
        /\ pc[t] = "idle" /\ tasks' = tasks \ {ts} /\ arg' = [arg EXCEPT ![t] = ts]
        /\ Goto(t, IF ts = Done THEN "close" ELSE "process")
        /\ UNCHANGED <<inputs, completed, taskBound, prop, pr, active>>
  BY DEF RunNextTask, inputVars, outputVars
<1>2. PICK where \in {"close", "process"} :
        pc' = [pc EXCEPT ![t] = where] /\ (where = "process" <=> ts # Done)
  BY <1>1 DEF Goto
<1>3. /\ pc'[t] = where /\ \A u \in Threads : u # t => pc'[u] = pc[u]
      /\ Threads' = Threads
  BY <1>2, MoveFacts
<1>4. DOMAIN arg' = Threads /\ arg'[t] = ts /\ \A u \in Threads : u # t => arg'[u] = arg[u]
  BY <1>1 DEF BooksInv
<1>5. PropInv'
  BY <1>1, <1>2, PropRest DEF Propagators
<1>6. Parallel' = Parallel /\ \A a : Recycled(a)' <=> Recycled(a)
  BY <1>1 DEF Recycled, Parallel, MaxInFlight
<1>7. pc[t] \notin Running /\ (where \in Running <=> ts # Done) /\ (ts # Done => ts \in DOMAIN inputs)
      /\ ts \notin completed /\ Done \notin DOMAIN inputs
  BY <1>1, <1>2, TimestampFacts DEF Running, CountInv, BooksInv
<1>8. \A u \in Threads : pc'[u] \in Running =>
          arg'[u] \in DOMAIN inputs /\ arg'[u] \notin tasks' \cup completed
  <2>1. ASSUME NEW u \in Threads, pc'[u] \in Running
        PROVE  arg'[u] \in DOMAIN inputs /\ arg'[u] \notin tasks' \cup completed
    <3>1. CASE u = t
      BY <1>1, <1>3, <1>4, <1>7, <2>1, <3>1
    <3>2. CASE u # t
      BY <1>1, <1>3, <1>4, <2>1, <3>2 DEF BooksInv
    <3>3. QED
      BY <3>1, <3>2
  <2>2. QED
    BY <2>1
<1>9. \A u, v \in Threads : pc'[u] \in Running /\ pc'[v] \in Running /\ arg'[u] = arg'[v] => u = v
  <2>1. \A u \in Threads : u # t /\ pc'[u] \in Running => arg'[u] # ts
    BY <1>1, <1>3, <1>4 DEF BooksInv
  <2>2. QED
    BY <1>3, <1>4, <2>1 DEF BooksInv
<1>10. ASSUME Parallel, NEW a \in DOMAIN inputs
       PROVE  a \in active <=> \/ a \in tasks'
                               \/ \E u \in Threads : pc'[u] \in Running /\ arg'[u] = a
                               \/ a \in completed /\ ~Recycled(a)
  <2>1. a \in active <=> \/ a \in tasks
                         \/ \E u \in Threads : pc[u] \in Running /\ arg[u] = a
                         \/ a \in completed /\ ~Recycled(a)
    BY <1>10 DEF BooksInv
  <2>2. CASE a = ts
    <3>1. pc'[t] \in Running /\ arg'[t] = a /\ a \in tasks
      BY <1>3, <1>4, <1>7, <1>10, <2>2
    <3>2. QED
      BY <2>1, <3>1
  <2>3. CASE a # ts
    <3>1. (\E u \in Threads : pc'[u] \in Running /\ arg'[u] = a)
            <=> (\E u \in Threads : pc[u] \in Running /\ arg[u] = a)
      BY <1>3, <1>4, <1>7, <2>3
    <3>2. QED
      BY <1>1, <2>1, <2>3, <3>1
  <2>4. QED
    BY <2>2, <2>3
<1>11. BooksInv'
  BY <1>1, <1>3, <1>4, <1>6, <1>8, <1>9, <1>10 DEF BooksInv
<1>12. QED
  BY <1>5, <1>11

(* Entering the propagation, with the finished invocations that there are  *)
(* in the step.                                                            *)
LEMMA EnterKeeps ==
  ASSUME InputInv, RolesInv, BooksInv, PropInv, UNCHANGED <<node, active>>, Parallel, NEW t \in Threads,
         pc[t] = "post" \/ (pc[t] = "loop" /\ loop.at = "update"),
         NEW bound \in Int, taskBound' \in Int, EnterPropagation(t, completed', bound),
         completed' \subseteq DOMAIN inputs, completed \subseteq completed',
         prop = "packets" => \A a \in completed' : pr.ts <= a,
         prop # "packets" => completed' \subseteq active
  PROVE  PropInv'
<1>1. Threads' = Threads /\ Parallel' = Parallel /\ pc[t] \notin Propagators
  BY DEF Parallel, MaxInFlight, Threads, Streams, Workers, Propagators
<1>2. active \subseteq DOMAIN inputs /\ pr \in [at : {"none", "test", "send", "recycle", "relock"}, ts : Int]
  BY DEF BooksInv, PropInv
<1>3. ASSUME Return(t)
      PROVE  /\ \A u \in Threads : pc'[u] \in Propagators <=> pc[u] \in Propagators
  <2>1. PICK where \in {"loop", "end"} : pc' = [pc EXCEPT ![t] = where]
    BY <1>3 DEF Return, Goto, Back
  <2>2. QED
    BY <1>1, <2>1, MoveFacts DEF Propagators
<1>4. ASSUME Goto(t, Propagating(t))
      PROVE  pc'[t] \in Propagators /\ \A u \in Threads : u # t => pc'[u] = pc[u]
  <2>1. PICK where \in Propagators : pc' = [pc EXCEPT ![t] = where]
    BY <1>4 DEF Goto, Propagating, Propagators
  <2>2. QED
    BY <2>1, MoveFacts
<1>5. CASE prop # "idle"
  <2>1. /\ prop' = IF prop = "bound" THEN "pending" ELSE prop
        /\ Return(t) /\ UNCHANGED pr
    BY <1>5 DEF EnterPropagation
  <2>2. prop' # "idle" <=> \E u \in Threads : pc'[u] \in Propagators
    BY <1>3, <1>5, <2>1 DEF PropInv
  <2>3. prop' \in {"packets", "pending"} /\ (prop' = "packets" => prop = "packets")
    BY <1>5, <2>1 DEF PropInv
  <2>4. prop' = "packets" => /\ pr'.at \in {"send", "recycle", "relock"} /\ pr'.ts \in completed'
                             /\ \A a \in active' \cup completed' : pr'.ts <= a
    BY <2>1, <2>3 DEF PropInv
  <2>5. prop' \in {"bound", "pending"} => pr'.at \in {"test", "send", "relock"}
    BY <2>1, <2>3 DEF PropInv
  <2>6. \A u, v \in Threads : pc'[u] \in Propagators /\ pc'[v] \in Propagators => u = v
    BY <1>3, <2>1 DEF PropInv
  <2>7. QED
    BY <1>1, <1>2, <2>1, <2>2, <2>3, <2>4, <2>5, <2>6 DEF PropInv
<1>6. CASE prop = "idle"
  <2>1. \A u \in Threads : pc[u] \notin Propagators
    BY <1>6 DEF PropInv
  <2>2. CASE active = {}
    <3>1. prop' = "bound" /\ pr' = [at |-> "test", ts |-> bound] /\ Goto(t, Propagating(t))
      BY <1>6, <2>2 DEF EnterPropagation
    <3>2. \A u \in Threads : pc'[u] \in Propagators <=> u = t
      BY <1>4, <2>1, <3>1
    <3>3. pr' \in [at : {"none", "test", "send", "recycle", "relock"}, ts : Int] /\ pr'.at = "test"
      BY <3>1
    <3>4. QED
      BY <1>1, <2>2, <3>1, <3>2, <3>3 DEF PropInv
  <2>3. CASE active # {} /\ completed' # {} /\ Earliest(completed') = Earliest(active)
    <3>1. prop' = "packets" /\ pr' = [at |-> "send", ts |-> Earliest(active)] /\ Goto(t, Propagating(t))
      BY <1>6, <2>3 DEF EnterPropagation
    <3>2. \A u \in Threads : pc'[u] \in Propagators <=> u = t
      BY <1>4, <2>1, <3>1
    <3>3. Earliest(active) \in Int /\ Earliest(active) \in completed' /\ \A a \in active : Earliest(active) <= a
      BY <1>2, <2>3, EarliestFacts
    <3>4. /\ pr' \in [at : {"none", "test", "send", "recycle", "relock"}, ts : Int] /\ pr'.at = "send"
          /\ pr'.ts = Earliest(active)
      BY <3>1, <3>3
    <3>5. \A a \in active' \cup completed' : pr'.ts <= a
      BY <1>6, <3>3, <3>4
    <3>6. QED
      BY <1>1, <3>1, <3>2, <3>3, <3>4, <3>5 DEF PropInv
  <2>4. CASE active # {} /\ ~(completed' # {} /\ Earliest(completed') = Earliest(active))
    <3>1. Return(t) /\ UNCHANGED <<prop, pr>>
      BY <1>6, <2>4 DEF EnterPropagation
    <3>2. Earliest(active) \notin completed'
      <4>1. SUFFICES ASSUME Earliest(active) \in completed' PROVE FALSE
        OBVIOUS
      <4>2. \A a \in active : Earliest(active) <= a
        BY <1>2, <2>4, EarliestFacts
      <4>3. \A a \in completed' : Earliest(active) <= a
        BY <1>6, <4>2
      <4>4. QED
        BY <2>4, <4>1, <4>3, EarliestFacts
    <3>3. QED
      BY <1>1, <1>2, <1>3, <1>6, <2>1, <3>1, <3>2 DEF PropInv
  <2>5. QED
    BY <2>2, <2>3, <2>4
<1>7. QED
  BY <1>5, <1>6

(* An invocation has finished.                                             *)
LEMMA PostProcessBooked ==
  ASSUME InputInv, RolesInv, BooksInv, PropInv, UNCHANGED node, NEW t \in Threads, PostProcess(t)
  PROVE  BooksInv' /\ PropInv'
<1>1. pc[t] = "post" /\ pc[t] \in Running /\ UNCHANGED <<inputs, tasks, taskBound, active, arg>>
  BY DEF PostProcess, Running, inputVars
<1>2. /\ Threads' = Threads /\ Parallel' = Parallel
  BY DEF Parallel, MaxInFlight, Threads, Streams, Workers
<1>3. PICK where \in {"postProp", "end"} : pc' = [pc EXCEPT ![t] = where]
  BY <1>1, PropagationMoves DEF AtLoop
<1>4. /\ pc'[t] = where /\ \A u \in Threads : u # t => pc'[u] = pc[u]
      /\ where \notin Running
  BY <1>3, MoveFacts DEF Running
<1>5. CASE ~Parallel
  <2>1. pc' = [pc EXCEPT ![t] = "end"] /\ UNCHANGED <<completed, prop, pr>>
    BY <1>5 DEF PostProcess, Goto
  <2>2. PropInv'
    <3>1. pc[t] \notin Propagators /\ "end" \notin Propagators
      BY <1>1 DEF Propagators
    <3>2. UNCHANGED <<node, completed, taskBound, prop, pr, active>>
      BY <1>1, <2>1
    <3>3. QED
      BY <2>1, <3>1, <3>2, PropRest
  <2>3. BooksInv'
    BY <1>1, <1>2, <1>4, <1>5, <2>1 DEF BooksInv
  <2>4. QED
    BY <2>2, <2>3
<1>6. CASE Parallel
  <2>1. completed' = completed \cup {arg[t]} /\ EnterPropagation(t, completed', taskBound)
    BY <1>6 DEF PostProcess
  <2>2. /\ arg[t] \in DOMAIN inputs /\ arg[t] \notin tasks /\ arg[t] \notin completed /\ arg[t] \in active
    BY <1>1, <1>6 DEF BooksInv
  <2>3. completed' \subseteq DOMAIN inputs /\ completed \subseteq completed' /\ taskBound \in Int /\ taskBound' \in Int
    BY <1>1, <2>1, <2>2 DEF BooksInv, PropInv
  <2>4. prop = "packets" => \A a \in completed' : pr.ts <= a
    BY <2>1, <2>2 DEF PropInv
  <2>5. prop # "packets" => completed' \subseteq active
    BY <1>6, <2>1, <2>2 DEF BooksInv, Recycled
  <2>6. PropInv'
    BY <1>1, <1>6, <2>1, <2>3, <2>4, <2>5, EnterKeeps
  <2>7. \A a \in completed' : Recycled(a)' <=> a # arg[t] /\ Recycled(a)
    <3>1. \/ UNCHANGED pr /\ (prop' = "packets" <=> prop = "packets")
          \/ pr'.at # "relock" /\ prop = "idle"
      BY <2>1 DEF EnterPropagation
    <3>2. prop = "packets" => pr.ts \in completed
      BY DEF PropInv
    <3>3. CASE UNCHANGED pr /\ (prop' = "packets" <=> prop = "packets")
      BY <2>2, <3>2, <3>3 DEF Recycled
    <3>4. CASE pr'.at # "relock" /\ prop = "idle"
      BY <3>4 DEF Recycled
    <3>5. QED
      BY <3>1, <3>3, <3>4
  <2>8. ASSUME NEW a \in DOMAIN inputs
        PROVE  a \in active <=> \/ a \in tasks
                                \/ \E u \in Threads : pc'[u] \in Running /\ arg[u] = a
                                \/ a \in completed' /\ ~Recycled(a)'
    <3>1. a \in active <=> \/ a \in tasks
                           \/ \E u \in Threads : pc[u] \in Running /\ arg[u] = a
                           \/ a \in completed /\ ~Recycled(a)
      BY <1>6 DEF BooksInv
    <3>2. CASE a = arg[t]
      BY <2>1, <2>2, <2>7, <3>2
    <3>3. CASE a # arg[t]
      <4>1. (\E u \in Threads : pc'[u] \in Running /\ arg[u] = a)
              <=> (\E u \in Threads : pc[u] \in Running /\ arg[u] = a)
        BY <1>4, <3>3
      <4>2. QED
        BY <2>1, <2>7, <3>1, <3>3, <4>1
    <3>4. QED
      BY <3>2, <3>3
  <2>9. \A u \in Threads : pc'[u] \in Running =>
          u # t /\ pc[u] \in Running /\ arg[u] \in DOMAIN inputs /\ arg[u] \notin tasks \cup completed'
    <3>1. TAKE u \in Threads
    <3>2. HAVE pc'[u] \in Running
    <3>3. u # t /\ pc[u] \in Running
      BY <1>4, <3>2
    <3>4. arg[u] # arg[t]
      BY <1>1, <3>3 DEF BooksInv
    <3>5. QED
      BY <2>1, <3>3, <3>4 DEF BooksInv
  <2>10. tasks \cap completed' = {}
    BY <2>1, <2>2 DEF BooksInv
  <2>11. \A u, v \in Threads : pc'[u] \in Running /\ pc'[v] \in Running /\ arg[u] = arg[v] => u = v
    BY <2>9 DEF BooksInv
  <2>12. BooksInv'
    BY <1>1, <1>2, <1>6, <2>3, <2>8, <2>9, <2>10, <2>11 DEF BooksInv
  <2>13. QED
    BY <2>6, <2>12
<1>7. QED
  BY <1>5, <1>6

(* When only the state of the propagation changes.                         *)
LEMMA BooksKept ==
  ASSUME InputInv, BooksInv, UNCHANGED <<node, inputs, tasks, completed, active, arg>>,
         NEW t \in Threads, NEW where,
         pc' = pc \/ (pc' = [pc EXCEPT ![t] = where] /\ (pc[t] \in Running <=> where \in Running)),
         \A a \in completed : Recycled(a)' <=> Recycled(a)
  PROVE  BooksInv'
<1>1. Threads' = Threads /\ Parallel' = Parallel
  BY DEF Parallel, MaxInFlight, Threads, Streams, Workers
<1>2. \A u \in Threads : pc'[u] \in Running <=> pc[u] \in Running
  <2>1. CASE pc' = pc
    BY <2>1
  <2>2. CASE pc' = [pc EXCEPT ![t] = where] /\ (pc[t] \in Running <=> where \in Running)
    BY <2>2, MoveFacts
  <2>3. QED
    BY <2>1, <2>2
<1>3. \A a \in DOMAIN inputs : (\E u \in Threads : pc'[u] \in Running /\ arg[u] = a)
                                 <=> (\E u \in Threads : pc[u] \in Running /\ arg[u] = a)
  BY <1>2
<1>4. Parallel => \A a \in DOMAIN inputs :
                   a \in active <=> \/ a \in tasks
                                    \/ \E u \in Threads : pc'[u] \in Running /\ arg[u] = a
                                    \/ a \in completed /\ ~Recycled(a)'
  BY <1>3 DEF BooksInv
<1>5. QED
  BY <1>1, <1>2, <1>4 DEF BooksInv

(* The scheduler propagates a bound.                                       *)
LEMMA UpdateBooked ==
  ASSUME InputInv, RolesInv, BooksInv, PropInv, UNCHANGED node, NEW t \in Threads, UpdateTaskTimestampBound(t)
  PROVE  BooksInv' /\ PropInv'
<1>1. /\ pc[t] = "loop" /\ loop.at = "update"
      /\ UNCHANGED <<inputs, tasks, completed, active, arg>>
  BY DEF UpdateTaskTimestampBound, In, inputVars
<1>2. loop.bound \in Int /\ taskBound \in Int
  BY DEF InputInv, NodeType, LoopType, PropInv
<1>3. PICK where \in {"loop", "loopProp"} : pc' = [pc EXCEPT ![t] = where]
  BY <1>1, PropagationMoves
<1>4. pc[t] \in Running <=> where \in Running
  BY <1>1 DEF Running
<1>5. CASE ~Parallel
  <2>1. prop' = "bound" /\ pr' = [at |-> "test", ts |-> loop.bound] /\ pc' = [pc EXCEPT ![t] = "loopProp"]
        /\ taskBound' = taskBound
    BY <1>5 DEF UpdateTaskTimestampBound, Goto
  <2>2. /\ pc'[t] = "loopProp" /\ \A u \in Threads : u # t => pc'[u] = pc[u]
        /\ Threads' = Threads /\ Parallel' = Parallel
    BY <2>1, MoveFacts DEF Parallel
  <2>3. \A u \in Threads : pc'[u] \in Propagators <=> u = t
    <3>1. \A u \in Threads : u # t => pc[u] \notin {"loop", "loopProp"} /\ pc[u] # "postProp"
      BY <1>1, <1>5 DEF RolesInv, AtLoop, PropInv
    <3>2. QED
      BY <2>2, <3>1 DEF Propagators
  <2>4. /\ pr' \in [at : {"none", "test", "send", "recycle", "relock"}, ts : Int] /\ pr'.at = "test"
    BY <1>2, <2>1
  <2>5. PropInv'
    BY <1>1, <1>2, <1>5, <2>1, <2>2, <2>3, <2>4 DEF PropInv, BooksInv
  <2>6. completed = {}
    BY <1>5 DEF BooksInv
  <2>7. BooksInv'
    BY <1>1, <1>3, <1>4, <2>6, BooksKept
  <2>8. QED
    BY <2>5, <2>7
<1>6. CASE Parallel /\ taskBound # loop.bound /\ ~(loop.bound < taskBound)
  <2>1. taskBound' = loop.bound /\ EnterPropagation(t, completed', loop.bound)
    BY <1>1, <1>6 DEF UpdateTaskTimestampBound
  <2>2. /\ prop = "packets" => \A a \in completed' : pr.ts <= a
        /\ prop # "packets" => completed' \subseteq active
        /\ completed' \subseteq DOMAIN inputs
    BY <1>1, <1>6 DEF PropInv, BooksInv, Recycled
  <2>3. PropInv'
    BY <1>1, <1>2, <1>6, <2>1, <2>2, EnterKeeps
  <2>4. \A a : Recycled(a)' <=> Recycled(a)
    <3>1. \/ UNCHANGED pr /\ (prop' = "packets" <=> prop = "packets")
          \/ pr'.at # "relock" /\ prop = "idle"
      BY <2>1 DEF EnterPropagation
    <3>2. QED
      BY <3>1 DEF Recycled
  <2>5. QED
    BY <1>1, <1>3, <1>4, <2>3, <2>4, BooksKept
<1>7. CASE Parallel /\ (taskBound = loop.bound \/ loop.bound < taskBound)
  <2>1. Return(t) /\ UNCHANGED <<prop, pr, taskBound>>
    BY <1>2, <1>7 DEF UpdateTaskTimestampBound
  <2>2. pc' = [pc EXCEPT ![t] = "loop"]
    BY <1>1, <2>1 DEF Return, Back, Goto
  <2>3. PropInv'
    BY <1>1, <2>1, <2>2, PropRest DEF Propagators
  <2>4. \A a : Recycled(a)' <=> Recycled(a)
    BY <2>1 DEF Recycled
  <2>5. QED
    BY <1>1, <1>3, <1>4, <2>3, <2>4, BooksKept
<1>8. QED
  BY <1>5, <1>6, <1>7

(* The steps of a thread that propagates, when it goes on doing so.        *)
LEMMA PropGoesOn ==
  ASSUME InputInv, BooksInv, PropInv, UNCHANGED <<node, pc, taskBound>>,
         prop' # "idle" /\ prop # "idle", prop' \in {"idle", "packets", "bound", "pending"},
         pr' \in [at : {"none", "test", "send", "recycle", "relock"}, ts : Int],
         ~Parallel => prop' \in {"idle", "bound"},
         prop' = "packets" => /\ pr'.at \in {"send", "recycle", "relock"} /\ pr'.ts \in completed'
                              /\ \A a \in active' \cup completed' : pr'.ts <= a,
         prop' \in {"bound", "pending"} => pr'.at \in {"test", "send", "relock"},
         active' # {} /\ Earliest(active') \in completed' => prop' \in {"packets", "pending"}
  PROVE  PropInv'
<1>1. Threads' = Threads /\ Parallel' = Parallel
  BY DEF Parallel, MaxInFlight, Threads, Streams, Workers
<1>2. QED
  BY <1>1 DEF PropInv

(* ... and when it stops: it has seen that nothing is left to be sent.     *)
LEMMA PropEnds ==
  ASSUME InputInv, RolesInv, BooksInv, PropInv, UNCHANGED <<node, taskBound, pr>>, NEW t \in Threads,
         pc[t] \in Propagators, Return(t), prop # "idle", prop' = "idle",
         active' = {} \/ Earliest(active') \notin completed'
  PROVE  PropInv'
<1>1. Threads' = Threads /\ Parallel' = Parallel
  BY DEF Parallel, MaxInFlight, Threads, Streams, Workers
<1>2. PICK where \in {"loop", "end"} : pc' = [pc EXCEPT ![t] = where]
  BY DEF Return, Goto, Back
<1>3. pc'[t] = where /\ \A u \in Threads : u # t => pc'[u] = pc[u]
  BY <1>2, MoveFacts
<1>4. \A u \in Threads : pc'[u] \notin Propagators
  BY <1>3 DEF PropInv, Propagators
<1>5. pr' \in [at : {"none", "test", "send", "recycle", "relock"}, ts : Int] /\ taskBound' \in Int
  BY DEF PropInv
<1>6. QED
  BY <1>1, <1>4, <1>5 DEF PropInv, Propagators

(* The steps of the propagation.                                           *)
LEMMA PropagateBooked ==
  ASSUME InputInv, RolesInv, BooksInv, PropInv, UNCHANGED node, NEW t \in Threads, Propagate(t)
  PROVE  BooksInv' /\ PropInv'
<1>0. /\ pr \in [at : {"none", "test", "send", "recycle", "relock"}, ts : Int]
      /\ active \subseteq DOMAIN inputs /\ completed \subseteq DOMAIN inputs /\ taskBound \in Int
      /\ \A a \in DOMAIN inputs : a \in Int
  BY DEF PropInv, BooksInv
<1>1. ASSUME PropagatePackets(t) \/ TestBound(t) \/ PropagateBound(t) PROVE BooksInv' /\ PropInv'
  <2>1. /\ UNCHANGED <<inputs, tasks, completed, active, arg, pc, taskBound, prop>>
        /\ prop # "idle" /\ pr.at # "relock"
    BY <1>1 DEF PropagatePackets, TestBound, PropagateBound, Prop, inputVars, schedVars
  <2>2. \/ prop = "packets" /\ pr' = [pr EXCEPT !.at = "recycle"]
        \/ prop # "packets" /\ pr' = [pr EXCEPT !.at = "send"]
        \/ prop # "packets" /\ pr' = [pr EXCEPT !.at = "relock"]
    BY <1>1 DEF PropagatePackets, TestBound, PropagateBound, Prop
  <2>3. /\ pr' \in [at : {"none", "test", "send", "recycle", "relock"}, ts : Int] /\ pr'.ts = pr.ts
        /\ prop = "packets" => pr'.at = "recycle"
        /\ prop # "packets" => pr'.at \in {"send", "relock"}
    BY <1>0, <2>2
  <2>4. PropInv'
    <3>1. /\ prop' = "packets" => /\ pr'.at \in {"send", "recycle", "relock"} /\ pr'.ts \in completed'
                                  /\ \A a \in active' \cup completed' : pr'.ts <= a
          /\ prop' \in {"bound", "pending"} => pr'.at \in {"test", "send", "relock"}
          /\ active' # {} /\ Earliest(active') \in completed' => prop' \in {"packets", "pending"}
          /\ ~Parallel => prop' \in {"idle", "bound"}
          /\ prop' \in {"idle", "packets", "bound", "pending"}
      BY <2>1, <2>3 DEF PropInv
    <3>2. QED
      BY <2>1, <2>3, <3>1, PropGoesOn
  <2>5. \A a \in completed : Recycled(a)' <=> Recycled(a)
    BY <2>1, <2>3 DEF Recycled
  <2>6. QED
    BY <2>1, <2>4, <2>5, BooksKept
<1>2. ASSUME RecycleContext(t) PROVE BooksInv' /\ PropInv'
  <2>1. /\ UNCHANGED <<inputs, tasks, completed, arg, pc, taskBound, prop>>
        /\ prop = "packets" /\ pr.at = "recycle" /\ active' = active \ {Earliest(active)}
        /\ pr' = [pr EXCEPT !.at = "relock"]
    BY <1>2 DEF RecycleContext, Prop, inputVars, schedVars
  <2>2. /\ pr' \in [at : {"none", "test", "send", "recycle", "relock"}, ts : Int] /\ pr'.ts = pr.ts
        /\ pr'.at = "relock"
    BY <1>0, <2>1
  <2>3. /\ Parallel /\ pr.ts \in completed /\ pr.ts \in DOMAIN inputs
        /\ \A a \in active \cup completed : pr.ts <= a
    BY <1>0, <2>1 DEF PropInv
  <2>4. pr.ts \in active
    BY <2>1, <2>3 DEF BooksInv, Recycled
  <2>5. Earliest(active) = pr.ts
    BY <1>0, <2>3, <2>4, EarliestFacts
  <2>6. PropInv'
    <3>1. /\ prop' = "packets" /\ pr'.at \in {"send", "recycle", "relock"} /\ pr'.ts \in completed'
          /\ \A a \in active' \cup completed' : pr'.ts <= a
      BY <2>1, <2>2, <2>3
    <3>2. QED
      BY <2>1, <2>2, <2>3, <3>1, PropGoesOn
  <2>7. ASSUME NEW a \in DOMAIN inputs
        PROVE  a \in active' <=> \/ a \in tasks
                                 \/ \E u \in Threads : pc[u] \in Running /\ arg[u] = a
                                 \/ a \in completed /\ ~Recycled(a)'
    <3>1. /\ a \in active <=> \/ a \in tasks
                              \/ \E u \in Threads : pc[u] \in Running /\ arg[u] = a
                              \/ a \in completed /\ ~Recycled(a)
      BY <2>3 DEF BooksInv
    <3>2. ~Recycled(a) /\ (Recycled(a)' <=> a = pr.ts)
      BY <2>1, <2>2 DEF Recycled
    <3>3. CASE a = pr.ts
      <4>1. a \notin tasks /\ \A u \in Threads : pc[u] \in Running => arg[u] # a
        BY <2>3, <3>3 DEF BooksInv
      <4>2. QED
        BY <2>1, <2>5, <3>2, <3>3, <4>1
    <3>4. CASE a # pr.ts
      BY <2>1, <2>5, <3>1, <3>2, <3>4
    <3>5. QED
      BY <3>3, <3>4
  <2>8. Threads' = Threads /\ Parallel' = Parallel
    BY DEF Parallel, MaxInFlight, Threads, Streams, Workers
  <2>9. BooksInv'
    BY <2>1, <2>3, <2>7, <2>8 DEF BooksInv
  <2>10. QED
    BY <2>6, <2>9
<1>3. ASSUME AfterPackets(t) PROVE BooksInv' /\ PropInv'
  <2> DEFINE done == completed \ {Earliest(completed)}
  <2>1. /\ UNCHANGED <<inputs, tasks, active, arg, taskBound>> /\ completed' = done
        /\ prop = "packets" /\ pr.at = "relock" /\ pc[t] \in Propagators
    BY <1>3 DEF AfterPackets, Prop, inputVars, Propagators
  <2>2. /\ Parallel /\ pr.ts \in completed /\ pr.ts \in DOMAIN inputs
        /\ \A a \in active \cup completed : pr.ts <= a
    BY <1>0, <2>1 DEF PropInv
  <2>3. Earliest(completed) = pr.ts
    BY <1>0, <2>2, EarliestFacts
  <2>4. /\ pr.ts \notin active /\ done \subseteq active /\ done = completed \ {pr.ts}
    <3>1. \A a \in completed : a # pr.ts => a \in active
      BY <1>0, <2>2 DEF BooksInv, Recycled
    <3>2. pr.ts \notin tasks /\ \A u \in Threads : pc[u] \in Running => arg[u] # pr.ts
      BY <2>2 DEF BooksInv
    <3>3. pr.ts \notin active
      BY <2>1, <2>2, <3>2 DEF BooksInv, Recycled
    <3>4. QED
      BY <2>3, <3>1, <3>3
  <2>5. /\ \/ /\ prop' = "bound" /\ pr' = [at |-> "test", ts |-> taskBound] /\ UNCHANGED <<pc, loop>>
              /\ done = {} /\ active = {}
           \/ /\ prop' = "packets" /\ pr' = [at |-> "send", ts |-> Earliest(done)] /\ UNCHANGED <<pc, loop>>
              /\ active # {} /\ done # {} /\ Earliest(active) = Earliest(done)
           \/ /\ prop' = "idle" /\ Return(t) /\ UNCHANGED pr
              /\ ~(active # {} /\ done # {} /\ Earliest(active) = Earliest(done))
    BY <1>3, <2>1 DEF AfterPackets
  <2> HIDE DEF done
  <2>6. done \subseteq DOMAIN inputs
    BY <1>0, <2>4
  <2>7. PropInv'
    <3>1. CASE /\ prop' = "bound" /\ pr' = [at |-> "test", ts |-> taskBound] /\ UNCHANGED <<pc, loop>>
               /\ done = {} /\ active = {}
      <4>1. pr' \in [at : {"none", "test", "send", "recycle", "relock"}, ts : Int] /\ pr'.at = "test"
        BY <1>0, <3>1
      <4>2. QED
        BY <2>1, <2>2, <3>1, <4>1, PropGoesOn
    <3>2. CASE /\ prop' = "packets" /\ pr' = [at |-> "send", ts |-> Earliest(done)] /\ UNCHANGED <<pc, loop>>
               /\ active # {} /\ done # {} /\ Earliest(active) = Earliest(done)
      <4>1. Earliest(done) \in done /\ Earliest(done) \in Int
        BY <2>6, <3>2, EarliestFacts
      <4>2. \A a \in active : Earliest(active) <= a
        BY <1>0, <3>2, EarliestFacts
      <4>3. /\ pr' \in [at : {"none", "test", "send", "recycle", "relock"}, ts : Int] /\ pr'.at = "send"
            /\ pr'.ts = Earliest(active)
        BY <3>2, <4>1
      <4>4. pr'.ts \in completed' /\ \A a \in active' \cup completed' : pr'.ts <= a
        BY <2>1, <2>4, <3>2, <4>1, <4>2, <4>3
      <4>5. QED
        BY <2>1, <2>2, <3>2, <4>3, <4>4, PropGoesOn
    <3>3. CASE /\ prop' = "idle" /\ Return(t) /\ UNCHANGED pr
               /\ ~(active # {} /\ done # {} /\ Earliest(active) = Earliest(done))
      <4>1. active = {} \/ Earliest(active) \notin done
        <5>1. SUFFICES ASSUME active # {}, Earliest(active) \in done PROVE FALSE
          OBVIOUS
        <5>2. \A a \in active : Earliest(active) <= a
          BY <1>0, <5>1, EarliestFacts
        <5>3. \A a \in done : Earliest(active) <= a
          BY <2>4, <5>2
        <5>4. Earliest(active) = Earliest(done)
          BY <2>6, <5>1, <5>3, EarliestFacts
        <5>5. QED
          BY <3>3, <5>1, <5>4
      <4>2. QED
        BY <2>1, <3>3, <4>1, PropEnds
    <3>4. QED
      BY <2>5, <3>1, <3>2, <3>3
  <2>8. \A a \in done : ~Recycled(a)' /\ ~Recycled(a)
    BY <2>4, <2>5 DEF Recycled
  <2>9. \A u \in Threads : pc'[u] \in Running <=> pc[u] \in Running
    <3>1. CASE UNCHANGED pc
      BY <3>1
    <3>2. CASE Return(t)
      <4>1. PICK where \in {"loop", "end"} : pc' = [pc EXCEPT ![t] = where]
        BY <3>2 DEF Return, Goto, Back
      <4>2. QED
        BY <2>1, <4>1, MoveFacts DEF Running, Propagators
    <3>3. QED
      BY <2>5, <3>1, <3>2
  <2>10. ASSUME NEW a \in DOMAIN inputs
         PROVE  a \in active <=> \/ a \in tasks
                                 \/ \E u \in Threads : pc'[u] \in Running /\ arg[u] = a
                                 \/ a \in done /\ ~Recycled(a)'
    <3>1. /\ a \in active <=> \/ a \in tasks
                              \/ \E u \in Threads : pc[u] \in Running /\ arg[u] = a
                              \/ a \in completed /\ ~Recycled(a)
      BY <2>2 DEF BooksInv
    <3>2. a \in completed /\ ~Recycled(a) <=> a \in done
      BY <2>1, <2>4 DEF Recycled
    <3>3. (\E u \in Threads : pc'[u] \in Running /\ arg[u] = a) <=> (\E u \in Threads : pc[u] \in Running /\ arg[u] = a)
      BY <2>9
    <3>4. QED
      BY <2>8, <3>1, <3>2, <3>3
  <2>11. Threads' = Threads /\ Parallel' = Parallel
    BY DEF Parallel, MaxInFlight, Threads, Streams, Workers
  <2>12. done \subseteq completed
    BY <2>4
  <2>13. BooksInv'
    BY <2>1, <2>2, <2>6, <2>9, <2>10, <2>11, <2>12 DEF BooksInv
  <2>14. QED
    BY <2>7, <2>13
<1>4. ASSUME AfterBound(t) PROVE BooksInv' /\ PropInv'
  <2>1. /\ UNCHANGED <<inputs, tasks, completed, active, arg, taskBound>>
        /\ prop \in {"bound", "pending"} /\ pr.at = "relock" /\ pc[t] \in Propagators
    BY <1>4 DEF AfterBound, Prop, inputVars, Propagators
  <2>2. \/ /\ prop' = "bound" /\ pr' = [at |-> "test", ts |-> taskBound] /\ UNCHANGED <<pc, loop>>
           /\ active = {} /\ prop = "pending"
        \/ /\ prop' = "packets" /\ pr' = [at |-> "send", ts |-> Earliest(active)] /\ UNCHANGED <<pc, loop>>
           /\ active # {} /\ completed # {} /\ Earliest(active) = Earliest(completed) /\ prop = "pending"
        \/ /\ prop' = "idle" /\ Return(t) /\ UNCHANGED pr
           /\ prop = "bound" \/ (active # {} /\ ~(completed # {} /\ Earliest(active) = Earliest(completed)))
    BY <1>4, <2>1 DEF AfterBound
  <2>3. completed \subseteq active
    <3>1. CASE Parallel
      BY <1>0, <2>1, <3>1 DEF BooksInv, Recycled
    <3>2. CASE ~Parallel
      BY <3>2 DEF BooksInv
    <3>3. QED
      BY <3>1, <3>2
  <2>4. PropInv'
    <3>1. CASE /\ prop' = "bound" /\ pr' = [at |-> "test", ts |-> taskBound] /\ UNCHANGED <<pc, loop>>
               /\ active = {} /\ prop = "pending"
      <4>1. pr' \in [at : {"none", "test", "send", "recycle", "relock"}, ts : Int] /\ pr'.at = "test"
        BY <1>0, <3>1
      <4>2. QED
        BY <2>1, <3>1, <4>1, PropGoesOn
    <3>2. CASE /\ prop' = "packets" /\ pr' = [at |-> "send", ts |-> Earliest(active)] /\ UNCHANGED <<pc, loop>>
               /\ active # {} /\ completed # {} /\ Earliest(active) = Earliest(completed) /\ prop = "pending"
      <4>1. Earliest(active) \in completed /\ Earliest(active) \in Int /\ \A a \in active : Earliest(active) <= a
        BY <1>0, <3>2, EarliestFacts
      <4>2. /\ pr' \in [at : {"none", "test", "send", "recycle", "relock"}, ts : Int] /\ pr'.at = "send"
            /\ pr'.ts = Earliest(active)
        BY <3>2, <4>1
      <4>3. pr'.ts \in completed' /\ \A a \in active' \cup completed' : pr'.ts <= a
        BY <2>1, <2>3, <4>1, <4>2
      <4>4. Parallel
        BY <3>2 DEF PropInv
      <4>5. QED
        BY <2>1, <3>2, <4>2, <4>3, <4>4, PropGoesOn
    <3>3. CASE /\ prop' = "idle" /\ Return(t) /\ UNCHANGED pr
               /\ prop = "bound" \/ (active # {} /\ ~(completed # {} /\ Earliest(active) = Earliest(completed)))
      <4>1. active = {} \/ Earliest(active) \notin completed
        <5>1. SUFFICES ASSUME active # {}, Earliest(active) \in completed PROVE FALSE
          OBVIOUS
        <5>2. prop # "bound"
          BY <5>1 DEF PropInv
        <5>3. \A a \in active : Earliest(active) <= a
          BY <1>0, <5>1, EarliestFacts
        <5>4. \A a \in completed : Earliest(active) <= a
          BY <2>3, <5>3
        <5>5. Earliest(active) = Earliest(completed)
          BY <1>0, <5>1, <5>4, EarliestFacts
        <5>6. QED
          BY <3>3, <5>1, <5>2, <5>5
      <4>2. QED
        BY <2>1, <3>3, <4>1, PropEnds
    <3>4. QED
      BY <2>2, <3>1, <3>2, <3>3
  <2>5. \A a \in completed : Recycled(a)' <=> Recycled(a)
    BY <2>1, <2>2 DEF Recycled
  <2>6. CASE UNCHANGED pc
    BY <2>1, <2>4, <2>5, <2>6, BooksKept
  <2>7. CASE Return(t)
    <3>1. PICK where \in {"loop", "end"} : pc' = [pc EXCEPT ![t] = where]
      BY <2>7 DEF Return, Goto, Back
    <3>2. pc[t] \in Running <=> where \in Running
      BY <2>1 DEF Running, Propagators
    <3>3. QED
      BY <2>1, <2>4, <2>5, <3>1, <3>2, BooksKept
  <2>8. QED
    BY <2>2, <2>6, <2>7
<1>5. QED
  BY <1>1, <1>2, <1>3, <1>4 DEF Propagate

(* The books stay right, and the propagation stays in one hand.            *)
LEMMA BooksStep ==
  ASSUME InputInv, RolesInv, CountInv, BooksInv, PropInv, Next, UNCHANGED node
  PROVE  BooksInv' /\ PropInv'
<1>0. Running = {"process", "post"} /\ Propagators = {"loopProp", "postProp"}
  BY DEF Running, Propagators
<1>1. ASSUME UNCHANGED <<inputs, completed, taskBound, prop, pr, active, arg>>,
             tasks' = tasks \/ tasks' = tasks \cup {Done},
             NEW t \in Threads, NEW where,
             pc' = pc \/ (/\ pc' = [pc EXCEPT ![t] = where]
                          /\ pc[t] \in Running <=> where \in Running
                          /\ pc[t] \notin Propagators /\ where \notin Propagators)
      PROVE  BooksInv' /\ PropInv'
  BY <1>1, BooksRest, PropRest
<1>2. ASSUME NEW i \in Streams, FeedPacket(i) \/ FeedBound(i) PROVE BooksInv' /\ PropInv'
  <2>1. i \in Threads /\ UNCHANGED <<inputs, completed, taskBound, prop, pr, active, arg, tasks>>
    BY <1>2 DEF Threads, FeedPacket, FeedBound, Fed, schedVars, outputVars
  <2>2. pc' = pc \/ (pc[i] = "idle" /\ pc' = [pc EXCEPT ![i] = "notify"])
    BY <1>2 DEF FeedPacket, FeedBound, Fed, Goto
  <2>3. QED
    BY <1>0, <1>1, <2>1, <2>2
<1>3. ASSUME NEW t \in Threads,
             \/ CheckIfBecameReady(t) \/ EnterLoop(t) \/ ReadStream(t) \/ ScheduleClose(t)
             \/ NotReady(t) \/ LeaveLoop(t) \/ EndScheduling(t)
      PROVE  BooksInv' /\ PropInv'
  <2>1. /\ UNCHANGED <<inputs, completed, taskBound, prop, pr, active, arg>>
        /\ tasks' = tasks \/ tasks' = tasks \cup {Done}
    BY <1>3 DEF CheckIfBecameReady, EnterLoop, ReadStream, ScheduleClose, NotReady, LeaveLoop,
                EndScheduling, inputVars, outputVars
  <2>2. \E where \in {"loop", "idle"} :
          pc' = pc \/ (pc' = [pc EXCEPT ![t] = where] /\ pc[t] \in {"notify", "loop", "end"})
    BY <1>3 DEF CheckIfBecameReady, EnterLoop, ReadStream, ScheduleClose, NotReady, LeaveLoop,
                EndScheduling, Goto, In
  <2>3. QED
    BY <1>0, <1>1, <2>1, <2>2
<1>4. ASSUME NEW t \in Threads, \/ OpenNode(t) \/ ProcessNode(t) \/ Closed(t)
                                \/ CloseInputStreams(t) \/ CloseOutputStreams(t) \/ CloseManager(t)
      PROVE  BooksInv' /\ PropInv'
  <2>1. UNCHANGED <<inputs, completed, taskBound, prop, pr, active, arg, tasks>>
    BY <1>4 DEF OpenNode, ProcessNode, Closed, CloseInputStreams, CloseOutputStreams, CloseManager,
                inputVars, outputVars, schedVars
  <2>2. \/ pc[t] = "process" /\ pc' = [pc EXCEPT ![t] = "post"]
        \/ \E where \in {"notify", "closeOutputs", "closeManager", "closed", "end"} :
             /\ pc' = [pc EXCEPT ![t] = where]
             /\ pc[t] \in {"open", "close", "closeOutputs", "closeManager", "closed"}
    BY <1>4 DEF OpenNode, ProcessNode, Closed, CloseInputStreams, CloseOutputStreams, CloseManager, Goto
  <2>3. QED
    BY <1>0, <1>1, <2>1, <2>2
<1>5. ASSUME NEW t \in Threads, \/ ScheduleProcess(t) \/ UpdateTaskTimestampBound(t) \/ Propagate(t)
                                \/ RunNextTask(t) \/ PostProcess(t)
      PROVE  BooksInv' /\ PropInv'
  BY <1>5, ScheduleProcessBooked, UpdateBooked, PropagateBooked, RunNextTaskBooked, PostProcessBooked
<1>6. QED
  BY <1>2, <1>3, <1>4, <1>5 DEF Next, Schedule, Work, Threads

(* Nothing is queued or in hand: the counter says so.                      *)
LEMMA NothingInFlight ==
  ASSUME InputInv, CountInv, status # "closed", inFlight = 0
  PROVE  tasks = {} /\ \A t \in Threads : pc[t] \notin InHand
<1>1. Cardinality(Hands) \in Nat /\ Cardinality(tasks) \in Nat
  BY SomeHand, FS_CardinalityType DEF CountInv
<1>2. inFlight = Cardinality(tasks) + Cardinality(Hands)
  BY DEF CountInv
<1>3. Cardinality(Hands) = 0 /\ Cardinality(tasks) = 0
  BY <1>1, <1>2
<1>4. tasks = {}
  BY <1>3, FS_EmptySet DEF CountInv
<1>5. QED
  BY <1>3, <1>4, SomeHand

(* Something is queued or in hand: the counter says so.                    *)
LEMMA SomethingInFlight ==
  ASSUME InputInv, CountInv, status # "closed", tasks # {} \/ \E t \in Threads : pc[t] \in InHand
  PROVE  inFlight > 0
<1>1. inFlight \in Nat
  BY DEF CountInv
<1>2. ASSUME inFlight = 0 PROVE FALSE
  BY <1>2, NothingInFlight
<1>3. QED
  BY <1>1, <1>2

(* When CloseNode may be prepared, nothing else is left to be run.         *)
LEMMA CloseIsLast ==
  ASSUME InputInv, RolesInv, CountInv, BooksInv, CloseInv, NEW t \in Threads, In(t, "decide"),
         MayPrepareClose
  PROVE  tasks = {} /\ status = "opened" /\ \A u \in Threads : pc[u] \notin Running \cup Closing
<1>1. ~prepared /\ active = {} /\ pc[t] = "loop" /\ loop.at = "decide"
  BY DEF MayPrepareClose, In
<1>2. status = "opened"
  BY <1>1 DEF CloseInv, RolesInv
<1>3. Done \notin tasks /\ \A u \in Threads : pc[u] \notin Closing
  BY <1>1 DEF InputInv, TimeInv
<1>4. CASE Parallel
  <2>1. \A a \in DOMAIN inputs : a \notin tasks /\ \A u \in Threads : pc[u] \in Running => arg[u] # a
    BY <1>1, <1>4 DEF BooksInv
  <2>2. \A u \in Threads : pc[u] \notin Running
    BY <2>1 DEF BooksInv
  <2>3. tasks = {}
    BY <1>3, <2>1 DEF CountInv
  <2>4. QED
    BY <1>2, <1>3, <2>2, <2>3
<1>5. CASE ~Parallel
  <2>1. loop.left > 0 /\ inFlight + loop.left <= MaxInFlight /\ inFlight \in Nat /\ loop.left \in Int
    BY <1>1 DEF CountInv, InputInv, NodeType, LoopType
  <2>2. MaxInFlight \in Nat
    BY NodeFacts DEF InputInv, NodeType
  <2>3. inFlight = 0
    BY <1>5, <2>1, <2>2 DEF Parallel
  <2>4. tasks = {} /\ \A u \in Threads : pc[u] \notin InHand
    BY <1>2, <2>3, NothingInFlight
  <2>5. QED
    BY <1>2, <1>3, <2>4 DEF InHand, Running
<1>6. QED
  BY <1>4, <1>5

(* A thread moves on that neither runs an invocation nor closes the node,  *)
(* before and after.                                                       *)
LEMMA CloseRest ==
  ASSUME InputInv, CloseInv, UNCHANGED <<node, status, prepared, tasks>>, NEW t \in Threads, NEW where,
         pc' = pc \/ (/\ pc' = [pc EXCEPT ![t] = where] /\ (pc[t] \in Closing <=> where \in Closing)
                      /\ where \in Running => pc[t] \in Running)
  PROVE  CloseInv'
<1>1. Threads' = Threads
  BY DEF Threads, Streams, Workers
<1>2. \A u \in Threads : /\ pc'[u] \in Closing <=> pc[u] \in Closing
                         /\ pc'[u] \in Running => pc[u] \in Running
  <2>1. CASE pc' = pc
    BY <2>1
  <2>2. CASE /\ pc' = [pc EXCEPT ![t] = where] /\ (pc[t] \in Closing <=> where \in Closing)
             /\ where \in Running => pc[t] \in Running
    BY <2>2, MoveFacts
  <2>3. QED
    BY <2>1, <2>2
<1>3. QED
  BY <1>1, <1>2 DEF CloseInv, Running

(* The node is closed once.                                                *)
LEMMA CloseStep ==
  ASSUME InputInv, RolesInv, CountInv, BooksInv, CloseInv, Next, UNCHANGED node
  PROVE  CloseInv'
<1>0. /\ Running = {"process", "post"} /\ Closing = {"close", "closeOutputs", "closeManager", "closed"}
      /\ Threads' = Threads
  BY DEF Running, Closing, Threads, Streams, Workers
<1>1. ASSUME NEW i \in Streams, FeedPacket(i) \/ FeedBound(i) PROVE CloseInv'
  <2>1. i \in Threads /\ UNCHANGED <<status, prepared, tasks>>
    BY <1>1 DEF Threads, FeedPacket, FeedBound, Fed, schedVars
  <2>2. pc' = pc \/ (pc[i] = "idle" /\ pc' = [pc EXCEPT ![i] = "notify"])
    BY <1>1 DEF FeedPacket, FeedBound, Fed, Goto
  <2>3. QED
    BY <1>0, <2>1, <2>2, CloseRest
<1>2. ASSUME NEW t \in Threads, \/ CheckIfBecameReady(t) \/ EnterLoop(t) \/ ReadStream(t)
                                \/ NotReady(t) \/ LeaveLoop(t) \/ EndScheduling(t)
      PROVE  CloseInv'
  <2>1. UNCHANGED <<status, prepared, tasks>>
    BY <1>2 DEF CheckIfBecameReady, EnterLoop, ReadStream, NotReady, LeaveLoop, EndScheduling, inputVars
  <2>2. \E where \in {"loop", "idle"} :
          pc' = pc \/ (pc' = [pc EXCEPT ![t] = where] /\ pc[t] \in {"notify", "loop", "end"})
    BY <1>2 DEF CheckIfBecameReady, EnterLoop, ReadStream, NotReady, LeaveLoop, EndScheduling, Goto, In
  <2>3. QED
    BY <1>0, <2>1, <2>2, CloseRest
<1>3. ASSUME NEW t \in Threads, UpdateTaskTimestampBound(t) \/ Propagate(t) \/ PostProcess(t)
      PROVE  CloseInv'
  <2>1. UNCHANGED <<status, prepared, tasks>>
    BY <1>3, PropagationMoves
  <2>2. \E where \in {"loop", "loopProp", "postProp", "end"} :
          pc' = pc \/ (pc' = [pc EXCEPT ![t] = where] /\ pc[t] \in {"loop", "loopProp", "post", "postProp"})
    BY <1>3, PropagationMoves DEF AtLoop
  <2>3. QED
    BY <1>0, <2>1, <2>2, CloseRest
<1>4. ASSUME NEW t \in Threads, \/ ProcessNode(t) \/ CloseInputStreams(t) \/ CloseOutputStreams(t) \/ CloseManager(t)
      PROVE  CloseInv'
  <2>1. UNCHANGED <<status, prepared, tasks>>
    BY <1>4 DEF ProcessNode, CloseInputStreams, CloseOutputStreams, CloseManager, inputVars, schedVars
  <2>2. \/ pc[t] = "process" /\ pc' = [pc EXCEPT ![t] = "post"]
        \/ \E where \in {"closeOutputs", "closeManager", "closed"} :
             pc' = [pc EXCEPT ![t] = where] /\ pc[t] \in {"close", "closeOutputs", "closeManager"}
    BY <1>4 DEF ProcessNode, CloseInputStreams, CloseOutputStreams, CloseManager, Goto
  <2>3. QED
    BY <1>0, <2>1, <2>2, CloseRest
<1>5. ASSUME NEW t \in Threads, OpenNode(t) PROVE CloseInv'
  <2>1. /\ pc[t] = "open" /\ status' = "opened" /\ pc' = [pc EXCEPT ![t] = "notify"]
        /\ UNCHANGED <<prepared, tasks>>
    BY <1>5 DEF OpenNode, Goto, inputVars
  <2>2. status = "prepared" /\ ~prepared
    BY <2>1 DEF RolesInv, CloseInv
  <2>3. pc'[t] = "notify" /\ \A u \in Threads : u # t => pc'[u] = pc[u]
    BY <2>1, MoveFacts
  <2>4. Done \notin tasks /\ \A u \in Threads : pc[u] \notin Closing
    BY <2>2 DEF InputInv, TimeInv
  <2>5. \A u \in Threads : pc'[u] \notin Closing
    BY <1>0, <2>3, <2>4
  <2>6. QED
    BY <1>0, <2>1, <2>2, <2>4, <2>5 DEF CloseInv
<1>6. ASSUME NEW t \in Threads, ScheduleProcess(t) PROVE CloseInv'
  <2>1. PICK ts : ts = ReadyAt(loop.bound, loop.packet)
    OBVIOUS
  <2>2. ~prepared /\ ts \in Int /\ ts < Done
    BY <1>6, <2>1, ReadyIsNew
  <2>3. UNCHANGED <<status, prepared, pc>> /\ tasks' = tasks \cup {ts}
    BY <1>6, <2>1 DEF ScheduleProcess
  <2>4. status # "closed" /\ Done \notin tasks'
    BY <2>2, <2>3, TimestampFacts DEF CloseInv, InputInv, TimeInv
  <2>5. QED
    BY <1>0, <2>2, <2>3, <2>4 DEF CloseInv
<1>7. ASSUME NEW t \in Threads, ScheduleClose(t) PROVE CloseInv'
  <2>1. UNCHANGED <<status, pc>> /\ In(t, "decide")
    BY <1>7 DEF ScheduleClose
  <2>2. CASE MayPrepareClose
    <3>1. tasks' = tasks \cup {Done} /\ prepared'
      BY <1>7, <2>2 DEF ScheduleClose
    <3>2. tasks = {} /\ status = "opened" /\ \A u \in Threads : pc[u] \notin Running \cup Closing
      BY <2>1, <2>2, CloseIsLast
    <3>3. QED
      BY <1>0, <2>1, <3>1, <3>2 DEF CloseInv
  <2>3. CASE ~MayPrepareClose
    <3>1. UNCHANGED <<tasks, prepared>>
      BY <1>7, <2>3 DEF ScheduleClose
    <3>2. QED
      BY <2>1, <3>1, CloseRest
  <2>4. QED
    BY <2>2, <2>3
<1>8. ASSUME NEW t \in Threads, RunNextTask(t) PROVE CloseInv'
  <2>1. PICK ts \in tasks :
          /\ pc[t] = "idle" /\ tasks' = tasks \ {ts}
          /\ Goto(t, IF ts = Done THEN "close" ELSE "process")
          /\ UNCHANGED <<status, prepared>>
    BY <1>8 DEF RunNextTask, inputVars
  <2>2. status = "opened"
    BY <2>1 DEF CloseInv, RolesInv
  <2>3. CASE ts = Done
    <3>1. pc' = [pc EXCEPT ![t] = "close"]
      BY <2>1, <2>3 DEF Goto
    <3>2. pc'[t] = "close" /\ \A u \in Threads : u # t => pc'[u] = pc[u]
      BY <3>1, MoveFacts
    <3>3. prepared /\ \A u \in Threads : pc[u] \notin Closing /\ pc[u] \notin Running
      BY <1>0, <2>1, <2>3 DEF InputInv, TimeInv, CloseInv
    <3>4. /\ \A u \in Threads : pc'[u] \notin Running /\ (pc'[u] \in Closing <=> u = t)
      BY <1>0, <3>2, <3>3
    <3>5. QED
      BY <1>0, <2>1, <2>2, <2>3, <3>3, <3>4 DEF CloseInv
  <2>4. CASE ts # Done
    <3>1. pc' = [pc EXCEPT ![t] = "process"]
      BY <2>1, <2>4 DEF Goto
    <3>2. pc'[t] = "process" /\ \A u \in Threads : u # t => pc'[u] = pc[u]
      BY <3>1, MoveFacts
    <3>3. ~prepared /\ Done \notin tasks /\ \A u \in Threads : pc[u] \notin Closing
      BY <2>1, <2>4 DEF InputInv, TimeInv, CloseInv
    <3>4. \A u \in Threads : pc'[u] \notin Closing
      BY <1>0, <3>2, <3>3
    <3>5. QED
      BY <1>0, <2>1, <2>2, <3>3, <3>4 DEF CloseInv
  <2>5. QED
    BY <2>3, <2>4
<1>9. ASSUME NEW t \in Threads, Closed(t) PROVE CloseInv'
  <2>1. /\ pc[t] = "closed" /\ status' = "closed" /\ pc' = [pc EXCEPT ![t] = "end"]
        /\ UNCHANGED <<prepared, tasks>>
    BY <1>9 DEF Closed, Goto, inputVars
  <2>2. pc[t] \in Closing /\ prepared
    BY <1>0, <2>1 DEF InputInv, TimeInv
  <2>3. tasks = {} /\ \A u \in Threads : u # t => pc[u] \notin Closing
    BY <2>2 DEF CloseInv
  <2>4. pc'[t] = "end" /\ \A u \in Threads : u # t => pc'[u] = pc[u]
    BY <2>1, MoveFacts
  <2>5. \A u \in Threads : pc'[u] \notin Closing /\ pc'[u] \notin Running
    BY <1>0, <2>2, <2>3, <2>4 DEF CloseInv
  <2>6. QED
    BY <1>0, <2>1, <2>2, <2>3, <2>5 DEF CloseInv
<1>10. QED
  BY <1>1, <1>2, <1>3, <1>4, <1>5, <1>6, <1>7, <1>8, <1>9 DEF Next, Schedule, Work, Threads

-----------------------------------------------------------------------------
(* Wake-ups.                                                               *)

(* Somebody is about to look at the streams from the start.                *)
Looking == sched = "pending" \/ \E t \in Threads : pc[t] = "notify"

(* What was read of the first k streams is what is there.                  *)
BoundRead(k) ==
  /\ \A i \in 1 .. k : IsEmptyStream(strm[i]) => loop.bound <= MinTimestampOrBound(strm[i])
  /\ loop.bound = Done \/ \E i \in 1 .. k : IsEmptyStream(strm[i]) /\ MinTimestampOrBound(strm[i]) = loop.bound

PacketRead(k) ==
  /\ \A i \in 1 .. k : ~IsEmptyStream(strm[i]) => loop.packet <= MinTimestampOrBound(strm[i])
  /\ loop.packet = Done \/ \E i \in 1 .. k : ~IsEmptyStream(strm[i]) /\ MinTimestampOrBound(strm[i]) = loop.packet

NotReadyNow ==
  Earlier(BoundNow, PacketNow) < OneOverPostStream /\ ReadyAt(BoundNow, PacketNow) = Unset

(* Unless somebody is about to look, the scheduler has seen the streams as *)
(* they are, and when it has finished there is nothing to be run, or an    *)
(* invocation is in flight, at whose end somebody will look.               *)
WakeInv ==
  status = "opened" /\ ~prepared /\ ~Looking =>
    /\ loop.at \in {"read", "decide"} => BoundRead(loop.next - 1) /\ PacketRead(loop.next - 1)
    /\ loop.at \in {"none", "update", "leave"} => inFlight > 0 \/ NotReadyNow

(* The streams look the same to the scheduler as before.                   *)
SameFronts ==
  \A i \in Streams : /\ IsEmptyStream(strm'[i]) <=> IsEmptyStream(strm[i])
                     /\ MinTimestampOrBound(strm'[i]) = MinTimestampOrBound(strm[i])

(* The minimum of a set of times, Done for none.                           *)
LEMMA EarliestOfIs ==
  ASSUME NEW S, \A x \in S : x \in Int /\ x <= Done, NEW m \in Int, \A x \in S : m <= x, m = Done \/ m \in S
  PROVE  EarliestOf(S) = m
<1>1. CASE S = {}
  BY <1>1 DEF EarliestOf
<1>2. CASE S # {}
  <2>1. m \in S
    BY <1>2, TimestampFacts
  <2>2. Earliest(S) \in S /\ \A x \in S : Earliest(S) <= x
    BY <2>1 DEF Earliest
  <2>3. Earliest(S) = m
    <3>1. PICK e : e = Earliest(S)
      OBVIOUS
    <3>2. e \in Int /\ e <= m /\ m <= e
      BY <2>1, <2>2, <3>1
    <3>3. QED
      BY <3>1, <3>2
  <2>4. QED
    BY <1>2, <2>3 DEF EarliestOf
<1>3. QED
  BY <1>1, <1>2

(* The front of a stream.                                                  *)
LEMMA FrontFacts ==
  ASSUME InputInv, NEW i \in Streams
  PROVE  /\ MinTimestampOrBound(strm[i]) \in Int /\ MinTimestampOrBound(strm[i]) <= Done
         /\ ~IsEmptyStream(strm[i]) => MinTimestampOrBound(strm[i]) = Head(strm[i].queue)
<1>1. Ascends(strm[i]) /\ strm[i].bound <= Done /\ strm[i].bound \in Int /\ Done \in Int
  BY HeadIsEarliest, TimestampFacts DEF InputInv, NodeType
<1>2. ~IsEmptyStream(strm[i]) => Head(strm[i].queue) \in Int /\ Head(strm[i].queue) < strm[i].bound
  BY <1>1, HeadIsEarliest
<1>3. QED
  BY <1>1, <1>2 DEF MinTimestampOrBound

(* When all streams have been read, the two minima are right.              *)
LEMMA RoundIsRight ==
  ASSUME InputInv, BoundRead(node.streams), PacketRead(node.streams)
  PROVE  BoundNow = loop.bound /\ PacketNow = loop.packet
<1> DEFINE B == {MinTimestampOrBound(strm[i]) : i \in {j \in Streams : IsEmptyStream(strm[j])}}
           P == {Head(strm[i].queue) : i \in {j \in Streams : ~IsEmptyStream(strm[j])}}
<1>1. Streams = 1 .. node.streams /\ loop.bound \in Int /\ loop.packet \in Int
  BY DEF Streams, InputInv, NodeType, LoopType
<1>2. BoundNow = EarliestOf(B) /\ PacketNow = EarliestOf(P)
  BY DEF BoundNow, PacketNow
<1>3. /\ \A x \in B : x \in Int /\ x <= Done /\ loop.bound <= x
      /\ loop.bound = Done \/ loop.bound \in B
  BY <1>1, FrontFacts DEF BoundRead
<1>4. /\ \A x \in P : x \in Int /\ x <= Done /\ loop.packet <= x
      /\ loop.packet = Done \/ loop.packet \in P
  <2>1. P = {MinTimestampOrBound(strm[i]) : i \in {j \in Streams : ~IsEmptyStream(strm[j])}}
    BY FrontFacts
  <2>2. QED
    BY <1>1, <2>1, FrontFacts DEF PacketRead
<1> HIDE DEF B, P
<1>5. QED
  BY <1>1, <1>2, <1>3, <1>4, EarliestOfIs

(* Whether there is something to be run depends on the fronts alone.       *)
LEMMA SameFrontsSameAnswer ==
  ASSUME InputInv, InputInv', UNCHANGED <<node, lastTs>>, SameFronts
  PROVE  NotReadyNow' <=> NotReadyNow
<1>1. Streams' = Streams
  BY DEF Streams
<1>2. {i \in Streams : IsEmptyStream(strm'[i])} = {i \in Streams : IsEmptyStream(strm[i])}
  BY DEF SameFronts
<1>3. {i \in Streams : ~IsEmptyStream(strm'[i])} = {i \in Streams : ~IsEmptyStream(strm[i])}
  BY DEF SameFronts
<1>4. BoundNow' = BoundNow
  <2>1. {MinTimestampOrBound(strm'[i]) : i \in {j \in Streams : IsEmptyStream(strm'[j])}}
          = {MinTimestampOrBound(strm[i]) : i \in {j \in Streams : IsEmptyStream(strm[j])}}
    BY <1>2 DEF SameFronts
  <2>2. QED
    BY <1>1, <2>1 DEF BoundNow
<1>5. PacketNow' = PacketNow
  <2>0. ASSUME NEW i \in Streams, ~IsEmptyStream(strm[i]) PROVE Head(strm'[i].queue) = Head(strm[i].queue)
    BY <2>0 DEF SameFronts, MinTimestampOrBound
  <2>1. {Head(strm'[i].queue) : i \in {j \in Streams : ~IsEmptyStream(strm'[j])}}
          = {Head(strm[i].queue) : i \in {j \in Streams : ~IsEmptyStream(strm[j])}}
    BY <1>3, <2>0
  <2>2. QED
    BY <1>1, <2>1 DEF PacketNow
<1>6. ReadyAt(BoundNow, PacketNow)' = ReadyAt(BoundNow, PacketNow)
  BY <1>4, <1>5 DEF ReadyAt, ProcessTimestampBounds
<1>7. QED
  BY <1>4, <1>5, <1>6 DEF NotReadyNow

(* Steps that neither wake nor change what is seen.                        *)
LEMMA WakeRest ==
  ASSUME InputInv, InputInv', WakeInv, UNCHANGED <<node, lastTs, inFlight, prepared>>, SameFronts,
         status' = "opened" => status = "opened", Looking => Looking',
         loop' = loop \/ (loop.at = "update" /\ loop'.at = "leave")
  PROVE  WakeInv'
<1> SUFFICES ASSUME status' = "opened", ~prepared, ~Looking'
             PROVE  /\ loop'.at \in {"read", "decide"} => (BoundRead(loop.next - 1) /\ PacketRead(loop.next - 1))'
                    /\ loop'.at \in {"none", "update", "leave"} => inFlight > 0 \/ NotReadyNow'
  BY DEF WakeInv
<1>1. status = "opened" /\ ~prepared /\ ~Looking
  OBVIOUS
<1>2. ASSUME loop'.at \in {"read", "decide"} PROVE (BoundRead(loop.next - 1) /\ PacketRead(loop.next - 1))'
  <2>1. loop' = loop /\ BoundRead(loop.next - 1) /\ PacketRead(loop.next - 1)
    BY <1>1, <1>2 DEF WakeInv
  <2>2. \A i \in 1 .. loop.next - 1 : i \in Streams
    BY <1>2, <2>1, NodeFacts DEF InputInv, NodeType
  <2>3. QED
    BY <2>1, <2>2 DEF BoundRead, PacketRead, SameFronts
<1>3. ASSUME loop'.at \in {"none", "update", "leave"} PROVE inFlight > 0 \/ NotReadyNow'
  BY <1>1, <1>3, SameFrontsSameAnswer DEF WakeInv
<1>4. QED
  BY <1>2, <1>3

(* A feed that does not notify leaves the front of the stream as it is.    *)
LEMMA QuietFeed ==
  ASSUME InputInv, NEW i \in Streams, FeedPacket(i) \/ FeedBound(i)
  PROVE  /\ UNCHANGED <<lastTs, inFlight, prepared, status, sched, loop>>
         /\ pc' = [pc EXCEPT ![i] = "notify"] \/ (pc' = pc /\ SameFronts)
<1>0. /\ DOMAIN strm = Streams /\ Ascends(strm[i]) /\ Received(i) /\ feed[i].bound \in Int
      /\ strm[i].bound \in Int /\ Done \in Int
  BY HeadIsEarliest, TimestampFacts DEF InputInv, NodeType
<1>1. PICK r, bound, packets :
        /\ Fed(i, r, bound, packets)
        /\ r.notify \/ ( /\ IsEmptyStream(r.stream) <=> IsEmptyStream(strm[i])
                         /\ MinTimestampOrBound(r.stream) = MinTimestampOrBound(strm[i]) )
  <2>1. CASE FeedPacket(i)
    <3>1. PICK t \in FedTimes :
            /\ t >= feed[i].bound /\ (t = PostStream => feed[i].sent = {})
            /\ Fed(i, AddPackets(strm[i], <<t>>), NextAllowedInStream(t), {t})
      BY <2>1 DEF FeedPacket
    <3>2. /\ t \in Int /\ t \in Timestamps /\ IsAllowedInStream(t) /\ t < OneOverPostStream
      BY CalculatorNodeAssumption, TimeLine DEF Timestamps, IsAllowedInStream
    <3>3. ~strm[i].closed /\ t >= strm[i].bound /\ (t = PostStream => ~strm[i].some)
      BY <1>0, <3>1, <3>2, TimestampFacts DEF Received
    <3>4. PICK r : r = AddPackets(strm[i], <<t>>)
      OBVIOUS
    <3>5. /\ r.notify = IsEmptyStream(strm[i]) /\ Queued(r.stream) = Queued(strm[i]) \cup {t} /\ Ascends(r.stream)
          /\ ~IsEmptyStream(strm[i]) => Head(r.stream.queue) = Head(strm[i].queue)
      <4>1. PICK s : s = strm[i]
        OBVIOUS
      <4>2. /\ Ascends(s) /\ ~s.closed /\ t \in Timestamps /\ IsAllowedInStream(t) /\ t >= s.bound
            /\ t = PostStream => ~s.some
        BY <1>0, <3>2, <3>3, <4>1
      <4>3. r = AddPackets(s, <<t>>)
        BY <3>4, <4>1
      <4>4. /\ r.notify = IsEmptyStream(s) /\ Queued(r.stream) = Queued(s) \cup {t} /\ Ascends(r.stream)
            /\ ~IsEmptyStream(s) => Head(r.stream.queue) = Head(s.queue)
        BY <4>2, <4>3, AddOne
      <4>5. QED
        BY <4>1, <4>4
    <3>6. ~IsEmptyStream(r.stream)
      BY <3>5, HeadIsEarliest
    <3>7. r.notify \/ ( /\ IsEmptyStream(r.stream) <=> IsEmptyStream(strm[i])
                        /\ MinTimestampOrBound(r.stream) = MinTimestampOrBound(strm[i]) )
      BY <3>5, <3>6 DEF MinTimestampOrBound
    <3>8. QED
      BY <3>1, <3>4, <3>7
  <2>2. CASE FeedBound(i)
    <3>1. PICK b \in FedTimes \cup {Done} :
            b > feed[i].bound /\ Fed(i, SetNextTimestampBound(strm[i], b), b, {})
      BY <2>2 DEF FeedBound
    <3>2. PICK r : r = SetNextTimestampBound(strm[i], b)
      OBVIOUS
    <3>3. b \in Timestamps
      BY CalculatorNodeAssumption, TimeLine DEF Timestamps
    <3>4. Ascends(r.stream) /\ r.stream.queue = strm[i].queue
      BY <1>0, <3>2, <3>3, BoundKeepsAscending
    <3>5. r.notify \/ r.stream = strm[i] \/ ~IsEmptyStream(strm[i])
      BY <3>2 DEF SetNextTimestampBound
    <3>6. r.notify \/ ( /\ IsEmptyStream(r.stream) <=> IsEmptyStream(strm[i])
                        /\ MinTimestampOrBound(r.stream) = MinTimestampOrBound(strm[i]) )
      BY <3>4, <3>5 DEF IsEmptyStream, MinTimestampOrBound
    <3>7. QED
      BY <3>1, <3>2, <3>6
  <2>3. QED
    BY <2>1, <2>2
<1>2. /\ strm' = [strm EXCEPT ![i] = r.stream]
      /\ pc' = [pc EXCEPT ![i] = "notify"] \/ (pc' = pc /\ ~r.notify)
      /\ UNCHANGED <<lastTs, inFlight, prepared, status, sched, loop>>
  BY <1>1 DEF Fed, Goto, schedVars
<1>3. strm'[i] = r.stream /\ \A j \in Streams : j # i => strm'[j] = strm[j]
  BY <1>0, <1>2
<1>4. ~r.notify => SameFronts
  BY <1>1, <1>3 DEF SameFronts
<1>5. QED
  BY <1>2, <1>4

(* While a context is active, an invocation is in flight; the scheduler    *)
(* that finds one may leave it to that invocation to look again.           *)
LEMMA ActiveIsInFlight ==
  ASSUME InputInv, RolesInv, CountInv, BooksInv, PropInv, NEW t \in Threads, pc[t] = "loop",
         active # {}, status = "opened"
  PROVE  inFlight > 0
<1>1. Parallel /\ active \subseteq DOMAIN inputs
  BY DEF BooksInv
<1>2. PICK a : a = Earliest(active) /\ a \in active /\ a \in DOMAIN inputs
  BY <1>1, EarliestFacts
<1>3. CASE a \in tasks
  BY <1>3, SomethingInFlight
<1>4. CASE \E u \in Threads : pc[u] \in Running
  BY <1>4, SomethingInFlight DEF Running, InHand
<1>5. CASE a \in completed
  <2>1. prop # "idle"
    BY <1>2, <1>5 DEF PropInv
  <2>2. PICK u \in Threads : pc[u] \in Propagators
    BY <2>1 DEF PropInv
  <2>3. pc[u] # "loopProp"
    BY DEF RolesInv, AtLoop
  <2>4. pc[u] \in InHand
    BY <2>2, <2>3 DEF Propagators, InHand
  <2>5. QED
    BY <2>4, SomethingInFlight
<1>6. QED
  BY <1>1, <1>2, <1>3, <1>4, <1>5 DEF BooksInv

(* Reading another stream.                                                 *)
LEMMA ReadStreamWakes ==
  ASSUME InputInv, WakeInv, UNCHANGED node, NEW t \in Threads, ReadStream(t)
  PROVE  WakeInv'
<1> DEFINE k == loop.next
           s == strm[k]
           m == MinTimestampOrBound(s)
           b == IF IsEmptyStream(s) THEN Earlier(loop.bound, m) ELSE loop.bound
           p == IF IsEmptyStream(s) THEN loop.packet ELSE Earlier(loop.packet, m)
<1>1. loop.at = "read" /\ k \in Streams /\ k \in Nat \ {0} /\ loop \in LoopType
  BY NodeFacts DEF InputInv, NodeType, ReadStream, In
<1>2. /\ UNCHANGED <<strm, lastTs, inFlight, prepared, sched, pc, status>>
      /\ loop' = [loop EXCEPT !.at = IF k = node.streams THEN "decide" ELSE "read",
                              !.next = k + 1, !.bound = b, !.packet = p]
  BY DEF ReadStream, inputVars
<1>3. m \in Int /\ m <= Done /\ loop.bound \in Int /\ loop.packet \in Int
  BY <1>1, FrontFacts DEF LoopType
<1>4. /\ loop'.at \in {"decide", "read"} /\ loop'.next = k + 1 /\ loop'.bound = b /\ loop'.packet = p
  <2> DEFINE at == IF k = node.streams THEN "decide" ELSE "read"
  <2>1. at \in {"decide", "read"}
    OBVIOUS
  <2>2. loop' = [loop EXCEPT !.at = at, !.next = k + 1, !.bound = b, !.packet = p]
    BY <1>2
  <2> HIDE DEF at, b, p, k
  <2>3. QED
    BY <1>1, <2>1, <2>2 DEF LoopType
<1> SUFFICES ASSUME status' = "opened", ~prepared', ~Looking' PROVE (BoundRead(loop.next - 1) /\ PacketRead(loop.next - 1))'
  BY <1>4 DEF WakeInv
<1>5. status = "opened" /\ ~prepared /\ ~Looking
  BY <1>2 DEF Looking, Threads, Streams, Workers
<1>6. BoundRead(k - 1) /\ PacketRead(k - 1)
  BY <1>1, <1>5 DEF WakeInv
<1>7. /\ \A i \in 1 .. k : i \in 1 .. k - 1 \/ i = k
      /\ \A i \in 1 .. k - 1 : i \in 1 .. k
      /\ k \in 1 .. k /\ loop'.next - 1 = k
  BY <1>1, <1>4
<1>8. ASSUME NEW i \in 1 .. k PROVE MinTimestampOrBound(strm[i]) \in Int
  <2>1. i \in Streams
    BY <1>1, NodeFacts DEF InputInv, NodeType
  <2>2. QED
    BY <2>1, FrontFacts
<1> HIDE DEF k
<1>9. BoundRead(loop.next - 1)'
  <2>1. CASE IsEmptyStream(s)
    <3>1. b = Earlier(loop.bound, m)
      BY <2>1
    <3>2. b <= loop.bound /\ b <= m /\ (b = loop.bound \/ b = m) /\ b \in Int
      BY <1>3, <3>1 DEF Earlier
    <3> HIDE DEF b
    <3>3. \A i \in 1 .. k : IsEmptyStream(strm[i]) => b <= MinTimestampOrBound(strm[i])
      BY <1>3, <1>6, <1>7, <1>8, <3>2 DEF BoundRead
    <3>4. b = Done \/ \E i \in 1 .. k : IsEmptyStream(strm[i]) /\ MinTimestampOrBound(strm[i]) = b
      BY <1>6, <1>7, <2>1, <3>2 DEF BoundRead
    <3>5. QED
      BY <1>2, <1>4, <1>7, <3>3, <3>4 DEF BoundRead
  <2>2. CASE ~IsEmptyStream(s)
    <3>1. b = loop.bound
      BY <2>2
    <3> HIDE DEF b
    <3>2. \A i \in 1 .. k : IsEmptyStream(strm[i]) => b <= MinTimestampOrBound(strm[i])
      BY <1>6, <1>7, <2>2, <3>1 DEF BoundRead
    <3>3. b = Done \/ \E i \in 1 .. k : IsEmptyStream(strm[i]) /\ MinTimestampOrBound(strm[i]) = b
      BY <1>6, <1>7, <3>1 DEF BoundRead
    <3>4. QED
      BY <1>2, <1>4, <1>7, <3>2, <3>3 DEF BoundRead
  <2>3. QED
    BY <2>1, <2>2
<1>10. PacketRead(loop.next - 1)'
  <2>1. CASE ~IsEmptyStream(s)
    <3>1. p = Earlier(loop.packet, m)
      BY <2>1
    <3>2. p <= loop.packet /\ p <= m /\ (p = loop.packet \/ p = m) /\ p \in Int
      BY <1>3, <3>1 DEF Earlier
    <3> HIDE DEF p
    <3>3. \A i \in 1 .. k : ~IsEmptyStream(strm[i]) => p <= MinTimestampOrBound(strm[i])
      BY <1>3, <1>6, <1>7, <1>8, <3>2 DEF PacketRead
    <3>4. p = Done \/ \E i \in 1 .. k : ~IsEmptyStream(strm[i]) /\ MinTimestampOrBound(strm[i]) = p
      BY <1>6, <1>7, <2>1, <3>2 DEF PacketRead
    <3>5. QED
      BY <1>2, <1>4, <1>7, <3>3, <3>4 DEF PacketRead
  <2>2. CASE IsEmptyStream(s)
    <3>1. p = loop.packet
      BY <2>2
    <3> HIDE DEF p
    <3>2. \A i \in 1 .. k : ~IsEmptyStream(strm[i]) => p <= MinTimestampOrBound(strm[i])
      BY <1>6, <1>7, <2>2, <3>1 DEF PacketRead
    <3>3. p = Done \/ \E i \in 1 .. k : ~IsEmptyStream(strm[i]) /\ MinTimestampOrBound(strm[i]) = p
      BY <1>6, <1>7, <3>1 DEF PacketRead
    <3>4. QED
      BY <1>2, <1>4, <1>7, <3>2, <3>3 DEF PacketRead
  <2>3. QED
    BY <2>1, <2>2
<1>11. QED
  BY <1>9, <1>10

(* A new round of the scheduler has read nothing yet.                      *)
LEMMA NewRound ==
  ASSUME InputInv, CountInv, UNCHANGED <<node, inFlight>>, loop' = Reading(MaxInFlight - inFlight)
  PROVE  WakeInv'
<1>1. MaxInFlight \in Nat \ {0} /\ inFlight \in Nat
  BY NodeFacts DEF InputInv, NodeType, CountInv
<1>2. /\ loop'.next = 1 /\ loop'.bound = Done /\ loop'.packet = Done
      /\ loop'.at = IF MaxInFlight - inFlight > 0 THEN "read" ELSE "leave"
  BY LoopForms
<1>3. (BoundRead(loop.next - 1) /\ PacketRead(loop.next - 1))'
  BY <1>2 DEF BoundRead, PacketRead
<1>4. loop'.at = "leave" => inFlight > 0
  BY <1>1, <1>2
<1>5. QED
  BY <1>2, <1>3, <1>4 DEF WakeInv

(* The decisions of the scheduler.                                         *)
LEMMA DecisionWakes ==
  ASSUME InputInv, InputInv', RolesInv, CountInv, CountInv', BooksInv, PropInv, WakeInv, UNCHANGED node,
         NEW t \in Threads, ScheduleProcess(t) \/ ScheduleClose(t) \/ NotReady(t)
  PROVE  WakeInv'
<1>1. pc[t] = "loop" /\ loop.at = "decide" /\ UNCHANGED <<pc, sched, status>>
  BY DEF ScheduleProcess, ScheduleClose, NotReady, In
<1>2. inFlight \in Nat /\ (Looking' <=> Looking)
  BY <1>1 DEF CountInv, Looking, Threads, Streams, Workers
<1>3. CASE ScheduleProcess(t)
  <2>1. inFlight' = inFlight + 1 /\ loop' = Reading(loop.left - 1)
    BY <1>3 DEF ScheduleProcess
  <2>2. loop'.next = 1 /\ loop'.bound = Done /\ loop'.packet = Done
    BY <2>1, LoopForms
  <2>3. (BoundRead(loop.next - 1) /\ PacketRead(loop.next - 1))'
    BY <2>2 DEF BoundRead, PacketRead
  <2>4. QED
    BY <1>2, <2>1, <2>3 DEF WakeInv
<1>4. CASE ScheduleClose(t)
  <2>1. loop'.at = "leave"
    BY <1>4, LoopForms DEF ScheduleClose
  <2>2. CASE MayPrepareClose
    BY <1>4, <2>2 DEF ScheduleClose, WakeInv
  <2>3. CASE ~MayPrepareClose
    <3>1. UNCHANGED <<inFlight, prepared>>
      BY <1>4, <2>3 DEF ScheduleClose
    <3>2. prepared \/ status # "opened" \/ inFlight > 0
      BY <1>1, <2>3, ActiveIsInFlight DEF MayPrepareClose
    <3>3. QED
      BY <1>1, <2>1, <3>1, <3>2 DEF WakeInv
  <2>4. QED
    BY <2>2, <2>3
<1>5. CASE NotReady(t)
  <2>1. /\ ~ReadyForClose /\ ReadyAt(loop.bound, loop.packet) = Unset
        /\ UNCHANGED <<strm, lastTs, inFlight, prepared>>
        /\ loop' = [Reading(0) EXCEPT !.at = "update", !.bound = Earlier(loop.bound, loop.packet)]
    BY <1>5 DEF NotReady, inputVars
  <2>2. loop'.at = "update"
    BY <2>1, LoopForms
  <2>3. SUFFICES ASSUME status = "opened", ~prepared, ~Looking PROVE NotReadyNow'
    BY <1>1, <1>2, <2>1, <2>2 DEF WakeInv
  <2>4. BoundRead(node.streams) /\ PacketRead(node.streams)
    <3>1. loop.next - 1 = node.streams
      <4>1. loop.next = node.streams + 1 /\ node.streams \in Nat
        BY <1>1, NodeFacts DEF InputInv, NodeType
      <4>2. QED
        BY <4>1
    <3>2. QED
      BY <1>1, <2>3, <3>1 DEF WakeInv
  <2>5. BoundNow = loop.bound /\ PacketNow = loop.packet
    BY <2>4, RoundIsRight
  <2>6. loop.bound \in Int /\ loop.packet \in Int
    BY DEF InputInv, NodeType, LoopType
  <2>7. NotReadyNow
    BY <2>1, <2>5, <2>6, TimestampFacts DEF NotReadyNow, ReadyForClose, Earlier
  <2>8. QED
    BY <2>1, <2>7, SameFrontsSameAnswer DEF SameFronts
<1>6. QED
  BY <1>3, <1>4, <1>5

(* No step loses a wake-up.                                                *)
LEMMA WakeStep ==
  ASSUME InputInv, InputInv', RolesInv, CountInv, CountInv', BooksInv, PropInv, WakeInv, Next, UNCHANGED node
  PROVE  WakeInv'
<1>0. Threads' = Threads /\ MaxInFlight \in Nat \ {0} /\ inFlight \in Nat /\ inFlight <= MaxInFlight
  BY NodeFacts DEF InputInv, NodeType, CountInv, Threads, Streams, Workers
<1>1. ASSUME UNCHANGED <<strm, lastTs, inFlight, prepared, sched>>, status' = "opened" => status = "opened",
             loop' = loop \/ (loop.at = "update" /\ loop'.at = "leave"),
             NEW t \in Threads, NEW where, pc' = pc \/ (pc' = [pc EXCEPT ![t] = where] /\ pc[t] # "notify")
      PROVE  WakeInv'
  <2>1. Looking => Looking'
    <3>1. ASSUME NEW u \in Threads, pc[u] = "notify" PROVE pc'[u] = "notify"
      <4>1. CASE pc' = pc
        BY <3>1, <4>1
      <4>2. CASE pc' = [pc EXCEPT ![t] = where] /\ pc[t] # "notify"
        BY <3>1, <4>2, MoveFacts
      <4>3. QED
        BY <1>1, <4>1, <4>2
    <3>2. QED
      BY <1>0, <1>1, <3>1 DEF Looking
  <2>2. SameFronts
    BY <1>1 DEF SameFronts
  <2>3. QED
    BY <1>1, <2>1, <2>2, WakeRest
<1>2. ASSUME NEW i \in Streams, FeedPacket(i) \/ FeedBound(i) PROVE WakeInv'
  <2>1. i \in Threads
    BY DEF Threads
  <2>2. CASE pc' = [pc EXCEPT ![i] = "notify"]
    <3>1. pc'[i] = "notify"
      BY <2>1, <2>2, MoveFacts
    <3>2. QED
      BY <1>0, <2>1, <3>1 DEF WakeInv, Looking
  <2>3. CASE pc' = pc /\ SameFronts
    <3>1. UNCHANGED <<lastTs, inFlight, prepared, status, sched, loop>>
      BY <1>2, QuietFeed
    <3>2. Looking => Looking'
      BY <1>0, <2>3, <3>1 DEF Looking
    <3>3. QED
      BY <2>3, <3>1, <3>2, WakeRest
  <2>4. QED
    BY <1>2, <2>2, <2>3, QuietFeed
<1>3. ASSUME NEW t \in Threads, CheckIfBecameReady(t) PROVE WakeInv'
  <2>0. UNCHANGED <<status, inFlight>>
    BY <1>3 DEF CheckIfBecameReady
  <2>1. CASE status = "opened" /\ sched = "idle" /\ inFlight < MaxInFlight
    <3>1. loop' = [NoLoop EXCEPT !.at = "enter"]
      BY <1>3, <2>1 DEF CheckIfBecameReady
    <3>2. loop'.at = "enter"
      BY <3>1 DEF NoLoop
    <3>3. QED
      BY <3>2 DEF WakeInv
  <2>2. CASE status = "opened" /\ sched # "idle"
    <3>1. sched' = "pending"
      BY <1>3, <2>2 DEF CheckIfBecameReady, RolesInv
    <3>2. QED
      BY <3>1 DEF WakeInv, Looking
  <2>3. CASE status = "opened" /\ sched = "idle" /\ ~(inFlight < MaxInFlight)
    <3>1. loop' = loop /\ loop.at = "none"
      BY <1>3, <2>3 DEF CheckIfBecameReady, RolesInv
    <3>2. inFlight' > 0
      BY <1>0, <2>0, <2>3
    <3>3. QED
      BY <3>1, <3>2 DEF WakeInv
  <2>4. CASE status # "opened"
    BY <2>0, <2>4 DEF WakeInv
  <2>5. QED
    BY <2>1, <2>2, <2>3, <2>4
<1>4. ASSUME NEW t \in Threads, EnterLoop(t) PROVE WakeInv'
  <2>1. UNCHANGED <<status, inFlight>>
    BY <1>4 DEF EnterLoop
  <2>2. CASE status = "closed"
    BY <2>1, <2>2 DEF WakeInv
  <2>3. CASE status # "closed"
    BY <1>4, <2>1, <2>3, NewRound DEF EnterLoop
  <2>4. QED
    BY <2>2, <2>3
<1>5. ASSUME NEW t \in Threads, LeaveLoop(t) PROVE WakeInv'
  <2>1. UNCHANGED <<status, inFlight, strm, lastTs, prepared>> /\ pc[t] = "loop" /\ loop.at = "leave"
    BY <1>5 DEF LeaveLoop, In, inputVars
  <2>2. CASE sched = "pending" /\ inFlight < MaxInFlight
    BY <1>5, <2>1, <2>2, NewRound DEF LeaveLoop
  <2>3. CASE ~(sched = "pending" /\ inFlight < MaxInFlight)
    <3>1. loop' = NoLoop /\ pc' = [pc EXCEPT ![t] = "idle"] /\ sched' = "idle"
      BY <1>5, <2>3 DEF LeaveLoop, Goto
    <3>2. loop'.at = "none"
      BY <3>1 DEF NoLoop
    <3>3. pc'[t] = "idle" /\ \A u \in Threads : u # t => pc'[u] = pc[u]
      BY <3>1, MoveFacts
    <3>4. (\E u \in Threads : pc[u] = "notify") => Looking'
      BY <1>0, <2>1, <3>3 DEF Looking
    <3>5. CASE sched = "pending"
      <4>1. inFlight' > 0
        BY <1>0, <2>1, <2>3, <3>5
      <4>2. QED
        BY <3>2, <4>1 DEF WakeInv
    <3>6. CASE sched # "pending"
      <4>1. SUFFICES ASSUME status = "opened", ~prepared, ~Looking' PROVE inFlight > 0 \/ NotReadyNow'
        BY <2>1, <3>2 DEF WakeInv
      <4>2. ~Looking
        BY <3>4, <3>6, <4>1 DEF Looking
      <4>3. inFlight > 0 \/ NotReadyNow
        BY <2>1, <4>1, <4>2 DEF WakeInv
      <4>4. NotReadyNow' <=> NotReadyNow
        BY <2>1, SameFrontsSameAnswer DEF SameFronts
      <4>5. QED
        BY <4>3, <4>4
    <3>7. QED
      BY <3>5, <3>6
  <2>4. QED
    BY <2>2, <2>3
<1>6. ASSUME NEW t \in Threads, EndScheduling(t) PROVE WakeInv'
  <2>1. UNCHANGED status
    BY <1>6 DEF EndScheduling
  <2>2. CASE status = "closed"
    BY <2>1, <2>2 DEF WakeInv
  <2>3. CASE status # "closed" /\ sched = "idle"
    <3>1. loop' = [NoLoop EXCEPT !.at = "enter"]
      BY <1>6, <2>3 DEF EndScheduling
    <3>2. loop'.at = "enter"
      BY <3>1 DEF NoLoop
    <3>3. QED
      BY <3>2 DEF WakeInv
  <2>4. CASE status # "closed" /\ sched # "idle"
    <3>1. sched' = "pending"
      BY <1>6, <2>4 DEF EndScheduling
    <3>2. QED
      BY <3>1 DEF WakeInv, Looking
  <2>5. QED
    BY <2>2, <2>3, <2>4
<1>7. ASSUME NEW t \in Threads, UpdateTaskTimestampBound(t) \/ Propagate(t) \/ PostProcess(t)
      PROVE  WakeInv'
  <2>1. /\ UNCHANGED <<strm, lastTs, inFlight, prepared, sched, status>>
        /\ loop' = loop \/ (loop.at = "update" /\ loop'.at = "leave")
    BY <1>7, PropagationMoves
  <2>2. \E where : pc' = pc \/ (pc' = [pc EXCEPT ![t] = where] /\ pc[t] # "notify")
    BY <1>7, PropagationMoves DEF AtLoop
  <2>3. QED
    BY <1>1, <2>1, <2>2
<1>8. ASSUME NEW t \in Threads, RunNextTask(t) \/ ProcessNode(t) \/ CloseOutputStreams(t) \/ CloseManager(t)
      PROVE  WakeInv'
  <2>1. UNCHANGED <<strm, lastTs, inFlight, prepared, sched, status, loop>>
    BY <1>8 DEF RunNextTask, ProcessNode, CloseOutputStreams, CloseManager, inputVars, schedVars
  <2>2. \E where : pc' = [pc EXCEPT ![t] = where] /\ pc[t] # "notify"
    BY <1>8 DEF RunNextTask, ProcessNode, CloseOutputStreams, CloseManager, Goto
  <2>3. QED
    BY <1>1, <2>1, <2>2
<1>9. ASSUME NEW t \in Threads, OpenNode(t) \/ CloseInputStreams(t) \/ Closed(t) PROVE WakeInv'
  <2>1. CASE OpenNode(t)
    <3>1. pc' = [pc EXCEPT ![t] = "notify"]
      BY <2>1 DEF OpenNode, Goto
    <3>2. pc'[t] = "notify"
      BY <3>1, MoveFacts
    <3>3. QED
      BY <1>0, <3>2 DEF WakeInv, Looking
  <2>2. CASE CloseInputStreams(t)
    <3>1. pc[t] \in Closing /\ UNCHANGED prepared
      BY <2>2 DEF CloseInputStreams, Closing
    <3>2. prepared
      BY <3>1 DEF InputInv, TimeInv
    <3>3. QED
      BY <3>1, <3>2 DEF WakeInv
  <2>3. CASE Closed(t)
    BY <2>3 DEF Closed, WakeInv
  <2>4. QED
    BY <1>9, <2>1, <2>2, <2>3
<1>10. QED
  BY <1>2, <1>3, <1>4, <1>5, <1>6, <1>7, <1>8, <1>9, ReadStreamWakes, DecisionWakes
     DEF Next, Schedule, Work, Threads

(* Everything together.                                                    *)
NodeInv == InputInv /\ RolesInv /\ CountInv /\ CloseInv /\ BooksInv /\ PropInv /\ WakeInv

(* The node at the start.                                                  *)
LEMMA NodeInvInit == Init => NodeInv
<1> SUFFICES ASSUME Init PROVE NodeInv
  OBVIOUS
<1>1. InputInv
  BY InputInvInit
<1>2. PICK opener \in Workers : pc = [t \in Threads |-> IF t = opener THEN "open" ELSE "idle"]
  BY DEF Init
<1>3. /\ \A t \in Threads : pc[t] = IF t = opener THEN "open" ELSE "idle"
      /\ loop.at = "none" /\ pr.at = "none" /\ pr.ts = Unset /\ Unset \in Int
      /\ MaxInFlight \in Nat /\ DOMAIN inputs = {}
  <2>1. \A t \in Threads : pc[t] = IF t = opener THEN "open" ELSE "idle"
    BY <1>2
  <2>2. loop.at = "none" /\ pr.at = "none" /\ pr.ts = Unset /\ Unset \in Int
    BY TimestampFacts DEF Init, NoLoop
  <2>3. MaxInFlight \in Nat
    BY <1>1, NodeFacts DEF InputInv, NodeType
  <2>4. DOMAIN inputs = {}
    BY DEF Init
  <2>5. QED
    BY <2>1, <2>2, <2>3, <2>4
<1>4. \A t \in Threads : pc[t] \in {"open", "idle"}
  BY <1>3
<1>5. RolesInv
  BY <1>3, <1>4 DEF Init, RolesInv, AtLoop
<1>6. CountInv
  <2>1. \A t \in Threads : pc[t] \notin InHand
    BY <1>4 DEF InHand, Closing
  <2>2. Cardinality(Hands) = 0 /\ IsFiniteSet({}) /\ Cardinality({}) = 0
    BY <1>1, <2>1, SomeHand, FS_EmptySet
  <2>3. QED
    BY <1>3, <2>2 DEF Init, CountInv
<1>7. CloseInv
  BY <1>4 DEF Init, CloseInv, Closing
<1>8. BooksInv
  BY <1>3, <1>4 DEF Init, BooksInv, Running
<1>9. PropInv
  <2>1. pr \in [at : {"none", "test", "send", "recycle", "relock"}, ts : Int]
    BY TimestampFacts DEF Init
  <2>2. QED
    BY <1>3, <1>4, <2>1 DEF Init, PropInv, Propagators
<1>10. WakeInv
  BY DEF Init, WakeInv
<1>11. QED
  BY <1>1, <1>5, <1>6, <1>7, <1>8, <1>9, <1>10 DEF NodeInv

(* Every step keeps it.                                                    *)
LEMMA NodeInvStep == NodeInv /\ [Next /\ UNCHANGED node]_<<vars, node>> => NodeInv'
<1> SUFFICES ASSUME NodeInv, [Next /\ UNCHANGED node]_<<vars, node>> PROVE NodeInv'
  OBVIOUS
<1>1. InputInv'
  BY InputInvStep DEF NodeInv
<1>2. CASE Next /\ UNCHANGED node
  <2>1. RolesInv' /\ CountInv' /\ CloseInv' /\ BooksInv' /\ PropInv'
    BY <1>2, RolesStep, CountStep, CloseStep, BooksStep DEF NodeInv
  <2>2. WakeInv'
    BY <1>1, <1>2, <2>1, WakeStep DEF NodeInv
  <2>3. QED
    BY <1>1, <2>1, <2>2 DEF NodeInv
<1>3. CASE UNCHANGED <<vars, node>>
  <2>1. /\ UNCHANGED <<node, feed, strm, lastTs, inputs, prepared, status, sched, inFlight, loop, tasks>>
        /\ UNCHANGED <<completed, taskBound, prop, pr, active, pc, arg>>
    BY <1>3 DEF vars, inputVars, schedVars, outputVars
  <2>2. Threads' = Threads /\ Parallel' = Parallel /\ MaxInFlight' = MaxInFlight
    BY <2>1 DEF Threads, Streams, Workers, Parallel, MaxInFlight
  <2>3. \E t : t \in Threads
    BY NodeFacts DEF NodeInv, InputInv, NodeType
  <2>4. RolesInv'
    BY <2>1, <2>2 DEF NodeInv, RolesInv
  <2>5. CountInv' /\ CloseInv'
    BY <2>1, <2>3, CountMove, CloseRest DEF NodeInv, CountInv
  <2>6. BooksInv' /\ PropInv'
    BY <2>1, <2>3, BooksRest, PropRest DEF NodeInv
  <2>7. WakeInv'
    <3>1. Looking' <=> Looking
      BY <2>1, <2>2 DEF Looking
    <3>2. SameFronts
      BY <2>1 DEF SameFronts
    <3>3. QED
      BY <1>1, <2>1, <3>1, <3>2, WakeRest DEF NodeInv
  <2>8. QED
    BY <1>1, <2>4, <2>5, <2>6, <2>7 DEF NodeInv
<1>4. QED
  BY <1>2, <1>3

(* The inductive invariant of the node: the streams, the one scheduler,    *)
(* the count of invocations, the one CloseNode, the books of the output    *)
(* handler, the one propagator, and the wake-ups.                          *)
THEOREM NodeInvariant == Spec => []NodeInv
<1>1. QED
  BY NodeInvInit, NodeInvStep, PTL DEF Spec

(* No wake-up is lost: CheckIfBecameReady, EndScheduling and the loop of   *)
(* ScheduleInvocations hand the node on by flags and counters only, and    *)
(* yet a node that everybody has left has nothing that it could run, for   *)
(* any number of streams, workers and invocations in flight.               *)
THEOREM NoWakeUpIsLost == Spec => []NothingStranded
<1>1. ASSUME NodeInv PROVE NothingStranded
  <2>1. SUFFICES ASSUME AtRest, status = "opened"
                 PROVE  NotReadyNow /\ inFlight = 0 /\ sched = "idle"
    BY DEF NothingStranded, NotReadyNow
  <2>2. tasks = {} /\ \A t \in Threads : pc[t] = "idle"
    BY <2>1 DEF AtRest
  <2>3. sched = "idle" /\ loop.at = "none"
    BY <1>1, <2>2 DEF NodeInv, RolesInv, AtLoop
  <2>4. \A t \in Threads : pc[t] \notin InHand /\ pc[t] \notin Closing
    BY <2>2 DEF InHand, Closing
  <2>5. inFlight = 0
    <3>1. Cardinality(Hands) = 0 /\ Cardinality(tasks) = 0
      BY <1>1, <2>2, <2>4, SomeHand, FS_EmptySet DEF NodeInv
    <3>2. inFlight = Cardinality(tasks) + Cardinality(Hands)
      BY <1>1, <2>1 DEF NodeInv, CountInv
    <3>3. QED
      BY <3>1, <3>2
  <2>6. ~prepared
    BY <1>1, <2>1, <2>2, <2>4 DEF NodeInv, CloseInv
  <2>7. ~Looking
    BY <2>2, <2>3 DEF Looking
  <2>8. QED
    BY <1>1, <2>1, <2>3, <2>5, <2>6, <2>7 DEF NodeInv, WakeInv
<1>2. QED
  BY <1>1, NodeInvariant, PTL

-----------------------------------------------------------------------------
(* The CHECKs.                                                             *)

(* Packets have ordinary timestamps, and no node has both invocations in   *)
(* parallel and an offset, as every node of the game's graph.              *)
Ordinary ==
  /\ FedTimes \subseteq MinTimestamp .. MaxTimestamp
  /\ \A n \in Nodes : n.inFlight > 1 => ~n.offset

(* The steps that leave the inputs alone.                                  *)
Quiet(t) ==
  \/ CheckIfBecameReady(t) \/ EnterLoop(t) \/ LeaveLoop(t) \/ EndScheduling(t)
  \/ UpdateTaskTimestampBound(t) \/ Propagate(t) \/ PostProcess(t) \/ OpenNode(t) \/ RunNextTask(t)
  \/ ProcessNode(t) \/ CloseOutputStreams(t) \/ CloseManager(t) \/ Closed(t)

(* What they do to the scheduler's round.                                  *)
LEMMA QuietInputs ==
  ASSUME InputInv, RolesInv, NEW t \in Threads, Quiet(t)
  PROVE  /\ UNCHANGED <<feed, strm, lastTs, inputs, prepared>>
         /\ \/ loop'.bound = Done /\ loop'.packet = Done /\ loop'.at # "update"
            \/ /\ loop'.bound = loop.bound /\ loop'.packet = loop.packet
               /\ loop'.at = "update" => loop.at = "update"
<1>1. ASSUME UpdateTaskTimestampBound(t) \/ Propagate(t) \/ PostProcess(t)
      PROVE  /\ UNCHANGED <<feed, strm, lastTs, inputs, prepared>>
             /\ loop'.bound = loop.bound /\ loop'.packet = loop.packet
             /\ loop'.at = "update" => loop.at = "update"
  <2>1. /\ UNCHANGED <<feed, strm, lastTs, inputs, prepared>>
        /\ loop' = loop \/ loop' = [loop EXCEPT !.at = "leave"]
    BY <1>1, PropagationMoves
  <2>2. loop \in LoopType
    BY DEF InputInv, NodeType
  <2>3. QED
    BY <2>1, <2>2 DEF LoopType
<1>2. ASSUME CheckIfBecameReady(t) \/ EnterLoop(t) \/ LeaveLoop(t) \/ EndScheduling(t)
      PROVE  /\ UNCHANGED <<feed, strm, lastTs, inputs, prepared>>
             /\ loop' = loop \/ (loop'.bound = Done /\ loop'.packet = Done /\ loop'.at # "update")
  <2>1. /\ UNCHANGED <<feed, strm, lastTs, inputs, prepared>>
        /\ \/ loop' = loop \/ loop' = NoLoop \/ loop' = [NoLoop EXCEPT !.at = "enter"]
           \/ loop' = Reading(MaxInFlight - inFlight)
    BY <1>2 DEF CheckIfBecameReady, EnterLoop, LeaveLoop, EndScheduling, inputVars
  <2>2. CASE loop' = NoLoop \/ loop' = [NoLoop EXCEPT !.at = "enter"]
    BY <2>1, <2>2 DEF NoLoop
  <2>3. CASE loop' = Reading(MaxInFlight - inFlight)
    BY <2>1, <2>3 DEF Reading
  <2>4. QED
    BY <2>1, <2>2, <2>3
<1>3. ASSUME OpenNode(t) \/ RunNextTask(t) \/ ProcessNode(t) \/ CloseOutputStreams(t) \/ CloseManager(t) \/ Closed(t)
      PROVE  UNCHANGED <<feed, strm, lastTs, inputs, prepared, loop>>
  BY <1>3 DEF OpenNode, RunNextTask, ProcessNode, CloseOutputStreams, CloseManager, Closed, inputVars, schedVars
<1>4. QED
  BY <1>1, <1>2, <1>3 DEF Quiet

(* A feed: what comes lies behind what was there, and is accepted.         *)
LEMMA FedFacts ==
  ASSUME InputInv, NEW i \in Streams, FeedPacket(i) \/ FeedBound(i)
  PROVE  /\ UNCHANGED <<lastTs, inputs, prepared, schedVars, outputVars, arg>>
         /\ \A j \in Streams : j # i => strm'[j] = strm[j] /\ feed'[j] = feed[j]
         /\ strm'[i].bound \in Int /\ strm[i].bound <= strm'[i].bound /\ strm'[i].selected = strm[i].selected
         /\ \A x \in Queued(strm'[i]) : x \in Queued(strm[i]) \/ (x \in FedTimes /\ strm[i].bound <= x)
         /\ \E b \in FedTimes \cup {Done} \cup {NextAllowedInStream(t) : t \in FedTimes} :
              feed'[i].bound = b /\ (strm'[i].bound = strm[i].bound \/ strm'[i].bound = b)
         /\ failed = FALSE => failed' = FALSE
<1>0. /\ DOMAIN strm = Streams /\ Ascends(strm[i]) /\ Received(i) /\ feed[i].bound \in Int
      /\ strm[i].bound \in Int /\ Done \in Int /\ feed \in [Streams -> [bound : Int, sent : SUBSET Int]]
  BY HeadIsEarliest, TimestampFacts DEF InputInv, NodeType
<1> DEFINE Bounds == FedTimes \cup {Done} \cup {NextAllowedInStream(t) : t \in FedTimes}
<1>1. PICK r, packets, b :
        /\ b \in Bounds
        /\ Fed(i, r, b, packets)
        /\ r.stream.bound \in Int /\ strm[i].bound <= r.stream.bound /\ r.stream.selected = strm[i].selected
        /\ \A x \in Queued(r.stream) : x \in Queued(strm[i]) \/ (x \in FedTimes /\ strm[i].bound <= x)
        /\ r.stream.bound = strm[i].bound \/ r.stream.bound = b
        /\ r.ok
  <2>1. CASE FeedPacket(i)
    <3>1. PICK t \in FedTimes :
            /\ t >= feed[i].bound /\ (t = PostStream => feed[i].sent = {})
            /\ Fed(i, AddPackets(strm[i], <<t>>), NextAllowedInStream(t), {t})
      BY <2>1 DEF FeedPacket
    <3>2. /\ t \in Int /\ t \in Timestamps /\ IsAllowedInStream(t) /\ t < OneOverPostStream
          /\ t < NextAllowedInStream(t) /\ NextAllowedInStream(t) \in Int
      BY CalculatorNodeAssumption, TimeLine, TimestampFacts DEF Timestamps, IsAllowedInStream
    <3>3. ~strm[i].closed /\ t >= strm[i].bound /\ (t = PostStream => ~strm[i].some)
      BY <1>0, <3>1, <3>2, TimestampFacts DEF Received
    <3>4. PICK r : r = AddPackets(strm[i], <<t>>)
      OBVIOUS
    <3>5. /\ r.ok /\ Queued(r.stream) = Queued(strm[i]) \cup {t}
          /\ r.stream.bound = NextAllowedInStream(t) /\ r.stream.selected = strm[i].selected
      <4>1. PICK s : s = strm[i]
        OBVIOUS
      <4>2. /\ Ascends(s) /\ ~s.closed /\ t \in Timestamps /\ IsAllowedInStream(t) /\ t >= s.bound
            /\ t = PostStream => ~s.some
        BY <1>0, <3>2, <3>3, <4>1
      <4>3. r = AddPackets(s, <<t>>)
        BY <3>4, <4>1
      <4>4. /\ r.ok /\ Queued(r.stream) = Queued(s) \cup {t}
            /\ r.stream.bound = NextAllowedInStream(t) /\ r.stream.selected = s.selected
        BY <4>2, <4>3, AddOne
      <4>5. QED
        BY <4>1, <4>4
    <3>6. strm[i].bound <= r.stream.bound /\ r.stream.bound \in Int
      BY <1>0, <3>2, <3>3, <3>5
    <3>7. PICK b : b = NextAllowedInStream(t)
      OBVIOUS
    <3>8. /\ b \in Bounds
          /\ Fed(i, r, b, {t}) /\ r.ok /\ r.stream.bound = b /\ r.stream.selected = strm[i].selected
      BY <3>1, <3>4, <3>5, <3>7
    <3>9. \A x \in Queued(r.stream) : x \in Queued(strm[i]) \/ (x \in FedTimes /\ strm[i].bound <= x)
      BY <1>0, <3>2, <3>3, <3>5
    <3>10. QED
      BY <3>6, <3>8, <3>9
  <2>2. CASE FeedBound(i)
    <3>1. PICK b \in FedTimes \cup {Done} :
            b > feed[i].bound /\ Fed(i, SetNextTimestampBound(strm[i], b), b, {})
      BY <2>2 DEF FeedBound
    <3>2. PICK r : r = SetNextTimestampBound(strm[i], b)
      OBVIOUS
    <3>3. b \in Timestamps /\ b \in Int
      BY CalculatorNodeAssumption, TimeLine DEF Timestamps
    <3>4. Ascends(r.stream) /\ r.stream.queue = strm[i].queue
      BY <1>0, <3>2, <3>3, BoundKeepsAscending
    <3>5. Queued(r.stream) = Queued(strm[i])
      BY <3>4 DEF Queued
    <3>6. ~strm[i].closed => strm[i].bound = feed[i].bound
      BY <1>0 DEF Received
    <3>7. r.ok
      <4>1. r.ok = (strm[i].closed \/ b >= strm[i].bound)
        BY <3>2 DEF SetNextTimestampBound
      <4>2. b >= feed[i].bound
        BY <1>0, <3>1, <3>3
      <4>3. QED
        BY <3>6, <4>1, <4>2
    <3>8. r.stream = strm[i] \/ (b > strm[i].bound /\ r.stream = [strm[i] EXCEPT !.bound = b])
      BY <3>2 DEF SetNextTimestampBound
    <3>9. /\ r.stream.bound \in Int /\ strm[i].bound <= r.stream.bound
          /\ r.stream.selected = strm[i].selected
          /\ r.stream.bound = strm[i].bound \/ r.stream.bound = b
      BY <1>0, <3>3, <3>8 DEF Ascends, StreamType
    <3>10. QED
      <4>1. /\ b \in Bounds
            /\ Fed(i, r, b, {}) /\ r.ok
        BY <3>1, <3>2, <3>7
      <4>2. \A x \in Queued(r.stream) : x \in Queued(strm[i]) \/ (x \in FedTimes /\ strm[i].bound <= x)
        BY <3>5
      <4>3. QED
        BY <3>9, <4>1, <4>2
  <2>3. QED
    BY <2>1, <2>2
<1>2. /\ strm' = [strm EXCEPT ![i] = r.stream]
      /\ feed' = [feed EXCEPT ![i] = [bound |-> b, sent |-> feed[i].sent \cup packets]]
      /\ failed' = (failed \/ ~r.ok)
      /\ UNCHANGED <<lastTs, inputs, prepared, schedVars, outputVars, arg>>
  BY <1>1 DEF Fed, Check
<1>3. strm'[i] = r.stream /\ \A j \in Streams : j # i => strm'[j] = strm[j] /\ feed'[j] = feed[j]
  BY <1>0, <1>2
<1>4. feed'[i].bound = b
  BY <1>0, <1>2
<1>5. failed = FALSE => failed' = FALSE
  BY <1>1, <1>2
<1>6. \E c \in Bounds :
        feed'[i].bound = c /\ (strm'[i].bound = strm[i].bound \/ strm'[i].bound = c)
  BY <1>1, <1>3, <1>4
<1>7. QED
  BY <1>1, <1>2, <1>3, <1>5, <1>6

(* Nothing comes back below a floor.                                       *)
LEMMA FloorStep ==
  ASSUME InputInv, RolesInv, Next, UNCHANGED node, NEW b \in Int, Floor(b)
  PROVE  Floor(b)'
<1>0. /\ Streams' = Streams /\ loop \in LoopType /\ loop.bound \in Int /\ loop.packet \in Int /\ Done \in Int
      /\ b <= loop.bound /\ b <= loop.packet /\ loop.bound <= Done /\ b <= Done
      /\ \A i \in Streams : b <= strm[i].bound /\ strm[i].bound \in Int /\ \A x \in Queued(strm[i]) : b <= x
  <2>1. /\ loop \in LoopType /\ loop.bound \in Int /\ loop.packet \in Int /\ loop.bound <= Done /\ Done \in Int
        /\ \A i \in Streams : strm[i].bound \in Int
    BY HeadIsEarliest, TimestampFacts DEF InputInv, NodeType, LoopType
  <2>2. /\ b <= loop.bound /\ b <= loop.packet /\ Streams' = Streams
        /\ \A i \in Streams : b <= strm[i].bound /\ \A x \in Queued(strm[i]) : b <= x
    BY DEF Floor, Streams
  <2>3. QED
    BY <2>1, <2>2
<1>1. ASSUME NEW i \in Streams, FeedPacket(i) \/ FeedBound(i) PROVE Floor(b)'
  <2>1. /\ \A j \in Streams : j # i => strm'[j] = strm[j]
        /\ strm'[i].bound \in Int /\ strm[i].bound <= strm'[i].bound
        /\ \A x \in Queued(strm'[i]) : x \in Queued(strm[i]) \/ (x \in FedTimes /\ strm[i].bound <= x)
    BY <1>1, FedFacts
  <2>2. loop' = loop
    BY <1>1, FedFacts DEF schedVars
  <2>3. FedTimes \subseteq Int
    BY CalculatorNodeAssumption, TimeLine
  <2>4. b <= strm'[i].bound
    BY <1>0, <2>1
  <2>5. ASSUME NEW x \in Queued(strm'[i]) PROVE b <= x
    <3>1. CASE x \in Queued(strm[i])
      BY <1>0, <3>1
    <3>2. CASE x \in FedTimes /\ strm[i].bound <= x
      BY <1>0, <2>3, <3>2
    <3>3. QED
      BY <2>1, <3>1, <3>2
  <2>6. QED
    BY <1>0, <2>1, <2>2, <2>4, <2>5 DEF Floor
<1>2. ASSUME NEW t \in Threads, ReadStream(t) PROVE Floor(b)'
  <2> DEFINE k == loop.next
             s == strm[k]
             m == MinTimestampOrBound(s)
             bd == IF IsEmptyStream(s) THEN Earlier(loop.bound, m) ELSE loop.bound
             p == IF IsEmptyStream(s) THEN loop.packet ELSE Earlier(loop.packet, m)
  <2>1. k \in Streams /\ strm' = strm
    BY <1>2, NodeFacts DEF InputInv, NodeType, ReadStream, In, inputVars
  <2>2. loop' = [loop EXCEPT !.at = IF k = node.streams THEN "decide" ELSE "read",
                             !.next = k + 1, !.bound = bd, !.packet = p]
    BY <1>2 DEF ReadStream
  <2>3. m \in Int /\ b <= m
    <3>1. Ascends(s)
      BY <2>1 DEF InputInv, NodeType
    <3>2. ~IsEmptyStream(s) => Head(s.queue) \in Queued(s) /\ Head(s.queue) \in Int
      BY <3>1, HeadIsEarliest
    <3>3. QED
      BY <1>0, <2>1, <3>2 DEF MinTimestampOrBound
  <2>4. b <= bd /\ b <= p
    BY <1>0, <2>3 DEF Earlier
  <2> HIDE DEF bd, p, k
  <2>5. loop'.bound = bd /\ loop'.packet = p
    BY <1>0, <2>2 DEF LoopType
  <2>6. QED
    BY <1>0, <2>1, <2>4, <2>5 DEF Floor
<1>3. ASSUME NEW t \in Threads, ScheduleProcess(t) PROVE Floor(b)'
  <2>1. PICK ts : ts = ReadyAt(loop.bound, loop.packet)
    OBVIOUS
  <2>2. /\ loop' = Reading(loop.left - 1) /\ loop.at = "decide" /\ ~ReadyForClose /\ ts # Unset
        /\ strm' = [i \in Streams |-> PopPacketAtTimestamp(strm[i], ts).stream]
    BY <1>3, <2>1 DEF ScheduleProcess, In
  <2>3. ASSUME NEW i \in Streams PROVE strm'[i].bound = strm[i].bound /\ Queued(strm'[i]) \subseteq Queued(strm[i])
    <3>1. PICK r : r = PopPacketAtTimestamp(strm[i], ts)
      OBVIOUS
    <3>2. r.stream.bound = strm[i].bound /\ Queued(r.stream) = Queued(strm[i]) \ {ts}
      <4>1. /\ loop.at = "decide" /\ ~ReadyForClose /\ ts = ReadyAt(loop.bound, loop.packet) /\ ts # Unset
            /\ r = PopPacketAtTimestamp(strm[i], ts)
        BY <2>1, <2>2, <3>1
      <4>2. QED
        BY <4>1, TakenInputs
    <3>3. QED
      BY <2>2, <3>1, <3>2
  <2>4. loop'.bound = Done /\ loop'.packet = Done
    BY <2>2, LoopForms
  <2>5. QED
    BY <1>0, <2>3, <2>4 DEF Floor
<1>4. ASSUME NEW t \in Threads, ScheduleClose(t) PROVE Floor(b)'
  <2>1. loop' = Reading(0) /\ strm' = strm
    BY <1>4 DEF ScheduleClose
  <2>2. loop'.bound = Done /\ loop'.packet = Done
    BY <2>1, LoopForms
  <2>3. QED
    BY <1>0, <2>1, <2>2 DEF Floor
<1>5. ASSUME NEW t \in Threads, NotReady(t) PROVE Floor(b)'
  <2>1. /\ loop' = [Reading(0) EXCEPT !.at = "update", !.bound = Earlier(loop.bound, loop.packet)]
        /\ strm' = strm
    BY <1>5 DEF NotReady, inputVars
  <2>2. loop'.bound = Earlier(loop.bound, loop.packet) /\ loop'.packet = Done
    BY <2>1 DEF Reading
  <2>3. b <= Earlier(loop.bound, loop.packet)
    BY <1>0 DEF Earlier
  <2>4. QED
    BY <1>0, <2>1, <2>2, <2>3 DEF Floor
<1>6. ASSUME NEW t \in Threads, CloseInputStreams(t) PROVE Floor(b)'
  <2>1. strm' = [i \in Streams |-> CloseStream(strm[i])] /\ loop' = loop
    BY <1>6 DEF CloseInputStreams, schedVars
  <2>2. ASSUME NEW i \in Streams
        PROVE  strm'[i].bound \in Int /\ strm[i].bound <= strm'[i].bound /\ Queued(strm'[i]) = Queued(strm[i])
    <3>1. Ascends(strm[i]) /\ strm[i].bound <= Done
      BY DEF InputInv, NodeType
    <3>2. strm'[i] = CloseStream(strm[i])
      BY <2>1
    <3>3. QED
      BY <3>1, <3>2, CloseOne, HeadIsEarliest
  <2>3. ASSUME NEW i \in Streams PROVE b <= strm'[i].bound
    BY <1>0, <2>2
  <2>4. QED
    BY <1>0, <2>1, <2>2, <2>3 DEF Floor
<1>7. ASSUME NEW t \in Threads, Quiet(t) PROVE Floor(b)'
  <2>1. /\ strm' = strm
        /\ \/ loop'.bound = Done /\ loop'.packet = Done
           \/ loop'.bound = loop.bound /\ loop'.packet = loop.packet
    BY <1>7, QuietInputs
  <2>2. QED
    BY <1>0, <2>1 DEF Floor
<1>8. QED
  BY <1>1, <1>2, <1>3, <1>4, <1>5, <1>6, <1>7 DEF Next, Schedule, Work, Threads, Quiet

(* The scheduler tells the bound of its inputs only while there is room    *)
(* for an invocation; the invocation that closes the node is counted to    *)
(* the end; and nothing is active behind it.                               *)
IdleInv ==
  /\ loop.at = "update" => inFlight < MaxInFlight
  /\ status = "closed" => inFlight > 0
  /\ prepared => active = {}

(* Every step keeps it.                                                    *)
LEMMA IdleStep ==
  ASSUME NodeInv, IdleInv, Next, UNCHANGED node
  PROVE  IdleInv'
<1>0. /\ InputInv /\ RolesInv /\ CountInv /\ CloseInv /\ inFlight \in Nat /\ MaxInFlight' = MaxInFlight
      /\ MaxInFlight \in Nat
  BY NodeFacts DEF NodeInv, CountInv, MaxInFlight, InputInv, NodeType
<1>1. ASSUME UNCHANGED <<inFlight, prepared>>, active' = active \/ active' \subseteq active,
             status' = status,
             loop'.at = "update" => loop.at = "update"
      PROVE  IdleInv'
  BY <1>0, <1>1 DEF IdleInv
<1>2. ASSUME NEW i \in Streams, FeedPacket(i) \/ FeedBound(i) PROVE IdleInv'
  BY <1>1, <1>2, FedFacts, <1>0 DEF schedVars, outputVars
<1>3. ASSUME NEW t \in Threads, CheckIfBecameReady(t) \/ EnterLoop(t) \/ LeaveLoop(t)
      PROVE  IdleInv'
  <2>1. Quiet(t)
    BY <1>3 DEF Quiet
  <2>2. UNCHANGED <<inFlight, prepared, active, status>>
    BY <1>3 DEF CheckIfBecameReady, EnterLoop, LeaveLoop, inputVars, outputVars
  <2>3. QED
    BY <1>0, <1>1, <2>1, <2>2, QuietInputs
<1>4. ASSUME NEW t \in Threads, ReadStream(t) PROVE IdleInv'
  <2>1. loop'.at # "update"
    BY <1>0, <1>4 DEF ReadStream, InputInv, NodeType, LoopType
  <2>2. QED
    BY <1>1, <1>4, <2>1 DEF ReadStream, inputVars, outputVars
<1>5. ASSUME NEW t \in Threads, ScheduleProcess(t) PROVE IdleInv'
  <2>1. loop' = Reading(loop.left - 1) /\ inFlight' = inFlight + 1 /\ UNCHANGED <<prepared, status>>
    BY <1>5 DEF ScheduleProcess
  <2>2. ~prepared
    BY <1>0, <1>5, ReadyIsNew
  <2>3. loop'.at # "update"
    BY <2>1, LoopForms
  <2>4. QED
    BY <1>0, <2>1, <2>2, <2>3 DEF IdleInv
<1>6. ASSUME NEW t \in Threads, ScheduleClose(t) PROVE IdleInv'
  <2>1. /\ loop' = Reading(0) /\ UNCHANGED <<status, active>>
        /\ \/ UNCHANGED <<inFlight, prepared>>
           \/ inFlight' = inFlight + 1 /\ active = {}
    BY <1>6 DEF ScheduleClose, MayPrepareClose, outputVars
  <2>2. loop'.at # "update"
    BY <2>1, LoopForms
  <2>3. QED
    BY <1>0, <2>1, <2>2 DEF IdleInv
<1>7. ASSUME NEW t \in Threads, NotReady(t) PROVE IdleInv'
  <2>1. loop.at = "decide" /\ UNCHANGED <<inFlight, prepared, active, status>>
    BY <1>7 DEF NotReady, In, inputVars, outputVars
  <2>2. inFlight < MaxInFlight
    BY <1>0, <2>1 DEF CountInv, InputInv, NodeType, LoopType
  <2>3. QED
    BY <1>0, <2>1, <2>2 DEF IdleInv
<1>8. ASSUME NEW t \in Threads, UpdateTaskTimestampBound(t) \/ Propagate(t) \/ PostProcess(t)
      PROVE  IdleInv'
  <2>1. UNCHANGED <<inFlight, prepared, status>> /\ (loop'.at = "update" => loop.at = "update")
    <3>1. Quiet(t)
      BY <1>8 DEF Quiet
    <3>2. QED
      BY <1>0, <1>8, <3>1, QuietInputs, PropagationMoves
  <2>2. active' \subseteq active
    BY <1>8 DEF UpdateTaskTimestampBound, Propagate, PropagatePackets, RecycleContext, AfterPackets,
                TestBound, PropagateBound, AfterBound, PostProcess
  <2>3. QED
    BY <1>1, <2>1, <2>2
<1>9. ASSUME NEW t \in Threads, EndScheduling(t) PROVE IdleInv'
  <2>1. Quiet(t)
    BY <1>9 DEF Quiet
  <2>2. UNCHANGED <<prepared, active, status>> /\ inFlight' \in {inFlight, inFlight - 1}
        /\ (status = "closed" => inFlight' = inFlight)
    BY <1>9 DEF EndScheduling, inputVars, outputVars
  <2>3. loop'.at = "update" => loop.at = "update"
    BY <1>0, <2>1, QuietInputs
  <2>4. QED
    BY <1>0, <2>2, <2>3 DEF IdleInv
<1>10. ASSUME NEW t \in Threads, \/ OpenNode(t) \/ RunNextTask(t) \/ ProcessNode(t)
                                 \/ CloseInputStreams(t) \/ CloseOutputStreams(t) \/ CloseManager(t)
       PROVE  IdleInv'
  <2>1. /\ UNCHANGED <<inFlight, prepared, active, loop>>
        /\ status' = status \/ status' = "opened"
    BY <1>10 DEF OpenNode, RunNextTask, ProcessNode, CloseInputStreams, CloseOutputStreams,
                 CloseManager, inputVars, schedVars, outputVars
  <2>2. QED
    BY <1>0, <2>1 DEF IdleInv
<1>11. ASSUME NEW t \in Threads, Closed(t) PROVE IdleInv'
  <2>1. pc[t] = "closed" /\ UNCHANGED <<inFlight, prepared, active, loop>>
    BY <1>11 DEF Closed, inputVars, outputVars
  <2>2. pc[t] \in Closing /\ pc[t] \in InHand
    BY <2>1 DEF Closing, InHand
  <2>3. status # "closed"
    BY <1>0, <2>2 DEF CloseInv
  <2>4. inFlight > 0
    BY <1>0, <2>2, <2>3, SomethingInFlight
  <2>5. QED
    BY <1>0, <2>1, <2>4 DEF IdleInv
<1>12. QED
  BY <1>2, <1>3, <1>4, <1>5, <1>6, <1>7, <1>8, <1>9, <1>10, <1>11 DEF Next, Schedule, Work, Threads

(* With ordinary packets, all times are ordinary, and a bound never stands *)
(* at PostStream; the streams have been read no farther than lastTs.       *)
OrdInv ==
  /\ \A i \in Streams : feed[i].bound # PostStream /\ strm[i].bound # PostStream
  /\ \A i \in Streams : \A x \in Queued(strm[i]) : IsRangeValue(x)
  /\ loop.bound # PostStream /\ (loop.packet = Done \/ IsRangeValue(loop.packet))
  /\ \A a \in DOMAIN inputs : IsRangeValue(a) /\ a <= lastTs
  /\ lastTs <= MaxTimestamp
  /\ \A i \in Streams : \/ strm[i].selected <= lastTs \/ strm[i].selected = Unstarted
                        \/ Floor(OneOverPostStream)

(* The timestamp that is ready is an ordinary one.                         *)
LEMMA ReadyIsOrdinary ==
  ASSUME InputInv, OrdInv, loop.at = "decide", ~ReadyForClose, NEW ts,
         ts = ReadyAt(loop.bound, loop.packet), ts # Unset
  PROVE  IsRangeValue(ts) /\ ts \in Int /\ lastTs < ts /\ ~Floor(OneOverPostStream)
<1>1. /\ ts \in Int /\ ts < loop.bound /\ ts <= loop.packet /\ lastTs < ts /\ Unstarted < ts
      /\ ts <= PostStream /\ (ts = PostStream => loop.packet = PostStream) /\ ~Floor(OneOverPostStream)
  BY ReadyIsSettled
<1>2. loop.bound \in Int /\ loop.packet \in Int /\ loop.bound <= Done /\ loop.bound # PostStream
  BY DEF InputInv, NodeType, LoopType, OrdInv
<1>3. ts <= MaxTimestamp
  BY <1>1, TimeLine DEF OrdInv, IsRangeValue
<1>4. ts >= MinTimestamp
  <2>1. CASE ts = loop.packet
    BY <1>1, <2>1, <1>3, TimeLine DEF OrdInv, IsRangeValue
  <2>2. CASE ts # loop.packet
    <3> DEFINE settled == IF loop.packet = PostStream /\ loop.bound > loop.packet THEN loop.packet
                          ELSE PreviousAllowedInStream(loop.bound)
    <3>1. ts = Earlier(loop.packet, settled)
      BY <2>2 DEF ReadyAt
    <3>2. settled = PreviousAllowedInStream(loop.bound)
      BY TimeLine DEF OrdInv, IsRangeValue
    <3>3. ts = PreviousAllowedInStream(loop.bound)
      <4> HIDE DEF settled
      <4>1. QED
        BY <2>2, <3>1, <3>2 DEF Earlier
    <3>4. QED
      BY <1>1, <1>2, <3>3, TimeLine DEF PreviousAllowedInStream
  <2>3. QED
    BY <2>1, <2>2
<1>5. QED
  BY <1>1, <1>3, <1>4 DEF IsRangeValue

(* Every step keeps times ordinary.                                        *)
LEMMA OrdStep ==
  ASSUME Ordinary, NodeInv, OrdInv, Next, UNCHANGED node
  PROVE  OrdInv'
<1>0. /\ InputInv /\ RolesInv /\ Streams' = Streams /\ loop \in LoopType /\ loop.bound <= Done
      /\ DOMAIN strm = Streams /\ lastTs \in Int /\ Done # PostStream /\ OneOverPostStream # PostStream
  BY TimeLine DEF NodeInv, Streams, InputInv, NodeType
<1>1. ASSUME Floor(OneOverPostStream) PROVE Floor(OneOverPostStream)'
  BY <1>0, <1>1, FloorStep, TimestampFacts
<1>2. ASSUME NEW i \in Streams, FeedPacket(i) \/ FeedBound(i) PROVE OrdInv'
  <2>1. /\ UNCHANGED <<lastTs, inputs, loop>>
        /\ \A j \in Streams : j # i => strm'[j] = strm[j] /\ feed'[j] = feed[j]
        /\ strm'[i].selected = strm[i].selected
        /\ \A x \in Queued(strm'[i]) : x \in Queued(strm[i]) \/ x \in FedTimes
    BY <1>0, <1>2, FedFacts DEF schedVars
  <2>2. PICK b \in FedTimes \cup {Done} \cup {NextAllowedInStream(t) : t \in FedTimes} :
          feed'[i].bound = b /\ (strm'[i].bound = strm[i].bound \/ strm'[i].bound = b)
    BY <1>0, <1>2, FedFacts
  <2>3. \A t \in FedTimes : t \in Int /\ IsRangeValue(t) /\ t # PostStream /\ NextAllowedInStream(t) # PostStream
    BY TimeLine DEF Ordinary, IsRangeValue, NextAllowedInStream
  <2>4. b # PostStream
    BY <1>0, <2>2, <2>3
  <2>5. \A j \in Streams : feed'[j].bound # PostStream /\ strm'[j].bound # PostStream
    BY <2>1, <2>2, <2>4 DEF OrdInv
  <2>6. \A j \in Streams : \A x \in Queued(strm'[j]) : IsRangeValue(x)
    BY <2>1, <2>3 DEF OrdInv
  <2>7. \A j \in Streams : \/ strm'[j].selected <= lastTs \/ strm'[j].selected = Unstarted
                           \/ Floor(OneOverPostStream)'
    BY <1>1, <2>1 DEF OrdInv
  <2>8. QED
    BY <1>0, <2>1, <2>5, <2>6, <2>7 DEF OrdInv
<1>3. ASSUME NEW t \in Threads, ReadStream(t) PROVE OrdInv'
  <2> DEFINE k == loop.next
             s == strm[k]
             m == MinTimestampOrBound(s)
             bd == IF IsEmptyStream(s) THEN Earlier(loop.bound, m) ELSE loop.bound
             p == IF IsEmptyStream(s) THEN loop.packet ELSE Earlier(loop.packet, m)
  <2>1. k \in Streams /\ UNCHANGED inputVars
    BY <1>0, <1>3, NodeFacts DEF InputInv, NodeType, ReadStream, In
  <2>2. loop' = [loop EXCEPT !.at = IF k = node.streams THEN "decide" ELSE "read",
                             !.next = k + 1, !.bound = bd, !.packet = p]
    BY <1>3 DEF ReadStream
  <2>3. /\ IsEmptyStream(s) => m = s.bound /\ m # PostStream
        /\ ~IsEmptyStream(s) => IsRangeValue(m)
    <3>1. Ascends(s)
      BY <1>0, <2>1 DEF InputInv, NodeType
    <3>2. ~IsEmptyStream(s) => Head(s.queue) \in Queued(s)
      BY <3>1, HeadIsEarliest
    <3>3. QED
      BY <2>1, <3>2 DEF MinTimestampOrBound, OrdInv
  <2>4. bd # PostStream /\ (p = Done \/ IsRangeValue(p))
    BY <2>3 DEF Earlier, OrdInv
  <2> HIDE DEF bd, p, k
  <2>5. loop'.bound = bd /\ loop'.packet = p
    BY <1>0, <2>2 DEF LoopType
  <2>6. QED
    BY <1>0, <1>1, <2>1, <2>4, <2>5 DEF OrdInv, inputVars
<1>4. ASSUME NEW t \in Threads, ScheduleProcess(t) PROVE OrdInv'
  <2>1. PICK ts : ts = ReadyAt(loop.bound, loop.packet)
    OBVIOUS
  <2>2. /\ loop' = Reading(loop.left - 1) /\ loop.at = "decide" /\ ~ReadyForClose /\ ts # Unset
        /\ strm' = [i \in Streams |-> PopPacketAtTimestamp(strm[i], ts).stream]
        /\ lastTs' = ts /\ feed' = feed
    BY <1>4, <2>1 DEF ScheduleProcess, In
  <2>3. DOMAIN inputs' = DOMAIN inputs \cup {ts} /\ \A a \in DOMAIN inputs : a \in Int
    BY <1>0, <1>4, <2>1, ReadyIsNew
  <2>4. IsRangeValue(ts) /\ ts \in Int /\ lastTs < ts
    BY <1>0, <2>1, <2>2, ReadyIsOrdinary
  <2>5. ASSUME NEW i \in Streams
        PROVE  /\ strm'[i].bound = strm[i].bound /\ Queued(strm'[i]) \subseteq Queued(strm[i])
               /\ strm'[i].selected = ts
    <3>1. PICK r : r = PopPacketAtTimestamp(strm[i], ts)
      OBVIOUS
    <3>2. /\ r.stream.bound = strm[i].bound /\ Queued(r.stream) = Queued(strm[i]) \ {ts}
          /\ r.stream.selected = ts
      <4>1. /\ loop.at = "decide" /\ ~ReadyForClose /\ ts = ReadyAt(loop.bound, loop.packet) /\ ts # Unset
            /\ r = PopPacketAtTimestamp(strm[i], ts)
        BY <2>1, <2>2, <3>1
      <4>2. QED
        BY <1>0, <4>1, TakenInputs
    <3>3. QED
      BY <2>2, <3>1, <3>2
  <2>6. loop'.bound = Done /\ loop'.packet = Done
    BY <2>2, LoopForms
  <2>7. \A a \in DOMAIN inputs' : IsRangeValue(a) /\ a <= lastTs'
    BY <1>0, <2>2, <2>3, <2>4 DEF OrdInv
  <2>8. \A i \in Streams : strm'[i].selected <= lastTs'
    BY <2>2, <2>4, <2>5
  <2>9. lastTs' <= MaxTimestamp
    BY <2>2, <2>4 DEF IsRangeValue
  <2>10. QED
    BY <1>0, <2>2, <2>5, <2>6, <2>7, <2>8, <2>9 DEF OrdInv
<1>5. ASSUME NEW t \in Threads, ScheduleClose(t) PROVE OrdInv'
  <2>1. /\ loop' = Reading(0) /\ lastTs' = PreviousAllowedInStream(Done) /\ UNCHANGED <<strm, feed, inputs>>
    BY <1>5 DEF ScheduleClose
  <2>2. loop'.bound = Done /\ loop'.packet = Done
    BY <2>1, LoopForms
  <2>3. lastTs' = MaxTimestamp /\ lastTs <= lastTs'
    BY <2>1, TimeLine DEF PreviousAllowedInStream, OrdInv
  <2>4. \A a \in DOMAIN inputs : a \in Int /\ a <= lastTs'
    BY <1>0, <2>3, TimeLine DEF OrdInv, InputInv, NodeType
  <2>5. ASSUME NEW i \in Streams, strm[i].selected <= lastTs PROVE strm[i].selected <= lastTs'
    <3>1. strm[i].selected \in Int
      BY <1>0, HeadIsEarliest DEF InputInv, NodeType
    <3>2. QED
      BY <1>0, <2>3, <2>5, <3>1, TimeLine
  <2>6. lastTs' <= MaxTimestamp
    BY <2>3, TimeLine
  <2>7. QED
    BY <1>0, <1>1, <2>1, <2>2, <2>4, <2>5, <2>6 DEF OrdInv
<1>6. ASSUME NEW t \in Threads, NotReady(t) PROVE OrdInv'
  <2>1. /\ loop' = [Reading(0) EXCEPT !.at = "update", !.bound = Earlier(loop.bound, loop.packet)]
        /\ UNCHANGED <<strm, feed, inputs, lastTs>>
    BY <1>6 DEF NotReady, inputVars
  <2>2. loop'.bound = Earlier(loop.bound, loop.packet) /\ loop'.packet = Done
    BY <2>1 DEF Reading
  <2>3. Earlier(loop.bound, loop.packet) # PostStream
    BY <1>0, TimeLine DEF Earlier, OrdInv, IsRangeValue
  <2>4. QED
    BY <1>0, <1>1, <2>1, <2>2, <2>3 DEF OrdInv
<1>7. ASSUME NEW t \in Threads, CloseInputStreams(t) PROVE OrdInv'
  <2>1. /\ strm' = [i \in Streams |-> CloseStream(strm[i])] /\ UNCHANGED <<loop, feed, inputs, lastTs>>
        /\ pc[t] = "close"
    BY <1>7 DEF CloseInputStreams, schedVars
  <2>2. ASSUME NEW i \in Streams
        PROVE  strm'[i].bound # PostStream /\ Queued(strm'[i]) = Queued(strm[i])
    <3>1. Ascends(strm[i]) /\ strm[i].bound <= Done
      BY <1>0 DEF InputInv, NodeType
    <3>2. strm'[i] = CloseStream(strm[i])
      BY <2>1
    <3>3. QED
      BY <1>0, <3>1, <3>2, CloseOne DEF OrdInv
  <2>3. Floor(OneOverPostStream)
    BY <1>0, <2>1 DEF InputInv, TimeInv, Closing
  <2>4. QED
    BY <1>0, <1>1, <2>1, <2>2, <2>3 DEF OrdInv
<1>8. ASSUME NEW t \in Threads, Quiet(t) PROVE OrdInv'
  <2>1. /\ UNCHANGED <<strm, feed, inputs, lastTs>>
        /\ \/ loop'.bound = Done /\ loop'.packet = Done
           \/ loop'.bound = loop.bound /\ loop'.packet = loop.packet
    BY <1>0, <1>8, QuietInputs
  <2>2. QED
    BY <1>0, <1>1, <2>1 DEF OrdInv
<1>9. QED
  BY <1>2, <1>3, <1>4, <1>5, <1>6, <1>7, <1>8 DEF Next, Schedule, Work, Threads, Quiet

(* The output may promise b: nothing earlier will be read, and, where      *)
(* bounds are processed, no earlier time will be run.                      *)
Told(b) ==
  /\ Floor(b)
  /\ ProcessTimestampBounds => \A ts \in MinTimestamp .. MaxTimestamp : lastTs < ts => b <= ts

(* lastTs only grows.                                                      *)
LEMMA TimeGoesOn ==
  ASSUME InputInv, RolesInv, OrdInv, Next, UNCHANGED node
  PROVE  lastTs \in Int /\ lastTs' \in Int /\ lastTs <= lastTs'
<1>0. lastTs \in Int /\ MaxTimestamp \in Int
  BY TimeLine DEF InputInv, NodeType
<1>1. ASSUME UNCHANGED lastTs PROVE lastTs' \in Int /\ lastTs <= lastTs'
  BY <1>0, <1>1
<1>2. ASSUME NEW i \in Streams, FeedPacket(i) \/ FeedBound(i) PROVE UNCHANGED lastTs
  BY <1>2, FedFacts
<1>3. ASSUME NEW t \in Threads, ScheduleProcess(t) PROVE lastTs' \in Int /\ lastTs <= lastTs'
  <2>1. PICK ts : ts = ReadyAt(loop.bound, loop.packet)
    OBVIOUS
  <2>2. lastTs' = ts
    BY <1>3, <2>1 DEF ScheduleProcess
  <2>3. ts \in Int /\ lastTs < ts
    BY <1>3, <2>1, ReadyIsNew
  <2>4. QED
    BY <1>0, <2>2, <2>3
<1>4. ASSUME NEW t \in Threads, ScheduleClose(t) PROVE lastTs' \in Int /\ lastTs <= lastTs'
  <2>1. lastTs' = PreviousAllowedInStream(Done)
    BY <1>4 DEF ScheduleClose
  <2>2. lastTs' = MaxTimestamp
    BY <2>1, TimeLine DEF PreviousAllowedInStream
  <2>3. QED
    BY <1>0, <2>2 DEF OrdInv
<1>5. ASSUME NEW t \in Threads, ReadStream(t) \/ NotReady(t) \/ CloseInputStreams(t) PROVE UNCHANGED lastTs
  BY <1>5 DEF ReadStream, NotReady, CloseInputStreams, inputVars
<1>6. ASSUME NEW t \in Threads, Quiet(t) PROVE UNCHANGED lastTs
  BY <1>6, QuietInputs
<1>7. QED
  BY <1>0, <1>1, <1>2, <1>3, <1>4, <1>5, <1>6 DEF Next, Schedule, Work, Threads, Quiet

(* A promise stays good.                                                   *)
LEMMA ToldStep ==
  ASSUME InputInv, RolesInv, OrdInv, Next, UNCHANGED node, NEW b \in Int, Told(b)
  PROVE  Told(b)'
<1>1. Floor(b)'
  BY FloorStep DEF Told
<1>2. lastTs \in Int /\ lastTs' \in Int /\ lastTs <= lastTs'
  BY TimeGoesOn
<1>3. ProcessTimestampBounds' = ProcessTimestampBounds
  BY DEF ProcessTimestampBounds
<1>4. ASSUME ProcessTimestampBounds, NEW ts \in MinTimestamp .. MaxTimestamp, lastTs' < ts PROVE b <= ts
  <2>1. ts \in Int
    BY TimeLine
  <2>2. lastTs < ts
    BY <1>2, <1>4, <2>1
  <2>3. QED
    BY <1>4, <2>2 DEF Told
<1>5. QED
  BY <1>1, <1>3, <1>4 DEF Told

(* What a round of the scheduler has read, when nothing is ready.          *)
LEMMA RoundIsTold ==
  ASSUME InputInv, OrdInv, UNCHANGED node, NEW t \in Threads, NotReady(t)
  PROVE  Told(loop.bound)'
<1>1. /\ loop' = [Reading(0) EXCEPT !.at = "update", !.bound = Earlier(loop.bound, loop.packet)]
      /\ UNCHANGED <<strm, lastTs>> /\ loop.at = "decide" /\ ~ReadyForClose
      /\ ReadyAt(loop.bound, loop.packet) = Unset
  BY DEF NotReady, In, inputVars
<1>2. PICK e : e = Earlier(loop.bound, loop.packet)
  OBVIOUS
<1>3. loop'.bound = e /\ loop'.packet = Done
  BY <1>1, <1>2 DEF Reading
<1>4. /\ loop.bound \in Int /\ loop.packet \in Int /\ loop.bound <= Done /\ Done \in Int /\ lastTs \in Int
      /\ Floor(lastTs + 1) /\ loop.next = node.streams + 1 /\ node.streams \in Nat
  BY <1>1, NodeFacts, TimestampFacts DEF InputInv, NodeType, LoopType, TimeInv
<1>5. e \in Int /\ e <= loop.bound /\ e <= loop.packet /\ e <= Done
  BY <1>2, <1>4 DEF Earlier
<1>6. Floor(e)'
  <2>1. ASSUME NEW i \in Streams PROVE e <= strm[i].bound /\ \A x \in Queued(strm[i]) : e <= x
    <3>1. i \in 1 .. loop.next - 1
      BY <1>4, NodeFacts DEF InputInv, NodeType
    <3>2. Seen(i)
      BY <1>1, <3>1 DEF InputInv
    <3>3. \A x \in Queued(strm[i]) : e <= x
      BY <1>2, <3>2 DEF Seen
    <3>4. strm[i].bound \in Int /\ \A x \in Queued(strm[i]) : x \in Int /\ x < strm[i].bound
      BY HeadIsEarliest DEF InputInv, NodeType
    <3>5. e <= strm[i].bound
      BY <1>4, <1>5, <3>2, <3>3, <3>4 DEF Seen
    <3>6. QED
      BY <3>3, <3>5
  <2>2. Streams' = Streams
    BY DEF Streams
  <2>3. QED
    BY <1>1, <1>3, <1>5, <2>1, <2>2 DEF Floor
<1>7. ASSUME ProcessTimestampBounds, NEW ts \in MinTimestamp .. MaxTimestamp, lastTs < ts PROVE e <= ts
  <2> DEFINE settled == IF loop.packet = PostStream /\ loop.bound > loop.packet THEN loop.packet
                        ELSE PreviousAllowedInStream(loop.bound)
  <2>1. ts \in Int /\ 0 <= ts /\ ts <= MaxTimestamp
    BY TimeLine
  <2>2. PICK p : p = PreviousAllowedInStream(loop.bound)
    OBVIOUS
  <2>3. settled = p
    BY <2>2, TimeLine DEF OrdInv, IsRangeValue
  <2>4. /\ p \in Int /\ Unstarted <= p
        /\ p < ts => loop.bound <= ts
    BY <1>4, <2>1, <2>2, TimeLine DEF PreviousAllowedInStream, OrdInv
  <2>5. /\ lastTs + 1 <= loop.packet /\ Unset < loop.packet /\ Unstarted < loop.packet
    BY <1>4, TimeLine DEF Floor, OrdInv, IsRangeValue
  <2>6. ~(Earlier(loop.packet, p) > Later(lastTs, Unstarted)) \/ Earlier(loop.packet, p) = Unset
    <3>1. \/ ~(Earlier(loop.packet, settled) > Later(lastTs, Unstarted))
          \/ Earlier(loop.packet, settled) = Unset
      BY <1>1, <1>7 DEF ReadyAt
    <3> HIDE DEF settled
    <3>2. QED
      BY <2>3, <3>1
  <2>7. p <= Later(lastTs, Unstarted)
    BY <1>4, <2>4, <2>5, <2>6, TimeLine DEF Earlier, Later
  <2>8. p < ts
    BY <1>4, <1>7, <2>1, <2>4, <2>7, TimeLine DEF Later
  <2>9. QED
    BY <1>4, <1>5, <2>1, <2>4, <2>8
<1>8. ProcessTimestampBounds' = ProcessTimestampBounds
  BY DEF ProcessTimestampBounds
<1>9. QED
  BY <1>1, <1>3, <1>5, <1>6, <1>7, <1>8 DEF Told

(* Behind the time of an invocation.                                       *)
LEMMA ToldBehind ==
  ASSUME InputInv, OrdInv, NEW a \in DOMAIN inputs
  PROVE  /\ a \in Int /\ IsRangeValue(a)
         /\ Told(a + 1) /\ Told(NextAllowedInStream(a))
         /\ a + 1 \in Timestamps /\ NextAllowedInStream(a) \in Timestamps
         /\ a < NextAllowedInStream(a) /\ \A u \in Int : IsRangeValue(u) /\ a < u => NextAllowedInStream(a) <= u
<1>1. /\ a \in Int /\ IsRangeValue(a) /\ a <= lastTs /\ lastTs \in Int /\ Floor(a + 1)
      /\ loop.bound \in Int /\ loop.packet \in Int
      /\ \A i \in Streams : strm[i].bound \in Int /\ \A x \in Queued(strm[i]) : x \in Int
  BY HeadIsEarliest DEF InputInv, NodeType, TimeInv, OrdInv, LoopType
<1>2. 0 <= a /\ a <= MaxTimestamp
  BY <1>1, TimeLine DEF IsRangeValue
<1>3. Told(a + 1)
  BY <1>1, TimeLine DEF Told
<1>4. CASE a < MaxTimestamp
  <2>1. NextAllowedInStream(a) = a + 1
    BY <1>1, <1>2, <1>4, TimeLine DEF NextAllowedInStream
  <2>2. QED
    BY <1>1, <1>2, <1>3, <2>1, TimeLine DEF Timestamps
<1>5. CASE a = MaxTimestamp
  <2>1. NextAllowedInStream(a) = OneOverPostStream
    BY <1>5, TimeLine DEF NextAllowedInStream
  <2>2. a + 1 = PostStream
    BY <1>5, TimeLine
  <2>3. Floor(OneOverPostStream)
    <3>1. OneOverPostStream <= loop.bound
      BY <1>1, <2>2, TimeLine DEF Floor, OrdInv
    <3>2. OneOverPostStream <= loop.packet
      BY <1>1, <2>2, TimeLine DEF Floor, OrdInv, IsRangeValue
    <3>3. ASSUME NEW i \in Streams PROVE OneOverPostStream <= strm[i].bound
      BY <1>1, <2>2, TimeLine DEF Floor, OrdInv
    <3>4. ASSUME NEW i \in Streams, NEW x \in Queued(strm[i]) PROVE OneOverPostStream <= x
      BY <1>1, <2>2, TimeLine DEF Floor, OrdInv, IsRangeValue
    <3>5. QED
      BY <3>1, <3>2, <3>3, <3>4 DEF Floor
  <2>4. Told(OneOverPostStream)
    BY <1>1, <1>5, <2>3, TimeLine DEF Told
  <2>5. \A u \in Int : IsRangeValue(u) /\ a < u => FALSE
    BY <1>5, TimeLine DEF IsRangeValue
  <2>6. QED
    BY <1>1, <1>2, <1>3, <1>5, <2>1, <2>4, <2>5, TimeLine DEF Timestamps
<1>6. QED
  BY <1>1, <1>2, <1>4, <1>5, TimeLine

(* What an invocation sends fits behind what the reader has: a packet at   *)
(* its time, a later bound, or nothing.                                    *)
LEMMA MirrorTakes ==
  ASSUME NEW s, Ascends(s), ~s.closed, NEW packets, NEW bound \in Timestamps, NEW r,
         r = Mirrored(s, bound, packets),
         \/ \E a \in Timestamps : /\ packets = <<a>> /\ IsRangeValue(a) /\ s.bound <= a
                                  /\ bound = NextAllowedInStream(a)
         \/ packets = << >> /\ (bound = Unset \/ s.bound <= bound)
  PROVE  /\ r.ok /\ Ascends(r.stream) /\ ~r.stream.closed
         /\ r.stream.bound = IF bound = Unset THEN s.bound ELSE bound
<1>1. s \in StreamType /\ s.bound \in Int /\ bound \in Int
  BY TimestampFacts DEF Ascends, StreamType
<1>2. CASE packets = << >>
  <2>1. CASE bound = Unset
    <3>1. r = [ok |-> TRUE, notify |-> FALSE, stream |-> s]
      BY <1>2, <2>1 DEF Mirrored
    <3>2. r.ok /\ r.stream = s
      BY <3>1
    <3>3. QED
      BY <2>1, <3>2
  <2>2. CASE bound # Unset
    <3>1. PICK q : q = SetNextTimestampBound(s, bound)
      OBVIOUS
    <3>2. r.ok = (TRUE /\ q.ok) /\ r.stream = q.stream
      BY <1>2, <2>2, <3>1 DEF Mirrored
    <3>3. s.bound <= bound
      BY <1>2, <2>2
    <3>4. /\ q.ok = (s.closed \/ bound >= s.bound)
          /\ q.stream = IF ~s.closed /\ bound > s.bound THEN [s EXCEPT !.bound = bound] ELSE s
      BY <3>1 DEF SetNextTimestampBound
    <3>5. Ascends(q.stream)
      BY <3>1, BoundKeepsAscending
    <3>6. ~q.stream.closed /\ q.stream.bound = bound
      BY <1>1, <3>3, <3>4 DEF StreamType
    <3>7. q.ok
      BY <1>1, <3>3, <3>4
    <3>8. QED
      BY <2>2, <3>2, <3>5, <3>6, <3>7
  <2>3. QED
    BY <2>1, <2>2
<1>3. CASE packets # << >>
  <2>1. PICK a \in Timestamps : /\ packets = <<a>> /\ IsRangeValue(a) /\ s.bound <= a
                                /\ bound = NextAllowedInStream(a)
    BY <1>3
  <2>2. Last(packets) = a
    BY <2>1 DEF Last
  <2>3. a \in Int /\ bound # Unset /\ IsAllowedInStream(a) /\ a # PostStream
    BY <2>1, TimeLine DEF Timestamps, IsRangeValue, IsAllowedInStream, NextAllowedInStream
  <2>4. r = AddPackets(s, <<a>>)
    BY <1>3, <2>1, <2>2 DEF Mirrored
  <2>5. a >= s.bound /\ (a = PostStream => ~s.some)
    BY <1>1, <2>1, <2>3
  <2>6. /\ r.ok /\ Ascends(r.stream) /\ ~r.stream.closed /\ r.stream.bound = NextAllowedInStream(a)
    BY <2>3, <2>4, <2>5, AddOne
  <2>7. QED
    BY <2>1, <2>3, <2>6
<1>4. QED
  BY <1>2, <1>3

-----------------------------------------------------------------------------
(* The invocation at a has its context, but its results are still to come. *)
Sent(a) == prop = "packets" /\ pr.at \in {"recycle", "relock"} /\ a = pr.ts

Unsent(a) ==
  \/ a \in tasks
  \/ \E t \in Threads : pc[t] \in Running /\ arg[t] = a
  \/ a \in completed /\ ~Sent(a)

(* The bounds that are propagated are promises; the bound kept by the      *)
(* handler goes forward; and who leaves a mark for the propagator has      *)
(* brought something new.                                                  *)
BoundInv ==
  /\ Floor(taskBound)
  /\ loop.at = "update" => Told(loop.bound)
  /\ ~Parallel /\ prop # "idle" => Told(pr.ts)
  /\ prop \in {"bound", "pending"} /\ pr.at = "send" =>
       ~Parallel /\ IsRangeValue(pr.ts) /\ pr.ts > manager.bound
  /\ Parallel /\ prop \in {"bound", "pending"} => pr.ts <= taskBound
  /\ prop = "pending" => pr.ts < taskBound \/ completed # {}

(* Until the node closes, the output has told what it may, and lets every  *)
(* result pass that is still to come.                                      *)
OutInv ==
  ~prepared =>
    /\ Ascends(mirror) /\ ~mirror.closed /\ mirror.bound = manager.bound
    /\ manager \in [bound : Int, closed : BOOLEAN]
    /\ Told(mirror.bound)
    /\ \A a \in DOMAIN inputs : Unsent(a) => mirror.bound <= a

(* While a node without parallel invocations propagates a bound, nothing   *)
(* is in flight.                                                           *)
LEMMA NothingBeside ==
  ASSUME NodeInv, IdleInv, ~Parallel, prop # "idle"
  PROVE  /\ tasks = {} /\ completed = {} /\ ~prepared
         /\ \A t \in Threads : pc[t] \notin InHand
<1>0. /\ InputInv /\ RolesInv /\ CountInv /\ CloseInv /\ BooksInv /\ PropInv
      /\ inFlight \in Nat /\ MaxInFlight = 1
  BY NodeFacts DEF NodeInv, CountInv, Parallel, InputInv, NodeType
<1>1. PICK t \in Threads : pc[t] = "loopProp"
  BY <1>0 DEF PropInv, Propagators
<1>2. loop.at = "update"
  BY <1>0, <1>1 DEF RolesInv
<1>3. inFlight = 0 /\ status # "closed"
  BY <1>0, <1>2 DEF IdleInv
<1>4. tasks = {} /\ \A u \in Threads : pc[u] \notin InHand
  BY <1>0, <1>3, NothingInFlight
<1>5. ~prepared
  BY <1>0, <1>3, <1>4 DEF CloseInv, InHand
<1>6. QED
  BY <1>0, <1>4, <1>5 DEF BooksInv

(* Such a node has one invocation in hand at most.                         *)
LEMMA OneInHand ==
  ASSUME NodeInv, IdleInv, ~Parallel, NEW t \in Threads, pc[t] = "post"
  PROVE  /\ tasks = {} /\ completed = {} /\ ~prepared /\ prop = "idle" /\ loop.at # "update"
         /\ \A u \in Threads : pc[u] \in InHand => u = t
<1>0. /\ InputInv /\ RolesInv /\ CountInv /\ CloseInv /\ BooksInv /\ PropInv
      /\ inFlight \in Nat /\ inFlight <= 1 /\ MaxInFlight = 1 /\ pc[t] \in InHand
  BY NodeFacts DEF NodeInv, CountInv, Parallel, InputInv, NodeType, InHand
<1>1. prop = "idle"
  BY <1>0, NothingBeside
<1>2. ~prepared /\ status # "closed"
  BY <1>0 DEF CloseInv
<1>3. IsFiniteSet(Hands) /\ IsFiniteSet(tasks) /\ t \in Hands
  <2>1. IsFiniteSet(Threads) /\ Hands \subseteq Threads
    BY <1>0, NodeFacts DEF InputInv, NodeType, Hands
  <2>2. QED
    BY <1>0, <2>1, FS_Subset DEF CountInv, Hands
<1>4. inFlight = Cardinality(tasks) + Cardinality(Hands) /\ Cardinality(tasks) \in Nat
  BY <1>0, <1>2, <1>3, FS_CardinalityType DEF CountInv
<1>5. /\ IsFiniteSet(Hands \ {t}) /\ Cardinality(Hands \ {t}) = Cardinality(Hands) - 1
      /\ Cardinality(Hands) \in Nat /\ Cardinality(Hands \ {t}) \in Nat
  BY <1>3, FS_RemoveElement, FS_CardinalityType
<1>6. Cardinality(tasks) = 0 /\ Cardinality(Hands \ {t}) = 0
  BY <1>0, <1>4, <1>5
<1>7. tasks = {} /\ Hands \ {t} = {}
  BY <1>3, <1>5, <1>6, FS_EmptySet
<1>8. \A u \in Threads : pc[u] \in InHand => u = t
  BY <1>7 DEF Hands
<1>9. loop.at # "update"
  <2>1. PICK h : h = Cardinality(Hands)
    OBVIOUS
  <2>2. h \in Nat /\ h - 1 = 0 /\ inFlight = 0 + h
    BY <1>4, <1>5, <1>6, <2>1
  <2>3. ~(inFlight < MaxInFlight)
    BY <1>0, <2>2
  <2>4. QED
    BY <2>3 DEF IdleInv
<1>10. QED
  BY <1>0, <1>1, <1>2, <1>7, <1>8, <1>9 DEF BooksInv

(* Nobody but the scheduler makes an invocation.                           *)
LEMMA UnsentRest ==
  ASSUME BooksInv, UNCHANGED <<node, arg>>, tasks' \subseteq tasks \cup {Done}, NEW t \in Threads,
         NEW where, pc \in [Threads -> Places],
         pc' = pc \/ (pc' = [pc EXCEPT ![t] = where] /\ (where \in Running => pc[t] \in Running)),
         \A a \in completed' : Sent(a) => Sent(a)',
         \A a \in completed' : a \in completed \/ (pc[t] \in Running /\ a = arg[t])
  PROVE  \A a \in DOMAIN inputs : Unsent(a)' => Unsent(a)
<1>1. SUFFICES ASSUME NEW a \in DOMAIN inputs, Unsent(a)' PROVE Unsent(a)
  OBVIOUS
<1>2. a # Done /\ Threads' = Threads
  BY TimestampFacts DEF BooksInv, Threads, Streams, Workers
<1>3. CASE a \in tasks'
  BY <1>2, <1>3 DEF Unsent
<1>4. ASSUME NEW u \in Threads, pc'[u] \in Running, arg'[u] = a PROVE Unsent(a)
  <2>1. pc[u] \in Running
    BY <1>4
  <2>2. QED
    BY <1>4, <2>1 DEF Unsent
<1>5. CASE a \in completed' /\ ~Sent(a)'
  BY <1>5 DEF Unsent
<1>6. QED
  BY <1>1, <1>2, <1>3, <1>4, <1>5 DEF Unsent

(* A step that sends nothing.                                              *)
LEMMA OutRest ==
  ASSUME OutInv, UNCHANGED <<mirror, manager>>, prepared => prepared',
         \A b \in Int : Told(b) => Told(b)', DOMAIN inputs' = DOMAIN inputs,
         \A a \in DOMAIN inputs : Unsent(a)' => Unsent(a)
  PROVE  OutInv'
<1>1. SUFFICES ASSUME ~prepared' PROVE /\ Ascends(mirror) /\ ~mirror.closed /\ mirror.bound = manager.bound
                                       /\ manager \in [bound : Int, closed : BOOLEAN]
                                       /\ Told(mirror.bound)'
                                       /\ \A a \in DOMAIN inputs : Unsent(a)' => mirror.bound <= a
  BY DEF OutInv
<1>2. /\ Ascends(mirror) /\ ~mirror.closed /\ mirror.bound = manager.bound /\ Told(mirror.bound)
      /\ manager \in [bound : Int, closed : BOOLEAN]
      /\ \A a \in DOMAIN inputs : Unsent(a) => mirror.bound <= a
  BY <1>1 DEF OutInv
<1>3. mirror.bound \in Int
  BY <1>2, HeadIsEarliest
<1>4. Told(mirror.bound)'
  <2>1. PICK b : b = mirror.bound
    OBVIOUS
  <2>2. Told(b)'
    BY <1>2, <1>3, <2>1
  <2>3. b = mirror'.bound
    BY <2>1
  <2>4. QED
    BY <2>2, <2>3
<1>5. QED
  BY <1>2, <1>4

(* A step that leaves the propagation alone.                               *)
LEMMA BoundRest ==
  ASSUME NodeInv, BoundInv, UNCHANGED <<node, taskBound, prop, pr, manager, completed>>,
         loop'.at = "update" => loop.at = "update" /\ loop'.bound = loop.bound,
         \A b \in Int : Told(b) => Told(b)', \A b \in Int : Floor(b) => Floor(b)'
  PROVE  BoundInv'
<1>1. taskBound \in Int /\ pr.ts \in Int /\ loop.bound \in Int
  BY DEF NodeInv, PropInv, InputInv, NodeType, LoopType
<1>2. Parallel' = Parallel
  BY DEF Parallel, MaxInFlight
<1>3. Floor(taskBound)'
  <2>1. PICK b : b = taskBound
    OBVIOUS
  <2>2. Floor(b)' /\ b = taskBound'
    BY <1>1, <2>1 DEF BoundInv
  <2>3. QED
    BY <2>2
<1>4. loop'.at = "update" => Told(loop.bound)'
  <2>1. PICK b : b = loop.bound
    OBVIOUS
  <2>2. loop'.at = "update" => Told(b)' /\ b = loop'.bound
    BY <1>1, <2>1 DEF BoundInv
  <2>3. QED
    BY <2>2
<1>5. ~Parallel /\ prop' # "idle" => Told(pr.ts)'
  <2>1. PICK b : b = pr.ts
    OBVIOUS
  <2>2. ~Parallel /\ prop' # "idle" => Told(b)' /\ b = pr'.ts
    BY <1>1, <2>1 DEF BoundInv
  <2>3. QED
    BY <2>2
<1>6. QED
  BY <1>2, <1>3, <1>4, <1>5 DEF BoundInv

(* A step that leaves the outputs alone altogether.                        *)
LEMMA NoOutput ==
  ASSUME Ordinary, NodeInv, IdleInv, OrdInv, BoundInv, OutInv, Next, UNCHANGED node,
         UNCHANGED <<completed, taskBound, prop, pr, manager, mirror, arg>>,
         prepared => prepared', tasks' \subseteq tasks \cup {Done}, DOMAIN inputs' = DOMAIN inputs,
         loop'.at = "update" => loop.at = "update" /\ loop'.bound = loop.bound,
         NEW t \in Threads, NEW where,
         pc' = pc \/ (pc' = [pc EXCEPT ![t] = where] /\ (where \in Running => pc[t] \in Running))
  PROVE  BoundInv' /\ OutInv'
<1>1. /\ InputInv /\ RolesInv /\ BooksInv /\ pc \in [Threads -> Places]
  BY DEF NodeInv, InputInv, NodeType
<1>2. (\A b \in Int : Told(b) => Told(b)') /\ (\A b \in Int : Floor(b) => Floor(b)')
  BY <1>1, ToldStep, FloorStep
<1>3. BoundInv'
  BY <1>2, BoundRest
<1>4. \A a \in completed' : (Sent(a) => Sent(a)') /\ a \in completed
  BY DEF Sent
<1>5. \A a \in DOMAIN inputs : Unsent(a)' => Unsent(a)
  BY <1>1, <1>4, UnsentRest
<1>6. OutInv'
  BY <1>2, <1>5, OutRest
<1>7. QED
  BY <1>3, <1>6

(* What holds of the outputs before and after every step.                  *)
CheckInv == IdleInv /\ OrdInv /\ BoundInv /\ OutInv /\ failed = FALSE

(* The feeds.                                                              *)
LEMMA FeedsPass ==
  ASSUME Ordinary, NodeInv, CheckInv, Next, UNCHANGED node, NEW i \in Streams, FeedPacket(i) \/ FeedBound(i)
  PROVE  BoundInv' /\ OutInv' /\ failed' = FALSE
<1>1. /\ InputInv /\ i \in Threads
  BY DEF NodeInv, Threads
<1>2. /\ UNCHANGED <<completed, taskBound, prop, pr, manager, mirror, arg, prepared, tasks, loop, inputs>>
      /\ failed' = FALSE
  BY <1>1, FedFacts DEF CheckInv, schedVars, outputVars
<1>3. pc' = pc \/ pc' = [pc EXCEPT ![i] = "notify"]
  BY DEF FeedPacket, FeedBound, Fed, Goto
<1>4. "notify" \notin Running
  BY DEF Running
<1>5. IdleInv /\ OrdInv /\ BoundInv /\ OutInv
  BY DEF CheckInv
<1>6. QED
  BY <1>1, <1>2, <1>3, <1>4, <1>5, NoOutput

(* The steps of the scheduler and of the workers that send nothing.        *)
LEMMA OthersPass ==
  ASSUME Ordinary, NodeInv, CheckInv, Next, UNCHANGED node, NEW t \in Threads,
         \/ CheckIfBecameReady(t) \/ EnterLoop(t) \/ ReadStream(t) \/ LeaveLoop(t) \/ EndScheduling(t)
         \/ OpenNode(t) \/ ProcessNode(t) \/ Closed(t) \/ CloseInputStreams(t) \/ ScheduleClose(t)
  PROVE  BoundInv' /\ OutInv' /\ failed' = FALSE
<1>0. /\ InputInv /\ RolesInv /\ CountInv /\ CloseInv /\ inFlight \in Nat /\ failed = FALSE /\ loop \in LoopType
      /\ IdleInv /\ OrdInv /\ BoundInv /\ OutInv
  BY DEF NodeInv, CountInv, CheckInv, InputInv, NodeType
<1>1. /\ UNCHANGED <<completed, taskBound, prop, pr, manager, mirror, inputs>>
      /\ prepared => prepared'
      /\ tasks' \subseteq tasks \cup {Done}
      /\ arg' = arg
  BY DEF CheckIfBecameReady, EnterLoop, ReadStream, LeaveLoop, EndScheduling, OpenNode, ProcessNode,
         Closed, CloseInputStreams, ScheduleClose, inputVars, schedVars, outputVars
<1>2. \E where : pc' = pc \/ (pc' = [pc EXCEPT ![t] = where] /\ (where \in Running => pc[t] \in Running))
  BY DEF CheckIfBecameReady, EnterLoop, ReadStream, LeaveLoop, EndScheduling, OpenNode, ProcessNode,
         Closed, CloseInputStreams, ScheduleClose, Goto, Running
<1>3. loop'.at = "update" => loop.at = "update" /\ loop'.bound = loop.bound
  <2>1. CASE Quiet(t)
    BY <1>0, <2>1, QuietInputs
  <2>2. CASE ReadStream(t)
    BY <1>0, <2>2 DEF ReadStream, LoopType
  <2>3. CASE CloseInputStreams(t)
    BY <2>3 DEF CloseInputStreams, schedVars
  <2>4. CASE ScheduleClose(t)
    <3>1. loop' = Reading(0)
      BY <2>4 DEF ScheduleClose
    <3>2. QED
      BY <3>1, LoopForms
  <2>5. QED
    BY <2>1, <2>2, <2>3, <2>4 DEF Quiet
<1>4. BoundInv' /\ OutInv'
  BY <1>0, <1>1, <1>2, <1>3, NoOutput
<1>5. failed' = FALSE
  <2>1. CASE EndScheduling(t)
    <3>1. status # "closed" => inFlight > 0
      <4>1. pc[t] \in InHand
        BY <2>1 DEF EndScheduling, InHand
      <4>2. QED
        BY <1>0, <4>1, SomethingInFlight
    <3>2. QED
      BY <1>0, <2>1, <3>1 DEF EndScheduling, Check
  <2>2. CASE CloseInputStreams(t)
    <3>1. status # "closed"
      BY <1>0, <2>2 DEF CloseInputStreams, CloseInv, Closing
    <3>2. QED
      BY <1>0, <2>2, <3>1 DEF CloseInputStreams, Check
  <2>3. CASE ScheduleClose(t)
    <3>1. inFlight < MaxInFlight
      BY <1>0, <2>3, NodeFacts DEF ScheduleClose, In, CountInv, InputInv, NodeType, LoopType
    <3>2. QED
      BY <1>0, <2>3, <3>1 DEF ScheduleClose, Check
  <2>4. QED
    BY <1>0, <2>1, <2>2, <2>3
       DEF CheckIfBecameReady, EnterLoop, ReadStream, LeaveLoop, OpenNode, ProcessNode, Closed
<1>6. QED
  BY <1>4, <1>5

(* A round of the scheduler that finds nothing leaves a promise.           *)
LEMMA RoundPasses ==
  ASSUME Ordinary, NodeInv, CheckInv, Next, UNCHANGED node, NEW t \in Threads, NotReady(t)
  PROVE  BoundInv' /\ OutInv' /\ failed' = FALSE
<1>0. /\ InputInv /\ RolesInv /\ BooksInv /\ failed = FALSE /\ pc \in [Threads -> Places]
      /\ OrdInv /\ BoundInv /\ OutInv /\ pr.ts \in Int /\ taskBound \in Int
  BY DEF NodeInv, CheckInv, InputInv, NodeType, PropInv
<1>1. /\ UNCHANGED <<completed, taskBound, prop, pr, manager, mirror, inputs, prepared, tasks, arg, pc, failed>>
  BY DEF NotReady, inputVars, outputVars
<1>2. (\A b \in Int : Told(b) => Told(b)') /\ (\A b \in Int : Floor(b) => Floor(b)')
  BY <1>0, ToldStep, FloorStep
<1>3. Told(loop.bound)'
  BY <1>0, RoundIsTold
<1>4. \A a \in DOMAIN inputs : Unsent(a)' => Unsent(a)
  BY <1>1 DEF Unsent, Sent, Threads, Streams, Workers
<1>5. OutInv'
  BY <1>0, <1>1, <1>2, <1>4, OutRest
<1>6. Floor(taskBound)' /\ (~Parallel /\ prop' # "idle" => Told(pr.ts)')
  <2>1. PICK b, c : b = taskBound /\ c = pr.ts
    OBVIOUS
  <2>2. Floor(b)' /\ (~Parallel /\ prop' # "idle" => Told(c)') /\ b = taskBound' /\ c = pr'.ts
    BY <1>0, <1>1, <1>2, <2>1 DEF BoundInv
  <2>3. QED
    BY <2>2
<1>7. BoundInv'
  BY <1>0, <1>1, <1>3, <1>6 DEF BoundInv, Parallel, MaxInFlight
<1>8. QED
  BY <1>0, <1>1, <1>5, <1>7

(* A new invocation is at a time the output has not passed.                *)
LEMMA NewInvocationPasses ==
  ASSUME Ordinary, NodeInv, CheckInv, Next, UNCHANGED node, NEW t \in Threads, ScheduleProcess(t)
  PROVE  BoundInv' /\ OutInv' /\ failed' = FALSE
<1>0. /\ InputInv /\ RolesInv /\ BooksInv /\ CountInv /\ failed = FALSE /\ pc \in [Threads -> Places]
      /\ OrdInv /\ BoundInv /\ OutInv /\ loop \in LoopType /\ loop.bound <= Done /\ inFlight \in Nat
      /\ MaxInFlight \in Nat
  BY NodeFacts DEF NodeInv, CheckInv, InputInv, NodeType, CountInv
<1>1. PICK ts : ts = ReadyAt(loop.bound, loop.packet)
  OBVIOUS
<1> DEFINE popped == [i \in Streams |-> PopPacketAtTimestamp(strm[i], ts)]
<1>2. /\ loop' = Reading(loop.left - 1) /\ loop.at = "decide" /\ ~ReadyForClose /\ ts # Unset
      /\ tasks' = tasks \cup {ts}
      /\ UNCHANGED <<completed, taskBound, prop, pr, manager, mirror, prepared, pc, arg>>
      /\ failed' = (failed \/ ~( /\ inFlight < MaxInFlight /\ ts \notin active
                                 /\ \A i \in Streams : popped[i].ok /\ popped[i].dropped = 0 ))
  BY <1>1 DEF ScheduleProcess, In, Check
<1>3. /\ ts \in Int /\ lastTs < ts /\ ~prepared /\ \A a \in DOMAIN inputs : a \in Int /\ a < ts
      /\ DOMAIN inputs' = DOMAIN inputs \cup {ts}
  BY <1>0, <1>1, ReadyIsNew
<1>4. IsRangeValue(ts) /\ ~Floor(OneOverPostStream)
  BY <1>0, <1>1, <1>2, ReadyIsOrdinary
<1>5. (\A b \in Int : Told(b) => Told(b)') /\ (\A b \in Int : Floor(b) => Floor(b)')
  BY <1>0, ToldStep, FloorStep
<1>6. failed' = FALSE
  <2>1. inFlight < MaxInFlight
    BY <1>0, <1>2 DEF CountInv, LoopType
  <2>2. ts \notin active
    BY <1>0, <1>3 DEF BooksInv
  <2>3. ASSUME NEW i \in Streams PROVE popped[i].ok /\ popped[i].dropped = 0
    <3>1. PICK r : r = PopPacketAtTimestamp(strm[i], ts)
      OBVIOUS
    <3>2. r.ok = (strm[i].selected <= ts) /\ r.dropped = 0
      <4>1. /\ loop.at = "decide" /\ ~ReadyForClose /\ ts = ReadyAt(loop.bound, loop.packet) /\ ts # Unset
            /\ r = PopPacketAtTimestamp(strm[i], ts)
        BY <1>1, <1>2, <3>1
      <4>2. QED
        BY <1>0, <4>1, TakenInputs
    <3>3. strm[i].selected \in Int /\ lastTs \in Int
      BY <1>0, HeadIsEarliest DEF InputInv, NodeType
    <3>4. strm[i].selected <= lastTs \/ strm[i].selected = Unstarted
      BY <1>0, <1>4 DEF OrdInv
    <3>5. strm[i].selected <= ts
      BY <1>3, <1>4, <3>3, <3>4, TimeLine DEF IsRangeValue
    <3>6. popped[i] = r
      BY <3>1
    <3>7. QED
      BY <3>2, <3>5, <3>6
  <2> HIDE DEF popped
  <2>4. QED
    BY <1>0, <1>2, <2>1, <2>2, <2>3
<1>7. loop'.at # "update"
  BY <1>2, LoopForms
<1>8. BoundInv'
  BY <1>2, <1>5, <1>7, <1>0, BoundRest
<1>9. ASSUME ~prepared' PROVE /\ Ascends(mirror) /\ ~mirror.closed /\ mirror.bound = manager.bound
                              /\ manager \in [bound : Int, closed : BOOLEAN]
                              /\ Told(mirror.bound)'
                              /\ \A a \in DOMAIN inputs' : Unsent(a)' => mirror.bound <= a
  <2>1. /\ Ascends(mirror) /\ ~mirror.closed /\ mirror.bound = manager.bound /\ Told(mirror.bound)
        /\ manager \in [bound : Int, closed : BOOLEAN]
        /\ \A a \in DOMAIN inputs : Unsent(a) => mirror.bound <= a
    BY <1>0, <1>3 DEF OutInv
  <2>2. PICK b : b = mirror.bound
    OBVIOUS
  <2>3. b \in Int /\ Told(b) /\ Told(b)' /\ b = mirror'.bound
    BY <1>2, <1>5, <2>1, <2>2, HeadIsEarliest
  <2>4. Told(mirror.bound)'
    BY <2>3
  <2>5. b <= ts
    <3>1. CASE ProcessTimestampBounds
      BY <1>3, <1>4, <2>3, <3>1, TimeLine DEF Told, IsRangeValue
    <3>2. CASE ~ProcessTimestampBounds
      <4>1. ts = loop.packet
        BY <1>1, <1>2, <3>2 DEF ReadyAt
      <4>2. QED
        BY <2>3, <4>1 DEF Told, Floor
    <3>3. QED
      BY <3>1, <3>2
  <2>6. \A a \in DOMAIN inputs : Unsent(a)' => Unsent(a)
    <3>1. \A a \in DOMAIN inputs : a # ts
      BY <1>3
    <3>2. QED
      BY <1>2, <3>1 DEF Unsent, Sent, Threads, Streams, Workers
  <2>7. ASSUME NEW a \in DOMAIN inputs', Unsent(a)' PROVE mirror.bound <= a
    <3>1. CASE a \in DOMAIN inputs
      BY <2>1, <2>6, <2>7, <3>1
    <3>2. CASE a = ts
      BY <2>2, <2>5, <3>2
    <3>3. QED
      BY <1>3, <3>1, <3>2
  <2>8. QED
    BY <2>1, <2>4, <2>7
<1>10. OutInv'
  BY <1>2, <1>9 DEF OutInv
<1>11. QED
  BY <1>6, <1>8, <1>10

(* Taking an invocation from the queue.                                    *)
LEMMA TaskPasses ==
  ASSUME Ordinary, NodeInv, CheckInv, Next, UNCHANGED node, NEW t \in Threads, RunNextTask(t)
  PROVE  BoundInv' /\ OutInv' /\ failed' = FALSE
<1>0. /\ InputInv /\ RolesInv /\ BooksInv /\ CloseInv /\ failed = FALSE /\ pc \in [Threads -> Places]
      /\ OrdInv /\ BoundInv /\ OutInv /\ Threads' = Threads
  BY DEF NodeInv, CheckInv, InputInv, NodeType, Threads, Streams, Workers
<1>1. PICK ts \in tasks :
        /\ pc[t] = "idle" /\ tasks' = tasks \ {ts} /\ arg' = [arg EXCEPT ![t] = ts]
        /\ Goto(t, IF ts = Done THEN "close" ELSE "process")
        /\ failed' = (failed \/ ~(status # "closed"))
        /\ UNCHANGED <<completed, taskBound, prop, pr, manager, mirror, prepared, loop, inputs>>
  BY DEF RunNextTask, inputVars, outputVars, Check
<1>2. (\A b \in Int : Told(b) => Told(b)') /\ (\A b \in Int : Floor(b) => Floor(b)')
  BY <1>0, ToldStep, FloorStep
<1>3. BoundInv'
  BY <1>0, <1>1, <1>2, BoundRest
<1>4. ASSUME NEW a \in DOMAIN inputs, Unsent(a)' PROVE Unsent(a)
  <2>1. CASE a \in tasks'
    BY <1>1, <2>1 DEF Unsent
  <2>2. ASSUME NEW u \in Threads, pc'[u] \in Running, arg'[u] = a PROVE Unsent(a)
    <3>1. CASE u = t
      BY <1>0, <1>1, <2>2, <3>1 DEF Unsent, BooksInv
    <3>2. CASE u # t
      BY <1>0, <1>1, <2>2, <3>2 DEF Unsent, Goto, BooksInv
    <3>3. QED
      BY <3>1, <3>2
  <2>3. CASE a \in completed' /\ ~Sent(a)'
    BY <1>1, <2>3 DEF Unsent, Sent
  <2>4. QED
    BY <1>0, <1>4, <2>1, <2>2, <2>3 DEF Unsent
<1>5. OutInv'
  BY <1>0, <1>1, <1>2, <1>4, OutRest
<1>6. failed' = FALSE
  BY <1>0, <1>1 DEF CloseInv
<1>7. QED
  BY <1>3, <1>5, <1>6

(* A step of the propagator.                                               *)
LEMMA BoundGoesOn ==
  ASSUME NodeInv, BoundInv, UNCHANGED <<node, taskBound>>,
         loop' = loop \/ loop'.at = "leave",
         \A b \in Int : Told(b) => Told(b)', \A b \in Int : Floor(b) => Floor(b)',
         ~Parallel => (prop' # "idle" => prop # "idle" /\ pr'.ts = pr.ts),
         prop' \in {"bound", "pending"} /\ pr'.at = "send" =>
            ~Parallel /\ IsRangeValue(pr'.ts) /\ pr'.ts > manager'.bound,
         Parallel /\ prop' \in {"bound", "pending"} => pr'.ts <= taskBound,
         prop' = "pending" => pr'.ts < taskBound \/ completed' # {}
  PROVE  BoundInv'
<1>1. taskBound \in Int /\ pr.ts \in Int /\ loop.bound \in Int
  BY DEF NodeInv, PropInv, InputInv, NodeType, LoopType
<1>2. Parallel' = Parallel
  BY DEF Parallel, MaxInFlight
<1>3. Floor(taskBound)'
  <2>1. PICK b : b = taskBound
    OBVIOUS
  <2>2. Floor(b)' /\ b = taskBound'
    BY <1>1, <2>1 DEF BoundInv
  <2>3. QED
    BY <2>2
<1>4. loop'.at = "update" => Told(loop.bound)'
  <2>1. PICK b : b = loop.bound
    OBVIOUS
  <2>2. loop'.at = "update" => Told(b)' /\ b = loop'.bound
    BY <1>1, <2>1 DEF BoundInv
  <2>3. QED
    BY <2>2
<1>5. ~Parallel /\ prop' # "idle" => Told(pr.ts)'
  <2>1. PICK b : b = pr.ts
    OBVIOUS
  <2>2. ~Parallel /\ prop' # "idle" => Told(b)' /\ b = pr'.ts
    BY <1>1, <2>1 DEF BoundInv
  <2>3. QED
    BY <2>2
<1>6. QED
  BY <1>2, <1>3, <1>4, <1>5 DEF BoundInv

(* The bound that an invocation at an ordinary time gives to the output.   *)
LEMMA OutputBound ==
  ASSUME NEW a \in Int, IsRangeValue(a), NEW shard, NEW offset,
         NEW b, b = ComputeOutputTimestampBound(shard, a, offset)
  PROVE  /\ shard.adds => b = NextAllowedInStream(a)
         /\ ~shard.adds => b \in {Unset, a + 1, NextAllowedInStream(a)}
<1> DEFINE next == NextAllowedInStream(a)
           written == IF shard.adds THEN next ELSE Unset
           shardBound == IF shard.adds THEN written ELSE shard.next
           inputBound == IF ~offset THEN Unset
                         ELSE IF a = PreStream THEN MinTimestamp
                         ELSE IF a = MaxTimestamp THEN PostStream
                         ELSE IF a = PostStream THEN OneOverPostStream
                         ELSE next
<1>1. b = Later(written, IF inputBound > shardBound THEN inputBound ELSE Unset)
  BY DEF ComputeOutputTimestampBound
<1>2. next \in Int /\ a + 1 <= next /\ Unset < next /\ Unset < a + 1
  BY TimeLine DEF IsRangeValue, NextAllowedInStream
<1>3. inputBound = Unset \/ inputBound = next \/ inputBound = a + 1
  BY TimeLine DEF IsRangeValue
<1> HIDE DEF next, inputBound
<1>4. CASE shard.adds
  <2>1. written = next /\ shardBound = next
    BY <1>4
  <2>2. ~(inputBound > next)
    BY <1>2, <1>3, TimeLine
  <2>3. QED
    BY <1>1, <1>2, <1>4, <2>1, <2>2, TimeLine DEF Later, next
<1>5. CASE ~shard.adds
  <2>1. written = Unset
    BY <1>5
  <2> DEFINE x == IF inputBound > shardBound THEN inputBound ELSE Unset
  <2>2. x \in {Unset, next, a + 1}
    BY <1>3
  <2> HIDE DEF x, written, shardBound
  <2>3. b = Later(Unset, x)
    BY <1>1, <2>1 DEF x
  <2>4. b \in {Unset, next, a + 1}
    BY <2>2, <2>3 DEF Later
  <2>5. QED
    BY <1>5, <2>4 DEF next
<1>6. QED
  BY <1>4, <1>5

(* What an invocation leaves in its shard is sent behind everything sent   *)
(* before, and before everything still to come.                            *)
LEMMA ShardPasses ==
  ASSUME InputInv, OrdInv, OutInv, ~prepared, failed = FALSE, NEW a \in DOMAIN inputs, Unsent(a), SendShard(a),
         \A b \in Int : Told(b) => Told(b)'
  PROVE  /\ failed' = FALSE /\ Ascends(mirror') /\ ~mirror'.closed /\ mirror'.bound = manager'.bound
         /\ manager' \in [bound : Int, closed : BOOLEAN]
         /\ Told(mirror.bound)'
         /\ mirror'.bound \in {mirror.bound, a + 1, NextAllowedInStream(a)}
<1>1. /\ Ascends(mirror) /\ ~mirror.closed /\ mirror.bound = manager.bound /\ Told(mirror.bound)
      /\ manager \in [bound : Int, closed : BOOLEAN]
      /\ mirror.bound <= a /\ mirror.bound \in Int
  BY HeadIsEarliest DEF OutInv
<1>2. /\ a \in Int /\ IsRangeValue(a) /\ Told(a + 1) /\ Told(NextAllowedInStream(a))
      /\ a + 1 \in Timestamps /\ NextAllowedInStream(a) \in Timestamps /\ a < NextAllowedInStream(a)
      /\ Unset \in Timestamps /\ a \in Timestamps /\ Timestamps \subseteq Int
  BY ToldBehind, TimeLine DEF Timestamps, IsRangeValue
<1>3. PICK b, packets, r :
        /\ b = ComputeOutputTimestampBound(shards[a], a, OffsetEnabled)
        /\ packets = IF shards[a].adds THEN <<a>> ELSE << >>
        /\ r = Mirrored(mirror, b, packets)
  OBVIOUS
<1>4. /\ manager' = Propagated(manager, b) /\ mirror' = r.stream /\ failed' = (failed \/ ~r.ok)
  BY <1>3 DEF SendShard, Sends, Check
<1>5. /\ shards[a].adds => b = NextAllowedInStream(a) /\ packets = <<a>>
      /\ ~shards[a].adds => b \in {Unset, a + 1, NextAllowedInStream(a)} /\ packets = << >>
  <2>1. /\ shards[a].adds => b = NextAllowedInStream(a)
        /\ ~shards[a].adds => b \in {Unset, a + 1, NextAllowedInStream(a)}
    BY <1>2, <1>3, OutputBound
  <2>2. QED
    BY <1>3, <2>1
<1>6. b \in Timestamps /\ b \in {Unset, a + 1, NextAllowedInStream(a)} /\ (b = Unset \/ mirror.bound <= b)
  BY <1>1, <1>2, <1>5
<1>7. /\ r.ok /\ Ascends(r.stream) /\ ~r.stream.closed
      /\ r.stream.bound = IF b = Unset THEN mirror.bound ELSE b
  <2>1. \/ \E c \in Timestamps : /\ packets = <<c>> /\ IsRangeValue(c) /\ mirror.bound <= c
                                 /\ b = NextAllowedInStream(c)
        \/ packets = << >> /\ (b = Unset \/ mirror.bound <= b)
    BY <1>1, <1>2, <1>5, <1>6
  <2>2. QED
    BY <1>1, <1>3, <1>6, <2>1, MirrorTakes
<1>8. mirror'.bound = manager'.bound /\ manager' \in [bound : Int, closed : BOOLEAN]
  <2>1. CASE b = Unset
    BY <1>1, <1>4, <1>7, <2>1 DEF Propagated
  <2>2. CASE b # Unset
    <3>1. manager' = [manager EXCEPT !.bound = b] /\ mirror'.bound = b
      BY <1>4, <1>7, <2>2 DEF Propagated
    <3>2. b \in Int
      BY <1>2, <1>6
    <3>3. QED
      BY <1>1, <3>1, <3>2
  <2>3. QED
    BY <2>1, <2>2
<1>9. PICK c : c = mirror'.bound
  OBVIOUS
<1>10. c \in {mirror.bound, a + 1, NextAllowedInStream(a)} /\ Told(c) /\ c \in Int
  BY <1>1, <1>2, <1>4, <1>6, <1>7, <1>9
<1>11. Told(c)'
  BY <1>10
<1>12. Told(mirror.bound)'
  BY <1>9, <1>11
<1>13. QED
  BY <1>4, <1>7, <1>8, <1>9, <1>10, <1>12

(* Coming to the propagation with something new.                           *)
LEMMA EnterPasses ==
  ASSUME NodeInv, BoundInv, failed = FALSE, UNCHANGED active, Parallel, NEW t \in Threads,
         NEW bound \in Int, EnterPropagation(t, completed', bound), taskBound' = bound, taskBound <= bound,
         taskBound < bound \/ completed' # {},
         completed \subseteq completed', completed' \subseteq DOMAIN inputs,
         prop # "packets" => completed' \subseteq active
  PROVE  /\ failed' = FALSE
         /\ prop' \in {"bound", "pending"} => pr'.at # "send" /\ pr'.ts <= taskBound'
         /\ prop' = "pending" => pr'.ts < taskBound' \/ completed' # {}
         /\ \A a \in completed' : Sent(a) => Sent(a)'
         /\ loop' = loop \/ loop'.at = "leave"
<1>0. /\ InputInv /\ BooksInv /\ PropInv /\ taskBound \in Int /\ pr.ts \in Int /\ active \subseteq DOMAIN inputs
  BY DEF NodeInv, PropInv, BooksInv
<1>1. loop \in LoopType
  BY <1>0 DEF InputInv, NodeType
<1>2. CASE prop # "idle"
  <2>1. /\ prop' = IF prop = "bound" THEN "pending" ELSE prop
        /\ Return(t) /\ UNCHANGED <<pr, failed>>
    BY <1>2 DEF EnterPropagation
  <2>2. loop' = loop \/ loop'.at = "leave"
    BY <1>1, <2>1 DEF Return, LoopType
  <2>3. prop \in {"bound", "pending"} => pr.at # "send" /\ pr.ts <= taskBound
    BY DEF BoundInv
  <2>4. prop' \in {"bound", "pending"} => prop \in {"bound", "pending"}
    BY <1>0, <2>1 DEF PropInv
  <2>5. \A a \in completed' : Sent(a) => Sent(a)'
    BY <2>1 DEF Sent
  <2>6. prop' \in {"bound", "pending"} => pr'.at # "send" /\ pr'.ts <= taskBound'
    BY <1>0, <2>1, <2>3, <2>4
  <2>7. prop' = "pending" => pr'.ts < taskBound' \/ completed' # {}
    <3>1. CASE completed' # {}
      BY <3>1
    <3>2. CASE taskBound < bound
      BY <1>0, <2>1, <2>3, <2>4, <3>2
    <3>3. QED
      BY <3>1, <3>2
  <2>8. QED
    BY <2>1, <2>2, <2>5, <2>6, <2>7
<1>3. CASE prop = "idle" /\ active = {}
  <2>1. prop' = "bound" /\ pr' = [at |-> "test", ts |-> bound] /\ UNCHANGED <<loop, failed>>
    BY <1>3 DEF EnterPropagation
  <2>2. QED
    BY <1>3, <2>1 DEF Sent
<1>4. CASE prop = "idle" /\ active # {} /\ completed' # {} /\ Earliest(completed') = Earliest(active)
  <2>1. prop' = "packets" /\ UNCHANGED <<loop, failed>>
    BY <1>4 DEF EnterPropagation
  <2>2. QED
    BY <1>4, <2>1 DEF Sent
<1>5. CASE prop = "idle" /\ active # {} /\ ~(completed' # {} /\ Earliest(completed') = Earliest(active))
  <2>1. /\ failed' = (failed \/ ~(completed' = {} \/ Earliest(active) < Earliest(completed')))
        /\ Return(t) /\ UNCHANGED <<prop, pr>>
    BY <1>5 DEF EnterPropagation, Check
  <2>2. loop' = loop \/ loop'.at = "leave"
    BY <1>1, <2>1 DEF Return, LoopType
  <2>3. ASSUME completed' # {} PROVE Earliest(active) < Earliest(completed')
    <3>1. /\ Earliest(completed') \in completed' /\ Earliest(completed') \in Int
          /\ Earliest(active) \in Int /\ \A u \in active : Earliest(active) <= u
      BY <1>0, <1>5, <2>3, EarliestFacts
    <3>2. Earliest(active) <= Earliest(completed')
      BY <1>5, <3>1
    <3>3. QED
      BY <1>5, <2>3, <3>1, <3>2
  <2>4. QED
    BY <1>5, <2>1, <2>2, <2>3 DEF Sent
<1>6. QED
  BY <1>2, <1>3, <1>4, <1>5

(* The scheduler tells the bound of the inputs.                            *)
LEMMA UpdatePasses ==
  ASSUME Ordinary, NodeInv, CheckInv, Next, UNCHANGED node, NEW t \in Threads, UpdateTaskTimestampBound(t)
  PROVE  BoundInv' /\ OutInv' /\ failed' = FALSE
<1>0. /\ InputInv /\ RolesInv /\ BooksInv /\ PropInv /\ failed = FALSE /\ pc \in [Threads -> Places]
      /\ OrdInv /\ BoundInv /\ OutInv /\ pr.ts \in Int /\ taskBound \in Int /\ loop.bound \in Int
      /\ Parallel' = Parallel /\ completed \subseteq DOMAIN inputs
  BY DEF NodeInv, CheckInv, InputInv, NodeType, PropInv, LoopType, Parallel, MaxInFlight, BooksInv
<1>1. /\ pc[t] = "loop" /\ loop.at = "update"
      /\ UNCHANGED <<inputs, prepared, tasks, completed, manager, mirror, active, arg>>
  BY DEF UpdateTaskTimestampBound, In, inputVars
<1>2. Told(loop.bound)
  BY <1>0, <1>1 DEF BoundInv
<1>3. (\A b \in Int : Told(b) => Told(b)') /\ (\A b \in Int : Floor(b) => Floor(b)')
  BY <1>0, ToldStep, FloorStep
<1>4. ASSUME \A a \in completed' : Sent(a) => Sent(a)' PROVE OutInv'
  <2>1. \E where : pc' = pc \/ (pc' = [pc EXCEPT ![t] = where] /\ (where \in Running => pc[t] \in Running))
    BY <1>0, PropagationMoves DEF Running
  <2>2. \A a \in DOMAIN inputs : Unsent(a)' => Unsent(a)
    BY <1>0, <1>1, <1>4, <2>1, UnsentRest
  <2>3. QED
    BY <1>0, <1>1, <1>3, <2>2, OutRest
<1>5. CASE ~Parallel
  <2>1. /\ prop' = "bound" /\ pr' = [at |-> "test", ts |-> loop.bound] /\ UNCHANGED <<loop, taskBound, failed>>
    BY <1>5 DEF UpdateTaskTimestampBound
  <2>2. prop # "packets"
    BY <1>0, <1>5 DEF PropInv
  <2>3. OutInv'
    BY <1>4, <2>2 DEF Sent
  <2>4. Floor(taskBound)' /\ Told(pr.ts)' /\ Told(loop.bound)'
    <3>1. PICK b, c : b = taskBound /\ c = loop.bound
      OBVIOUS
    <3>2. Floor(b)' /\ Told(c)' /\ b = taskBound' /\ c = loop'.bound /\ c = pr'.ts
      BY <1>0, <1>2, <1>3, <2>1, <3>1 DEF BoundInv
    <3>3. QED
      BY <3>2
  <2>5. BoundInv'
    BY <1>0, <1>5, <2>1, <2>4 DEF BoundInv
  <2>6. QED
    BY <1>0, <2>1, <2>3, <2>5
<1>6. CASE Parallel /\ taskBound = loop.bound
  <2>1. Return(t) /\ UNCHANGED <<prop, pr, taskBound, failed>>
    BY <1>6 DEF UpdateTaskTimestampBound
  <2>2. OutInv'
    BY <1>4, <2>1 DEF Sent
  <2>3. loop' = loop \/ loop'.at = "leave"
    BY <1>0, PropagationMoves
  <2>4. BoundInv'
    BY <1>0, <1>1, <1>3, <2>1, <2>3, BoundRest
  <2>5. QED
    BY <1>0, <2>1, <2>2, <2>4
<1>7. CASE Parallel /\ taskBound # loop.bound
  <2>1. taskBound < loop.bound
    BY <1>0, <1>7 DEF BoundInv, Floor
  <2>2. taskBound' = loop.bound /\ EnterPropagation(t, completed', loop.bound)
    BY <1>0, <1>1, <1>7, <2>1 DEF UpdateTaskTimestampBound
  <2>3. prop # "packets" => completed' \subseteq active
    BY <1>0, <1>1, <1>7 DEF BooksInv, Recycled
  <2>4. /\ failed' = FALSE
        /\ prop' \in {"bound", "pending"} => pr'.at # "send" /\ pr'.ts <= taskBound'
        /\ prop' = "pending" => pr'.ts < taskBound' \/ completed' # {}
        /\ \A a \in completed' : Sent(a) => Sent(a)'
        /\ loop' = loop \/ loop'.at = "leave"
    <3>1. PICK b : b = loop.bound
      OBVIOUS
    <3>2. /\ NodeInv /\ BoundInv /\ failed = FALSE /\ active' = active /\ Parallel /\ b \in Int
          /\ EnterPropagation(t, completed', b) /\ taskBound' = b /\ taskBound < b /\ taskBound <= b
          /\ completed \subseteq completed' /\ completed' \subseteq DOMAIN inputs
          /\ prop # "packets" => completed' \subseteq active
      BY <1>0, <1>1, <1>7, <2>1, <2>2, <2>3, <3>1
    <3>3. QED
      BY <3>2, EnterPasses
  <2>5. OutInv'
    BY <1>4, <2>4
  <2>6. Floor(taskBound)' /\ (loop'.at = "update" => Told(loop.bound)')
    <3>1. PICK c : c = loop.bound
      OBVIOUS
    <3>2. Told(c)' /\ Floor(c)' /\ c = taskBound' /\ (loop'.at = "update" => c = loop'.bound)
      BY <1>0, <1>2, <1>3, <2>2, <2>4, <3>1 DEF Told
    <3>3. QED
      BY <3>2
  <2>7. BoundInv'
    BY <1>0, <1>7, <2>4, <2>6 DEF BoundInv
  <2>8. QED
    BY <2>4, <2>5, <2>7
<1>8. QED
  BY <1>5, <1>6, <1>7

(* The results of one invocation leave, before those of all others still   *)
(* to come.                                                                *)
LEMMA SentOn ==
  ASSUME InputInv, OrdInv, OutInv, ~prepared, failed = FALSE, UNCHANGED <<prepared, inputs, node>>,
         NEW a \in DOMAIN inputs, Unsent(a), SendShard(a), \A b \in Int : Told(b) => Told(b)',
         \A c \in DOMAIN inputs : Unsent(c)' => Unsent(c) /\ a < c
  PROVE  OutInv' /\ failed' = FALSE
<1>1. /\ failed' = FALSE /\ Ascends(mirror') /\ ~mirror'.closed /\ mirror'.bound = manager'.bound
      /\ manager' \in [bound : Int, closed : BOOLEAN]
      /\ Told(mirror.bound)'
      /\ mirror'.bound \in {mirror.bound, a + 1, NextAllowedInStream(a)}
  BY ShardPasses
<1>2. ASSUME NEW c \in DOMAIN inputs', Unsent(c)' PROVE mirror'.bound <= c
  <2>1. c \in DOMAIN inputs /\ Unsent(c) /\ a < c
    BY <1>2
  <2>2. a \in Int /\ c \in Int /\ IsRangeValue(c)
    BY <2>1, ToldBehind
  <2>3. NextAllowedInStream(a) <= c
    BY <2>1, <2>2, ToldBehind
  <2>4. mirror.bound <= c
    BY <2>1 DEF OutInv
  <2>5. QED
    BY <1>1, <2>1, <2>2, <2>3, <2>4
<1>3. QED
  BY <1>1, <1>2 DEF OutInv

(* The propagator sends what the earliest invocation has left.             *)
LEMMA PacketsPass ==
  ASSUME Ordinary, NodeInv, CheckInv, Next, UNCHANGED node, NEW t \in Threads, PropagatePackets(t)
  PROVE  BoundInv' /\ OutInv' /\ failed' = FALSE
<1>0. /\ InputInv /\ RolesInv /\ BooksInv /\ PropInv /\ failed = FALSE
      /\ OrdInv /\ BoundInv /\ OutInv /\ Threads' = Threads
      /\ \A a \in DOMAIN inputs : a \in Int
  BY DEF NodeInv, CheckInv, Threads, Streams, Workers, BooksInv
<1>1. /\ prop = "packets" /\ pr.at = "send" /\ SendShard(pr.ts) /\ pr' = [pr EXCEPT !.at = "recycle"]
      /\ UNCHANGED <<inputs, prepared, loop, tasks, completed, taskBound, prop, active, pc, arg>>
  BY DEF PropagatePackets, Prop, inputVars, schedVars
<1>2. /\ pr.ts \in completed /\ Parallel /\ pr.ts \in DOMAIN inputs /\ pr'.at = "recycle" /\ pr'.ts = pr.ts
      /\ \A a \in active \cup completed : pr.ts <= a
  BY <1>0, <1>1 DEF PropInv, BooksInv
<1>3. pr.ts \in active /\ Unsent(pr.ts)
  BY <1>1, <1>2, <1>0 DEF BooksInv, Recycled, Unsent, Sent
<1>4. ~prepared
  BY <1>3 DEF CheckInv, IdleInv
<1>5. (\A b \in Int : Told(b) => Told(b)') /\ (\A b \in Int : Floor(b) => Floor(b)')
  BY <1>0, ToldStep, FloorStep
<1>6. ASSUME NEW c \in DOMAIN inputs, Unsent(c)' PROVE Unsent(c) /\ pr.ts < c
  <2>1. Sent(c)' <=> c = pr.ts
    BY <1>1, <1>2 DEF Sent
  <2>2. \/ c \in tasks
        \/ \E u \in Threads : pc[u] \in Running /\ arg[u] = c
        \/ c \in completed /\ c # pr.ts
    BY <1>0, <1>1, <1>6, <2>1 DEF Unsent
  <2>3. c # pr.ts
    BY <1>0, <1>2, <2>2 DEF BooksInv
  <2>4. c \in active
    BY <1>0, <1>1, <1>2, <2>2 DEF BooksInv, Recycled
  <2>5. Unsent(c)
    BY <1>1, <2>2 DEF Unsent, Sent
  <2>6. QED
    BY <1>0, <1>2, <2>3, <2>4, <2>5
<1>7. OutInv' /\ failed' = FALSE
  <2>1. PICK a : a = pr.ts
    OBVIOUS
  <2>2. /\ a \in DOMAIN inputs /\ Unsent(a) /\ SendShard(a)
        /\ \A c \in DOMAIN inputs : Unsent(c)' => Unsent(c) /\ a < c
    BY <1>1, <1>2, <1>3, <1>6, <2>1
  <2>3. QED
    BY <1>0, <1>1, <1>4, <1>5, <2>2, SentOn
<1>8. BoundInv'
  BY <1>0, <1>1, <1>2, <1>5, BoundGoesOn
<1>9. QED
  BY <1>7, <1>8

(* The propagator goes on without sending.                                 *)
LEMMA PropagatorRests ==
  ASSUME NodeInv, CheckInv, Next, UNCHANGED node, NEW t \in Threads, Propagate(t), UNCHANGED <<manager, mirror>>,
         completed' \subseteq completed, \A a \in completed' : Sent(a) => Sent(a)'
  PROVE  OutInv'
<1>1. /\ InputInv /\ RolesInv /\ BooksInv /\ OrdInv /\ OutInv /\ pc \in [Threads -> Places]
  BY DEF NodeInv, CheckInv, InputInv, NodeType
<1>2. UNCHANGED <<tasks, inputs, prepared, arg>>
  BY <1>1, PropagationMoves
<1>3. \E where : pc' = pc \/ (pc' = [pc EXCEPT ![t] = where] /\ (where \in Running => pc[t] \in Running))
  BY <1>1, PropagationMoves DEF Running
<1>4. \A a \in DOMAIN inputs : Unsent(a)' => Unsent(a)
  BY <1>1, <1>2, <1>3, UnsentRest
<1>5. \A b \in Int : Told(b) => Told(b)'
  BY <1>1, ToldStep
<1>6. QED
  BY <1>1, <1>2, <1>4, <1>5, OutRest

(* The context of what was sent is given back; a bound is tested.          *)
LEMMA RecyclePasses ==
  ASSUME Ordinary, NodeInv, CheckInv, Next, UNCHANGED node, NEW t \in Threads, RecycleContext(t) \/ TestBound(t)
  PROVE  BoundInv' /\ OutInv' /\ failed' = FALSE
<1>0. /\ InputInv /\ RolesInv /\ PropInv /\ failed = FALSE /\ OrdInv /\ BoundInv
      /\ pr \in [at : {"none", "test", "send", "recycle", "relock"}, ts : Int]
  BY DEF NodeInv, CheckInv, PropInv
<1>1. /\ UNCHANGED <<completed, taskBound, prop, manager, mirror, loop, failed>> /\ Propagate(t)
      /\ prop # "idle" /\ pr.at # "send" /\ pr.at # "relock" /\ pr'.ts = pr.ts
  BY <1>0 DEF RecycleContext, TestBound, Prop, schedVars, Propagate
<1>2. (\A b \in Int : Told(b) => Told(b)') /\ (\A b \in Int : Floor(b) => Floor(b)')
  BY <1>0, ToldStep, FloorStep
<1>3. \A a \in completed' : Sent(a) => Sent(a)'
  BY <1>0, <1>1 DEF Sent, RecycleContext, TestBound, Prop
<1>4. OutInv'
  BY <1>1, <1>3, PropagatorRests
<1>5. prop' \in {"bound", "pending"} /\ pr'.at = "send" =>
         ~Parallel /\ IsRangeValue(pr'.ts) /\ pr'.ts > manager'.bound
  <2>1. SUFFICES ASSUME prop \in {"bound", "pending"}, pr'.at = "send"
                 PROVE  ~Parallel /\ IsRangeValue(pr.ts) /\ pr.ts > manager.bound
    BY <1>1
  <2>2. TestBound(t)
    BY <2>1 DEF RecycleContext, Prop
  <2>3. OffsetEnabled /\ IsRangeValue(pr.ts) /\ pr.ts > manager.bound
    BY <1>0, <2>1, <2>2 DEF TestBound
  <2>4. node \in Nodes
    BY <1>0 DEF InputInv, NodeType
  <2>5. ~Parallel
    BY <2>3, <2>4 DEF Ordinary, OffsetEnabled, Parallel, MaxInFlight
  <2>6. QED
    BY <2>3, <2>5
<1>6. BoundInv'
  BY <1>0, <1>1, <1>2, <1>5, BoundGoesOn DEF BoundInv
<1>7. QED
  BY <1>0, <1>1, <1>4, <1>6

(* What was sent is taken off the list.                                    *)
LEMMA AfterPacketsPasses ==
  ASSUME Ordinary, NodeInv, CheckInv, Next, UNCHANGED node, NEW t \in Threads, AfterPackets(t)
  PROVE  BoundInv' /\ OutInv' /\ failed' = FALSE
<1>0. /\ InputInv /\ RolesInv /\ PropInv /\ BooksInv /\ failed = FALSE /\ OrdInv /\ BoundInv /\ OutInv
      /\ pr \in [at : {"none", "test", "send", "recycle", "relock"}, ts : Int] /\ taskBound \in Int
      /\ completed \subseteq DOMAIN inputs /\ pc \in [Threads -> Places]
  BY DEF NodeInv, CheckInv, PropInv, BooksInv, InputInv, NodeType
<1> DEFINE done == completed \ {Earliest(completed)}
<1>1. /\ prop = "packets" /\ pr.at = "relock" /\ completed' = done
      /\ UNCHANGED <<taskBound, manager, mirror>> /\ Propagate(t)
      /\ failed' = (failed \/ ~(active # {} \/ done = {}))
  BY DEF AfterPackets, Prop, Propagate, Check
<1>2. /\ Parallel /\ pr.ts \in completed /\ pr.ts \in DOMAIN inputs
      /\ \A a \in completed : pr.ts <= a
  BY <1>0, <1>1 DEF PropInv
<1>3. Earliest(completed) = pr.ts
  BY <1>0, <1>2, EarliestFacts
<1>4. done = completed \ {pr.ts} /\ done \subseteq active
  <2>1. \A a \in completed : a # pr.ts => a \in active
    BY <1>0, <1>2 DEF BooksInv, Recycled
  <2>2. QED
    BY <1>3, <2>1
<1>5. \/ prop' = "bound" /\ pr' = [at |-> "test", ts |-> taskBound] /\ loop' = loop
      \/ prop' = "packets" /\ pr' = [at |-> "send", ts |-> Earliest(done)] /\ loop' = loop
      \/ prop' = "idle" /\ UNCHANGED pr
  BY <1>1 DEF AfterPackets
<1> HIDE DEF done
<1>6. failed' = FALSE
  BY <1>0, <1>1, <1>4
<1>7. (\A b \in Int : Told(b) => Told(b)') /\ (\A b \in Int : Floor(b) => Floor(b)')
  BY <1>0, ToldStep, FloorStep
<1>8. \A a \in completed' : ~Sent(a)
  BY <1>1, <1>4 DEF Sent
<1>9. OutInv'
  BY <1>1, <1>4, <1>8, PropagatorRests
<1>10. loop' = loop \/ loop'.at = "leave"
  BY <1>0, <1>1, PropagationMoves
<1>11. /\ prop' \in {"bound", "pending"} => pr'.at # "send" /\ pr'.ts <= taskBound
       /\ prop' # "pending"
  BY <1>0, <1>5
<1>12. BoundInv'
  BY <1>0, <1>1, <1>2, <1>7, <1>10, <1>11, BoundGoesOn
<1>13. QED
  BY <1>6, <1>9, <1>12

(* A bound is sent while nothing is to come that it could pass.            *)
LEMMA BoundPasses ==
  ASSUME Ordinary, NodeInv, CheckInv, Next, UNCHANGED node, NEW t \in Threads, PropagateBound(t)
  PROVE  BoundInv' /\ OutInv' /\ failed' = FALSE
<1>0. /\ InputInv /\ RolesInv /\ PropInv /\ BooksInv /\ failed = FALSE /\ IdleInv /\ OrdInv /\ BoundInv /\ OutInv
      /\ pr \in [at : {"none", "test", "send", "recycle", "relock"}, ts : Int] /\ taskBound \in Int
      /\ Threads' = Threads
  BY DEF NodeInv, CheckInv, PropInv, Threads, Streams, Workers
<1>1. /\ prop \in {"bound", "pending"} /\ pr.at = "send" /\ Sends(pr.ts, << >>) /\ pr' = [pr EXCEPT !.at = "relock"]
      /\ UNCHANGED <<inputs, prepared, loop, tasks, completed, taskBound, prop, pc, arg>>
  BY DEF PropagateBound, Prop, inputVars, schedVars
<1>2. pr'.at = "relock" /\ pr'.ts = pr.ts
  BY <1>0, <1>1
<1>3. ~Parallel /\ IsRangeValue(pr.ts) /\ pr.ts > manager.bound /\ Told(pr.ts)
  BY <1>0, <1>1 DEF BoundInv
<1>4. tasks = {} /\ completed = {} /\ ~prepared /\ \A u \in Threads : pc[u] \notin InHand
  BY <1>0, <1>1, <1>3, NothingBeside
<1>5. (\A b \in Int : Told(b) => Told(b)') /\ (\A b \in Int : Floor(b) => Floor(b)')
  BY <1>0, ToldStep, FloorStep
<1>6. /\ Ascends(mirror) /\ ~mirror.closed /\ mirror.bound = manager.bound /\ mirror.bound \in Int
      /\ manager \in [bound : Int, closed : BOOLEAN]
  BY <1>0, <1>4, HeadIsEarliest DEF OutInv
<1>7. PICK b, r : b = pr.ts /\ r = Mirrored(mirror, b, << >>)
  OBVIOUS
<1>8. /\ b \in Timestamps /\ b \in Int /\ b # Unset /\ mirror.bound <= b /\ Told(b)
  BY <1>0, <1>3, <1>6, <1>7, TimeLine DEF Timestamps, IsRangeValue
<1>9. /\ r.ok /\ Ascends(r.stream) /\ ~r.stream.closed
      /\ r.stream.bound = IF b = Unset THEN mirror.bound ELSE b
  <2>1. PICK packets : packets = << >>
    OBVIOUS
  <2>2. packets = << >> /\ (b = Unset \/ mirror.bound <= b)
    BY <1>8, <2>1
  <2>3. r = Mirrored(mirror, b, packets)
    BY <1>7, <2>1
  <2>4. QED
    BY <1>6, <1>8, <2>2, <2>3, MirrorTakes
<1>10. /\ mirror' = r.stream /\ manager' = [manager EXCEPT !.bound = b] /\ failed' = FALSE
  BY <1>0, <1>1, <1>7, <1>8, <1>9 DEF Sends, Propagated, Check
<1>11. mirror'.bound = b /\ manager'.bound = b /\ manager' \in [bound : Int, closed : BOOLEAN]
  BY <1>6, <1>8, <1>9, <1>10
<1>12. Told(mirror.bound)'
  BY <1>5, <1>8, <1>11
<1>13. \A a \in DOMAIN inputs' : ~Unsent(a)'
  BY <1>0, <1>1, <1>4 DEF Unsent, Running, InHand
<1>14. OutInv'
  BY <1>9, <1>10, <1>11, <1>12, <1>13 DEF OutInv
<1>15. BoundInv'
  BY <1>0, <1>1, <1>2, <1>3, <1>5, BoundGoesOn DEF PropInv
<1>16. QED
  BY <1>10, <1>14, <1>15

(* When a mark was left, something new has come: a later bound, if no      *)
(* invocation is left to be sent.                                          *)
LEMMA AfterBoundPasses ==
  ASSUME Ordinary, NodeInv, CheckInv, Next, UNCHANGED node, NEW t \in Threads, AfterBound(t)
  PROVE  BoundInv' /\ OutInv' /\ failed' = FALSE
<1>0. /\ InputInv /\ RolesInv /\ PropInv /\ BooksInv /\ failed = FALSE /\ OrdInv /\ BoundInv
      /\ pr \in [at : {"none", "test", "send", "recycle", "relock"}, ts : Int] /\ taskBound \in Int
  BY DEF NodeInv, CheckInv, PropInv
<1>1. /\ prop \in {"bound", "pending"} /\ pr.at = "relock" /\ Propagate(t)
      /\ UNCHANGED <<completed, taskBound, manager, mirror>>
  BY DEF AfterBound, Prop, Propagate
<1>2. \/ /\ prop' = "bound" /\ pr' = [at |-> "test", ts |-> taskBound] /\ prop = "pending" /\ active = {}
         /\ failed' = (failed \/ ~(pr.ts < taskBound))
      \/ prop' = "packets" /\ pr' = [at |-> "send", ts |-> Earliest(active)] /\ prop = "pending" /\ failed' = failed
      \/ prop' = "idle" /\ UNCHANGED <<pr, failed>>
  BY DEF AfterBound, Check
<1>3. prop = "pending" => Parallel
  BY <1>0 DEF PropInv
<1>4. prop = "pending" /\ active = {} => pr.ts < taskBound
  <2>1. SUFFICES ASSUME prop = "pending", active = {} PROVE pr.ts < taskBound
    OBVIOUS
  <2>2. completed = {}
    BY <1>0, <1>3, <2>1 DEF BooksInv, Recycled
  <2>3. QED
    BY <1>0, <2>1, <2>2 DEF BoundInv
<1>5. failed' = FALSE
  BY <1>0, <1>2, <1>4
<1>6. (\A b \in Int : Told(b) => Told(b)') /\ (\A b \in Int : Floor(b) => Floor(b)')
  BY <1>0, ToldStep, FloorStep
<1>7. OutInv'
  <2>1. \A a \in completed' : Sent(a) => Sent(a)'
    BY <1>1 DEF Sent
  <2>2. QED
    BY <1>1, <2>1, PropagatorRests
<1>8. loop' = loop \/ loop'.at = "leave"
  BY <1>0, <1>1, PropagationMoves
<1>9. /\ prop' \in {"bound", "pending"} => Parallel /\ pr'.at # "send" /\ pr'.ts <= taskBound
      /\ prop' # "pending" /\ (~Parallel => prop' = "idle")
  BY <1>0, <1>2, <1>3
<1>10. BoundInv'
  BY <1>0, <1>1, <1>6, <1>8, <1>9, BoundGoesOn
<1>11. QED
  BY <1>5, <1>7, <1>10

(* An invocation has finished.                                             *)
LEMMA PostProcessPasses ==
  ASSUME Ordinary, NodeInv, CheckInv, Next, UNCHANGED node, NEW t \in Threads, PostProcess(t)
  PROVE  BoundInv' /\ OutInv' /\ failed' = FALSE
<1>0. /\ InputInv /\ RolesInv /\ BooksInv /\ PropInv /\ failed = FALSE /\ pc \in [Threads -> Places]
      /\ IdleInv /\ OrdInv /\ BoundInv /\ OutInv /\ taskBound \in Int
      /\ Threads' = Threads
  BY DEF NodeInv, CheckInv, InputInv, NodeType, PropInv, Threads, Streams, Workers
<1>1. pc[t] = "post" /\ pc[t] \in Running /\ UNCHANGED <<inputs, prepared, tasks, taskBound, active, arg>>
  BY DEF PostProcess, Running, inputVars
<1>2. (\A b \in Int : Told(b) => Told(b)') /\ (\A b \in Int : Floor(b) => Floor(b)')
  BY <1>0, ToldStep, FloorStep
<1>3. PICK where \in {"postProp", "end"} : pc' = [pc EXCEPT ![t] = where]
  BY <1>0, <1>1, PropagationMoves DEF AtLoop
<1>4. /\ where \notin Running /\ (loop' = loop \/ loop'.at = "leave")
      /\ arg[t] \in DOMAIN inputs /\ arg[t] \notin completed
  BY <1>0, <1>1, PropagationMoves DEF Running, BooksInv
<1>5. CASE Parallel
  <2>1. /\ completed' = completed \cup {arg[t]} /\ EnterPropagation(t, completed', taskBound)
        /\ UNCHANGED <<manager, mirror>>
    BY <1>5 DEF PostProcess
  <2>2. completed' \subseteq DOMAIN inputs /\ arg[t] \in active
    BY <1>0, <1>1, <1>4, <1>5, <2>1 DEF BooksInv
  <2>3. prop # "packets" => completed' \subseteq active
    BY <1>0, <1>5, <2>1, <2>2 DEF BooksInv, Recycled
  <2>4. /\ failed' = FALSE
        /\ prop' \in {"bound", "pending"} => pr'.at # "send" /\ pr'.ts <= taskBound'
        /\ prop' = "pending" => pr'.ts < taskBound' \/ completed' # {}
        /\ \A a \in completed' : Sent(a) => Sent(a)'
    <3>1. PICK b : b = taskBound
      OBVIOUS
    <3>2. /\ NodeInv /\ BoundInv /\ failed = FALSE /\ active' = active /\ Parallel /\ b \in Int
          /\ EnterPropagation(t, completed', b) /\ taskBound' = b /\ taskBound <= b
          /\ taskBound < b \/ completed' # {}
          /\ completed \subseteq completed' /\ completed' \subseteq DOMAIN inputs
          /\ prop # "packets" => completed' \subseteq active
      BY <1>0, <1>1, <1>5, <2>1, <2>2, <2>3, <3>1
    <3>3. QED
      BY <3>2, EnterPasses
  <2>5. \A a \in DOMAIN inputs : Unsent(a)' => Unsent(a)
    BY <1>0, <1>1, <1>3, <1>4, <2>1, <2>4, UnsentRest
  <2>6. OutInv'
    BY <1>0, <1>1, <1>2, <2>1, <2>5, OutRest
  <2>7. BoundInv'
    BY <1>0, <1>1, <1>2, <1>4, <1>5, <2>4, BoundGoesOn
  <2>8. QED
    BY <2>4, <2>6, <2>7
<1>6. CASE ~Parallel
  <2>1. SendShard(arg[t]) /\ pc' = [pc EXCEPT ![t] = "end"] /\ UNCHANGED <<completed, prop, pr, loop>>
    BY <1>6 DEF PostProcess, Goto
  <2>2. /\ tasks = {} /\ completed = {} /\ ~prepared /\ prop = "idle"
        /\ \A u \in Threads : pc[u] \in InHand => u = t
    BY <1>0, <1>1, <1>6, OneInHand
  <2>3. \A c \in DOMAIN inputs : ~Unsent(c)'
    <3>1. \A u \in Threads : pc'[u] \notin Running
      BY <1>0, <2>1, <2>2 DEF Running, InHand
    <3>2. QED
      BY <1>0, <1>1, <2>1, <2>2, <3>1 DEF Unsent
  <2>4. Unsent(arg[t])
    BY <1>1 DEF Unsent
  <2>5. OutInv' /\ failed' = FALSE
    <3>1. PICK a : a = arg[t]
      OBVIOUS
    <3>2. a \in DOMAIN inputs /\ Unsent(a) /\ SendShard(a)
      BY <1>4, <2>1, <2>4, <3>1
    <3>3. QED
      BY <1>0, <1>1, <1>2, <2>2, <2>3, <3>2, SentOn
  <2>6. BoundInv'
    BY <1>0, <1>1, <1>2, <1>6, <2>1, <2>2, BoundGoesOn
  <2>7. QED
    BY <2>5, <2>6
<1>7. QED
  BY <1>5, <1>6

(* The end of the outputs: nothing is to be sent any more.                 *)
LEMMA ClosingPasses ==
  ASSUME Ordinary, NodeInv, CheckInv, Next, UNCHANGED node, NEW t \in Threads,
         CloseOutputStreams(t) \/ CloseManager(t)
  PROVE  BoundInv' /\ OutInv' /\ failed' = FALSE
<1>0. /\ InputInv /\ RolesInv /\ PropInv /\ failed = FALSE /\ IdleInv /\ OrdInv /\ BoundInv
  BY DEF NodeInv, CheckInv
<1>1. /\ pc[t] \in Closing /\ UNCHANGED <<prepared, loop, completed, taskBound, prop, pr, failed>>
  BY DEF CloseOutputStreams, CloseManager, Closing, inputVars, schedVars
<1>2. (\A b \in Int : Told(b) => Told(b)') /\ (\A b \in Int : Floor(b) => Floor(b)')
  BY <1>0, ToldStep, FloorStep
<1>3. prepared
  BY <1>0, <1>1 DEF InputInv, TimeInv
<1>4. ~(prop \in {"bound", "pending"} /\ pr.at = "send")
  BY <1>0, <1>3, NothingBeside DEF BoundInv
<1>5. OutInv'
  BY <1>1, <1>3 DEF OutInv
<1>6. BoundInv'
  BY <1>0, <1>1, <1>2, <1>4, BoundGoesOn DEF BoundInv
<1>7. QED
  BY <1>0, <1>1, <1>5, <1>6

(* The outputs at the start.                                               *)
LEMMA CheckInvInit == Init => CheckInv
<1> SUFFICES ASSUME Init PROVE CheckInv
  OBVIOUS
<1>1. PICK new : new = NewStream(-1)
  OBVIOUS
<1>2. /\ Ascends(new) /\ ~new.closed /\ new.bound = PreStream /\ new.selected = Unstarted /\ Queued(new) = {}
  <2>1. new.queue = << >> /\ ~new.closed /\ new.bound = PreStream /\ new.selected = Unstarted
    BY <1>1 DEF NewStream
  <2>2. Ascends(new)
    BY <1>1, NewStreamAscends
  <2>3. Queued(new) = {}
    BY <2>1 DEF Queued
  <2>4. QED
    BY <2>1, <2>2, <2>3
<1>3. /\ \A i \in Streams : strm[i] = new /\ feed[i].bound = PreStream
      /\ mirror = new /\ manager.bound = PreStream /\ manager \in [bound : Int, closed : BOOLEAN]
  BY <1>1, TimeLine DEF Init, NewManager
<1>4. /\ loop.at = "none" /\ loop.bound = Done /\ loop.packet = Done /\ DOMAIN inputs = {} /\ lastTs = Unset
      /\ taskBound = Unset /\ prop = "idle" /\ ~prepared /\ status = "prepared" /\ active = {} /\ failed = FALSE
  BY DEF Init, NoLoop
<1>5. IdleInv
  BY <1>4 DEF IdleInv
<1>6. OrdInv
  BY <1>2, <1>3, <1>4, TimeLine DEF OrdInv
<1>7. Floor(Unset) /\ Floor(PreStream)
  BY <1>2, <1>3, <1>4, TimeLine DEF Floor
<1>8. Floor(taskBound) /\ Told(mirror.bound)
  <2>1. Told(PreStream)
    BY <1>7, TimeLine DEF Told
  <2>2. mirror.bound = PreStream
    BY <1>2, <1>3
  <2>3. QED
    BY <1>4, <1>7, <2>1, <2>2
<1>9. BoundInv
  BY <1>4, <1>8 DEF BoundInv
<1>10. OutInv
  BY <1>2, <1>3, <1>4, <1>8 DEF OutInv
<1>11. QED
  BY <1>4, <1>5, <1>6, <1>9, <1>10 DEF CheckInv

(* Every step keeps it.                                                    *)
LEMMA CheckInvStep ==
  ASSUME Ordinary, NodeInv, CheckInv, [Next /\ UNCHANGED node]_<<vars, node>>
  PROVE  CheckInv'
<1>1. CASE Next /\ UNCHANGED node
  <2>1. IdleInv' /\ OrdInv'
    BY <1>1, IdleStep, OrdStep DEF CheckInv
  <2>2. BoundInv' /\ OutInv' /\ failed' = FALSE
    <3>1. ASSUME NEW i \in Streams, FeedPacket(i) \/ FeedBound(i)
          PROVE  BoundInv' /\ OutInv' /\ failed' = FALSE
      BY <1>1, <3>1, FeedsPass
    <3>2. ASSUME NEW t \in Threads, Schedule(t) PROVE BoundInv' /\ OutInv' /\ failed' = FALSE
      BY <1>1, <3>2, OthersPass, NewInvocationPasses, RoundPasses, UpdatePasses DEF Schedule
    <3>3. ASSUME NEW t \in Threads, Propagate(t) PROVE BoundInv' /\ OutInv' /\ failed' = FALSE
      BY <1>1, <3>3, PacketsPass, RecyclePasses, AfterPacketsPasses, BoundPasses, AfterBoundPasses DEF Propagate
    <3>4. ASSUME NEW t \in Threads, Work(t) PROVE BoundInv' /\ OutInv' /\ failed' = FALSE
      BY <1>1, <3>4, OthersPass, TaskPasses, PostProcessPasses, ClosingPasses DEF Work
    <3>5. QED
      BY <1>1, <3>1, <3>2, <3>3, <3>4 DEF Next, Threads
  <2>3. QED
    BY <2>1, <2>2 DEF CheckInv
<1>2. CASE UNCHANGED <<vars, node>>
  <2>1. /\ UNCHANGED <<node, feed, strm, lastTs, inputs, prepared, status, inFlight, loop, tasks, failed>>
        /\ UNCHANGED <<completed, taskBound, prop, pr, active, pc, arg, manager, mirror>>
    BY <1>2 DEF vars, inputVars, schedVars, outputVars
  <2>2. /\ Streams' = Streams /\ Threads' = Threads /\ Parallel' = Parallel /\ MaxInFlight' = MaxInFlight
        /\ ProcessTimestampBounds' = ProcessTimestampBounds
    BY <2>1 DEF Streams, Threads, Workers, Parallel, MaxInFlight, ProcessTimestampBounds
  <2>3. ASSUME NEW b PROVE (Floor(b)' <=> Floor(b)) /\ (Told(b)' <=> Told(b))
    BY <2>1, <2>2 DEF Floor, Told
  <2>4. IdleInv' /\ OrdInv'
    BY <2>1, <2>2, <2>3 DEF CheckInv, IdleInv, OrdInv
  <2>5. BoundInv'
    <3>1. /\ Floor(taskBound)' <=> Floor(taskBound)
          /\ Told(loop.bound)' <=> Told(loop.bound)
          /\ Told(pr.ts)' <=> Told(pr.ts)
      BY <2>1, <2>2 DEF Floor, Told
    <3>2. QED
      BY <2>1, <2>2, <3>1 DEF CheckInv, BoundInv
  <2>6. OutInv'
    <3>1. Told(mirror.bound)' <=> Told(mirror.bound)
      BY <2>1, <2>2 DEF Floor, Told
    <3>2. \A a : Unsent(a)' <=> Unsent(a)
      BY <2>1, <2>2 DEF Unsent, Sent
    <3>3. QED
      BY <2>1, <3>1, <3>2 DEF CheckInv, OutInv
  <2>7. QED
    BY <2>1, <2>4, <2>5, <2>6 DEF CheckInv
<1>3. QED
  BY <1>1, <1>2

(* The CHECKs of calculator_node.cc, of the two stream handlers, of the    *)
(* context manager and of the scheduler queue hold, and no stream refuses  *)
(* what it is given: with packets at ordinary timestamps, and without an   *)
(* offset where invocations run in parallel.                               *)
THEOREM NoCheckEverFails == ASSUME Ordinary PROVE Spec => []NoCheckFails
<1>1. Init => NodeInv /\ CheckInv
  BY NodeInvInit, CheckInvInit
<1>2. NodeInv /\ CheckInv /\ [Next /\ UNCHANGED node]_<<vars, node>> => NodeInv' /\ CheckInv'
  BY NodeInvStep, CheckInvStep
<1>3. NodeInv /\ CheckInv => NoCheckFails
  BY DEF CheckInv, NoCheckFails
<1>4. QED
  BY <1>1, <1>2, <1>3, PTL DEF Spec
=============================================================================
