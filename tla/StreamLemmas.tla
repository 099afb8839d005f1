---------------------------- MODULE StreamLemmas ----------------------------
(***************************************************************************)
(* What the operators of InputStreamManager do to a stream whose packets   *)
(* ascend, for every time line and every list of packets.                  *)
(***************************************************************************)
EXTENDS InputStreamManager, FiniteSetTheorems, SequenceTheorems, TLAPS

(* A set of naturals with an element has a least one.                      *)
LEMMA LeastElement ==
  ASSUME NEW S \in SUBSET Nat, S # {}
  PROVE  \E x \in S : \A y \in S : x <= y
<1>1. PICK x \in S : \A y \in S : ~(<<y, x>> \in OpToRel(<, Nat))
  BY NatLessThanWellFounded, WFMin, Zenon
<1>2. \A y \in S : ~(y < x)
  BY <1>1 DEF OpToRel
<1>3. QED
  BY <1>2

-----------------------------------------------------------------------------
(* The operators on a stream.                                              *)

StreamType ==
  [queue : Seq(Int), bound : Int, some : BOOLEAN, selected : Int, closed : BOOLEAN, max : Int]

InOrder(q, n) ==
  /\ \A i \in 1 .. n : IsAllowedInStream(q[i])
  /\ \A i \in 1 .. n - 1 : q[i] < q[i + 1]

(* The packets of a queue ascend, and the bound is beyond the last one.    *)
Ascends(s) ==
  /\ s \in StreamType
  /\ InOrder(s.queue, Len(s.queue))
  /\ s.queue # << >> => s.queue[Len(s.queue)] < s.bound

(* Timestamps are integers; the next allowed one is later.                 *)
LEMMA TimestampFacts ==
  /\ Timestamps \subseteq Int
  /\ {Unset, Unstarted, PreStream, MinTimestamp, PostStream, OneOverPostStream, Done} \subseteq Int
  /\ \A t \in Int : /\ NextAllowedInStream(t) \in Int
                    /\ IsAllowedInStream(t) => t < NextAllowedInStream(t)
BY TimestampAssumption
   DEF Timestamps, Unset, Unstarted, PreStream, MinTimestamp, PostStream, OneOverPostStream, Done,
       NextAllowedInStream, IsAllowedInStream

(* The places that lead are before the first stop.                         *)
LEMMA LeadingSpec ==
  ASSUME NEW n \in Nat, NEW stops \in SUBSET (1 .. n), NEW k, k = Leading(n, stops)
  PROVE  /\ k \in 0 .. n
         /\ \A i \in 1 .. k : i \notin stops
         /\ k < n => k + 1 \in stops
<1>1. CASE stops = {}
  BY <1>1 DEF Leading
<1>2. CASE stops # {}
  <2>1. stops \in SUBSET Nat
    OBVIOUS
  <2>2. \E x \in stops : \A y \in stops : x <= y
    BY <1>2, <2>1, LeastElement
  <2>3. Min(stops) \in stops /\ \A y \in stops : Min(stops) <= y
    BY <2>2 DEF Min
  <2>4. k = Min(stops) - 1
    BY <1>2 DEF Leading
  <2>5. PICK m \in stops : m = Min(stops) /\ \A y \in stops : m <= y
    BY <2>3
  <2>6. m \in 1 .. n /\ k = m - 1
    BY <2>4, <2>5
  <2>7. \A i \in 1 .. k : i \notin stops
    BY <2>1, <2>5, <2>6
  <2>8. QED
    BY <2>5, <2>6, <2>7
<1>3. QED
  BY <1>1, <1>2

(* What AddPackets does to an open stream: it queues the first n packets,  *)
(* each of which was accepted behind the one before.                       *)
LEMMA AddPacketsSpec ==
  ASSUME NEW s \in StreamType, ~s.closed, NEW packets \in Seq(Timestamps), NEW r,
         r = AddPackets(s, packets)
  PROVE  \E n \in 0 .. Len(packets) :
           /\ r.stream \in StreamType
           /\ r.stream.queue = s.queue \o SubSeq(packets, 1, n)
           /\ SubSeq(packets, 1, n) \in Seq(Int) /\ Len(SubSeq(packets, 1, n)) = n
           /\ \A i \in 1 .. n : SubSeq(packets, 1, n)[i] = packets[i]
           /\ r.stream.bound = IF n = 0 THEN s.bound ELSE NextAllowedInStream(packets[n])
           /\ \A i \in 1 .. n : Accepts(s, packets, i)
<1> DEFINE stops == {i \in DOMAIN packets : ~Accepts(s, packets, i)}
           n == Leading(Len(packets), stops)
           more == SubSeq(packets, 1, n)
           bound == IF n = 0 THEN s.bound ELSE NextAllowedInStream(packets[n])
           some == s.some \/ n > 0
<1>1. packets \in Seq(Int) /\ Len(packets) \in Nat /\ DOMAIN packets = 1 .. Len(packets)
  BY TimestampFacts, SeqMonotonic, LenProperties
<1>2. stops \in SUBSET (1 .. Len(packets))
  BY <1>1
<1>3. /\ n \in 0 .. Len(packets)
      /\ \A i \in 1 .. n : i \notin stops
  <2> HIDE DEF stops
  <2>1. QED
    BY <1>1, <1>2, LeadingSpec, Zenon
<1>4. \A i \in 1 .. n : Accepts(s, packets, i)
  <2>1. \A i \in 1 .. n : i \in DOMAIN packets
    <3> HIDE DEF n
    <3>1. QED
      BY <1>1, <1>3
  <2>2. QED
    BY <1>3, <2>1
<1>5. r.stream = [s EXCEPT !.queue = s.queue \o more, !.some = some, !.bound = bound]
  BY DEF AddPackets, StreamType
<1> HIDE DEF stops, n
<1>6. more \in Seq(Int) /\ Len(more) = n /\ \A i \in 1 .. n : more[i] = packets[i]
  <2>1. \A i \in 1 .. n : packets[i] \in Int
    BY <1>1, <1>3
  <2>2. QED
    BY <1>1, <1>3, <2>1, SubSeqProperties
<1>7. bound \in Int /\ some \in BOOLEAN
  <2>1. n # 0 => packets[n] \in Int
    BY <1>1, <1>3
  <2>2. QED
    BY <2>1, TimestampFacts DEF StreamType
<1>8. s.queue \o more \in Seq(Int)
  BY <1>6, ConcatProperties DEF StreamType
<1> HIDE DEF more, bound, some
<1>9. r.stream \in StreamType /\ r.stream.queue = s.queue \o more /\ r.stream.bound = bound
  <2> DEFINE q == s.queue \o more
  <2>1. q \in Seq(Int) /\ bound \in Int
    BY <1>7, <1>8
  <2>2. PICK a \in BOOLEAN : r.stream = [s EXCEPT !.queue = q, !.some = a, !.bound = bound]
    BY <1>5, <1>7, Zenon
  <2> HIDE DEF q
  <2>3. r.stream \in StreamType /\ r.stream.queue = q /\ r.stream.bound = bound
    BY <2>1, <2>2 DEF StreamType
  <2>4. QED
    BY <2>3 DEF q
<1>10. QED
  BY <1>3, <1>4, <1>6, <1>9, Zenon DEF more, bound

(* The queue stays in ascending order, the bound ahead of it.              *)
LEMMA AddKeepsAscending ==
  ASSUME NEW s, Ascends(s), NEW packets \in Seq(Timestamps), NEW r, r = AddPackets(s, packets)
  PROVE  /\ Ascends(r.stream)
         /\ \E more \in Seq(Int) : r.stream.queue = s.queue \o more
<1>1. s \in StreamType /\ s.queue \in Seq(Int)
  BY DEF Ascends, StreamType
<1>2. CASE s.closed
  <2>1. r.stream = s
    BY <1>2 DEF AddPackets
  <2>2. s.queue = s.queue \o << >> /\ << >> \in Seq(Int)
    BY <1>1, ConcatEmptySeq
  <2>3. QED
    BY <2>1, <2>2
<1>3. CASE ~s.closed
  <2>1. PICK n \in 0 .. Len(packets) :
           /\ r.stream \in StreamType
           /\ r.stream.queue = s.queue \o SubSeq(packets, 1, n)
           /\ SubSeq(packets, 1, n) \in Seq(Int) /\ Len(SubSeq(packets, 1, n)) = n
           /\ \A i \in 1 .. n : SubSeq(packets, 1, n)[i] = packets[i]
           /\ r.stream.bound = IF n = 0 THEN s.bound ELSE NextAllowedInStream(packets[n])
           /\ \A i \in 1 .. n : Accepts(s, packets, i)
    BY <1>1, <1>3, AddPacketsSpec
  <2> DEFINE q == s.queue
             more == SubSeq(packets, 1, n)
             queue == q \o more
             m == Len(q)
  <2>2. /\ q \in Seq(Int) /\ more \in Seq(Int) /\ m \in Nat /\ n \in Nat /\ Len(more) = n
        /\ \A i \in 1 .. n : more[i] = packets[i] /\ packets[i] \in Int
    <3>1. packets \in Seq(Int) /\ Len(packets) \in Nat
      BY TimestampFacts, SeqMonotonic, LenProperties
    <3>2. \A i \in 1 .. n : packets[i] \in Int
      BY <3>1
    <3>3. QED
      BY <1>1, <2>1, <3>1, <3>2, LenProperties
  <2> HIDE DEF q, more, m
  <2>3. /\ Len(queue) = m + n
        /\ \A i \in 1 .. m : queue[i] = q[i] /\ q[i] \in Int
        /\ \A i \in 1 .. n : queue[m + i] = packets[i]
    <3>1. /\ Len(queue) = Len(q) + Len(more)
          /\ \A i \in 1 .. Len(q) + Len(more) :
               queue[i] = IF i <= Len(q) THEN q[i] ELSE more[i - Len(q)]
      BY <2>2, ConcatProperties
    <3>2. m = Len(q) /\ Len(more) = n
      BY <2>2 DEF m
    <3> HIDE DEF queue
    <3>3. /\ Len(queue) = m + n
          /\ \A i \in 1 .. m + n : queue[i] = IF i <= m THEN q[i] ELSE more[i - m]
      BY <3>1, <3>2
    <3>4. \A i \in 1 .. m : queue[i] = q[i] /\ q[i] \in Int
      BY <2>2, <3>2, <3>3
    <3>5. ASSUME NEW i \in 1 .. n PROVE queue[m + i] = packets[i]
      <4>1. m + i \in 1 .. m + n /\ ~(m + i <= m) /\ (m + i) - m = i
        BY <2>2
      <4>2. QED
        BY <2>2, <3>3, <4>1
    <3>6. QED
      BY <3>3, <3>4, <3>5
  <2>4. s.bound \in Int /\ (m > 0 => q[m] < s.bound)
    BY <2>2 DEF Ascends, StreamType, q, m
  <2>5. \A i \in 1 .. m - 1 : q[i] < q[i + 1]
    BY DEF Ascends, InOrder, q, m
  <2>6. /\ n > 0 => packets[1] >= s.bound
        /\ \A i \in 2 .. n : packets[i] >= NextAllowedInStream(packets[i - 1])
        /\ \A i \in 1 .. n : IsAllowedInStream(packets[i])
    BY <2>1, <2>2 DEF Accepts
  <2>7. \A i \in 1 .. n : packets[i] < NextAllowedInStream(packets[i])
    BY <2>2, <2>6, TimestampFacts
  <2>8. \A i \in 2 .. n : packets[i - 1] < packets[i]
    <3>1. ASSUME NEW i \in 2 .. n PROVE packets[i - 1] < packets[i]
      <4>1. i - 1 \in 1 .. n /\ i \in 1 .. n
        BY <2>2
      <4>2. /\ packets[i - 1] < NextAllowedInStream(packets[i - 1])
            /\ NextAllowedInStream(packets[i - 1]) <= packets[i]
            /\ packets[i - 1] \in Int /\ packets[i] \in Int
        BY <2>2, <2>6, <2>7, <4>1
      <4>3. NextAllowedInStream(packets[i - 1]) \in Int
        BY <4>2, TimestampFacts
      <4>4. QED
        BY <4>2, <4>3
    <3>2. QED
      BY <3>1
  <2> HIDE DEF queue
  <2>9. \A i \in 1 .. (m + n) - 1 : queue[i] < queue[i + 1]
    <3>1. ASSUME NEW i \in 1 .. (m + n) - 1 PROVE queue[i] < queue[i + 1]
      <4>1. CASE i < m
        <5>1. i \in 1 .. m /\ i + 1 \in 1 .. m /\ i \in 1 .. m - 1
          BY <2>2, <4>1
        <5>2. QED
          BY <2>3, <2>5, <5>1
      <4>2. CASE i = m
        <5>1. m > 0 /\ n > 0 /\ m \in 1 .. m /\ 1 \in 1 .. n
          BY <2>2, <4>2
        <5>2. queue[m] = q[m] /\ queue[m + 1] = packets[1] /\ q[m] \in Int /\ packets[1] \in Int
          BY <2>2, <2>3, <5>1
        <5>3. QED
          BY <2>4, <2>6, <4>2, <5>1, <5>2
      <4>3. CASE i > m
        <5> DEFINE j == i - m
        <5>1. j \in 1 .. n /\ j + 1 \in 2 .. n /\ j + 1 \in 1 .. n /\ i = m + j
          BY <2>2, <4>3
        <5> HIDE DEF j
        <5>2. queue[m + j] = packets[j] /\ queue[m + (j + 1)] = packets[j + 1]
          BY <2>3, <5>1
        <5>3. packets[(j + 1) - 1] < packets[j + 1] /\ (j + 1) - 1 = j /\ m + (j + 1) = i + 1
          BY <2>2, <2>8, <5>1
        <5>4. QED
          BY <5>1, <5>2, <5>3
      <4>4. QED
        BY <2>2, <4>1, <4>2, <4>3
    <3>2. QED
      BY <3>1
  <2>10. m + n > 0 => queue[m + n] < r.stream.bound
    <3>1. CASE n = 0
      BY <2>1, <2>2, <2>3, <2>4, <3>1
    <3>2. CASE n > 0
      <4>1. n \in 1 .. n
        BY <2>2, <3>2
      <4>2. queue[m + n] = packets[n] /\ r.stream.bound = NextAllowedInStream(packets[n])
        BY <2>1, <2>3, <3>2, <4>1
      <4>3. QED
        BY <2>7, <4>1, <4>2
    <3>3. QED
      BY <2>2, <3>1, <3>2
  <2>11. r.stream \in StreamType /\ r.stream.queue = queue
    BY <2>1 DEF queue, q, more
  <2>12. queue # << >> => m + n > 0
    <3>1. r.stream.queue \in Seq(Int)
      BY <2>11 DEF StreamType
    <3>2. QED
      BY <2>2, <2>3, <2>11, <3>1, EmptySeq
  <2>13. Ascends(r.stream)
    <3>1. Len(r.stream.queue) = m + n
      BY <2>3, <2>11
    <3>2. InOrder(queue, m + n)
      <4>1. \A i \in 1 .. m : IsAllowedInStream(queue[i])
        BY <2>3 DEF Ascends, InOrder, q, m
      <4>2. \A i \in 1 .. n : IsAllowedInStream(queue[m + i])
        BY <2>3, <2>6
      <4>3. ASSUME NEW i \in 1 .. m + n PROVE IsAllowedInStream(queue[i])
        <5>1. CASE i <= m
          BY <2>2, <4>1, <5>1
        <5>2. CASE i > m
          <6>1. i - m \in 1 .. n /\ m + (i - m) = i
            BY <2>2, <5>2
          <6>2. QED
            BY <4>2, <6>1
        <5>3. QED
          BY <2>2, <5>1, <5>2
      <4>4. QED
        BY <2>9, <4>3 DEF InOrder
    <3>3. r.stream.queue # << >> => r.stream.queue[Len(r.stream.queue)] < r.stream.bound
      BY <2>10, <2>11, <2>12, <3>1
    <3>4. QED
      BY <2>11, <3>1, <3>2, <3>3 DEF Ascends
  <2>14. QED
    BY <2>2, <2>11, <2>13 DEF queue, q
<1>4. QED
  BY <1>2, <1>3

(* A new stream, and a raised bound.                                       *)
LEMMA NewStreamAscends == Ascends(NewStream(-1))
<1>1. << >> \in Seq(Int) /\ Len(<< >>) = 0
  BY EmptySeq
<1>2. NewStream(-1) \in StreamType /\ NewStream(-1).queue = << >>
  BY <1>1, TimestampFacts DEF NewStream, StreamType
<1>3. InOrder(<< >>, 0)
  BY DEF InOrder
<1>4. QED
  BY <1>1, <1>2, <1>3 DEF Ascends

(* A new bound keeps the packets of a stream in order.                     *)
LEMMA BoundKeepsAscending ==
  ASSUME NEW s, Ascends(s), NEW bound \in Timestamps, NEW r, r = SetNextTimestampBound(s, bound)
  PROVE  Ascends(r.stream) /\ r.stream.queue = s.queue
<1>1. s \in StreamType /\ bound \in Int /\ s.bound \in Int
  BY TimestampFacts DEF Ascends, StreamType
<1>2. \/ r.stream = s
      \/ bound > s.bound /\ r.stream = [s EXCEPT !.bound = bound]
  BY DEF SetNextTimestampBound
<1>3. CASE r.stream = s
  BY <1>3
<1>4. CASE bound > s.bound /\ r.stream = [s EXCEPT !.bound = bound]
  <2>1. r.stream \in StreamType /\ r.stream.queue = s.queue /\ r.stream.bound = bound
    BY <1>1, <1>4 DEF StreamType
  <2>2. ASSUME s.queue # << >> PROVE s.queue[Len(s.queue)] < bound
    <3>1. s.queue \in Seq(Int)
      BY <1>1 DEF StreamType
    <3>2. Len(s.queue) \in 1 .. Len(s.queue)
      BY <2>2, <3>1, EmptySeq
    <3>3. s.queue[Len(s.queue)] \in Int
      BY <3>1, <3>2
    <3>4. s.queue[Len(s.queue)] < s.bound
      BY <2>2 DEF Ascends
    <3>5. QED
      BY <1>1, <1>4, <3>3, <3>4
  <2>3. QED
    BY <2>1, <2>2 DEF Ascends
<1>5. QED
  BY <1>2, <1>3, <1>4

(* Taking out the packet at the head of the queue takes out that one and   *)
(* nothing else.                                                           *)
LEMMA PopTakesTheHead ==
  ASSUME NEW s, Ascends(s), s.queue # << >>, NEW r, r = PopPacketAtTimestamp(s, Head(s.queue))
  PROVE  /\ r.found /\ r.stream.queue = Tail(s.queue)
         /\ Ascends(r.stream)
<1> DEFINE q == s.queue
           t == Head(q)
           stops == {i \in DOMAIN q : q[i] > t}
           n == Leading(Len(q), stops)
<1>1. s \in StreamType /\ q \in Seq(Int) /\ s.bound \in Int /\ q # << >>
  BY DEF Ascends, StreamType
<1>2. Len(q) \in Nat /\ Len(q) >= 1 /\ DOMAIN q = 1 .. Len(q) /\ t = q[1]
  BY <1>1, EmptySeq
<1>3. \A i \in 1 .. Len(q) : q[i] \in Int
  BY <1>1
<1>4. \A i \in 1 .. Len(q) - 1 : q[i] < q[i + 1]
  BY DEF Ascends, InOrder
<1>5. q[Len(q)] < s.bound
  BY <1>1 DEF Ascends
<1>6. /\ r.found = (n > 0 /\ q[n] = t)
      /\ r.stream = [s EXCEPT !.queue = SubSeq(q, n + 1, Len(q)), !.selected = t,
                              !.bound = IF s.bound <= t THEN NextAllowedInStream(t) ELSE s.bound]
  BY DEF PopPacketAtTimestamp
<1>7. stops \in SUBSET (1 .. Len(q)) /\ 1 \notin stops /\ (Len(q) > 1 => 2 \in stops)
  <2> HIDE DEF q, t
  <2>1. q[1] \in Int
    BY <1>2, <1>3
  <2>2. Len(q) > 1 => q[1] < q[2] /\ 2 \in 1 .. Len(q) /\ q[2] \in Int
    BY <1>2, <1>3, <1>4
  <2>3. QED
    BY <1>2, <2>1, <2>2
<1>8. n = 1
  <2>1. /\ n \in 0 .. Len(q)
        /\ \A i \in 1 .. n : i \notin stops
        /\ n < Len(q) => n + 1 \in stops
    <3> HIDE DEF stops
    <3>1. QED
      BY <1>2, <1>7, LeadingSpec, Zenon
  <2> HIDE DEF n, q, stops
  <2>2. QED
    BY <1>2, <1>7, <2>1
<1> HIDE DEF n, stops, t
<1>9. r.found
  <2>1. n > 0 /\ q[n] = t
    BY <1>2, <1>8
  <2>2. QED
    BY <1>6, <2>1, Zenon
<1>10. SubSeq(q, n + 1, Len(q)) = Tail(q)
  BY <1>1, <1>8, TailIsSubSeq
<1> DEFINE rest == Tail(q)
           b == IF s.bound <= t THEN NextAllowedInStream(t) ELSE s.bound
<1>11. t \in Int
  BY <1>2, <1>3
<1>12. b \in Int /\ s.bound <= b
  <2>1. NextAllowedInStream(t) \in Int
    BY <1>11, TimestampFacts
  <2>2. t < NextAllowedInStream(t)
    <3>1. IsAllowedInStream(q[1])
      BY <1>2 DEF Ascends, InOrder
    <3>2. QED
      BY <1>2, <1>11, <3>1, TimestampFacts
  <2>3. QED
    BY <1>1, <1>11, <2>1, <2>2
<1>13. /\ rest \in Seq(Int) /\ Len(rest) = Len(q) - 1
       /\ \A i \in 1 .. Len(rest) : rest[i] = q[i + 1]
  BY <1>1, HeadTailProperties
<1> HIDE DEF b, rest, q
<1>14. r.stream \in StreamType /\ r.stream.queue = rest /\ r.stream.bound = b
  <2>1. r.stream = [s EXCEPT !.queue = rest, !.selected = t, !.bound = b]
    BY <1>6, <1>10 DEF b, rest
  <2>2. QED
    BY <1>1, <1>11, <1>12, <1>13, <2>1 DEF StreamType
<1>15. InOrder(rest, Len(rest))
  <2>1. ASSUME NEW i \in 1 .. Len(rest) - 1 PROVE rest[i] < rest[i + 1]
    <3>1. i \in 1 .. Len(rest) /\ i + 1 \in 1 .. Len(rest) /\ i + 1 \in 1 .. Len(q) - 1
      BY <1>2, <1>13
    <3>2. QED
      BY <1>4, <1>13, <3>1
  <2>2. ASSUME NEW i \in 1 .. Len(rest) PROVE IsAllowedInStream(rest[i])
    <3>1. i + 1 \in 1 .. Len(q) /\ rest[i] = q[i + 1]
      BY <1>2, <1>13
    <3>2. QED
      BY <3>1 DEF Ascends, InOrder, q
  <2>3. QED
    BY <2>1, <2>2 DEF InOrder
<1>16. ASSUME rest # << >> PROVE rest[Len(rest)] < b
  <2>1. Len(rest) \in 1 .. Len(rest) /\ Len(rest) + 1 = Len(q) /\ Len(q) \in 1 .. Len(q)
    BY <1>2, <1>13, <1>16, EmptySeq
  <2>2. rest[Len(rest)] = q[Len(q)] /\ q[Len(q)] \in Int
    BY <1>3, <1>13, <2>1
  <2>3. QED
    BY <1>1, <1>5, <1>12, <2>2
<1>17. Ascends(r.stream)
  BY <1>14, <1>15, <1>16 DEF Ascends
<1>18. QED
  BY <1>9, <1>14, <1>17 DEF rest, q

-----------------------------------------------------------------------------
(* Sequences.                                                              *)

(* What is behind q in q \o more is more, and its head is that of q.       *)
LEMMA ConcatParts ==
  ASSUME NEW q \in Seq(Int), NEW more \in Seq(Int)
  PROVE  /\ SubSeq(q \o more, Len(q) + 1, Len(q \o more)) = more
         /\ q # << >> => q \o more # << >> /\ Head(q \o more) = Head(q)
<1> DEFINE all == q \o more
           m == Len(q)
           n == Len(more)
           sub == SubSeq(all, m + 1, m + n)
<1>1. /\ m \in Nat /\ n \in Nat /\ all \in Seq(Int) /\ Len(all) = m + n
      /\ \A i \in 1 .. m + n : all[i] = IF i <= m THEN q[i] ELSE more[i - m]
  BY ConcatProperties, LenProperties
<1>2. \A i \in 1 .. m + n : all[i] \in Int
  BY <1>1
<1> HIDE DEF all, m, n
<1>3. /\ sub \in Seq(Int)
      /\ Len(sub) = IF m + 1 <= m + n THEN (m + n) - (m + 1) + 1 ELSE 0
      /\ \A i \in 1 .. (m + n) - (m + 1) + 1 : sub[i] = all[(m + 1) + i - 1]
  <2>1. m + 1 \in Int /\ m + n \in Int /\ \A i \in m + 1 .. m + n : all[i] \in Int
    BY <1>1, <1>2
  <2>2. QED
    BY <2>1, SubSeqProperties
<1> HIDE DEF sub
<1>4. Len(sub) = n
  BY <1>1, <1>3
<1>5. ASSUME NEW i \in 1 .. n PROVE sub[i] = more[i]
  <2>1. m \in Nat /\ n \in Nat
    BY <1>1
  <2>2. /\ i \in 1 .. (m + n) - (m + 1) + 1 /\ (m + 1) + i - 1 = m + i
        /\ m + i \in 1 .. m + n /\ ~(m + i <= m) /\ (m + i) - m = i
    BY <2>1
  <2>3. QED
    BY <1>1, <1>3, <2>2
<1>6. sub = more
  BY <1>3, <1>4, <1>5, SeqEqual DEF n
<1>7. q # << >> => all # << >> /\ Head(all) = Head(q)
  <2>1. q # << >> => m > 0 /\ Head(q) = q[1]
    BY EmptySeq DEF m
  <2>2. ASSUME m > 0 PROVE all # << >> /\ Head(all) = q[1]
    <3>1. Len(all) > 0 /\ 1 \in 1 .. m + n /\ 1 <= m
      BY <1>1, <2>2
    <3>2. all[1] = q[1] /\ all # << >>
      BY <1>1, <3>1, EmptySeq
    <3>3. QED
      BY <1>1, <3>2
  <2>3. QED
    BY <2>1, <2>2
<1>8. QED
  BY <1>1, <1>6, <1>7 DEF all, m, n, sub

(* Putting sequences together is associative.                              *)
LEMMA IntConcat ==
  ASSUME NEW s \in Seq(Int), NEW t \in Seq(Int), NEW u \in Seq(Int)
  PROVE  (s \o t) \o u = s \o (t \o u)
<1> DEFINE a == (s \o t) \o u
           b == s \o (t \o u)
<1>1. s \o t \in Seq(Int) /\ t \o u \in Seq(Int)
  BY ConcatProperties
<1>2. a \in Seq(Int) /\ b \in Seq(Int)
  BY <1>1, ConcatProperties
<1>3. Len(s) \in Nat /\ Len(t) \in Nat /\ Len(u) \in Nat
  BY LenProperties
<1>4. Len(a) = Len(s) + Len(t) + Len(u) /\ Len(b) = Len(s) + Len(t) + Len(u)
  BY <1>1, <1>3, ConcatProperties
<1>5. \A i \in 1 .. Len(a) : a[i] = b[i]
  BY <1>1, <1>3, <1>4
<1>6. QED
  BY <1>2, <1>4, <1>5, SeqEqual

(* Moving the head of a queue to the end of what is before it.             *)
LEMMA HeadMoves ==
  ASSUME NEW d \in Seq(Int), NEW q \in Seq(Int), q # << >>
  PROVE  Append(d, Head(q)) \in Seq(Int) /\ Append(d, Head(q)) \o Tail(q) = d \o q
<1> DEFINE h == <<Head(q)>>
<1>1. Head(q) \in Int /\ Tail(q) \in Seq(Int) /\ Len(q) >= 1
  BY HeadTailProperties, EmptySeq
<1>2. Append(d, Head(q)) = d \o h /\ h \in Seq(Int)
  BY <1>1, AppendIsConcat
<1>3. h \o Tail(q) = q
  <2>1. SubSeq(q, 1, Len(q)) = <<q[1]>> \o SubSeq(q, 1 + 1, Len(q))
    BY <1>1, SubSeqRecursiveFirst
  <2>2. SubSeq(q, 1, Len(q)) = q /\ Tail(q) = SubSeq(q, 2, Len(q)) /\ Head(q) = q[1]
    BY SubSeqFull, TailIsSubSeq
  <2>3. QED
    BY <2>1, <2>2
<1> HIDE DEF h
<1>4. (d \o h) \o Tail(q) = d \o (h \o Tail(q))
  BY <1>1, <1>2, IntConcat
<1>5. d \o h \in Seq(Int)
  BY <1>2, ConcatProperties
<1>6. QED
  BY <1>2, <1>3, <1>4, <1>5

-----------------------------------------------------------------------------
(* The packets of a stream as a set.                                       *)

Queued(s) == {s.queue[k] : k \in DOMAIN s.queue}

(* What comes later in the queue is later.                                 *)
LEMMA LaterIsLater ==
  ASSUME NEW s, Ascends(s), NEW i \in 1 .. Len(s.queue), NEW j \in 1 .. Len(s.queue), i < j
  PROVE  s.queue[i] < s.queue[j]
<1> DEFINE q == s.queue
           Bad == {k \in Nat : k \in i + 1 .. Len(q) /\ ~(q[i] < q[k])}
<1>1. q \in Seq(Int) /\ Len(q) \in Nat
  BY DEF Ascends, StreamType
<1>2. \A k \in 1 .. Len(q) : q[k] \in Int
  BY <1>1
<1>3. \A k \in 1 .. Len(q) - 1 : q[k] < q[k + 1]
  BY DEF Ascends, InOrder
<1> HIDE DEF q
<1>4. SUFFICES ASSUME Bad # {} PROVE FALSE
  <2>1. j \notin Bad
    BY <1>4
  <2>2. QED
    BY <1>1, <2>1 DEF q
<1>5. PICK k \in Bad : \A m \in Bad : k <= m
  BY <1>4, LeastElement
<1>6. k \in Nat /\ k \in i + 1 .. Len(q) /\ ~(q[i] < q[k]) /\ i \in 1 .. Len(q)
  BY <1>5 DEF q
<1> HIDE DEF Bad
<1>7. k # i + 1
  <2>1. i \in 1 .. Len(q) - 1
    BY <1>1, <1>6
  <2>2. QED
    BY <1>3, <1>6, <2>1
<1>8. k - 1 \in Nat /\ k - 1 \in i + 1 .. Len(q) /\ k - 1 \notin Bad
  BY <1>1, <1>5, <1>6, <1>7
<1>9. q[i] < q[k - 1]
  BY <1>8 DEF Bad
<1>10. q[k - 1] < q[k]
  <2>1. k - 1 \in 1 .. Len(q) - 1 /\ (k - 1) + 1 = k
    BY <1>1, <1>6, <1>8
  <2>2. QED
    BY <1>3, <2>1
<1>11. q[i] \in Int /\ q[k - 1] \in Int /\ q[k] \in Int
  <2>1. k \in 1 .. Len(q) /\ k - 1 \in 1 .. Len(q)
    BY <1>1, <1>6, <1>8
  <2>2. QED
    BY <1>2, <1>6, <2>1
<1>12. QED
  BY <1>6, <1>9, <1>10, <1>11

(* The head is the earliest packet, and the bound is later than all.       *)
LEMMA HeadIsEarliest ==
  ASSUME NEW s, Ascends(s)
  PROVE  /\ s.bound \in Int /\ s.selected \in Int /\ s.closed \in BOOLEAN /\ s.some \in BOOLEAN
         /\ IsEmptyStream(s) <=> Queued(s) = {}
         /\ \A x \in Queued(s) : x \in Int /\ IsAllowedInStream(x) /\ x < s.bound
         /\ ~IsEmptyStream(s) => Head(s.queue) \in Queued(s) /\ \A x \in Queued(s) : Head(s.queue) <= x
<1> DEFINE q == s.queue
<1>1. s \in StreamType /\ q \in Seq(Int) /\ Len(q) \in Nat /\ DOMAIN q = 1 .. Len(q)
  BY DEF Ascends, StreamType
<1>2. s.bound \in Int /\ s.selected \in Int /\ s.closed \in BOOLEAN /\ s.some \in BOOLEAN
  BY <1>1 DEF StreamType
<1>3. IsEmptyStream(s) <=> Len(q) = 0
  BY <1>1, EmptySeq DEF IsEmptyStream
<1>4. \A k \in 1 .. Len(q) : q[k] \in Int /\ IsAllowedInStream(q[k])
  BY <1>1 DEF Ascends, InOrder
<1>5. Queued(s) = {q[k] : k \in 1 .. Len(q)}
  BY <1>1 DEF Queued
<1>6. ASSUME NEW k \in 1 .. Len(q) PROVE q[k] < s.bound
  <2>1. q # << >> /\ Len(q) \in 1 .. Len(q)
    BY <1>1, <1>3 DEF IsEmptyStream
  <2>2. q[Len(q)] < s.bound /\ q[Len(q)] \in Int
    BY <1>4, <2>1 DEF Ascends
  <2>3. k = Len(q) \/ (k < Len(q) /\ q[k] < q[Len(q)])
    BY <1>1, <2>1, LaterIsLater
  <2> HIDE DEF q
  <2>4. QED
    BY <1>2, <1>4, <2>1, <2>2, <2>3
<1>7. ASSUME Len(q) # 0, NEW k \in 1 .. Len(q) PROVE Head(q) = q[1] /\ q[1] <= q[k] /\ 1 \in 1 .. Len(q)
  <2>1. q # << >> /\ 1 \in 1 .. Len(q)
    BY <1>1, <1>3, <1>7 DEF IsEmptyStream
  <2>2. Head(q) = q[1]
    BY <1>1, <2>1
  <2>3. k = 1 \/ (1 < k /\ q[1] < q[k])
    BY <1>1, <2>1, LaterIsLater
  <2> HIDE DEF q
  <2>4. QED
    BY <1>4, <2>1, <2>2, <2>3
<1> HIDE DEF q
<1>8. IsEmptyStream(s) <=> Queued(s) = {}
  BY <1>1, <1>3, <1>5
<1>9. ~IsEmptyStream(s) => Head(q) \in Queued(s) /\ \A x \in Queued(s) : Head(q) <= x
  <2>1. SUFFICES ASSUME ~IsEmptyStream(s) PROVE Head(q) \in Queued(s) /\ \A x \in Queued(s) : Head(q) <= x
    OBVIOUS
  <2>2. 1 \in 1 .. Len(q) /\ Len(q) # 0
    BY <1>1, <1>3, <2>1
  <2>3. QED
    BY <1>5, <1>7, <2>2
<1>10. QED
  BY <1>2, <1>4, <1>5, <1>6, <1>8, <1>9 DEF q

(* One packet that an open stream accepts is queued behind the others.     *)
LEMMA AddOne ==
  ASSUME NEW s, Ascends(s), ~s.closed, NEW t \in Timestamps,
         IsAllowedInStream(t), t >= s.bound, t = PostStream => ~s.some,
         NEW r, r = AddPackets(s, <<t>>)
  PROVE  /\ r.ok /\ r.notify = IsEmptyStream(s)
         /\ Ascends(r.stream) /\ ~r.stream.closed
         /\ r.stream.queue = Append(s.queue, t) /\ Queued(r.stream) = Queued(s) \cup {t}
         /\ r.stream.bound = NextAllowedInStream(t) /\ r.stream.selected = s.selected
         /\ ~IsEmptyStream(s) => Head(r.stream.queue) = Head(s.queue)
<1> DEFINE ps == <<t>>
           stops == {i \in DOMAIN ps : ~Accepts(s, ps, i)}
           q == s.queue
<1>1. s \in StreamType /\ q \in Seq(Int) /\ s.bound \in Int /\ t \in Int
  BY TimestampFacts DEF Ascends, StreamType
<1>2. Len(ps) = 1 /\ DOMAIN ps = {1} /\ ps[1] = t /\ ps \in Seq(Timestamps) /\ ps \in Seq(Int)
  BY <1>1
<1>3. Accepts(s, ps, 1)
  BY <1>2 DEF Accepts
<1>4. stops = {}
  BY <1>2, <1>3
<1> DEFINE n == Leading(Len(ps), stops)
<1>5. n = 1
  BY <1>2, <1>4 DEF Leading
<1>6. /\ r.ok /\ r.notify = IsEmptyStream(s)
      /\ r.stream = [s EXCEPT !.queue = q \o SubSeq(ps, 1, 1), !.some = s.some \/ 1 > 0,
                              !.bound = NextAllowedInStream(ps[1])]
  <2>1. /\ r.ok = (n = Len(ps))
        /\ r.notify = (n = Len(ps) /\ IsEmptyStream(s) /\ ps # << >>)
        /\ r.stream = [s EXCEPT !.queue = q \o SubSeq(ps, 1, n), !.some = s.some \/ n > 0,
                                !.bound = IF n = 0 THEN s.bound ELSE NextAllowedInStream(ps[n])]
    BY DEF AddPackets
  <2>2. ps # << >>
    OBVIOUS
  <2>3. IsEmptyStream(s) \in BOOLEAN
    BY DEF IsEmptyStream
  <2> HIDE DEF n, ps
  <2>4. n = Len(ps) /\ n # 0
    BY <1>2, <1>5
  <2>5. r.ok /\ r.notify = IsEmptyStream(s)
    BY <2>1, <2>2, <2>3, <2>4, Zenon
  <2>6. QED
    BY <1>5, <2>1, <2>4, <2>5, Zenon
<1> HIDE DEF n
<1>7. q \o SubSeq(ps, 1, 1) = Append(q, t)
  <2>1. SubSeq(ps, 1, 1) = ps
    BY <1>2, SubSeqFull
  <2>2. Append(q, t) = q \o ps
    BY <1>1, AppendIsConcat
  <2>3. QED
    BY <2>1, <2>2
<1>8. /\ r.stream.queue = Append(q, t) /\ r.stream.bound = NextAllowedInStream(t)
      /\ r.stream.selected = s.selected /\ ~r.stream.closed
  <2>1. r.stream = [s EXCEPT !.queue = Append(q, t), !.some = s.some \/ 1 > 0,
                             !.bound = NextAllowedInStream(t)]
    BY <1>2, <1>6, <1>7, Zenon
  <2>2. QED
    BY <1>1, <2>1 DEF StreamType
<1>9. Ascends(r.stream)
  BY <1>2, AddKeepsAscending
<1>10. Queued(r.stream) = Queued(s) \cup {t}
  <2>1. /\ Len(Append(q, t)) = Len(q) + 1 /\ Len(q) \in Nat
        /\ \A i \in 1 .. Len(q) : Append(q, t)[i] = q[i]
        /\ Append(q, t)[Len(q) + 1] = t
    BY <1>1, AppendProperties
  <2>2. DOMAIN Append(q, t) = 1 .. Len(q) + 1 /\ DOMAIN q = 1 .. Len(q)
    BY <1>1, <2>1, AppendProperties
  <2>3. {Append(q, t)[k] : k \in 1 .. Len(q) + 1} = {q[k] : k \in 1 .. Len(q)} \cup {t}
    <3> HIDE DEF q
    <3>1. \A k \in 1 .. Len(q) + 1 : k \in 1 .. Len(q) \/ k = Len(q) + 1
      BY <2>1
    <3>2. \A k \in 1 .. Len(q) : k \in 1 .. Len(q) + 1
      BY <2>1
    <3>3. Len(q) + 1 \in 1 .. Len(q) + 1
      BY <2>1
    <3>4. PICK f : f = Append(q, t)
      OBVIOUS
    <3>5. f[Len(q) + 1] = t /\ \A k \in 1 .. Len(q) : f[k] = q[k]
      BY <2>1, <3>4
    <3>6. \A x \in {f[k] : k \in 1 .. Len(q) + 1} : x \in {q[k] : k \in 1 .. Len(q)} \cup {t}
      BY <3>1, <3>5
    <3>7. \A x \in {q[k] : k \in 1 .. Len(q)} \cup {t} : x \in {f[k] : k \in 1 .. Len(q) + 1}
      BY <3>2, <3>3, <3>5
    <3>8. {f[k] : k \in 1 .. Len(q) + 1} = {q[k] : k \in 1 .. Len(q)} \cup {t}
      <4> DEFINE A == {f[k] : k \in 1 .. Len(q) + 1}
                 B == {q[k] : k \in 1 .. Len(q)} \cup {t}
      <4>1. (\A x \in A : x \in B) /\ (\A x \in B : x \in A)
        BY <3>6, <3>7
      <4> HIDE DEF A, B
      <4>2. A = B
        BY <4>1
      <4>3. QED
        BY <4>2 DEF A, B
    <3>9. QED
      BY <3>4, <3>8, Zenon
  <2>4. Queued(s) = {q[k] : k \in 1 .. Len(q)}
    BY <2>2 DEF Queued
  <2>5. PICK f : f = Append(q, t)
    OBVIOUS
  <2>6. Queued(r.stream) = {f[k] : k \in DOMAIN f}
    BY <1>8, <2>5 DEF Queued
  <2>7. DOMAIN f = 1 .. Len(q) + 1 /\ {f[k] : k \in 1 .. Len(q) + 1} = {q[k] : k \in 1 .. Len(q)} \cup {t}
    BY <2>2, <2>3, <2>5
  <2>8. QED
    BY <2>4, <2>6, <2>7
<1>11. ~IsEmptyStream(s) => Head(r.stream.queue) = Head(q)
  <2>1. SUFFICES ASSUME q # << >> PROVE Head(Append(q, t)) = Head(q)
    BY <1>8 DEF IsEmptyStream
  <2>2. Append(q, t) \in Seq(Int) /\ Append(q, t) # << >> /\ Len(q) \in Nat /\ Len(q) # 0
    BY <1>1, <2>1, AppendProperties, EmptySeq
  <2>3. Append(q, t)[1] = q[1]
    BY <1>1, <2>2, AppendProperties
  <2>4. Head(Append(q, t)) = Append(q, t)[1] /\ Head(q) = q[1]
    BY <1>1, <2>1, <2>2
  <2>5. QED
    BY <2>3, <2>4
<1>12. QED
  BY <1>6, <1>8, <1>9, <1>10, <1>11

(* Packets at t or later: the one at t is taken out, or none.              *)
LEMMA PopOne ==
  ASSUME NEW s, Ascends(s), NEW t \in Int, t < s.bound, \A x \in Queued(s) : t <= x,
         NEW r, r = PopPacketAtTimestamp(s, t)
  PROVE  /\ r.ok = (s.selected <= t) /\ r.dropped = 0 /\ r.found = (t \in Queued(s))
         /\ Ascends(r.stream) /\ Queued(r.stream) = Queued(s) \ {t}
         /\ r.stream.bound = s.bound /\ r.stream.selected = t /\ r.stream.closed = s.closed
         /\ r.stream.some = s.some
<1> DEFINE q == s.queue
           stops == {i \in DOMAIN q : q[i] > t}
           n == Leading(Len(q), stops)
<1>1. s \in StreamType /\ q \in Seq(Int) /\ s.bound \in Int /\ Len(q) \in Nat /\ DOMAIN q = 1 .. Len(q)
  BY DEF Ascends, StreamType
<1>2. /\ r.ok = (s.selected <= t) /\ r.found = (n > 0 /\ q[n] = t)
      /\ r.dropped = IF n > 0 /\ q[n] = t THEN n - 1 ELSE n
      /\ r.stream = [s EXCEPT !.queue = SubSeq(q, n + 1, Len(q)), !.selected = t,
                              !.bound = IF s.bound <= t THEN NextAllowedInStream(t) ELSE s.bound]
  BY DEF PopPacketAtTimestamp
<1>3. CASE t \in Queued(s)
  <2>1. q # << >> /\ Head(q) = t
    <3>1. ~IsEmptyStream(s) /\ Head(q) \in Queued(s) /\ Head(q) <= t
      BY <1>3, HeadIsEarliest
    <3>2. t <= Head(q) /\ Head(q) \in Int
      BY <3>1, HeadIsEarliest
    <3>3. QED
      BY <3>1, <3>2 DEF IsEmptyStream
  <2>2. r.found /\ r.stream.queue = Tail(q) /\ Ascends(r.stream)
    BY <2>1, PopTakesTheHead
  <2>3. n > 0 /\ q[n] = t
    BY <1>2, <2>2
  <2>4. n = 1
    <3>1. Len(q) # 0 /\ q[1] = t
      BY <1>1, <2>1, EmptySeq
    <3>2. stops \in SUBSET (1 .. Len(q))
      BY <1>1
    <3>3. /\ n \in 0 .. Len(q)
          /\ \A i \in 1 .. n : i \notin stops
          /\ n < Len(q) => n + 1 \in stops
      <4>1. Len(q) \in Nat
        BY <1>1
      <4> HIDE DEF stops, q
      <4>2. QED
        BY <3>2, <4>1, LeadingSpec, Zenon
    <3>4. n # 1 => q[1] < q[n]
      <4> HIDE DEF n
      <4>1. n # 1 => 1 \in 1 .. Len(q) /\ n \in 1 .. Len(q) /\ 1 < n
        BY <1>1, <2>3, <3>3
      <4>2. QED
        BY <4>1, LaterIsLater
    <3>5. QED
      <4> HIDE DEF n, q
      <4>1. QED
        BY <2>3, <3>1, <3>4
  <2>5. r.dropped = 0
    BY <1>2, <2>3, <2>4
  <2> HIDE DEF n
  <2>6. /\ r.stream.bound = s.bound /\ r.stream.selected = t /\ r.stream.closed = s.closed
        /\ r.stream.some = s.some
    BY <1>1, <1>2 DEF StreamType
  <2>7. Queued(r.stream) = Queued(s) \ {t}
    <3>1. /\ Tail(q) \in Seq(Int) /\ Len(Tail(q)) = Len(q) - 1 /\ Len(q) # 0
          /\ \A i \in 1 .. Len(Tail(q)) : Tail(q)[i] = q[i + 1]
      BY <1>1, <2>1, HeadTailProperties, EmptySeq
    <3>2. DOMAIN Tail(q) = 1 .. Len(q) - 1 /\ q[1] = t
      BY <1>1, <2>1, <3>1
    <3>3. Queued(r.stream) = {Tail(q)[k] : k \in 1 .. Len(q) - 1} /\ Queued(s) = {q[k] : k \in 1 .. Len(q)}
      BY <1>1, <2>2, <3>2 DEF Queued
    <3>4. \A k \in 1 .. Len(q) - 1 : Tail(q)[k] = q[k + 1] /\ k + 1 \in 1 .. Len(q)
      BY <1>1, <3>1
    <3>5. \A k \in 1 .. Len(q) : k # 1 => k - 1 \in 1 .. Len(q) - 1 /\ (k - 1) + 1 = k
      BY <1>1
    <3>6. \A k \in 1 .. Len(q) : k # 1 => q[k] # t
      <4>1. TAKE k \in 1 .. Len(q)
      <4>2. HAVE k # 1
      <4>3. 1 \in 1 .. Len(q) /\ 1 < k
        BY <1>1, <4>2
      <4>4. q[1] < q[k] /\ q[1] \in Int /\ q[k] \in Int
        BY <1>1, <4>3, LaterIsLater
      <4>5. QED
        BY <3>2, <4>4
    <3>7. ASSUME NEW x \in Queued(r.stream) PROVE x \in Queued(s) \ {t}
      <4>1. PICK k \in 1 .. Len(q) - 1 : x = Tail(q)[k]
        BY <3>3, <3>7
      <4>2. x = q[k + 1] /\ k + 1 \in 1 .. Len(q) /\ k + 1 # 1
        BY <1>1, <3>4, <4>1
      <4>3. QED
        BY <3>3, <3>6, <4>2
    <3>8. ASSUME NEW x \in Queued(s) \ {t} PROVE x \in Queued(r.stream)
      <4>1. PICK k \in 1 .. Len(q) : x = q[k]
        BY <3>3, <3>8
      <4>2. k # 1
        BY <3>2, <3>8, <4>1
      <4>3. k - 1 \in 1 .. Len(q) - 1 /\ Tail(q)[k - 1] = q[k]
        BY <3>4, <3>5, <4>1, <4>2
      <4>4. QED
        BY <3>3, <4>1, <4>3
    <3>9. QED
      BY <3>7, <3>8
  <2>8. QED
    BY <1>2, <1>3, <2>2, <2>5, <2>6, <2>7
<1>4. CASE t \notin Queued(s)
  <2>1. \A i \in 1 .. Len(q) : q[i] \in Queued(s) /\ q[i] \in Int
    BY <1>1 DEF Queued
  <2>2. \A i \in 1 .. Len(q) : q[i] > t
    <3> HIDE DEF q
    <3>1. QED
      BY <1>4, <2>1
  <2>3. stops = 1 .. Len(q)
    BY <1>1, <2>2
  <2>4. /\ n \in 0 .. Len(q)
        /\ \A i \in 1 .. n : i \notin stops
        /\ n < Len(q) => n + 1 \in stops
    <3>1. stops \in SUBSET (1 .. Len(q)) /\ Len(q) \in Nat
      BY <1>1
    <3> HIDE DEF stops, q
    <3>2. QED
      BY <3>1, LeadingSpec, Zenon
  <2>5. n = 0
    <3> HIDE DEF n, stops
    <3>1. n # 0 => n \in 1 .. n /\ n \in 1 .. Len(q)
      BY <1>1, <2>4
    <3>2. QED
      BY <2>3, <2>4, <3>1
  <2> HIDE DEF n
  <2>6. SubSeq(q, n + 1, Len(q)) = q
    <3>1. n + 1 = 1 /\ q \in Seq(Int)
      BY <1>1, <2>5
    <3>2. SubSeq(q, 1, Len(q)) = q
      BY <3>1, SubSeqFull
    <3>3. QED
      BY <3>1, <3>2, Zenon
  <2>7. r.stream = [s EXCEPT !.queue = q, !.selected = t, !.bound = s.bound]
    <3>1. ~(s.bound <= t)
      BY <1>1
    <3>2. QED
      BY <1>2, <2>6, <3>1
  <2>8. /\ r.stream \in StreamType /\ r.stream.queue = q
        /\ r.stream.bound = s.bound /\ r.stream.selected = t /\ r.stream.closed = s.closed
        /\ r.stream.some = s.some
    BY <1>1, <2>7 DEF StreamType
  <2>9. Ascends(r.stream)
    BY <2>8 DEF Ascends
  <2>10. Queued(r.stream) = Queued(s) \ {t}
    BY <1>4, <2>8 DEF Queued
  <2>11. QED
    BY <1>2, <1>4, <2>5, <2>8, <2>9, <2>10
<1>5. QED
  BY <1>3, <1>4

(* Closing a stream keeps its packets and ends it.                         *)
LEMMA CloseOne ==
  ASSUME NEW s, Ascends(s), s.bound <= Done, NEW r, r = CloseStream(s)
  PROVE  /\ Ascends(r) /\ r.queue = s.queue /\ Queued(r) = Queued(s) /\ r.closed
         /\ s.bound <= r.bound /\ r.bound <= Done
         /\ r = s \/ r.bound = Done
<1>1. s \in StreamType /\ s.bound \in Int /\ Done \in Int /\ s.queue \in Seq(Int)
  BY TimestampFacts DEF Ascends, StreamType
<1>2. CASE s.closed
  BY <1>1, <1>2 DEF CloseStream
<1>3. CASE ~s.closed
  <2>1. r = [s EXCEPT !.bound = Done, !.selected = Done, !.closed = TRUE]
    BY <1>3 DEF CloseStream
  <2>2. r \in StreamType /\ r.queue = s.queue /\ r.bound = Done /\ r.closed
    BY <1>1, <2>1 DEF StreamType
  <2>3. s.queue # << >> => s.queue[Len(s.queue)] < Done
    <3>1. SUFFICES ASSUME s.queue # << >> PROVE s.queue[Len(s.queue)] < Done
      OBVIOUS
    <3>2. s.queue[Len(s.queue)] \in Int
      BY <1>1, <3>1, EmptySeq
    <3>3. s.queue[Len(s.queue)] < s.bound
      BY <3>1 DEF Ascends
    <3>4. QED
      BY <1>1, <3>2, <3>3
  <2>4. QED
    BY <1>1, <2>2, <2>3 DEF Ascends, Queued
<1>4. QED
  BY <1>2, <1>3

=============================================================================
