------------------------- MODULE InputStreamManager -------------------------
(***************************************************************************)
(* framework/input_stream_manager.{h,cc}: the queue in front of a consumer *)
(* of a packet stream, as operators on its state.  Each operator is one    *)
(* critical section of stream_mutex_.  A packet is its timestamp; payloads *)
(* never decide anything here.                                             *)
(***************************************************************************)
EXTENDS Timestamp, Sequences, SequencesExt

(* next_timestamp_bound_ is a promise of the producer: no packet before it *)
(* will come.  Of num_packets_added_ only "some" is ever asked; max is     *)
(* max_queue_size_, -1 for no limit.                                       *)
NewStream(max) ==
  [queue |-> << >>, bound |-> PreStream, some |-> FALSE, selected |-> Unstarted,
   closed |-> FALSE, max |-> max]

IsEmptyStream(s) == s.queue = << >>
IsFull(s) == s.max # -1 /\ Len(s.queue) >= s.max
IsDone(s) == IsEmptyStream(s) /\ s.bound = Done

(* The earliest packet, or how early the next one may still be.            *)
MinTimestampOrBound(s) == IF IsEmptyStream(s) THEN s.bound ELSE Head(s.queue)

(* How many of the places 1 .. n come before the first one in stops.       *)
Leading(n, stops) == IF stops = {} THEN n ELSE Min(stops) - 1

(* The i-th packet is accepted behind those before it.                     *)
Accepts(s, packets, i) ==
  /\ IsAllowedInStream(packets[i])
  /\ ~(packets[i] = PostStream /\ (s.some \/ i > 1))
  /\ packets[i] >= IF i = 1 THEN s.bound ELSE NextAllowedInStream(packets[i - 1])

(* AddPackets and MovePackets: the packets up to the first one that is not *)
(* accepted are queued.  The consumer is notified when the queue was empty *)
(* and every packet was accepted.                                          *)
AddPackets(s, packets) ==
  IF s.closed THEN [ok |-> TRUE, notify |-> FALSE, stream |-> s]
  ELSE LET n == Leading(Len(packets), {i \in DOMAIN packets : ~Accepts(s, packets, i)})
       IN  [ok |-> n = Len(packets),
            notify |-> n = Len(packets) /\ IsEmptyStream(s) /\ packets # << >>,
            stream |-> [s EXCEPT !.queue = @ \o SubSeq(packets, 1, n),
                                 !.some = @ \/ n > 0,
                                 !.bound = IF n = 0 THEN @ ELSE NextAllowedInStream(packets[n])]]

(* Only the end of the stream notifies.  Mutant of SetNextTimestampBound.  *)
SetBoundQuietly(s, bound) ==
  [ok |-> s.closed \/ bound >= s.bound,
   stream |-> IF ~s.closed /\ bound > s.bound THEN [s EXCEPT !.bound = bound] ELSE s,
   notify |-> bound = Done /\ IsEmptyStream(s)]

(* A bound behind a queued packet is not noticed by the consumer, who is   *)
(* notified only when the queue is empty.                                  *)
SetNextTimestampBound(s, bound) ==
  LET raised == ~s.closed /\ bound > s.bound
  IN  [ok |-> s.closed \/ bound >= s.bound,
       stream |-> IF raised THEN [s EXCEPT !.bound = bound] ELSE s,
       notify |-> raised /\ IsEmptyStream(s)]

(* Close refuses what comes later; what is queued stays queued.            *)
CloseStream(s) ==
  IF s.closed THEN s ELSE [s EXCEPT !.bound = Done, !.selected = Done, !.closed = TRUE]

(* The packet at t stays queued.  Mutant of PopPacketAtTimestamp.          *)
PopCopies(s, t) ==
  LET n == Leading(Len(s.queue), {i \in DOMAIN s.queue : s.queue[i] >= t})
  IN  [ok |-> s.selected <= t,
       found |-> n < Len(s.queue) /\ s.queue[n + 1] = t,
       dropped |-> n,
       stream |-> [s EXCEPT !.queue = SubSeq(@, n + 1, Len(@)), !.selected = t]]

(* PopPacketAtTimestamp: the packets at the front of the queue up to t are *)
(* taken out.  The last one is returned if it is at t, and the others are  *)
(* dropped.  ok is the CHECK that time does not go backwards.              *)
PopPacketAtTimestamp(s, t) ==
  LET n == Leading(Len(s.queue), {i \in DOMAIN s.queue : s.queue[i] > t})
      found == n > 0 /\ s.queue[n] = t
  IN  [ok |-> s.selected <= t,
       found |-> found,
       dropped |-> IF found THEN n - 1 ELSE n,
       stream |-> [s EXCEPT !.queue = SubSeq(@, n + 1, Len(@)), !.selected = t,
                            !.bound = IF @ <= t THEN NextAllowedInStream(t) ELSE @]]
=============================================================================
