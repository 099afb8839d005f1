------------------------ MODULE OutputStreamManager ------------------------
(***************************************************************************)
(* framework/output_stream_manager.cc, output_stream_shard.cc: the writing *)
(* end of a stream.  A calculator writes into a shard; the manager turns   *)
(* the shard into packets and a timestamp bound for the mirrors of the     *)
(* stream, here one input stream.  A packet has the timestamp of the input *)
(* it answers.                                                             *)
(***************************************************************************)
EXTENDS InputStreamManager

NewManager == [bound |-> PreStream, closed |-> FALSE]

(* What a call of Process left in its shard: whether a packet was added at *)
(* the input timestamp, and the manager's bound when the call began        *)
(* (ResetShard).                                                           *)
Shard(manager, adds) == [next |-> manager.bound, adds |-> adds]

(* The bound for the stream after the call at t, of a calculator that did  *)
(* or did not call SetOffset(0); Unset when there is nothing to say.       *)
ComputeOutputTimestampBound(shard, t, offsetEnabled) ==
  LET written == IF shard.adds THEN NextAllowedInStream(t) ELSE Unset
      shardBound == IF shard.adds THEN written ELSE shard.next
      inputBound == IF ~offsetEnabled THEN Unset
                    ELSE IF t = PreStream THEN MinTimestamp
                    ELSE IF t = MaxTimestamp THEN PostStream
                    ELSE IF t = PostStream THEN OneOverPostStream
                    ELSE NextAllowedInStream(t)
  IN  Later(written, IF inputBound > shardBound THEN inputBound ELSE Unset)

(* PropagateUpdatesToMirrors on the mirror: the packets first, then the    *)
(* bound unless the last packet implies it.                                *)
Mirrored(mirror, bound, packets) ==
  LET added == IF packets = << >> THEN [ok |-> TRUE, notify |-> FALSE, stream |-> mirror]
               ELSE AddPackets(mirror, packets)
      implied == packets # << >> /\ NextAllowedInStream(Last(packets)) = bound
  IN  IF bound = Unset \/ implied THEN added
      ELSE LET r == SetNextTimestampBound(added.stream, bound)
           IN  [ok |-> added.ok /\ r.ok, notify |-> added.notify \/ r.notify, stream |-> r.stream]

Propagated(manager, bound) == IF bound = Unset THEN manager ELSE [manager EXCEPT !.bound = bound]

ClosedManager == [bound |-> Done, closed |-> TRUE]
=============================================================================
