----------------------------- MODULE Timestamp -----------------------------
(***************************************************************************)
(* framework/timestamp.{h,cc}: the time line of a packet stream, with its  *)
(* special values in the order of their int64 values.  The range           *)
(* Min()..Max() is cut down to 0..MaxTimestamp; three values lie below it  *)
(* and three above it, as in the code.                                     *)
(***************************************************************************)
EXTENDS Integers

CONSTANT MaxTimestamp   \* Timestamp::Max()

ASSUME TimestampAssumption == MaxTimestamp \in Nat

Unset == -3
Unstarted == -2
PreStream == -1
MinTimestamp == 0
PostStream == MaxTimestamp + 1
OneOverPostStream == MaxTimestamp + 2
Done == MaxTimestamp + 3

Timestamps == Unset .. Done

IsRangeValue(t) == MinTimestamp <= t /\ t <= MaxTimestamp
IsAllowedInStream(t) == PreStream <= t /\ t <= PostStream

(* The first timestamp a packet may have after one at t: none may follow a *)
(* packet at PreStream, which must be the only one of its stream.          *)
NextAllowedInStream(t) ==
  IF t >= MaxTimestamp \/ t = PreStream THEN OneOverPostStream
  ELSE IF t < MinTimestamp THEN MinTimestamp ELSE t + 1

PreviousAllowedInStream(t) ==
  IF t <= MinTimestamp \/ t = PostStream THEN Unstarted
  ELSE IF t > MaxTimestamp THEN MaxTimestamp ELSE t - 1

Earlier(s, t) == IF s < t THEN s ELSE t
Later(s, t) == IF s < t THEN t ELSE s
=============================================================================
