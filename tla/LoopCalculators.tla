--------------------------- MODULE LoopCalculators ---------------------------
(***************************************************************************)
(* calculators/core/begin_loop_calculator.h and end_loop_calculator.h: the *)
(* items of a vector are sent one by one at timestamps of the loop's own,  *)
(* go through the body of the loop, which may drop some, and are collected *)
(* again.  The BATCH_END stream, which goes around the body, tells where a *)
(* vector ends and which timestamp it had.                                 *)
(***************************************************************************)
EXTENDS Integers, Sequences

CONSTANT NoPacket

(* BeginLoop, ts being loop_internal_timestamp_: the items of v by their   *)
(* timestamps.                                                             *)
Items(ts, v) == [u \in ts .. (ts + Len(v) - 1) |-> v[u - ts + 1]]

(* The timestamp after those of v; a vector without items uses one, too.   *)
NextTs(ts, v) == IF v = << >> THEN ts + 1 ELSE ts + Len(v)

(* EndLoop: input_stream_collection_ with the item, if there is one.       *)
Collect(coll, item) == IF item = NoPacket THEN coll ELSE Append(coll, item)

(* The collection is kept after it was sent.  Mutant of Released.          *)
NotReleased(coll) == coll

(* The collection after a flush signal.                                    *)
Released(coll) == << >>

(* ITERABLE at the flush signal: without a collection only a bound.        *)
Collected(coll) == IF coll = << >> THEN NoPacket ELSE coll
=============================================================================
