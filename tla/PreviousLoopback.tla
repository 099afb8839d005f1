--------------------------- MODULE PreviousLoopback ---------------------------
(***************************************************************************)
(* calculators/core/previous_loopback_calculator.cc: for every packet of   *)
(* MAIN, the packet that LOOP carried at the previous packet of MAIN.      *)
(*                                                                         *)
(* A packet is a timestamp and a value, or NoPacket where the stream was   *)
(* told that none will come.  Timestamps are integers in the order of      *)
(* framework/timestamp.h.                                                  *)
(***************************************************************************)
EXTENDS Integers, Sequences, SequencesExt

CONSTANTS NoPacket, MaxTime   \* Timestamp::Max

Unset == -1
Unstarted == 0
DoneTime == MaxTime + 1

NewLoopback ==
  [specs |-> << >>, prevMain |-> Unstarted, prevNonEmpty |-> Unstarted,
   loops |-> << >>, prevLoop |-> Unset]

(* The pair of the MAIN packet, also of an empty one.  Mutant of NoteMain. *)
NoteAnyMain(c, m) ==
  IF m.ts <= c.prevMain THEN c
  ELSE [c EXCEPT !.specs = Append(@, [ts |-> m.ts, loop |-> c.prevNonEmpty]),
                 !.prevNonEmpty = m.ts, !.prevMain = m.ts]

(* A MAIN packet waits for the LOOP packet of the last MAIN packet; an     *)
(* empty one, a bound, waits for none.                                     *)
NoteMain(c, m) ==
  IF m.ts <= c.prevMain THEN c
  ELSE LET empty == m.value = NoPacket
       IN  [c EXCEPT !.specs = Append(@, [ts |-> m.ts,
                                          loop |-> IF empty THEN Unset ELSE c.prevNonEmpty]),
                     !.prevNonEmpty = IF empty THEN @ ELSE m.ts,
                     !.prevMain = m.ts]

(* The very first empty packet counts.  Without it nothing starts the      *)
(* feedback.  Mutant of NoteLoop.                                          *)
NoteRealLoop(c, l) ==
  IF l.ts <= c.prevLoop \/ l.ts = Unstarted THEN c
  ELSE [c EXCEPT !.loops = Append(@, l), !.prevLoop = l.ts]

NoteLoop(c, l) ==
  IF l.ts <= c.prevLoop THEN c
  ELSE [c EXCEPT !.loops = Append(@, l), !.prevLoop = l.ts]

(* Leaves closing to the node.  Mutant of ClosesAt.                        *)
ClosesNever(ts) == FALSE

(* The last MAIN packet there can be.                                      *)
ClosesAt(ts) == ts = MaxTime

(* One round of the matching.  r.sent is what PREV_LOOP has been given: a  *)
(* packet, or NoPacket for a new bound.                                    *)
Match(r, i) ==
  IF r.calc.specs = << >> \/ r.calc.loops = << >> THEN r
  ELSE LET spec == Head(r.calc.specs)
           cand == Head(r.calc.loops)
           value == IF spec.loop = cand.ts THEN cand.value ELSE NoPacket
       IN  [calc |-> [r.calc EXCEPT
                        !.specs = IF spec.loop <= cand.ts THEN Tail(@) ELSE @,
                        !.loops = IF spec.loop >= cand.ts THEN Tail(@) ELSE @],
            sent |-> IF spec.loop <= cand.ts
                       THEN Append(r.sent, [ts |-> spec.ts, value |-> value]) ELSE r.sent,
            closed |-> r.closed \/ ClosesAt(spec.ts)]

(* Every round takes something away, so that this many rounds empty one of *)
(* the two queues.                                                         *)
Process(c, main, loop) ==
  LET noted == NoteLoop(NoteMain(c, main), loop)
      rounds == [i \in 1..(Len(noted.specs) + Len(noted.loops)) |-> i]
  IN  FoldLeft(Match, [calc |-> noted, sent |-> << >>, closed |-> FALSE], rounds)
=============================================================================
