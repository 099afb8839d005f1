---------------------------- MODULE MCThrottling ----------------------------
(***************************************************************************)
(* Graphs with full queues: two graph input streams that wait for each     *)
(* other through the node that joins them; one that the node reads twice,  *)
(* held back by an output stream nobody reads fast enough, and by a node   *)
(* that fails; two that do not wait at a full stream.                      *)
(***************************************************************************)
EXTENDS Throttling

Joined ==
  [inputs |-> {"a", "b"}, feeder |-> [s1 |-> "a", s2 |-> "b"], workers |-> {"w1"},
   outputs |-> {}, wait |-> TRUE, reportDeadlock |-> FALSE, canFail |-> FALSE,
   maxPackets |-> [a |-> 2, b |-> 1]]

Mirrored(packets) ==
  [Joined EXCEPT !.inputs = {"a"}, !.feeder = [s1 |-> "a", s2 |-> "a"], !.outputs = {"o"},
                 !.canFail = TRUE, !.maxPackets = [a |-> packets]]

MCGraphs ==
  {Joined,
   [Joined EXCEPT !.wait = FALSE, !.canFail = TRUE],
   Mirrored(2),
   [Mirrored(3) EXCEPT !.reportDeadlock = TRUE]}
=============================================================================
