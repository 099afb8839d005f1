-------------------------- MODULE MCCalculatorNode --------------------------
(* A node with two input streams and one invocation at a time, with and    *)
(* without timestamp bounds processed, and a node with one input stream    *)
(* and two invocations in flight.                                          *)
EXTENDS CalculatorNode

CONSTANTS w1, w2

MCNodes ==
  {[streams |-> 2, inFlight |-> 1, bounds |-> b, offset |-> TRUE, workers |-> {w1}] :
      b \in BOOLEAN}
    \cup {[streams |-> 1, inFlight |-> 2, bounds |-> FALSE, offset |-> FALSE,
           workers |-> {w1, w2}]}
=============================================================================
