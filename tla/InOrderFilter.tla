--------------------------- MODULE InOrderFilter ---------------------------
(***************************************************************************)
(* What a graph promises to the program that feeds it: every packet it     *)
(* accepted leaves it once, in the order of acceptance, as a result or     *)
(* without one.                                                            *)
(***************************************************************************)
EXTENDS Sequences

CONSTANT Packets

VARIABLES
  inside,   \* accepted and still to leave
  results   \* what came out

FilterInit == inside = << >> /\ results = << >>

Accept == \E p \in Packets : inside' = Append(inside, p) /\ UNCHANGED results

Leave ==
  /\ inside # << >>
  /\ inside' = Tail(inside)
  /\ results' \in {results, Append(results, Head(inside))}

FilterSpec == FilterInit /\ [][Accept \/ Leave]_<<inside, results>>
=============================================================================
