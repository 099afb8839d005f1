---------------------------- MODULE MCTopScores ----------------------------
(* A list of two places.                                                   *)
EXTENDS TopScores

MCGoodFile == {<<3, 1>>}
=============================================================================
