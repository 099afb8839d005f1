--------------------------- MODULE MCHandTracker ---------------------------
(* Two hands at different places: a fist, whose thumb is farthest from the *)
(* wrist, and an open hand, whose thumb is nearest.                        *)
EXTENDS HandTracker

MCLandmarks ==
  [h \in Hands |->
     IF h = "fist"
       THEN << <<2, 4>>, <<5, 4>>, <<2, 2>>, <<3, 2>>, <<3, 3>>, <<3, 4>> >>
       ELSE << <<6, 5>>, <<6, 4>>, <<4, 1>>, <<5, 0>>, <<6, 0>>, <<7, 1>> >>]
=============================================================================
