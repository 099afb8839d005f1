----------------------------- MODULE MCHandGraph -----------------------------
(***************************************************************************)
(* Three rectangles, two of which overlap: one hand in three images, in    *)
(* the overlapping ones; two hands in two images, in the others, and with  *)
(* two palms found in the same place.                                      *)
(***************************************************************************)
EXTENDS HandGraph

CONSTANTS r1, r2, r3

MCNear == {{r1, r2}}
MCSettings ==
  {[numHands |-> 1, rects |-> {r1, r2}, palms |-> 2, frames |-> 3],
   [numHands |-> 2, rects |-> {r1, r3}, palms |-> 1, frames |-> 2],
   [numHands |-> 2, rects |-> {r1}, palms |-> 2, frames |-> 2]}
=============================================================================
