------------------------------ MODULE GameLoop ------------------------------
(***************************************************************************)
(* The game loop of src/main.cpp as far as every part of the game shares   *)
(* it: the order of the calls in one iteration, and the window, which the  *)
(* player may resize while its events are polled (sf::Style::Default).     *)
(* The code never stores the window's size: it asks for it in every frame. *)
(***************************************************************************)
EXTENDS Integers, Sequences

CONSTANTS
  Px,            \* units of length in a pixel
  WindowSizes,   \* the sizes <<width, height>> the window may take
  FirstWindow    \* the size of the window when the game starts

ASSUME GameLoopAssumption ==
  /\ Px \in Nat \ {0}
  /\ WindowSizes \subseteq (Nat \X Nat)
  /\ FirstWindow \in WindowSizes

VARIABLES
  phase,   \* the next call of the loop body
  window   \* window.getSize()

loopVars == <<phase, window>>

(* pollEvent; detectHandMovement; player.update; cluster.move;             *)
(* checkCollisions.  drawScene, the last call, changes no state.           *)
Phases == {"poll", "hand", "update", "move", "collide"}

LoopInit == phase = "poll" /\ window = FirstWindow

LoopTypeOK == phase \in Phases /\ window \in WindowSizes

At(from, to) == phase = from /\ phase' = to

(* Polling the events of the window; a resize changes what getSize says.   *)
PollEvents == At("poll", "hand") /\ window' \in WindowSizes
=============================================================================
