------------------------------- MODULE Score -------------------------------
(***************************************************************************)
(* src/GameProcessing/Score.cpp: the points and the kills that are shown.  *)
(***************************************************************************)
EXTENDS Naturals

VARIABLES score, enemiesKilled

scoreVars == <<score, enemiesKilled>>

(* Score::Score, and reset                                                 *)
ScoreInit == score = 0 /\ enemiesKilled = 0

(* addScore and addEnemyKilled, which checkCollisions calls together.      *)
AddScore(points) == score' = score + points
AddEnemyKilled == enemiesKilled' = enemiesKilled + 1
=============================================================================
