----------------------------- MODULE TopScores -----------------------------
(***************************************************************************)
(* The list of the best scores that src/GameProcessing/Score.cpp keeps in  *)
(* top10.txt.  main does not call these operations; here games are played, *)
(* saved and listed in any order.                                          *)
(*                                                                         *)
(* saveTop10 works on the file in three steps: it is opened for writing,   *)
(* opened again and read, and written.                                     *)
(***************************************************************************)
EXTENDS Score, Sequences, FiniteSets, TLC

CONSTANTS
  TopCount,    \* numTopScores, 10
  FirstFiles,  \* what top10.txt may hold at first
  Rewards,     \* what a game may add to the score
  MaxScore,    \* bound: the score of a game
  MaxSaved     \* bound: scores saved in a behaviour, the first file's included

VARIABLES
  step,          \* "play", or where saveTop10 is
  file,          \* the scores in top10.txt
  sortedScores,  \* what saveTop10 has read
  shown,         \* what the last loadTop10 printed
  saved          \* history: the scores of the first file and of every save

topVars == <<scoreVars, step, file, sortedScores, shown, saved>>

(* saveTop10 and loadTop10: sort in descending order and keep the first.   *)

Best(scores) ==
  LET sorted == SortSeq(scores, LAMBDA a, b : a > b)
  IN  SubSeq(sorted, 1, IF Len(sorted) < TopCount THEN Len(sorted) ELSE TopCount)

-----------------------------------------------------------------------------
TopInit ==
  /\ ScoreInit
  /\ step = "play"
  /\ file \in FirstFiles
  /\ sortedScores = << >>
  /\ shown = << >>
  /\ saved = file

(* A kill.                                                                 *)
PlayOn ==
  /\ step = "play"
  /\ \E points \in Rewards : score + points <= MaxScore /\ AddScore(points)
  /\ AddEnemyKilled
  /\ UNCHANGED <<step, file, sortedScores, shown, saved>>

(* Score::reset                                                            *)
Reset ==
  /\ step = "play"
  /\ score' = 0 /\ enemiesKilled' = 0
  /\ UNCHANGED <<step, file, sortedScores, shown, saved>>

(* saveTop10: std::ofstream outFile("top10.txt") empties the file.         *)
OpenForWriting ==
  /\ step = "play"
  /\ Len(saved) < MaxSaved
  /\ file' = << >>
  /\ saved' = Append(saved, score)
  /\ step' = "opened"
  /\ UNCHANGED <<scoreVars, sortedScores, shown>>

(* saveTop10: std::ifstream inFile("top10.txt") and the reading loop.      *)
ReadBack ==
  /\ step = "opened"
  /\ sortedScores' = file
  /\ step' = "read"
  /\ UNCHANGED <<scoreVars, file, shown, saved>>

(* saveTop10: push_back, sort, the best ten to the file.                   *)
WriteBest ==
  /\ step = "read"
  /\ file' = Best(Append(sortedScores, score))
  /\ sortedScores' = << >>
  /\ step' = "play"
  /\ UNCHANGED <<scoreVars, shown, saved>>

(* loadTop10                                                               *)
LoadTop10 ==
  /\ step = "play"
  /\ shown' = Best(file)
  /\ UNCHANGED <<scoreVars, step, file, sortedScores, saved>>

TopNext == \/ PlayOn \/ Reset \/ OpenForWriting \/ ReadBack \/ WriteBest \/ LoadTop10

TopSpec == TopInit /\ [][TopNext]_topVars

-----------------------------------------------------------------------------
(* Properties.                                                             *)

Occurrences(scores, v) == Cardinality({i \in DOMAIN scores : scores[i] = v})
Better(scores, v) == Cardinality({i \in DOMAIN scores : scores[i] > v})

(* A list of the best of the scores: in descending order, and a score is   *)
(* on it as often as places are left by the better ones.                   *)
IsTopOf(list, scores) ==
  /\ \A i \in 1 .. Len(list) - 1 : list[i] >= list[i + 1]
  /\ \A i \in DOMAIN list : \E j \in DOMAIN scores : list[i] = scores[j]
  /\ \A j \in DOMAIN scores :
       LET v == scores[j]
           left == IF Better(scores, v) > TopCount THEN 0 ELSE TopCount - Better(scores, v)
       IN  Occurrences(list, v) = IF Occurrences(scores, v) < left
                                    THEN Occurrences(scores, v) ELSE left

(* Score.cpp lists "Top 10 Scores:": between two saves the file holds the  *)
(* best of all the scores that were ever saved.                            *)
KeepsTheBest == step = "play" => IsTopOf(file, saved)
=============================================================================
