--------------------------- MODULE MonsterCluster ---------------------------
(***************************************************************************)
(* src/Entity/MonsterCluster.cpp and src/Entity/Monster.cpp: the rows of   *)
(* monsters, their march across the window and their bullets.              *)
(*                                                                         *)
(* The cluster keeps the position of every monster and, apart from them,   *)
(* the two edges it turns at; the edges are computed once, in setPosition, *)
(* and then moved along.  Lengths are integers in sub-pixel units.         *)
(***************************************************************************)
EXTENDS GameLoop, Bullet, FiniteSetsExt

CONSTANTS
  MonsterW, MonsterH,  \* size of a monster; also the gap between two of them
  RowSizes,        \* the arguments of the calls of addRow: <<15, 15, 15>>
  Velocities,      \* SPRITE_SPEED / 3 * timeEnd, the way of one frame
  ClusterCooldown  \* the 50 of MonsterCluster::move

ASSUME MonsterClusterAssumption ==
  /\ {MonsterW, MonsterH} \subseteq Nat \ {0} /\ MonsterW % 2 = 0
  /\ RowSizes \in Seq(Nat \ {0}) /\ RowSizes # << >>
  /\ Velocities \subseteq Nat /\ Velocities # {}
  /\ ClusterCooldown \in Nat

VARIABLES
  rows,             \* rows[r][c]: position and state of a monster
  leftEdge, rightEdge,
  nextDir,
  clusterCooldown,  \* MonsterCluster::cooldown
  bulletVec,        \* the monsters' bullets that have not flown off
  destroyedCount

clusterVars == <<rows, leftEdge, rightEdge, nextDir, clusterCooldown, bulletVec,
                 destroyedCount>>

Directions == {"left", "right", "down"}
Monsters == [x : Int, y : Int, state : States]

(* Row and column of every monster, dead or alive.                         *)
Cells == UNION {{<<r, c>> : c \in 1 .. RowSizes[r]} : r \in DOMAIN RowSizes}

(* totalCount, as the calls of addRow leave it                             *)
TotalCount == Cardinality(Cells)

-----------------------------------------------------------------------------
(* setPosition: the length of a row of n monsters, and where they stand.   *)
RowLength(n) == n * MonsterW + MonsterW * (n - 1)

LongestRow == Max({RowSizes[r] : r \in DOMAIN RowSizes})

Placed(xPos, yPos) ==
  [r \in DOMAIN RowSizes |->
     [c \in 1 .. RowSizes[r] |->
        [x |-> xPos + 2 * MonsterW * (c - 1) - RowLength(RowSizes[r]) \div 2,
         y |-> yPos + 2 * MonsterH * (r - 1),
         state |-> "alive"]]]

(* main: the constructor, addRow once per row, and setPosition at the      *)
(* middle of the window, a tenth of it down.                               *)
ClusterInit ==
  LET xPos == (window[1] * Px) \div 2
      yPos == (window[2] * Px) \div 10
  IN  /\ rows = Placed(xPos, yPos)
      /\ leftEdge = xPos - RowLength(LongestRow) \div 2
      /\ rightEdge = xPos + RowLength(LongestRow) \div 2
      /\ nextDir = "right"
      /\ clusterCooldown = 0
      /\ bulletVec = << >>
      /\ destroyedCount = 0

(* move: the step of every monster, dead or alive, in the direction taken. *)
Step(velocity) ==
  [right |-> <<velocity, 0>>, left |-> <<-velocity, 0>>, down |-> <<0, 4 * velocity>>][nextDir]

(* Mutant of Stepped: a dead monster stays behind.                         *)
SteppedIfAlive(monster, step) ==
  IF monster.state # "alive" THEN monster
  ELSE [monster EXCEPT !.x = @ + step[1],
                       !.y = IF @ + step[2] > FarDown THEN FarDown ELSE @ + step[2]]

Stepped(monster, step) ==
  [monster EXCEPT !.x = @ + step[1],
                  !.y = IF @ + step[2] > FarDown THEN FarDown ELSE @ + step[2]]

(* shoot: the lowest living monster of the column fires; a column without  *)
(* one fires nothing.                                                      *)
Shots(cluster, column) ==
  LET armed == {r \in 1 .. Len(cluster) :
                  Len(cluster[r]) >= column /\ cluster[r][column].state = "alive"}
      shooter == cluster[Max(armed)][column]
  IN  IF armed = {} THEN << >>
      ELSE <<NewBullet(shooter.x + MonsterW \div 2, shooter.y, -BulletSpeed)>>

(* move: the cooldown, reset by the shot at its end.                       *)
NextCooldown == IF clusterCooldown < ClusterCooldown THEN clusterCooldown + 1 ELSE 0

(* updateBullets; a bullet that has passed FarDown is no longer followed.  *)
StillFlying(bulletSeq) == SelectSeq(AllFlown(bulletSeq), LAMBDA b : b.y < FarDown)

(* Mutant of NextDirection: the march turns a monster's width too early,   *)
(* but the step down does not know.                                        *)
EarlyDirection(left, right, windowWidth) ==
  CASE nextDir = "right" -> IF right + MonsterW >= windowWidth THEN "down" ELSE "right"
    [] nextDir = "left"  -> IF left <= 0 THEN "down" ELSE "left"
    [] nextDir = "down"  -> IF left <= 0 THEN "right"
                            ELSE IF right >= windowWidth THEN "left" ELSE "down"

(* Mutant of NextDirection: the step down asks for an edge truly beyond    *)
(* the border.                                                             *)
StrictDirection(left, right, windowWidth) ==
  CASE nextDir = "right" -> IF right >= windowWidth THEN "down" ELSE "right"
    [] nextDir = "left"  -> IF left <= 0 THEN "down" ELSE "left"
    [] nextDir = "down"  -> IF left < 0 THEN "right"
                            ELSE IF right > windowWidth THEN "left" ELSE "down"

(* The end of move: where the cluster goes next, given its edges.          *)
NextDirection(left, right, windowWidth) ==
  CASE nextDir = "right" -> IF right >= windowWidth THEN "down" ELSE "right"
    [] nextDir = "left"  -> IF left <= 0 THEN "down" ELSE "left"
    [] nextDir = "down"  -> IF left <= 0 THEN "right"
                            ELSE IF right >= windowWidth THEN "left" ELSE "down"

(* move: the monsters, then the weapon (rand() picks a column of the last  *)
(* row), then the bullets, then the edges and the direction.               *)
Move(velocity, column) ==
  LET step == Step(velocity)
      moved == [r \in DOMAIN rows |-> [c \in DOMAIN rows[r] |-> Stepped(rows[r][c], step)]]
      fires == clusterCooldown = ClusterCooldown
  IN  /\ rows' = moved
      /\ clusterCooldown' = NextCooldown
      /\ bulletVec' = StillFlying(IF fires THEN bulletVec \o Shots(moved, column) ELSE bulletVec)
      /\ leftEdge' = leftEdge + step[1]
      /\ rightEdge' = rightEdge + step[1]
      /\ nextDir' = NextDirection(leftEdge', rightEdge', window[1] * Px)
      /\ UNCHANGED destroyedCount

(* Monster::getMonsterBounds                                               *)
MonsterBounds(m) == Rect(m.x, m.y, MonsterW, MonsterH)

(* checkCollisions: monster.kill() and destroyedCount++                    *)
Kill(r, c) ==
  /\ rows' = [rows EXCEPT ![r][c].state = "destroyed"]
  /\ destroyedCount' = destroyedCount + 1
  /\ UNCHANGED <<leftEdge, rightEdge, nextDir, clusterCooldown>>

(* The variables of the cluster and of the loop stay in their types.       *)
ClusterTypeOK ==
  /\ LoopTypeOK
  /\ DOMAIN rows = DOMAIN RowSizes
  /\ \A r \in DOMAIN RowSizes : rows[r] \in [1 .. RowSizes[r] -> Monsters]
  /\ leftEdge \in Int /\ rightEdge \in Int
  /\ nextDir \in Directions
  /\ clusterCooldown \in 0 .. ClusterCooldown
  /\ bulletVec \in Seq(Bullets)
  /\ destroyedCount \in 0 .. TotalCount

-----------------------------------------------------------------------------
(* main: cluster.move in the game loop, a frame taking any of the times    *)
(* that Velocities stands for.                                             *)
March ==
  /\ At("move", "collide")
  /\ \E velocity \in Velocities, column \in 1 .. RowSizes[Len(RowSizes)] : Move(velocity, column)
  /\ UNCHANGED window

-----------------------------------------------------------------------------
(* Properties.                                                             *)

(* The edges are computed in setPosition and afterwards moved on their     *)
(* own, in another branch of move than the monsters: after any number of   *)
(* turns and kills they are still the outline of the rows.                 *)
EdgesTrackMonsters ==
  /\ leftEdge = Min({rows[p[1]][p[2]].x : p \in Cells})
  /\ rightEdge = Max({rows[p[1]][p[2]].x + MonsterW : p \in Cells})

(* In a window that keeps its size, and has room for the cluster, the edge *)
(* that sent the cluster down is still the only one beyond the border when *)
(* move asks again: one step down, and the march turns round.              *)
TurnsRound ==
  nextDir = "down" =>
    (leftEdge <= 0) # (rightEdge >= window[1] * Px)

(* In such a window the march goes from side to side for ever.             *)
SweepsBothWays == []<>(nextDir = "left") /\ []<>(nextDir = "right")
=============================================================================
