------------------------------- MODULE Bullet -------------------------------
(***************************************************************************)
(* src/Entity/Bullet.cpp, and the rectangles of SFML that the game tests   *)
(* for contact.  Lengths are integers in sub-pixel units.                  *)
(*                                                                         *)
(* No bullet is ever erased: it flies out of the window and on.  FarUp and *)
(* FarDown bound that flight; they are beyond everything a bullet can hit. *)
(***************************************************************************)
EXTENDS Integers, Sequences

CONSTANTS
  BulletRadius,   \* circle.setRadius(5)
  BulletSpeed,    \* 5 up for the player, -5 (down) for the monsters
  FarUp, FarDown  \* bound: where the flight of a bullet is no longer followed

ASSUME BulletAssumption ==
  /\ BulletRadius \in Nat /\ BulletSpeed \in Nat \ {0}
  /\ FarUp \in Int /\ FarDown \in Int /\ FarUp < FarDown

(* EntityState.h                                                           *)
States == {"alive", "destroyed"}

Bullets == [x : Int, y : Int, speed : Int, state : States]

(* Bullet::Bullet                                                          *)
NewBullet(x, y, speed) ==
  [x |-> x - BulletRadius, y |-> y, speed |-> speed, state |-> "alive"]

(* Bullet::updateBullet.  Beyond FarUp and FarDown bullets differ no more. *)
Flown(b) ==
  LET y == b.y - b.speed
  IN  IF y <= FarUp THEN [b EXCEPT !.x = 0, !.y = FarUp]
      ELSE IF y >= FarDown THEN [b EXCEPT !.x = 0, !.y = FarDown]
      ELSE [b EXCEPT !.y = y]

(* updateBullets of Player and of MonsterCluster                           *)
AllFlown(bullets) == [i \in DOMAIN bullets |-> Flown(bullets[i])]

(* Bullet::hide                                                            *)
Hidden(b) == [b EXCEPT !.state = "destroyed"]

Rect(left, top, width, height) ==
  [left |-> left, top |-> top, width |-> width, height |-> height]

(* Bullet::getBoundingBox                                                  *)
BulletBox(b) == Rect(b.x, b.y, 2 * BulletRadius, 2 * BulletRadius)

(* sf::FloatRect::intersects: the rectangles share an area, not just an    *)
(* edge.                                                                   *)
Intersects(r, s) ==
  /\ r.left < s.left + s.width /\ s.left < r.left + r.width
  /\ r.top < s.top + s.height /\ s.top < r.top + r.height
=============================================================================
