------------------------------- MODULE Player -------------------------------
(***************************************************************************)
(* src/Entity/Player.cpp: the ship, its weapon and its lives.              *)
(*                                                                         *)
(* The two axes of position, velocity and destination obey the same rules  *)
(* and are given by operators on one axis.  Positions and velocities are   *)
(* floats in the code; here they are integers in units of 1/Px pixel, and  *)
(* a product is truncated to the unit.  A destination is in whole pixels,  *)
(* as in the code.                                                         *)
(***************************************************************************)
EXTENDS GameLoop, Bullet

CONSTANTS
  ShipW, ShipH,  \* size of the ship's sprite
  MaxVelocity, MinVelocity, Acceleration,  \* initPhysics: 10, 1 and 3 pixels
  SlowNum, SlowDen,  \* initPhysics: slow = 0.95, as a fraction
  KeyX, KeyY,    \* what A, D and W, S add to the velocity: 3 and 1.2 pixels
  Margin,        \* MOVEMENT_MARGIN, in pixels
  FireCooldown,  \* the 10 of update
  InitialLives,  \* 3
  HandPoints,    \* where the tracked hand may send the ship
  MousePoints,   \* where a click may send it
  KeySets,       \* the keys that may be held down together
  MaxBullets     \* bound: shots of the player followed in a behaviour

NoDestination == <<-1, -1>>
Axes == {1, 2}
Keys == {"W", "S", "A", "D", "Space"}

ASSUME PlayerAssumption ==
  /\ {ShipW, ShipH, SlowDen} \subseteq Nat \ {0}
  /\ {MaxVelocity, MinVelocity, Acceleration, SlowNum, KeyX, KeyY, Margin,
      FireCooldown, InitialLives, MaxBullets} \subseteq Nat
  /\ SlowNum <= SlowDen
  /\ HandPoints \subseteq (Int \X Int)
  /\ MousePoints \subseteq (Int \X Int)
  /\ KeySets \subseteq SUBSET Keys

(* What is left of the full speed after the slowing is a step that does    *)
(* not exceed the margin: 10 * 0.95 and 10 pixels.                         *)
ASSUME MarginAssumption == (MaxVelocity * SlowNum) \div SlowDen <= Margin * Px

VARIABLES
  position, velocity, destination, spawnPosition,
  isFiring, cooldown,
  bullets,     \* bulletVec
  lives,
  state        \* not set by the constructor: either value at first

playerVars == <<position, velocity, destination, spawnPosition, isFiring, cooldown,
                bullets, lives, state>>

Size == <<ShipW, ShipH>>

-----------------------------------------------------------------------------
(* Arithmetic on one axis.                                                 *)

(* Conversion of a/b to int, towards zero.                                 *)
Quotient(a, b) == IF a >= 0 THEN a \div b ELSE -((-a) \div b)

Abs(v) == IF v < 0 THEN -v ELSE v

(* The cap on the velocity at the end of both versions of move.            *)
Capped(v) == IF Abs(v) > MaxVelocity THEN (IF v < 0 THEN -MaxVelocity ELSE MaxVelocity)
             ELSE v

(* move(): dir, the way to the destination in whole pixels.                *)
Dir(dest, p) == Quotient(dest * Px - p, Px)

(* Mutant of Steered: the margin is gone, only the exact pixel stops.      *)
SteeredWithoutMargin(v, dir) == IF dir = 0 THEN 0 ELSE Capped(v + dir * Acceleration)

(* Mutant of Steered: only the upper end of the margin is tested.          *)
SteeredOneWay(v, dir) == IF dir < Margin THEN 0 ELSE Capped(v + dir * Acceleration)

(* move(): full speed towards the destination, stop within the margin.     *)
Steered(v, dir) == IF dir < Margin /\ dir > -Margin THEN 0 ELSE Capped(v + dir * Acceleration)

(* move(dirX, dirY) for the keys of an axis, the negative one first.       *)
Pushed(v, minus, plus, push) ==
  LET w == IF minus THEN Capped(v - push) ELSE v
  IN  IF plus THEN Capped(w + push) ELSE w

(* updatePhysics                                                           *)
Slowed(v) == LET w == Quotient(v * SlowNum, SlowDen)
             IN  IF Abs(w) < MinVelocity THEN 0 ELSE w

(* update: the sprite crosses a border of the window on this axis.         *)
Crosses(p, size, limit) == p < 0 \/ p + size > limit

(* Mutant of Confined: the right and the bottom border are not checked.    *)
ConfinedAtZero(p, size, limit) == IF p < 0 THEN 0 ELSE p

(* update: the position after both borders of the axis were checked.       *)
Confined(p, size, limit) ==
  LET q == IF p < 0 THEN 0 ELSE p
  IN  IF q + size > limit THEN limit - size ELSE q

-----------------------------------------------------------------------------
(* main: the constructor, and setPosition at the middle of the window.     *)
PlayerInit ==
  /\ position = [a \in Axes |-> (window[a] * Px) \div 2]
  /\ spawnPosition = position
  /\ velocity = <<0, 0>>
  /\ destination = NoDestination
  /\ isFiring = FALSE
  /\ cooldown = 0
  /\ bullets = << >>
  /\ lives = InitialLives
  /\ state \in States

(* Mutant of Fires: shoot() does not look at isFiring.                     *)
FiresAlways(fire) == fire

(* shoot(): the bullets after it, where fire says whether it is called.    *)
Fires(fire) == fire /\ ~isFiring
AfterShot(fire) ==
  IF Fires(fire) THEN Append(bullets, NewBullet(position[1] + ShipW \div 2, position[2], BulletSpeed))
  ELSE bullets

(* detectHandMovement: setDestination with the converted wrist, which is   *)
(* NoDestination when there is no hand, then shoot() if the fist is closed.*)
DetectHandMovement(hand, fist) ==
  /\ Fires(fist) => Len(bullets) < MaxBullets
  /\ destination' = hand
  /\ isFiring' = (isFiring \/ fist)
  /\ bullets' = AfterShot(fist)
  /\ UNCHANGED <<position, velocity, spawnPosition, cooldown, lives, state>>

(* updateMovement: the destination once the mouse and the keys were read.  *)
NextDestination(click, keys) ==
  LET clicked == IF click = NoDestination THEN destination ELSE click
  IN  IF keys \cap {"W", "S", "A", "D"} = {} THEN clicked ELSE <<-1, clicked[2]>>

(* updateMovement: the velocity, after the keys and then after move().     *)
KeyVelocity(keys) ==
  <<Pushed(velocity[1], "A" \in keys, "D" \in keys, KeyX),
    Pushed(velocity[2], "W" \in keys, "S" \in keys, KeyY)>>

AimedVelocity(click, keys) ==
  LET dest == NextDestination(click, keys)
      v == KeyVelocity(keys)
  IN  IF dest[1] = -1 THEN v
      ELSE [a \in Axes |-> Steered(v[a], Dir(dest[a], position[a]))]

(* The cooldown of the weapon at the end of update, firing being isFiring  *)
(* after updateMovement.                                                   *)
WeaponCools(firing) ==
  IF cooldown < FireCooldown /\ firing
    THEN isFiring' = TRUE /\ cooldown' = cooldown + 1
  ELSE IF cooldown = FireCooldown
    THEN isFiring' = FALSE /\ cooldown' = 0
  ELSE isFiring' = firing /\ UNCHANGED cooldown

(* update: updateMovement, updatePhysics, the four borders (each of which  *)
(* calls setPosition and so moves the spawn position too), the cooldown    *)
(* and updateBullets.                                                      *)
Update(click, keys) ==
  LET v == [a \in Axes |-> Slowed(AimedVelocity(click, keys)[a])]
      p == [a \in Axes |-> position[a] + v[a]]
      crossed == [a \in Axes |-> Crosses(p[a], Size[a], window[a] * Px)]
      fire == "Space" \in keys
  IN  /\ Fires(fire) => Len(bullets) < MaxBullets
      /\ destination' = NextDestination(click, keys)
      /\ velocity' = [a \in Axes |-> IF crossed[a] THEN 0 ELSE v[a]]
      /\ position' = [a \in Axes |-> Confined(p[a], Size[a], window[a] * Px)]
      /\ spawnPosition' = IF crossed[1] \/ crossed[2] THEN position' ELSE spawnPosition
      /\ bullets' = AllFlown(AfterShot(fire))
      /\ WeaponCools(isFiring \/ fire)
      /\ UNCHANGED <<lives, state>>

(* die: back to the spawn position with a life less, unless none is left.  *)
Die ==
  /\ IF lives > 0
       THEN /\ position' = spawnPosition
            /\ lives' = lives - 1
            /\ state' = "destroyed"
       ELSE UNCHANGED <<position, lives, state>>
  /\ UNCHANGED <<velocity, destination, spawnPosition, isFiring, cooldown>>

(* setState(alive), by checkCollisions                                     *)
Revive ==
  /\ state' = "alive"
  /\ UNCHANGED <<position, velocity, destination, spawnPosition, isFiring, cooldown, lives>>

(* getPlayerBounds                                                         *)
PlayerBounds == Rect(position[1], position[2], ShipW, ShipH)

(* The variables of the player and of the loop stay in their types.        *)
PlayerTypeOK ==
  /\ LoopTypeOK
  /\ position \in Int \X Int
  /\ velocity \in Int \X Int
  /\ destination \in Int \X Int
  /\ spawnPosition \in Int \X Int
  /\ isFiring \in BOOLEAN
  /\ cooldown \in 0 .. FireCooldown
  /\ bullets \in Seq(Bullets)
  /\ lives \in 0 .. InitialLives
  /\ state \in States

-----------------------------------------------------------------------------
(* The player in the game loop.  Of checkCollisions only its effects on    *)
(* the ship are kept here: it lets the player die, or revives it.  What    *)
(* becomes of the bullets is followed in Collisions.                       *)

Hand ==
  /\ At("hand", "update")
  /\ \E hand \in HandPoints \cup {NoDestination}, fist \in BOOLEAN :
       DetectHandMovement(hand, fist)
  /\ UNCHANGED window

Play ==
  /\ At("update", "move")
  /\ \E click \in MousePoints \cup {NoDestination}, keys \in KeySets : Update(click, keys)
  /\ UNCHANGED window

PlayerCollides ==
  /\ At("collide", "poll")
  /\ \/ state = "alive" /\ Die
     \/ Revive
     \/ UNCHANGED <<position, velocity, destination, spawnPosition, isFiring,
                    cooldown, lives, state>>
  /\ UNCHANGED bullets
  /\ UNCHANGED window

PlayerLoopInit == LoopInit /\ PlayerInit

PlayerNext ==
  \/ PollEvents /\ UNCHANGED playerVars
  \/ Hand
  \/ Play
  \/ At("move", "collide") /\ UNCHANGED <<window, playerVars>>
  \/ PlayerCollides

PlayerSpec == PlayerLoopInit /\ [][PlayerNext]_<<loopVars, playerVars>>

(* The loop runs for as long as the window is open.                        *)
PlayerFairSpec == PlayerSpec /\ WF_<<loopVars, playerVars>>(PlayerNext)

-----------------------------------------------------------------------------
(* Properties.                                                             *)

Within(p, a) == 0 <= p[a] /\ p[a] + Size[a] <= window[a] * Px
Inside(p) == \A a \in Axes : Within(p, a)

(* Whatever the user does to the window between two frames, the ship that  *)
(* moves on to cluster.move and checkCollisions is inside it on every axis *)
(* on which the window has room for it, and is drawn there unless it has   *)
(* just respawned.                                                         *)
ShipInWindow ==
  phase \in {"move", "collide"} =>
    \A a \in Axes : Size[a] <= window[a] * Px => Within(position, a)

(* The way to the destination is cut to whole pixels and covered at a      *)
(* speed just below the margin: on neither axis does a step of Player::    *)
(* update carry the ship past the point it steers for.                     *)
NeverOvershoots ==
  [][(phase = "update" /\ Inside(position) /\ destination'[1] # -1) =>
       \A a \in Axes :
         /\ position[a] <= destination'[a] * Px => position'[a] <= destination'[a] * Px
         /\ position[a] >= destination'[a] * Px => position'[a] >= destination'[a] * Px
    ]_<<loopVars, playerVars>>

(* The ship rests within the margin of the destination, or as near as a    *)
(* border of the window lets it.                                           *)
Settled(d) ==
  \A a \in Axes :
    /\ velocity[a] = 0
    /\ \/ Abs(Dir(d[a], position[a])) < Margin
       \/ position[a] = 0 /\ d[a] < 0
       \/ position[a] + Size[a] = window[a] * Px /\ d[a] * Px > position[a]

(* A hand held still brings the ship to rest there once the window keeps   *)
(* its size, whatever the velocity the keys had given it and however often *)
(* it dies on the way.                                                     *)
Arrives ==
  \A d \in HandPoints, w \in WindowSizes :
    <>[](destination = d /\ window = w) => <>[]Settled(d)

(* The weapon keeps its rate however the closed fist and the space bar     *)
(* alternate: update cools it once per frame, and FireCooldown + 1 frames  *)
(* lie between two bullets.                                                *)
Weapon == INSTANCE RateLimiter
            WITH Period <- FireCooldown + 1,
                 fired <- Len(bullets),
                 rest <- IF isFiring THEN FireCooldown + 1 - cooldown ELSE 0

WeaponKeepsItsRate == Weapon!RateSpec
=============================================================================
