----------------------------- MODULE Collisions -----------------------------
(***************************************************************************)
(* src/GameProcessing/Collisions.cpp, and with it the whole game but the   *)
(* hand tracker: the player, the cluster and the score in the loop of      *)
(* src/main.cpp.                                                           *)
(***************************************************************************)
EXTENDS Player, MonsterCluster, Score

CONSTANT
  DeathCooldown   \* the 50 of checkCollisions

ASSUME CollisionsAssumption == DeathCooldown \in Nat \ {0}

KillPoints == 100

VARIABLE deathCooldown

gameVars == <<loopVars, playerVars, clusterVars, scoreVars, deathCooldown>>

-----------------------------------------------------------------------------
(* Bullet, row and column of every monster of the cluster.                 *)
Pairs == {h \in (DOMAIN bullets) \X (DOMAIN rows) \X (1 .. LongestRow) : h[3] \in DOMAIN rows[h[2]]}

Touches(h) == Intersects(BulletBox(bullets[h[1]]), MonsterBounds(rows[h[2]][h[3]]))

(* Mutant of Contacts: dead monsters can be hit again.                     *)
ContactsWithDead == {h \in Pairs : bullets[h[1]].state = "alive" /\ Touches(h)}

(* The contacts of a living bullet and a living monster.                   *)
Contacts ==
  {h \in Pairs : bullets[h[1]].state = "alive" /\ rows[h[2]][h[3]].state = "alive" /\ Touches(h)}

(* The order of the three nested loops: bullets, then rows, then columns.  *)
Earlier(h, g) ==
  \/ h[1] < g[1]
  \/ h[1] = g[1] /\ h[2] < g[2]
  \/ h[1] = g[1] /\ h[2] = g[2] /\ h[3] <= g[3]

FirstContact == CHOOSE h \in Contacts : \A g \in Contacts : Earlier(h, g)

(* checkCollisions: the first contact is a kill, and the call returns.     *)
KillMonster ==
  /\ Contacts # {}
  /\ LET h == FirstContact
     IN  /\ Kill(h[2], h[3])
         /\ bullets' = [bullets EXCEPT ![h[1]] = Hidden(@)]
  /\ AddEnemyKilled
  /\ AddScore(KillPoints)
  /\ UNCHANGED <<position, velocity, destination, spawnPosition, isFiring, cooldown,
                 lives, state, bulletVec, deathCooldown>>

Vulnerable == state = "alive" /\ deathCooldown = 0

(* Bullets of the monsters, hidden ones too, that touch the ship.          *)
Strikes == {i \in DOMAIN bulletVec : Intersects(BulletBox(bulletVec[i]), PlayerBounds)}

StrikePlayer ==
  /\ Contacts = {} /\ Vulnerable /\ Strikes # {}
  /\ Die
  /\ bulletVec' = [bulletVec EXCEPT ![Min(Strikes)] = Hidden(@)]
  /\ deathCooldown' = deathCooldown + 1
  /\ UNCHANGED <<bullets, rows, leftEdge, rightEdge, nextDir, clusterCooldown,
                 destroyedCount, scoreVars>>

NothingHit ==
  /\ Contacts = {} /\ Vulnerable /\ Strikes = {}
  /\ UNCHANGED <<playerVars, clusterVars, scoreVars, deathCooldown>>

(* Mutant of CoolDown: the player is set alive in the next frame.          *)
CoolDownAtOnce ==
  /\ Contacts = {} /\ ~Vulnerable
  /\ deathCooldown' = 0 /\ Revive /\ UNCHANGED bullets
  /\ UNCHANGED <<clusterVars, scoreVars>>

(* Mutant of CoolDown: setState(alive) is missing.                         *)
CoolDownForGood ==
  /\ Contacts = {} /\ ~Vulnerable
  /\ deathCooldown' = IF deathCooldown < DeathCooldown THEN deathCooldown + 1 ELSE 0
  /\ UNCHANGED <<playerVars, clusterVars, scoreVars>>

(* The player is not vulnerable: count, and at the end set it alive.       *)
CoolDown ==
  /\ Contacts = {} /\ ~Vulnerable
  /\ IF deathCooldown < DeathCooldown
       THEN deathCooldown' = deathCooldown + 1 /\ UNCHANGED playerVars
       ELSE deathCooldown' = 0 /\ Revive /\ UNCHANGED bullets
  /\ UNCHANGED <<clusterVars, scoreVars>>

CheckCollisions == KillMonster \/ StrikePlayer \/ NothingHit \/ CoolDown

-----------------------------------------------------------------------------
Init ==
  /\ LoopInit /\ PlayerInit /\ ClusterInit /\ ScoreInit
  /\ deathCooldown = 0

(* One iteration of the loop of main.                                      *)
Next ==
  \/ PollEvents /\ UNCHANGED <<playerVars, clusterVars, scoreVars, deathCooldown>>
  \/ Hand /\ UNCHANGED <<clusterVars, scoreVars, deathCooldown>>
  \/ Play /\ UNCHANGED <<clusterVars, scoreVars, deathCooldown>>
  \/ March /\ UNCHANGED <<playerVars, scoreVars, deathCooldown>>
  \/ At("collide", "poll") /\ CheckCollisions /\ UNCHANGED window

Spec == Init /\ [][Next]_gameVars

(* The loop runs for as long as the window is open.                        *)
FairSpec == Spec /\ WF_gameVars(Next)

-----------------------------------------------------------------------------
(* Properties.                                                             *)

(* Every variable of the game stays in its type.                           *)
TypeOK ==
  /\ PlayerTypeOK /\ ClusterTypeOK
  /\ score \in Nat /\ enemiesKilled \in Nat
  /\ deathCooldown \in 0 .. DeathCooldown

Spent == {i \in DOMAIN bullets : bullets[i].state = "destroyed"}
Dead == {p \in Cells : rows[p[1]][p[2]].state = "destroyed"}

(* Four books kept by four classes agree in every frame: the monsters that *)
(* are dead, the cluster's count of them, the kills and points shown, and  *)
(* the player's bullets that are spent.  A bullet that killed does not fly *)
(* on to kill again, and no monster is killed by two bullets.              *)
KillsAddUp ==
  /\ destroyedCount = Cardinality(Dead)
  /\ enemiesKilled = Cardinality(Dead)
  /\ score = KillPoints * Cardinality(Dead)
  /\ Cardinality(Spent) = Cardinality(Dead)

(* The player loses a life only after a whole cooldown since it last did,  *)
(* although every kill on the way skips a tick of the cooldown, and        *)
(* although the state the constructor leaves uninitialised may start one.  *)
Mercy == INSTANCE RateLimiter
           WITH Period <- DeathCooldown + 1,
                fired <- InitialLives - lives,
                rest <- IF Vulnerable THEN 0 ELSE DeathCooldown + 1 - deathCooldown

DeathsKeepTheirDistance == Mercy!RateSpec

(* A destroyed player is set alive again: the early return of              *)
(* checkCollisions after a kill delays the cooldown, it cannot stop it,    *)
(* for there are only so many monsters.                                    *)
Revives == state = "destroyed" ~> state = "alive"
=============================================================================
