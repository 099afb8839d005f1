----------------------------- MODULE GameProofs -----------------------------
(***************************************************************************)
(* Proofs of the safety properties of Player and of the whole game, for    *)
(* ships, windows, rows, speeds and cooldowns of any size.  The lemmas on  *)
(* the player are stated for its actions, not for PlayerNext, so that both *)
(* specifications can use them.                                            *)
(***************************************************************************)
EXTENDS Collisions, FiniteSetTheorems, TLAPS

-----------------------------------------------------------------------------
(* Numbers.                                                                *)

(* A set of naturals with an element has a least one.                      *)
LEMMA LeastElement ==
  ASSUME NEW S \in SUBSET Nat, S # {}
  PROVE  \E x \in S : \A y \in S : x <= y
<1>1. PICK x \in S : \A y \in S : ~(<<y, x>> \in OpToRel(<, Nat))
  BY NatLessThanWellFounded, WFMin, Zenon
<1>2. \A y \in S : ~(y < x)
  BY <1>1 DEF OpToRel
<1>3. QED
  BY <1>2

(* A set of naturals below a bound has a greatest element.                 *)
LEMMA GreatestElement ==
  ASSUME NEW S \in SUBSET Nat, S # {}, NEW b \in Nat, \A x \in S : x <= b
  PROVE  \E x \in S : \A y \in S : y <= x
<1> DEFINE Bounds == {n \in Nat : \A x \in S : x <= n}
<1>1. PICK m \in Bounds : \A n \in Bounds : m <= n
  BY LeastElement
<1>2. m \in S
  <2>1. SUFFICES ASSUME m \notin S PROVE FALSE
    OBVIOUS
  <2>2. \A x \in S : x < m
    BY <1>1, <2>1
  <2>3. m \in Nat /\ \E x \in S : x \in Nat /\ x < m
    BY <2>2
  <2>4. m - 1 \in Nat
    BY <2>3
  <2>5. ASSUME NEW x \in S PROVE x <= m - 1
    <3>1. x \in Nat /\ x < m
      BY <2>2
    <3>2. QED
      BY <2>3, <3>1
  <2>6. QED
    BY <1>1, <2>3, <2>4, <2>5
<1>3. QED
  BY <1>1, <1>2

(* The numbers in a list have an upper bound.                              *)
LEMMA ListBounded ==
  ASSUME NEW n \in Nat, NEW f \in [1 .. n -> Nat]
  PROVE  \E b \in Nat : \A i \in 1 .. n : f[i] <= b
<1> DEFINE Bounded(k) == \E b \in Nat : \A i \in 1 .. k : f[i] <= b
           Bad == {k \in Nat : k <= n /\ ~Bounded(k)}
<1> HIDE DEF Bounded
<1>1. SUFFICES ASSUME Bad # {} PROVE FALSE
  <2>1. n \notin Bad => Bounded(n)
    OBVIOUS
  <2>2. QED
    BY <2>1 DEF Bounded
<1>2. PICK k \in Bad : \A j \in Bad : k <= j
  BY <1>1, LeastElement
<1>3. k \in Nat /\ k <= n /\ ~Bounded(k)
  OBVIOUS
<1>4. k # 0
  <2>1. 0 \in Nat /\ \A i \in 1 .. 0 : f[i] <= 0
    OBVIOUS
  <2>2. Bounded(0)
    BY <2>1, Zenon DEF Bounded
  <2>3. QED
    BY <1>3, <2>2
<1>5. k - 1 \in Nat /\ k - 1 <= n /\ k - 1 \notin Bad
  BY <1>2, <1>3, <1>4
<1>6. PICK b \in Nat : \A i \in 1 .. k - 1 : f[i] <= b
  BY <1>5 DEF Bounded
<1> DEFINE c == IF b <= f[k] THEN f[k] ELSE b
<1>7. f[k] \in Nat /\ c \in Nat /\ b <= c /\ f[k] <= c
  BY <1>3, <1>4
<1> HIDE DEF c
<1>8. \A i \in 1 .. k : f[i] <= c
  <2>1. ASSUME NEW i \in 1 .. k PROVE f[i] <= c
    <3>1. CASE i = k
      BY <1>7, <3>1
    <3>2. CASE i # k
      <4>1. i \in 1 .. k - 1 /\ f[i] \in Nat
        BY <1>3, <3>2
      <4>2. QED
        BY <1>6, <1>7, <4>1
    <3>3. QED
      BY <3>1, <3>2
  <2>2. QED
    BY <2>1
<1>9. QED
  BY <1>3, <1>7, <1>8 DEF Bounded

-----------------------------------------------------------------------------
(* Arithmetic on one axis.                                                 *)

(* A quotient cut towards zero is an integer, and keeps the sign of its    *)
(* numerator.                                                              *)
LEMMA QuotientInt ==
  ASSUME NEW a \in Int, NEW b \in Nat \ {0}
  PROVE  /\ Quotient(a, b) \in Int
         /\ a >= 0 => Quotient(a, b) >= 0 /\ b * Quotient(a, b) <= a
         /\ a <= 0 => Quotient(a, b) <= 0 /\ b * Quotient(a, b) >= a
<1>1. a >= 0 => a \div b \in Int /\ a \div b >= 0 /\ b * (a \div b) <= a
  OBVIOUS
<1>2. a < 0 => (-a) \div b \in Int /\ (-a) \div b >= 0 /\ b * ((-a) \div b) <= -a
  OBVIOUS
<1>3. a < 0 => b * (-((-a) \div b)) >= a
  BY <1>2
<1>4. QED
  BY <1>1, <1>2, <1>3 DEF Quotient

(* A velocity is capped at the full speed.                                 *)
LEMMA CappedBound ==
  ASSUME NEW v \in Int
  PROVE  Capped(v) \in Int /\ -MaxVelocity <= Capped(v) /\ Capped(v) <= MaxVelocity
BY PlayerAssumption DEF Capped, Abs

(* Division by a positive number is monotonic.                             *)
LEMMA DivMonotonic ==
  ASSUME NEW a \in Nat, NEW c \in Nat, a <= c, NEW b \in Nat \ {0}
  PROVE  a \div b <= c \div b
<1> DEFINE p == a \div b
           q == c \div b
<1>1. p \in Nat /\ q \in Nat /\ b * p <= a /\ c < b * q + b
  OBVIOUS
<1> HIDE DEF p, q
<1>2. ASSUME p > q PROVE FALSE
  <2>1. p >= q + 1
    BY <1>1, <1>2
  <2>2. b * p >= b * (q + 1)
    BY <1>1, <2>1
  <2>3. b * (q + 1) = b * q + b
    BY <1>1
  <2>4. b * p \in Int /\ b * q \in Int
    BY <1>1
  <2>5. QED
    BY <1>1, <2>2, <2>3, <2>4
<1>3. QED
  BY <1>1, <1>2 DEF p, q

(* What updatePhysics leaves of a capped velocity is not more than a slowed *)
(* step at full speed, either way.                                         *)
LEMMA SlowedBound ==
  ASSUME NEW v \in Int, -MaxVelocity <= v, v <= MaxVelocity
  PROVE  LET full == (MaxVelocity * SlowNum) \div SlowDen
         IN  Slowed(v) \in Int /\ -full <= Slowed(v) /\ Slowed(v) <= full
<1> DEFINE full == (MaxVelocity * SlowNum) \div SlowDen
           w == Quotient(v * SlowNum, SlowDen)
<1>1. MaxVelocity \in Nat /\ SlowNum \in Nat /\ SlowDen \in Nat \ {0} /\ MinVelocity \in Nat
  BY PlayerAssumption
<1>2. v * SlowNum \in Int /\ MaxVelocity * SlowNum \in Nat
  BY <1>1
<1>3. full \in Nat
  BY <1>1, <1>2
<1>4. w \in Int /\ -full <= w /\ w <= full
  <2>1. CASE v >= 0
    <3>1. v * SlowNum \in Nat /\ v * SlowNum <= MaxVelocity * SlowNum
      BY <1>1, <2>1
    <3>2. w = (v * SlowNum) \div SlowDen /\ w \in Nat
      BY <1>1, <3>1 DEF Quotient
    <3>3. QED
      BY <1>1, <1>2, <1>3, <3>1, <3>2, DivMonotonic
  <2>2. CASE v < 0
    <3>1. (-v) * SlowNum \in Nat /\ (-v) * SlowNum <= MaxVelocity * SlowNum
      BY <1>1, <2>2
    <3>2. -(v * SlowNum) = (-v) * SlowNum
      BY <1>1
    <3>3. w = -(((-v) * SlowNum) \div SlowDen) \/ w = 0
      BY <1>1, <1>2, <3>1, <3>2 DEF Quotient
    <3>4. ((-v) * SlowNum) \div SlowDen \in Nat
      BY <1>1, <3>1
    <3>5. ((-v) * SlowNum) \div SlowDen <= full
      BY <1>1, <1>2, <3>1, DivMonotonic
    <3>6. QED
      BY <1>3, <3>3, <3>4, <3>5
  <2>3. QED
    BY <2>1, <2>2
<1>5. Slowed(v) = IF Abs(w) < MinVelocity THEN 0 ELSE w
  BY DEF Slowed
<1> HIDE DEF full, w
<1>6. Slowed(v) \in Int /\ -full <= Slowed(v) /\ Slowed(v) <= full
  BY <1>3, <1>4, <1>5
<1>7. QED
  BY <1>6 DEF full

(* Resting stays resting.                                                  *)
LEMMA SlowedRest == Slowed(0) = 0
<1>1. SlowNum \in Nat /\ SlowDen \in Nat \ {0} /\ MinVelocity \in Nat
  BY PlayerAssumption
<1>2. 0 * SlowNum = 0 /\ Quotient(0, SlowDen) = 0
  BY <1>1 DEF Quotient
<1>3. QED
  BY <1>1, <1>2 DEF Slowed, Abs

(* The borders put the ship into the window, if it fits.                   *)
LEMMA ConfinedInside ==
  ASSUME NEW p \in Int, NEW size \in Nat, NEW limit \in Int, size <= limit
  PROVE  0 <= Confined(p, size, limit) /\ Confined(p, size, limit) + size <= limit
BY DEF Confined

(* A step of update on one axis, from a place inside the window, does not  *)
(* pass the destination: what is left of the way is at least the margin,   *)
(* or the ship stops.                                                      *)
LEMMA AxisNeverOvershoots ==
  ASSUME NEW v \in Int, NEW p \in Int, NEW d \in Int, NEW size \in Nat, NEW limit \in Int,
         0 <= p, p + size <= limit
  PROVE  LET q == Confined(p + Slowed(Steered(v, Dir(d, p))), size, limit)
         IN  (p <= d * Px => q <= d * Px) /\ (p >= d * Px => q >= d * Px)
<1> DEFINE dir == Dir(d, p)
           full == (MaxVelocity * SlowNum) \div SlowDen
           w == Slowed(Steered(v, dir))
           q == Confined(p + w, size, limit)
<1>1. /\ Px \in Nat \ {0} /\ Margin \in Nat /\ Acceleration \in Nat
      /\ MaxVelocity \in Nat /\ SlowNum \in Nat /\ SlowDen \in Nat \ {0}
  BY PlayerAssumption, GameLoopAssumption
<1>2. d * Px \in Int /\ d * Px - p \in Int /\ Margin * Px \in Int
  BY <1>1
<1>3. /\ dir \in Int
      /\ p <= d * Px => dir >= 0 /\ Px * dir <= d * Px - p
      /\ p >= d * Px => dir <= 0 /\ Px * dir >= d * Px - p
  BY <1>1, <1>2, QuotientInt DEF Dir
<1>4. MaxVelocity * SlowNum \in Nat
  BY <1>1
<1>5. full \in Int /\ full <= Margin * Px
  BY <1>1, <1>4, MarginAssumption
<1> HIDE DEF dir, full
<1>6. CASE dir < Margin /\ dir > -Margin
  <2>1. w = 0
    BY <1>6, SlowedRest DEF Steered
  <2>2. q = p
    BY <2>1 DEF Confined
  <2>3. QED
    BY <2>2 DEF dir
<1>7. CASE ~(dir < Margin /\ dir > -Margin)
  <2>1. v + dir * Acceleration \in Int
    BY <1>1, <1>3
  <2>2. w \in Int /\ -full <= w /\ w <= full
    BY <1>7, <2>1, CappedBound, SlowedBound DEF Steered, full
  <2>3. p <= d * Px => w <= d * Px - p
    <3>1. SUFFICES ASSUME p <= d * Px PROVE w <= d * Px - p
      OBVIOUS
    <3>2. dir >= Margin
      BY <1>1, <1>3, <1>7, <3>1
    <3>3. Px * dir \in Int /\ Px * dir >= Margin * Px
      BY <1>1, <1>3, <3>2
    <3>4. QED
      BY <1>2, <1>3, <1>5, <2>2, <3>1, <3>3
  <2>4. p >= d * Px => w >= d * Px - p
    <3>1. SUFFICES ASSUME p >= d * Px PROVE w >= d * Px - p
      OBVIOUS
    <3>2. dir <= -Margin
      BY <1>1, <1>3, <1>7, <3>1
    <3>3. Px * dir \in Int /\ Px * dir <= -(Margin * Px)
      BY <1>1, <1>3, <3>2
    <3>4. QED
      BY <1>2, <1>3, <1>5, <2>2, <3>1, <3>3
  <2> HIDE DEF w
  <2>5. (p <= d * Px => q <= d * Px) /\ (p >= d * Px => q >= d * Px)
    BY <1>2, <2>2, <2>3, <2>4 DEF Confined
  <2>6. QED
    BY <2>5 DEF w, dir
<1>8. QED
  BY <1>6, <1>7

-----------------------------------------------------------------------------
(* Types.                                                                  *)

(* A pair of integers, whether it is written as a pair or axis by axis.    *)
LEMMA AxesPair ==
  ASSUME NEW f, f = [a \in Axes |-> f[a]], \A a \in Axes : f[a] \in Int
  PROVE  f \in Int \X Int
BY DEF Axes

(* A pair of integers has one for each axis.                               *)
LEMMA PairAxes ==
  ASSUME NEW f \in Int \X Int
  PROVE  f \in [Axes -> Int]
BY DEF Axes

(* A bullet starts and flies on as a bullet.                               *)
LEMMA NewBulletType ==
  ASSUME NEW x \in Int, NEW y \in Int, NEW speed \in Int
  PROVE  NewBullet(x, y, speed) \in Bullets
BY BulletAssumption DEF NewBullet, Bullets, States

(* It flies on as a bullet.                                                *)
LEMMA FlownType ==
  ASSUME NEW b \in Bullets
  PROVE  Flown(b) \in Bullets
<1> DEFINE y == b.y - b.speed
<1>1. FarUp \in Int /\ FarDown \in Int /\ 0 \in Int
  BY BulletAssumption
<1>2. y \in Int
  BY DEF Bullets
<1>3. ASSUME NEW u \in Int, NEW v \in Int PROVE [b EXCEPT !.x = u, !.y = v] \in Bullets
  BY DEF Bullets
<1>4. [b EXCEPT !.y = y] \in Bullets
  BY <1>2 DEF Bullets
<1>5. CASE y <= FarUp
  <2>1. Flown(b) = [b EXCEPT !.x = 0, !.y = FarUp]
    BY <1>5 DEF Flown
  <2>2. QED
    BY <1>1, <1>3, <2>1, Zenon
<1>6. CASE ~(y <= FarUp) /\ y >= FarDown
  <2>1. Flown(b) = [b EXCEPT !.x = 0, !.y = FarDown]
    BY <1>6 DEF Flown
  <2>2. QED
    BY <1>1, <1>3, <2>1, Zenon
<1>7. CASE ~(y <= FarUp) /\ ~(y >= FarDown)
  BY <1>2, <1>4, <1>7 DEF Flown
<1>8. QED
  BY <1>5, <1>6, <1>7

(* updateBullets moves every bullet and drops none.                        *)
LEMMA AllFlownType ==
  ASSUME NEW bs \in Seq(Bullets)
  PROVE  AllFlown(bs) \in Seq(Bullets) /\ Len(AllFlown(bs)) = Len(bs)
<1>1. \A i \in 1 .. Len(bs) : Flown(bs[i]) \in Bullets
  BY FlownType
<1>2. QED
  BY <1>1 DEF AllFlown

(* A shot adds one bullet to the list.                                     *)
LEMMA AfterShotType ==
  ASSUME PlayerTypeOK, NEW fire \in BOOLEAN
  PROVE  /\ AfterShot(fire) \in Seq(Bullets)
         /\ Len(AfterShot(fire)) = IF Fires(fire) THEN Len(bullets) + 1 ELSE Len(bullets)
<1>1. position[1] + ShipW \div 2 \in Int /\ position[2] \in Int
  <2>1. ShipW \div 2 \in Int
    BY PlayerAssumption
  <2>2. position \in Int \X Int
    BY DEF PlayerTypeOK
  <2>3. QED
    BY <2>1, <2>2
<1>2. NewBullet(position[1] + ShipW \div 2, position[2], BulletSpeed) \in Bullets
  BY <1>1, NewBulletType, BulletAssumption
<1> DEFINE b == NewBullet(position[1] + ShipW \div 2, position[2], BulletSpeed)
<1>3. bullets \in Seq(Bullets)
  BY DEF PlayerTypeOK
<1> HIDE DEF b
<1>4. Append(bullets, b) \in Seq(Bullets) /\ Len(Append(bullets, b)) = Len(bullets) + 1
  BY <1>2, <1>3 DEF b
<1>5. QED
  BY <1>3, <1>4 DEF AfterShot, b

(* The ship starts in the middle of the window, within its type.           *)
LEMMA InitType == PlayerLoopInit => PlayerTypeOK
<1> SUFFICES ASSUME PlayerLoopInit PROVE PlayerTypeOK
  OBVIOUS
<1> USE DEF PlayerLoopInit, LoopInit, PlayerInit
<1>1. LoopTypeOK
  BY GameLoopAssumption DEF LoopTypeOK, Phases
<1>2. position \in Int \X Int
  <2>1. \A a \in Axes : window[a] \in Nat
    BY GameLoopAssumption DEF Axes
  <2>2. \A a \in Axes : window[a] * Px \in Nat
    BY <2>1, GameLoopAssumption
  <2>3. \A a \in Axes : (window[a] * Px) \div 2 \in Int
    BY <2>2
  <2>4. QED
    BY <2>3, AxesPair
<1>3. destination \in Int \X Int
  BY DEF NoDestination
<1>4. bullets \in Seq(Bullets)
  OBVIOUS
<1>5. cooldown \in 0 .. FireCooldown /\ lives \in 0 .. InitialLives
  BY PlayerAssumption
<1>6. velocity \in Int \X Int
  OBVIOUS
<1>7. QED
  BY <1>1, <1>2, <1>3, <1>4, <1>5, <1>6 DEF PlayerTypeOK

(* detectHandMovement keeps the types.                                     *)
LEMMA HandType == PlayerTypeOK /\ Hand => PlayerTypeOK'
<1> SUFFICES ASSUME PlayerTypeOK, Hand PROVE PlayerTypeOK'
  OBVIOUS
<1>1. PICK hand \in HandPoints \cup {NoDestination}, fist \in BOOLEAN :
        DetectHandMovement(hand, fist)
  BY DEF Hand
<1>2. destination' \in Int \X Int
  BY <1>1, PlayerAssumption DEF DetectHandMovement, NoDestination
<1>3. bullets' \in Seq(Bullets)
  BY <1>1, AfterShotType DEF DetectHandMovement
<1>4. LoopTypeOK'
  BY DEF Hand, At, PlayerTypeOK, LoopTypeOK, Phases
<1>5. QED
  BY <1>1, <1>2, <1>3, <1>4 DEF DetectHandMovement, PlayerTypeOK

(* updateMovement aims the ship at a point, and gives it a velocity, that  *)
(* are pairs of integers.                                                  *)
LEMMA AimType ==
  ASSUME PlayerTypeOK, NEW click \in MousePoints \cup {NoDestination}, NEW keys \in KeySets
  PROVE  /\ NextDestination(click, keys) \in Int \X Int
         /\ KeyVelocity(keys) \in Int \X Int
         /\ \A a \in Axes : /\ AimedVelocity(click, keys)[a] \in Int
                           /\ Slowed(AimedVelocity(click, keys)[a]) \in Int
<1>1. /\ position \in Int \X Int /\ velocity \in Int \X Int /\ destination \in Int \X Int
      /\ click \in Int \X Int
  <2>1. position \in Int \X Int /\ velocity \in Int \X Int /\ destination \in Int \X Int
    BY DEF PlayerTypeOK
  <2>2. NoDestination \in Int \X Int /\ MousePoints \subseteq Int \X Int
    BY PlayerAssumption DEF NoDestination
  <2>3. QED
    BY <2>1, <2>2
<1>2. NextDestination(click, keys) \in Int \X Int
  BY <1>1 DEF NextDestination
<1>3. /\ KeyX \in Nat /\ KeyY \in Nat /\ Acceleration \in Nat /\ Px \in Nat \ {0}
      /\ SlowNum \in Nat /\ SlowDen \in Nat \ {0} /\ MinVelocity \in Nat
  BY PlayerAssumption, GameLoopAssumption
<1>4. ASSUME NEW v \in Int, NEW minus, NEW plus, NEW push \in Nat
      PROVE  Pushed(v, minus, plus, push) \in Int
  <2>1. Capped(v - push) \in Int
    BY CappedBound
  <2>2. Capped(v + push) \in Int /\ Capped(Capped(v - push) + push) \in Int
    BY <2>1, CappedBound
  <2>3. QED
    BY <2>1, <2>2 DEF Pushed
<1>5. KeyVelocity(keys) \in Int \X Int
  BY <1>1, <1>3, <1>4 DEF KeyVelocity
<1>6. ASSUME NEW a \in Axes PROVE AimedVelocity(click, keys)[a] \in Int
  <2> DEFINE v == KeyVelocity(keys)
             dest == NextDestination(click, keys)
             dir == Dir(dest[a], position[a])
  <2>1. v[a] \in Int /\ dest[a] \in Int /\ position[a] \in Int
    BY <1>1, <1>2, <1>5 DEF Axes
  <2>2. dest[a] * Px - position[a] \in Int
    BY <1>3, <2>1
  <2>3. dir \in Int
    BY <1>3, <2>2, QuotientInt DEF Dir
  <2>4. v[a] + dir * Acceleration \in Int
    BY <1>3, <2>1, <2>3
  <2>5. Steered(v[a], dir) \in Int
    BY <2>4, CappedBound DEF Steered
  <2>6. AimedVelocity(click, keys)[a] = IF dest[1] = -1 THEN v[a] ELSE Steered(v[a], dir)
    BY DEF AimedVelocity
  <2>7. QED
    BY <2>1, <2>5, <2>6
<1>7. ASSUME NEW v \in Int PROVE Slowed(v) \in Int
  <2>1. v * SlowNum \in Int
    BY <1>3
  <2>2. Quotient(v * SlowNum, SlowDen) \in Int
    BY <1>3, <2>1, QuotientInt
  <2>3. QED
    BY <2>2 DEF Slowed
<1>8. QED
  BY <1>2, <1>5, <1>6, <1>7

(* Player::update keeps the types.                                         *)
LEMMA PlayType == PlayerTypeOK /\ Play => PlayerTypeOK'
<1> SUFFICES ASSUME PlayerTypeOK, Play PROVE PlayerTypeOK'
  OBVIOUS
<1>1. PICK click \in MousePoints \cup {NoDestination}, keys \in KeySets : Update(click, keys)
  BY DEF Play
<1> DEFINE v == [a \in Axes |-> Slowed(AimedVelocity(click, keys)[a])]
           p == [a \in Axes |-> position[a] + v[a]]
           fire == "Space" \in keys
<1>2. LoopTypeOK' /\ UNCHANGED window
  BY DEF Play, At, PlayerTypeOK, LoopTypeOK, Phases
<1>3. destination' \in Int \X Int
  BY <1>1, AimType DEF Update
<1>4. \A a \in Axes : v[a] \in Int /\ position[a] \in Int /\ window[a] * Px \in Int /\ Size[a] \in Int
  <2>1. \A a \in Axes : v[a] \in Int
    BY AimType
  <2>2. \A a \in Axes : position[a] \in Int /\ window[a] \in Int /\ Size[a] \in Int
    <3>1. position \in Int \X Int /\ window \in Nat \X Nat
      BY GameLoopAssumption DEF PlayerTypeOK, LoopTypeOK
    <3>2. ShipW \in Int /\ ShipH \in Int
      BY PlayerAssumption
    <3>3. QED
      BY <3>1, <3>2 DEF Axes, Size
  <2>3. \A a \in Axes : window[a] * Px \in Int
    BY <2>2, GameLoopAssumption
  <2>4. QED
    BY <2>1, <2>2, <2>3
<1>5. velocity' \in Int \X Int
  <2>1. velocity' = [a \in Axes |-> IF Crosses(p[a], Size[a], window[a] * Px) THEN 0 ELSE v[a]]
    BY <1>1 DEF Update
  <2>2. \A a \in Axes : velocity'[a] \in Int
    BY <1>4, <2>1
  <2>3. QED
    BY <2>1, <2>2, AxesPair
<1>6. position' \in Int \X Int
  <2>1. position' = [a \in Axes |-> Confined(p[a], Size[a], window[a] * Px)]
    BY <1>1 DEF Update
  <2>2. \A a \in Axes : p[a] \in Int
    BY <1>4
  <2> HIDE DEF p, v
  <2>3. \A a \in Axes : position'[a] \in Int
    BY <1>4, <2>1, <2>2 DEF Confined
  <2>4. QED
    BY <2>1, <2>3, AxesPair
<1>7. spawnPosition' \in Int \X Int
  BY <1>1, <1>6 DEF Update, PlayerTypeOK
<1>8. bullets' \in Seq(Bullets)
  <2>1. bullets' = AllFlown(AfterShot(fire)) /\ fire \in BOOLEAN
    BY <1>1 DEF Update
  <2>2. QED
    BY <2>1, AfterShotType, AllFlownType
<1>9. isFiring' \in BOOLEAN /\ cooldown' \in 0 .. FireCooldown
  <2>1. /\ WeaponCools(isFiring \/ fire) /\ cooldown \in 0 .. FireCooldown
        /\ FireCooldown \in Nat /\ isFiring \in BOOLEAN
    BY <1>1, PlayerAssumption DEF Update, PlayerTypeOK
  <2> DEFINE firing == isFiring \/ fire
  <2>2. firing \in BOOLEAN
    OBVIOUS
  <2>3. WeaponCools(firing)
    BY <2>1
  <2> HIDE DEF firing
  <2>4. cooldown' \in 0 .. FireCooldown
    BY <2>1, <2>3 DEF WeaponCools
  <2>5. isFiring' \in BOOLEAN
    BY <2>2, <2>3 DEF WeaponCools
  <2>6. QED
    BY <2>4, <2>5
<1>10. lives' \in 0 .. InitialLives /\ state' \in States
  BY <1>1 DEF Update, PlayerTypeOK
<1>11. QED
  BY <1>2, <1>3, <1>5, <1>6, <1>7, <1>8, <1>9, <1>10 DEF PlayerTypeOK

(* Player::die keeps the types.                                            *)
LEMMA DieType ==
  ASSUME PlayerTypeOK, Die
  PROVE  /\ position' \in Int \X Int /\ spawnPosition' \in Int \X Int
         /\ lives' \in 0 .. InitialLives /\ state' \in States
<1>1. lives \in 0 .. InitialLives /\ InitialLives \in Nat
  BY PlayerAssumption DEF PlayerTypeOK
<1>2. lives' \in 0 .. InitialLives
  BY <1>1 DEF Die
<1>3. QED
  BY <1>2 DEF Die, PlayerTypeOK, States

(* Every step of the loop keeps the types of the player.                   *)
LEMMA PlayerTypeStep ==
  PlayerTypeOK /\ [PlayerNext]_<<loopVars, playerVars>> => PlayerTypeOK'
<1> SUFFICES ASSUME PlayerTypeOK, [PlayerNext]_<<loopVars, playerVars>> PROVE PlayerTypeOK'
  OBVIOUS
<1>1. CASE PollEvents /\ UNCHANGED playerVars
  BY <1>1 DEF PollEvents, At, playerVars, PlayerTypeOK, LoopTypeOK, Phases
<1>2. CASE Hand
  BY <1>2, HandType
<1>3. CASE Play
  BY <1>3, PlayType
<1>4. CASE At("move", "collide") /\ UNCHANGED <<window, playerVars>>
  BY <1>4 DEF At, playerVars, PlayerTypeOK, LoopTypeOK, Phases
<1>5. CASE PlayerCollides
  <2>1. LoopTypeOK' /\ UNCHANGED bullets
    BY <1>5 DEF PlayerCollides, At, PlayerTypeOK, LoopTypeOK, Phases
  <2>2. CASE Die
    BY <2>1, <2>2, DieType DEF Die, PlayerTypeOK
  <2>3. CASE Revive
    BY <2>1, <2>3 DEF Revive, PlayerTypeOK, States
  <2>4. CASE UNCHANGED <<position, velocity, destination, spawnPosition, isFiring,
                         cooldown, lives, state>>
    BY <2>1, <2>4 DEF PlayerTypeOK
  <2>5. QED
    BY <1>5, <2>2, <2>3, <2>4 DEF PlayerCollides
<1>6. CASE UNCHANGED <<loopVars, playerVars>>
  BY <1>6 DEF loopVars, playerVars, PlayerTypeOK, LoopTypeOK
<1>7. QED
  BY <1>1, <1>2, <1>3, <1>4, <1>5, <1>6 DEF PlayerNext

(* The variables of the player and of the loop stay in their types.        *)
THEOREM PlayerTypeCorrect == PlayerSpec => []PlayerTypeOK
<1>1. QED
  BY InitType, PlayerTypeStep, PTL DEF PlayerSpec

-----------------------------------------------------------------------------
(* The ship in the window.                                                 *)

(* What a call of update computes, axis by axis.                           *)
LEMMA UpdateAxes ==
  ASSUME PlayerTypeOK, NEW click \in MousePoints \cup {NoDestination}, NEW keys \in KeySets,
         Update(click, keys), NEW a \in Axes
  PROVE  LET v == Slowed(AimedVelocity(click, keys)[a])
         IN  /\ v \in Int /\ position[a] \in Int /\ window[a] * Px \in Int /\ Size[a] \in Nat
             /\ position'[a] = Confined(position[a] + v, Size[a], window[a] * Px)
<1>1. position \in Int \X Int /\ window \in Nat \X Nat
  BY GameLoopAssumption DEF PlayerTypeOK, LoopTypeOK
<1>2. ShipW \in Nat /\ ShipH \in Nat /\ Px \in Nat
  BY PlayerAssumption, GameLoopAssumption
<1>3. position[a] \in Int /\ window[a] \in Nat /\ Size[a] \in Nat
  BY <1>1, <1>2 DEF Axes, Size
<1>4. window[a] * Px \in Int
  BY <1>2, <1>3
<1>5. Slowed(AimedVelocity(click, keys)[a]) \in Int
  BY AimType
<1>6. position'[a] = Confined(position[a] + Slowed(AimedVelocity(click, keys)[a]),
                              Size[a], window[a] * Px)
  BY DEF Update
<1>7. QED
  BY <1>3, <1>4, <1>5, <1>6

(* update leaves the ship inside the window, wherever it was before.       *)
LEMMA PlayConfines == PlayerTypeOK /\ Play => ShipInWindow'
<1> SUFFICES ASSUME PlayerTypeOK, Play, NEW a \in Axes, Size[a] <= (window[a] * Px)'
             PROVE  Within(position, a)'
  BY DEF ShipInWindow
<1>1. PICK click \in MousePoints \cup {NoDestination}, keys \in KeySets : Update(click, keys)
  BY DEF Play
<1> DEFINE v == Slowed(AimedVelocity(click, keys)[a])
<1>2. UNCHANGED window
  BY DEF Play
<1>3. /\ v \in Int /\ position[a] \in Int /\ Size[a] \in Nat /\ window[a] * Px \in Int
      /\ position'[a] = Confined(position[a] + v, Size[a], window[a] * Px)
  BY <1>1, UpdateAxes, Zenon
<1> HIDE DEF v
<1>4. 0 <= position'[a] /\ position'[a] + Size[a] <= window[a] * Px
  BY <1>2, <1>3, ConfinedInside
<1>5. QED
  BY <1>2, <1>4 DEF Within

(* The ship that goes on to the collisions is inside the window, on every  *)
(* axis on which it fits, whatever has happened to the window's size.      *)
THEOREM ShipStaysInWindow == PlayerSpec => []ShipInWindow
<1>1. PlayerLoopInit => ShipInWindow
  BY DEF PlayerLoopInit, LoopInit, ShipInWindow
<1>2. PlayerTypeOK /\ ShipInWindow /\ [PlayerNext]_<<loopVars, playerVars>> => ShipInWindow'
  <2> SUFFICES ASSUME PlayerTypeOK, ShipInWindow, [PlayerNext]_<<loopVars, playerVars>>
               PROVE  ShipInWindow'
    OBVIOUS
  <2>1. CASE PollEvents \/ Hand \/ PlayerCollides
    <3>1. phase' \in {"hand", "update", "poll"}
      BY <2>1 DEF PollEvents, Hand, PlayerCollides, At
    <3>2. QED
      BY <3>1 DEF ShipInWindow
  <2>2. CASE Play
    BY <2>2, PlayConfines
  <2>3. CASE At("move", "collide") /\ UNCHANGED <<window, playerVars>>
    BY <2>3 DEF At, playerVars, ShipInWindow, Within
  <2>4. CASE UNCHANGED <<loopVars, playerVars>>
    BY <2>4 DEF loopVars, playerVars, ShipInWindow, Within
  <2>5. QED
    BY <2>1, <2>2, <2>3, <2>4 DEF PlayerNext
<1>3. QED
  BY <1>1, <1>2, PlayerTypeCorrect, PTL DEF PlayerSpec

(* A call of update does not carry the ship past what it steers for.       *)
LEMMA PlayNeverOvershoots ==
  ASSUME PlayerTypeOK, Play, Inside(position), destination'[1] # -1, NEW a \in Axes
  PROVE  /\ position[a] <= destination'[a] * Px => position'[a] <= destination'[a] * Px
         /\ position[a] >= destination'[a] * Px => position'[a] >= destination'[a] * Px
<1>1. PICK click \in MousePoints \cup {NoDestination}, keys \in KeySets : Update(click, keys)
  BY DEF Play
<1> DEFINE v == KeyVelocity(keys)
           dest == NextDestination(click, keys)
           w == Slowed(AimedVelocity(click, keys)[a])
           limit == window[a] * Px
<1>2. /\ w \in Int /\ position[a] \in Int /\ Size[a] \in Nat /\ limit \in Int
      /\ position'[a] = Confined(position[a] + w, Size[a], limit)
  BY <1>1, UpdateAxes, Zenon
<1>3. dest \in Int \X Int /\ v \in Int \X Int
  BY AimType
<1>4. dest[a] \in Int /\ v[a] \in Int
  BY <1>3 DEF Axes
<1>5. destination' = dest
  BY <1>1 DEF Update
<1>6. w = Slowed(Steered(v[a], Dir(dest[a], position[a])))
  BY <1>5 DEF AimedVelocity
<1>7. 0 <= position[a] /\ position[a] + Size[a] <= limit
  BY DEF Inside, Within
<1> HIDE DEF v, dest, w, limit
<1>8. LET q == Confined(position[a] + Slowed(Steered(v[a], Dir(dest[a], position[a]))), Size[a], limit)
      IN  /\ position[a] <= dest[a] * Px => q <= dest[a] * Px
          /\ position[a] >= dest[a] * Px => q >= dest[a] * Px
  BY <1>2, <1>4, <1>7, AxisNeverOvershoots
<1>9. QED
  BY <1>2, <1>5, <1>6, <1>8

(* No step of the loop carries a ship that is inside the window past the   *)
(* point it steers for.                                                    *)
THEOREM ShipNeverOvershoots == PlayerSpec => NeverOvershoots
<1> DEFINE Stops ==
      (phase = "update" /\ Inside(position) /\ destination'[1] # -1) =>
        \A a \in Axes :
          /\ position[a] <= destination'[a] * Px => position'[a] <= destination'[a] * Px
          /\ position[a] >= destination'[a] * Px => position'[a] >= destination'[a] * Px
<1>1. PlayerTypeOK /\ [PlayerNext]_<<loopVars, playerVars>> => [Stops]_<<loopVars, playerVars>>
  <2> SUFFICES ASSUME PlayerTypeOK, PlayerNext, phase = "update", Inside(position),
                      destination'[1] # -1, NEW a \in Axes
               PROVE  /\ position[a] <= destination'[a] * Px => position'[a] <= destination'[a] * Px
                      /\ position[a] >= destination'[a] * Px => position'[a] >= destination'[a] * Px
    OBVIOUS
  <2>1. Play
    BY DEF PlayerNext, PollEvents, Hand, PlayerCollides, At
  <2>2. QED
    BY <2>1, PlayNeverOvershoots
<1>2. QED
  BY <1>1, PlayerTypeCorrect, PTL DEF PlayerSpec, NeverOvershoots

-----------------------------------------------------------------------------
(* The weapon.                                                             *)

(* The counter of update runs only while the weapon fires.                 *)
WeaponInv == ~isFiring => cooldown = 0

(* A step that neither fires nor cools does not concern the weapon.        *)
LEMMA WeaponRests ==
  ASSUME WeaponInv, UNCHANGED <<isFiring, cooldown>>, Len(bullets') = Len(bullets)
  PROVE  WeaponInv' /\ UNCHANGED <<Len(bullets), IF isFiring THEN FireCooldown + 1 - cooldown ELSE 0>>
BY DEF WeaponInv

(* detectHandMovement fires a weapon that has rested, or leaves it alone.  *)
LEMMA WeaponByHand ==
  ASSUME PlayerTypeOK, WeaponInv, Hand
  PROVE  /\ WeaponInv'
         /\ \/ Weapon!Fire
            \/ UNCHANGED <<Len(bullets), IF isFiring THEN FireCooldown + 1 - cooldown ELSE 0>>
<1>1. PICK hand \in HandPoints \cup {NoDestination}, fist \in BOOLEAN :
        DetectHandMovement(hand, fist)
  BY DEF Hand
<1>2. /\ UNCHANGED cooldown /\ isFiring' = (isFiring \/ fist)
      /\ Len(bullets') = IF fist /\ ~isFiring THEN Len(bullets) + 1 ELSE Len(bullets)
  BY <1>1, AfterShotType DEF DetectHandMovement, Fires
<1>3. isFiring \in BOOLEAN /\ FireCooldown \in Nat
  BY PlayerAssumption DEF PlayerTypeOK
<1>4. CASE fist /\ ~isFiring
  <2>1. isFiring' /\ ~isFiring /\ cooldown = 0 /\ cooldown' = 0
    BY <1>2, <1>4 DEF WeaponInv
  <2>2. Len(bullets') = Len(bullets) + 1
    BY <1>2, <1>4
  <2>3. Weapon!Fire
    BY <1>3, <2>1, <2>2 DEF Weapon!Fire
  <2>4. QED
    BY <2>1, <2>3 DEF WeaponInv
<1>5. CASE ~(fist /\ ~isFiring)
  <2>1. isFiring' = isFiring
    BY <1>2, <1>3, <1>5
  <2>2. QED
    BY <1>2, <1>5, <2>1, WeaponRests
<1>6. QED
  BY <1>4, <1>5

(* update cools a weapon that fires, fires and cools one that has rested,  *)
(* or leaves it alone.                                                     *)
LEMMA WeaponByUpdate ==
  ASSUME PlayerTypeOK, WeaponInv, Play
  PROVE  /\ WeaponInv'
         /\ \/ Weapon!Tick \/ Weapon!FireAndTick
            \/ UNCHANGED <<Len(bullets), IF isFiring THEN FireCooldown + 1 - cooldown ELSE 0>>
<1>1. PICK click \in MousePoints \cup {NoDestination}, keys \in KeySets : Update(click, keys)
  BY DEF Play
<1> DEFINE fire == "Space" \in keys
<1>2. WeaponCools(isFiring \/ fire) /\ fire \in BOOLEAN
  BY <1>1 DEF Update
<1>3. Len(bullets') = IF fire /\ ~isFiring THEN Len(bullets) + 1 ELSE Len(bullets)
  <2>1. bullets' = AllFlown(AfterShot(fire)) /\ fire \in BOOLEAN
    BY <1>1 DEF Update
  <2>2. /\ AfterShot(fire) \in Seq(Bullets)
        /\ Len(AfterShot(fire)) = IF Fires(fire) THEN Len(bullets) + 1 ELSE Len(bullets)
    BY <2>1, AfterShotType
  <2>3. QED
    BY <2>1, <2>2, AllFlownType DEF Fires
<1>4. isFiring \in BOOLEAN /\ FireCooldown \in Nat /\ cooldown \in 0 .. FireCooldown
  BY PlayerAssumption DEF PlayerTypeOK
<1> HIDE DEF fire
<1>5. CASE isFiring
  <2>1. \/ cooldown < FireCooldown /\ isFiring' /\ cooldown' = cooldown + 1
        \/ cooldown = FireCooldown /\ ~isFiring' /\ cooldown' = 0
    BY <1>2, <1>4, <1>5 DEF WeaponCools
  <2>2. Len(bullets') = Len(bullets)
    BY <1>3, <1>5
  <2>3. Weapon!Tick /\ WeaponInv'
    BY <1>4, <1>5, <2>1, <2>2 DEF Weapon!Tick, WeaponInv
  <2>4. QED
    BY <2>3
<1>6. CASE ~isFiring /\ fire
  <2>1. cooldown = 0
    BY <1>6 DEF WeaponInv
  <2>2. \/ 0 < FireCooldown /\ isFiring' /\ cooldown' = 1
        \/ FireCooldown = 0 /\ ~isFiring' /\ cooldown' = 0
    BY <1>2, <1>4, <1>6, <2>1 DEF WeaponCools
  <2>3. Len(bullets') = Len(bullets) + 1
    BY <1>3, <1>6
  <2>4. Weapon!FireAndTick /\ WeaponInv'
    BY <1>4, <1>6, <2>1, <2>2, <2>3 DEF Weapon!FireAndTick, WeaponInv
  <2>5. QED
    BY <2>4
<1>7. CASE ~isFiring /\ ~fire
  <2>1. cooldown = 0
    BY <1>7 DEF WeaponInv
  <2>2. ~isFiring' /\ cooldown' = 0
    BY <1>2, <1>4, <1>7, <2>1 DEF WeaponCools
  <2>3. Len(bullets') = Len(bullets)
    BY <1>3, <1>7
  <2>4. QED
    BY <1>7, <2>1, <2>2, <2>3 DEF WeaponInv
<1>8. QED
  BY <1>4, <1>5, <1>6, <1>7

(* The weapon starts rested.                                               *)
LEMMA WeaponInit == PlayerInit => WeaponInv /\ Weapon!RateInit
BY DEF PlayerInit, WeaponInv, Weapon!RateInit

(* The player implements the abstract weapon: however the fist and the     *)
(* space bar alternate, FireCooldown + 1 frames lie between two bullets.   *)
THEOREM WeaponImplementsRate == PlayerSpec => WeaponKeepsItsRate
<1> DEFINE view == <<Len(bullets), IF isFiring THEN FireCooldown + 1 - cooldown ELSE 0>>
<1>1. PlayerLoopInit => WeaponInv /\ Weapon!RateInit
  BY WeaponInit DEF PlayerLoopInit
<1>2. PlayerTypeOK /\ WeaponInv /\ [PlayerNext]_<<loopVars, playerVars>> =>
        WeaponInv' /\ [Weapon!RateNext]_view
  <2> SUFFICES ASSUME PlayerTypeOK, WeaponInv, [PlayerNext]_<<loopVars, playerVars>>
               PROVE  WeaponInv' /\ [Weapon!RateNext]_view
    OBVIOUS
  <2>1. CASE Hand
    BY <2>1, WeaponByHand DEF Weapon!RateNext
  <2>2. CASE Play
    BY <2>2, WeaponByUpdate DEF Weapon!RateNext
  <2>3. CASE ~Hand /\ ~Play
    <3>1. UNCHANGED <<isFiring, cooldown>> /\ Len(bullets') = Len(bullets)
      BY <2>3 DEF PlayerNext, PlayerCollides, Die, Revive, playerVars
    <3>2. QED
      BY <3>1, WeaponRests
  <2>4. QED
    BY <2>1, <2>2, <2>3
<1>3. QED
  BY <1>1, <1>2, PlayerTypeCorrect, PTL DEF PlayerSpec, WeaponKeepsItsRate, Weapon!RateSpec


-----------------------------------------------------------------------------
(* The monsters.                                                           *)

(* The rows keep the monsters they were given, and the edges are numbers.  *)
ClusterShape ==
  /\ DOMAIN rows = DOMAIN RowSizes
  /\ \A r \in DOMAIN RowSizes : rows[r] \in [1 .. RowSizes[r] -> Monsters]
  /\ leftEdge \in Int /\ rightEdge \in Int /\ nextDir \in Directions

(* A cell is a row and a column of it.                                     *)
LEMMA CellsAreColumns ==
  /\ \A r \in DOMAIN RowSizes : \A c \in 1 .. RowSizes[r] : <<r, c>> \in Cells
  /\ \A p \in Cells : /\ p[1] \in DOMAIN RowSizes /\ p[2] \in 1 .. RowSizes[p[1]]
                      /\ p = <<p[1], p[2]>>
BY DEF Cells

(* The sizes of the rows are positive numbers.                             *)
LEMMA RowSizesPositive ==
  /\ Len(RowSizes) \in Nat \ {0} /\ DOMAIN RowSizes = 1 .. Len(RowSizes)
  /\ \A r \in DOMAIN RowSizes : RowSizes[r] \in Nat \ {0}
BY MonsterClusterAssumption

(* The longest row is one of the rows, and none is longer.                 *)
LEMMA LongestRowSpec ==
  /\ \E r \in DOMAIN RowSizes : LongestRow = RowSizes[r]
  /\ \A r \in DOMAIN RowSizes : RowSizes[r] <= LongestRow
<1> DEFINE S == {RowSizes[r] : r \in DOMAIN RowSizes}
<1>1. S \in SUBSET Nat /\ S # {}
  BY RowSizesPositive
<1>2. PICK b \in Nat : \A i \in 1 .. Len(RowSizes) : RowSizes[i] <= b
  <2>1. RowSizes \in [1 .. Len(RowSizes) -> Nat]
    BY MonsterClusterAssumption
  <2>2. QED
    BY <2>1, RowSizesPositive, ListBounded
<1>3. \A x \in S : x <= b
  BY <1>2, RowSizesPositive
<1>4. \E x \in S : \A y \in S : y <= x
  BY <1>1, <1>3, GreatestElement
<1>5. LongestRow \in S /\ \A y \in S : LongestRow >= y
  BY <1>1, <1>4 DEF LongestRow, Max
<1>6. QED
  BY <1>1, <1>5

(* setPosition places whole monsters, on integer positions.                *)
LEMMA PlacedShape ==
  ASSUME NEW x \in Int, NEW y \in Int, NEW r \in DOMAIN RowSizes
  PROVE  Placed(x, y)[r] \in [1 .. RowSizes[r] -> Monsters]
<1>1. MonsterW \in Nat \ {0} /\ MonsterH \in Nat \ {0}
  BY MonsterClusterAssumption
<1>2. RowSizes[r] \in Nat /\ r \in Nat
  BY RowSizesPositive
<1>3. RowLength(RowSizes[r]) \in Int
  BY <1>1, <1>2 DEF RowLength
<1>4. RowLength(RowSizes[r]) \div 2 \in Int
  BY <1>3
<1>5. ASSUME NEW c \in 1 .. RowSizes[r]
      PROVE  /\ x + 2 * MonsterW * (c - 1) - RowLength(RowSizes[r]) \div 2 \in Int
             /\ y + 2 * MonsterH * (r - 1) \in Int
  <2>1. 2 * MonsterW * (c - 1) \in Int /\ 2 * MonsterH * (r - 1) \in Int
    BY <1>1, <1>2
  <2>2. QED
    BY <1>4, <2>1
<1>6. QED
  BY <1>5 DEF Placed, Monsters, States

(* The middle and the tenth of the window are integers.                    *)
LEMMA FirstPlace ==
  ASSUME LoopInit
  PROVE  /\ window[1] * Px \in Nat
         /\ (window[1] * Px) \div 2 \in Int /\ (window[2] * Px) \div 10 \in Int
<1>1. window \in Nat \X Nat /\ Px \in Nat
  BY GameLoopAssumption DEF LoopInit
<1>2. window[1] \in Nat /\ window[2] \in Nat
  BY <1>1
<1>3. window[1] * Px \in Nat /\ window[2] * Px \in Nat
  BY <1>1, <1>2
<1>4. QED
  BY <1>3

(* The length of a row is an even number of units, and longer rows are     *)
(* longer.                                                                 *)
LEMMA RowLengths ==
  ASSUME NEW n \in Nat \ {0}, NEW m \in Nat \ {0}
  PROVE  /\ RowLength(n) \in Nat
         /\ RowLength(n) = 2 * MonsterW * (n - 1) + MonsterW
         /\ RowLength(n) \div 2 \in Nat /\ RowLength(n) = 2 * (RowLength(n) \div 2)
         /\ n <= m => RowLength(n) \div 2 <= RowLength(m) \div 2
<1>1. MonsterW \in Nat \ {0} /\ MonsterW % 2 = 0
  BY MonsterClusterAssumption
<1>2. PICK k \in Nat : MonsterW = 2 * k
  <2>1. MonsterW = 2 * (MonsterW \div 2) /\ MonsterW \div 2 \in Nat
    BY <1>1
  <2>2. QED
    BY <2>1
<1>3. ASSUME NEW i \in Nat \ {0}
      PROVE  /\ RowLength(i) = 2 * (k * (2 * i - 1)) /\ k * (2 * i - 1) \in Nat
             /\ RowLength(i) = 2 * MonsterW * (i - 1) + MonsterW
  <2>1. 2 * i - 1 \in Nat /\ k * (2 * i - 1) \in Nat
    BY <1>2
  <2>2. RowLength(i) = 2 * (k * (2 * i - 1))
    BY <1>2 DEF RowLength
  <2>3. RowLength(i) = 2 * MonsterW * (i - 1) + MonsterW
    BY <1>1 DEF RowLength
  <2>4. QED
    BY <2>1, <2>2, <2>3
<1>4. ASSUME NEW i \in Nat \ {0} PROVE RowLength(i) \div 2 = k * (2 * i - 1)
  <2>1. ASSUME NEW j \in Nat PROVE (2 * j) \div 2 = j
    OBVIOUS
  <2>2. QED
    BY <1>3, <2>1, Zenon
<1>5. n <= m => k * (2 * n - 1) <= k * (2 * m - 1)
  BY <1>2
<1>6. /\ RowLength(n) = 2 * (k * (2 * n - 1)) /\ k * (2 * n - 1) \in Nat
      /\ RowLength(n) = 2 * MonsterW * (n - 1) + MonsterW
      /\ RowLength(n) \div 2 = k * (2 * n - 1) /\ RowLength(m) \div 2 = k * (2 * m - 1)
  BY <1>3, <1>4
<1> DEFINE hn == k * (2 * n - 1)
           hm == k * (2 * m - 1)
<1>7. /\ RowLength(n) = 2 * hn /\ hn \in Nat /\ RowLength(n) \div 2 = hn
      /\ RowLength(m) \div 2 = hm
      /\ n <= m => hn <= hm
  BY <1>5, <1>6
<1> HIDE DEF hn, hm
<1>8. RowLength(n) \in Nat
  BY <1>7
<1>9. QED
  BY <1>6, <1>7, <1>8

(* setPosition leaves whole rows.                                          *)
LEMMA ClusterInitShape == LoopInit /\ ClusterInit => ClusterShape
<1> SUFFICES ASSUME LoopInit, ClusterInit PROVE ClusterShape
  OBVIOUS
<1> DEFINE xPos == (window[1] * Px) \div 2
           yPos == (window[2] * Px) \div 10
<1>1. xPos \in Int /\ yPos \in Int
  BY FirstPlace
<1>2. rows = Placed(xPos, yPos)
  BY DEF ClusterInit
<1>3. LongestRow \in Nat \ {0}
  BY LongestRowSpec, RowSizesPositive
<1>4. RowLength(LongestRow) \div 2 \in Int
  BY <1>3, RowLengths
<1>5. /\ leftEdge = xPos - RowLength(LongestRow) \div 2
      /\ rightEdge = xPos + RowLength(LongestRow) \div 2 /\ nextDir = "right"
  BY DEF ClusterInit
<1> HIDE DEF xPos, yPos
<1>6. DOMAIN rows = DOMAIN RowSizes
  BY <1>2 DEF Placed
<1>7. \A r \in DOMAIN RowSizes : rows[r] \in [1 .. RowSizes[r] -> Monsters]
  BY <1>1, <1>2, PlacedShape
<1>8. QED
  BY <1>1, <1>4, <1>5, <1>6, <1>7 DEF ClusterShape, Directions

(* What a call of move does: all monsters, dead or alive, and both edges   *)
(* go the same way sideways, and nobody dies.                              *)
LEMMA MarchMoves ==
  ASSUME ClusterShape, March
  PROVE  /\ ClusterShape'
         /\ \E d \in Int :
              /\ leftEdge' = leftEdge + d /\ rightEdge' = rightEdge + d
              /\ nextDir = "down" => d = 0
              /\ \A r \in DOMAIN RowSizes : \A c \in 1 .. RowSizes[r] :
                   /\ rows'[r][c].x = rows[r][c].x + d
                   /\ rows'[r][c].state = rows[r][c].state
         /\ nextDir' = NextDirection(leftEdge', rightEdge', window[1] * Px)
         /\ UNCHANGED <<window, destroyedCount>>
<1>1. PICK velocity_ \in Velocities, column \in 1 .. RowSizes[Len(RowSizes)] : Move(velocity_, column)
  BY DEF March
<1> DEFINE step == Step(velocity_)
<1>2. velocity_ \in Nat
  BY MonsterClusterAssumption
<1>3. /\ step[1] \in Int /\ step[2] \in Int
      /\ nextDir = "down" => step[1] = 0
  BY <1>2 DEF ClusterShape, Directions, Step
<1>4. /\ rows' = [r \in DOMAIN rows |-> [c \in DOMAIN rows[r] |-> Stepped(rows[r][c], step)]]
      /\ leftEdge' = leftEdge + step[1] /\ rightEdge' = rightEdge + step[1]
      /\ nextDir' = NextDirection(leftEdge', rightEdge', window[1] * Px)
      /\ UNCHANGED destroyedCount
  BY <1>1 DEF Move
<1> HIDE DEF step
<1>5. ASSUME NEW m \in Monsters
      PROVE  /\ Stepped(m, step) \in Monsters
             /\ Stepped(m, step).x = m.x + step[1] /\ Stepped(m, step).state = m.state
  <2> DEFINE y == IF m.y + step[2] > FarDown THEN FarDown ELSE m.y + step[2]
  <2>1. m.x \in Int /\ m.y \in Int /\ FarDown \in Int
    BY BulletAssumption DEF Monsters
  <2>2. m.x + step[1] \in Int /\ m.y + step[2] \in Int
    <3>1. \A i, j \in Int : i + j \in Int
      OBVIOUS
    <3>2. QED
      BY <1>3, <2>1, <3>1, Zenon
  <2>3. y \in Int
    BY <2>1, <2>2
  <2>4. Stepped(m, step) = [m EXCEPT !.x = m.x + step[1], !.y = y]
    BY DEF Stepped, Monsters
  <2> HIDE DEF y
  <2>5. QED
    BY <2>2, <2>3, <2>4 DEF Monsters
<1>6. ASSUME NEW r \in DOMAIN RowSizes
      PROVE  /\ rows'[r] = [c \in 1 .. RowSizes[r] |-> Stepped(rows[r][c], step)]
             /\ rows[r] \in [1 .. RowSizes[r] -> Monsters]
  BY <1>4 DEF ClusterShape
<1>7. DOMAIN rows' = DOMAIN RowSizes
  BY <1>4 DEF ClusterShape
<1>8. ASSUME NEW r \in DOMAIN RowSizes, NEW c \in 1 .. RowSizes[r]
      PROVE  /\ Stepped(rows[r][c], step) \in Monsters
             /\ rows'[r][c].x = rows[r][c].x + step[1]
             /\ rows'[r][c].state = rows[r][c].state
  <2>1. rows[r][c] \in Monsters /\ rows'[r][c] = Stepped(rows[r][c], step)
    BY <1>6
  <2>2. QED
    BY <1>5, <2>1, Zenon
<1>9. ASSUME NEW r \in DOMAIN RowSizes PROVE rows'[r] \in [1 .. RowSizes[r] -> Monsters]
  BY <1>6, <1>8
<1>10. leftEdge' \in Int /\ rightEdge' \in Int
  <2>1. leftEdge \in Int /\ rightEdge \in Int
    BY DEF ClusterShape
  <2>2. \A i, j \in Int : i + j \in Int
    OBVIOUS
  <2>3. QED
    BY <1>3, <1>4, <2>1, <2>2, Zenon
<1>11. nextDir' \in Directions
  BY <1>4 DEF ClusterShape, Directions, NextDirection
<1>12. ClusterShape'
  BY <1>7, <1>9, <1>10, <1>11 DEF ClusterShape
<1>13. UNCHANGED <<window, destroyedCount>>
  BY <1>4 DEF March
<1>14. \A r \in DOMAIN RowSizes : \A c \in 1 .. RowSizes[r] :
          rows'[r][c].x = rows[r][c].x + step[1] /\ rows'[r][c].state = rows[r][c].state
  BY <1>8
<1>15. QED
  BY <1>3, <1>4, <1>12, <1>13, <1>14, Zenon

-----------------------------------------------------------------------------
(* checkCollisions.                                                        *)

(* What a contact is made of.                                              *)
LEMMA ContactParts ==
  ASSUME PlayerTypeOK, ClusterShape, NEW h \in Contacts
  PROVE  /\ h[1] \in DOMAIN bullets /\ h[1] \in Nat
         /\ h[2] \in DOMAIN RowSizes /\ h[2] \in Nat
         /\ h[3] \in 1 .. RowSizes[h[2]] /\ h[3] \in Nat
         /\ bullets[h[1]].state = "alive" /\ rows[h[2]][h[3]].state = "alive"
<1>1. /\ h[1] \in DOMAIN bullets /\ h[2] \in DOMAIN rows /\ h[3] \in DOMAIN rows[h[2]]
      /\ bullets[h[1]].state = "alive" /\ rows[h[2]][h[3]].state = "alive"
  BY DEF Contacts, Pairs
<1>2. DOMAIN rows = DOMAIN RowSizes /\ rows[h[2]] \in [1 .. RowSizes[h[2]] -> Monsters]
  BY <1>1 DEF ClusterShape
<1>3. bullets \in Seq(Bullets)
  BY DEF PlayerTypeOK
<1>4. DOMAIN bullets = 1 .. Len(bullets) /\ Len(bullets) \in Nat
  BY <1>3
<1>5. QED
  BY <1>1, <1>2, <1>4, RowSizesPositive

(* The three nested loops find a contact if there is one.                  *)
LEMMA FirstContactFound ==
  ASSUME PlayerTypeOK, ClusterShape, Contacts # {}
  PROVE  FirstContact \in Contacts
<1> DEFINE A == {h[1] : h \in Contacts}
<1>1. A \in SUBSET Nat /\ A # {}
  BY ContactParts
<1>2. PICK a \in A : \A x \in A : a <= x
  BY <1>1, LeastElement
<1> DEFINE InA == {h \in Contacts : h[1] = a}
           B == {h[2] : h \in InA}
<1>3. B \in SUBSET Nat /\ B # {}
  BY ContactParts
<1>4. PICK b \in B : \A x \in B : b <= x
  BY <1>3, LeastElement
<1> DEFINE InB == {h \in InA : h[2] = b}
           C == {h[3] : h \in InB}
<1>5. C \in SUBSET Nat /\ C # {}
  BY ContactParts
<1>6. PICK c \in C : \A x \in C : c <= x
  BY <1>5, LeastElement
<1>7. PICK h \in InB : h[3] = c
  OBVIOUS
<1>8. ASSUME NEW g \in Contacts PROVE Earlier(h, g)
  <2>1. a \in Nat /\ g[1] \in Nat /\ a <= g[1]
    BY <1>1, <1>2, ContactParts
  <2>2. g[1] = a => b \in Nat /\ g[2] \in Nat /\ b <= g[2]
    BY <1>3, <1>4, ContactParts
  <2>3. g[1] = a /\ g[2] = b => c <= g[3]
    BY <1>6
  <2>4. h[1] = a /\ h[2] = b /\ h[3] = c
    BY <1>7
  <2>5. QED
    BY <2>1, <2>2, <2>3, <2>4 DEF Earlier
<1>9. h \in Contacts
  BY <1>7
<1>10. QED
  BY <1>8, <1>9 DEF FirstContact

Killed(r, c) == rows' = [rows EXCEPT ![r][c].state = "destroyed"]

(* A kill is the kill of one living monster by one living bullet.          *)
LEMMA KillEffect ==
  ASSUME PlayerTypeOK, ClusterShape, KillMonster
  PROVE  \E i \in DOMAIN bullets, r \in DOMAIN RowSizes : \E c \in 1 .. RowSizes[r] :
           /\ bullets[i].state = "alive" /\ rows[r][c].state = "alive"
           /\ bullets' = [bullets EXCEPT ![i] = Hidden(bullets[i])]
           /\ Killed(r, c)
<1>1. FirstContact \in Contacts
  BY FirstContactFound DEF KillMonster
<1>2. /\ bullets' = [bullets EXCEPT ![FirstContact[1]] = Hidden(bullets[FirstContact[1]])]
      /\ rows' = [rows EXCEPT ![FirstContact[2]][FirstContact[3]].state = "destroyed"]
  BY DEF KillMonster, Kill
<1>3. /\ FirstContact[1] \in DOMAIN bullets
      /\ FirstContact[2] \in DOMAIN RowSizes
      /\ FirstContact[3] \in 1 .. RowSizes[FirstContact[2]]
      /\ bullets[FirstContact[1]].state = "alive"
      /\ rows[FirstContact[2]][FirstContact[3]].state = "alive"
  BY <1>1, ContactParts, Zenon
<1>4. QED
  BY <1>2, <1>3, Zenon DEF Killed

(* One value of a function replaced.                                       *)
LEMMA OneReplaced ==
  ASSUME NEW S, NEW T, NEW f \in [S -> T], NEW c \in S, NEW m \in T
  PROVE  /\ [f EXCEPT ![c] = m] \in [S -> T]
         /\ \A d \in S : [f EXCEPT ![c] = m][d] = IF d = c THEN m ELSE f[d]
OBVIOUS

(* A kill moves no monster and changes the state of that one alone.        *)
LEMMA KillMonsters ==
  ASSUME ClusterShape, NEW r \in DOMAIN RowSizes, NEW c \in 1 .. RowSizes[r],
         Killed(r, c)
  PROVE  /\ DOMAIN rows' = DOMAIN RowSizes
         /\ \A q \in DOMAIN RowSizes : rows'[q] \in [1 .. RowSizes[q] -> Monsters]
         /\ \A q \in DOMAIN RowSizes : \A d \in 1 .. RowSizes[q] : rows'[q][d].x = rows[q][d].x
         /\ \A q \in DOMAIN RowSizes : \A d \in 1 .. RowSizes[q] :
              rows'[q][d].state = IF q = r /\ d = c THEN "destroyed" ELSE rows[q][d].state
<1>1. /\ DOMAIN rows = DOMAIN RowSizes
      /\ \A q \in DOMAIN RowSizes : rows[q] \in [1 .. RowSizes[q] -> Monsters]
  BY DEF ClusterShape
<1>2. rows[r][c] \in Monsters
  BY <1>1
<1> DEFINE m == [rows[r][c] EXCEPT !.state = "destroyed"]
<1>3. m \in Monsters /\ m.x = rows[r][c].x /\ m.state = "destroyed"
  BY <1>2 DEF Monsters, States
<1>4. rows' = [rows EXCEPT ![r] = [rows[r] EXCEPT ![c] = m]]
  BY DEF Killed
<1> HIDE DEF m
<1>5. DOMAIN rows' = DOMAIN RowSizes
  BY <1>1, <1>4
<1>6. ASSUME NEW q \in DOMAIN RowSizes
      PROVE  /\ rows'[q] \in [1 .. RowSizes[q] -> Monsters]
             /\ \A d \in 1 .. RowSizes[q] :
                  rows'[q][d] = IF q = r /\ d = c THEN m ELSE rows[q][d]
  <2>1. CASE q = r
    <3>1. rows'[q] = [rows[q] EXCEPT ![c] = m]
      BY <1>1, <1>4, <2>1
    <3>2. rows[q] \in [1 .. RowSizes[q] -> Monsters]
      BY <1>1
    <3>3. c \in 1 .. RowSizes[q] /\ m \in Monsters
      BY <1>3, <2>1
    <3>4. /\ [rows[q] EXCEPT ![c] = m] \in [1 .. RowSizes[q] -> Monsters]
          /\ \A d \in 1 .. RowSizes[q] :
               [rows[q] EXCEPT ![c] = m][d] = IF d = c THEN m ELSE rows[q][d]
      BY <3>2, <3>3, OneReplaced, Zenon
    <3>5. QED
      BY <2>1, <3>1, <3>4, Zenon
  <2>2. CASE q # r
    <3>1. rows'[q] = rows[q]
      BY <1>1, <1>4, <2>2
    <3>2. QED
      BY <1>1, <2>2, <3>1
  <2>3. QED
    BY <2>1, <2>2
<1>7. QED
  BY <1>3, <1>5, <1>6

(* checkCollisions leaves the player in its types and the rows whole.      *)
LEMMA CollideType ==
  ASSUME PlayerTypeOK, ClusterShape, CheckCollisions, At("collide", "poll"), UNCHANGED window
  PROVE  PlayerTypeOK' /\ ClusterShape'
<1>1. LoopTypeOK'
  BY DEF PlayerTypeOK, LoopTypeOK, At, Phases
<1>2. CASE KillMonster
  <2>1. PICK i \in DOMAIN bullets, r \in DOMAIN RowSizes : \E c \in 1 .. RowSizes[r] :
           /\ bullets' = [bullets EXCEPT ![i] = Hidden(bullets[i])]
           /\ Killed(r, c)
    BY <1>2, KillEffect
  <2>2. PICK c \in 1 .. RowSizes[r] : Killed(r, c)
    BY <2>1
  <2>3. bullets' \in Seq(Bullets)
    <3>1. bullets \in Seq(Bullets)
      BY DEF PlayerTypeOK
    <3>2. bullets[i] \in Bullets
      BY <3>1
    <3>3. Hidden(bullets[i]) \in Bullets
      BY <3>2 DEF Hidden, Bullets, States
    <3>4. QED
      BY <2>1, <3>1, <3>3
  <2>4. PlayerTypeOK'
    BY <1>1, <1>2, <2>3 DEF KillMonster, PlayerTypeOK
  <2>5. DOMAIN rows' = DOMAIN RowSizes /\ \A q \in DOMAIN RowSizes : rows'[q] \in [1 .. RowSizes[q] -> Monsters]
    BY <2>2, KillMonsters
  <2>6. ClusterShape'
    BY <1>2, <2>5 DEF KillMonster, Kill, ClusterShape
  <2>7. QED
    BY <2>4, <2>6
<1>3. CASE StrikePlayer
  <2>1. /\ position' \in Int \X Int /\ spawnPosition' \in Int \X Int
        /\ lives' \in 0 .. InitialLives /\ state' \in States
    BY <1>3, DieType DEF StrikePlayer
  <2>2. PlayerTypeOK'
    BY <1>1, <1>3, <2>1 DEF StrikePlayer, Die, PlayerTypeOK
  <2>3. ClusterShape'
    BY <1>3 DEF StrikePlayer, ClusterShape
  <2>4. QED
    BY <2>2, <2>3
<1>4. CASE NothingHit
  BY <1>1, <1>4 DEF NothingHit, PlayerTypeOK, ClusterShape, playerVars, clusterVars
<1>5. CASE CoolDown
  <2>1. state' \in States /\ UNCHANGED <<position, velocity, destination, spawnPosition, isFiring,
                                        cooldown, bullets, lives>>
    BY <1>5 DEF CoolDown, Revive, States, playerVars, PlayerTypeOK
  <2>2. PlayerTypeOK'
    BY <1>1, <2>1 DEF PlayerTypeOK
  <2>3. ClusterShape'
    BY <1>5 DEF CoolDown, clusterVars, ClusterShape
  <2>4. QED
    BY <2>2, <2>3
<1>6. QED
  BY <1>2, <1>3, <1>4, <1>5 DEF CheckCollisions

(* The types of the player and of the cluster, for the whole game.         *)
GameInv == PlayerTypeOK /\ ClusterShape

(* The game starts with a ship and a cluster of the right shape.           *)
LEMMA GameInvInit == Init => GameInv
BY InitType, ClusterInitShape DEF Init, GameInv, PlayerLoopInit

(* Every iteration of the loop keeps them.                                 *)
LEMMA GameInvStep == GameInv /\ [Next]_gameVars => GameInv'
<1> SUFFICES ASSUME GameInv, [Next]_gameVars PROVE GameInv'
  OBVIOUS
<1>1. PlayerTypeOK /\ ClusterShape
  BY DEF GameInv
<1>2. CASE PollEvents /\ UNCHANGED <<playerVars, clusterVars>>
  BY <1>1, <1>2 DEF PollEvents, At, playerVars, clusterVars, PlayerTypeOK, LoopTypeOK, Phases,
                    ClusterShape, GameInv
<1>3. CASE (Hand \/ Play) /\ UNCHANGED clusterVars
  <2>1. PlayerTypeOK'
    BY <1>1, <1>3, HandType, PlayType
  <2>2. ClusterShape'
    BY <1>1, <1>3 DEF clusterVars, ClusterShape
  <2>3. QED
    BY <2>1, <2>2 DEF GameInv
<1>4. CASE March /\ UNCHANGED playerVars
  <2>1. ClusterShape'
    BY <1>1, <1>4, MarchMoves
  <2>2. PlayerTypeOK'
    BY <1>1, <1>4 DEF March, At, playerVars, PlayerTypeOK, LoopTypeOK, Phases
  <2>3. QED
    BY <2>1, <2>2 DEF GameInv
<1>5. CASE At("collide", "poll") /\ CheckCollisions /\ UNCHANGED window
  BY <1>1, <1>5, CollideType DEF GameInv
<1>6. CASE UNCHANGED gameVars
  BY <1>1, <1>6 DEF gameVars, loopVars, playerVars, clusterVars, PlayerTypeOK, LoopTypeOK,
                    ClusterShape, GameInv
<1>7. QED
  BY <1>2, <1>3, <1>4, <1>5, <1>6 DEF Next

-----------------------------------------------------------------------------
(* The edges of the cluster.                                               *)

(* The edges are reached by monsters, and none is beyond them.             *)
EdgeInv ==
  /\ \A r \in DOMAIN RowSizes : \A c \in 1 .. RowSizes[r] :
       leftEdge <= rows[r][c].x /\ rows[r][c].x + MonsterW <= rightEdge
  /\ \E r \in DOMAIN RowSizes : \E c \in 1 .. RowSizes[r] : rows[r][c].x = leftEdge
  /\ \E r \in DOMAIN RowSizes : \E c \in 1 .. RowSizes[r] : rows[r][c].x + MonsterW = rightEdge

(* Where setPosition puts a monster, seen from the edges.                  *)
LEMMA PlacedBetween ==
  ASSUME NEW x \in Int, NEW y \in Int, NEW r \in DOMAIN RowSizes, NEW c \in 1 .. RowSizes[r]
  PROVE  LET half == RowLength(RowSizes[r]) \div 2
             longest == RowLength(LongestRow) \div 2
             left == Placed(x, y)[r][c].x
         IN  /\ half \in Nat /\ longest \in Nat /\ half <= longest /\ left \in Int
             /\ x - half <= left /\ left + MonsterW <= x + half
             /\ c = 1 => left = x - half
             /\ c = RowSizes[r] => left + MonsterW = x + half
<1> DEFINE n == RowSizes[r]
           half == RowLength(n) \div 2
           longest == RowLength(LongestRow) \div 2
           left == Placed(x, y)[r][c].x
           way == 2 * MonsterW * (c - 1)
           whole == 2 * MonsterW * (n - 1)
<1>1. n \in Nat \ {0} /\ LongestRow \in Nat \ {0} /\ n <= LongestRow /\ MonsterW \in Nat \ {0}
  BY LongestRowSpec, RowSizesPositive, MonsterClusterAssumption
<1>2. /\ half \in Nat /\ RowLength(n) = whole + MonsterW /\ RowLength(n) = 2 * half
      /\ half <= longest
  BY <1>1, RowLengths
<1>3. longest \in Nat
  BY <1>1, RowLengths
<1>4. left = x + way - half
  BY DEF Placed
<1>5. /\ way \in Nat /\ whole \in Nat /\ way <= whole
      /\ c = 1 => way = 0
  BY <1>1
<1>6. c = n => way = whole
  OBVIOUS
<1> HIDE DEF n, half, longest, left, way, whole
<1>7. half \in Nat /\ whole + MonsterW = 2 * half
  BY <1>2
<1>8. left \in Int /\ x - half <= left /\ left + MonsterW <= x + half
  BY <1>1, <1>4, <1>5, <1>7
<1>9. /\ c = 1 => left = x - half
      /\ c = n => left + MonsterW = x + half
  BY <1>1, <1>4, <1>5, <1>6, <1>7
<1>10. QED
  BY <1>2, <1>3, <1>8, <1>9 DEF n, half, longest, left

(* setPosition computes the edges of what it places.                       *)
LEMMA EdgesPlaced == LoopInit /\ ClusterInit => EdgeInv
<1> SUFFICES ASSUME LoopInit, ClusterInit PROVE EdgeInv
  OBVIOUS
<1> DEFINE xPos == (window[1] * Px) \div 2
           yPos == (window[2] * Px) \div 10
           longest == RowLength(LongestRow) \div 2
<1>1. xPos \in Int /\ yPos \in Int
  BY FirstPlace
<1>2. rows = Placed(xPos, yPos) /\ leftEdge = xPos - longest /\ rightEdge = xPos + longest
  BY DEF ClusterInit
<1> HIDE DEF xPos, yPos, longest
<1>3. ASSUME NEW r \in DOMAIN RowSizes, NEW c \in 1 .. RowSizes[r], NEW half,
             half = RowLength(RowSizes[r]) \div 2
      PROVE  /\ half \in Nat /\ longest \in Nat /\ half <= longest /\ rows[r][c].x \in Int
             /\ xPos - half <= rows[r][c].x /\ rows[r][c].x + MonsterW <= xPos + half
             /\ c = 1 => rows[r][c].x = xPos - half
             /\ c = RowSizes[r] => rows[r][c].x + MonsterW = xPos + half
  BY <1>1, <1>2, <1>3, PlacedBetween DEF longest
<1>4. MonsterW \in Nat
  BY MonsterClusterAssumption
<1>5. ASSUME NEW r \in DOMAIN RowSizes, NEW c \in 1 .. RowSizes[r]
      PROVE  leftEdge <= rows[r][c].x /\ rows[r][c].x + MonsterW <= rightEdge
  <2> DEFINE half == RowLength(RowSizes[r]) \div 2
             left == rows[r][c].x
  <2>1. /\ half \in Nat /\ longest \in Nat /\ half <= longest /\ left \in Int
        /\ xPos - half <= left /\ left + MonsterW <= xPos + half
    BY <1>3
  <2> HIDE DEF half, left
  <2>2. xPos - longest <= left /\ left + MonsterW <= xPos + longest
    BY <1>1, <1>4, <2>1
  <2>3. QED
    BY <1>2, <2>2 DEF left
<1>6. PICK r \in DOMAIN RowSizes : LongestRow = RowSizes[r]
  BY LongestRowSpec
<1>7. longest = RowLength(RowSizes[r]) \div 2 /\ RowSizes[r] \in Nat \ {0}
  BY <1>6, RowSizesPositive DEF longest
<1>8. 1 \in 1 .. RowSizes[r] /\ RowSizes[r] \in 1 .. RowSizes[r]
  BY <1>7
<1>9. rows[r][1].x = leftEdge /\ rows[r][RowSizes[r]].x + MonsterW = rightEdge
  BY <1>2, <1>3, <1>7, <1>8
<1>10. QED
  BY <1>5, <1>8, <1>9 DEF EdgeInv

(* What moves all monsters and both edges alike keeps them.                *)
LEMMA EdgesShift ==
  ASSUME ClusterShape, EdgeInv, NEW d \in Int,
         leftEdge' = leftEdge + d, rightEdge' = rightEdge + d,
         \A r \in DOMAIN RowSizes : \A c \in 1 .. RowSizes[r] : rows'[r][c].x = rows[r][c].x + d
  PROVE  EdgeInv'
<1>1. leftEdge \in Int /\ rightEdge \in Int /\ MonsterW \in Nat
  BY MonsterClusterAssumption DEF ClusterShape
<1>2. ASSUME NEW r \in DOMAIN RowSizes, NEW c \in 1 .. RowSizes[r] PROVE rows[r][c].x \in Int
  BY DEF ClusterShape, Monsters
<1>3. ASSUME NEW r \in DOMAIN RowSizes, NEW c \in 1 .. RowSizes[r]
      PROVE  leftEdge' <= rows'[r][c].x /\ rows'[r][c].x + MonsterW <= rightEdge'
  <2>1. leftEdge <= rows[r][c].x /\ rows[r][c].x + MonsterW <= rightEdge
    BY DEF EdgeInv
  <2>2. rows'[r][c].x = rows[r][c].x + d
    OBVIOUS
  <2>3. QED
    BY <1>1, <1>2, <2>1, <2>2
<1>4. PICK r \in DOMAIN RowSizes : \E c \in 1 .. RowSizes[r] : rows[r][c].x = leftEdge
  BY DEF EdgeInv
<1>5. \E c \in 1 .. RowSizes[r] : rows'[r][c].x = leftEdge'
  BY <1>4
<1>6. PICK q \in DOMAIN RowSizes : \E c \in 1 .. RowSizes[q] : rows[q][c].x + MonsterW = rightEdge
  BY DEF EdgeInv
<1>7. \E c \in 1 .. RowSizes[q] : rows'[q][c].x + MonsterW = rightEdge'
  <2>1. PICK c \in 1 .. RowSizes[q] : rows[q][c].x + MonsterW = rightEdge
    BY <1>6
  <2>2. rows'[q][c].x = rows[q][c].x + d /\ rows[q][c].x \in Int
    BY <1>2
  <2>3. rows'[q][c].x + MonsterW = rightEdge'
    BY <1>1, <2>1, <2>2
  <2>4. QED
    BY <2>3
<1>8. QED
  BY <1>3, <1>5, <1>7 DEF EdgeInv

(* Every iteration of the loop keeps the edges.                            *)
LEMMA EdgesStep == GameInv /\ EdgeInv /\ [Next]_gameVars => EdgeInv'
<1> SUFFICES ASSUME GameInv, EdgeInv, [Next]_gameVars PROVE EdgeInv'
  OBVIOUS
<1>1. PlayerTypeOK /\ ClusterShape
  BY DEF GameInv
<1>2. CASE March
  <2>1. PICK d \in Int :
          /\ leftEdge' = leftEdge + d /\ rightEdge' = rightEdge + d
          /\ \A r \in DOMAIN RowSizes : \A c \in 1 .. RowSizes[r] :
                /\ rows'[r][c].x = rows[r][c].x + d
                /\ rows'[r][c].state = rows[r][c].state
    BY <1>1, <1>2, MarchMoves
  <2>2. QED
    BY <1>1, <2>1, EdgesShift
<1>3. CASE KillMonster
  <2>1. PICK r \in DOMAIN RowSizes : \E c \in 1 .. RowSizes[r] :
          Killed(r, c)
    BY <1>1, <1>3, KillEffect
  <2>2. PICK c \in 1 .. RowSizes[r] : Killed(r, c)
    BY <2>1
  <2>3. \A q \in DOMAIN RowSizes : \A e \in 1 .. RowSizes[q] : rows'[q][e].x = rows[q][e].x
    BY <1>1, <2>2, KillMonsters
  <2>4. UNCHANGED <<leftEdge, rightEdge>>
    BY <1>3 DEF KillMonster, Kill
  <2>5. QED
    BY <2>3, <2>4 DEF EdgeInv
<1>4. CASE ~March /\ ~KillMonster
  <2>1. UNCHANGED <<rows, leftEdge, rightEdge>>
    BY <1>4 DEF Next, CheckCollisions, StrikePlayer, NothingHit, CoolDown, clusterVars, gameVars
  <2>2. QED
    BY <2>1 DEF EdgeInv
<1>5. QED
  BY <1>2, <1>3, <1>4

(* They are then the minimum and the maximum of the property.              *)
LEMMA EdgesAreTheOutline == ClusterShape /\ EdgeInv => EdgesTrackMonsters
<1> SUFFICES ASSUME ClusterShape, EdgeInv PROVE EdgesTrackMonsters
  OBVIOUS
<1> DEFINE L == {rows[p[1]][p[2]].x : p \in Cells}
           R == {rows[p[1]][p[2]].x + MonsterW : p \in Cells}
<1>1. leftEdge \in Int /\ rightEdge \in Int /\ MonsterW \in Nat
  BY MonsterClusterAssumption DEF ClusterShape
<1>2. ASSUME NEW p \in Cells
      PROVE  /\ rows[p[1]][p[2]].x \in Int /\ rows[p[1]][p[2]].x + MonsterW \in Int
             /\ leftEdge <= rows[p[1]][p[2]].x /\ rows[p[1]][p[2]].x + MonsterW <= rightEdge
  <2>1. p[1] \in DOMAIN RowSizes /\ p[2] \in 1 .. RowSizes[p[1]]
    BY CellsAreColumns
  <2>2. rows[p[1]][p[2]].x \in Int
    BY <2>1 DEF ClusterShape, Monsters
  <2>3. rows[p[1]][p[2]].x + MonsterW \in Int
    BY <1>1, <2>2
  <2>4. QED
    BY <2>1, <2>2, <2>3 DEF EdgeInv
<1>3. leftEdge \in L
  <2>1. PICK r \in DOMAIN RowSizes : \E c \in 1 .. RowSizes[r] : rows[r][c].x = leftEdge
    BY DEF EdgeInv
  <2>2. PICK c \in 1 .. RowSizes[r] : rows[r][c].x = leftEdge
    BY <2>1
  <2>3. <<r, c>> \in Cells
    BY CellsAreColumns
  <2>4. QED
    BY <2>2, <2>3
<1>4. rightEdge \in R
  <2>1. PICK r \in DOMAIN RowSizes : \E c \in 1 .. RowSizes[r] : rows[r][c].x + MonsterW = rightEdge
    BY DEF EdgeInv
  <2>2. PICK c \in 1 .. RowSizes[r] : rows[r][c].x + MonsterW = rightEdge
    BY <2>1
  <2>3. <<r, c>> \in Cells
    BY CellsAreColumns
  <2>4. QED
    BY <2>2, <2>3
<1>5. /\ \A x \in L : x \in Int /\ leftEdge <= x
      /\ \A x \in R : x \in Int /\ x <= rightEdge
  BY <1>2
<1> HIDE DEF L, R
<1>6. leftEdge = Min(L)
  <2>1. Min(L) \in L /\ \A y \in L : Min(L) <= y
    BY <1>3, <1>5 DEF Min
  <2>2. Min(L) \in Int /\ Min(L) <= leftEdge /\ leftEdge <= Min(L)
    BY <1>3, <1>5, <2>1, Zenon
  <2>3. QED
    BY <1>1, <2>2
<1>7. rightEdge = Max(R)
  <2>1. Max(R) \in R /\ \A y \in R : Max(R) >= y
    BY <1>1, <1>4, <1>5 DEF Max
  <2>2. Max(R) \in Int /\ Max(R) >= rightEdge /\ Max(R) <= rightEdge
    BY <1>4, <1>5, <2>1, Zenon
  <2>3. QED
    BY <1>1, <2>2
<1>8. QED
  BY <1>6, <1>7 DEF EdgesTrackMonsters, L, R

(* The edges computed once and moved on their own stay the outline of the  *)
(* rows, for every number and size of rows and every path of the window.   *)
THEOREM EdgesAlwaysTrack == Spec => []EdgesTrackMonsters
<1>1. Init => GameInv /\ EdgeInv
  BY GameInvInit, EdgesPlaced DEF Init
<1>2. GameInv /\ EdgeInv /\ [Next]_gameVars => (GameInv /\ EdgeInv)'
  BY GameInvStep, EdgesStep
<1>3. GameInv /\ EdgeInv => EdgesTrackMonsters
  BY EdgesAreTheOutline DEF GameInv
<1>4. QED
  BY <1>1, <1>2, <1>3, PTL DEF Spec

-----------------------------------------------------------------------------
(* The march.                                                              *)

(* The windows that TurnsRound speaks of: they keep their width, and the   *)
(* longest row has room to move in it.                                     *)
SteadyWidth ==
  \A w \in WindowSizes : w[1] = FirstWindow[1] /\ RowLength(LongestRow) < w[1] * Px

(* The cluster keeps its length; a direction is only kept while its border *)
(* is not reached, and down is taken at exactly one border.                *)
MarchInv ==
  /\ window[1] * Px \in Nat /\ window[1] = FirstWindow[1]
  /\ rightEdge - leftEdge = RowLength(LongestRow)
  /\ nextDir = "right" => rightEdge < window[1] * Px
  /\ nextDir = "left" => leftEdge > 0
  /\ nextDir = "down" => (leftEdge <= 0) # (rightEdge >= window[1] * Px)

(* setPosition leaves room on both sides.                                  *)
LEMMA MarchInvInit == SteadyWidth /\ Init => MarchInv
<1> SUFFICES ASSUME SteadyWidth, Init PROVE MarchInv
  OBVIOUS
<1> DEFINE W == window[1] * Px
           xPos == W \div 2
           longest == RowLength(LongestRow) \div 2
<1>1. W \in Nat
  BY FirstPlace DEF Init
<1>2. /\ leftEdge = xPos - longest /\ rightEdge = xPos + longest /\ nextDir = "right"
      /\ window = FirstWindow
  BY DEF Init, ClusterInit, LoopInit
<1>3. LongestRow \in Nat \ {0}
  BY LongestRowSpec, RowSizesPositive
<1>4. longest \in Nat /\ RowLength(LongestRow) = 2 * longest
  BY <1>3, RowLengths
<1>5. RowLength(LongestRow) < W
  BY <1>2, GameLoopAssumption DEF SteadyWidth
<1> HIDE DEF W, longest
<1>6. xPos \in Nat /\ 2 * xPos <= W
  BY <1>1
<1>7. rightEdge - leftEdge = RowLength(LongestRow) /\ rightEdge < W
  BY <1>1, <1>2, <1>4, <1>5, <1>6
<1>8. QED
  BY <1>1, <1>2, <1>7 DEF MarchInv, W

(* Every iteration of the loop keeps this in such a window.                *)
LEMMA MarchInvStep == SteadyWidth /\ GameInv /\ MarchInv /\ [Next]_gameVars => MarchInv'
<1> SUFFICES ASSUME SteadyWidth, GameInv, MarchInv, [Next]_gameVars PROVE MarchInv'
  OBVIOUS
<1> DEFINE W == window[1] * Px
           long == RowLength(LongestRow)
<1>1. PlayerTypeOK /\ ClusterShape
  BY DEF GameInv
<1>2. W \in Nat /\ window[1] = FirstWindow[1]
  BY DEF MarchInv
<1>3. /\ leftEdge \in Int /\ rightEdge \in Int /\ nextDir \in Directions
      /\ rightEdge - leftEdge = long
  BY <1>1 DEF ClusterShape, MarchInv
<1>4. window \in WindowSizes
  BY <1>1 DEF PlayerTypeOK, LoopTypeOK
<1>5. long < W /\ long \in Nat
  <2>1. LongestRow \in Nat \ {0}
    BY LongestRowSpec, RowSizesPositive
  <2>2. QED
    BY <1>4, <2>1, RowLengths DEF SteadyWidth
<1>6. CASE March
  <2>1. PICK d \in Int :
          /\ leftEdge' = leftEdge + d /\ rightEdge' = rightEdge + d
          /\ nextDir = "down" => d = 0
    BY <1>1, <1>6, MarchMoves
  <2>2. nextDir' = NextDirection(leftEdge', rightEdge', W) /\ UNCHANGED window
    BY <1>1, <1>6, MarchMoves
  <2>3. leftEdge' \in Int /\ rightEdge' \in Int /\ rightEdge' - leftEdge' = long
    BY <1>3, <2>1
  <2>4. /\ nextDir' = "right" => rightEdge' < W
        /\ nextDir' = "left" => leftEdge' > 0
        /\ nextDir' = "down" => (leftEdge' <= 0) # (rightEdge' >= W)
    <3>1. nextDir = "down" => (leftEdge <= 0) # (rightEdge >= W)
      BY DEF MarchInv
    <3> HIDE DEF W, long
    <3>2. ~(leftEdge' <= 0 /\ rightEdge' >= W)
      <4>1. \A l, r \in Int : \A w, n \in Nat : r - l = n /\ n < w => ~(l <= 0 /\ r >= w)
        OBVIOUS
      <4>2. QED
        BY <1>2, <1>5, <2>3, <4>1, Zenon
    <3>3. nextDir = "down" => (leftEdge' <= 0 \/ rightEdge' >= W)
      BY <1>3, <2>1, <3>1
    <3>4. CASE nextDir = "right"
      <4>1. nextDir' = IF rightEdge' >= W THEN "down" ELSE "right"
        BY <2>2, <3>4 DEF NextDirection
      <4>2. QED
        BY <1>2, <2>3, <3>2, <4>1
    <3>5. CASE nextDir = "left"
      <4>1. nextDir' = IF leftEdge' <= 0 THEN "down" ELSE "left"
        BY <2>2, <3>5 DEF NextDirection
      <4>2. QED
        BY <1>2, <2>3, <3>2, <4>1
    <3>6. CASE nextDir = "down"
      <4>1. nextDir' = IF leftEdge' <= 0 THEN "right" ELSE IF rightEdge' >= W THEN "left" ELSE "down"
        BY <2>2, <3>6 DEF NextDirection
      <4>2. QED
        BY <1>2, <2>3, <3>2, <3>3, <3>6, <4>1
    <3>7. QED
      BY <1>3, <3>4, <3>5, <3>6 DEF Directions
  <2>5. QED
    BY <1>2, <2>2, <2>3, <2>4 DEF MarchInv
<1>7. CASE ~March
  <2>1. UNCHANGED <<leftEdge, rightEdge, nextDir>>
    BY <1>7 DEF Next, CheckCollisions, KillMonster, Kill, StrikePlayer, NothingHit, CoolDown,
                clusterVars, gameVars
  <2>2. window' \in WindowSizes
    BY <1>1, GameInvStep DEF GameInv, PlayerTypeOK, LoopTypeOK
  <2>3. window'[1] = window[1]
    BY <1>2, <2>2 DEF SteadyWidth
  <2>4. QED
    BY <2>1, <2>3 DEF MarchInv
<1>8. QED
  BY <1>6, <1>7

(* The edge that sent the cluster down is still the only one beyond the    *)
(* border when move asks again, in every steady window with room for the   *)
(* longest row, whatever the speed of the frames.                          *)
THEOREM MarchTurnsRound ==
  ASSUME SteadyWidth
  PROVE  Spec => []TurnsRound
<1>1. Init => GameInv /\ MarchInv
  BY GameInvInit, MarchInvInit
<1>2. GameInv /\ MarchInv /\ [Next]_gameVars => (GameInv /\ MarchInv)'
  BY GameInvStep, MarchInvStep
<1>3. MarchInv => TurnsRound
  BY DEF MarchInv, TurnsRound
<1>4. QED
  BY <1>1, <1>2, <1>3, PTL DEF Spec

-----------------------------------------------------------------------------
(* The books of the kills.                                                 *)

(* The spent bullets of a list.                                            *)
SpentIn(bs) == {i \in DOMAIN bs : bs[i].state = "destroyed"}

(* Spent, by its bullets.                                                  *)
LEMMA SpentDef == Spent = SpentIn(bullets) /\ Spent' = SpentIn(bullets')
BY DEF Spent, SpentIn

(* A bullet that flies stays what it is: a spent one comes to life no      *)
(* more, a living one is not spent.                                        *)
LEMMA FlownSpent ==
  ASSUME NEW bs \in Seq(Bullets)
  PROVE  SpentIn(AllFlown(bs)) = SpentIn(bs)
<1>1. ASSUME NEW b \in Bullets PROVE Flown(b).state = b.state
  <2> DEFINE y == b.y - b.speed
  <2>1. ASSUME NEW u, NEW v
        PROVE  [b EXCEPT !.x = u, !.y = v].state = b.state /\ [b EXCEPT !.y = v].state = b.state
    BY DEF Bullets
  <2>2. \/ Flown(b) = [b EXCEPT !.x = 0, !.y = FarUp]
        \/ Flown(b) = [b EXCEPT !.x = 0, !.y = FarDown]
        \/ Flown(b) = [b EXCEPT !.y = y]
    BY DEF Flown
  <2> HIDE DEF y
  <2>3. /\ [b EXCEPT !.x = 0, !.y = FarUp].state = b.state
        /\ [b EXCEPT !.x = 0, !.y = FarDown].state = b.state
        /\ [b EXCEPT !.y = y].state = b.state
    BY <2>1, Zenon
  <2>4. QED
    BY <2>2, <2>3
<1>2. DOMAIN AllFlown(bs) = DOMAIN bs
  BY DEF AllFlown
<1>3. ASSUME NEW i \in DOMAIN bs PROVE AllFlown(bs)[i].state = bs[i].state
  <2>1. bs[i] \in Bullets /\ AllFlown(bs)[i] = Flown(bs[i])
    BY DEF AllFlown
  <2>2. QED
    BY <1>1, <2>1
<1>4. QED
  BY <1>2, <1>3 DEF SpentIn

(* A shot adds a living bullet.                                            *)
LEMMA ShotSpent ==
  ASSUME PlayerTypeOK, NEW fire \in BOOLEAN
  PROVE  SpentIn(AfterShot(fire)) = SpentIn(bullets)
<1>1. CASE Fires(fire)
  <2> DEFINE b == NewBullet(position[1] + ShipW \div 2, position[2], BulletSpeed)
  <2>1. AfterShot(fire) = Append(bullets, b)
    BY <1>1 DEF AfterShot
  <2>2. b.state = "alive"
    BY DEF NewBullet
  <2>3. bullets \in Seq(Bullets)
    BY DEF PlayerTypeOK
  <2> HIDE DEF b
  <2>4. /\ Len(bullets) \in Nat /\ DOMAIN bullets = 1 .. Len(bullets)
        /\ DOMAIN AfterShot(fire) = 1 .. Len(bullets) + 1
        /\ AfterShot(fire)[Len(bullets) + 1] = b
        /\ \A i \in 1 .. Len(bullets) : AfterShot(fire)[i] = bullets[i]
    BY <2>1, <2>3
  <2>5. \A i \in 1 .. Len(bullets) + 1 : i \in 1 .. Len(bullets) \/ i = Len(bullets) + 1
    BY <2>4
  <2>6. 1 .. Len(bullets) \subseteq 1 .. Len(bullets) + 1
    BY <2>4
  <2>7. QED
    BY <2>2, <2>4, <2>5, <2>6 DEF SpentIn
<1>2. CASE ~Fires(fire)
  BY <1>2 DEF AfterShot
<1>3. QED
  BY <1>1, <1>2

(* Neither the hand nor update spends a bullet.                            *)
LEMMA PlayerSpends ==
  ASSUME PlayerTypeOK, Hand \/ Play
  PROVE  Spent' = Spent
<1>1. CASE Hand
  <2>1. PICK hand \in HandPoints \cup {NoDestination}, fist \in BOOLEAN :
          DetectHandMovement(hand, fist)
    BY <1>1 DEF Hand
  <2>2. bullets' = AfterShot(fist)
    BY <2>1 DEF DetectHandMovement
  <2>3. QED
    BY <2>2, ShotSpent, SpentDef
<1>2. CASE Play
  <2>1. PICK click \in MousePoints \cup {NoDestination}, keys \in KeySets : Update(click, keys)
    BY <1>2 DEF Play
  <2> DEFINE fire == "Space" \in keys
  <2>2. bullets' = AllFlown(AfterShot(fire)) /\ fire \in BOOLEAN
    BY <2>1 DEF Update
  <2> HIDE DEF fire
  <2>3. AfterShot(fire) \in Seq(Bullets)
    BY <2>2, AfterShotType
  <2>4. QED
    BY <2>2, <2>3, FlownSpent, ShotSpent, SpentDef
<1>3. QED
  BY <1>1, <1>2

(* The books agree, and what they count is finite.                         *)
KillsInv == IsFiniteSet(Dead) /\ IsFiniteSet(Spent) /\ KillsAddUp

(* Nobody is dead and nothing spent when the game starts.                  *)
LEMMA KillsInvInit == Init => KillsInv
<1> SUFFICES ASSUME Init PROVE KillsInv
  OBVIOUS
<1>1. /\ bullets = << >> /\ destroyedCount = 0 /\ enemiesKilled = 0 /\ score = 0
      /\ rows = Placed((window[1] * Px) \div 2, (window[2] * Px) \div 10)
  BY DEF Init, PlayerInit, ClusterInit, ScoreInit
<1>2. Spent = {}
  BY <1>1 DEF Spent
<1>3. Dead = {}
  <2>1. ASSUME NEW p \in Cells PROVE rows[p[1]][p[2]].state = "alive"
    <3>1. p[1] \in DOMAIN RowSizes /\ p[2] \in 1 .. RowSizes[p[1]]
      BY CellsAreColumns
    <3>2. QED
      BY <1>1, <3>1 DEF Placed
  <2>2. QED
    BY <2>1 DEF Dead
<1>4. QED
  BY <1>1, <1>2, <1>3, FS_EmptySet DEF KillsInv, KillsAddUp, KillPoints

(* A kill adds one to every book, and anything else leaves them alone.     *)
LEMMA KillsInvStep == GameInv /\ KillsInv /\ [Next]_gameVars => KillsInv'
<1> SUFFICES ASSUME GameInv, KillsInv, [Next]_gameVars PROVE KillsInv'
  OBVIOUS
<1>1. PlayerTypeOK /\ ClusterShape
  BY DEF GameInv
<1>2. CASE KillMonster
  <2>1. PICK i \in DOMAIN bullets, r \in DOMAIN RowSizes : \E c \in 1 .. RowSizes[r] :
           /\ bullets[i].state = "alive" /\ rows[r][c].state = "alive"
           /\ bullets' = [bullets EXCEPT ![i] = Hidden(bullets[i])]
           /\ Killed(r, c)
    BY <1>1, <1>2, KillEffect
  <2>2. PICK c \in 1 .. RowSizes[r] :
           rows[r][c].state = "alive" /\ Killed(r, c)
    BY <2>1
  <2>3. Spent' = Spent \cup {i} /\ i \notin Spent
    <3>1. bullets \in Seq(Bullets)
      BY <1>1 DEF PlayerTypeOK
    <3>2. bullets[i] \in Bullets /\ DOMAIN bullets' = DOMAIN bullets
      BY <2>1, <3>1
    <3>3. Hidden(bullets[i]).state = "destroyed"
      BY <3>2 DEF Hidden, Bullets
    <3>4. /\ bullets'[i] = Hidden(bullets[i])
          /\ \A j \in DOMAIN bullets : j # i => bullets'[j] = bullets[j]
      BY <2>1
    <3>5. QED
      BY <2>1, <3>2, <3>3, <3>4 DEF Spent
  <2>4. Dead' = Dead \cup {<<r, c>>} /\ <<r, c>> \notin Dead
    <3>1. \A q \in DOMAIN RowSizes : \A d \in 1 .. RowSizes[q] :
            rows'[q][d].state = IF q = r /\ d = c THEN "destroyed" ELSE rows[q][d].state
      BY <1>1, <2>2, KillMonsters, Zenon
    <3>2. ASSUME NEW p \in Cells
          PROVE  rows'[p[1]][p[2]].state =
                   IF p = <<r, c>> THEN "destroyed" ELSE rows[p[1]][p[2]].state
      BY <3>1, CellsAreColumns
    <3>3. <<r, c>> \in Cells
      BY CellsAreColumns
    <3>4. Dead' = {p \in Cells : rows'[p[1]][p[2]].state = "destroyed"}
      BY DEF Dead
    <3>5. QED
      BY <2>2, <3>2, <3>3, <3>4 DEF Dead
  <2>5. /\ IsFiniteSet(Dead') /\ Cardinality(Dead') = Cardinality(Dead) + 1
        /\ IsFiniteSet(Spent') /\ Cardinality(Spent') = Cardinality(Spent) + 1
    BY <2>3, <2>4, FS_AddElement DEF KillsInv
  <2>6. Cardinality(Dead) \in Nat
    BY FS_CardinalityType DEF KillsInv
  <2>7. /\ destroyedCount' = destroyedCount + 1 /\ enemiesKilled' = enemiesKilled + 1
        /\ score' = score + KillPoints
    BY <1>2 DEF KillMonster, Kill, AddEnemyKilled, AddScore
  <2>8. KillsAddUp'
    BY <2>5, <2>6, <2>7 DEF KillsInv, KillsAddUp, KillPoints
  <2>9. QED
    BY <2>5, <2>8 DEF KillsInv
<1>3. CASE March
  <2>1. \A r \in DOMAIN RowSizes : \A c \in 1 .. RowSizes[r] : rows'[r][c].state = rows[r][c].state
    BY <1>1, <1>3, MarchMoves
  <2>2. Dead' = Dead
    BY <2>1, CellsAreColumns DEF Dead
  <2>3. UNCHANGED <<bullets, destroyedCount, scoreVars>>
    <3>1. UNCHANGED destroyedCount
      BY <1>1, <1>3, MarchMoves
    <3>2. UNCHANGED <<playerVars, scoreVars>>
      BY <1>3 DEF Next, March, PollEvents, Hand, Play, At, gameVars
    <3>3. QED
      BY <3>1, <3>2 DEF playerVars
  <2>4. Spent' = Spent
    BY <2>3 DEF Spent
  <2>5. QED
    BY <2>2, <2>3, <2>4 DEF KillsInv, KillsAddUp, scoreVars
<1>4. CASE (Hand \/ Play) /\ UNCHANGED <<clusterVars, scoreVars>>
  <2>1. Spent' = Spent
    BY <1>1, <1>4, PlayerSpends
  <2>2. Dead' = Dead
    BY <1>4 DEF Dead, clusterVars
  <2>3. QED
    BY <1>4, <2>1, <2>2 DEF KillsInv, KillsAddUp, scoreVars, clusterVars
<1>5. CASE ~KillMonster /\ ~March /\ ~((Hand \/ Play) /\ UNCHANGED <<clusterVars, scoreVars>>)
  <2>1. UNCHANGED <<rows, bullets, destroyedCount, score, enemiesKilled>>
    BY <1>5 DEF Next, CheckCollisions, StrikePlayer, NothingHit, CoolDown, clusterVars, scoreVars,
                playerVars, gameVars
  <2>2. Spent' = Spent /\ Dead' = Dead
    BY <2>1 DEF Spent, Dead
  <2>3. QED
    BY <2>1, <2>2 DEF KillsInv, KillsAddUp
<1>6. QED
  BY <1>2, <1>3, <1>4, <1>5

(* No monster is killed twice and no bullet kills twice, for any number of *)
(* bullets and monsters: the four books of the kills agree in every frame. *)
THEOREM KillsAlwaysAddUp == Spec => []KillsAddUp
<1>1. Init => GameInv /\ KillsInv
  BY GameInvInit, KillsInvInit
<1>2. GameInv /\ KillsInv /\ [Next]_gameVars => (GameInv /\ KillsInv)'
  BY GameInvStep, KillsInvStep
<1>3. KillsInv => KillsAddUp
  BY DEF KillsInv
<1>4. QED
  BY <1>1, <1>2, <1>3, PTL DEF Spec

-----------------------------------------------------------------------------
(* The deaths of the player, and its ship and weapon in the whole game.    *)

DeathInv == deathCooldown \in 0 .. DeathCooldown

(* What the step of the loop is, to the cooldown of the deaths: a death, a *)
(* strike with no life left, a tick, or nothing.                           *)
LEMMA DeathStep ==
  ASSUME GameInv, DeathInv, [Next]_gameVars
  PROVE  /\ DeathInv'
         /\ \/ Mercy!RateNext
            \/ UNCHANGED <<InitialLives - lives,
                           IF Vulnerable THEN 0 ELSE DeathCooldown + 1 - deathCooldown>>
<1>1. /\ lives \in 0 .. InitialLives /\ InitialLives \in Nat /\ state \in States
      /\ DeathCooldown \in Nat \ {0} /\ deathCooldown \in 0 .. DeathCooldown
  BY PlayerAssumption, CollisionsAssumption DEF GameInv, PlayerTypeOK, DeathInv
<1>2. CASE StrikePlayer
  <2>1. /\ Vulnerable /\ deathCooldown = 0 /\ deathCooldown' = 1
        /\ \/ lives > 0 /\ lives' = lives - 1
           \/ UNCHANGED lives
    BY <1>1, <1>2 DEF StrikePlayer, Vulnerable, Die
  <2>2. ~Vulnerable'
    BY <2>1 DEF Vulnerable
  <2>3. Mercy!FireAndTick \/ Mercy!Blank
    BY <1>1, <2>1, <2>2 DEF Mercy!FireAndTick, Mercy!Blank
  <2>4. QED
    BY <1>1, <2>1, <2>3 DEF DeathInv, Mercy!RateNext
<1>3. CASE CoolDown
  <2>1. ~Vulnerable /\ UNCHANGED lives
    BY <1>3 DEF CoolDown, Revive, playerVars
  <2>2. CASE deathCooldown < DeathCooldown
    <3>1. deathCooldown' = deathCooldown + 1 /\ ~Vulnerable'
      BY <1>1, <1>3, <2>2 DEF CoolDown, Vulnerable
    <3>2. Mercy!Tick
      BY <1>1, <2>1, <2>2, <3>1 DEF Mercy!Tick
    <3>3. QED
      BY <1>1, <2>2, <3>1, <3>2 DEF DeathInv, Mercy!RateNext
  <2>3. CASE deathCooldown = DeathCooldown
    <3>1. deathCooldown' = 0 /\ Vulnerable'
      BY <1>1, <1>3, <2>3 DEF CoolDown, Vulnerable, Revive
    <3>2. Mercy!Tick
      BY <1>1, <2>1, <2>3, <3>1 DEF Mercy!Tick
    <3>3. QED
      BY <1>1, <3>1, <3>2 DEF DeathInv, Mercy!RateNext
  <2>4. QED
    BY <1>1, <2>2, <2>3
<1>4. CASE ~StrikePlayer /\ ~CoolDown
  <2>1. UNCHANGED <<lives, state, deathCooldown>>
    BY <1>4 DEF Next, CheckCollisions, KillMonster, NothingHit, Hand, DetectHandMovement, Play,
                Update, playerVars, gameVars
  <2>2. Vulnerable' <=> Vulnerable
    BY <2>1 DEF Vulnerable
  <2>3. QED
    BY <1>1, <2>1, <2>2 DEF DeathInv
<1>5. QED
  BY <1>2, <1>3, <1>4

(* The player loses a life only after a whole cooldown since it last did,  *)
(* for every length of the cooldown, also when the uninitialised state of  *)
(* the constructor starts one and when kills skip ticks of it.             *)
THEOREM DeathsAreRateLimited == Spec => DeathsKeepTheirDistance
<1> DEFINE view == <<InitialLives - lives,
                     IF Vulnerable THEN 0 ELSE DeathCooldown + 1 - deathCooldown>>
<1>1. Init => GameInv /\ DeathInv /\ Mercy!RateInit
  <2> SUFFICES ASSUME Init PROVE DeathInv /\ Mercy!RateInit
    BY GameInvInit
  <2>1. /\ lives = InitialLives /\ InitialLives \in Nat /\ deathCooldown = 0
        /\ DeathCooldown \in Nat \ {0}
    BY PlayerAssumption, CollisionsAssumption DEF Init, PlayerInit
  <2>2. QED
    BY <2>1 DEF DeathInv, Mercy!RateInit
<1>2. GameInv /\ DeathInv /\ [Next]_gameVars => GameInv' /\ DeathInv' /\ [Mercy!RateNext]_view
  BY GameInvStep, DeathStep
<1>3. QED
  BY <1>1, <1>2, PTL DEF Spec, DeathsKeepTheirDistance, Mercy!RateSpec

(* The weapon keeps its rate in the whole game too, where checkCollisions  *)
(* hides bullets of the list whose length counts the shots.                *)
THEOREM GameImplementsRate == Spec => WeaponKeepsItsRate
<1> DEFINE view == <<Len(bullets), IF isFiring THEN FireCooldown + 1 - cooldown ELSE 0>>
<1>1. Init => GameInv /\ WeaponInv /\ Weapon!RateInit
  BY GameInvInit, WeaponInit DEF Init
<1>2. GameInv /\ WeaponInv /\ [Next]_gameVars => GameInv' /\ WeaponInv' /\ [Weapon!RateNext]_view
  <2> SUFFICES ASSUME GameInv, WeaponInv, [Next]_gameVars
               PROVE  WeaponInv' /\ [Weapon!RateNext]_view
    BY GameInvStep
  <2>1. PlayerTypeOK /\ ClusterShape
    BY DEF GameInv
  <2>2. CASE Hand
    BY <2>1, <2>2, WeaponByHand DEF Weapon!RateNext
  <2>3. CASE Play
    BY <2>1, <2>3, WeaponByUpdate DEF Weapon!RateNext
  <2>4. CASE KillMonster
    <3>1. PICK i \in DOMAIN bullets : bullets' = [bullets EXCEPT ![i] = Hidden(bullets[i])]
      BY <2>1, <2>4, KillEffect
    <3>2. Len(bullets') = Len(bullets)
      <4>1. bullets \in Seq(Bullets)
        BY <2>1 DEF PlayerTypeOK
      <4>2. QED
        BY <3>1, <4>1
    <3>3. UNCHANGED <<isFiring, cooldown>>
      BY <2>4 DEF KillMonster
    <3>4. QED
      BY <3>2, <3>3, WeaponRests
  <2>5. CASE ~Hand /\ ~Play /\ ~KillMonster
    <3>1. UNCHANGED <<isFiring, cooldown>> /\ Len(bullets') = Len(bullets)
      BY <2>5 DEF Next, CheckCollisions, StrikePlayer, Die, NothingHit, CoolDown, Revive,
                  playerVars, gameVars
    <3>2. QED
      BY <3>1, WeaponRests
  <2>6. QED
    BY <2>2, <2>3, <2>4, <2>5
<1>3. QED
  BY <1>1, <1>2, PTL DEF Spec, WeaponKeepsItsRate, Weapon!RateSpec

(* The ship is in the window in the whole game too, wherever the spawn     *)
(* position of a death puts it.                                            *)
THEOREM GameKeepsShipInWindow == Spec => []ShipInWindow
<1>1. Init => GameInv /\ ShipInWindow
  BY GameInvInit DEF Init, LoopInit, ShipInWindow
<1>2. GameInv /\ ShipInWindow /\ [Next]_gameVars => (GameInv /\ ShipInWindow)'
  <2> SUFFICES ASSUME GameInv, ShipInWindow, [Next]_gameVars PROVE ShipInWindow'
    BY GameInvStep
  <2>1. CASE Play
    BY <2>1, PlayConfines DEF GameInv
  <2>2. CASE March /\ UNCHANGED playerVars
    <3>1. phase = "move" /\ UNCHANGED <<window, position>>
      BY <2>2 DEF March, At, playerVars
    <3>2. QED
      BY <3>1 DEF ShipInWindow, Within
  <2>3. CASE UNCHANGED gameVars
    BY <2>3 DEF gameVars, loopVars, playerVars, ShipInWindow, Within
  <2>4. CASE PollEvents \/ Hand \/ At("collide", "poll")
    <3>1. phase' \notin {"move", "collide"}
      BY <2>4 DEF PollEvents, Hand, At
    <3>2. QED
      BY <3>1 DEF ShipInWindow
  <2>5. QED
    BY <2>1, <2>2, <2>3, <2>4 DEF Next
<1>3. QED
  BY <1>1, <1>2, PTL DEF Spec

=============================================================================
