----------------------------- MODULE RateLimiter -----------------------------
(***************************************************************************)
(* What a weapon of the game promises: between two shots there are at      *)
(* least Period ticks, a tick being one call of the update that cools the  *)
(* weapon.  The deaths of the player keep the same promise.                *)
(***************************************************************************)
EXTENDS Naturals

CONSTANT Period   \* a positive number

VARIABLES
  fired,  \* shots so far
  rest    \* ticks until the next shot may be fired

(* It may start out rested or not.                                         *)
RateInit == fired = 0 /\ rest \in {0, Period}

Fire == rest = 0 /\ fired' = fired + 1 /\ rest' = Period

Tick == rest > 0 /\ rest' = rest - 1 /\ UNCHANGED fired

(* A shot by the update itself, which then cools the weapon at once.       *)
FireAndTick == rest = 0 /\ fired' = fired + 1 /\ rest' = Period - 1

(* A trigger pulled with nothing left to fire costs the same time.         *)
Blank == rest = 0 /\ rest' = Period - 1 /\ UNCHANGED fired

RateNext == Fire \/ Tick \/ FireAndTick \/ Blank

RateSpec == RateInit /\ [][RateNext]_<<fired, rest>>
=============================================================================
