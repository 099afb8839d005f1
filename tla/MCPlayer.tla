------------------------------ MODULE MCPlayer ------------------------------
(* Windows, points and keys for the ship.  Lengths are half pixels; the    *)
(* numbers of Player::initPhysics are scaled down, keeping their order: a  *)
(* step at full speed is just below the margin.  One window has no room    *)
(* for the ship between its sides.                                         *)
EXTENDS Player

MCFirst == <<6, 5>>
MCWindows == {MCFirst, <<2, 4>>}
MCHandPoints == {<<3, -1>>}
MCMousePoints == {<<0, 1>>}
MCKeySets == {{}, {"D", "S"}}
MCFarUp == -4
=============================================================================
