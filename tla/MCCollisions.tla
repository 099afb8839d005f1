---------------------------- MODULE MCCollisions ----------------------------
(* Narrow windows.  MCCollisions.cfg: two monsters in a column, a ship     *)
(* below them, and a window that is resized.  MCMarch.cfg: two rows of     *)
(* different length in a window with room for their march.                 *)
EXTENDS Collisions

MCFirst == <<6, 30>>
MCTwoWindows == {MCFirst, <<5, 30>>}
MCRowSizes == <<1, 1>>
MCVelocities == {1}
MCHandPoints == {<<0, 15>>}
MCFarUp == -2
MCKeySets == {{}}
MCSpace == {{}, {"Space"}}

MCWide == <<10, 20>>
MCLeft == {<<0, 10>>}
MCOneWindow == {MCWide}
MCTwoRows == <<1, 2>>
MCUneven == {1, 2}
=============================================================================
