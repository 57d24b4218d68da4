------------------------------- MODULE MCBattle -------------------------------
(* A board small enough for TLC.  Its three boats overlap as those of        *)
(* position_map do, and one position belongs to no boat; the code's own      *)
(* tables have sixteen positions and sixteen boats.                          *)
EXTENDS BattleShip

Board == 1..5
BoardBoats == {<<1, 2>>, <<2, 3>>, <<3, 4>>}
===============================================================================
