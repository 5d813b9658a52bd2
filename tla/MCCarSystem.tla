---------------------------- MODULE MCCarSystem -----------------------------
(* Small instances of CarSystem for TLC: shafts with basement floors.      *)
EXTENDS CarSystem

Basement1 == -1
GroundFloors == {-1, 1, 2}
=============================================================================
