------------------------------- MODULE Floors -------------------------------
(***************************************************************************)
(* Floor labels and floor numbers (src/sharedmemory.c).                    *)
(*                                                                         *)
(* A label is the char[4] string of a floor: "B99".."B1" and "1".."999".   *)
(* It is represented by the number stringToFloor reads from it: "B3" is    *)
(* -3 and "7" is 7.  There is no floor 0: "B1" lies directly below "1".    *)
(* What the conversions do beyond that is modelled: floorToString writes   *)
(* floor 0 as "1" and truncates what does not fit in four bytes.           *)
(***************************************************************************)
EXTENDS Integers

Label == (-99 .. 999) \ {0}

(* The text of a char[4] that was never written: no label.                 *)
NoFloor == 0

(* What the header defines it as.                                          *)
INT_MIN == 999

stringToFloor(text) == IF text = NoFloor THEN INT_MIN ELSE text

(***************************************************************************)
(* snprintf(floorlabel, 4, ...): three characters are kept, so a number    *)
(* with one digit too many loses its last digit.                           *)
(***************************************************************************)
floorToString(floor) ==
  CASE floor = 0   -> 1
    [] floor < -99 -> -((-floor) \div 10)
    [] floor > 999 -> floor \div 10
    [] OTHER       -> floor

(***************************************************************************)
(* The arithmetic of OP_MOVE_CURRENT and OP_MOVE_DESTINATION: a move that  *)
(* reaches or crosses 0 is corrected by one floor, because 0 is no floor.  *)
(***************************************************************************)
MoveFloor(floor, by) ==
  LET crosses == \/ floor + by >= 0 /\ floor < 0
                 \/ floor + by =< 0 /\ floor > 0
      correction == IF floor < 0 THEN 1 ELSE -1
  IN  floor + by + (IF crosses THEN correction ELSE 0)

Moved(label, by) == floorToString(MoveFloor(label, by))

(***************************************************************************)
(* The place of a floor in the shaft, counted in floors from "1".  Used    *)
(* only to state properties: the code computes distances on floor numbers. *)
(***************************************************************************)
Position(label) == IF label > 0 THEN label - 1 ELSE label

Abs(n) == IF n < 0 THEN -n ELSE n
=============================================================================
