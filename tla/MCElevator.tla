---------------------------- MODULE MCElevator -----------------------------
(* Small instances of Elevator for TLC.                                    *)
EXTENDS Elevator

CONSTANTS a, p, q

ZeroedStack == {[current_direction |-> "UP", elevator_status |-> "Opening"]}

UpOrDown == [x \in {p} |-> {<<1, 3>>, <<3, 2>>}]

(* Or to a floor the car does not go to.                                   *)
OrBeyond == [x \in {p} |-> {<<1, 3>>, <<3, 2>>, <<2, 4>>}]
=============================================================================
