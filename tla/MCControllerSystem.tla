------------------------ MODULE MCControllerSystem -------------------------
(* Small instances of ControllerSystem for TLC.                            *)
EXTENDS ControllerSystem

CONSTANTS a, b, p, q

(* The build of the makefile: a fresh stack is zero, which is UP and       *)
(* Opening.                                                                *)
ZeroedStack == {[current_direction |-> "UP", elevator_status |-> "Opening"]}

TwoShafts == [c \in {a, b} |-> IF c = a THEN <<1, 3>> ELSE <<1, 2>>]

ReportsClosing == {StatusMessage("Closing", 2, 2)}

ReportsClosed == {StatusMessage("Closed", 2, 2), EmergencyMessage}

UpAndDown == [x \in {p, q} |-> IF x = p THEN {<<1, 3>>} ELSE {<<2, 1>>}]
=============================================================================
