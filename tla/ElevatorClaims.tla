--------------------------- MODULE ElevatorClaims ---------------------------
(***************************************************************************)
(* What the repository's tests say of a trip and TLC refutes: the property *)
(* below is violated by a behaviour of Elevator with two passengers.       *)
(***************************************************************************)
EXTENDS MCElevator

(* The second trip is on the way of the first.                             *)
TwoTripsUp == [x \in {p, q} |-> IF x = p THEN {<<1, 4>>} ELSE {<<2, 3>>}]

(***************************************************************************)
(* "This two extra stops are on the way, so they should just be added into *)
(* the queue", Test/test-controller-4.c:61-62: once the car has answered   *)
(* for both trips, whichever call comes first, no stop is missing.         *)
(***************************************************************************)
ExtraStopsAdded == NobodyForgotten
=============================================================================
