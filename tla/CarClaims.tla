----------------------------- MODULE CarClaims ------------------------------
(***************************************************************************)
(* What the repository's tests, comments and README say of a car and TLC   *)
(* refutes: each property below is violated by a behaviour of CarSystem.   *)
(***************************************************************************)
EXTENDS CarSystem

(***************************************************************************)
(* "Door should not open (because the car is between floors)",             *)
(* Test/test-car-4.c:88.  move is the call that changes the floor.         *)
(***************************************************************************)
DoorsShutBetweenFloors ==
  pc["process"] = "move" => shm.status \notin {"Opening", "Open"}

(***************************************************************************)
(* "Attempt to drive the elevator up one level, but it will not work as we *)
(* reached the top", Test/test-car-2.c:66.                                 *)
(***************************************************************************)
StopsAtTheTop == shm.current_floor =< HighestFloor

(***************************************************************************)
(* "There should be no updates coming from the car any more",              *)
(* Test/test-car-4.c:112 and 146: a car that withdrew says nothing else    *)
(* while the mode it withdrew for is on.                                   *)
(***************************************************************************)
NoUpdatesOnceWithdrawn ==
  [][sent = {"INDIVIDUAL SERVICE"} /\ shm.individual_service_mode = 1 =>
       sent' \subseteq {"EMERGENCY", "INDIVIDUAL SERVICE"}]_vars

(***************************************************************************)
(* "service_on - sets individual_service_mode in the shared memory segment *)
(* to 1 and emergency_mode to 0", src/internal.c:89.  When the command has *)
(* ended the car is not in emergency mode.  The run has one panel, so no   *)
(* other command runs meanwhile.                                           *)
(***************************************************************************)
ServiceOnEndsEmergency ==
  [][\A p \in Panels :
       panel[p].op = "service_on" /\ panel'[p] = Idle => shm'.emergency_mode = 0]_vars

(***************************************************************************)
(* The safety system "monitors the shared memory for ... emergency stop    *)
(* requests, and can put the car into emergency mode to prevent accidents",*)
(* README.md:86.  A pressed stop button is noticed in the end.             *)
(***************************************************************************)
StopNoticed ==
  shm.emergency_stop = 1 ~> shm.emergency_mode = 1 \/ shm.emergency_stop = 0
=============================================================================
