---------------------------- MODULE CarProcess -----------------------------
(***************************************************************************)
(* process_thread() of a car (src/car.c): it compares the destination with *)
(* the current floor, drives the car floor by floor, and runs the doors on *)
(* arrival or when the controller names the floor the car is already at.   *)
(***************************************************************************)
EXTENDS CarDoor

CONSTANT HighestFloor           \* argv[3] of the car

VARIABLES
  floordiff,    \* local: destination minus current, read once per round
  i,            \* local: floors already travelled in this round, 0 outside the loop
  shm_send,     \* cardata.shm_send: 1 from a FLOOR message to its door cycle
  read_flag     \* threaddata->read_flag: may a FLOOR change the destination?

processVars == <<floordiff, i, shm_send, read_flag>>

ShaftAssumption == /\ LowestFloor \in Label
                   /\ HighestFloor \in Label
                   /\ LowestFloor =< HighestFloor
ASSUME ShaftAssumption

ProcessPC == {"start", "loop", "check_send", "unsend", "check_move",
              "between", "flag0", "move", "set_closed", "flag1"}

(* Where the two calls of operate_door return to.  at_destination and      *)
(* floordiff come from the same two labels, so floordiff = 0 tells them    *)
(* apart: the first call is made at the destination, the second is not.    *)
ProcessReturn == IF floordiff = 0 THEN "unsend" ELSE "loop"

(* threaddata->read_flag = 1.  Until then main's stack decides its value.  *)
StartProcess ==
  /\ pc["process"] = "start"
  /\ read_flag' = 1
  /\ Goto("process", "loop")
  /\ UNCHANGED <<shmVars, current_status, floordiff, i, shm_send>>

(* One critical section.  A destination outside the shaft is replaced by   *)
(* the current floor, but only after floordiff was computed from it.       *)
ReadFloors ==
  /\ pc["process"] = "loop"
  /\ floordiff' = shm.destination_floor - shm.current_floor
  /\ shm' = [shm EXCEPT !.destination_floor =
               IF @ > HighestFloor \/ @ < LowestFloor
                 THEN shm.current_floor ELSE @]
  /\ Goto("process", "check_send")
  /\ UNCHANGED <<waiting, current_status, i, shm_send, read_flag>>

(* if (cardata.shm_send == 1 && at_destination == 0) operate_door();       *)
CheckSend ==
  /\ pc["process"] = "check_send"
  /\ IF shm_send = 1 /\ floordiff = 0
       THEN operate_door("process")
       ELSE Goto("process", "check_move")
  /\ UNCHANGED <<shmVars, current_status, processVars>>

(* Mutant: the flag stays set.                                             *)
SendForgotten == UNCHANGED shm_send

SendServed == shm_send' = 0

(* The flag is cleared after the door cycle and without the lock: a FLOOR  *)
(* that arrived meanwhile is forgotten with the one that was served.       *)
ClearSend ==
  /\ pc["process"] = "unsend"
  /\ SendServed
  /\ Goto("process", "check_move")
  /\ UNCHANGED <<shmVars, current_status, floordiff, i, read_flag>>

(* if (at_destination != 0 && read_car_status(&cardata) == Closed)         *)
CheckMove ==
  /\ pc["process"] = "check_move"
  /\ Goto("process", IF floordiff # 0 /\ shm.status = "Closed"
                       THEN "between" ELSE "loop")
  /\ UNCHANGED <<shmVars, current_status, processVars>>

SetBetween ==
  /\ pc["process"] = "between"
  /\ set_status("Between")
  /\ Goto("process", "flag0")
  /\ UNCHANGED <<current_status, processVars>>

ClearReadFlag ==
  /\ pc["process"] = "flag0"
  /\ read_flag' = 0
  /\ Goto("process", "move")
  /\ UNCHANGED <<shmVars, current_status, floordiff, i, shm_send>>

MoveCurrent ==
  /\ pc["process"] = "move"
  /\ edit_shared_memory("OP_MOVE_CURRENT", IF floordiff > 0 THEN 1 ELSE -1, "Opening")
  /\ Goto("process", "set_closed")
  /\ UNCHANGED <<current_status, processVars>>

SetClosed ==
  /\ pc["process"] = "set_closed"
  /\ set_status("Closed")
  /\ Goto("process", "flag1")
  /\ UNCHANGED <<current_status, processVars>>

(* Mutant: i <= abs(floordiff).                                            *)
OneFloorMore == i < Abs(floordiff)

MoreFloors == i + 1 < Abs(floordiff)

(* Mutant: the call of operate_door after the loop is missing.             *)
ArriveClosed == Goto("process", "loop")

Arrive == operate_door("process")

(* read_flag = 1, i++ and the loop test; then operate_door on arrival.     *)
SetReadFlag ==
  /\ pc["process"] = "flag1"
  /\ read_flag' = 1
  /\ IF MoreFloors
       THEN i' = i + 1 /\ Goto("process", "between")
       ELSE i' = 0 /\ Arrive
  /\ UNCHANGED <<shmVars, current_status, floordiff, shm_send>>

ProcessStep ==
  \/ StartProcess
  \/ ReadFloors
  \/ CheckSend
  \/ ClearSend
  \/ CheckMove
  \/ SetBetween
  \/ ClearReadFlag
  \/ MoveCurrent
  \/ SetClosed
  \/ SetReadFlag
  \/ DoorStep("process", ProcessReturn) /\ UNCHANGED processVars

-----------------------------------------------------------------------------

(***************************************************************************)
(* The car stays in its shaft.  floordiff is a difference of floor numbers,*)
(* which counts the missing floor 0: between a basement and a floor above  *)
(* ground the car goes one floor too far, and then comes back.             *)
(***************************************************************************)
Overshoot == IF LowestFloor < 0 /\ HighestFloor > 0 THEN 1 ELSE 0

InBounds(position) ==
  /\ Position(LowestFloor) - Overshoot =< position
  /\ position =< Position(HighestFloor) + Overshoot

InShaft == InBounds(Position(shm.current_floor))
=============================================================================
