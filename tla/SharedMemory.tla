---------------------------- MODULE SharedMemory ----------------------------
(***************************************************************************)
(* The shared memory segment /car{name} (include/sharedmemory.h,           *)
(* src/sharedmemory.c).  Every access in the code locks shm->data->mutex,  *)
(* so one critical section is one atomic step of the models; the steps of  *)
(* the processes and threads that share the segment interleave freely.     *)
(***************************************************************************)
EXTENDS Floors

CONSTANT LowestFloor            \* argv[2] of the car: the label it starts at

VARIABLES
  shm,       \* *shm->data, without its mutex and condition variable
  waiting    \* the processes blocked in pthread_cond_wait on shm->data->cond

shmVars == <<shm, waiting>>

Status == {"Opening", "Open", "Closing", "Closed", "Between"}

Bit == {0, 1}

SharedData ==
  [current_floor           : Label,
   destination_floor       : Label,
   status                  : Status,
   open_button             : Bit,
   close_button            : Bit,
   door_obstruction        : Bit,
   overload                : Bit,
   emergency_stop          : Bit,
   individual_service_mode : Bit,
   emergency_mode          : Bit]

init_shared_data ==
  /\ shm = [current_floor           |-> LowestFloor,
            destination_floor       |-> LowestFloor,
            status                  |-> "Closed",
            open_button             |-> 0,
            close_button            |-> 0,
            door_obstruction        |-> 0,
            overload                |-> 0,
            emergency_stop          |-> 0,
            individual_service_mode |-> 0,
            emergency_mode          |-> 0]
  /\ waiting = {}

(* pthread_cond_broadcast: every waiter leaves the condition variable.  A  *)
(* process that is not waiting at this moment is not told.                 *)
Broadcast == waiting' = {}

(* The switch of edit_shared_memory: the segment after one operation.      *)
Edited(op, floor, status) ==
  CASE op = "OP_SET_OPEN"   -> [shm EXCEPT !.open_button = 1]
    [] op = "OP_CLEAR_OPEN" -> [shm EXCEPT !.open_button = 0]
    [] op = "OP_SET_CLOSE"   -> [shm EXCEPT !.close_button = 1]
    [] op = "OP_CLEAR_CLOSE" -> [shm EXCEPT !.close_button = 0]
    [] op = "OP_SET_OVERLOAD"   -> [shm EXCEPT !.overload = 1]
    [] op = "OP_CLEAR_OVERLOAD" -> [shm EXCEPT !.overload = 0]
    [] op = "OP_SET_DOOR_OBSTRUCTION"   -> [shm EXCEPT !.door_obstruction = 1]
    [] op = "OP_CLEAR_DOOR_OBSTRUCTION" -> [shm EXCEPT !.door_obstruction = 0]
    [] op = "OP_SET_EMERGENCY"   -> [shm EXCEPT !.emergency_mode = 1]
    [] op = "OP_CLEAR_EMERGENCY" -> [shm EXCEPT !.emergency_mode = 0]
    [] op = "OP_SET_SERVICE"   -> [shm EXCEPT !.individual_service_mode = 1]
    [] op = "OP_CLEAR_SERVICE" -> [shm EXCEPT !.individual_service_mode = 0]
    [] op = "OP_SET_EMERGENCY_STOP"   -> [shm EXCEPT !.emergency_stop = 1]
    [] op = "OP_CLEAR_EMERGENCY_STOP" -> [shm EXCEPT !.emergency_stop = 0]
    [] op = "OP_MOVE_CURRENT" -> [shm EXCEPT !.current_floor = Moved(@, floor)]
    [] op = "OP_MOVE_DESTINATION" ->
         [shm EXCEPT !.destination_floor = Moved(@, floor)]
    [] op = "OP_SET_FLOOR" -> [shm EXCEPT !.current_floor = floorToString(floor)]
    [] op = "OP_SET_DESTINATION" ->
         [shm EXCEPT !.destination_floor = floorToString(floor)]
    [] op = "OP_SET_STATUS" -> [shm EXCEPT !.status = status]
    [] OTHER -> shm

edit_shared_memory(op, floor, status) ==
  /\ shm' = Edited(op, floor, status)
  /\ Broadcast

(* The calls that set or clear a flag pass 0 for the other two arguments.  *)
edit_flag(op) == edit_shared_memory(op, 0, "Opening")

set_status(s) == edit_shared_memory("OP_SET_STATUS", 0, s)
=============================================================================
