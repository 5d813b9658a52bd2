------------------------------- MODULE Safety -------------------------------
(***************************************************************************)
(* The safety system (src/safety.c): one process per car that waits on the *)
(* condition variable of the shared memory and checks the segment each     *)
(* time it wakes up.  The wait has no predicate: whatever was edited while *)
(* the process was on its way back to the wait goes unnoticed until the    *)
(* next broadcast.                                                         *)
(*                                                                         *)
(* The sensors are not part of the program: the tests play them by editing *)
(* the segment under its mutex and broadcasting.                           *)
(***************************************************************************)
EXTENDS SharedMemory

CONSTANTS
  Monitored,          \* has a safety process been started for this car?
  SensorOperations,   \* the edits the sensors make
  MaxSensed           \* bound on the edits made by sensors

VARIABLES
  safety,    \* where the safety process is
  sensed     \* sensor edits so far

safetyVars == <<safety, sensed>>

SafetyPC == {"absent", "lock", "wait"}

SafetyAssumption ==
  /\ Monitored \in BOOLEAN
  /\ SensorOperations \subseteq
       {"OP_SET_OVERLOAD", "OP_CLEAR_OVERLOAD", "OP_SET_DOOR_OBSTRUCTION",
        "OP_CLEAR_DOOR_OBSTRUCTION", "OP_SET_EMERGENCY", "OP_CLEAR_EMERGENCY"}
  /\ MaxSensed \in Nat
ASSUME SafetyAssumption

(* An obstruction reopens closing doors.                                   *)
Reopened(d) ==
  IF d.door_obstruction = 1 /\ d.status = "Closing"
    THEN [d EXCEPT !.status = "Opening", !.open_button = 1]
    ELSE d

(* Mutant: || written as &&.                                               *)
TrippedByBoth(d) ==
  IF d.emergency_stop = 1 /\ d.overload = 1 /\ d.emergency_mode = 0
    THEN [d EXCEPT !.emergency_mode = 1]
    ELSE d

(* The stop button and the overload sensor.                                *)
Tripped(d) ==
  IF (d.emergency_stop = 1 \/ d.overload = 1) /\ d.emergency_mode = 0
    THEN [d EXCEPT !.emergency_mode = 1]
    ELSE d

Flags == {"open_button", "close_button", "door_obstruction", "overload",
          "emergency_stop", "individual_service_mode"}

(* B and digits, or digits, at most three characters.                      *)
is_valid_floor(floor) == floor \in Label

is_valid_status(status) == status \in Status

Inconsistent(d) ==
  \/ ~is_valid_floor(d.current_floor)
  \/ ~is_valid_floor(d.destination_floor)
  \/ ~is_valid_status(d.status)
  \/ \E flag \in Flags : d[flag] > 1
  \/ d.door_obstruction = 1 /\ d.status \notin {"Opening", "Closing"}

(* The body of the loop, one critical section.                             *)
Checked(d) ==
  LET tripped == Tripped(Reopened(d))
  IN  IF tripped.emergency_mode # 1 /\ Inconsistent(tripped)
        THEN [tripped EXCEPT !.emergency_mode = 1]
        ELSE tripped

SafetyWait ==
  /\ safety = "lock"
  /\ safety' = "wait"
  /\ waiting' = waiting \union {"safety"}
  /\ UNCHANGED <<shm, sensed>>

(* The monitor does not broadcast what it changed.                         *)
SafetyCheck ==
  /\ safety = "wait"
  /\ "safety" \notin waiting
  /\ shm' = Checked(shm)
  /\ safety' = "lock"
  /\ UNCHANGED <<waiting, sensed>>

(* pthread_cond_wait may return without a broadcast.                       *)
SpuriousWakeup ==
  /\ "safety" \in waiting
  /\ waiting' = waiting \ {"safety"}
  /\ UNCHANGED <<shm, safetyVars>>

Sense(op) ==
  /\ sensed < MaxSensed
  /\ sensed' = sensed + 1
  /\ edit_flag(op)
  /\ UNCHANGED safety
=============================================================================
