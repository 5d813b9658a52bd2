------------------------------ MODULE CarDoor -------------------------------
(***************************************************************************)
(* The door machine of a car: operate_door() and doorcontrol_thread()      *)
(* (src/car.c).                                                            *)
(*                                                                         *)
(* operate_door runs in two threads, and nothing keeps both from being in  *)
(* it at once: each has its own local current_status and both write the    *)
(* status in shared memory.  A value of pc[t] names the next call thread t *)
(* makes on the shared memory; every such call is one critical section.    *)
(* carwait is a sleep without a lock, which any interleaving models.       *)
(***************************************************************************)
EXTENDS SharedMemory

VARIABLES
  pc,               \* Thread -> where the thread is
  current_status    \* DoorThread -> operate_door's local of that name

doorVars == <<pc, current_status>>

Thread == {"doorcontrol", "process", "tcp"}

DoorThread == {"doorcontrol", "process"}

DoorPhase == Status \ {"Between"}

(* The calls operate_door makes, in the order of its loop body.            *)
DoorPC == {"check", "correct", "readopen", "clear_twice", "clear",
           "readclose", "clear_close", "enter"}

Goto(t, label) == pc' = [pc EXCEPT ![t] = label]

Become(t, phase) == current_status' = [current_status EXCEPT ![t] = phase]

(* Mutant: the phase after the next one.                                   *)
NextStatusSkips == [Opening |-> "Closing", Open |-> "Closed", Closing |-> "Between"]

(* next_status of the switch.                                              *)
NextStatus == [Opening |-> "Open", Open |-> "Closing", Closing |-> "Closed"]

(* Calling operate_door: its local starts as Opening whatever the doors do.*)
operate_door(t) == Goto(t, "check")

(* if (the status in shared memory differs from current_status) ...        *)
CheckStatus(t) ==
  /\ pc[t] = "check"
  /\ Goto(t, IF shm.status = current_status[t] THEN "readopen" ELSE "correct")
  /\ UNCHANGED <<shmVars, current_status>>

(* ... write current_status, whatever the status has become since.         *)
CorrectStatus(t) ==
  /\ pc[t] = "correct"
  /\ set_status(current_status[t])
  /\ Goto(t, "readopen")
  /\ UNCHANGED current_status

(* The open button reopens closing doors, is cleared while they open, and  *)
(* sends open doors to Closing.                                            *)
ReadOpen(t) ==
  /\ pc[t] = "readopen"
  /\ \/ /\ shm.open_button = 0
        /\ Goto(t, "readclose")
        /\ UNCHANGED current_status
     \/ /\ shm.open_button = 1
        /\ current_status[t] \in {"Closed", "Closing"}
        /\ Become(t, "Opening")
        /\ Goto(t, "clear_twice")
     \/ /\ shm.open_button = 1
        /\ current_status[t] = "Opening"
        /\ Goto(t, "clear")
        /\ UNCHANGED current_status
     \/ /\ shm.open_button = 1
        /\ current_status[t] = "Open"
        /\ Become(t, "Closing")
        /\ Goto(t, "clear")
  /\ UNCHANGED shmVars

(* The first of the two clears of reopened doors: having become Opening    *)
(* they also take the next if.  A press between the two is lost.           *)
ClearOpenTwice(t) ==
  /\ pc[t] = "clear_twice"
  /\ edit_flag("OP_CLEAR_OPEN")
  /\ Goto(t, "clear")
  /\ UNCHANGED current_status

ClearOpen(t) ==
  /\ pc[t] = "clear"
  /\ edit_flag("OP_CLEAR_OPEN")
  /\ Goto(t, "readclose")
  /\ UNCHANGED current_status

(* The close button is consumed by open doors only and stays set otherwise.*)
ReadClose(t) ==
  /\ pc[t] = "readclose"
  /\ IF shm.close_button = 1 /\ current_status[t] = "Open"
       THEN Become(t, "Closing") /\ Goto(t, "clear_close")
       ELSE Goto(t, "enter") /\ UNCHANGED current_status
  /\ UNCHANGED shmVars

ClearClose(t) ==
  /\ pc[t] = "clear_close"
  /\ edit_flag("OP_CLEAR_CLOSE")
  /\ Goto(t, "enter")
  /\ UNCHANGED current_status

(* Mutant: the loop is left as soon as the doors are closing.              *)
LoopEndsEarly(t) == current_status[t] \in {"Closing", "Closed"}

LoopEnds(t) == current_status[t] = "Closed"

(* The switch, and the break that leaves the loop once the doors have been *)
(* Closed.  The local is put back to what the next call will start with.   *)
EnterStatus(t, return) ==
  /\ pc[t] = "enter"
  /\ set_status(current_status[t])
  /\ IF LoopEnds(t)
       THEN Become(t, "Opening") /\ Goto(t, return)
       ELSE Become(t, NextStatus[current_status[t]]) /\ Goto(t, "check")

DoorStep(t, return) ==
  \/ CheckStatus(t)
  \/ CorrectStatus(t)
  \/ ReadOpen(t)
  \/ ClearOpenTwice(t)
  \/ ClearOpen(t)
  \/ ReadClose(t)
  \/ ClearClose(t)
  \/ EnterStatus(t, return)

(* doorcontrol_thread polls the open button without sleeping.  It asks     *)
(* neither whether the car is between floors nor who else moves the doors. *)
PollOpen ==
  /\ pc["doorcontrol"] = "poll"
  /\ shm.open_button = 1
  /\ operate_door("doorcontrol")
  /\ UNCHANGED <<shmVars, current_status>>

DoorControlStep == PollOpen \/ DoorStep("doorcontrol", "poll")
=============================================================================
