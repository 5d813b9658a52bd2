----------------------------- MODULE CarSystem -----------------------------
(***************************************************************************)
(* One car with everything that shares its memory: its three threads, the  *)
(* internal controls, the safety system and the sensors, and the messages  *)
(* a controller may send it.                                               *)
(***************************************************************************)
EXTENDS CarLink, Internal, Safety

carVars == <<doorVars, processVars, linkVars>>

vars == <<shmVars, carVars, panelVars, safetyVars>>

Init ==
  /\ init_shared_data
  /\ pc = [doorcontrol |-> "poll", process |-> "start", tcp |-> "connect"]
  /\ current_status = [t \in DoorThread |-> "Opening"]
  /\ floordiff = 0 /\ i = 0 /\ shm_send = 0 /\ read_flag \in {0, 1}
  /\ inbox = <<>> /\ sent = {} /\ sockets = 0 /\ requests = 0 /\ breaks = 0
  /\ panel = [p \in Panels |-> Idle] /\ presses = 0
  /\ safety = (IF Monitored THEN "lock" ELSE "absent") /\ sensed = 0

DoorControl ==
  MutexFree /\ DoorControlStep /\ UNCHANGED <<processVars, linkVars, panelVars, safetyVars>>

Process == ProcessRuns /\ UNCHANGED <<linkVars, panelVars, safetyVars>>

Link == LinkStep /\ UNCHANGED <<panelVars, safetyVars>>

ControllerSends ==
  (\E label \in Requests : SendFloor(label)) /\ UNCHANGED <<panelVars, safetyVars>>

PressButton ==
  /\ \E p \in Panels, op \in PanelOperations : RunOperation(p, op)
  /\ UNCHANGED <<carVars, safetyVars>>

InternalStep(p) == MutexFree /\ PanelStep(p) /\ UNCHANGED <<carVars, safetyVars>>

Monitor == MutexFree /\ (SafetyWait \/ SafetyCheck) /\ UNCHANGED <<carVars, panelVars>>

Spurious == SpuriousWakeup /\ UNCHANGED <<carVars, panelVars>>

Sensor ==
  MutexFree /\ (\E op \in SensorOperations : Sense(op)) /\ UNCHANGED <<carVars, panelVars>>

Next ==
  \/ DoorControl
  \/ Process
  \/ Link
  \/ ControllerSends
  \/ PressButton
  \/ \E p \in Panels : InternalStep(p)
  \/ Monitor
  \/ Spurious
  \/ Sensor

Spec == Init /\ [][Next]_vars

(***************************************************************************)
(* Every thread of the car runs in a loop of its own, the safety process   *)
(* too, and a command that was started runs to its end.  The environment   *)
(* (controller, passengers, sensors, spurious wakeups) is under no         *)
(* obligation.                                                             *)
(***************************************************************************)
Fairness ==
  /\ WF_vars(DoorControl)
  /\ WF_vars(Process)
  /\ WF_vars(Link)
  /\ WF_vars(Monitor)
  /\ \A p \in Panels : WF_vars(InternalStep(p))

FairSpec == Spec /\ Fairness

-----------------------------------------------------------------------------

(* Types, besides those of the threads.                                    *)
LinkTypeOK ==
  /\ inbox \in Seq(Requests)
  /\ sent \subseteq MessageKind
  /\ sockets \in 0 .. MaxSockets
  /\ requests \in 0 .. MaxRequests
  /\ breaks \in 0 .. MaxBreaks

PanelTypeOK == panel \in [Panels -> InPanel] /\ presses \in 0 .. MaxPresses

SafetyTypeOK == safety \in SafetyPC /\ sensed \in 0 .. MaxSensed

TypeOK ==
  /\ SharedTypeOK
  /\ PcTypeOK
  /\ CarTypeOK
  /\ LinkTypeOK
  /\ PanelTypeOK
  /\ SafetyTypeOK

(***************************************************************************)
(* Doors are never left ajar.  Two threads run door machines that know     *)
(* nothing of each other, a third party (safety) moves the status back,    *)
(* and the process thread writes Between and Closed around both: whatever  *)
(* their interleaving, a status other than Closed means that some thread   *)
(* of the car is still going to change it.                                 *)
(***************************************************************************)
Travelling == {"flag0", "move", "set_closed"}

DoorsAttended ==
  pc["process"] # "exited" /\ shm.status # "Closed" =>
    \/ pc["doorcontrol"] \in DoorPC
    \/ pc["process"] \in DoorPC \union Travelling

(***************************************************************************)
(* From the store of read_flag = 0 to that of read_flag = 1 no FLOOR       *)
(* passes the test of the tcp thread, and the destination changes only by  *)
(* one that passed it before and only until the floor changes: what is     *)
(* tested with the lock held is stored without it.  With the status        *)
(* already Between and the flag not cleared yet (flag0) a FLOOR is heeded. *)
(***************************************************************************)
FlagCleared == pc["process"] \in {"move", "set_closed", "flag1"}

DestinationHeld ==
  [][FlagCleared =>
       /\ MutexFree => MutexFree'
       /\ shm'.destination_floor # shm.destination_floor =>
            ~MutexFree /\ pc["process"] = "move"]_vars

(***************************************************************************)
(* A floor the car is to go to is reached with the doors opened there,     *)
(* unless another destination replaces it, however often floordiff was     *)
(* stale, the button was pressed or the connection broke meanwhile.        *)
(***************************************************************************)
EveryFloorServed ==
  \A f \in Requests :
    shm.destination_floor = f /\ shm.current_floor # f ~>
      \/ shm.destination_floor # f
      \/ shm.current_floor = f /\ shm.status \in {"Opening", "Open"}

(***************************************************************************)
(* Left alone, the car comes to rest: at its destination, doors closed, no *)
(* FLOOR unanswered and no door machine running.                           *)
(***************************************************************************)
AtRest ==
  /\ shm.current_floor = shm.destination_floor
  /\ shm.status = "Closed"
  /\ shm.open_button = 0
  /\ shm_send = 0
  /\ \A t \in DoorThread : pc[t] \notin DoorPC

ComesToRest == <>[]AtRest

(***************************************************************************)
(* A car in emergency mode tells the controller, over whatever connection  *)
(* it has or gets.                                                         *)
(***************************************************************************)
EmergencyTold ==
  shm.emergency_mode = 1 /\ shm.individual_service_mode = 0 ~>
    \/ sent = {"EMERGENCY"}
    \/ shm.emergency_mode = 0
    \/ shm.individual_service_mode = 1

(***************************************************************************)
(* A stop button or an overload that is there when the safety process is   *)
(* awake puts the car into emergency mode, unless it is taken back first.  *)
(***************************************************************************)
Awake == safety = "wait" /\ "safety" \notin waiting

HazardFlagged ==
  Awake /\ (shm.emergency_stop = 1 \/ shm.overload = 1) ~>
    \/ shm.emergency_mode = 1
    \/ shm.emergency_stop = 0 /\ shm.overload = 0
=============================================================================
