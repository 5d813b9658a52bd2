------------------------------ MODULE Elevator ------------------------------
(***************************************************************************)
(* A whole trip: the threads of one car (src/car.c), the controller        *)
(* (src/controller.c) and the call pads (src/call.c) of passengers who     *)
(* wait at a floor, get in when the doors are open there and get out where *)
(* they wanted to go.  Nobody presses a button inside the car and nobody   *)
(* gives up; the connection of the car breaks at most MaxBreaks times.     *)
(*                                                                         *)
(* CarLink has the controller as an environment that fills inbox; here the *)
(* inbox is what the controller has sent to the socket of the car.         *)
(***************************************************************************)
EXTENDS CarLink, CallPad

CONSTANTS
  CarName,       \* argv[1] of the car
  MaxInFlight    \* bound on the reports the controller has not received

VARIABLES
  told,          \* the status in the last report of the car
  trip,          \* Pads -> how far the passenger has come
  raced,         \* whether a FLOOR has come at one of two wrong times: Races
  unreported     \* whether a door phase of a stop has ended without a report of it

carVars == <<shmVars, doorVars, processVars, linkVars, told>>

vars == <<carVars, controllerVars, pad, trip, raced, unreported>>

FlightAssumption ==
  /\ CarName \notin Pads /\ Nobody \notin Pads \union {CarName}
  /\ MaxInFlight \in Nat \ {0}
ASSUME FlightAssumption

Init ==
  /\ init_shared_data
  /\ pc = [doorcontrol |-> "poll", process |-> "start", tcp |-> "connect"]
  /\ current_status = [t \in DoorThread |-> "Opening"]
  /\ floordiff = 0 /\ i = 0 /\ shm_send = 0 /\ read_flag \in {0, 1}
  /\ inbox = <<>> /\ sent = {} /\ sockets = 0 /\ requests = 0 /\ breaks = 0
  /\ controller_init
  /\ pad_init
  /\ told = "Closed"
  /\ trip = [p \in Pads |-> "waiting"]
  /\ raced = FALSE
  /\ unreported = FALSE

-----------------------------------------------------------------------------
(* Passengers.                                                             *)

DoorsOpenAt(floor) == shm.current_floor = floor /\ shm.status = "Open"

(* How far the passenger of pad p comes with a step.                       *)
Ride(p) ==
  CASE pad[p].phase = "idle"                                       -> "waiting"
    [] trip[p] = "waiting" /\ DoorsOpenAt(pad[p].call[1])          -> "riding"
    [] trip[p] = "riding" /\ DoorsOpenAt(pad[p].call[2])           -> "delivered"
    [] OTHER                                                       -> trip[p]

(* The FLOOR at the head of the inbox is received, heeded or not.          *)
ReceivesFloor == Len(inbox') < Len(inbox) /\ pc'["tcp"] = "top"

(* The process thread has not started and main's stack holds 0: the FLOOR  *)
(* is not heeded, but shm_send is set and the car at its destination.  Or  *)
(* at_destination is 0 and about to be used, and shm_send will be 1.       *)
Races ==
  \/ pc["process"] = "start" /\ read_flag = 0
  \/ pc["process"] = "check_send" /\ floordiff = 0

(* The process thread goes on after a carwait of operate_door, but no      *)
(* report has told the controller of the phase that ends: the delay is     *)
(* shorter than a round of the link thread (and none below one second).    *)
OutrunsReports ==
  /\ pc["process"] = "check" /\ pc'["process"] # "check"
  /\ current_status["process"] # "Opening"
  /\ shm_send = 1 /\ told # shm.status

-----------------------------------------------------------------------------
(* The car.                                                                *)

Process == ProcessRuns /\ UNCHANGED <<linkVars, told, controllerVars, pad>>

ReportedStatus ==
  StatusMessage(shm.status, shm.current_floor, shm.destination_floor)

ConnectCar == Connect /\ UNCHANGED <<told, controllerVars, pad>>

(* A connection that fails before CAR and STATUS are sent tells the        *)
(* controller nothing.                                                     *)
RegisterCar ==
  /\ Register
  /\ \/ /\ pc'["tcp"] = "top"
        /\ Room
        /\ net' = Dialled(CarName, <<CarMessage(CarName, LowestFloor, HighestFloor),
                                     ReportedStatus>>)
        /\ told' = shm.status
     \/ /\ pc'["tcp"] # "top"
        /\ UNCHANGED <<net, told>>
  /\ UNCHANGED <<cars, pad>>

Taken(messages) == IF messages = <<>> THEN messages ELSE Tail(messages)

(* A report is sent and a FLOOR received, if there is one, which stays in  *)
(* the socket until it is heeded; or the car goes to wait, or closes its   *)
(* end because the connection failed.                                      *)
ReportCar ==
  /\ HeldBy(CarName) # {}
  /\ Top \/ TimeoutReport
  /\ LET s == SocketOf(CarName)
     IN  \/ /\ pc'["tcp"] \in {"top", "heed"}
            /\ Len(net.to[s]) < MaxInFlight
            /\ net' = [net EXCEPT !.to[s] = Append(@, ReportedStatus),
                                  !.from[s] = IF pc'["tcp"] = "heed" THEN @ ELSE Taken(@)]
            /\ told' = shm.status
         \/ /\ pc'["tcp"] = "wait"
            /\ UNCHANGED <<net, told>>
         \/ /\ pc'["tcp"] \notin {"top", "heed", "wait"}
            /\ net' = Abandoned(net, s)
            /\ UNCHANGED told
  /\ UNCHANGED <<cars, pad>>

HeedCar ==
  /\ HeldBy(CarName) # {}
  /\ HeedFloor
  /\ net' = [net EXCEPT !.from[SocketOf(CarName)] = Taken(@)]
  /\ UNCHANGED <<told, cars, pad>>

CarTalks == ConnectCar \/ RegisterCar \/ ReportCar \/ HeedCar

-----------------------------------------------------------------------------
(* The controller and the pads.                                            *)

SentToCar(n) ==
  LET held == {s \in Sockets : n.peer[s] = CarName}
  IN  IF held = {} THEN <<>>
      ELSE [k \in DOMAIN n.from[Min(held)] |-> n.from[Min(held)][k].floor]

Control ==
  /\ Serve
  /\ inbox' = SentToCar(net')
  /\ UNCHANGED <<shmVars, doorVars, processVars, sent, sockets, requests, breaks,
                 told, pad>>

Call == \E p \in Pads : PadCalls(p) /\ UNCHANGED carVars

Answered == \E p \in Pads : PadReceives(p) /\ UNCHANGED carVars

Observe ==
  /\ trip' = [p \in Pads |-> Ride(p)]
  /\ raced' = (raced \/ (ReceivesFloor /\ Races))
  /\ unreported' = (unreported \/ OutrunsReports)

Next == (Process \/ CarTalks \/ Control \/ Call \/ Answered) /\ Observe

Spec == Init /\ [][Next]_vars

(* The threads of both programs run, and a pad reads its answer.           *)
Moves(A) == A /\ Observe

Fairness ==
  /\ WF_vars(Moves(Process))
  /\ WF_vars(Moves(CarTalks))
  /\ WF_vars(Moves(Control))
  /\ WF_vars(Moves(Answered))

FairSpec == Spec /\ Fairness

-----------------------------------------------------------------------------

(***************************************************************************)
(* A passenger who was told a car is picked up and brought to the other    *)
(* floor: FLOOR messages, read_flag, shm_send, two threads of the car and  *)
(* the sampled reports that advance the queue work together, although the  *)
(* car opens its doors twice at a stop and the queue moves at either time. *)
(* Unless a FLOOR raced, or the doors were faster than the reports and the *)
(* controller never saw them closing.                                      *)
(***************************************************************************)
EveryoneDelivered ==
  \A p \in Pads :
    pad[p].answer = CarAnswer(CarName) ~> trip[p] = "delivered" \/ raced \/ unreported

(***************************************************************************)
(* Nobody is forgotten on the way: the floors a passenger still needs are  *)
(* in the queue, under way to the car, or where the car is going.  The     *)
(* queue is advanced by reports that lag behind the car, and twice at a    *)
(* stop.  Unless a FLOOR raced: a door cycle that is no stop then ends the *)
(* first one.                                                              *)
(***************************************************************************)
Needs(p) ==
  CASE trip[p] = "waiting"   -> {pad[p].call[1], pad[p].call[2]}
    [] trip[p] = "riding"    -> {pad[p].call[2]}
    [] trip[p] = "delivered" -> {}

Planned ==
  (UNION {{cars[k].queue[j].floor : j \in DOMAIN cars[k].queue} : k \in DOMAIN cars})
    \union ToSet(inbox) \union {shm.destination_floor}

NobodyForgotten ==
  \A p \in Pads :
    pad[p].answer = CarAnswer(CarName) => Needs(p) \subseteq Planned \/ raced

(***************************************************************************)
(* The controller learns where the car came to rest: reports are samples,  *)
(* and what Assign guesses of the destination is put right by the next one.*)
(***************************************************************************)
RecordCorrect ==
  /\ Len(cars) = 1
  /\ cars[1].status = shm.status
  /\ cars[1].currentfloor = shm.current_floor
  /\ cars[1].destinationfloor = shm.destination_floor

ControllerLearns == <>[]RecordCorrect

(***************************************************************************)
(* The doors open only where a passenger waits or wants to go: the process *)
(* thread decides by a difference of floors it read before, and by a flag  *)
(* that another thread sets.  A FLOOR that raced sets that flag at a floor *)
(* that is no stop.                                                        *)
(***************************************************************************)
Stops == UNION {Range(pad[p].call) : p \in Pads}

OpensOnlyAtStops == shm.status = "Open" => shm.current_floor \in Stops \/ raced
=============================================================================
