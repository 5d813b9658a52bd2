----------------------------- MODULE Controller -----------------------------
(***************************************************************************)
(* The controller (src/controller.c): tcp_communication_thread, which      *)
(* handles one message of one ready socket at a time, and                  *)
(* handle_elevator_call; with the list of cars (src/controllermemory.c).   *)
(*                                                                         *)
(* The list is searched by name for almost everything, and a name by the   *)
(* socket a message came from.  Neither is a key: a connection that was    *)
(* reset leaves its entry behind, the car registers again under its name,  *)
(* and the next client gets the same descriptor.                           *)
(*                                                                         *)
(* One action handles one message of the descriptor whose turn it is in    *)
(* the round that select began.                                            *)
(***************************************************************************)
EXTENDS CarQueue, Connections

CONSTANT StackCars   \* what the local connectedcar_t of the CAR handler may hold
                     \* where it is not assigned: [current_direction, elevator_status]

VARIABLE cars        \* controller.data[0 .. size - 1]

controllerVars == <<cars, net>>

StackAssumption ==
  StackCars \subseteq [current_direction : Direction,
                       elevator_status : {"Opening", "Closing"}]
ASSUME StackAssumption

(* Messages to the controller, and the commands the switch falls through.  *)
CallMessage(source, dest) == [kind |-> "CALL", source |-> source, dest |-> dest]

CarMessage(name, lowest, highest) ==
  [kind |-> "CAR", name |-> name, lowest_floor |-> lowest, highest_floor |-> highest]

StatusMessage(status, current, destination) ==
  [kind |-> "STATUS", status |-> status,
   currentfloor |-> current, destinationfloor |-> destination]

(* Messages from the controller.                                           *)
FloorMessage(floor) == [kind |-> "FLOOR", floor |-> floor]

CarAnswer(name) == [kind |-> "CAR", name |-> name]

Unavailable == [kind |-> "UNAVAILABLE"]

-----------------------------------------------------------------------------
(* The list of cars.                                                       *)

OnSocket(s) == {k \in DOMAIN cars : cars[k].connectionsocket = s}

Named(name) == {k \in DOMAIN cars : cars[k].name = name}

(* Meaningful when OnSocket(s) is not empty: else the name is NULL.        *)
controller_get_name_by_socket(s) == cars[Min(OnSocket(s))].name

controller_get_socket_by_name(name) == cars[Min(Named(name))].connectionsocket

(* Mutant: the last entry of that name is removed.                         *)
RemovedLast(name) == Max(Named(name))

RemovedFirst(name) == Min(Named(name))

controller_remove_by_name(name) == RemoveAt(cars, RemovedFirst(name))

(* queue_init is never called for an entry that is pushed.  The bytes that *)
(* were not assigned are zero or what the stack held: no queue, no floors, *)
(* and a direction and a status that stay what they are for ever.          *)
NewCar(message, s, stack) ==
  [name              |-> message.name,
   lowest_floor      |-> message.lowest_floor,
   highest_floor     |-> message.highest_floor,
   status            |-> "",
   previous_status   |-> "IDLE",
   currentfloor      |-> NoFloor,
   destinationfloor  |-> NoFloor,
   connectionsocket  |-> s,
   queue             |-> <<>>,
   current_direction |-> stack.current_direction,
   elevator_status   |-> stack.elevator_status]

(* Bytes for recv at the turn of socket s.                                 *)
Arrived(s) == Turn(s) /\ net.to[s] # <<>>

-----------------------------------------------------------------------------
(* handle_elevator_call.                                                   *)

MinDistance == 100

(* A car that has told no floor counts as one at floor 999.                *)
Distance(car, source, dest) ==
  Abs(stringToFloor(car.currentfloor) - source)
  - (IF car.current_direction = RequestDirection(source, dest) THEN 5 ELSE 0)
  + 2 * Len(car.queue)

Candidates(source, dest) ==
  {k \in DOMAIN cars : /\ can_service_request(cars[k], source, dest)
                       /\ Distance(cars[k], source, dest) < MinDistance}

(* The first of the nearest.                                               *)
BestCar(source, dest) ==
  Min({k \in Candidates(source, dest) :
         \A j \in Candidates(source, dest) :
           Distance(cars[k], source, dest) =< Distance(cars[j], source, dest)})

(* snprintf("%d") instead of floorToString: a basement floor becomes a     *)
(* text that equals no label.                                              *)
Decimal(floor) == IF floor < 0 THEN floor - 1000 ELSE floor

(* "if queue was empty", says the code: it asks whether the car is at its  *)
(* destination.                                                            *)
SendsFloor(car, queue) ==
  car.destinationfloor = car.currentfloor /\ get_next_destination(queue) # -1

(* The entry of a car that took a call.                                    *)
Booked(car, queue) ==
  [car EXCEPT !.queue = queue,
              !.destinationfloor = IF SendsFloor(car, queue)
                                     THEN Decimal(get_next_destination(queue))
                                     ELSE @]

(* A call for entry k: the cars and the connections afterwards.  FLOOR     *)
(* goes to the first entry of that name, the answer to socket s.           *)
Assign(k, source, dest, s) ==
  LET queue  == add_to_car_queue(cars[k], source, dest)
      target == controller_get_socket_by_name(cars[k].name)
  IN  /\ cars' = [cars EXCEPT ![k] = Booked(@, queue)]
      /\ \E n \in IF SendsFloor(cars[k], queue)
                    THEN Sends(Received(s), target, FloorMessage(get_next_destination(queue)))
                    ELSE {Received(s)} :
           net' \in Sends(n, s, CarAnswer(cars[k].name))

(* Mutant: the answer that no car is available is not sent.                *)
RefuseSilently(s) == net' = Received(s)

Refuse(s) == net' \in Sends(Received(s), s, Unavailable)

HandleCall(s) ==
  LET m == Head(net.to[s])
  IN  /\ Arrived(s) /\ m.kind = "CALL"
      /\ \/ /\ Candidates(m.source, m.dest) # {}
            /\ Assign(BestCar(m.source, m.dest), m.source, m.dest, s)
         \/ /\ Candidates(m.source, m.dest) = {}
            /\ Refuse(s)
            /\ UNCHANGED cars

-----------------------------------------------------------------------------
(* tcp_communication_thread, the other messages.                           *)

HandleCar(s) ==
  /\ Arrived(s) /\ Head(net.to[s]).kind = "CAR"
  /\ \E stack \in StackCars : cars' = Append(cars, NewCar(Head(net.to[s]), s, stack))
  /\ net' = Received(s)

(* Mutant: the floor the car is at is not updated.                         *)
UpdatedHalf(car, m) ==
  [car EXCEPT !.status = m.status, !.previous_status = m.status,
              !.destinationfloor = m.destinationfloor]

(* controller_set of status, currentfloor and destinationfloor, and of     *)
(* previous_status at the end.                                             *)
Updated(car, m) ==
  [car EXCEPT !.status = m.status, !.previous_status = m.status,
              !.currentfloor = m.currentfloor, !.destinationfloor = m.destinationfloor]

(* Mutant: any Closed report counts.                                       *)
ArrivesClosed(car, m) == m.status = "Closed"

(* Doors that were reported Closing and now Closed mean an arrival.        *)
Arrives(car, m) == car.previous_status = "Closing" /\ m.status = "Closed"

(* A status counts for the first entry with the name of the first entry    *)
(* with the socket; the next floor goes to the socket itself.  Later       *)
(* entries of that name, which the loop reaches when a send fails, have    *)
(* never had a status.                                                     *)
HandleStatus(s) ==
  LET m == Head(net.to[s])
  IN  /\ Arrived(s) /\ m.kind = "STATUS"
      /\ \/ /\ OnSocket(s) = {}
            /\ net' = Received(s)
            /\ UNCHANGED cars
         \/ /\ OnSocket(s) # {}
            /\ LET k       == Min(Named(controller_get_name_by_socket(s)))
                   arrives == Arrives(cars[k], m)
                   queue   == IF arrives THEN remove_from_car_queue(cars[k].queue)
                                         ELSE cars[k].queue
                   next    == get_next_destination(queue)
               IN  /\ cars' = [cars EXCEPT ![k] = [Updated(@, m) EXCEPT !.queue = queue]]
                   /\ net' \in IF arrives /\ next # -1
                                 THEN Sends(Received(s), s, FloorMessage(next))
                                 ELSE {Received(s)}

(* EMERGENCY and INDIVIDUAL SERVICE: the car is forgotten when it hangs up.*)
HandleOther(s) ==
  /\ Arrived(s) /\ Head(net.to[s]).kind \notin {"CALL", "CAR", "STATUS"}
  /\ net' = Received(s)
  /\ UNCHANGED cars

(* recv returns 0: the first entry with the name of the socket goes.       *)
HandleHangUp(s) ==
  /\ Turn(s) /\ net.link[s] = "hung_up" /\ net.to[s] = <<>>
  /\ cars' = IF OnSocket(s) = {} THEN cars
             ELSE controller_remove_by_name(controller_get_name_by_socket(s))
  /\ net' = Closed(Served(s), s)

(* recv returns -1, for a reset or a descriptor that a failed send closed: *)
(* the socket is closed and the entry stays.                               *)
HandleError(s) ==
  /\ Turn(s) /\ net.link[s] \in {"reset", "free"} /\ net.to[s] = <<>>
  /\ net' = Closed(Served(s), s)
  /\ UNCHANGED cars

HandleSocket(s) ==
  \/ HandleCall(s)
  \/ HandleCar(s)
  \/ HandleStatus(s)
  \/ HandleOther(s)
  \/ HandleHangUp(s)
  \/ HandleError(s)

(* One step of tcp_communication_thread.                                   *)
Serve ==
  \/ Select /\ UNCHANGED cars
  \/ \E s \in Sockets : HandleSocket(s)

controller_init == cars = <<>> /\ net = NoConnections
=============================================================================
