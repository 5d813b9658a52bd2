------------------------------ MODULE CarQueue ------------------------------
(***************************************************************************)
(* The queue of stops the controller keeps for a car                       *)
(* (src/controllermemory.c): a linked list of floors, each with the        *)
(* direction of the request it came from, as a sequence.                   *)
(*                                                                         *)
(* A car is the record the controller keeps of it; the operators below     *)
(* read its queue, currentfloor, current_direction and elevator_status.    *)
(* The tail of the list is shared, never copied, so a node that is linked  *)
(* from nowhere is lost: the sequences show the nodes that can be reached. *)
(***************************************************************************)
EXTENDS Floors, Sequences, SequencesExt

Direction == {"UP", "DOWN", "IDLE"}

QueueNode == [floor : Label, direction : Direction]

RequestDirection(source, dest) == IF dest > source THEN "UP" ELSE "DOWN"

Stop(floor, direction) == [floor |-> floor, direction |-> direction]

(* Mutant: only the floor the passenger starts at is compared.             *)
CanPickUp(car, source, dest) ==
  car.lowest_floor =< source /\ source =< car.highest_floor

can_service_request(car, source, dest) ==
  {source, dest} \subseteq car.lowest_floor .. car.highest_floor

(* current_block_direction when the scan is at the k-th stop: the car's    *)
(* direction up to the first change, and from there that of the stop.      *)
BlockDirection(car, k) ==
  IF \E j \in 1 .. k - 1 : car.queue[j].direction # car.queue[j + 1].direction
    THEN car.queue[k].direction
    ELSE car.current_direction

(* The stops after which the scan may link the source.                     *)
InsertionPoints(car, source, direction) ==
  {k \in DOMAIN car.queue :
     /\ BlockDirection(car, k) = direction
     /\ IF direction = "UP" THEN source >= car.queue[k].floor
                            ELSE source =< car.queue[k].floor}

AlreadyThere(car, source, direction) ==
  /\ stringToFloor(car.currentfloor) = source
  /\ car.elevator_status # "Closing"
  /\ car.current_direction \in {direction, "IDLE"}

(* The queue after the call.  At the head and inside a block the new stop  *)
(* of the destination points into the list, but nothing points to it.      *)
add_to_car_queue(car, source, dest) ==
  LET direction == RequestDirection(source, dest)
      from      == Stop(source, direction)
      to        == Stop(dest, direction)
      points    == InsertionPoints(car, source, direction)
  IN  IF car.queue = <<>>
        THEN <<from, to>>
      ELSE IF AlreadyThere(car, source, direction)
        THEN <<from>> \o car.queue
      ELSE IF points # {}
        THEN InsertAt(car.queue, Min(points) + 1, from)
      ELSE car.queue \o <<from, to>>

(* -1 for an empty queue, and for one whose first stop is floor B1.        *)
get_next_destination(queue) == IF queue = <<>> THEN -1 ELSE Head(queue).floor

remove_from_car_queue(queue) == IF queue = <<>> THEN queue ELSE Tail(queue)
=============================================================================
