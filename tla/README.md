# TLA+ models of the elevator simulation

The repository simulates an elevator installation with four C programs that
talk over TCP and POSIX shared memory. This directory holds TLA+ models of it,
the TLC runs that check them and TLAPS proofs about them.

## The system

| Component | Source | State it keeps | Operations | Correct when |
|---|---|---|---|---|
| Floors | `src/sharedmemory.c` | none | `stringToFloor`, `floorToString`, the arithmetic of `OP_MOVE_*` | a move by one floor is a move by one floor, also between B1 and 1 |
| Shared memory `/car{name}` | `src/sharedmemory.c`, `include/sharedmemory.h` | `car_shared_data_t`, mutex, condition variable | `init_shared_data`, `edit_shared_memory`, reads | every access is one critical section, every edit broadcasts |
| Door machine | `src/car.c:112-122, 327-388` | `current_status` (one per caller) | `operate_door`, `doorcontrol_thread` | doors that open also close, one machine does not undo the other |
| Process thread | `src/car.c:392-438` | `floordiff`, `i`, `read_flag`, `shm_send` | compare, clamp, drive, arrive | every destination is reached, the car stays in its shaft |
| Link of a car | `src/car.c:43-77, 125-315` | socket, `connected` | connect, register, report, receive FLOOR, withdraw | the controller knows the truth, a FLOOR that is heeded does not misdirect a trip that has begun |
| Internal controls | `src/internal.c` | none of its own | open, close, stop, service_on, service_off, up, down | what an operation checked still holds when it acts |
| Safety system | `src/safety.c` | none of its own | wait, check | hazards put the car into emergency mode |
| Controller | `src/controller.c` | list of cars, sockets, buffer | CALL, CAR, STATUS, hang-up, failed receive | every call gets one answer, a connected car stays in the list, the queue advances when the car has arrived |
| Car queues | `src/controllermemory.c` | one queue per car | insert a request, pop, next | no request is lost, source before destination, floors of the shaft only |
| Call pad | `src/call.c` | none | one CALL, one answer | the car it is told goes to both floors and comes |
| Memory test program, tests | `src/test.c`, `Test/` | | | |

How they interact. A car is one process with three threads (`main` creates
them) and a segment that the internal controls, the safety system and, in the
tests, the sensors map as well. They share nothing but that segment, its mutex
and its condition variable, except that the threads of the car also share
`shm_send` and `read_flag`, which no lock protects. Cars and call pads talk to
the controller over TCP: a car sends CAR, STATUS, EMERGENCY and INDIVIDUAL
SERVICE, the controller sends FLOOR. The controller is one thread around
`select`; it knows about a car only what STATUS samples, and it finds a car by
its name or by the number of a descriptor, neither of which is a key.

What is hard here: the two door machines and the process thread all write
`status`; the process thread follows a `floordiff` that may be stale; flags are
read and written without the lock; the safety process waits without a
predicate; connections break and are made again, and descriptors change hands
while entries of the list keep them; the controller infers arrivals from sampled
statuses and advances its queue by them. `PROJECT.json` lists every such place with the property
that watches it.

## The modules

| Module | Models |
|---|---|
| `Floors` | labels, conversions, moves |
| `SharedMemory` | the segment and `edit_shared_memory`; `waiting` is the set of processes blocked on its condition variable |
| `CarDoor` | `operate_door` in both its threads, `doorcontrol_thread` |
| `CarProcess` | `process_thread` |
| `CarLink` | `connect_to_server`, `tcp_communication_thread`; the controller's messages and failing connections |
| `Internal` | the internal controls |
| `Safety` | the safety process and the sensors |
| `CarSystem` | all of them over one segment; the properties of a car |
| `Connections` | descriptors, the listening queue, rounds of `select`, hang-up, reset, SIGPIPE |
| `CarQueue` | `can_service_request` and the queue operations of `controllermemory.c` |
| `Controller` | `tcp_communication_thread` and `handle_elevator_call` of the controller, and its list of cars |
| `CallPad` | `call.c`, one run of the program per pad |
| `ControllerSystem` | the controller with cars that come and go and with call pads; its properties |
| `Dispatch` | abstract: what the controller promises the call pads |
| `Elevator` | one car's threads, the controller, call pads and passengers: a whole trip |
| `MCCarSystem`, `MCControllerSystem`, `MCElevator` | constants for TLC |
| `CarClaims`, `ControllerClaims`, `ElevatorClaims` | what tests and documents say and TLC refutes |
| `CarLemmas`, `ControllerLemmas` | what the steps of a car and of the controller do, whoever the others are |
| `CarSystemProofs` | the theorems about a car |
| `ControllerProofs`, `ListingProofs`, `DispatchProofs` | the theorems about the controller |
| `ElevatorProofs`, `PassengerProofs` | the theorems about the whole trip, and about one passenger |

`CarDoor`, `CarProcess` and `CarLink` extend one another because the threads of
a car share `pc`, `shm_send` and `read_flag`; `Internal` and `Safety` know only
`SharedMemory`, as their programs do. `CarSystem` puts the three together.
`Controller` extends `CarQueue` and `Connections`, `CallPad` extends
`Controller`. `ControllerSystem` adds cars seen from the controller: any report
of a set, at any moment. `Elevator` extends `CarLink` and `CallPad` instead, so
that the reports are those of the real threads. The connection of its car may
break (`MaxBreaks`): before CAR and STATUS are sent, which tells the controller
nothing, or at a report, and then the controller reads what was sent and removes
the car with its queue, while the car keeps its destination and connects again.

### State

`shm` is `*shm->data` without mutex and condition variable. A floor label is
the number `stringToFloor` reads from it: the string carries nothing else, and
what `floorToString` does to a number that has no label (0, or too many digits)
is modelled. `floordiff`, `i`, `shm_send`, `read_flag` and `current_status` are
the C variables of these names. `at_destination` is left out: it comes from the
same two labels as `floordiff`, so it is zero exactly when `floordiff` is.
`next_status` is a function of `current_status`. `current_status` and `i` are
reset to the value the next call or loop starts with, so that states which
differ in a dead local only are the same state. `sent` is the last thing the
car told the controller, `inbox` what the controller sent and the car has not
read, `sockets` the car's open descriptors.

`cars` is `controller.data[0 .. size - 1]`, a record per `connectedcar_t`. Its
queue is the sequence of nodes that can be reached from `queue_head`: a node
that points into the list while nothing points to it is lost and does not
appear. A car that has told no floor has `NoFloor`, 0, for the text that nobody
wrote. `stringToFloor` makes `INT_MIN` of it, which `sharedmemory.h:172` defines as
999: to `AlreadyThere` and `Distance` such a car is at floor 999. `destinationfloor` may hold a text that is
no label, because `handle_elevator_call` writes it with `%d` (`Decimal`). The
fields of a pushed entry that nobody assigned are chosen from `StackCars`.

`net` is the controller's end of all connections: per descriptor whether it is
open, was hung up or was reset (a client closed it with data it had not read),
who holds the other end, and the messages either way; the clients that have
connected and are not accepted yet; `ready`, what is left of the set the last
`select` returned; and `up`, FALSE once SIGPIPE has ended the controller.

In `Elevator`, `trip` is how far a passenger has come and `told` the status in
the last report of the car. Two history variables remember what the code does not
prevent. `raced` is set when a FLOOR is received at one of two wrong times
(`Races`). The first is before `car.c:395`, with a `read_flag` that is not 1: the
FLOOR is dropped but sets `shm_send`, and the car, which is where it was told to
go, opens its doors at the lowest floor. The second is between the comparison of
the floors (`car.c:400`) and the look at `shm_send` (`car.c:412`), when they
were found equal: the doors then open at the old floor. `Races` asks whether the
inbox got shorter, not whether it is empty afterwards: with two passengers another
FLOOR may already be behind the one that is received. `unreported` is set when a
door phase of the process thread ends and no report has told the controller of it
(`OutrunsReports`).

### Steps

Every access to the segment locks the mutex, so a critical section is one
action and everything between two critical sections interleaves. `pc[t]` names
the next such access of a thread; unlocked writes to `read_flag` and `shm_send`
are steps of their own, except a write that directly follows a critical section
of the same thread and whose effect nobody could tell from the same write a
moment later. `carwait` is `sleep((double)delaytime/1000)`, which truncates to
no sleep at all for a delay below a second, and is a pause without a lock
otherwise: no timing is assumed.

| Code | Action |
|---|---|
| `car.c:113-118` poll | `PollOpen` |
| `car.c:333, 334` | `CheckStatus`, `CorrectStatus` |
| `car.c:337-350` | `ReadOpen`, `ClearOpenTwice`, `ClearOpen` |
| `car.c:352-357` | `ReadClose`, `ClearClose` |
| `car.c:359-386` | `EnterStatus` |
| `car.c:395` | `StartProcess` |
| `car.c:399-411` | `ReadFloors` |
| `car.c:412-415` | `CheckSend`, the door machine, `ClearSend` |
| `car.c:417` | `CheckMove` |
| `car.c:420-431` | `SetBetween`, `ClearReadFlag`, `MoveCurrent`, `SetClosed`, `SetReadFlag` |
| `car.c:43-77`, `132-172` | `Connect`, `Register` |
| `car.c:174-312` | `Top` (to the wait, or to the end when there is none), `TimeoutReport`, `TimeoutClosed`, `HeedFloor` (305, 306) |
| `internal.c:97-150` | `RunOperation`, then `EditFlag`, `OpenDoor` or `Drive`, a call at a time |
| `safety.c:164-244` | `SafetyWait`, `SafetyCheck` |
| `controller.c`, `select` and `accept` | `Select`: a round begins, one client is accepted |
| `controller.c`, a ready descriptor | `HandleCall`, `HandleCar`, `HandleStatus`, `HandleOther`, `HandleHangUp`, `HandleError` |
| `call.c` | `PadCalls`, `PadReceives`, `PadQuits` |

`read_flag` is uninitialised until the process thread starts (`car.c:395`; the link
thread is created before it, `car.c:547, 552`); `Init` of both `CarSystem` and
`Elevator` lets it be 0 or 1 (any other value acts like 0).

The link thread tests `read_flag` (`car.c:305`) and writes the destination (306)
with the mutex locked, but the process thread stores the flag without it. So the
two are two actions, `ReceiveFloor` and `HeedFloor`, and between them, at pc
`"heed"`, the lock is held: whatever needs it waits (`MutexFree`), and the process
thread takes only the steps that touch nothing but the flag, `shm_send` and locals
(`Lockless`). No other pair of steps needs this, because no other critical section
looks at something that is written without the lock and acts on it later.

The car exits when it has no descriptor
left; from then on `pc` is `"exited"` for all three threads.

The controller's thread is alone, so the handling of one message is one action,
with every send it makes. A round of `select` fixes the set of descriptors; they
are served in ascending order, one message each, and the client that was just
accepted waits for the next round. What else arrives meanwhile does so between
two actions. A receive from a closed end gives what was sent before, then 0
(`HandleHangUp`, the entry is removed) or an error (`HandleError`, the entry
stays behind). A send to a reset connection fails and closes the descriptor; a
send after a hang-up may raise SIGPIPE, which ends the controller.

A client's first messages are there when it is accepted: a client that sends
them later is one that connects later.

`Elevator` makes no assumption about timing: its threads interleave in every way,
and neither a door phase nor a wait of the link thread lasts any time. It has one
bound of that kind, at most `MaxInFlight` reports that the controller has not read.
The phases of the doors and the waits of the link thread last the same delay in the
code, and below one second the phases last none; that the controller sees each
phase is therefore not assumed but asked by `unreported`, and only
`EveryoneDelivered` asks.

## The runs

Every run takes TLC less than a minute on two workers, except `controller`,
`elevator` and `elevator_breaks`, which take up to three minutes each.

| Run | Instance | Shows |
|---|---|---|
| `car_serves` | shaft B1..2, two FLOOR messages, one press of open or close, fair | `TypeOK`; `DoorsAttended`; `InShaft` across the ground; `DestinationHeld`; `EveryFloorServed`; `ComesToRest` |
| `car_modes` | shaft 1..2, safety process, two sensor edits, one of open, stop and service_on, one break, two descriptors, fair | `DoorsAttended` with reopening doors; `HazardFlagged`; `EmergencyTold` |
| `controller` | two cars that connect three times and report once, two call pads, two descriptors, fair | `EveryCarListed`; `QueuesInShaft`; `EveryCallAnswered`; `ImplementsDispatch` |
| `elevator` | one car in a shaft 1..3 from before its process thread starts, the controller, one passenger who goes from 1 to 3 or from 3 to 2, fair | `EveryoneDelivered`; `NobodyForgotten`; `ControllerLearns`; `OpensOnlyAtStops` |
| `elevator_breaks` | the same with one break of the car's connection and a passenger who may also go from 2 to 4, where the car does not go; no fairness | `OpensOnlyAtStops`; `InShaft` |
| `claim_doors_shut` | | doors open in a car that is about to move |
| `claim_top` | | the car drives past its highest floor |
| `claim_no_updates` | | a withdrawn car registers and reports again |
| `claim_service_on` | | emergency mode survives service_on |
| `claim_stop` | fair | a pressed stop button is never noticed |
| `claim_named_car` | two cars, two pads | a pad is told one car and another is sent |
| `claim_extra_stops` | two passengers, shaft 1..4 | a destination never enters the queue |

The seven claims are sentences of the repository's tests, comments and README;
each run finds the behaviour of the code that contradicts one, and a finding in
`PROJECT.json` quotes it.

**Bounds.** `MaxRequests`, `MaxPresses`, `MaxSensed` and `MaxBreaks` bound what
the environment does, `MaxSockets` is the descriptor limit of the process. Two
FLOOR messages are the fewest with which one arrives while the other is being
served; one press and one arrival have both door machines run at once; three
floors give the process thread a loop of two rounds, so that a stale `floordiff`
can be followed. B1..2 is the smallest shaft with a trip across the ground that
starts and ends at different places of it. A second press, which may fall
between the two clears of `ClearOpenTwice`, makes the liveness properties too
slow; the safety properties were checked with it too, and are theorems for any
number of presses. Two descriptors let a car hold a leaked one and still
connect. The instance of each run leaves out the parts its question is not
about, because the interleavings of all of them are out of TLC's reach; the
theorems have no such bounds.

In `controller`, `MaxClients` bounds the descriptors in use at once: with two of
them and four clients every descriptor is used again, also while an entry of
the list still holds its number. `MaxConnects = 3` lets a car leave a dead entry
behind and register again while another car gets the old descriptor. With
`MaxReports = 1` a car that registers while Closing can report Closed, which is
an arrival. The shafts 1..3 and 1..2 make one call that only one of the cars can
take. In `elevator` the shaft has three floors, the fewest with a floor that the
car passes; it has no basement, because the number of B1 is what an empty queue
returns and the overshoot at the ground gives the controller a second arrival.
One passenger makes one of two trips: up from where the car stands, which is the
call a car without work is told at once, over the floor between; or down from the far
end, to a floor short of where the car started. With two passengers stops are lost, as
`claim_extra_stops` shows. One break is enough in `elevator_breaks` for a car that
is listed twice, for a FLOOR that is lost with the connection and for one that
the car still follows after the queue it came from is gone. `NobodyForgotten` is not a
property of that run: with a break it is false, because the queue goes with the
entry of the list (`controller.c:270`).

**Deadlock** is checked except in `car_modes`, where the car may exit for want
of descriptors, in `controller` and `claim_named_car`, where the clients are done
in the end or the controller is gone, and in `elevator`, `elevator_breaks` and
`claim_extra_stops`, which are about what becomes of passengers and not about stopping.

**Fairness.** Weak fairness of each thread of the car, of the safety process
and of each started command: each is a loop, or straight code, that the
scheduler runs and that takes a mutex everybody else releases. The actions of a
thread are taken together because the thread is at one place at a time. `Link`
includes `Connect`, so a controller is assumed that accepts the connection in
the end. Nothing is assumed of passengers, sensors, messages, failures or
spurious wakeups. Of the controller, weak fairness of its one thread (`Handle`,
`Control`), and of a call pad that its blocking receive returns; no fairness
for cars or pads to connect, report or leave. An exhausted `MaxSensed` or `MaxBreaks` means that the
sensors and the network are quiet from some moment on.

`ComesToRest` holds because the environment falls silent, and is about what the
car does then: no door machine keeps the other one running, no press of the open
button and no `shm_send` is left over, the floor the overshoot missed is gone back to.
`close_button` is not part of `AtRest`: a press that comes when the doors are not open
stays set until they next are. `EveryFloorServed` allows
a later FLOOR to replace an earlier one before it is reached, as the code does.

`DestinationHeld` is about the time between the stores of 0 and 1 to `read_flag`
(`FlagCleared`). It does not say that no FLOOR is heeded between two floors, which is
false: the status is Between (`car.c:420`) before the flag is cleared (421). It says
that from the store of 0 on the lock is not taken to heed another FLOOR, and that one
tested before is written, if at all, before the car has moved. That such a late
destination does no harm is what the other properties of the run say: the trip in
`floordiff` ends where it was to end (`InShaft`), and the new destination is then
gone to (`EveryFloorServed`).

`EveryCallAnswered` says that a pad which waits reads CAR or UNAVAILABLE, with
three exceptions, all of which happen in the run. It may be interrupted
(`Interrupted`). SIGPIPE may have ended the controller (`~net.up`). And it may read a
FLOOR (`Misled`), which `call.c:165` prints and ends with; its second conjunct says
that this happens only to a pad whose descriptor is that of an entry of the list, left
by a car that is gone, so that the FLOOR was never meant for it (`Misdirected`,
`OnEntry`).

The properties of `elevator` but `ControllerLearns`, and `OpensOnlyAtStops` of
`elevator_breaks`, say what holds until `raced`: after that FLOOR the doors open where
nobody waits and the controller takes it for an arrival. `EveryoneDelivered` says so
until `unreported` as well: if the controller never sees the doors closing it does not
advance the queue. Each exception is needed: with either of the two times left out of
`Races`, or without `unreported`, TLC finds a behaviour that breaks the property. All
three are hazards of the code and are listed as such.

**Refinement.** `Dispatch` knows calls, answers and the set of cars the
controller has listed: a call is answered at most once, the answer stands, and
it names a listed car that goes to both floors, or says that there is none; a pad
that stops waiting has left. `ControllerSystem` implements it under the mapping
at its end: a call counts as answered as soon as an answer is under way to the
pad, so that the turn of the controller is the answering step and the receive a
stutter. A FLOOR that reaches a pad, because it got the descriptor of a car, is
no answer; the pad that reads it has left.

## The proofs

`CarLemmas` and `ControllerLemmas` say what the operators and actions of the two
programs do and preserve. They extend only the program's own module, so that the
proofs about a program with an environment (`CarSystem`, `ControllerSystem`) and
those about both programs (`Elevator`) rest on the same lemmas. One of them is a
theorem of its own:

- `MovedOneFloor`: `OP_MOVE_*` by one floor leads from a label to the label one
  place on. The places are counted without a floor 0 (`Position`), so this says
  that the correction at the ground is right; it fails beyond B99 and 999, where
  a label loses a digit.

`CarSystemProofs` proves, for every shaft, every set of requests, every number
of panels and every bound:

- `TypeCorrect`: `Spec => []TypeOK`. The invariant that is inductive is
  `TypeInv`: the types together with `SocketHeld`, because `sockets' = sockets - 1`
  keeps its type only in a thread that has a socket.
- `DoorsSafe`: `Spec => []DoorsAttended`. Given `TypeInv` it is inductive by
  itself: `DoorStepKeeps` says that a door machine which returns leaves Closed
  behind, and `FlagKeeps`, `CheckedKeeps`, `LinkKeeps` and `PanelKeeps` that
  nobody else turns Closed into another status.
- `DestinationSafe`: `Spec => DestinationHeld`, if nobody drives the car with up
  or down (`NotDriven`). It rests on `FlagHeld`: `read_flag` is 0 from before the
  move until after the doors are Closed again, and the lock is held for a FLOOR
  only at the start of that time. The theorem is no claim that the protocol needs no
  lock: a FLOOR may be heeded when the status is Between already.
- `ShaftSafe`: `Spec => []InShaft`, if nobody drives the car, the controller
  sends floors of the shaft (`SentInShaft`, what `can_service_request` sees to)
  and a shaft that crosses the ground leaves a label free at both ends of the
  scale (`RoomToOvershoot`). `InShaft` is not inductive: the loop follows a
  `floordiff` read long ago. `ShaftInv` adds that the destination is a floor of
  the shaft and that, wherever the loop stands, the rest of the trip ends within
  the bounds (`TripInBounds`); `TripBounded` shows it when `floordiff` is read,
  `OneFloorOn` at each floor.

`ControllerProofs` proves about the controller, for any number of cars, pads and
descriptors:

- `ControllerTyped`: `Spec => []TypeInv`. Besides the types of the list, the
  queues and all messages it needs `RoomIn` (there is a free descriptor for
  everyone in the listening queue) and `PeersOpenIn` (a descriptor that a client
  holds is open), because `accept` takes the lowest free descriptor and a failed
  send closes one.
- `QueuesSafe`: `Spec => []QueuesInShaft`, from the type of an entry, which says
  that its bounds are those of the car it is named after and that its stops lie
  between them. `QueueAdded` shows it for an insertion.

`ListingProofs` proves `CarsListed`: `Spec => []EveryCarListed`. The list says
nothing of the kind by itself: `HandleHangUp` looks up a name by a socket that
dead entries hold as well and removes the first entry of that name. The
invariant `ListInv` says that the entry of a live connection is the *last* of its
name (`LastOn`), and why: a client has one connection at a time (`OneSocket`,
`OneInLine`), a registration is the first message of a connection
(`RegistersFirst`), and one that still waits on an old connection is of the round
that goes on, while that of the new connection is of the next (`InOrder`). The
last is what the rounds of `select` give.

`DispatchProofs` proves `DispatchImplemented`: `Spec => ImplementsDispatch`, the
refinement. It rests on `AnswerInv`: nothing is under way on a descriptor that is
not open (`Silent`), so that whoever gets it finds no old answer; what a pad sends
is its call and nothing else, and it is not answered before the controller has
read it (`OneCall`, `LineCalls`); so at most one answer is under way
(`AnsweredOnce`). There is a lemma per kind of step: most are stutters, a CAR
message registers, the end of a connection forgets a name or not, a CALL answers
or, if the pad has gone, stutters. `PadsAbsent`, which `ListingProofs` proves,
says that a pad which does not wait has no connection.

`ElevatorProofs` is about the car and the controller together, for any number of
pads, descriptors and calls. Its subject is one chain: a floor is in the CALL of
a pad, then in a queue of the list, in a FLOOR, in the car's inbox, in
`destination_floor` and at last in `floordiff`, each a copy that may be old. The
invariants are stated for a set `S` of floors, because the set they are about,
`Stops`, grows: a step is first shown for the stops after it (`TalkGrows`,
`CourseGrows`), so that the lemma for each kind of step is about one set.

- `FloorsAskedFor`: `Spec => []FloorsInv(Stops)`. Every message, queue and inbox
  holds only floors that a pad asked for and the car can reach; the types of all
  the state go with it. It needs to know who is at the ends of a connection:
  the car sends no CALL and is sent nothing but FLOOR (`CarLine`, `CarInLine`),
  and a descriptor that is not open holds nothing that its next owner could read
  (`NothingLeft`).
- `TripsInShaft`: `Spec => []InShaft`, given `RoomToOvershoot`. `ShaftSafe` takes
  it from the environment that floors of the shaft are sent; here the controller
  sees to it.
- `OpensSafe`: `Spec => []OpensOnlyAtStops`, if the shaft does not cross the
  ground (`SameSide`). The property is far from inductive, because what opens the
  doors was decided long before. `OnCourse` says where the trip ends that
  `floordiff` stands for, wherever the loop is (`TripToStop`: at a stop, however
  old it is), that the destination is a stop unless the car was never told one
  (`ToStop`, `Untold`), that the car stands at a stop while a door machine runs
  or the doors are not closed (`AtStop`), and that `at_destination` still holds
  when it is used (`HereStill`). A car that was never told a floor has its flag set,
  or has not started its process thread (`Untold`). `MovesBetween` adds that the doors are not open
  when the car leaves, and `ShaftInv` that the late clamp never replaces a
  destination. `HereStill` is what a FLOOR between the two looks breaks, and `Untold`
  what one breaks that is dropped before the thread has started:
  `CourseInv` says `raced \/ OnCourse(S)`, and `CourseLink` shows that no other
  message can do it. `SameSide` is necessary: in a shaft B1..3 TLC finds the car
  that is called to floor 2 opening its doors at 3, the floor too many of a trip
  across the ground.

`PassengerProofs` proves `NobodyLost`: `Spec => []NobodyForgotten`, if there is
one passenger (`Alone`), the connection holds (`Steady`) and no floor of the shaft
is B1 (`NoB1`). A floor that a passenger still needs is always in a queue, in a
FLOOR under way, or where the car is going. The property says nothing of how it
gets from one to the next: the controller removes a stop when a sampled status
says Closed after Closing, whichever door cycle that was, and a FLOOR that the car
reads while it drives is dropped. `PassengerInv` follows the call through three
stages, and says of each what may be under way in both directions.

- `Unasked`: the controller has not handled the CALL, or has refused it. The car
  stands where it started, and every report says so (`IdleReport`).
- `Expected`: the queue holds both floors, and at most one FLOOR, to the first, is under
  way. No report of closing doors is (`Opens`), because the doors do not close
  before the passenger has got in; so no report can remove a stop.
- `Aboard`: from here reports may be arbitrarily old, and the controller may take
  each door cycle for an arrival. What saves the passenger is the car: it rests at
  the first floor (`RestsAt`) until it has received the second one, with
  `read_flag` set, however many cycles it makes there. `BothBooked`, `LastSent`
  and `LastHeard` are the three places of the second floor: in the queue, under
  way, heeded.

Beside the stage, `Orderly` holds: no button and no mode moves the doors
(`Quiet`), `read_flag` is 0 only in the loop that drives or before the process
thread has started (`Calm`), the pad
and the car have one connection each (`Single`), a socket nobody holds has nothing
to be read (`Unheld`), and the CALL is in one place (`PadAt`). There is a lemma for
each kind of step: how a message in the line or on a socket moves
(`SameFor`), what each handler of the controller makes of the stage, and each
place of the process thread. `OnCourse`, for the set of the first floor alone,
says that the doors of the car on its way do not open elsewhere; `CourseInv`,
`ShaftInv` and `FloorsInv` are used as they stand.

None of the three assumptions can be left out. With a second passenger an
insertion drops a floor (`claim_extra_stops`). With a break TLC finds the queue
removed with the entry, and in a shaft B3..B1 it finds the stop at B1 taken for the end
of the queue. `raced` stays in the property: a FLOOR between the two looks of
the process thread makes a door cycle at the old floor, and the stop at the new one
is removed before the car has gone there. So does one that is dropped before the
thread has started. How long door phases and waits last does not enter: the theorem
holds for every order of the steps.

`FloorsInv`, `ShaftInv` and `CourseInv` were checked with TLC on the instance of
`elevator` with two reports in flight before they were proved, and with two
passengers on a part of the states, which is how `raced` got its present
definition. `PassengerInv` was checked on the instance of `elevator` with two
reports in flight.

The constants' assumptions say what a run or a proof may take for granted of its
parameters. `ShaftAssumption` and `PadAssumption` say that floors are labels between
B99 and 999 and that the lowest is not above the highest. That rests on the rules in
`docs/notes.md:3` and not on the programs: the tests of their arguments
(`car.c:511-522`, `call.c:76-85`) join `>= '0'` and `<= '9'` with `||` and are always
satisfied, and nothing compares the two floors of a car. What is checked is that a
label has at most three characters, and by the call pad that the two floors differ.
`LinkAssumption`, `PanelAssumption`, `SafetyAssumption`, `ConnectionsAssumption` and
`FlightAssumption` give bounds and distinct names; `ClientsAssumption` and
`StackAssumption` the types of the clients' messages and of what the stack holds;
`NamesAssumption` keeps the names of cars apart from the words `Dispatch` uses for
other outcomes. `ShaftInv` was checked with TLC on shafts 1..3 and B1..2
before it was proved.

Only model-checked: `EveryFloorServed`, `ComesToRest`, `HazardFlagged`,
`EmergencyTold`, `EveryCallAnswered`, `EveryoneDelivered` and `ControllerLearns`,
which are liveness properties and out of the prover's reach. Every invariant that
a passing run checks, `DestinationHeld` and the refinement `ImplementsDispatch`
are theorems. That nobody is forgotten does not say that they are delivered: that the
car goes where it is going, and that a report which names a floor is sent, is
`EveryoneDelivered`, on the instance of `elevator`.

## Not modelled

- A message to the controller whose text fails after its length was received
  (`controller.c:297`): the code closes the socket and then handles what the
  buffer still holds. Messages arrive whole here.
- The array behind the list of cars and its growth (a sequence has no capacity),
  and the operations of `controllermemory.c` that no program calls: copy, clear,
  pop, last, insert, foreach, get, print.
- Shutdown: `handle_sigint` of the car and of the controller,
  `thread_stop_signal`. The interrupt of a waiting call pad is modelled.
- `accept` or `select` failing in the controller.
- The controller's `-1` for an empty queue and its limit of 100 floors are modelled
  (`get_next_destination`, `Candidates`), but no run has a basement or a hundred
  floors for the controller. `NobodyLost` excludes B1.
- The controller's `process_thread`, which only sleeps.
- Creation, mapping and unlinking of the segment, command lines, message texts,
  printing: I/O around the behaviour above. A failing `fcntl` or a message of
  absurd length ends like any other failure of the connection.
- Malformed strings and flag bytes beyond 0 and 1 in the segment: no program
  writes them, the tests of the safety system do.
- `src/test.c` and `Test/`: an interactive aid, and drivers that play the
  controller, the sensors or the passengers.

## Plan

1. *(done)* One car: modules, runs and theorems.
2. *(done)* Queues, connections, controller, call pads, the abstract `Dispatch`,
   the composition of controller and car, their runs and theorems.
3. Left to model: shutdown of a car (threads that are cancelled with the mutex
   held), a basement and a shaft of a hundred floors for the controller with the
   sentences of `docs/notes.md` about them, and an abstract car (goes to a
   requested floor, opens, closes) that `CarSystem` implements.
4. *(done)* The composed trip: `FloorsAskedFor`, `TripsInShaft`, `OpensSafe`, also
   with a connection that breaks.
5. *(done)* `NobodyLost`, for one passenger. What may be said of several, if not
   that none is forgotten, is open: the code loses stops of theirs.
