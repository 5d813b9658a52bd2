-------------------------- MODULE ControllerProofs --------------------------
(***************************************************************************)
(* What the controller keeps and receives has its type, and the queues     *)
(* hold floors of the shaft, for any number of cars, pads and connections. *)
(***************************************************************************)
EXTENDS ControllerSystem, ControllerLemmas

ShaftsTyped == Shaft \in [Cars -> Label \X Label]

Client == Cars \union Pads

CallMessages == [kind : {"CALL"}, source : Label, dest : Label]

CarMessages == {CarMessage(c, Shaft[c][1], Shaft[c][2]) : c \in Cars}

Messages == CallMessages \union CarMessages \union StatusMessages \union {EmergencyMessage}

Replies == [kind : {"FLOOR"}, floor : Int] \union [kind : {"CAR"}, name : Cars]
             \union {Unavailable}

Nets == NetsOf(Client, Messages, Replies)

(* The stops of a car, and what its entry in the list may be.              *)
StopsOf(c) == [floor : Shaft[c][1] .. Shaft[c][2], direction : Direction]

EntriesOf(c) ==
  [name              : {c},
   lowest_floor      : {Shaft[c][1]},
   highest_floor     : {Shaft[c][2]},
   status            : Status \union {""},
   previous_status   : Status \union {"IDLE"},
   currentfloor      : Int,
   destinationfloor  : Int,
   connectionsocket  : Sockets,
   queue             : Seq(StopsOf(c)),
   current_direction : Direction,
   elevator_status   : {"Opening", "Closing"}]

Entries == UNION {EntriesOf(c) : c \in Cars}

(* Whoever is in the backlog finds a descriptor, and no descriptor that a  *)
(* client holds is given to another.                                       *)
Sound(n) == n \in Nets /\ RoomIn(n) /\ PeersOpenIn(n)

TypeInv == Sound(net) /\ cars \in Seq(Entries)

-----------------------------------------------------------------------------
(* The queue of one car.                                                   *)

(* A request the car can serve leaves stops of its shaft in its queue, and *)
(* at least one.                                                           *)
LEMMA QueueAdded ==
  ASSUME NEW c \in Cars, NEW e \in EntriesOf(c), NEW x, NEW y,
         can_service_request(e, x, y)
  PROVE  add_to_car_queue(e, x, y) \in Seq(StopsOf(c))
<1>1. x \in Shaft[c][1] .. Shaft[c][2] /\ y \in Shaft[c][1] .. Shaft[c][2]
  BY DEF can_service_request, EntriesOf
<1>2. StopsOf(c) = NodesOf(Shaft[c][1] .. Shaft[c][2])
  BY DEF StopsOf, NodesOf
<1>3. e.queue \in Seq(StopsOf(c))
  BY DEF EntriesOf
<1> QED BY <1>1, <1>2, <1>3, AddedToQueue

(* What the queue says the car should do next is a number.                 *)
LEMMA NextIsNumber ==
  ASSUME NEW c \in Cars, NEW q \in Seq(StopsOf(c)), ShaftsTyped
  PROVE  get_next_destination(q) \in Int
<1>1. StopsOf(c) = NodesOf(Shaft[c][1] .. Shaft[c][2])
  BY DEF StopsOf, NodesOf
<1>2. get_next_destination(q) \in (Shaft[c][1] .. Shaft[c][2]) \union {-1}
  BY <1>1, NextOfQueue
<1> QED BY <1>2

(* The nearest car is one of those that can serve the call.                *)
LEMMA NearestServes ==
  ASSUME cars \in Seq(Entries), ShaftsTyped,
         NEW x \in Label, NEW y \in Label, Candidates(x, y) # {}
  PROVE  BestCar(x, y) \in Candidates(x, y)
<1>1. ASSUME NEW k \in DOMAIN cars
      PROVE  cars[k].currentfloor \in Int /\ Len(cars[k].queue) \in Nat
  <2>1. PICK c \in Cars : cars[k] \in EntriesOf(c)
    <3>1. k \in 1 .. Len(cars)
      BY LenProperties
    <3> QED BY <3>1, ElementOfSeq DEF Entries
  <2> QED BY <2>1, LenProperties DEF EntriesOf
<1>2. x \in Int /\ y \in Int
  BY DEF Label
<1> QED BY <1>1, <1>2, NearestCar

-----------------------------------------------------------------------------
(* Connections.                                                            *)

Keeps(n, n2) == n2 \in Nets /\ KeepsRoom(n, n2)

(* Room is lost only to a client that joins the line.                      *)
LEMMA KeepsSound ==
  ASSUME NEW n, Sound(n), NEW n2, Keeps(n, n2)
  PROVE  Sound(n2)
BY KeepsWellFormed DEF Keeps, Sound, WellFormed, Nets

(* A descriptor that is closed is free again.                              *)
LEMMA ClosedSound ==
  ASSUME NEW n, Sound(n), NEW s \in Sockets, n.link[s] # "open"
  PROVE  Sound(Closed(n, s))
BY ClosedWellFormed DEF Sound, WellFormed, Nets

(* A send adds a reply, closes a descriptor or ends the controller.        *)
LEMMA SendsSound ==
  ASSUME NEW n, Sound(n), NEW s \in Sockets, NEW m \in Replies,
         NEW n2 \in Sends(n, s, m)
  PROVE  Sound(n2) /\ OnlyReplies(n, n2)
BY SendsWellFormed DEF Sound, WellFormed, Nets

(* A client closes its end.                                                *)
LEMMA AbandonedSound ==
  ASSUME NEW n, Sound(n), NEW s \in Sockets, n.link[s] # "free"
  PROVE  Sound(Abandoned(n, s))
BY AbandonedWellFormed DEF Sound, WellFormed, Nets

(* The end of one socket's turn.                                           *)
LEMMA ServedSound ==
  ASSUME Sound(net), NEW s \in Sockets
  PROVE  /\ Sound(Served(s))
         /\ Served(s).link = net.link /\ Served(s).to = net.to
         /\ net.to[s] # <<>> => Sound(Received(s))
BY ServedWellFormed DEF Sound, WellFormed, Nets

(* A client that is heard of for the first time joins the line.            *)
LEMMA DialledSound ==
  ASSUME Sound(net), Room, NEW x \in Client, NEW messages \in Seq(Messages)
  PROVE  Sound(Dialled(x, messages))
BY DialledWellFormed DEF Sound, WellFormed, Nets

(* There is a descriptor for the next in line.                             *)
LEMMA SelectFindsFree ==
  ASSUME Sound(net), net.backlog # <<>>
  PROVE  Free # {}
BY FreeForBacklog DEF Sound, WellFormed, Nets

(* select: the backlog gives one client, on a free descriptor.             *)
LEMMA SelectSound ==
  ASSUME Sound(net), Select
  PROVE  Sound(net')
BY SelectWellFormed DEF Sound, WellFormed, Nets

-----------------------------------------------------------------------------
(* The list of cars.                                                       *)

(* An entry that is replaced by one of the same car.                       *)
LEMMA EntryReplaced ==
  ASSUME cars \in Seq(Entries), NEW k \in DOMAIN cars, NEW c \in Cars,
         NEW e \in EntriesOf(c)
  PROVE  [cars EXCEPT ![k] = e] \in Seq(Entries)
<1>1. k \in 1 .. Len(cars) /\ e \in Entries
  BY LenProperties DEF Entries
<1> QED BY <1>1, ExceptSeq

(* The entry of a car that takes a call.                                   *)
LEMMA EntryBooked ==
  ASSUME ShaftsTyped, NEW c \in Cars, NEW e \in EntriesOf(c), NEW q \in Seq(StopsOf(c))
  PROVE  Booked(e, q) \in EntriesOf(c)
<1> DEFINE d == IF SendsFloor(e, q) THEN Decimal(get_next_destination(q))
                                    ELSE e.destinationfloor
<1>1. get_next_destination(q) \in Int
  BY NextIsNumber
<1>2. d \in Int
  <2>1. e.destinationfloor \in Int
    BY DEF EntriesOf
  <2>2. Decimal(get_next_destination(q)) \in Int
    BY <1>1 DEF Decimal
  <2> QED BY <2>1, <2>2
<1>3. Booked(e, q) = [e EXCEPT !.queue = q, !.destinationfloor = d]
  BY DEF Booked
<1> HIDE DEF d
<1> QED BY <1>2, <1>3 DEF EntriesOf

(* Every entry stays that of its car and its socket.                       *)
SameEntries ==
  /\ DOMAIN cars' = DOMAIN cars
  /\ \A k \in DOMAIN cars :
       /\ cars'[k].name = cars[k].name
       /\ cars'[k].connectionsocket = cars[k].connectionsocket

(* A call, whether a car is found for it or not.                           *)
LEMMA CallTyped ==
  ASSUME TypeInv, ShaftsTyped, NEW s \in Sockets, HandleCall(s)
  PROVE  TypeInv' /\ SameEntries /\ OnlyReplies(Received(s), net')
<1> DEFINE m == Head(net.to[s])
<1>1. net.to[s] # <<>> /\ m.kind = "CALL"
  BY DEF HandleCall, Arrived
<1>2. m \in Messages
  BY <1>1, HeadTailProperties DEF TypeInv, Sound, Nets, NetsOf
<1>3. m.source \in Label /\ m.dest \in Label
  BY <1>1, <1>2 DEF Messages, CallMessages, CarMessages, CarMessage, StatusMessages, EmergencyMessage
<1>4. Sound(Received(s))
  BY <1>1, ServedSound DEF TypeInv
<1>5. CASE /\ Candidates(m.source, m.dest) # {}
           /\ Assign(BestCar(m.source, m.dest), m.source, m.dest, s)
  <2> DEFINE k == BestCar(m.source, m.dest)
             queue == add_to_car_queue(cars[k], m.source, m.dest)
             first == get_next_destination(queue)
             target == controller_get_socket_by_name(cars[k].name)
             sends == SendsFloor(cars[k], queue)
             e == Booked(cars[k], queue)
  <2>1. k \in Candidates(m.source, m.dest)
    BY <1>3, <1>5, NearestServes DEF TypeInv
  <2>2. k \in DOMAIN cars /\ can_service_request(cars[k], m.source, m.dest)
    BY <2>1 DEF Candidates
  <2>3. PICK c \in Cars : cars[k] \in EntriesOf(c)
    <3>1. k \in 1 .. Len(cars)
      BY <2>2, LenProperties DEF TypeInv
    <3> QED BY <3>1, ElementOfSeq DEF TypeInv, Entries
  <2>4. queue \in Seq(StopsOf(c))
    BY <2>2, <2>3, QueueAdded
  <2>5. first \in Int
    BY <2>4, NextIsNumber
  <2>6. e \in EntriesOf(c)
    BY <2>3, <2>4, EntryBooked
  <2>7. target \in Sockets
    <3>1. /\ Min(Named(cars[k].name)) \in 1 .. Len(cars)
      BY <2>2, FirstOfName, LenProperties DEF TypeInv
    <3>2. cars[Min(Named(cars[k].name))] \in Entries
      BY <3>1, ElementOfSeq DEF TypeInv
    <3>3. PICK x \in Cars : cars[Min(Named(cars[k].name))] \in EntriesOf(x)
      BY <3>2 DEF Entries
    <3>4. cars[Min(Named(cars[k].name))].connectionsocket \in Sockets
      BY <3>3 DEF EntriesOf
    <3> QED BY <3>4 DEF controller_get_socket_by_name
  <2>8. FloorMessage(first) \in Replies /\ CarAnswer(cars[k].name) \in Replies
    BY <2>3, <2>5 DEF Replies, FloorMessage, CarAnswer, EntriesOf
  <2>9. cars' = [cars EXCEPT ![k] = e]
    BY <1>5 DEF Assign
  <2>10. \E n \in IF sends THEN Sends(Received(s), target, FloorMessage(first))
                           ELSE {Received(s)} :
           net' \in Sends(n, s, CarAnswer(cars[k].name))
    BY <1>5 DEF Assign
  <2> HIDE DEF k, queue, first, target, sends, e
  <2>12. cars' \in Seq(Entries)
    BY <2>2, <2>6, <2>9, EntryReplaced DEF TypeInv
  <2>13. SameEntries
    <3>1. e.name = cars[k].name /\ e.connectionsocket = cars[k].connectionsocket
      BY <2>3 DEF e, Booked, EntriesOf
    <3> QED BY <2>2, <2>9, <3>1 DEF SameEntries
  <2>14. Sound(net') /\ OnlyReplies(Received(s), net')
    <3>1. PICK n \in IF sends THEN Sends(Received(s), target, FloorMessage(first))
                              ELSE {Received(s)} :
            net' \in Sends(n, s, CarAnswer(cars[k].name))
      BY <2>10
    <3>2. Sound(n) /\ OnlyReplies(Received(s), n)
      <4>1. CASE n = Received(s)
        BY <1>4, <4>1 DEF OnlyReplies
      <4> QED BY <1>4, <2>7, <2>8, <3>1, <4>1, SendsSound
    <3>3. Sound(net') /\ OnlyReplies(n, net')
      BY <2>8, <3>1, <3>2, SendsSound
    <3> QED BY <3>2, <3>3 DEF OnlyReplies
  <2> QED BY <2>12, <2>13, <2>14 DEF TypeInv
<1>6. CASE Refuse(s) /\ UNCHANGED cars
  <2>1. Unavailable \in Replies
    BY DEF Replies
  <2> QED BY <1>4, <1>6, <2>1, SendsSound DEF Refuse, TypeInv, SameEntries
<1> QED BY <1>5, <1>6 DEF HandleCall

(* A registration adds an entry of the car that it names.                  *)
LEMMA RegistrationTyped ==
  ASSUME TypeInv, ShaftsTyped, NEW s \in Sockets, HandleCar(s)
  PROVE  TypeInv'
<1> DEFINE m == Head(net.to[s])
<1>1. net.to[s] # <<>> /\ m.kind = "CAR"
  BY DEF HandleCar, Arrived
<1>2. m \in Messages
  BY <1>1, HeadTailProperties DEF TypeInv, Sound, Nets, NetsOf
<1>3. PICK c \in Cars : m = CarMessage(c, Shaft[c][1], Shaft[c][2])
  BY <1>1, <1>2 DEF Messages, CallMessages, CarMessages, StatusMessages, EmergencyMessage
<1>4. PICK stack \in StackCars : cars' = Append(cars, NewCar(m, s, stack))
  BY DEF HandleCar
<1>5. /\ stack.current_direction \in Direction
      /\ stack.elevator_status \in {"Opening", "Closing"}
  BY StackAssumption DEF StackAssumption
<1>6. <<>> \in Seq(StopsOf(c))
  OBVIOUS
<1>7. NewCar(m, s, stack) \in EntriesOf(c)
  <2>1. m.name = c /\ m.lowest_floor = Shaft[c][1] /\ m.highest_floor = Shaft[c][2]
    BY <1>3 DEF CarMessage
  <2> HIDE DEF m
  <2> QED BY <1>5, <1>6, <2>1 DEF NewCar, EntriesOf, NoFloor
<1>8. cars' \in Seq(Entries)
  BY <1>4, <1>7, AppendProperties DEF TypeInv, Entries
<1>9. Sound(net')
  BY <1>1, ServedSound DEF TypeInv, HandleCar
<1> QED BY <1>8, <1>9 DEF TypeInv

(* A status.                                                               *)
LEMMA StatusTyped ==
  ASSUME TypeInv, ShaftsTyped, NEW s \in Sockets, HandleStatus(s)
  PROVE  TypeInv' /\ SameEntries /\ OnlyReplies(Received(s), net')
<1> DEFINE m == Head(net.to[s])
<1>1. net.to[s] # <<>> /\ m.kind = "STATUS"
  BY DEF HandleStatus, Arrived
<1>2. m \in Messages
  BY <1>1, HeadTailProperties DEF TypeInv, Sound, Nets, NetsOf
<1>3. m.status \in Status /\ m.currentfloor \in Int /\ m.destinationfloor \in Int
  <2>1. m \in StatusMessages
    BY <1>1, <1>2 DEF Messages, CallMessages, CarMessages, CarMessage, EmergencyMessage
  <2> HIDE DEF m
  <2> QED BY <2>1 DEF StatusMessages, Label
<1>4. Sound(Received(s))
  BY <1>1, ServedSound DEF TypeInv
<1>5. CASE OnSocket(s) = {} /\ net' = Received(s) /\ UNCHANGED cars
  BY <1>4, <1>5 DEF TypeInv, SameEntries, OnlyReplies
<1>6. CASE OnSocket(s) # {}
  <2> DEFINE k == Min(Named(controller_get_name_by_socket(s)))
             arrives == Arrives(cars[k], m)
             queue == IF arrives THEN remove_from_car_queue(cars[k].queue)
                                 ELSE cars[k].queue
             next == get_next_destination(queue)
             e == [Updated(cars[k], m) EXCEPT !.queue = queue]
  <2>1. k \in DOMAIN cars
    BY <1>6, FirstOnSocket, FirstOfName DEF TypeInv, controller_get_name_by_socket
  <2>2. PICK c \in Cars : cars[k] \in EntriesOf(c)
    <3>1. k \in 1 .. Len(cars)
      BY <2>1, LenProperties DEF TypeInv
    <3> QED BY <3>1, ElementOfSeq DEF TypeInv, Entries
  <2>3. queue \in Seq(StopsOf(c))
    BY <2>2, QueueRemoved DEF EntriesOf
  <2>4. next \in Int
    BY <2>3, NextIsNumber
  <2>5. cars' = [cars EXCEPT ![k] = e]
    BY <1>6 DEF HandleStatus
  <2>6. net' \in IF arrives /\ next # -1 THEN Sends(Received(s), s, FloorMessage(next))
                                         ELSE {Received(s)}
    BY <1>6 DEF HandleStatus
  <2>7. FloorMessage(next) \in Replies
    BY <2>4 DEF Replies, FloorMessage
  <2>8. Updated(cars[k], m) \in EntriesOf(c)
    BY <1>3, <2>2 DEF Updated, EntriesOf
  <2> HIDE DEF m, k, queue, next, arrives
  <2>9. e \in EntriesOf(c)
    BY <2>3, <2>8 DEF EntriesOf
  <2>10. cars' \in Seq(Entries)
    BY <2>1, <2>5, <2>9, EntryReplaced DEF TypeInv
  <2>11. Sound(net') /\ OnlyReplies(Received(s), net')
    <3>1. CASE net' = Received(s)
      BY <1>4, <3>1 DEF OnlyReplies
    <3> QED BY <1>4, <2>6, <2>7, <3>1, SendsSound
  <2>12. SameEntries
    <3>1. e.name = cars[k].name /\ e.connectionsocket = cars[k].connectionsocket
      BY <2>2 DEF e, Updated, EntriesOf
    <3> QED BY <2>1, <2>5, <3>1 DEF SameEntries
  <2> QED BY <2>10, <2>11, <2>12 DEF TypeInv
<1> QED BY <1>5, <1>6 DEF HandleStatus

(* The other ends of a turn.                                               *)
LEMMA HangUpTyped ==
  ASSUME TypeInv, NEW s \in Sockets, HandleHangUp(s)
  PROVE  TypeInv'
<1>1. Sound(net')
  BY ServedSound, ClosedSound DEF TypeInv, HandleHangUp
<1>2. CASE OnSocket(s) = {}
  BY <1>1, <1>2 DEF HandleHangUp, TypeInv
<1>3. CASE OnSocket(s) # {}
  <2> DEFINE k == Min(Named(controller_get_name_by_socket(s)))
  <2>1. k \in 1 .. Len(cars)
    BY <1>3, FirstOnSocket, FirstOfName, LenProperties
       DEF TypeInv, controller_get_name_by_socket
  <2>2. cars' = RemoveAt(cars, k)
    BY <1>3 DEF HandleHangUp, controller_remove_by_name, RemovedFirst
  <2> HIDE DEF k
  <2> QED BY <1>1, <2>1, <2>2, RemovedAt DEF TypeInv
<1> QED BY <1>2, <1>3

(* Messages that are ignored, and descriptors that fail.                   *)
LEMMA RestTyped ==
  ASSUME TypeInv, NEW s \in Sockets, HandleOther(s) \/ HandleError(s)
  PROVE  TypeInv'
<1>1. CASE HandleOther(s)
  BY <1>1, ServedSound DEF HandleOther, Arrived, TypeInv
<1>2. CASE HandleError(s)
  BY <1>2, ServedSound, ClosedSound DEF HandleError, TypeInv
<1> QED BY <1>1, <1>2

-----------------------------------------------------------------------------
(* The clients.                                                            *)

(* The socket a client holds is open.                                      *)
LEMMA SocketHeldOpen ==
  ASSUME Sound(net), NEW x \in Client, HeldBy(x) # {}
  PROVE  /\ SocketOf(x) \in Sockets
         /\ net.peer[SocketOf(x)] = x /\ net.link[SocketOf(x)] = "open"
<1>1. x # Nobody
  BY ClientsAssumption DEF ClientsAssumption, Client
<1> QED BY <1>1, HolderOpen DEF Sound, WellFormed, Nets

(* A car registers, reports or goes away.                                  *)
LEMMA CarTyped ==
  ASSUME TypeInv, NEW c \in Cars, CarRegisters(c) \/ CarReports(c) \/ CarLeaves(c)
  PROVE  TypeInv'
<1> c \in Client
  BY DEF Client
<1>1. CASE CarRegisters(c)
  <2>1. PICK r \in FirstReports :
          net' = Dialled(c, <<CarMessage(c, Shaft[c][1], Shaft[c][2]), r>>)
    BY <1>1 DEF CarRegisters
  <2>2. r \in Messages /\ CarMessage(c, Shaft[c][1], Shaft[c][2]) \in Messages
    BY ClientsAssumption DEF ClientsAssumption, Messages, CarMessages
  <2>3. <<CarMessage(c, Shaft[c][1], Shaft[c][2]), r>> \in Seq(Messages)
    BY <2>2
  <2>4. Sound(net')
    BY <1>1, <2>1, <2>3, DialledSound DEF TypeInv, CarRegisters
  <2> QED BY <1>1, <2>4 DEF TypeInv, CarRegisters
<1>2. CASE CarReports(c)
  <2> DEFINE s == SocketOf(c)
  <2>1. s \in Sockets
    BY <1>2, SocketHeldOpen DEF TypeInv, CarReports
  <2>2. PICK r \in Reports : net' = [net EXCEPT !.to[s] = Append(@, r)]
    BY <1>2 DEF CarReports
  <2>3. r \in Messages
    BY ClientsAssumption DEF ClientsAssumption, Messages
  <2>4. Append(net.to[s], r) \in Seq(Messages)
    BY <2>1, <2>3, AppendProperties DEF TypeInv, Sound, Nets, NetsOf
  <2> HIDE DEF s
  <2>5. Keeps(net, net')
    BY <2>1, <2>2, <2>4 DEF Keeps, KeepsRoom, TypeInv, Sound, Nets, NetsOf, FreeIn, PeersOpenIn
  <2> QED BY <1>2, <2>5, KeepsSound DEF TypeInv, CarReports
<1>3. CASE CarLeaves(c)
  <2> DEFINE s == SocketOf(c)
  <2>1. s \in Sockets /\ net.link[s] = "open"
    BY <1>3, SocketHeldOpen DEF TypeInv, CarLeaves
  <2>2. PICK unread \in {<<>>, net.from[s]} :
          net' = Abandoned([net EXCEPT !.from[s] = unread], s)
    BY <1>3 DEF CarLeaves
  <2>3. unread \in Seq(Replies)
    <3>1. net.from[s] \in Seq(Replies)
      BY <2>1 DEF TypeInv, Sound, Nets, NetsOf
    <3>2. <<>> \in Seq(Replies)
      OBVIOUS
    <3> QED BY <3>1, <3>2
  <2> DEFINE n == [net EXCEPT !.from[s] = unread]
  <2> HIDE DEF s
  <2>4. Keeps(net, n) /\ n.link = net.link
    BY <2>1, <2>3 DEF Keeps, KeepsRoom, TypeInv, Sound, Nets, NetsOf, FreeIn, PeersOpenIn
  <2>5. Sound(n)
    BY <2>4, KeepsSound DEF TypeInv
  <2> HIDE DEF n
  <2>6. Sound(Abandoned(n, s))
    BY <2>1, <2>4, <2>5, AbandonedSound
  <2> QED BY <1>3, <2>2, <2>6 DEF TypeInv, CarLeaves, n
<1> QED BY <1>1, <1>2, <1>3

(* A pad calls, is answered or is interrupted.                             *)
LEMMA PadTyped ==
  ASSUME TypeInv, NEW p \in Pads, PadStep(p)
  PROVE  TypeInv'
<1> p \in Client
  BY DEF Client
<1>1. CASE PadCalls(p)
  <2>1. PICK x \in Calls[p] : net' = Dialled(p, <<CallMessage(x[1], x[2])>>)
    BY <1>1 DEF PadCalls
  <2>2. x \in Label \X Label
    BY PadAssumption DEF PadAssumption
  <2>3. CallMessage(x[1], x[2]) \in Messages
    BY <2>2 DEF Messages, CallMessages, CallMessage
  <2>4. <<CallMessage(x[1], x[2])>> \in Seq(Messages)
    BY <2>3
  <2>5. Sound(net')
    BY <1>1, <2>1, <2>4, DialledSound DEF TypeInv, PadCalls
  <2> QED BY <1>1, <2>5 DEF TypeInv, PadCalls
<1>2. CASE PadReceives(p)
  <2> DEFINE s == SocketOf(p)
             n == [net EXCEPT !.from[s] = Tail(@)]
  <2>1. s \in Sockets /\ net.link[s] = "open" /\ net.from[s] # <<>>
    BY <1>2, SocketHeldOpen DEF TypeInv, PadReceives
  <2>2. net' = Abandoned(n, s)
    BY <1>2 DEF PadReceives
  <2>3. Tail(net.from[s]) \in Seq(Replies)
    BY <2>1, HeadTailProperties DEF TypeInv, Sound, Nets, NetsOf
  <2> HIDE DEF s
  <2>4. Keeps(net, n) /\ n.link = net.link
    BY <2>1, <2>3 DEF Keeps, KeepsRoom, TypeInv, Sound, Nets, NetsOf, FreeIn, PeersOpenIn
  <2>5. Sound(n)
    BY <2>4, KeepsSound DEF TypeInv
  <2> HIDE DEF n
  <2>6. Sound(Abandoned(n, s))
    BY <2>1, <2>4, <2>5, AbandonedSound
  <2> QED BY <1>2, <2>2, <2>6 DEF TypeInv, PadReceives
<1>3. CASE PadQuits(p)
  <2>1. SocketOf(p) \in Sockets /\ net.link[SocketOf(p)] = "open"
    BY <1>3, SocketHeldOpen DEF TypeInv, PadQuits
  <2> QED BY <1>3, <2>1, AbandonedSound DEF TypeInv, PadQuits
<1> QED BY <1>1, <1>2, <1>3 DEF PadStep

-----------------------------------------------------------------------------
(* The theorems.                                                           *)

(* What is assumed of the shafts, without the rest of the assumption.      *)
LEMMA ShaftsAreTyped == ShaftsTyped
BY ClientsAssumption DEF ClientsAssumption, ShaftsTyped

(* At first there is no entry, and every descriptor is free.               *)
LEMMA InitTyped == Init => TypeInv
<1> HAVE Init
<1>1. cars = <<>> /\ net = NoConnections
  BY DEF Init, controller_init
<1>2. net \in Nets
  <2>1. /\ <<>> \in Seq(Messages) /\ <<>> \in Seq(Replies)
        /\ <<>> \in Seq([client : Client, messages : Seq(Messages)])
    OBVIOUS
  <2> QED BY <1>1, <2>1 DEF NoConnections, Nets, NetsOf, Link
<1>3. PeersOpenIn(net)
  BY <1>1 DEF NoConnections, PeersOpenIn
<1>4. RoomIn(net)
  <2>1. IsFiniteSet(Sockets)
    BY FS_Interval, ConnectionsAssumption DEF Sockets, ConnectionsAssumption
  <2>2. Cardinality(FreeIn(net)) \in Nat
    BY <2>1, FS_Subset, FS_CardinalityType DEF FreeIn
  <2>3. Len(net.backlog) = 0
    BY <1>1 DEF NoConnections
  <2> QED BY <2>2, <2>3 DEF RoomIn
<1> QED BY <1>1, <1>2, <1>3, <1>4 DEF TypeInv, Sound

(* Every step keeps the types.                                             *)
LEMMA StepTyped == TypeInv /\ [Next]_vars => TypeInv'
<1> SUFFICES ASSUME TypeInv, [Next]_vars PROVE TypeInv'
  OBVIOUS
<1> USE ShaftsAreTyped
<1>1. CASE Handle
  <2>1. CASE Select /\ UNCHANGED cars
    BY <2>1, SelectSound DEF TypeInv
  <2>2. ASSUME NEW s \in Sockets, HandleSocket(s) PROVE TypeInv'
    BY <2>2, CallTyped, RegistrationTyped, StatusTyped, HangUpTyped, RestTyped
       DEF HandleSocket
  <2> QED BY <1>1, <2>1, <2>2 DEF Handle, Serve
<1>2. ASSUME NEW c \in Cars, CarRegisters(c) \/ CarReports(c) \/ CarLeaves(c)
      PROVE  TypeInv'
  BY <1>2, CarTyped
<1>3. ASSUME NEW p \in Pads, PadStep(p) PROVE TypeInv'
  BY <1>3, PadTyped
<1>4. CASE UNCHANGED vars
  BY <1>4 DEF TypeInv, vars, controllerVars
<1> QED BY <1>1, <1>2, <1>3, <1>4 DEF Next

(* The connections and the list have their types in every state, there is  *)
(* a descriptor for whoever waits to be accepted, and no descriptor that a *)
(* client holds is given to another.                                       *)
THEOREM ControllerTyped == Spec => []TypeInv
BY InitTyped, StepTyped, PTL DEF Spec

(* No queue ever holds a floor its car cannot go to: what                  *)
(* can_service_request checked still holds when entries, names and sockets *)
(* have been mixed up by resets and new registrations.                     *)
THEOREM QueuesSafe == Spec => []QueuesInShaft
<1>1. TypeInv => QueuesInShaft
  <2> SUFFICES ASSUME TypeInv, NEW k \in DOMAIN cars, NEW j \in DOMAIN cars[k].queue
               PROVE  cars[k].queue[j].floor
                        \in Shaft[cars[k].name][1] .. Shaft[cars[k].name][2]
    BY DEF QueuesInShaft
  <2>1. PICK c \in Cars : cars[k] \in EntriesOf(c)
    <3>1. k \in 1 .. Len(cars)
      BY LenProperties DEF TypeInv
    <3> QED BY <3>1, ElementOfSeq DEF TypeInv, Entries
  <2>2. cars[k].name = c /\ cars[k].queue \in Seq(StopsOf(c))
    BY <2>1 DEF EntriesOf
  <2>3. cars[k].queue[j] \in StopsOf(c)
    <3>1. j \in 1 .. Len(cars[k].queue)
      BY <2>2, LenProperties
    <3> QED BY <2>2, <3>1, ElementOfSeq
  <2> QED BY <2>2, <2>3 DEF StopsOf
<1> QED BY <1>1, ControllerTyped, PTL
=============================================================================
