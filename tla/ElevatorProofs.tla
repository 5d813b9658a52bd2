--------------------------- MODULE ElevatorProofs ---------------------------
(***************************************************************************)
(* The car, the controller and any number of pads together: the doors open *)
(* only at a stop somebody asked for, and the car stays in its shaft.      *)
(*                                                                         *)
(* A floor passes from a CALL into a queue, from the queue into a FLOOR,   *)
(* from there to the destination in shared memory and at last into the     *)
(* local floordiff of the process thread.  The invariant follows it on the *)
(* way: whatever can still decide where the car goes is a floor that was   *)
(* asked for and that the car can reach.  Parts of it are stated for a set *)
(* S of floors, the stops, because that set grows with every call.         *)
(***************************************************************************)
EXTENDS Elevator, CarLemmas, ControllerLemmas

(* The floors of S which the car can serve.                                *)
Wanted(S) == S \intersect (LowestFloor .. HighestFloor)

Clients == Pads \union {CarName}

CallsFor(S) == [kind : {"CALL"}, source : S, dest : S]

CarMessages ==
  {CarMessage(CarName, LowestFloor, HighestFloor)} \union
  [kind : {"STATUS"}, status : Status, currentfloor : Label, destinationfloor : Label]

Messages(S) == CallsFor(S) \union CarMessages

FloorsOf(S) == [kind : {"FLOOR"}, floor : Wanted(S)]

Replies(S) == FloorsOf(S) \union {CarAnswer(CarName), Unavailable}

Entries(S) ==
  [name              : {CarName},
   lowest_floor      : {LowestFloor},
   highest_floor     : {HighestFloor},
   status            : Status \union {""},
   previous_status   : Status \union {"IDLE"},
   currentfloor      : Int,
   destinationfloor  : Int,
   connectionsocket  : Sockets,
   queue             : Seq(NodesOf(Wanted(S))),
   current_direction : Direction,
   elevator_status   : {"Opening", "Closing"}]

(* What is under way: the car sends no CALL, so that no answer to one is   *)
(* sent to it, and what it is sent are floors which it is to serve.        *)
CarLine(n, S) ==
  \A s \in Sockets : n.peer[s] = CarName =>
    n.to[s] \in Seq(CarMessages) /\ n.from[s] \in Seq(FloorsOf(S))

CarInLine(n) ==
  \A k \in DOMAIN n.backlog : n.backlog[k].client = CarName =>
    n.backlog[k].messages \in Seq(CarMessages)

NothingLeft(n) == \A s \in Sockets : n.link[s] # "open" => n.from[s] = <<>>

Talk(n, S) ==
  /\ WellFormed(n, Clients, Messages(S), Replies(S))
  /\ CarLine(n, S)
  /\ CarInLine(n)
  /\ NothingLeft(n)

TalkInv(S) ==
  /\ Talk(net, S)
  /\ cars \in Seq(Entries(S))
  /\ inbox \in Seq(Wanted(S))

PadInv(S) ==
  /\ pad \in [Pads -> [phase  : {"idle", "waiting", "done"},
                       call   : {<<>>} \union (S \X S),
                       answer : Replies(S) \union {NoAnswer}]]
  /\ \A p \in Pads : pad[p].phase = "idle" => pad[p].call = <<>>

CarInv == SharedTypeOK /\ PcTypeOK /\ CarTypeOK

(* Everything that is kept whatever the shaft is.                          *)
FloorsInv(S) == S \subseteq Label /\ TalkInv(S) /\ PadInv(S) /\ CarInv

-----------------------------------------------------------------------------
(* The trip.                                                               *)

(* A shaft that does not cross the ground.                                 *)
SameSide == LowestFloor > 0 \/ HighestFloor < 0

(* The status says that the car is on the move while it is: the doors are  *)
(* not open when it leaves a stop.                                         *)
MovesBetween == pc["process"] \in {"flag0", "move", "set_closed"} => shm.status = "Between"

AtStop(S) ==
  pc["process"] \in DoorPC \/ shm.status \notin {"Closed", "Between"} =>
    shm.current_floor \in S

(* The car was never told a floor and stands where it started.             *)
Untold ==
  /\ shm.destination_floor = shm.current_floor
  /\ floordiff = 0 /\ shm_send = 0
  /\ \/ read_flag = 1
     \/ pc["process"] = "start"
     \/ pc["process"] = "exited" /\ pc["tcp"] = "exited"
  /\ pc["process"] \notin Driving \union DoorPC

ToStop(S) == shm.destination_floor \in S \/ Untold

(* Where the trip in floordiff ends, however old it is.                    *)
Ends(n, S) == \E f \in S : TripEnd(n) = Position(f)

TripToStop(S) ==
  /\ \/ pc["process"] \in {"check_send", "check_move"} /\ floordiff # 0
     \/ pc["process"] \in {"between", "flag0", "move"}
     => Ends(Abs(floordiff) - i, S)
  /\ pc["process"] \in {"set_closed", "flag1"} => Ends(Abs(floordiff) - i - 1, S)

(* With no FLOOR between the two looks, at_destination is true when used.  *)
HereStill ==
  pc["process"] = "check_send" /\ floordiff = 0 =>
    shm.destination_floor = shm.current_floor

OnCourse(S) == AtStop(S) /\ ToStop(S) /\ TripToStop(S) /\ HereStill

CourseInv(S) == MovesBetween /\ (raced \/ OnCourse(S))

-----------------------------------------------------------------------------
(* Connections.                                                            *)

(* A sequence over a set is one over a larger set.                         *)
LEMMA SeqGrows ==
  ASSUME NEW A, NEW B, A \subseteq B
  PROVE  Seq(A) \subseteq Seq(B)
<1>1. ASSUME NEW q \in Seq(A) PROVE q \in Seq(B)
  <2>1. Len(q) \in Nat /\ \A k \in 1 .. Len(q) : q[k] \in B
    BY LenProperties, ElementOfSeq
  <2>2. q = [k \in 1 .. Len(q) |-> q[k]]
    BY LenProperties
  <2> QED BY <2>1, <2>2, IsASeq
<1> QED BY <1>1

(* With more stops everything under way is still what it may be.           *)
LEMMA TypesGrow ==
  ASSUME NEW S, NEW T, S \subseteq T
  PROVE  /\ Wanted(S) \subseteq Wanted(T)
         /\ Messages(S) \subseteq Messages(T)
         /\ FloorsOf(S) \subseteq FloorsOf(T)
         /\ Replies(S) \subseteq Replies(T)
         /\ Entries(S) \subseteq Entries(T)
<1>1. Wanted(S) \subseteq Wanted(T)
  BY DEF Wanted
<1>2. CallsFor(S) \subseteq CallsFor(T)
  BY DEF CallsFor
<1>3. FloorsOf(S) \subseteq FloorsOf(T)
  BY <1>1 DEF FloorsOf
<1>4. Seq(NodesOf(Wanted(S))) \subseteq Seq(NodesOf(Wanted(T)))
  <2>1. NodesOf(Wanted(S)) \subseteq NodesOf(Wanted(T))
    BY <1>1 DEF NodesOf
  <2> QED BY <2>1, SeqGrows
<1>5. Entries(S) \subseteq Entries(T)
  BY <1>4 DEF Entries
<1> QED BY <1>1, <1>2, <1>3, <1>5 DEF Messages, Replies

(* A well-formed set of connections is one for more stops.                 *)
LEMMA NetsGrow ==
  ASSUME NEW S, NEW T, S \subseteq T
  PROVE  NetsOf(Clients, Messages(S), Replies(S))
           \subseteq NetsOf(Clients, Messages(T), Replies(T))
<1> DEFINE B == [client : Clients, messages : Seq(Messages(S))]
           B2 == [client : Clients, messages : Seq(Messages(T))]
<1>1. Seq(Messages(S)) \subseteq Seq(Messages(T)) /\ Seq(Replies(S)) \subseteq Seq(Replies(T))
  BY TypesGrow, SeqGrows
<1>2. B \subseteq B2
  BY <1>1
<1>3. Seq(B) \subseteq Seq(B2)
  BY <1>2, SeqGrows
<1>4. /\ [Sockets -> Seq(Messages(S))] \subseteq [Sockets -> Seq(Messages(T))]
      /\ [Sockets -> Seq(Replies(S))] \subseteq [Sockets -> Seq(Replies(T))]
  BY <1>1
<1> QED BY <1>3, <1>4 DEF NetsOf

(* So is all that is under way, in the queues and at the pads.             *)
LEMMA TalkGrows ==
  ASSUME NEW S, NEW T, S \subseteq T
  PROVE  /\ \A n : Talk(n, S) => Talk(n, T)
         /\ TalkInv(S) => TalkInv(T)
         /\ PadInv(S) => PadInv(T)
<1>1. Seq(FloorsOf(S)) \subseteq Seq(FloorsOf(T))
  BY TypesGrow, SeqGrows
<1>2. ASSUME NEW n, Talk(n, S) PROVE Talk(n, T)
  <2>1. WellFormed(n, Clients, Messages(T), Replies(T))
    BY <1>2, NetsGrow DEF Talk, WellFormed
  <2>2. CarLine(n, T)
    BY <1>1, <1>2 DEF Talk, CarLine
  <2> QED BY <1>2, <2>1, <2>2 DEF Talk
<1>3. Seq(Entries(S)) \subseteq Seq(Entries(T)) /\ Seq(Wanted(S)) \subseteq Seq(Wanted(T))
  BY TypesGrow, SeqGrows
<1>4. TalkInv(S) => TalkInv(T)
  BY <1>2, <1>3 DEF TalkInv
<1>5. PadInv(S) => PadInv(T)
  <2> DEFINE A == [phase : {"idle", "waiting", "done"}, call : {<<>>} \union (S \X S),
                   answer : Replies(S) \union {NoAnswer}]
             B == [phase : {"idle", "waiting", "done"}, call : {<<>>} \union (T \X T),
                   answer : Replies(T) \union {NoAnswer}]
  <2>1. A \subseteq B
    BY TypesGrow
  <2> HIDE DEF A, B
  <2>2. [Pads -> A] \subseteq [Pads -> B]
    BY <2>1
  <2> QED BY <2>2 DEF PadInv, A, B
<1> QED BY <1>2, <1>4, <1>5

(* The controller's end: a turn, a closed descriptor, a send.              *)
LEMMA TalkServed ==
  ASSUME NEW S, Talk(net, S), NEW s \in Sockets
  PROVE  /\ Talk(Served(s), S) /\ Served(s).link = net.link
         /\ net.to[s] # <<>> => Talk(Received(s), S) /\ Received(s).peer = net.peer
<1> DEFINE WF(n) == WellFormed(n, Clients, Messages(S), Replies(S))
<1>1. /\ WF(Served(s)) /\ Served(s).link = net.link
      /\ net.to[s] # <<>> => WF(Received(s))
  BY ServedWellFormed DEF Talk
<1>2. /\ Served(s).peer = net.peer /\ Served(s).to = net.to
      /\ Served(s).from = net.from /\ Served(s).backlog = net.backlog
  BY DEF Served, Talk, WellFormed, NetsOf
<1>3. Talk(Served(s), S)
  BY <1>1, <1>2 DEF Talk, CarLine, CarInLine, NothingLeft
<1>4. ASSUME net.to[s] # <<>> PROVE Talk(Received(s), S) /\ Received(s).peer = net.peer
  <2>1. /\ Received(s).peer = net.peer /\ Received(s).link = net.link
        /\ Received(s).from = net.from /\ Received(s).backlog = net.backlog
        /\ Received(s).to = [net.to EXCEPT ![s] = Tail(@)]
    BY DEF Received, Served, Talk, WellFormed, NetsOf
  <2>2. net.to[s] \in Seq(CarMessages) => Tail(net.to[s]) \in Seq(CarMessages)
    BY <1>4, HeadTailProperties
  <2>3. CarLine(Received(s), S)
    BY <2>1, <2>2 DEF CarLine, Talk, WellFormed, NetsOf
  <2> QED BY <1>1, <1>4, <2>1, <2>3 DEF Talk, CarInLine, NothingLeft
<1> QED BY <1>1, <1>3, <1>4

(* Nothing under way is left on a descriptor that is closed.               *)
LEMMA TalkClosed ==
  ASSUME NEW S, NEW n, Talk(n, S), NEW s \in Sockets, n.link[s] # "open"
  PROVE  Talk(Closed(n, s), S)
<1> DEFINE n2 == Closed(n, s)
<1>1. WellFormed(n2, Clients, Messages(S), Replies(S))
  BY ClosedWellFormed DEF Talk
<1>2. /\ n2.link = [n.link EXCEPT ![s] = "free"] /\ n2.to = [n.to EXCEPT ![s] = <<>>]
      /\ n2.from = [n.from EXCEPT ![s] = <<>>] /\ n2.peer = n.peer /\ n2.backlog = n.backlog
  BY DEF NetsOf, Closed, Talk, WellFormed
<1>3. n \in NetsOf(Clients, Messages(S), Replies(S))
  BY DEF Talk, WellFormed
<1> HIDE DEF n2
<1>4. CarLine(n2, S)
  <2>1. <<>> \in Seq(CarMessages) /\ <<>> \in Seq(FloorsOf(S))
    OBVIOUS
  <2> QED BY <1>2, <1>3, <2>1 DEF CarLine, Talk, NetsOf
<1>5. CarInLine(n2) /\ NothingLeft(n2)
  BY <1>2, <1>3 DEF CarInLine, NothingLeft, Talk, NetsOf
<1> QED BY <1>1, <1>4, <1>5 DEF Talk, n2

(* Only a FLOOR is ever sent to the car.                                   *)
LEMMA TalkSends ==
  ASSUME NEW S, NEW n, Talk(n, S), NEW s \in Sockets, NEW m \in Replies(S),
         n.peer[s] = CarName => m \in FloorsOf(S),
         NEW n2 \in Sends(n, s, m)
  PROVE  Talk(n2, S) /\ n2.peer = n.peer
<1> USE DEF Talk
<1>1. WellFormed(n2, Clients, Messages(S), Replies(S)) /\ n2.peer = n.peer
  BY SendsWellFormed DEF OnlyReplies
<1>2. n \in NetsOf(Clients, Messages(S), Replies(S))
  BY DEF WellFormed
<1>3. CASE n.link[s] = "open" /\ n2 = [n EXCEPT !.from[s] = Append(@, m)]
  <2>1. /\ n2.link = n.link /\ n2.to = n.to /\ n2.backlog = n.backlog
        /\ n2.from = [n.from EXCEPT ![s] = Append(@, m)]
    BY <1>2, <1>3 DEF NetsOf
  <2>2. n.peer[s] = CarName => Append(n.from[s], m) \in Seq(FloorsOf(S))
    BY AppendProperties DEF CarLine
  <2>3. CarLine(n2, S)
    BY <1>1, <1>2, <2>1, <2>2 DEF CarLine, NetsOf
  <2> QED BY <1>1, <1>2, <1>3, <2>1, <2>3 DEF CarInLine, NothingLeft, NetsOf
<1>4. CASE n2 = [n EXCEPT !.up = FALSE]
  <2>1. n2.link = n.link /\ n2.to = n.to /\ n2.backlog = n.backlog /\ n2.from = n.from
    BY <1>2, <1>4 DEF NetsOf
  <2> QED BY <1>1, <2>1 DEF CarLine, CarInLine, NothingLeft
<1>5. CASE n2 = Closed(n, s) /\ n.link[s] = "reset"
  BY <1>1, <1>5, TalkClosed
<1>6. CASE n2 = n
  BY <1>6
<1> QED BY <1>3, <1>4, <1>5, <1>6 DEF Sends

(* A round: the new connection takes a descriptor on which nothing is left.*)
LEMMA TalkSelect ==
  ASSUME NEW S, Talk(net, S), Select
  PROVE  Talk(net', S)
<1> DEFINE n == Accepted(net)
<1>1. WellFormed(net', Clients, Messages(S), Replies(S))
  BY SelectWellFormed DEF Talk
<1>2. net \in NetsOf(Clients, Messages(S), Replies(S))
  BY DEF Talk, WellFormed
<1>3. net' = [n EXCEPT !.ready = Waiting]
  BY DEF Select
<1>4. CASE net.backlog = <<>>
  <2>1. /\ net'.link = net.link /\ net'.to = net.to /\ net'.backlog = net.backlog
        /\ net'.from = net.from /\ net'.peer = net.peer
    BY <1>2, <1>3, <1>4 DEF Accepted, NetsOf
  <2> QED BY <1>1, <2>1 DEF Talk, CarLine, CarInLine, NothingLeft
<1>5. CASE net.backlog # <<>>
  <2> DEFINE f == Min(Free)
             b == Head(net.backlog)
  <2>1. f \in Sockets /\ net.link[f] = "free"
    <3>1. Free \subseteq Nat /\ Free # {}
      BY <1>5, FreeForBacklog DEF Free, Sockets, Talk
    <3>2. f \in Free
      BY <3>1, NatMin
    <3> QED BY <3>2 DEF Free
  <2>2. net.from[f] = <<>>
    BY <2>1 DEF Talk, NothingLeft
  <2>3. /\ b.client = CarName => b.messages \in Seq(CarMessages)
        /\ \A k \in DOMAIN Tail(net.backlog) : Tail(net.backlog)[k].client = CarName =>
             Tail(net.backlog)[k].messages \in Seq(CarMessages)
    <3> DEFINE B == [client : Clients, messages : Seq(Messages(S))]
    <3>1. net.backlog \in Seq(B) /\ Len(net.backlog) \in Nat
      BY <1>2, LenProperties DEF NetsOf
    <3> HIDE DEF B
    <3>2. /\ b = net.backlog[1] /\ 1 \in DOMAIN net.backlog
          /\ DOMAIN Tail(net.backlog) = 1 .. Len(net.backlog) - 1
          /\ \A k \in 1 .. Len(net.backlog) - 1 :
               /\ Tail(net.backlog)[k] = net.backlog[k + 1]
               /\ k + 1 \in DOMAIN net.backlog
      <4>1. /\ Tail(net.backlog) \in Seq(B) /\ Len(Tail(net.backlog)) = Len(net.backlog) - 1
            /\ Len(net.backlog) # 0 /\ DOMAIN net.backlog = 1 .. Len(net.backlog)
            /\ \A k \in 1 .. Len(Tail(net.backlog)) :
                 Tail(net.backlog)[k] = net.backlog[k + 1]
        BY <1>5, <3>1, HeadTailProperties, EmptySeq, LenProperties
      <4>2. DOMAIN Tail(net.backlog) = 1 .. Len(Tail(net.backlog))
        BY <4>1, LenProperties
      <4> QED BY <1>5, <3>1, <4>1, <4>2, HeadTailProperties
    <3> HIDE DEF b
    <3> QED BY <3>2 DEF Talk, CarInLine
  <2> HIDE DEF f, b
  <2>4. n = [net EXCEPT !.link[f] = "open", !.peer[f] = b.client,
                        !.to[f] = b.messages, !.backlog = Tail(@)]
    BY <1>5 DEF Accepted, f, b
  <2>5. /\ net'.link = [net.link EXCEPT ![f] = "open"]
        /\ net'.peer = [net.peer EXCEPT ![f] = b.client]
        /\ net'.to = [net.to EXCEPT ![f] = b.messages]
        /\ net'.from = net.from /\ net'.backlog = Tail(net.backlog)
    BY <1>2, <1>3, <2>4 DEF NetsOf
  <2>6. CarLine(net', S)
    <3>1. <<>> \in Seq(FloorsOf(S))
      OBVIOUS
    <3>2. CarLine(net, S)
      BY DEF Talk
    <3> QED BY <1>2, <2>1, <2>2, <2>3, <2>5, <3>1, <3>2 DEF CarLine, NetsOf
  <2>7. CarInLine(net') /\ NothingLeft(net')
    BY <1>2, <2>1, <2>2, <2>3, <2>5 DEF CarInLine, NothingLeft, Talk, NetsOf
  <2> QED BY <1>1, <2>6, <2>7 DEF Talk
<1> QED BY <1>4, <1>5

(* The clients' end: one joins the line, another closes its socket.        *)
LEMMA TalkDialled ==
  ASSUME NEW S, Talk(net, S), Room, NEW x \in Clients,
         NEW messages \in Seq(Messages(S)),
         x = CarName => messages \in Seq(CarMessages)
  PROVE  Talk(Dialled(x, messages), S)
<1> DEFINE n == Dialled(x, messages)
           b == [client |-> x, messages |-> messages]
           B == [client : Clients, messages : Seq(Messages(S))]
<1>1. WellFormed(n, Clients, Messages(S), Replies(S))
  BY DialledWellFormed DEF Talk
<1>2. /\ n.link = net.link /\ n.peer = net.peer /\ n.to = net.to /\ n.from = net.from
      /\ n.backlog = Append(net.backlog, b)
  BY DEF Talk, WellFormed, NetsOf, Dialled
<1>3. net.backlog \in Seq(B) /\ b \in B
  BY DEF Talk, WellFormed, NetsOf
<1>4. b.client = CarName => b.messages \in Seq(CarMessages)
  OBVIOUS
<1> HIDE DEF n, b, B
<1>5. ASSUME NEW k \in DOMAIN n.backlog PROVE n.backlog[k] = b \/
        (k \in DOMAIN net.backlog /\ n.backlog[k] = net.backlog[k])
  <2>1. /\ Len(net.backlog) \in Nat /\ DOMAIN net.backlog = 1 .. Len(net.backlog)
        /\ n.backlog \in Seq(B) /\ Len(n.backlog) = Len(net.backlog) + 1
        /\ \A j \in 1 .. Len(net.backlog) : n.backlog[j] = net.backlog[j]
        /\ n.backlog[Len(net.backlog) + 1] = b
    BY <1>2, <1>3, LenProperties, AppendProperties
  <2>2. DOMAIN n.backlog = 1 .. Len(net.backlog) + 1
    BY <2>1, LenProperties
  <2> QED BY <2>1, <2>2
<1>6. CarInLine(n)
  BY <1>4, <1>5 DEF Talk, CarInLine
<1> QED BY <1>1, <1>2, <1>6 DEF Talk, CarLine, NothingLeft, n

(* A client that closes its end leaves nothing behind for the next.        *)
LEMMA TalkAbandoned ==
  ASSUME NEW S, Talk(net, S), NEW s \in Sockets, net.link[s] = "open",
         NEW unread \in Seq(Replies(S))
  PROVE  Talk(Abandoned([net EXCEPT !.from[s] = unread], s), S)
<1> DEFINE n == [net EXCEPT !.from[s] = unread]
           n2 == Abandoned(n, s)
<1>1. net \in NetsOf(Clients, Messages(S), Replies(S)) /\ CarName # Nobody
  BY FlightAssumption DEF Talk, WellFormed, FlightAssumption
<1>2. n \in NetsOf(Clients, Messages(S), Replies(S)) /\ KeepsRoom(net, n)
  BY <1>1 DEF Talk, WellFormed, NetsOf, KeepsRoom, FreeIn, PeersOpenIn
<1>3. WellFormed(n, Clients, Messages(S), Replies(S))
  BY <1>2, KeepsWellFormed DEF Talk
<1>4. n.link = net.link
  BY <1>1 DEF NetsOf
<1>5. WellFormed(n2, Clients, Messages(S), Replies(S))
  BY <1>3, <1>4, AbandonedWellFormed
<1>6. \E l \in Link \ {"open"} :
        /\ n2.link = [net.link EXCEPT ![s] = l]
        /\ n2.peer = [net.peer EXCEPT ![s] = Nobody]
        /\ n2.from = [net.from EXCEPT ![s] = <<>>]
        /\ n2.to = net.to /\ n2.backlog = net.backlog
  <2>1. /\ n2.peer = [net.peer EXCEPT ![s] = Nobody]
        /\ n2.from = [net.from EXCEPT ![s] = <<>>]
        /\ n2.to = net.to /\ n2.backlog = net.backlog
    BY <1>1 DEF Abandoned, NetsOf
  <2>2. \E l \in {"hung_up", "reset"} : n2.link = [net.link EXCEPT ![s] = l]
    BY <1>1 DEF Abandoned, NetsOf
  <2> QED BY <2>1, <2>2 DEF Link
<1> HIDE DEF n2, n
<1>7. CarLine(n2, S)
  BY <1>1, <1>6 DEF CarLine, Talk, NetsOf
<1>8. CarInLine(n2) /\ NothingLeft(n2)
  BY <1>1, <1>6 DEF CarInLine, NothingLeft, Talk, NetsOf
<1> QED BY <1>5, <1>7, <1>8 DEF Talk, n, n2

-----------------------------------------------------------------------------
(* The controller.                                                         *)

(* Every entry of the list is typed and may be replaced by a typed one.    *)
LEMMA EntryAt ==
  ASSUME NEW S, cars \in Seq(Entries(S)), NEW k \in DOMAIN cars
  PROVE  /\ cars[k] \in Entries(S)
         /\ \A e \in Entries(S) : [cars EXCEPT ![k] = e] \in Seq(Entries(S))
<1>1. k \in 1 .. Len(cars)
  BY LenProperties
<1> QED BY <1>1, ElementOfSeq, ExceptSeq

(* What the controller receives at a turn, and on what it receives a CALL. *)
LEMMA MessageTyped ==
  ASSUME NEW S, Talk(net, S), NEW s \in Sockets, net.to[s] # <<>>
  PROVE  /\ Head(net.to[s]) \in Messages(S)
         /\ Head(net.to[s]).kind = "CALL" =>
              Head(net.to[s]) \in CallsFor(S) /\ net.peer[s] # CarName
         /\ Head(net.to[s]).kind # "CALL" => Head(net.to[s]) \in CarMessages
<1> DEFINE m == Head(net.to[s])
<1>1. m \in Messages(S)
  BY HeadTailProperties DEF Talk, WellFormed, NetsOf
<1>2. net.peer[s] = CarName => m \in CarMessages
  BY HeadTailProperties DEF Talk, CarLine
<1>3. \A x \in CarMessages : x.kind # "CALL"
  BY DEF CarMessages, CarMessage
<1>4. \A x \in CallsFor(S) : x.kind = "CALL"
  BY DEF CallsFor
<1> HIDE DEF m
<1> QED BY <1>1, <1>2, <1>3, <1>4 DEF Messages, m

(* The entry of the car with a queue of stops and a guessed destination.   *)
LEMMA EntryBooked ==
  ASSUME NEW S, S \subseteq Label, NEW e \in Entries(S),
         NEW q \in Seq(NodesOf(Wanted(S)))
  PROVE  Booked(e, q) \in Entries(S)
<1> DEFINE d == IF SendsFloor(e, q) THEN Decimal(get_next_destination(q))
                                    ELSE e.destinationfloor
<1>1. get_next_destination(q) \in Int
  <2>1. get_next_destination(q) \in Wanted(S) \union {-1}
    BY NextOfQueue
  <2> QED BY <2>1 DEF Wanted, Label
<1>2. d \in Int
  <2>1. e.destinationfloor \in Int
    BY DEF Entries
  <2>2. Decimal(get_next_destination(q)) \in Int
    BY <1>1 DEF Decimal
  <2> QED BY <2>1, <2>2
<1>3. Booked(e, q) = [e EXCEPT !.queue = q, !.destinationfloor = d]
  BY DEF Booked
<1> HIDE DEF d
<1> QED BY <1>2, <1>3 DEF Entries

(* A call: its floors, if the car can serve them, join the queue, and the  *)
(* first of the queue is told to whoever has the socket of the entry.      *)
LEMMA CallTalks ==
  ASSUME NEW S, S \subseteq Label, Talk(net, S), cars \in Seq(Entries(S)),
         NEW s \in Sockets, HandleCall(s)
  PROVE  Talk(net', S) /\ cars' \in Seq(Entries(S))
<1> DEFINE m == Head(net.to[s])
<1>1. net.to[s] # <<>> /\ m.kind = "CALL"
  BY DEF HandleCall, Arrived
<1>2. m \in CallsFor(S) /\ net.peer[s] # CarName
  BY <1>1, MessageTyped
<1>3. m.source \in S /\ m.dest \in S
  BY <1>2 DEF CallsFor
<1>4. Talk(Received(s), S) /\ Received(s).peer = net.peer
  BY <1>1, TalkServed
<1>5. CASE /\ Candidates(m.source, m.dest) # {}
           /\ Assign(BestCar(m.source, m.dest), m.source, m.dest, s)
  <2> DEFINE k == BestCar(m.source, m.dest)
             queue == add_to_car_queue(cars[k], m.source, m.dest)
             first == get_next_destination(queue)
             target == controller_get_socket_by_name(cars[k].name)
             sends == SendsFloor(cars[k], queue)
             e == Booked(cars[k], queue)
  <2>1. k \in DOMAIN cars /\ can_service_request(cars[k], m.source, m.dest)
    <3>1. \A j \in DOMAIN cars :
            cars[j].currentfloor \in Int /\ Len(cars[j].queue) \in Nat
      BY EntryAt, LenProperties DEF Entries
    <3>2. m.source \in Int /\ m.dest \in Int
      <4>1. \A x \in S : x \in Int
        BY DEF Label
      <4> QED BY <1>3, <4>1
    <3>3. k \in Candidates(m.source, m.dest)
      BY <1>5, <3>1, <3>2, NearestCar
    <3> QED BY <3>3 DEF Candidates
  <2>2. cars[k] \in Entries(S)
    BY <2>1, EntryAt
  <2>3. queue \in Seq(NodesOf(Wanted(S)))
    <3>1. m.source \in Wanted(S) /\ m.dest \in Wanted(S)
      BY <1>3, <2>1, <2>2 DEF can_service_request, Entries, Wanted
    <3>2. cars[k].queue \in Seq(NodesOf(Wanted(S)))
      BY <2>2 DEF Entries
    <3> QED BY <3>1, <3>2, AddedToQueue
  <2>4. e \in Entries(S)
    BY <2>2, <2>3, EntryBooked
  <2>5. sends => FloorMessage(first) \in FloorsOf(S)
    <3>1. first \in Wanted(S) \union {-1}
      BY <2>3, NextOfQueue
    <3> QED BY <3>1 DEF SendsFloor, FloorMessage, FloorsOf
  <2>6. target \in Sockets
    <3>1. Min(Named(cars[k].name)) \in DOMAIN cars
      BY <2>1, FirstOfName
    <3> QED BY <3>1, EntryAt DEF Entries, controller_get_socket_by_name
  <2>7. CarAnswer(cars[k].name) \in Replies(S)
    BY <2>2 DEF Entries, Replies
  <2>8. cars' = [cars EXCEPT ![k] = e]
    BY <1>5 DEF Assign
  <2>9. PICK n \in IF sends THEN Sends(Received(s), target, FloorMessage(first))
                            ELSE {Received(s)} :
          net' \in Sends(n, s, CarAnswer(cars[k].name))
    BY <1>5 DEF Assign
  <2> HIDE DEF m, k, queue, first, target, sends, e
  <2>10. cars' \in Seq(Entries(S))
    BY <2>1, <2>4, <2>8, EntryAt
  <2>11. Talk(n, S) /\ n.peer = net.peer
    <3>1. CASE n = Received(s)
      BY <1>4, <3>1
    <3>2. CASE sends /\ n \in Sends(Received(s), target, FloorMessage(first))
      <4>1. FloorMessage(first) \in FloorsOf(S) /\ FloorMessage(first) \in Replies(S)
        BY <2>5, <3>2 DEF Replies
      <4> QED BY <1>4, <2>6, <3>2, <4>1, TalkSends
    <3> QED BY <2>9, <3>1, <3>2
  <2>12. Talk(net', S)
    BY <1>2, <2>7, <2>9, <2>11, TalkSends
  <2> QED BY <2>10, <2>12
<1>6. CASE Refuse(s) /\ UNCHANGED cars
  <2>1. Unavailable \in Replies(S)
    BY DEF Replies
  <2> QED BY <1>2, <1>4, <1>6, <2>1, TalkSends DEF Refuse
<1> QED BY <1>5, <1>6 DEF HandleCall

(* What a CAR message pushes is an entry of the car, without stops.        *)
LEMMA NewCarTyped ==
  ASSUME NEW S, NEW s \in Sockets, NEW stack \in StackCars
  PROVE  NewCar(CarMessage(CarName, LowestFloor, HighestFloor), s, stack) \in Entries(S)
<1>1. /\ stack.current_direction \in Direction
      /\ stack.elevator_status \in {"Opening", "Closing"}
  BY StackAssumption DEF StackAssumption
<1>2. <<>> \in Seq(NodesOf(Wanted(S)))
  OBVIOUS
<1> QED BY <1>1, <1>2 DEF NewCar, CarMessage, Entries, NoFloor

(* A registration adds an entry of the car, with an empty queue.           *)
LEMMA RegistrationTalks ==
  ASSUME NEW S, Talk(net, S), cars \in Seq(Entries(S)), NEW s \in Sockets, HandleCar(s)
  PROVE  Talk(net', S) /\ cars' \in Seq(Entries(S))
<1> DEFINE m == Head(net.to[s])
<1>1. net.to[s] # <<>> /\ m.kind = "CAR"
  BY DEF HandleCar, Arrived
<1>2. m = CarMessage(CarName, LowestFloor, HighestFloor)
  <2>1. m \in CarMessages
    BY <1>1, MessageTyped
  <2> HIDE DEF m
  <2> QED BY <1>1, <2>1 DEF CarMessages, CarMessage
<1>3. PICK stack \in StackCars : cars' = Append(cars, NewCar(m, s, stack))
  BY DEF HandleCar
<1>4. NewCar(m, s, stack) \in Entries(S)
  BY <1>2, NewCarTyped
<1>5. cars' \in Seq(Entries(S))
  BY <1>3, <1>4, AppendProperties
<1>6. Talk(net', S)
  BY <1>1, TalkServed DEF HandleCar
<1> QED BY <1>5, <1>6

(* A status may advance the queue, and the next floor goes to the sender.  *)
LEMMA StatusTalks ==
  ASSUME NEW S, S \subseteq Label, Talk(net, S), cars \in Seq(Entries(S)),
         NEW s \in Sockets, HandleStatus(s)
  PROVE  Talk(net', S) /\ cars' \in Seq(Entries(S))
<1> DEFINE m == Head(net.to[s])
<1>1. net.to[s] # <<>> /\ m.kind = "STATUS"
  BY DEF HandleStatus, Arrived
<1>2. m.status \in Status /\ m.currentfloor \in Int /\ m.destinationfloor \in Int
  <2>1. m \in CarMessages
    BY <1>1, MessageTyped
  <2> HIDE DEF m
  <2>2. m \in [kind : {"STATUS"}, status : Status, currentfloor : Label,
               destinationfloor : Label]
    BY <1>1, <2>1 DEF CarMessages, CarMessage
  <2>3. \A x \in Label : x \in Int
    BY DEF Label
  <2> QED BY <2>2, <2>3
<1>3. Talk(Received(s), S)
  BY <1>1, TalkServed
<1>4. CASE net' = Received(s) /\ UNCHANGED cars
  BY <1>3, <1>4
<1>5. CASE OnSocket(s) # {}
  <2> DEFINE k == Min(Named(controller_get_name_by_socket(s)))
             arrives == Arrives(cars[k], m)
             queue == IF arrives THEN remove_from_car_queue(cars[k].queue)
                                 ELSE cars[k].queue
             next == get_next_destination(queue)
             e == [Updated(cars[k], m) EXCEPT !.queue = queue]
  <2>1. k \in DOMAIN cars
    BY <1>5, FirstOnSocket, FirstOfName DEF controller_get_name_by_socket
  <2>2. cars[k] \in Entries(S)
    BY <2>1, EntryAt
  <2>3. queue \in Seq(NodesOf(Wanted(S)))
    BY <2>2, QueueRemoved DEF Entries
  <2>4. next # -1 => FloorMessage(next) \in FloorsOf(S)
    <3>1. next \in Wanted(S) \union {-1}
      BY <2>3, NextOfQueue
    <3> QED BY <3>1 DEF FloorMessage, FloorsOf
  <2>5. cars' = [cars EXCEPT ![k] = e]
    BY <1>5 DEF HandleStatus
  <2>6. net' \in IF arrives /\ next # -1 THEN Sends(Received(s), s, FloorMessage(next))
                                         ELSE {Received(s)}
    BY <1>5 DEF HandleStatus
  <2>7. Updated(cars[k], m) \in Entries(S)
    BY <1>2, <2>2 DEF Updated, Entries
  <2> HIDE DEF m, k, queue, next, arrives
  <2>8. e \in Entries(S)
    BY <2>3, <2>7 DEF Entries
  <2>9. cars' \in Seq(Entries(S))
    BY <2>1, <2>5, <2>8, EntryAt
  <2>10. Talk(net', S)
    <3>1. CASE net' = Received(s)
      BY <1>3, <3>1
    <3>2. CASE next # -1 /\ net' \in Sends(Received(s), s, FloorMessage(next))
      <4>1. FloorMessage(next) \in FloorsOf(S) /\ FloorMessage(next) \in Replies(S)
        BY <2>4, <3>2 DEF Replies
      <4> QED BY <1>3, <3>2, <4>1, TalkSends
    <3> QED BY <2>6, <3>1, <3>2
  <2> QED BY <2>9, <2>10
<1> QED BY <1>4, <1>5 DEF HandleStatus

(* The other ends of a turn.                                               *)
LEMMA RestTalks ==
  ASSUME NEW S, Talk(net, S), cars \in Seq(Entries(S)), NEW s \in Sockets,
         HandleOther(s) \/ HandleHangUp(s) \/ HandleError(s)
  PROVE  Talk(net', S) /\ cars' \in Seq(Entries(S))
<1>1. CASE HandleOther(s)
  BY <1>1, TalkServed DEF HandleOther, Arrived
<1>2. ASSUME net.link[s] # "open", net' = Closed(Served(s), s) PROVE Talk(net', S)
  BY <1>2, TalkServed, TalkClosed
<1>3. CASE HandleHangUp(s)
  <2>1. Talk(net', S)
    BY <1>2, <1>3 DEF HandleHangUp
  <2>2. CASE OnSocket(s) = {}
    BY <1>3, <2>1, <2>2 DEF HandleHangUp
  <2>3. CASE OnSocket(s) # {}
    <3> DEFINE k == Min(Named(controller_get_name_by_socket(s)))
    <3>1. k \in 1 .. Len(cars)
      BY <2>3, FirstOnSocket, FirstOfName, LenProperties DEF controller_get_name_by_socket
    <3>2. cars' = RemoveAt(cars, k)
      BY <1>3, <2>3 DEF HandleHangUp, controller_remove_by_name, RemovedFirst
    <3> HIDE DEF k
    <3> QED BY <2>1, <3>1, <3>2, RemovedAt
  <2> QED BY <2>2, <2>3
<1>4. CASE HandleError(s)
  BY <1>2, <1>4 DEF HandleError
<1> QED BY <1>1, <1>3, <1>4

(* What is under way to the car are floors it is to serve.                 *)
LEMMA SentTyped ==
  ASSUME NEW S, NEW n, Talk(n, S)
  PROVE  SentToCar(n) \in Seq(Wanted(S))
<1> DEFINE held == {s \in Sockets : n.peer[s] = CarName}
           s == Min(held)
<1>1. CASE held = {}
  BY <1>1 DEF SentToCar
<1>2. CASE held # {}
  <2>1. s \in held
    BY <1>2, NatMin DEF Sockets
  <2>2. n.from[s] \in Seq(FloorsOf(S))
    BY <2>1 DEF Talk, CarLine
  <2>3. SentToCar(n) = [k \in DOMAIN n.from[s] |-> n.from[s][k].floor]
    BY <1>2 DEF SentToCar
  <2> HIDE DEF s
  <2>4. /\ DOMAIN n.from[s] = 1 .. Len(n.from[s]) /\ Len(n.from[s]) \in Nat
        /\ \A k \in 1 .. Len(n.from[s]) : n.from[s][k] \in FloorsOf(S)
    BY <2>2, LenProperties, ElementOfSeq
  <2>5. \A k \in 1 .. Len(n.from[s]) : n.from[s][k].floor \in Wanted(S)
    BY <2>4 DEF FloorsOf
  <2>6. SentToCar(n) = [k \in 1 .. Len(n.from[s]) |-> n.from[s][k].floor]
    BY <2>3, <2>4
  <2> QED BY <2>4, <2>5, <2>6, IsASeq
<1> QED BY <1>1, <1>2

(* A step of the controller.                                               *)
LEMMA ControlTalks ==
  ASSUME NEW S, S \subseteq Label, TalkInv(S), Serve, inbox' = SentToCar(net')
  PROVE  TalkInv(S)'
<1>1. Talk(net', S) /\ cars' \in Seq(Entries(S))
  <2>1. CASE Select /\ UNCHANGED cars
    BY <2>1, TalkSelect DEF TalkInv
  <2>2. ASSUME NEW s \in Sockets, HandleSocket(s)
        PROVE  Talk(net', S) /\ cars' \in Seq(Entries(S))
    BY <2>2, CallTalks, RegistrationTalks, StatusTalks, RestTalks DEF HandleSocket, TalkInv
  <2> QED BY <2>1, <2>2 DEF Serve
<1>2. inbox' \in Seq(Wanted(S))
  BY <1>1, SentTyped
<1> QED BY <1>1, <1>2 DEF TalkInv

-----------------------------------------------------------------------------
(* The pads.                                                               *)

(* The stops of the pads stay what they are, or a call adds its two.       *)
LEMMA StopsTyped ==
  ASSUME NEW S, PadInv(S)
  PROVE  Stops \subseteq S
<1>1. ASSUME NEW p \in Pads PROVE Range(pad[p].call) \subseteq S
  <2>1. pad[p].call = <<>> \/ pad[p].call \in S \X S
    BY DEF PadInv
  <2> QED BY <2>1 DEF Range
<1> QED BY <1>1 DEF Stops

(* A pad that calls adds its two floors to the stops.                      *)
LEMMA StopsAdded ==
  ASSUME NEW S, PadInv(S), NEW p \in Pads, PadCalls(p)
  PROVE  \E c \in Label \X Label :
           /\ Stops \subseteq Stops' /\ Stops' \subseteq Stops \union {c[1], c[2]}
           /\ c[1] \in Stops' /\ c[2] \in Stops'
           /\ net' = Dialled(p, <<CallMessage(c[1], c[2])>>)
           /\ pad' = [pad EXCEPT ![p] = [phase |-> "waiting", call |-> c, answer |-> NoAnswer]]
<1>1. PICK c \in Calls[p] :
        /\ net' = Dialled(p, <<CallMessage(c[1], c[2])>>)
        /\ pad' = [pad EXCEPT ![p] = [phase |-> "waiting", call |-> c, answer |-> NoAnswer]]
  BY DEF PadCalls, NewPad
<1>2. c \in Label \X Label
  BY PadAssumption DEF PadAssumption
<1>3. Range(c) = {c[1], c[2]}
  BY <1>2 DEF Range
<1>4. pad[p].call = <<>> /\ Range(pad[p].call) = {}
  <2>1. pad[p].call = <<>>
    BY DEF PadCalls, PadInv
  <2> QED BY <2>1 DEF Range
<1>5. \A q \in Pads : pad'[q].call = IF q = p THEN c ELSE pad[q].call
  BY <1>1 DEF PadInv
<1>6. \A q \in Pads : Range(pad'[q].call) = IF q = p THEN {c[1], c[2]} ELSE Range(pad[q].call)
  BY <1>3, <1>5
<1>7. Stops' = UNION {Range(pad'[q].call) : q \in Pads}
  BY DEF Stops
<1>8. Stops' = Stops \union {c[1], c[2]}
  BY <1>4, <1>6, <1>7 DEF Stops
<1> QED BY <1>1, <1>2, <1>8

(* Steps that leave the calls alone leave the stops alone.                 *)
LEMMA StopsKept ==
  ASSUME \A p \in Pads : pad'[p].call = pad[p].call
  PROVE  Stops' = Stops
BY DEF Stops

(* A call joins the line.                                                  *)
LEMMA CallKeeps ==
  ASSUME NEW T, TalkInv(T), PadInv(T), Room, NEW p \in Pads, NEW c \in T \X T,
         net' = Dialled(p, <<CallMessage(c[1], c[2])>>), UNCHANGED <<cars, inbox>>,
         pad' = [pad EXCEPT ![p] = [phase |-> "waiting", call |-> c, answer |-> NoAnswer]]
  PROVE  TalkInv(T)' /\ PadInv(T)'
<1>1. p \in Clients /\ p # CarName
  BY FlightAssumption DEF FlightAssumption, Clients
<1>2. CallMessage(c[1], c[2]) \in Messages(T)
  BY DEF CallMessage, Messages, CallsFor
<1>3. <<CallMessage(c[1], c[2])>> \in Seq(Messages(T))
  BY <1>2
<1>4. Talk(net', T)
  BY <1>1, <1>3, TalkDialled DEF TalkInv
<1>5. PadInv(T)'
  BY DEF PadInv
<1> QED BY <1>4, <1>5 DEF TalkInv

(* An answer is read, and the socket closed.                               *)
LEMMA AnswerKeeps ==
  ASSUME NEW S, TalkInv(S), PadInv(S), NEW p \in Pads, PadReceives(p), UNCHANGED inbox
  PROVE  TalkInv(S)' /\ PadInv(S)' /\ Stops' = Stops
<1> DEFINE s == SocketOf(p)
<1>1. p # Nobody /\ p # CarName
  BY FlightAssumption DEF FlightAssumption
<1>2. s \in Sockets /\ net.peer[s] = p /\ net.link[s] = "open" /\ net.from[s] # <<>>
  BY <1>1, HolderOpen DEF PadReceives, TalkInv, Talk
<1>3. net.from[s] \in Seq(Replies(S))
  BY <1>2 DEF TalkInv, Talk, WellFormed, NetsOf
<1>4. Head(net.from[s]) \in Replies(S) /\ Tail(net.from[s]) \in Seq(Replies(S))
  BY <1>2, <1>3, HeadTailProperties
<1>5. /\ net' = Abandoned([net EXCEPT !.from[s] = Tail(net.from[s])], s)
      /\ pad' = [pad EXCEPT ![p].phase = "done", ![p].answer = Head(net.from[s])]
      /\ UNCHANGED cars
  BY DEF PadReceives
<1> HIDE DEF s
<1>6. Talk(net', S)
  BY <1>1, <1>2, <1>4, <1>5, TalkAbandoned DEF TalkInv
<1>7. PadInv(S)'
  BY <1>4, <1>5 DEF PadInv
<1>8. Stops' = Stops
  <2>1. \A q \in Pads : pad'[q].call = pad[q].call
    BY <1>5 DEF PadInv
  <2> QED BY <2>1, StopsKept
<1> QED BY <1>5, <1>6, <1>7, <1>8 DEF TalkInv

-----------------------------------------------------------------------------
(* The car.                                                                *)

(* What the link hands to the process thread is a floor it is to serve.    *)
LEMMA LinkFloors ==
  ASSUME NEW S, S \subseteq Label, CarInv, inbox \in Seq(Wanted(S)), LinkStep
  PROVE  CarInv' /\ inbox' \in Seq(Wanted(S))
<1>1. /\ PcTypeOK' /\ UNCHANGED <<waiting, current_status, floordiff, i, read_flag>>
      /\ \/ UNCHANGED <<shm, shm_send>> /\ inbox' \in {inbox, <<>>}
         \/ TakesFloor
  BY LinkMoves DEF CarInv
<1>2. CASE UNCHANGED <<shm, shm_send>> /\ inbox' \in {inbox, <<>>}
  <2>1. <<>> \in Seq(Wanted(S))
    OBVIOUS
  <2> QED BY <1>1, <1>2, <2>1 DEF CarInv, SharedTypeOK, CarTypeOK
<1>3. CASE TakesFloor
  <2>1. Head(inbox) \in Wanted(S) /\ Tail(inbox) \in Seq(Wanted(S))
    BY <1>3, HeadTailProperties DEF TakesFloor
  <2>2. Head(inbox) \in Label
    BY <2>1 DEF Wanted
  <2>3. shm' \in SharedData
    BY <1>3, <2>2, FloorReceived DEF CarInv
  <2>4. inbox' = Tail(inbox) /\ shm_send' = 1
    BY <1>3 DEF TakesFloor
  <2> QED BY <1>1, <2>1, <2>3, <2>4 DEF CarInv, SharedTypeOK, CarTypeOK, Bit
<1> QED BY <1>1, <1>2, <1>3

(* What the car reports is one of its messages.                            *)
LEMMA StatusReported ==
  ASSUME SharedTypeOK
  PROVE  ReportedStatus \in CarMessages
BY DEF SharedTypeOK, SharedData, ReportedStatus, StatusMessage, CarMessages

(* The link of the car sends only such messages, and takes FLOORs from     *)
(* what is sent to it.                                                     *)
LEMMA CarTalksKeeps ==
  ASSUME NEW S, S \subseteq Label, TalkInv(S), CarInv, CarTalks
  PROVE  TalkInv(S)' /\ CarInv'
<1>1. LinkStep /\ UNCHANGED <<cars, pad>>
  BY DEF CarTalks, ConnectCar, RegisterCar, ReportCar, HeedCar, LinkStep, controllerVars
<1>2. CarInv' /\ inbox' \in Seq(Wanted(S))
  BY <1>1, LinkFloors DEF TalkInv
<1>3. ReportedStatus \in CarMessages /\ CarMessages \subseteq Messages(S)
  BY StatusReported DEF CarInv, Messages
<1>4. Talk(net', S)
  <2>1. CASE UNCHANGED net
    BY <2>1 DEF TalkInv
  <2>2. CASE RegisterCar
    <3> DEFINE hello == <<CarMessage(CarName, LowestFloor, HighestFloor), ReportedStatus>>
    <3>1. hello \in Seq(CarMessages)
      <4>1. CarMessage(CarName, LowestFloor, HighestFloor) \in CarMessages
        BY DEF CarMessages
      <4> QED BY <1>3, <4>1
    <3>2. hello \in Seq(Messages(S))
      BY <1>3, <3>1, SeqGrows
    <3>3. UNCHANGED net \/ (Room /\ net' = Dialled(CarName, hello))
      BY <2>2 DEF RegisterCar
    <3>4. CarName \in Clients
      BY DEF Clients
    <3> HIDE DEF hello
    <3> QED BY <2>1, <3>1, <3>2, <3>3, <3>4, TalkDialled DEF TalkInv
  <2>3. CASE ReportCar \/ HeedCar
    <3> DEFINE s == SocketOf(CarName)
               to == IF HeedCar THEN net.to[s] ELSE Append(net.to[s], ReportedStatus)
               from == IF ~HeedCar /\ pc'["tcp"] = "heed" THEN net.from[s] ELSE Taken(net.from[s])
    <3>1. CarName # Nobody /\ HeldBy(CarName) # {}
      BY <2>3, FlightAssumption DEF FlightAssumption, ReportCar, HeedCar
    <3>2. s \in Sockets /\ net.peer[s] = CarName /\ net.link[s] = "open"
      BY <3>1, HolderOpen DEF TalkInv, Talk
    <3>3. net \in NetsOf(Clients, Messages(S), Replies(S))
      BY DEF TalkInv, Talk, WellFormed
    <3>4. net.to[s] \in Seq(CarMessages) /\ net.from[s] \in Seq(FloorsOf(S))
      BY <3>2 DEF TalkInv, Talk, CarLine
    <3>5. to \in Seq(CarMessages) /\ from \in Seq(FloorsOf(S))
      BY <1>3, <3>4, AppendProperties, HeadTailProperties DEF Taken
    <3>6. to \in Seq(Messages(S)) /\ from \in Seq(Replies(S))
      <4>1. Seq(CarMessages) \subseteq Seq(Messages(S))
        BY <1>3, SeqGrows
      <4>2. Seq(FloorsOf(S)) \subseteq Seq(Replies(S))
        <5>1. FloorsOf(S) \subseteq Replies(S)
          BY DEF Replies
        <5> QED BY <5>1, SeqGrows
      <4> QED BY <3>5, <4>1, <4>2
    <3>7. \/ UNCHANGED net
          \/ net' = Abandoned(net, s)
          \/ net' = [net EXCEPT !.to[s] = to, !.from[s] = from]
      <4>1. CASE HeedCar
        <5>1. net' = [net EXCEPT !.from[s] = from] /\ to = net.to[s]
          BY <4>1 DEF HeedCar
        <5> HIDE DEF s, to, from
        <5>2. net' = [net EXCEPT !.to[s] = to, !.from[s] = from]
          BY <3>2, <3>3, <5>1 DEF NetsOf
        <5> QED BY <5>2
      <4>2. CASE ReportCar /\ ~HeedCar
        BY <4>2 DEF ReportCar
      <4> QED BY <2>3, <4>1, <4>2
    <3> HIDE DEF s, to, from
    <3>8. CASE net' = [net EXCEPT !.to[s] = to, !.from[s] = from]
      <4>1. /\ net'.link = net.link /\ net'.peer = net.peer /\ net'.backlog = net.backlog
            /\ net'.to = [net.to EXCEPT ![s] = to]
            /\ net'.from = [net.from EXCEPT ![s] = from]
        BY <3>3, <3>8 DEF NetsOf
      <4>2. net' \in NetsOf(Clients, Messages(S), Replies(S))
        BY <3>2, <3>3, <3>6, <3>8 DEF NetsOf
      <4>3. KeepsRoom(net, net')
        BY <4>1 DEF KeepsRoom, FreeIn, PeersOpenIn, TalkInv, Talk, WellFormed
      <4>4. WellFormed(net', Clients, Messages(S), Replies(S))
        BY <4>2, <4>3, KeepsWellFormed DEF TalkInv, Talk
      <4>5. CarLine(net', S)
        BY <3>2, <3>3, <3>5, <4>1 DEF CarLine, TalkInv, Talk, NetsOf
      <4>6. CarInLine(net') /\ NothingLeft(net')
        BY <3>2, <3>3, <4>1 DEF CarInLine, NothingLeft, TalkInv, Talk, NetsOf
      <4> QED BY <4>4, <4>5, <4>6 DEF Talk
    <3>9. CASE net' = Abandoned(net, s)
      <4>1. net = [net EXCEPT !.from[s] = net.from[s]] /\ net.from[s] \in Seq(Replies(S))
        BY <3>2, <3>3 DEF NetsOf
      <4> QED BY <3>2, <3>9, <4>1, TalkAbandoned DEF TalkInv
    <3> QED BY <2>1, <3>7, <3>8, <3>9
  <2> QED BY <2>1, <2>2, <2>3 DEF CarTalks, ConnectCar, controllerVars
<1> QED BY <1>1, <1>2, <1>4 DEF TalkInv

(* A step of the process thread says nothing and hears nothing.            *)
LEMMA ProcessKeeps ==
  ASSUME NEW S, TalkInv(S), PadInv(S), CarInv, Process
  PROVE  TalkInv(S)' /\ PadInv(S)' /\ CarInv' /\ Stops' = Stops
<1>1. ProcessStep /\ UNCHANGED <<net, cars, inbox, pad>>
  BY DEF Process, ProcessRuns, linkVars, controllerVars
<1>2. CarInv'
  BY <1>1, ProcessTyped DEF CarInv
<1> QED BY <1>1, <1>2 DEF TalkInv, PadInv, Stops

-----------------------------------------------------------------------------
(* Floors on their way.                                                    *)

(* The stops only get more.                                                *)
LEMMA StopsGrow ==
  ASSUME FloorsInv(Stops), [Next]_vars
  PROVE  Stops \subseteq Stops' /\ Stops' \subseteq Label
<1>1. PadInv(Stops) /\ Stops \subseteq Label
  BY DEF FloorsInv
<1>2. ASSUME NEW p \in Pads, PadCalls(p) PROVE Stops \subseteq Stops' /\ Stops' \subseteq Label
  BY <1>1, <1>2, StopsAdded
<1>3. CASE Answered
  <2>1. PICK p \in Pads : PadReceives(p) /\ UNCHANGED inbox
    BY <1>3 DEF Answered, carVars, linkVars
  <2> QED BY <1>1, <2>1, AnswerKeeps DEF FloorsInv
<1>4. CASE UNCHANGED pad
  BY <1>1, <1>4 DEF Stops
<1> QED BY <1>2, <1>3, <1>4
        DEF Next, Call, Process, CarTalks, ConnectCar, RegisterCar, ReportCar, HeedCar, Control,
            vars

(* At first nobody asked for anything and nothing is under way.            *)
LEMMA FloorsInit == Init => FloorsInv(Stops)
<1> HAVE Init
<1>1. Stops = {}
  <2>1. \A p \in Pads : pad[p].call = <<>>
    BY DEF Init, pad_init, NewPad
  <2> QED BY <2>1 DEF Stops, Range
<1>2. CarInv
  <2>1. LowestFloor \in Label
    BY ShaftAssumption DEF ShaftAssumption
  <2>2. SharedTypeOK
    BY <2>1 DEF Init, init_shared_data, SharedTypeOK, SharedData, Status, Bit
  <2>3. PcTypeOK
    BY DEF Init, PcTypeOK, Thread, ProcessPC, LinkPC
  <2>4. CarTypeOK
    BY DEF Init, CarTypeOK, DoorPhase, Status, Bit
  <2> QED BY <2>2, <2>3, <2>4 DEF CarInv
<1>3. PadInv({})
  BY DEF Init, pad_init, NewPad, PadInv
<1>4. Talk(net, {})
  <2>1. net = NoConnections
    BY DEF Init, controller_init
  <2>2. net \in NetsOf(Clients, Messages({}), Replies({}))
    <3>1. /\ <<>> \in Seq(Messages({})) /\ <<>> \in Seq(Replies({}))
          /\ <<>> \in Seq([client : Clients, messages : Seq(Messages({}))])
      OBVIOUS
    <3> QED BY <2>1, <3>1 DEF NoConnections, NetsOf, Link
  <2>3. RoomIn(net)
    <3>1. IsFiniteSet(Sockets)
      BY FS_Interval, ConnectionsAssumption DEF Sockets, ConnectionsAssumption
    <3>2. Cardinality(FreeIn(net)) \in Nat
      BY <3>1, FS_Subset, FS_CardinalityType DEF FreeIn
    <3> QED BY <2>1, <3>2 DEF NoConnections, RoomIn
  <2>4. /\ PeersOpenIn(net) /\ NothingLeft(net) /\ CarInLine(net)
    BY <2>1 DEF NoConnections, PeersOpenIn, NothingLeft, CarInLine
  <2>5. CarLine(net, {})
    <3>1. <<>> \in Seq(CarMessages) /\ <<>> \in Seq(FloorsOf({}))
      OBVIOUS
    <3> QED BY <2>1, <3>1 DEF NoConnections, CarLine
  <2> QED BY <2>2, <2>3, <2>4, <2>5 DEF Talk, WellFormed
<1>5. cars \in Seq(Entries({})) /\ inbox \in Seq(Wanted({}))
  <2>1. cars = <<>> /\ inbox = <<>>
    BY DEF Init, controller_init
  <2> QED BY <2>1
<1> QED BY <1>1, <1>2, <1>3, <1>4, <1>5 DEF FloorsInv, TalkInv

(* With a call the stops get more before its floors get anywhere.          *)
LEMMA FloorsNext == FloorsInv(Stops) /\ [Next]_vars => FloorsInv(Stops)'
<1> SUFFICES ASSUME FloorsInv(Stops), [Next]_vars PROVE FloorsInv(Stops)'
  OBVIOUS
<1>1. PICK T : T = Stops'
  OBVIOUS
<1>2. Stops \subseteq T /\ T \subseteq Label
  BY <1>1, StopsGrow
<1>3. TalkInv(T) /\ PadInv(T) /\ CarInv
  BY <1>2, TalkGrows DEF FloorsInv
<1>4. TalkInv(T)' /\ PadInv(T)' /\ CarInv'
  <2>1. CASE Process
    BY <1>3, <2>1, ProcessKeeps
  <2>2. CASE CarTalks
    <3>1. TalkInv(T)' /\ CarInv'
      BY <1>2, <1>3, <2>2, CarTalksKeeps
    <3>2. UNCHANGED pad
      BY <2>2 DEF CarTalks, ConnectCar, RegisterCar, ReportCar, HeedCar
    <3> QED BY <1>3, <3>1, <3>2 DEF PadInv
  <2>3. CASE Control
    <3>1. TalkInv(T)'
      BY <1>2, <1>3, <2>3, ControlTalks DEF Control
    <3>2. UNCHANGED <<pad, shmVars, doorVars, processVars>>
      BY <2>3 DEF Control
    <3> QED BY <1>3, <3>1, <3>2
            DEF PadInv, CarInv, SharedTypeOK, PcTypeOK, CarTypeOK, shmVars, doorVars, processVars
  <2>4. CASE Call \/ Answered
    <3>1. UNCHANGED <<inbox, shmVars, doorVars, processVars>>
      BY <2>4 DEF Call, Answered, carVars, linkVars
    <3>2. CarInv'
      BY <1>3, <3>1
         DEF CarInv, SharedTypeOK, PcTypeOK, CarTypeOK, shmVars, doorVars, processVars
    <3>3. TalkInv(T)' /\ PadInv(T)'
      <4>1. ASSUME NEW p \in Pads, PadCalls(p) PROVE TalkInv(T)' /\ PadInv(T)'
        <5>1. PICK c \in Label \X Label :
                /\ c[1] \in Stops' /\ c[2] \in Stops'
                /\ net' = Dialled(p, <<CallMessage(c[1], c[2])>>)
                /\ pad' = [pad EXCEPT ![p] =
                             [phase |-> "waiting", call |-> c, answer |-> NoAnswer]]
          BY <1>3, <4>1, StopsAdded
        <5>2. Room /\ UNCHANGED <<cars, inbox>>
          BY <3>1, <4>1 DEF PadCalls
        <5>3. c \in T \X T
          BY <1>1, <5>1
        <5> QED BY <1>3, <5>1, <5>2, <5>3, CallKeeps
      <4>2. ASSUME NEW p \in Pads, PadReceives(p) PROVE TalkInv(T)' /\ PadInv(T)'
        BY <1>3, <3>1, <4>2, AnswerKeeps
      <4> QED BY <2>4, <4>1, <4>2 DEF Call, Answered
    <3> QED BY <3>2, <3>3
  <2>5. CASE UNCHANGED vars
    <3>1. UNCHANGED <<net, cars, inbox, pad, shmVars, doorVars, processVars>>
      BY <2>5 DEF vars, carVars, controllerVars, linkVars
    <3> QED BY <1>3, <3>1 DEF TalkInv, PadInv, CarInv, SharedTypeOK, PcTypeOK, CarTypeOK,
              shmVars, doorVars, processVars
  <2> QED BY <2>1, <2>2, <2>3, <2>4, <2>5 DEF Next
<1>5. FloorsInv(T)'
  BY <1>2, <1>4 DEF FloorsInv
<1> QED BY <1>1, <1>5

(* In every state each floor on its way to the car was asked for by a pad  *)
(* and lies in the shaft, in whatever queue, message or variable it is.    *)
THEOREM FloorsAskedFor == Spec => []FloorsInv(Stops)
BY FloorsInit, FloorsNext, PTL DEF Spec

-----------------------------------------------------------------------------
(* The course of the car.                                                  *)

(* Which steps touch the car: those of its process thread and its link.    *)
LEMMA StepOfCar ==
  ASSUME [Next]_vars
  PROVE  \/ ProcessStep
         \/ LinkStep /\ Observe
         \/ UNCHANGED <<shm, pc, floordiff, i, shm_send, read_flag>>
<1>1. CASE (Process \/ CarTalks) /\ Observe
  BY <1>1
  DEF Process, ProcessRuns, CarTalks, ConnectCar, RegisterCar, ReportCar, HeedCar, LinkStep
<1>2. CASE Control \/ Call \/ Answered
  BY <1>2 DEF Control, Call, Answered, carVars, shmVars, doorVars, processVars
<1>3. CASE UNCHANGED vars
  BY <1>3 DEF vars, carVars, shmVars, doorVars, processVars
<1> QED BY <1>1, <1>2, <1>3 DEF Next

(* A floor that is received is in the shaft, because the controller has    *)
(* asked that before it put it in the queue.                               *)
LEMMA ShaftNext ==
  ASSUME RoomToOvershoot, FloorsInv(Stops), ShaftInv, [Next]_vars
  PROVE  ShaftInv'
<1>1. SharedTypeOK /\ PcTypeOK /\ CarTypeOK /\ inbox \in Seq(Wanted(Stops))
  BY DEF FloorsInv, CarInv, TalkInv
<1>2. CASE ProcessStep
  BY <1>1, <1>2, ShaftProcess
<1>3. CASE LinkStep
  <2>1. /\ UNCHANGED <<floordiff, i>>
        /\ pc'["process"] \in {pc["process"], "exited"}
        /\ UNCHANGED shm \/ TakesFloor
    BY <1>1, <1>3, LinkMoves DEF Thread, DoorThread
  <2>2. CASE TakesFloor
    <3>1. Head(inbox) \in LowestFloor .. HighestFloor
      BY <1>1, <2>2, HeadTailProperties DEF Wanted, TakesFloor
    <3>2. /\ shm'.current_floor = shm.current_floor
          /\ shm'.destination_floor \in {Head(inbox), shm.destination_floor}
      BY <1>1, <2>2, FloorReceived
    <3> QED BY <2>1, <3>1, <3>2, ShaftKept
  <2> QED BY <2>1, <2>2, ShaftKept
<1>4. CASE UNCHANGED <<shm, pc, floordiff, i, shm_send, read_flag>>
  BY <1>4, ShaftKept
<1> QED BY <1>2, <1>3, <1>4, StepOfCar

(* The car starts at its lowest floor.                                     *)
LEMMA ShaftInit == Init => ShaftInv
<1> HAVE Init
<1>1. /\ shm.current_floor = LowestFloor /\ shm.destination_floor = LowestFloor
      /\ pc["process"] = "start" /\ i = 0
  BY DEF Init, init_shared_data
<1>2. LowestFloor \in Label /\ HighestFloor \in Label /\ LowestFloor =< HighestFloor
  BY ShaftAssumption DEF ShaftAssumption
<1>3. InShaft /\ DestinationInShaft
  BY <1>1, <1>2 DEF InShaft, InBounds, DestinationInShaft, Overshoot, Position, Label
<1>4. TripInBounds
  BY <1>1 DEF TripInBounds, Driving
<1> QED BY <1>3, <1>4 DEF ShaftInv

(* The car stays in its shaft, whatever the pads ask for: what CarSystem   *)
(* takes for granted of the controller, that it sends floors of the shaft  *)
(* only, is what the controller does.                                      *)
THEOREM TripsInShaft == RoomToOvershoot => (Spec => []InShaft)
<1>1. ASSUME RoomToOvershoot PROVE Spec => []InShaft
  <2>1. ShaftInv /\ FloorsInv(Stops) /\ [Next]_vars => ShaftInv'
    BY <1>1, ShaftNext
  <2>2. ShaftInv => InShaft
    BY DEF ShaftInv
  <2> QED BY ShaftInit, FloorsAskedFor, <2>1, <2>2, PTL DEF Spec
<1> QED BY <1>1

-----------------------------------------------------------------------------
(* The doors.                                                              *)

(* A place in the shaft is that of one floor.                              *)
LEMMA PositionInjective ==
  ASSUME NEW f \in Label, NEW g \in Label, Position(f) = Position(g)
  PROVE  f = g
BY DEF Position, Label

(* On one side of the ground nothing overshoots: floor numbers differ by   *)
(* as much as the floors are apart.                                        *)
LEMMA TripExact ==
  ASSUME SameSide, NEW c \in Label, NEW d \in Label, InBounds(Position(c)),
         LowestFloor =< d, d =< HighestFloor
  PROVE  Position(c) + (d - c) = Position(d)
<1>1. LowestFloor \in Label /\ HighestFloor \in Label /\ LowestFloor =< HighestFloor
  BY ShaftAssumption DEF ShaftAssumption
<1>2. CASE LowestFloor > 0
  BY <1>1, <1>2 DEF InBounds, Overshoot, Position, Label
<1>3. CASE HighestFloor < 0
  BY <1>1, <1>3 DEF InBounds, Overshoot, Position, Label
<1> QED BY <1>2, <1>3 DEF SameSide

(* Such a shaft leaves no floor too many.                                  *)
LEMMA NoOvershoot == SameSide => RoomToOvershoot
<1>1. LowestFloor \in Label /\ HighestFloor \in Label /\ LowestFloor =< HighestFloor
  BY ShaftAssumption DEF ShaftAssumption
<1> QED BY <1>1 DEF SameSide, RoomToOvershoot, Overshoot, Label

(* What is a stop remains one when there are more.                         *)
LEMMA CourseGrows ==
  ASSUME NEW S, NEW T, S \subseteq T, OnCourse(S)
  PROVE  OnCourse(T)
<1>1. AtStop(T) /\ ToStop(T)
  BY DEF OnCourse, AtStop, ToStop
<1>2. TripToStop(T)
  <2>1. \A n : Ends(n, S) => Ends(n, T)
    BY DEF Ends
  <2> QED BY <2>1 DEF OnCourse, TripToStop
<1> QED BY <1>1, <1>2 DEF OnCourse

(* While the car drives nobody but its process thread writes the status.   *)
LEMMA MovesKept ==
  ASSUME CarInv, MovesBetween, [Next]_vars
  PROVE  MovesBetween'
<1>1. SharedTypeOK /\ PcTypeOK /\ CarTypeOK
  BY DEF CarInv
<1>2. CASE ProcessStep
  <2>1. CASE SetBetween
    <3>1. shm'.status = "Between"
      BY <1>1, <2>1, StatusKeeps DEF SetBetween, Status
    <3> QED BY <3>1 DEF MovesBetween
  <2>2. CASE ClearReadFlag
    <3>1. pc["process"] = "flag0" /\ shm' = shm
      BY <2>2 DEF ClearReadFlag, shmVars
    <3> QED BY <3>1 DEF MovesBetween
  <2>3. CASE MoveCurrent
    <3>1. pc["process"] = "move" /\ shm'.status = shm.status
      BY <1>1, <2>3, MoveKeeps DEF MoveCurrent
    <3> QED BY <3>1 DEF MovesBetween
  <2>4. CASE ~(SetBetween \/ ClearReadFlag \/ MoveCurrent)
    <3>1. pc'["process"] \notin {"flag0", "move", "set_closed"}
      <4>1. CASE StartProcess \/ ReadFloors \/ ClearSend
        BY <1>1, <4>1, ProcessGoto DEF StartProcess, ReadFloors, ClearSend
      <4>2. CASE CheckSend
        BY <1>1, <4>2, ProcessGoto DEF CheckSend, operate_door
      <4>3. CASE CheckMove
        BY <1>1, <4>3, ProcessGoto DEF CheckMove
      <4>4. CASE SetClosed
        BY <1>1, <4>4, ProcessGoto DEF SetClosed
      <4>5. CASE SetReadFlag
        BY <1>1, <4>5, ProcessGoto DEF SetReadFlag, Arrive, operate_door
      <4>6. CASE DoorStep("process", ProcessReturn)
        <5>1. pc'["process"] \in DoorPC \union {ProcessReturn}
          BY <1>1, <4>6, DoorStepKeeps DEF CarTypeOK, DoorThread
        <5> QED BY <5>1 DEF DoorPC, ProcessReturn
      <4> QED BY <1>2, <2>4, <4>1, <4>2, <4>3, <4>4, <4>5, <4>6 DEF ProcessStep
    <3> QED BY <3>1 DEF MovesBetween
  <2> QED BY <2>1, <2>2, <2>3, <2>4
<1>3. CASE LinkStep
  <2>1. pc'["process"] \in {pc["process"], "exited"}
    BY <1>1, <1>3, LinkMoves DEF Thread, DoorThread
  <2>2. shm'.status = shm.status
    BY <1>1, <1>3, LinkMoves, FloorReceived
  <2> QED BY <2>1, <2>2 DEF MovesBetween
<1>4. CASE UNCHANGED <<shm, pc, floordiff, i, shm_send, read_flag>>
  BY <1>4 DEF MovesBetween
<1> QED BY <1>2, <1>3, <1>4, StepOfCar

(* A FLOOR that is received names a stop; if the car stands where it was   *)
(* told to go it is about to move there or to open the doors, and then the *)
(* look at the floors is not outdated.  One that is dropped finds a car    *)
(* that was told a floor before.                                           *)
LEMMA CourseLink ==
  ASSUME NEW S, CarInv, inbox \in Seq(Wanted(S)), OnCourse(S),
         LinkStep, Observe, ~raced'
  PROVE  OnCourse(S)'
<1>1. SharedTypeOK /\ PcTypeOK /\ CarTypeOK
  BY DEF CarInv
<1>2. /\ UNCHANGED <<floordiff, i, read_flag>>
      /\ pc'["process"] \in {pc["process"], "exited"}
      /\ \/ UNCHANGED <<shm, shm_send>>
         \/ TakesFloor /\ pc'["tcp"] = "top"
      /\ pc'["process"] # pc["process"] => pc'["tcp"] = "exited"
  BY <1>1, LinkMoves DEF Thread, DoorThread
<1>3. pc["tcp"] # "exited"
  BY DEF LinkStep, Connect, Register, Top, TimeoutReport, TimeoutClosed, HeedFloor
<1>4. CASE UNCHANGED <<shm, shm_send>>
  <2>1. AtStop(S)' /\ HereStill'
    BY <1>2, <1>4 DEF OnCourse, AtStop, HereStill, DoorPC
  <2>2. ToStop(S)'
    BY <1>2, <1>3, <1>4 DEF OnCourse, ToStop, Untold, DoorPC, Driving
  <2>3. TripToStop(S)'
    <3>1. \A n : Ends(n, S)' <=> Ends(n, S)
      BY <1>2, <1>4 DEF Ends, TripEnd
    <3> QED BY <1>2, <3>1 DEF OnCourse, TripToStop
  <2> QED BY <2>1, <2>2, <2>3 DEF OnCourse
<1>5. CASE TakesFloor /\ pc'["tcp"] = "top"
  <2>1. /\ shm'.current_floor = shm.current_floor /\ shm'.status = shm.status
        /\ shm'.destination_floor =
             IF pc["tcp"] = "heed" THEN Head(inbox) ELSE shm.destination_floor
    BY <1>1, <1>5, FloorReceived
  <2>2. inbox # <<>> /\ Head(inbox) \in S
    <3>1. inbox # <<>>
      BY <1>5 DEF TakesFloor
    <3>2. Head(inbox) \in Wanted(S)
      BY <3>1, HeadTailProperties
    <3> QED BY <3>1, <3>2 DEF Wanted
  <2>3. AtStop(S)'
    BY <1>2, <2>1 DEF OnCourse, AtStop, DoorPC
  <2>4. ~Races
    <3>1. Len(inbox') < Len(inbox)
      <4>1. inbox' = Tail(inbox)
        BY <1>5 DEF TakesFloor
      <4>2. Len(inbox) \in Nat /\ Len(Tail(inbox)) = Len(inbox) - 1
        BY <2>2, HeadTailProperties, LenProperties
      <4>3. \A m \in Nat : m - 1 < m
        OBVIOUS
      <4>4. Len(Tail(inbox)) < Len(inbox)
        BY <4>2, <4>3, Zenon
      <4> QED BY <4>1, <4>4
    <3> QED BY <1>5, <3>1 DEF Observe, ReceivesFloor
  <2>5. ToStop(S)'
    <3>1. CASE pc["tcp"] = "heed"
      BY <2>1, <2>2, <3>1 DEF ToStop
    <3>2. CASE pc["tcp"] # "heed"
      <4>1. read_flag \in {0, 1} /\ read_flag # 1
        BY <1>1, <1>5, <3>2 DEF TakesFloor, CarTypeOK, Bit
      <4>2. ~Untold
        BY <1>3, <2>4, <4>1 DEF Untold, Races
      <4> QED BY <2>1, <3>2, <4>2 DEF OnCourse, ToStop
    <3> QED BY <3>1, <3>2
  <2>6. TripToStop(S)'
    <3>1. \A n : Ends(n, S)' <=> Ends(n, S)
      BY <1>2, <2>1 DEF Ends, TripEnd
    <3> QED BY <1>2, <3>1 DEF OnCourse, TripToStop
  <2>7. HereStill'
    BY <1>2, <2>4 DEF Races, HereStill
  <2> QED BY <2>3, <2>5, <2>6, <2>7 DEF OnCourse
<1> QED BY <1>2, <1>4, <1>5

(* The steps of the process thread, in the order of its loop: a trip that  *)
(* is started ends at a stop, and the doors are run there.                 *)
LEMMA CourseProcess ==
  ASSUME SameSide, NEW S, S \subseteq Label, CarInv, ShaftInv, MovesBetween,
         OnCourse(S), ProcessStep
  PROVE  OnCourse(S)'
<1>1. /\ SharedTypeOK /\ PcTypeOK /\ CarTypeOK
      /\ current_status \in [DoorThread -> DoorPhase] /\ "process" \in DoorThread
      /\ floordiff \in Int /\ i \in Nat /\ shm_send \in Bit
      /\ shm.current_floor \in Label /\ shm.destination_floor \in Label
      /\ shm.status \in Status
  BY DEF CarInv, CarTypeOK, SharedTypeOK, SharedData, DoorThread
<1>2. AtStop(S) /\ ToStop(S) /\ TripToStop(S) /\ HereStill
  BY DEF OnCourse
<1>3. InShaft /\ DestinationInShaft /\ TripInBounds
  BY DEF ShaftInv
<1>4. Position(shm.current_floor) \in Int /\ Abs(floordiff) \in Nat
  <2>1. \A label \in Label : Position(label) \in Int
    BY DEF Position, Label
  <2>2. \A n \in Int : Abs(n) \in Nat
    BY DEF Abs
  <2> QED BY <1>1, <2>1, <2>2
<1>5. ASSUME FloorsKept, UNCHANGED floordiff, NEW n \in Int
      PROVE  Ends(n, S)' <=> Ends(n, S)
  BY <1>5 DEF FloorsKept, Ends, TripEnd
<1>6. ~Untold => shm.destination_floor \in S
  BY <1>2 DEF ToStop
<1>7. ASSUME FloorsKept, shm.destination_floor \in S PROVE ToStop(S)'
  BY <1>7 DEF FloorsKept, ToStop
<1>8. CASE DoorStep("process", ProcessReturn) /\ UNCHANGED processVars
  <2>1. /\ FloorsKept /\ pc["process"] \in DoorPC
        /\ \/ pc'["process"] \in DoorPC
           \/ pc'["process"] = ProcessReturn /\ shm'.status = "Closed"
    BY <1>1, <1>8, DoorStepKeeps
  <2>2. shm.current_floor \in S /\ shm.destination_floor \in S
    BY <1>2, <1>6, <2>1 DEF AtStop, Untold
  <2>3. AtStop(S)' /\ ToStop(S)'
    BY <1>7, <2>1, <2>2 DEF AtStop, FloorsKept
  <2>4. TripToStop(S)' /\ HereStill'
    BY <2>1 DEF TripToStop, HereStill, DoorPC, ProcessReturn
  <2> QED BY <2>3, <2>4 DEF OnCourse
<1>9. CASE StartProcess
  <2>1. /\ UNCHANGED <<shm, floordiff, i, shm_send>> /\ read_flag' = 1
        /\ pc["process"] = "start" /\ pc'["process"] = "loop"
    BY <1>1, <1>9, ProcessGoto DEF StartProcess, shmVars
  <2>2. AtStop(S)' /\ TripToStop(S)' /\ HereStill'
    BY <1>2, <2>1 DEF AtStop, TripToStop, HereStill, DoorPC
  <2>3. ToStop(S)'
    BY <1>2, <2>1 DEF ToStop, Untold, Driving, DoorPC
  <2> QED BY <2>2, <2>3 DEF OnCourse
<1>10. CASE ReadFloors
  <2>1. /\ pc["process"] = "loop" /\ pc'["process"] = "check_send"
        /\ floordiff' = shm.destination_floor - shm.current_floor
        /\ UNCHANGED <<i, shm_send, read_flag>>
    BY <1>1, <1>10, ProcessGoto DEF ReadFloors
  <2>2. FloorsKept /\ shm'.status = shm.status
    <3>1. ~(shm.destination_floor > HighestFloor \/ shm.destination_floor < LowestFloor)
      <4>1. \A m, n \in Label : m =< n => ~(m > n)
        BY DEF Label
      <4> QED BY <1>1, <1>3, <4>1, ShaftAssumption DEF ShaftAssumption, DestinationInShaft
    <3> QED BY <1>1, <1>10, <3>1 DEF ReadFloors, SharedTypeOK, SharedData, FloorsKept
  <2>3. AtStop(S)'
    BY <1>2, <2>1, <2>2 DEF AtStop, DoorPC, FloorsKept
  <2>4. floordiff' = 0 <=> shm.destination_floor = shm.current_floor
    <3>1. \A f, g \in Label : f - g = 0 <=> f = g
      BY DEF Label
    <3> QED BY <1>1, <2>1, <3>1
  <2>5. ToStop(S)' /\ HereStill'
    <3>1. HereStill'
      BY <2>2, <2>4 DEF HereStill, FloorsKept
    <3>2. CASE Untold
      BY <2>1, <2>2, <2>4, <3>1, <3>2 DEF ToStop, Untold, FloorsKept, Driving, DoorPC
    <3> QED BY <1>6, <1>7, <2>2, <3>1, <3>2
  <2>6. TripToStop(S)'
    <3>1. ASSUME floordiff' # 0 PROVE Ends(Abs(floordiff) - i, S)'
      <4>1. shm.destination_floor \in S
        BY <1>6, <2>4, <3>1 DEF Untold
      <4>2. i' = 0
        BY <1>3, <2>1 DEF TripInBounds, Driving
      <4>3. TripEnd(Abs(floordiff) - i)' =
              Position(shm.current_floor) + (shm.destination_floor - shm.current_floor)
        BY <1>1, <1>4, <2>1, <2>2, <4>2 DEF TripEnd, Abs, Label, FloorsKept
      <4>4. @ = Position(shm.destination_floor)
        BY <1>1, <1>3, TripExact DEF InShaft, DestinationInShaft
      <4> QED BY <4>1, <4>3, <4>4 DEF Ends
    <3> QED BY <2>1, <3>1 DEF TripToStop
  <2> QED BY <2>3, <2>5, <2>6 DEF OnCourse
<1>11. CASE CheckSend
  <2>1. /\ FloorsKept /\ UNCHANGED <<shm, floordiff, i, shm_send, read_flag>>
        /\ pc["process"] = "check_send"
    BY <1>11 DEF CheckSend, shmVars, processVars, FloorsKept
  <2>2. \/ pc'["process"] = "check" /\ shm_send = 1 /\ floordiff = 0
        \/ pc'["process"] = "check_move"
    <3>1. \/ Goto("process", "check") /\ shm_send = 1 /\ floordiff = 0
          \/ Goto("process", "check_move")
      BY <1>11 DEF CheckSend, operate_door
    <3> QED BY <1>1, <3>1, ProcessGoto
  <2>3. CASE pc'["process"] = "check" /\ shm_send = 1 /\ floordiff = 0
    <3>1. shm.destination_floor \in S /\ shm.current_floor \in S
      BY <1>2, <1>6, <2>1, <2>3 DEF HereStill, Untold
    <3>2. AtStop(S)' /\ ToStop(S)'
      BY <1>7, <2>1, <3>1 DEF AtStop
    <3>3. TripToStop(S)' /\ HereStill'
      BY <2>3 DEF TripToStop, HereStill
    <3> QED BY <3>2, <3>3 DEF OnCourse
  <2>4. CASE pc'["process"] = "check_move"
    <3>1. AtStop(S)' /\ HereStill'
      BY <1>2, <2>1, <2>4 DEF AtStop, HereStill, DoorPC
    <3>2. ToStop(S)'
      BY <1>2, <2>1, <2>4 DEF ToStop, Untold, Driving, DoorPC
    <3>3. TripToStop(S)'
      BY <1>1, <1>2, <1>4, <1>5, <2>1, <2>4 DEF TripToStop
    <3> QED BY <3>1, <3>2, <3>3 DEF OnCourse
  <2> QED BY <2>2, <2>3, <2>4
<1>12. CASE ClearSend
  <2>1. /\ UNCHANGED <<shm, floordiff, i, read_flag>> /\ shm_send' = 0
        /\ pc["process"] = "unsend" /\ pc'["process"] = "check_move"
    BY <1>1, <1>12, ProcessGoto DEF ClearSend, SendServed, shmVars
  <2>2. floordiff = 0
    BY <1>3, <2>1 DEF TripInBounds
  <2>3. AtStop(S)' /\ TripToStop(S)' /\ HereStill'
    BY <1>2, <2>1, <2>2 DEF AtStop, TripToStop, HereStill, DoorPC
  <2>4. ToStop(S)'
    BY <1>2, <2>1 DEF ToStop, Untold, Driving, DoorPC
  <2> QED BY <2>3, <2>4 DEF OnCourse
<1>13. CASE CheckMove
  <2>1. /\ FloorsKept /\ UNCHANGED <<shm, floordiff, i, shm_send, read_flag>>
        /\ pc["process"] = "check_move"
    BY <1>13 DEF CheckMove, shmVars, processVars, FloorsKept
  <2>2. pc'["process"] = "loop" \/ (pc'["process"] = "between" /\ floordiff # 0)
    <3>1. Goto("process", "loop") \/ (Goto("process", "between") /\ floordiff # 0)
      BY <1>13 DEF CheckMove
    <3> QED BY <1>1, <3>1, ProcessGoto
  <2>3. AtStop(S)' /\ HereStill'
    BY <1>2, <2>1, <2>2 DEF AtStop, HereStill, DoorPC
  <2>4. ToStop(S)'
    BY <1>2, <2>1, <2>2 DEF ToStop, Untold, Driving, DoorPC
  <2>5. TripToStop(S)'
    BY <1>1, <1>2, <1>4, <1>5, <2>1, <2>2 DEF TripToStop
  <2> QED BY <2>3, <2>4, <2>5 DEF OnCourse
<1>14. CASE pc["process"] \in Driving /\ ~MoveCurrent /\ ~SetReadFlag
  <2>1. shm.destination_floor \in S
    BY <1>6, <1>14 DEF Untold
  <2>2. /\ FloorsKept /\ UNCHANGED <<floordiff, i>>
        /\ \/ pc["process"] \in {"between", "flag0"} /\ pc'["process"] \in {"flag0", "move"}
           \/ pc["process"] = "set_closed" /\ pc'["process"] = "flag1"
        /\ shm'.status \in {"Between", "Closed", shm.status}
    <3>1. CASE SetBetween
      BY <1>1, <3>1, ProcessGoto, StatusKeeps DEF SetBetween, processVars, Status
    <3>2. CASE ClearReadFlag
      BY <1>1, <3>2, ProcessGoto DEF ClearReadFlag, shmVars, FloorsKept
    <3>3. CASE SetClosed
      BY <1>1, <3>3, ProcessGoto, StatusKeeps DEF SetClosed, processVars, Status
    <3>4. ~(StartProcess \/ ReadFloors \/ CheckSend \/ ClearSend \/ CheckMove)
      BY <1>14 DEF Driving, StartProcess, ReadFloors, CheckSend, ClearSend, CheckMove
    <3>5. ~DoorStep("process", ProcessReturn)
      <4>1. DoorStep("process", ProcessReturn) => pc["process"] \in DoorPC
        BY <1>1, DoorStepKeeps
      <4> QED BY <1>14, <4>1 DEF Driving, DoorPC
    <3> QED BY <1>14, <3>1, <3>2, <3>3, <3>4, <3>5 DEF ProcessStep
  <2>3. AtStop(S)'
    BY <1>2, <2>2 DEF AtStop, FloorsKept, DoorPC
  <2>4. ToStop(S)' /\ HereStill'
    BY <1>7, <2>1, <2>2 DEF HereStill
  <2>5. TripToStop(S)'
    <3>1. /\ Ends(Abs(floordiff) - i, S)' <=> Ends(Abs(floordiff) - i, S)
          /\ Ends(Abs(floordiff) - i - 1, S)' <=> Ends(Abs(floordiff) - i - 1, S)
      BY <1>1, <1>4, <1>5, <2>2
    <3> QED BY <1>2, <2>2, <3>1 DEF TripToStop
  <2> QED BY <2>3, <2>4, <2>5 DEF OnCourse
<1>15. CASE MoveCurrent
  <2> DEFINE d == IF floordiff > 0 THEN 1 ELSE -1
             n == Abs(floordiff) - i
  <2>1. pc["process"] = "move" /\ pc'["process"] = "set_closed" /\ UNCHANGED <<floordiff, i>>
    BY <1>1, <1>15, ProcessGoto DEF MoveCurrent, processVars
  <2>2. i < Abs(floordiff) /\ InBounds(TripEnd(n)) /\ Ends(n, S)
    BY <1>2, <1>3, <2>1 DEF TripInBounds, TripToStop, Driving
  <2>3. n \in Nat /\ n >= 1 /\ d \in {-1, 1}
    BY <1>1, <1>4, <2>2
  <2>4. TripEnd(n) = Position(shm.current_floor) + (IF d = 1 THEN n ELSE -n)
    BY DEF TripEnd
  <2>5. /\ shm'.current_floor = Moved(shm.current_floor, d)
        /\ shm'.destination_floor = shm.destination_floor
        /\ shm'.status = "Between"
    BY <1>1, <1>15, <2>1, <2>3, MoveKeeps DEF MoveCurrent, MovesBetween
  <2>6. Position(shm'.current_floor) = Position(shm.current_floor) + d
    BY <1>1, <1>3, <2>2, <2>3, <2>4, <2>5, OneFloorOn, NoOvershoot DEF InShaft
  <2>7. TripEnd(Abs(floordiff) - i - 1)' = TripEnd(n)
    <3>1. Position(shm.current_floor)' = Position(shm.current_floor) + d
      BY <2>6
    <3> QED BY <1>1, <1>4, <2>1, <2>3, <3>1 DEF TripEnd
  <2>8. TripToStop(S)' /\ AtStop(S)' /\ HereStill'
    BY <2>1, <2>2, <2>5, <2>7 DEF TripToStop, Ends, AtStop, HereStill, DoorPC
  <2>9. ToStop(S)'
    BY <1>6, <2>1, <2>5 DEF ToStop, Untold, Driving
  <2> QED BY <2>8, <2>9 DEF OnCourse
<1>16. CASE SetReadFlag
  <2>1. /\ FloorsKept /\ UNCHANGED <<shm, floordiff>>
        /\ pc["process"] = "flag1" /\ shm.destination_floor \in S
    BY <1>6, <1>16 DEF SetReadFlag, shmVars, FloorsKept, Untold, Driving
  <2>2. \/ MoreFloors /\ i' = i + 1 /\ pc'["process"] = "between"
        \/ ~MoreFloors /\ i' = 0 /\ pc'["process"] = "check"
    <3>1. \/ MoreFloors /\ i' = i + 1 /\ Goto("process", "between")
          \/ ~MoreFloors /\ i' = 0 /\ Goto("process", "check")
      BY <1>16 DEF SetReadFlag, Arrive, operate_door
    <3> QED BY <1>1, <3>1, ProcessGoto
  <2>3. Ends(Abs(floordiff) - i - 1, S) /\ i < Abs(floordiff)
    BY <1>2, <1>3, <2>1 DEF TripToStop, TripInBounds, Driving
  <2>4. ToStop(S)' /\ HereStill'
    BY <1>7, <2>1, <2>2 DEF HereStill
  <2>5. CASE i' = i + 1 /\ pc'["process"] = "between"
    <3>1. TripEnd(Abs(floordiff) - i)' = TripEnd(Abs(floordiff) - i - 1)
      BY <1>1, <1>4, <2>1, <2>5 DEF TripEnd, FloorsKept
    <3>2. TripToStop(S)' /\ AtStop(S)'
      BY <1>2, <2>1, <2>3, <2>5, <3>1 DEF TripToStop, Ends, AtStop, DoorPC
    <3> QED BY <2>4, <3>2 DEF OnCourse
  <2>6. CASE ~MoreFloors /\ pc'["process"] = "check"
    <3>1. Abs(floordiff) - i - 1 = 0
      BY <1>1, <1>4, <2>3, <2>6 DEF MoreFloors
    <3>2. PICK f \in S : TripEnd(0) = Position(f)
      BY <2>3, <3>1 DEF Ends
    <3>3. Position(shm.current_floor) = Position(f)
      BY <1>4, <3>2 DEF TripEnd
    <3>4. shm.current_floor \in S
      BY <1>1, <3>3, PositionInjective
    <3>5. AtStop(S)' /\ TripToStop(S)'
      BY <2>1, <2>6, <3>4 DEF AtStop, TripToStop
    <3> QED BY <2>4, <3>5 DEF OnCourse
  <2> QED BY <2>2, <2>5, <2>6
<1>17. (SetBetween \/ ClearReadFlag \/ SetClosed) => pc["process"] \in Driving
  BY DEF SetBetween, ClearReadFlag, SetClosed, Driving
<1> QED BY <1>8, <1>9, <1>10, <1>11, <1>12, <1>13, <1>14, <1>15, <1>16, <1>17
        DEF ProcessStep

(* Once a FLOOR has raced, that is remembered.                             *)
LEMMA RaceKept ==
  ASSUME [Next]_vars, ~raced'
  PROVE  ~raced
BY DEF Next, Observe, vars

(* Whatever the step, the car is on its course after it.                   *)
LEMMA CourseNext ==
  ASSUME SameSide, FloorsInv(Stops), ShaftInv, CourseInv(Stops), [Next]_vars
  PROVE  CourseInv(Stops)'
<1>1. PICK T : T = Stops'
  OBVIOUS
<1>2. Stops \subseteq T /\ T \subseteq Label
  BY <1>1, StopsGrow
<1>3. CarInv /\ inbox \in Seq(Wanted(T))
  BY <1>2, TalkGrows DEF FloorsInv, TalkInv
<1>4. MovesBetween'
  BY <1>3, MovesKept DEF CourseInv
<1>5. ASSUME ~raced' PROVE OnCourse(T)'
  <2>1. OnCourse(T)
    BY <1>2, <1>5, RaceKept, CourseGrows DEF CourseInv
  <2>2. CASE ProcessStep
    BY <1>2, <1>3, <2>1, <2>2, CourseProcess DEF CourseInv
  <2>3. CASE LinkStep /\ Observe
    BY <1>3, <1>5, <2>1, <2>3, CourseLink
  <2>4. CASE UNCHANGED <<shm, pc, floordiff, i, shm_send, read_flag>>
    <3>1. AtStop(T)' /\ ToStop(T)' /\ HereStill'
      BY <2>1, <2>4 DEF OnCourse, AtStop, ToStop, Untold, HereStill
    <3>2. TripToStop(T)'
      BY <2>1, <2>4 DEF OnCourse, TripToStop, Ends, TripEnd
    <3> QED BY <3>1, <3>2 DEF OnCourse
  <2> QED BY <2>2, <2>3, <2>4, StepOfCar
<1>6. CourseInv(T)'
  BY <1>4, <1>5 DEF CourseInv
<1> QED BY <1>1, <1>6

(* The car starts where it was never told to go away from.                 *)
LEMMA CourseInit == Init => CourseInv(Stops)
<1> HAVE Init
<1>1. /\ shm.current_floor = shm.destination_floor /\ shm.status = "Closed"
      /\ pc["process"] = "start" /\ floordiff = 0 /\ shm_send = 0
  BY DEF Init, init_shared_data
<1>2. MovesBetween /\ AtStop(Stops) /\ HereStill /\ TripToStop(Stops)
  BY <1>1 DEF MovesBetween, AtStop, HereStill, TripToStop, DoorPC
<1>3. ToStop(Stops)
  BY <1>1 DEF ToStop, Untold, Driving, DoorPC
<1> QED BY <1>2, <1>3 DEF CourseInv, OnCourse

(* The doors open only where a passenger waits or wants to go, for any     *)
(* number of passengers, unless a FLOOR raced, that is, came before the    *)
(* process thread had started and was dropped, or came while that thread   *)
(* had read the floors and not yet shm_send: in a shaft on one side of the *)
(* ground, because in one that crosses it the car opens one floor too far. *)
THEOREM OpensSafe == SameSide => (Spec => []OpensOnlyAtStops)
<1>1. ASSUME SameSide PROVE Spec => []OpensOnlyAtStops
  <2>1. RoomToOvershoot
    BY <1>1, NoOvershoot
  <2>2. ShaftInv /\ FloorsInv(Stops) /\ [Next]_vars => ShaftInv'
    BY <2>1, ShaftNext
  <2>3. CourseInv(Stops) /\ ShaftInv /\ FloorsInv(Stops) /\ [Next]_vars => CourseInv(Stops)'
    BY <1>1, CourseNext
  <2>4. CourseInv(Stops) => OpensOnlyAtStops
    BY DEF CourseInv, OnCourse, AtStop, OpensOnlyAtStops
  <2> QED BY ShaftInit, CourseInit, FloorsAskedFor, <2>2, <2>3, <2>4, PTL DEF Spec
<1> QED BY <1>1

=============================================================================
