--------------------------- MODULE ListingProofs ---------------------------
(***************************************************************************)
(* A car that is connected and was registered is in the list with its own  *)
(* socket, for any number of cars, pads and connections.                   *)
(*                                                                         *)
(* The list alone does not say so: an entry that is removed is found by a  *)
(* name, and so may be another's.  What saves the car is an order.  Its    *)
(* own entry is the last of its name and the one removed is the first, and *)
(* its own is the last because a car has one connection at a time, its     *)
(* registration is the first message on it, and what the connection before *)
(* it sent is handled in an earlier round.                                 *)
(***************************************************************************)
EXTENDS ControllerProofs

Registers(messages) == 1 \in DOMAIN messages /\ messages[1].kind = "CAR"

(* A client has one connection, accepted or in line, and a pad has none    *)
(* before it calls and after it was answered.                              *)
OneSocket ==
  \A s, t \in Sockets : net.peer[s] = net.peer[t] /\ net.peer[s] # Nobody => s = t

OneInLine ==
  \A i \in DOMAIN net.backlog :
    /\ \A s \in Sockets : net.peer[s] # net.backlog[i].client
    /\ \A j \in DOMAIN net.backlog :
         net.backlog[i].client = net.backlog[j].client => i = j

PadsTyped ==
  pad \in [Pads -> [phase  : {"idle", "waiting", "done"},
                   call   : (Label \X Label) \union {<<>>},
                   answer : Replies \union {NoAnswer}]]

PadsAbsent == \A p \in Pads : pad[p].phase # "waiting" => Absent(p)

(* A registration is the first message of a connection and of its client.  *)
RegistersFirst ==
  \A s \in Sockets : \A k \in DOMAIN net.to[s] :
    net.to[s][k].kind = "CAR" =>
      /\ k = 1 /\ net.link[s] # "free"
      /\ net.peer[s] \in {Nobody, net.to[s][k].name}

LineRegistersFirst ==
  \A i \in DOMAIN net.backlog :
    LET b == net.backlog[i]
    IN  /\ b.client \in Cars => Registers(b.messages)
        /\ \A k \in DOMAIN b.messages :
             b.messages[k].kind = "CAR" => k = 1 /\ b.client = b.messages[k].name

(* A registration that waits on s while its car holds another socket t is  *)
(* of the round that goes on, and that of t of the next.                   *)
InOrder ==
  \A s, t \in Sockets :
    Registers(net.to[s]) /\ net.peer[t] = net.to[s][1].name /\ s # t =>
      s \in net.ready /\ t \notin net.ready /\ Registers(net.to[t])

(* The last entry of car c in the list is that of socket t.                *)
LastOn(list, c, t) ==
  \E k \in DOMAIN list :
    /\ list[k].name = c /\ list[k].connectionsocket = t
    /\ \A j \in DOMAIN list :
         list[j].name = c /\ list[j].connectionsocket # t => j < k

LiveListed ==
  \A t \in Sockets :
    net.peer[t] \in Cars => Registers(net.to[t]) \/ LastOn(cars, net.peer[t], t)

Ordered == OneSocket /\ OneInLine /\ RegistersFirst /\ LineRegistersFirst /\ InOrder

ListInv == Ordered /\ LiveListed

-----------------------------------------------------------------------------
(* Turns of the controller.                                                *)

(* What a turn of socket s does to the connections: a registration that    *)
(* was received is gone, and of the others none but the dead are touched.  *)
TurnOf(s) ==
  /\ net'.peer = net.peer /\ net'.backlog = net.backlog
  /\ net'.ready = net.ready \ {s}
  /\ \A t \in Sockets \ {s} :
       net'.to[t] = net.to[t] \/ (net.peer[t] = Nobody /\ net'.to[t] = <<>>)
  /\ \A k \in DOMAIN net'.to[s] : net'.to[s][k].kind # "CAR"
  /\ \A t \in Sockets :
       net'.link[t] = "free" => net.link[t] = "free" \/ net'.to[t] = <<>>

(* A car message names a car.                                              *)
LEMMA RegistrationsNameCars ==
  ASSUME NEW q \in Seq(Messages), Registers(q)
  PROVE  q[1].name \in Cars
<1>1. q[1] \in Messages
  BY LenProperties, ElementOfSeq DEF Registers
<1>2. PICK c \in Cars : q[1] = CarMessage(c, Shaft[c][1], Shaft[c][2])
  BY <1>1 DEF Registers, Messages, CallMessages, CarMessages, StatusMessages, EmergencyMessage
<1> QED BY <1>2 DEF CarMessage

(* Past the first message there is no registration.                        *)
LEMMA TailRegistersNot ==
  ASSUME TypeInv, RegistersFirst, NEW s \in Sockets, net.to[s] # <<>>
  PROVE  \A k \in DOMAIN Tail(net.to[s]) : Tail(net.to[s])[k].kind # "CAR"
<1> DEFINE q == net.to[s]
<1>1. q \in Seq(Messages)
  BY DEF TypeInv, Sound, Nets, NetsOf
<1>2. /\ Tail(q) \in Seq(Messages) /\ Len(Tail(q)) = Len(q) - 1
      /\ \A k \in 1 .. Len(Tail(q)) : Tail(q)[k] = q[k + 1]
  BY <1>1, HeadTailProperties
<1>3. /\ DOMAIN q = 1 .. Len(q) /\ Len(q) \in Nat
      /\ DOMAIN Tail(q) = 1 .. Len(Tail(q))
  BY <1>1, <1>2, LenProperties
<1>4. \A k \in DOMAIN q : q[k].kind = "CAR" => k = 1
  BY DEF RegistersFirst
<1> HIDE DEF q
<1>5. ASSUME NEW k \in DOMAIN Tail(q) PROVE Tail(q)[k].kind # "CAR"
  <2>1. k + 1 \in DOMAIN q /\ k + 1 # 1 /\ Tail(q)[k] = q[k + 1]
    BY <1>2, <1>3
  <2> QED BY <2>1, <1>4
<1> QED BY <1>5 DEF q

(* A message is received and perhaps answered.                             *)
LEMMA MessageTurn ==
  ASSUME TypeInv, RegistersFirst, NEW s \in Sockets, net.to[s] # <<>>,
         OnlyReplies(Received(s), net'), TypeInv'
  PROVE  TurnOf(s)
<1> DEFINE n == Received(s)
<1>1. /\ n.peer = net.peer /\ n.backlog = net.backlog /\ n.link = net.link
      /\ n.ready = net.ready \ {s}
      /\ n.to = [net.to EXCEPT ![s] = Tail(net.to[s])]
  BY DEF Received, Served, TypeInv, Sound, Nets, NetsOf
<1>2. \A k \in DOMAIN Tail(net.to[s]) : Tail(net.to[s])[k].kind # "CAR"
  BY TailRegistersNot
<1>3. net.to \in [Sockets -> Seq(Messages)]
  BY DEF TypeInv, Sound, Nets, NetsOf
<1>4. n.to[s] = Tail(net.to[s]) /\ \A t \in Sockets \ {s} : n.to[t] = net.to[t]
  BY <1>1, <1>3
<1> HIDE DEF n
<1>5. \A k \in DOMAIN net'.to[s] : net'.to[s][k].kind # "CAR"
  <2>1. net'.to[s] = n.to[s] \/ net'.to[s] = <<>>
    BY DEF OnlyReplies, n
  <2>2. CASE net'.to[s] = <<>>
    BY <2>2
  <2>3. CASE net'.to[s] = Tail(net.to[s])
    BY <2>3, <1>2
  <2> QED BY <2>1, <2>2, <2>3, <1>4
<1> QED BY <1>1, <1>4, <1>5 DEF OnlyReplies, TurnOf, n

(* The end of a connection.                                                *)
LEMMA ClosingTurn ==
  ASSUME TypeInv, NEW s \in Sockets, net' = Closed(Served(s), s)
  PROVE  TurnOf(s)
BY DEF Closed, Served, TypeInv, Sound, Nets, NetsOf, TurnOf

(* Registrations stay first, and in the order of their connections.        *)
LEMMA TurnOrdered ==
  ASSUME TypeInv, Ordered, NEW s \in net.ready, s \in Sockets, TurnOf(s)
  PROVE  Ordered'
<1> USE DEF Ordered
<1>1. OneSocket' /\ OneInLine' /\ LineRegistersFirst'
  BY DEF TurnOf, OneSocket, OneInLine, LineRegistersFirst, Registers
<1>2. RegistersFirst'
  <2> SUFFICES ASSUME NEW t \in Sockets, NEW k \in DOMAIN net'.to[t],
                      net'.to[t][k].kind = "CAR"
               PROVE  /\ k = 1 /\ net'.link[t] # "free"
                      /\ net'.peer[t] \in {Nobody, net'.to[t][k].name}
    BY DEF RegistersFirst
  <2>1. t # s /\ net'.to[t] # <<>> /\ net'.to[t] = net.to[t]
    BY DEF TurnOf
  <2>2. net'.peer[t] = net.peer[t] /\ (net'.link[t] = "free" => net.link[t] = "free")
    BY <2>1 DEF TurnOf
  <2> QED BY <2>1, <2>2 DEF RegistersFirst
<1>3. InOrder'
  <2> SUFFICES ASSUME NEW r \in Sockets, NEW t \in Sockets, r # t,
                      Registers(net'.to[r]), net'.peer[t] = net'.to[r][1].name
               PROVE  /\ r \in net'.ready /\ t \notin net'.ready
                      /\ Registers(net'.to[t])
    BY DEF InOrder, Registers
  <2>1. r # s /\ net'.to[r] = net.to[r]
    BY DEF TurnOf, Registers
  <2>2. net.peer[t] = net.to[r][1].name /\ Registers(net.to[r])
    BY <2>1 DEF TurnOf
  <2>3. r \in net.ready /\ t \notin net.ready /\ Registers(net.to[t])
    BY <2>2 DEF InOrder
  <2>4. net.peer[t] # Nobody
    <3>1. net.to[r][1].name \in Cars
      BY <2>2, RegistrationsNameCars DEF TypeInv, Sound, Nets, NetsOf
    <3> QED BY <3>1, <2>2, ClientsAssumption DEF ClientsAssumption
  <2>5. net'.to[t] = net.to[t]
    BY <2>3, <2>4 DEF TurnOf
  <2> QED BY <2>1, <2>3, <2>5 DEF TurnOf
<1> QED BY <1>1, <1>2, <1>3

(* A turn that keeps the names and sockets of the list.                    *)
LEMMA TurnListed ==
  ASSUME TypeInv, ListInv, NEW s \in net.ready, s \in Sockets, TurnOf(s),
         ~Registers(net.to[s]), SameEntries
  PROVE  ListInv'
<1>1. LiveListed'
  <2> SUFFICES ASSUME NEW t \in Sockets, net'.peer[t] \in Cars, ~Registers(net'.to[t])
               PROVE  LastOn(cars', net'.peer[t], t)
    BY DEF LiveListed, Registers
  <2>1. net'.peer[t] = net.peer[t] /\ net.peer[t] # Nobody
    BY ClientsAssumption DEF ClientsAssumption, TurnOf
  <2>2. ~Registers(net.to[t])
    BY <2>1 DEF TurnOf
  <2>3. LastOn(cars, net.peer[t], t)
    BY <2>1, <2>2 DEF ListInv, LiveListed
  <2> QED BY <2>1, <2>3 DEF LastOn, SameEntries
<1> QED BY <1>1, TurnOrdered DEF ListInv

(* A registration puts the entry of its socket last.                       *)
LEMMA RegistrationListed ==
  ASSUME TypeInv, ListInv, NEW s \in net.ready, s \in Sockets, TurnOf(s), HandleCar(s)
  PROVE  ListInv'
<1> DEFINE c == net.to[s][1].name
           N == Len(cars) + 1
<1>1. Registers(net.to[s])
  BY LenProperties DEF HandleCar, Arrived, Registers, TypeInv, Sound, Nets, NetsOf
<1>2. PICK e : /\ cars' = Append(cars, e)
               /\ e.name = c /\ e.connectionsocket = s
  <2>1. PICK stack \in StackCars : cars' = Append(cars, NewCar(Head(net.to[s]), s, stack))
    BY DEF HandleCar
  <2>2. Head(net.to[s]) = net.to[s][1]
    BY DEF HandleCar, Arrived, TypeInv, Sound, Nets, NetsOf
  <2>3. /\ NewCar(Head(net.to[s]), s, stack).name = c
        /\ NewCar(Head(net.to[s]), s, stack).connectionsocket = s
    BY <2>2 DEF NewCar
  <2> QED BY <2>1, <2>3
<1>3. /\ DOMAIN cars = 1 .. N - 1 /\ DOMAIN cars' = 1 .. N /\ N \in Nat
      /\ cars'[N] = e /\ \A j \in 1 .. N - 1 : cars'[j] = cars[j]
  <2>1. cars \in Seq(Entries \union {e}) /\ Len(cars) \in Nat
    BY ElementOfSeq, LenProperties DEF TypeInv
  <2> QED BY <1>2, <2>1, AppendProperties, LenProperties
<1>4. ASSUME NEW t \in Sockets, net'.peer[t] \in Cars, ~Registers(net'.to[t])
      PROVE  LastOn(cars', net'.peer[t], t)
  <2> DEFINE d == net.peer[t]
  <2>1. net'.peer[t] = d /\ d # Nobody
    BY <1>4, ClientsAssumption DEF ClientsAssumption, TurnOf
  <2>2. CASE t = s
    <3>1. d = c
      BY <1>1, <2>1, <2>2 DEF ListInv, Ordered, RegistersFirst, Registers
    <3> HIDE DEF c, N
    <3>2. \A j \in DOMAIN cars' :
            cars'[j].name = c /\ cars'[j].connectionsocket # s => j < N
      BY <1>2, <1>3
    <3>3. N \in DOMAIN cars' /\ cars'[N].name = c /\ cars'[N].connectionsocket = s
      BY <1>2, <1>3
    <3> QED BY <2>1, <2>2, <3>1, <3>2, <3>3 DEF LastOn
  <2>3. CASE t # s
    <3>1. ~Registers(net.to[t])
      BY <1>4, <2>1, <2>3 DEF TurnOf
    <3>2. d # c
      BY <1>1, <2>3, <3>1 DEF ListInv, Ordered, InOrder
    <3>3. LastOn(cars, d, t)
      BY <1>4, <2>1, <3>1 DEF ListInv, LiveListed
    <3> HIDE DEF c, N, d
    <3>4. PICK k \in DOMAIN cars :
            /\ cars[k].name = d /\ cars[k].connectionsocket = t
            /\ \A j \in DOMAIN cars :
                 cars[j].name = d /\ cars[j].connectionsocket # t => j < k
      BY <3>3 DEF LastOn
    <3>5. k \in DOMAIN cars' /\ cars'[k] = cars[k]
      BY <1>3, <3>4
    <3>6. \A j \in DOMAIN cars' :
            cars'[j].name = d /\ cars'[j].connectionsocket # t => j < k
      BY <1>2, <1>3, <3>2, <3>4
    <3> QED BY <2>1, <3>4, <3>5, <3>6 DEF LastOn
  <2> QED BY <2>2, <2>3
<1>5. LiveListed'
  BY <1>4 DEF LiveListed, Registers
<1> QED BY <1>5, TurnOrdered DEF ListInv

(* An entry that is removed and is not after the last one of another       *)
(* socket leaves that one the last.                                        *)
LEMMA LastOnRemains ==
  ASSUME NEW S, NEW list \in Seq(S), NEW r \in 1 .. Len(list), NEW d, NEW t,
         LastOn(list, d, t),
         list[r].name # d \/ (\E o \in DOMAIN list :
                                r =< o /\ list[o].name = d /\ list[o].connectionsocket # t)
  PROVE  LastOn(RemoveAt(list, r), d, t)
<1> DEFINE new == RemoveAt(list, r)
<1>1. DOMAIN list = 1 .. Len(list) /\ Len(list) \in Nat
  BY LenProperties
<1>2. PICK k \in DOMAIN list :
        /\ list[k].name = d /\ list[k].connectionsocket = t
        /\ \A j \in DOMAIN list :
             list[j].name = d /\ list[j].connectionsocket # t => j < k
  BY DEF LastOn
<1>3. /\ DOMAIN new = 1 .. Len(list) - 1
      /\ \A j \in 1 .. Len(list) - 1 : new[j] = IF j < r THEN list[j] ELSE list[j + 1]
  <2>1. /\ new \in Seq(S) /\ Len(new) = Len(list) - 1
        /\ \A j \in 1 .. Len(list) - 1 : new[j] = IF j < r THEN list[j] ELSE list[j + 1]
    BY RemovedAt
  <2> HIDE DEF new
  <2>2. DOMAIN new = 1 .. Len(new)
    BY <2>1, LenProperties
  <2> QED BY <2>1, <2>2
<1> HIDE DEF new
<1>4. k # r
  <2>1. CASE list[r].name # d
    BY <1>2, <2>1
  <2>2. CASE \E o \in DOMAIN list :
               r =< o /\ list[o].name = d /\ list[o].connectionsocket # t
    BY <1>1, <1>2, <2>2
  <2> QED BY <2>1, <2>2
<1> DEFINE k2 == IF k < r THEN k ELSE k - 1
<1>5. k2 \in DOMAIN new /\ new[k2] = list[k]
  BY <1>1, <1>2, <1>3, <1>4
<1>6. ASSUME NEW j \in DOMAIN new, new[j].name = d, new[j].connectionsocket # t
      PROVE  j < k2
  <2> DEFINE i == IF j < r THEN j ELSE j + 1
  <2>1. i \in DOMAIN list /\ new[j] = list[i] /\ i # r
    BY <1>1, <1>3
  <2>2. i < k
    BY <1>2, <1>6, <2>1
  <2> QED BY <1>1, <1>2, <1>3, <1>4, <2>2
<1> HIDE DEF k2
<1> QED BY <1>2, <1>5, <1>6 DEF LastOn, new

(* A connection ends, in order or not.                                     *)
LEMMA EndListed ==
  ASSUME TypeInv, ListInv, NEW s \in Sockets, HandleHangUp(s) \/ HandleError(s)
  PROVE  ListInv'
<1>1. /\ s \in net.ready /\ net' = Closed(Served(s), s)
      /\ net.to[s] = <<>> /\ net.peer[s] = Nobody
  BY DEF HandleHangUp, HandleError, Turn, TypeInv, Sound, PeersOpenIn
<1>2. TurnOf(s)
  BY <1>1, ClosingTurn
<1>3. CASE UNCHANGED cars
  BY <1>1, <1>2, <1>3, TurnListed DEF SameEntries, Registers
<1>4. CASE HandleHangUp(s) /\ OnSocket(s) # {}
  <2> DEFINE o == Min(OnSocket(s))
             r == Min(Named(cars[o].name))
  <2>1. o \in DOMAIN cars /\ cars[o].connectionsocket = s
    BY <1>4, FirstOnSocket DEF TypeInv
  <2>2. r \in 1 .. Len(cars) /\ cars[r].name = cars[o].name /\ r =< o
    BY <2>1, FirstOfName, LenProperties DEF TypeInv
  <2>3. cars' = RemoveAt(cars, r)
    BY <1>4 DEF HandleHangUp, controller_remove_by_name, controller_get_name_by_socket, RemovedFirst
  <2> HIDE DEF o, r
  <2>4. ASSUME NEW t \in Sockets, net'.peer[t] \in Cars, ~Registers(net'.to[t])
        PROVE  LastOn(cars', net'.peer[t], t)
    <3>1. net'.peer[t] = net.peer[t] /\ net.peer[t] # Nobody
      BY <1>2, <2>4, ClientsAssumption DEF ClientsAssumption, TurnOf
    <3>2. t # s /\ ~Registers(net.to[t])
      BY <1>1, <1>2, <2>4, <3>1 DEF TurnOf
    <3>3. LastOn(cars, net.peer[t], t)
      BY <2>4, <3>1, <3>2 DEF ListInv, LiveListed
    <3>4. cars[r].name # net.peer[t]
            \/ \E i \in DOMAIN cars : r =< i /\ cars[i].name = net.peer[t]
                                     /\ cars[i].connectionsocket # t
      BY <2>1, <2>2, <3>2
    <3> QED BY <2>2, <2>3, <3>1, <3>3, <3>4, LastOnRemains DEF TypeInv
  <2>5. LiveListed'
    BY <2>4 DEF LiveListed, Registers
  <2> QED BY <1>1, <1>2, <2>5, TurnOrdered DEF ListInv
<1> QED BY <1>3, <1>4 DEF HandleHangUp, HandleError

-----------------------------------------------------------------------------
(* select.                                                                 *)

(* With nobody in line only the round changes, and the last one is over.   *)
LEMMA RoundListed ==
  ASSUME TypeInv, ListInv, Select, UNCHANGED cars, net.backlog = <<>>
  PROVE  ListInv'
<1>1. /\ net.ready = {} /\ net'.peer = net.peer /\ net'.to = net.to
      /\ net'.link = net.link /\ net'.backlog = net.backlog
  BY DEF Select, Accepted, TypeInv, Sound, Nets, NetsOf
<1>2. OneSocket' /\ OneInLine' /\ RegistersFirst' /\ LineRegistersFirst'
  BY <1>1 DEF ListInv, Ordered, OneSocket, OneInLine, RegistersFirst, LineRegistersFirst, Registers
<1>3. InOrder'
  BY <1>1 DEF ListInv, Ordered, InOrder, Registers
<1>4. LiveListed'
  BY <1>1 DEF ListInv, LiveListed, Registers, LastOn
<1> QED BY <1>2, <1>3, <1>4 DEF ListInv, Ordered

(* The first in line is accepted on a free descriptor.                     *)
LEMMA AcceptedOn ==
  ASSUME TypeInv, Select, net.backlog # <<>>
  PROVE  \E f \in Sockets, b \in [client : Client, messages : Seq(Messages)] :
           /\ net.link[f] = "free" /\ net.peer[f] = Nobody
           /\ 1 \in DOMAIN net.backlog /\ b = net.backlog[1]
           /\ \A i \in DOMAIN net'.backlog :
                /\ i \in Nat /\ i + 1 \in DOMAIN net.backlog /\ i + 1 # 1
                /\ net'.backlog[i] = net.backlog[i + 1]
           /\ net'.link[f] = "open" /\ net'.peer[f] = b.client /\ net'.to[f] = b.messages
           /\ \A s \in Sockets \ {f} : /\ net'.link[s] = net.link[s]
                                      /\ net'.peer[s] = net.peer[s]
                                      /\ net'.to[s] = net.to[s]
           /\ net'.from = net.from /\ net'.ready = Waiting /\ net.ready = {}
<1> DEFINE f == Min(Free)
           b == net.backlog[1]
           B == [client : Client, messages : Seq(Messages)]
<1>1. f \in Free /\ f \in Sockets /\ net.link[f] = "free" /\ net.peer[f] = Nobody
  <2>1. Free # {}
    BY SelectFindsFree DEF TypeInv
  <2>2. Free \subseteq Nat
    BY DEF Free, Sockets
  <2>3. f \in Free
    BY <2>1, <2>2, NatMin
  <2> QED BY <2>3 DEF Free, TypeInv, Sound, PeersOpenIn
<1>2. /\ 1 \in DOMAIN net.backlog /\ b \in B /\ b = Head(net.backlog)
      /\ \A i \in DOMAIN Tail(net.backlog) :
           /\ i \in Nat /\ i + 1 \in DOMAIN net.backlog /\ i + 1 # 1
           /\ Tail(net.backlog)[i] = net.backlog[i + 1]
  <2>1. net.backlog \in Seq(B)
    BY DEF TypeInv, Sound, Nets, NetsOf
  <2> HIDE DEF B
  <2>2. /\ Tail(net.backlog) \in Seq(B) /\ Len(Tail(net.backlog)) = Len(net.backlog) - 1
        /\ \A i \in 1 .. Len(Tail(net.backlog)) : Tail(net.backlog)[i] = net.backlog[i + 1]
        /\ Head(net.backlog) = b /\ Head(net.backlog) \in B
    BY <2>1, HeadTailProperties
  <2>3. /\ DOMAIN Tail(net.backlog) = 1 .. Len(Tail(net.backlog))
        /\ DOMAIN net.backlog = 1 .. Len(net.backlog) /\ Len(net.backlog) \in Nat \ {0}
    BY <2>1, <2>2, LenProperties, EmptySeq
  <2> QED BY <2>2, <2>3
<1>3. /\ net'.link = [net.link EXCEPT ![f] = "open"]
      /\ net'.peer = [net.peer EXCEPT ![f] = b.client]
      /\ net'.to = [net.to EXCEPT ![f] = b.messages]
      /\ net'.backlog = Tail(net.backlog) /\ net'.ready = Waiting
      /\ net.ready = {} /\ net'.from = net.from
  BY <1>2 DEF Select, Accepted, TypeInv, Sound, Nets, NetsOf
<1>4. /\ net'.link[f] = "open" /\ net'.peer[f] = b.client /\ net'.to[f] = b.messages
      /\ \A s \in Sockets \ {f} : /\ net'.link[s] = net.link[s]
                                 /\ net'.peer[s] = net.peer[s] /\ net'.to[s] = net.to[s]
  BY <1>1, <1>3 DEF TypeInv, Sound, Nets, NetsOf
<1> HIDE DEF f, b
<1> QED BY <1>1, <1>2, <1>3, <1>4

(* The client that is accepted waits for the round after this one.         *)
LEMMA AcceptedListed ==
  ASSUME TypeInv, ListInv, Select, UNCHANGED cars, net.backlog # <<>>
  PROVE  ListInv'
<1> DEFINE B == [client : Client, messages : Seq(Messages)]
<1>1. PICK f \in Sockets, b \in B :
        /\ net.link[f] = "free" /\ net.peer[f] = Nobody
        /\ 1 \in DOMAIN net.backlog /\ b = net.backlog[1]
        /\ \A i \in DOMAIN net'.backlog :
             /\ i \in Nat /\ i + 1 \in DOMAIN net.backlog /\ i + 1 # 1
             /\ net'.backlog[i] = net.backlog[i + 1]
        /\ net'.link[f] = "open" /\ net'.peer[f] = b.client /\ net'.to[f] = b.messages
        /\ \A s \in Sockets \ {f} : /\ net'.link[s] = net.link[s]
                                   /\ net'.peer[s] = net.peer[s]
                                   /\ net'.to[s] = net.to[s]
        /\ net'.from = net.from /\ net'.ready = Waiting /\ net.ready = {}
  BY AcceptedOn
<1>2. /\ b.client \in Cars => Registers(b.messages)
      /\ \A s \in Sockets : net.peer[s] # b.client
      /\ \A k \in DOMAIN b.messages :
           b.messages[k].kind = "CAR" => k = 1 /\ b.client = b.messages[k].name
  BY <1>1 DEF ListInv, Ordered, OneInLine, LineRegistersFirst
<1>3. OneSocket'
  BY <1>1, <1>2 DEF ListInv, Ordered, OneSocket
<1>4. OneInLine'
  <2> SUFFICES ASSUME NEW i \in DOMAIN net'.backlog
               PROVE  /\ \A s \in Sockets : net'.peer[s] # net'.backlog[i].client
                      /\ \A j \in DOMAIN net'.backlog :
                           net'.backlog[i].client = net'.backlog[j].client => i = j
    BY DEF OneInLine
  <2>1. /\ i + 1 \in DOMAIN net.backlog /\ i + 1 # 1
        /\ net'.backlog[i] = net.backlog[i + 1]
    BY <1>1
  <2>2. net.backlog[i + 1].client # b.client
    BY <1>1, <2>1 DEF ListInv, Ordered, OneInLine
  <2>3. \A s \in Sockets : net'.peer[s] # net'.backlog[i].client
    BY <1>1, <2>1, <2>2 DEF ListInv, Ordered, OneInLine
  <2>4. ASSUME NEW j \in DOMAIN net'.backlog,
               net'.backlog[i].client = net'.backlog[j].client
        PROVE  i = j
    <3>1. j + 1 \in DOMAIN net.backlog /\ net'.backlog[j] = net.backlog[j + 1]
      BY <1>1
    <3>2. i + 1 = j + 1
      BY <2>1, <2>4, <3>1 DEF ListInv, Ordered, OneInLine
    <3>3. i \in Nat /\ j \in Nat
      BY <1>1
    <3> QED BY <3>2, <3>3
  <2> QED BY <2>3, <2>4
<1>5. RegistersFirst'
  <2> SUFFICES ASSUME NEW s \in Sockets, NEW k \in DOMAIN net'.to[s],
                      net'.to[s][k].kind = "CAR"
               PROVE  /\ k = 1 /\ net'.link[s] # "free"
                      /\ net'.peer[s] \in {Nobody, net'.to[s][k].name}
    BY DEF RegistersFirst
  <2> QED BY <1>1, <1>2 DEF ListInv, Ordered, RegistersFirst
<1>6. LineRegistersFirst'
  BY <1>1 DEF ListInv, Ordered, LineRegistersFirst, Registers
<1>7. InOrder'
  <2> SUFFICES ASSUME NEW s \in Sockets, NEW t \in Sockets, s # t,
                      Registers(net'.to[s]), net'.peer[t] = net'.to[s][1].name
               PROVE  /\ s \in net'.ready /\ t \notin net'.ready
                      /\ Registers(net'.to[t])
    BY DEF InOrder, Registers
  <2>1. s # f
    <3>1. CASE s = f
      <4>1. b.client = b.messages[1].name /\ Registers(b.messages)
        BY <1>1, <1>2, <3>1 DEF Registers
      <4>2. b.client \in Cars
        BY <1>1, <4>1, RegistrationsNameCars
      <4> QED BY <1>1, <1>2, <3>1, <4>1, <4>2
    <3> QED BY <3>1
  <2>2. Registers(net.to[s]) /\ net'.to[s] = net.to[s]
    BY <1>1, <2>1
  <2>3. t = f
    BY <1>1, <2>2 DEF ListInv, Ordered, InOrder
  <2>4. b.client \in Cars
    BY <1>1, <2>2, <2>3, RegistrationsNameCars DEF TypeInv, Sound, Nets, NetsOf
  <2>5. s \in Waiting
    BY <2>2 DEF Waiting, Free, Registers, ListInv, Ordered, RegistersFirst
  <2>6. f \notin Waiting
    BY <1>1 DEF Waiting, Free
  <2> QED BY <1>1, <1>2, <2>3, <2>4, <2>5, <2>6
<1>8. LiveListed'
  BY <1>1, <1>2 DEF ListInv, LiveListed, LastOn
<1> QED BY <1>3, <1>4, <1>5, <1>6, <1>7, <1>8 DEF ListInv, Ordered

-----------------------------------------------------------------------------
(* The clients.                                                            *)

(* A client joins the line, a car with its registration first and a pad    *)
(* without one.                                                            *)
LEMMA JoinedListed ==
  ASSUME TypeInv, ListInv, UNCHANGED cars, NEW x, NEW messages,
         net' = Dialled(x, messages), Absent(x), x # Nobody,
         x \in Cars => Registers(messages),
         \A k \in DOMAIN messages :
           messages[k].kind = "CAR" => k = 1 /\ x = messages[k].name
  PROVE  ListInv'
<1> DEFINE b == [client |-> x, messages |-> messages]
           N == Len(net.backlog) + 1
<1>1. /\ net'.link = net.link /\ net'.peer = net.peer /\ net'.to = net.to
      /\ net'.ready = net.ready /\ net'.backlog = Append(net.backlog, b)
  BY DEF Dialled, TypeInv, Sound, Nets, NetsOf
<1>2. /\ DOMAIN net.backlog = 1 .. N - 1 /\ DOMAIN net'.backlog = 1 .. N /\ N \in Nat
      /\ net'.backlog[N] = b
      /\ \A j \in 1 .. N - 1 : net'.backlog[j] = net.backlog[j]
  <2> DEFINE B == [client : Client, messages : Seq(Messages)]
  <2>1. net.backlog \in Seq(B)
    BY DEF TypeInv, Sound, Nets, NetsOf
  <2> HIDE DEF B, b
  <2>2. net.backlog \in Seq(B \union {b}) /\ Len(net.backlog) \in Nat
    BY <2>1, ElementOfSeq, LenProperties
  <2> QED BY <1>1, <2>2, AppendProperties, LenProperties
<1>3. /\ \A s \in Sockets : net.peer[s] # x
      /\ \A j \in DOMAIN net.backlog : net.backlog[j].client # x
  BY DEF Absent, HeldBy, InBacklog
<1> HIDE DEF N
<1>4. OneInLine'
  <2> SUFFICES ASSUME NEW i \in DOMAIN net'.backlog
               PROVE  /\ \A s \in Sockets : net'.peer[s] # net'.backlog[i].client
                      /\ \A j \in DOMAIN net'.backlog :
                           net'.backlog[i].client = net'.backlog[j].client => i = j
    BY DEF OneInLine
  <2>1. CASE i = N
    <3>1. \A j \in DOMAIN net'.backlog : j # N => net'.backlog[j].client # x
      BY <1>2, <1>3, <2>1
    <3> QED BY <1>1, <1>2, <1>3, <2>1, <3>1
  <2>2. CASE i # N
    <3>1. i \in DOMAIN net.backlog /\ net'.backlog[i] = net.backlog[i]
      BY <1>2, <2>2
    <3>2. ASSUME NEW j \in DOMAIN net'.backlog,
                 net'.backlog[i].client = net'.backlog[j].client
          PROVE  i = j
      <4>1. j # N
        BY <1>2, <1>3, <3>1, <3>2
      <4>2. j \in DOMAIN net.backlog /\ net'.backlog[j] = net.backlog[j]
        BY <1>2, <4>1
      <4> QED BY <3>1, <3>2, <4>2 DEF ListInv, Ordered, OneInLine
    <3> QED BY <1>1, <3>1, <3>2 DEF ListInv, Ordered, OneInLine
  <2> QED BY <2>1, <2>2
<1>5. LineRegistersFirst'
  <2> SUFFICES ASSUME NEW i \in DOMAIN net'.backlog
               PROVE  LET e == net'.backlog[i]
                      IN  /\ e.client \in Cars => Registers(e.messages)
                          /\ \A k \in DOMAIN e.messages :
                               e.messages[k].kind = "CAR" => k = 1 /\ e.client = e.messages[k].name
    BY DEF LineRegistersFirst, Registers
  <2>1. CASE i = N
    BY <1>2, <2>1
  <2>2. CASE i # N
    <3>1. i \in DOMAIN net.backlog /\ net'.backlog[i] = net.backlog[i]
      BY <1>2, <2>2
    <3> QED BY <3>1 DEF ListInv, Ordered, LineRegistersFirst
  <2> QED BY <2>1, <2>2
<1>6. OneSocket' /\ RegistersFirst' /\ InOrder' /\ LiveListed'
  BY <1>1 DEF ListInv, Ordered, OneSocket, RegistersFirst, InOrder, LiveListed, Registers, LastOn
<1> QED BY <1>4, <1>5, <1>6 DEF ListInv, Ordered

(* A client closes its end of socket s.                                    *)
LEMMA LeftListed ==
  ASSUME TypeInv, ListInv, UNCHANGED cars, NEW s \in Sockets, NEW n,
         n.link = net.link, n.peer = net.peer, n.to = net.to,
         n.backlog = net.backlog, n.ready = net.ready, n \in Nets,
         net' = Abandoned(n, s)
  PROVE  ListInv'
<1>1. /\ net'.peer = [net.peer EXCEPT ![s] = Nobody] /\ net'.to = net.to
      /\ net'.backlog = net.backlog /\ net'.ready = net.ready
      /\ \A t \in Sockets : net'.link[t] = "free" => net.link[t] = "free"
  BY DEF Abandoned, Nets, NetsOf
<1>2. Nobody \notin Cars
  BY ClientsAssumption DEF ClientsAssumption
<1>3. \A t \in Sockets : net'.peer[t] = IF t = s THEN Nobody ELSE net.peer[t]
  BY <1>1 DEF TypeInv, Sound, Nets, NetsOf
<1>4. OneSocket' /\ RegistersFirst'
  BY <1>1, <1>2, <1>3 DEF ListInv, Ordered, OneSocket, RegistersFirst
<1>5. OneInLine' /\ LineRegistersFirst'
  <2>1. ASSUME NEW j \in DOMAIN net.backlog PROVE net.backlog[j].client # Nobody
    <3> DEFINE B == [client : Client, messages : Seq(Messages)]
    <3>1. net.backlog \in Seq(B)
      BY DEF TypeInv, Sound, Nets, NetsOf
    <3> HIDE DEF B
    <3>2. net.backlog[j] \in B
      BY <3>1, LenProperties, ElementOfSeq
    <3> QED BY <3>2, ClientsAssumption DEF ClientsAssumption, Client, B
  <2> QED BY <1>1, <1>3, <2>1 DEF ListInv, Ordered, OneInLine, LineRegistersFirst, Registers
<1>6. InOrder'
  <2> SUFFICES ASSUME NEW r \in Sockets, NEW t \in Sockets, r # t,
                      Registers(net'.to[r]), net'.peer[t] = net'.to[r][1].name
               PROVE  r \in net'.ready /\ t \notin net'.ready /\ Registers(net'.to[t])
    BY DEF InOrder, Registers
  <2>1. net'.to[r][1].name \in Cars
    BY <1>1, RegistrationsNameCars DEF TypeInv, Sound, Nets, NetsOf
  <2>2. net.peer[t] = net.to[r][1].name /\ Registers(net.to[r])
    BY <1>1, <1>2, <1>3, <2>1
  <2> QED BY <1>1, <2>2 DEF ListInv, Ordered, InOrder
<1>7. LiveListed'
  BY <1>1, <1>2, <1>3 DEF ListInv, LiveListed, Registers, LastOn
<1> QED BY <1>4, <1>5, <1>6, <1>7 DEF ListInv, Ordered

(* A car reports.                                                          *)
LEMMA ReportListed ==
  ASSUME TypeInv, ListInv, NEW c \in Cars, CarReports(c)
  PROVE  ListInv'
<1> DEFINE s == SocketOf(c)
<1>1. s \in Sockets /\ net.link[s] = "open" /\ c \in Client
  BY SocketHeldOpen DEF TypeInv, CarReports, Client
<1>2. PICK r \in Reports : net' = [net EXCEPT !.to[s] = Append(@, r)]
  BY DEF CarReports
<1>3. r.kind # "CAR"
  BY ClientsAssumption DEF ClientsAssumption, StatusMessages, EmergencyMessage
<1> DEFINE q == net.to[s]
           q2 == Append(net.to[s], r)
<1> HIDE DEF s
<1>4. /\ DOMAIN q = 1 .. Len(q) /\ DOMAIN q2 = 1 .. Len(q) + 1 /\ Len(q) \in Nat
      /\ q2[Len(q) + 1] = r /\ \A k \in 1 .. Len(q) : q2[k] = q[k]
  <2>1. q \in Seq(Messages \union {r}) /\ Len(q) \in Nat
    BY <1>1, ElementOfSeq, LenProperties DEF TypeInv, Sound, Nets, NetsOf
  <2> HIDE DEF q
  <2>2. Append(q, r) \in Seq(Messages \union {r})
    BY <2>1, AppendProperties
  <2> QED BY <2>1, <2>2, AppendProperties, LenProperties DEF q
<1>5. \A k \in DOMAIN q2 : q2[k].kind = "CAR" => k \in DOMAIN q /\ q2[k] = q[k]
  <2> HIDE DEF q, q2
  <2> QED BY <1>3, <1>4
<1>6. Registers(q2) <=> Registers(q)
  <2> HIDE DEF q, q2
  <2> QED BY <1>4, <1>5 DEF Registers
<1>7. /\ net'.peer = net.peer /\ net'.backlog = net.backlog /\ net'.link = net.link
      /\ net'.ready = net.ready /\ net'.to = [net.to EXCEPT ![s] = q2]
  BY <1>2 DEF TypeInv, Sound, Nets, NetsOf
<1>8. /\ \A t \in Sockets \ {s} : net'.to[t] = net.to[t]
      /\ net'.to[s] = q2
  BY <1>1, <1>7 DEF TypeInv, Sound, Nets, NetsOf
<1>9. \A t \in Sockets :
        /\ Registers(net'.to[t]) <=> Registers(net.to[t])
        /\ \A k \in DOMAIN net'.to[t] : net'.to[t][k].kind = "CAR" =>
             k \in DOMAIN net.to[t] /\ net'.to[t][k] = net.to[t][k]
  <2> TAKE t \in Sockets
  <2>1. CASE t = s
    <3> HIDE DEF q2
    <3> QED BY <2>1, <1>5, <1>6, <1>8 DEF q
  <2>2. CASE t # s
    BY <2>2, <1>8
  <2> QED BY <2>1, <2>2
<1>10. OneSocket' /\ OneInLine' /\ LineRegistersFirst'
  BY <1>7 DEF ListInv, Ordered, OneSocket, OneInLine, LineRegistersFirst, Registers
<1>11. RegistersFirst'
  BY <1>7, <1>9 DEF ListInv, Ordered, RegistersFirst
<1>12. InOrder'
  <2> SUFFICES ASSUME NEW r1 \in Sockets, NEW t \in Sockets, r1 # t,
                      Registers(net'.to[r1]), net'.peer[t] = net'.to[r1][1].name
               PROVE  r1 \in net'.ready /\ t \notin net'.ready /\ Registers(net'.to[t])
    BY DEF InOrder, Registers
  <2>1. Registers(net.to[r1]) /\ net'.to[r1][1] = net.to[r1][1]
    BY <1>9 DEF Registers
  <2> QED BY <1>7, <1>9, <2>1 DEF ListInv, Ordered, InOrder
<1>13. LiveListed'
  <2> SUFFICES ASSUME NEW t \in Sockets, net'.peer[t] \in Cars, ~Registers(net'.to[t])
               PROVE  LastOn(cars', net'.peer[t], t)
    BY DEF LiveListed, Registers
  <2>1. LastOn(cars, net.peer[t], t) /\ cars' = cars
    BY <1>7, <1>9 DEF ListInv, LiveListed, CarReports
  <2> QED BY <1>7, <2>1
<1> QED BY <1>10, <1>11, <1>12, <1>13 DEF ListInv, Ordered

-----------------------------------------------------------------------------
(* The theorem.                                                            *)

(* At first nobody is connected.                                           *)
LEMMA InitListed == Init => ListInv
<1> HAVE Init
<1>1. /\ net.to = [s \in Sockets |-> <<>>] /\ net.peer = [s \in Sockets |-> Nobody]
      /\ net.backlog = <<>>
  BY DEF Init, controller_init, NoConnections
<1>2. Nobody \notin Cars
  BY ClientsAssumption DEF ClientsAssumption
<1> QED BY <1>1, <1>2 DEF ListInv, Ordered, OneSocket, OneInLine, RegistersFirst, LineRegistersFirst, InOrder, LiveListed, Registers

(* A car joins the line, or closes its socket.                             *)
LEMMA CarListed ==
  ASSUME TypeInv, ListInv, NEW c \in Cars, CarRegisters(c) \/ CarLeaves(c)
  PROVE  ListInv'
<1>1. c \in Client
  BY DEF Client
<1>2. CASE CarRegisters(c)
  <2> DEFINE m == CarMessage(c, Shaft[c][1], Shaft[c][2])
  <2>1. PICK r \in FirstReports : net' = Dialled(c, <<m, r>>)
    BY <1>2 DEF CarRegisters
  <2>2. r.kind # "CAR"
    BY ClientsAssumption DEF ClientsAssumption, StatusMessages, EmergencyMessage
  <2>3. m.kind = "CAR" /\ m.name = c
    BY DEF CarMessage
  <2> HIDE DEF m
  <2> DEFINE q == <<m, r>>
  <2>4. /\ Registers(q)
        /\ \A k \in DOMAIN q : q[k].kind = "CAR" => k = 1 /\ c = q[k].name
    BY <2>2, <2>3 DEF Registers
  <2>5. net' = Dialled(c, q) /\ Absent(c) /\ c # Nobody /\ UNCHANGED cars
    BY <1>2, <2>1, ClientsAssumption DEF CarRegisters, ClientsAssumption
  <2> HIDE DEF q
  <2> QED BY <2>4, <2>5, JoinedListed
<1>3. CASE CarLeaves(c)
  <2> DEFINE s == SocketOf(c)
  <2>1. s \in Sockets
    BY <1>1, <1>3, SocketHeldOpen DEF TypeInv, CarLeaves
  <2>2. PICK unread \in {<<>>, net.from[s]} :
          net' = Abandoned([net EXCEPT !.from[s] = unread], s)
    BY <1>3 DEF CarLeaves
  <2>3. unread \in Seq(Replies)
    <3>1. net.from[s] \in Seq(Replies) /\ <<>> \in Seq(Replies)
      BY <2>1 DEF TypeInv, Sound, Nets, NetsOf
    <3> QED BY <3>1
  <2> DEFINE n == [net EXCEPT !.from[s] = unread]
  <2> HIDE DEF s
  <2>4. /\ n \in Nets /\ n.link = net.link /\ n.peer = net.peer /\ n.to = net.to
        /\ n.backlog = net.backlog /\ n.ready = net.ready
    BY <2>1, <2>3 DEF TypeInv, Sound, Nets, NetsOf
  <2> QED BY <1>3, <2>1, <2>2, <2>4, LeftListed DEF CarLeaves
<1> QED BY <1>2, <1>3

(* A pad joins the line, or closes its socket.                             *)
LEMMA PadListed ==
  ASSUME TypeInv, ListInv, PadsAbsent, NEW p \in Pads, PadStep(p)
  PROVE  ListInv'
<1>1. p \in Client /\ p \notin Cars
  BY ClientsAssumption DEF Client, ClientsAssumption
<1>2. CASE PadCalls(p)
  <2>1. PICK x \in Calls[p] : net' = Dialled(p, <<CallMessage(x[1], x[2])>>)
    BY <1>2 DEF PadCalls
  <2> DEFINE q == <<CallMessage(x[1], x[2])>>
  <2>2. \A k \in DOMAIN q : q[k].kind # "CAR"
    BY DEF CallMessage
  <2>3. net' = Dialled(p, q) /\ Absent(p) /\ p # Nobody /\ UNCHANGED cars
    BY <1>2, <2>1, ClientsAssumption DEF PadCalls, PadsAbsent, ClientsAssumption
  <2> HIDE DEF q
  <2> QED BY <1>1, <2>2, <2>3, JoinedListed
<1>3. CASE PadReceives(p)
  <2> DEFINE s == SocketOf(p)
             n == [net EXCEPT !.from[s] = Tail(@)]
  <2>1. s \in Sockets /\ net.from[s] # <<>>
    BY <1>1, <1>3, SocketHeldOpen DEF TypeInv, PadReceives
  <2>2. Tail(net.from[s]) \in Seq(Replies)
    BY <2>1, HeadTailProperties DEF TypeInv, Sound, Nets, NetsOf
  <2>3. net' = Abandoned(n, s)
    BY <1>3 DEF PadReceives
  <2> HIDE DEF s
  <2>4. /\ n \in Nets /\ n.link = net.link /\ n.peer = net.peer /\ n.to = net.to
        /\ n.backlog = net.backlog /\ n.ready = net.ready
    BY <2>1, <2>2 DEF TypeInv, Sound, Nets, NetsOf
  <2> HIDE DEF n
  <2> QED BY <1>3, <2>1, <2>3, <2>4, LeftListed DEF PadReceives
<1>4. CASE PadQuits(p)
  <2>1. SocketOf(p) \in Sockets
    BY <1>1, <1>4, SocketHeldOpen DEF TypeInv, PadQuits
  <2>2. net \in Nets
    BY DEF TypeInv, Sound
  <2> QED BY <1>4, <2>1, <2>2, LeftListed DEF PadQuits
<1> QED BY <1>2, <1>3, <1>4 DEF PadStep

(* Every message and every end of a connection.                            *)
LEMMA TurnsListed ==
  ASSUME TypeInv, TypeInv', ShaftsTyped, ListInv, NEW s \in Sockets, HandleSocket(s)
  PROVE  ListInv'
<1>1. CASE HandleHangUp(s) \/ HandleError(s)
  BY <1>1, EndListed
<1>2. CASE HandleCall(s) \/ HandleStatus(s) \/ HandleCar(s) \/ HandleOther(s)
  <2>1. s \in net.ready /\ net.to[s] # <<>>
    BY <1>2 DEF HandleCall, HandleCar, HandleStatus, HandleOther, Arrived, Turn
  <2>2. CASE HandleCar(s)
    <3>1. OnlyReplies(Received(s), net')
      BY <2>2 DEF HandleCar, OnlyReplies
    <3>2. TurnOf(s)
      BY <2>1, <3>1, MessageTurn DEF ListInv, Ordered
    <3> QED BY <2>1, <2>2, <3>2, RegistrationListed
  <2>3. CASE HandleCall(s) \/ HandleStatus(s) \/ HandleOther(s)
    <3>1. SameEntries /\ OnlyReplies(Received(s), net')
      <4>1. CASE HandleOther(s)
        BY <4>1 DEF HandleOther, SameEntries, OnlyReplies
      <4> QED BY <2>3, <4>1, CallTyped, StatusTyped
    <3>2. TurnOf(s)
      BY <2>1, <3>1, MessageTurn DEF ListInv, Ordered
    <3>3. ~Registers(net.to[s])
      <4>1. Head(net.to[s]).kind # "CAR"
        BY <2>3 DEF HandleCall, HandleStatus, HandleOther
      <4>2. Head(net.to[s]) = net.to[s][1]
        BY <2>1 DEF TypeInv, Sound, Nets, NetsOf
      <4> QED BY <4>1, <4>2 DEF Registers
    <3> QED BY <2>1, <3>1, <3>2, <3>3, TurnListed
  <2> QED BY <1>2, <2>2, <2>3
<1> QED BY <1>1, <1>2 DEF HandleSocket

(* A turn of the controller leaves the other ends alone.                   *)
LEMMA TurnKeepsPeers ==
  ASSUME TypeInv, ShaftsTyped, NEW s \in Sockets, HandleSocket(s)
  PROVE  net'.peer = net.peer /\ net'.backlog = net.backlog
<1>1. CASE HandleHangUp(s) \/ HandleError(s)
  BY <1>1 DEF HandleHangUp, HandleError, Closed, Served, TypeInv, Sound, Nets, NetsOf
<1>2. CASE HandleCall(s) \/ HandleStatus(s) \/ HandleCar(s) \/ HandleOther(s)
  <2>1. OnlyReplies(Received(s), net')
    <3>1. CASE HandleCar(s) \/ HandleOther(s)
      BY <3>1 DEF HandleCar, HandleOther, OnlyReplies
    <3> QED BY <1>2, <3>1, CallTyped, StatusTyped
  <2>2. Received(s).peer = net.peer /\ Received(s).backlog = net.backlog
    BY DEF Received, Served, TypeInv, Sound, Nets, NetsOf
  <2> QED BY <2>1, <2>2 DEF OnlyReplies
<1> QED BY <1>1, <1>2 DEF HandleSocket

(* Whoever is accepted was in line.                                        *)
LEMMA SelectKeepsPeers ==
  ASSUME TypeInv, Select, NEW p \in Client, Absent(p)
  PROVE  Absent(p)'
<1>1. CASE net.backlog = <<>>
  <2>1. net'.peer = net.peer /\ net'.backlog = net.backlog
    BY <1>1 DEF Select, Accepted, TypeInv, Sound, Nets, NetsOf
  <2> QED BY <2>1 DEF Absent, HeldBy, InBacklog
<1>2. CASE net.backlog # <<>>
  <2> DEFINE B == [client : Client, messages : Seq(Messages)]
             b == Head(net.backlog)
  <2>1. net.backlog \in Seq(B)
    BY DEF TypeInv, Sound, Nets, NetsOf
  <2>2. /\ net'.peer = [net.peer EXCEPT ![Min(Free)] = b.client]
        /\ net'.backlog = Tail(net.backlog)
    BY <1>2 DEF Select, Accepted, TypeInv, Sound, Nets, NetsOf
  <2> HIDE DEF B
  <2>3. /\ 1 \in DOMAIN net.backlog /\ b = net.backlog[1]
        /\ \A i \in DOMAIN Tail(net.backlog) :
             i + 1 \in DOMAIN net.backlog /\ Tail(net.backlog)[i] = net.backlog[i + 1]
    <3>1. /\ Tail(net.backlog) \in Seq(B) /\ Len(Tail(net.backlog)) = Len(net.backlog) - 1
          /\ \A i \in 1 .. Len(Tail(net.backlog)) : Tail(net.backlog)[i] = net.backlog[i + 1]
          /\ b = net.backlog[1]
      BY <1>2, <2>1, HeadTailProperties
    <3>2. /\ DOMAIN Tail(net.backlog) = 1 .. Len(Tail(net.backlog))
          /\ DOMAIN net.backlog = 1 .. Len(net.backlog) /\ Len(net.backlog) \in Nat \ {0}
      BY <1>2, <2>1, <3>1, LenProperties, EmptySeq
    <3> QED BY <3>1, <3>2
  <2>4. \A i \in DOMAIN net.backlog : net.backlog[i].client # p
    BY DEF Absent, InBacklog
  <2>5. \A i \in DOMAIN net'.backlog : net'.backlog[i].client # p
    BY <2>2, <2>3, <2>4
  <2>6. \A s \in Sockets : net'.peer[s] # p
    <3>1. b.client # p /\ net.peer \in [Sockets -> Client \union {Nobody}]
      BY <2>3, <2>4 DEF TypeInv, Sound, Nets, NetsOf
    <3> QED BY <2>2, <3>1 DEF Absent, HeldBy
  <2> QED BY <2>5, <2>6 DEF Absent, HeldBy, InBacklog
<1> QED BY <1>1, <1>2

(* Who joins the line does not connect another client.                     *)
LEMMA DialledAbsent ==
  ASSUME TypeInv, NEW x, NEW messages, net' = Dialled(x, messages),
         NEW p, p # x, Absent(p)
  PROVE  Absent(p)'
<1> DEFINE b == [client |-> x, messages |-> messages]
<1>1. net'.peer = net.peer /\ net'.backlog = Append(net.backlog, b)
  BY DEF Dialled, TypeInv, Sound, Nets, NetsOf
<1>2. ASSUME NEW i \in DOMAIN net'.backlog PROVE net'.backlog[i].client # p
  <2> DEFINE B == [client : Client, messages : Seq(Messages)]
  <2>1. net.backlog \in Seq(B)
    BY DEF TypeInv, Sound, Nets, NetsOf
  <2> HIDE DEF B, b
  <2>2. net.backlog \in Seq(B \union {b}) /\ Len(net.backlog) \in Nat
    BY <2>1, ElementOfSeq, LenProperties
  <2>3. \/ i = Len(net.backlog) + 1 /\ net'.backlog[i] = b
        \/ i \in DOMAIN net.backlog /\ net'.backlog[i] = net.backlog[i]
    BY <1>1, <1>2, <2>2, AppendProperties, LenProperties
  <2>4. b.client = x
    BY DEF b
  <2> QED BY <2>3, <2>4 DEF Absent, InBacklog
<1> QED BY <1>1, <1>2 DEF Absent, HeldBy, InBacklog

(* Who closes the socket it holds has no other connection.                 *)
LEMMA LeftAbsent ==
  ASSUME TypeInv, ListInv, NEW x \in Client, HeldBy(x) # {}, NEW n,
         n.peer = net.peer, n.backlog = net.backlog, n \in Nets,
         net' = Abandoned(n, SocketOf(x)),
         NEW p \in Client, p # x => Absent(p)
  PROVE  Absent(p)'
<1> DEFINE s == SocketOf(x)
<1>1. s \in Sockets /\ net.peer[s] = x
  BY SocketHeldOpen DEF TypeInv
<1>2. x # Nobody /\ p # Nobody
  BY ClientsAssumption DEF ClientsAssumption, Client
<1>3. net'.peer = [net.peer EXCEPT ![s] = Nobody] /\ net'.backlog = net.backlog
  BY DEF Abandoned, Nets, NetsOf
<1> HIDE DEF s
<1>4. \A t \in Sockets : net'.peer[t] = IF t = s THEN Nobody ELSE net.peer[t]
  BY <1>1, <1>3 DEF TypeInv, Sound, Nets, NetsOf
<1>5. \A t \in Sockets : net'.peer[t] # p
  BY <1>1, <1>2, <1>4 DEF ListInv, Ordered, OneSocket, Absent, HeldBy
<1>6. \A i \in DOMAIN net'.backlog : net'.backlog[i].client # p
  BY <1>1, <1>3 DEF ListInv, Ordered, OneInLine, Absent, InBacklog
<1> QED BY <1>5, <1>6 DEF Absent, HeldBy, InBacklog

(* The pads keep their types.                                              *)
LEMMA StepPads == TypeInv /\ PadsTyped /\ [Next]_vars => PadsTyped'
<1> SUFFICES ASSUME TypeInv, PadsTyped, [Next]_vars PROVE PadsTyped'
  OBVIOUS
<1>1. CASE UNCHANGED pad
  BY <1>1 DEF PadsTyped
<1>2. ASSUME NEW p \in Pads, PadStep(p) PROVE PadsTyped'
  <2>1. CASE PadCalls(p)
    <3>1. PICK c \in Calls[p] :
            pad' = [pad EXCEPT ![p] = [NewPad EXCEPT !.phase = "waiting", !.call = c]]
      BY <2>1 DEF PadCalls
    <3>2. c \in Label \X Label
      BY PadAssumption DEF PadAssumption
    <3> DEFINE e == [NewPad EXCEPT !.phase = "waiting", !.call = c]
    <3>3. e \in [phase  : {"idle", "waiting", "done"},
                call   : (Label \X Label) \union {<<>>},
                answer : Replies \union {NoAnswer}]
      BY <3>2 DEF NewPad
    <3> HIDE DEF e
    <3> QED BY <3>1, <3>3 DEF PadsTyped, e
  <2>2. CASE PadReceives(p)
    <3>1. SocketOf(p) \in Sockets /\ net.from[SocketOf(p)] # <<>>
      BY <2>2, SocketHeldOpen DEF TypeInv, PadReceives, Client
    <3>2. Head(net.from[SocketOf(p)]) \in Replies
      BY <3>1, HeadTailProperties DEF TypeInv, Sound, Nets, NetsOf
    <3> QED BY <2>2, <3>2 DEF PadReceives, PadsTyped
  <2>3. CASE PadQuits(p)
    BY <2>3 DEF PadQuits, PadsTyped
  <2> QED BY <1>2, <2>1, <2>2, <2>3 DEF PadStep
<1> QED BY <1>1, <1>2 DEF Next, Handle, CarRegisters, CarReports, CarLeaves, vars, clientVars

(* A pad has no connection but while it waits.                             *)
LEMMA StepAbsent ==
  TypeInv /\ ListInv /\ PadsTyped /\ PadsAbsent /\ [Next]_vars => PadsAbsent'
<1> SUFFICES ASSUME TypeInv, ListInv, PadsTyped, PadsAbsent, [Next]_vars,
                    NEW p \in Pads, pad'[p].phase # "waiting"
             PROVE  Absent(p)'
  BY DEF PadsAbsent
<1>1. p \in Client /\ p \notin Cars /\ p # Nobody
  BY ClientsAssumption DEF ClientsAssumption, Client
<1>2. CASE Handle
  <2>1. Absent(p)
    BY <1>2 DEF PadsAbsent, Handle, clientVars
  <2>2. CASE Select
    BY <1>1, <2>1, <2>2, SelectKeepsPeers
  <2>3. ASSUME NEW s \in Sockets, HandleSocket(s) PROVE Absent(p)'
    <3>1. net'.peer = net.peer /\ net'.backlog = net.backlog
      BY <2>3, ShaftsAreTyped, TurnKeepsPeers
    <3> QED BY <2>1, <3>1 DEF Absent, HeldBy, InBacklog
  <2> QED BY <1>2, <2>2, <2>3 DEF Handle, Serve
<1>3. ASSUME NEW c \in Cars, CarRegisters(c) \/ CarReports(c) \/ CarLeaves(c)
      PROVE  Absent(p)'
  <2>1. Absent(p) /\ p # c /\ c \in Client
    BY <1>1, <1>3 DEF PadsAbsent, CarRegisters, CarReports, CarLeaves, clientVars, Client
  <2>2. CASE CarRegisters(c)
    BY <2>1, <2>2, DialledAbsent DEF CarRegisters
  <2>3. CASE CarReports(c)
    <3>1. net'.peer = net.peer /\ net'.backlog = net.backlog
      BY <2>3 DEF CarReports, TypeInv, Sound, Nets, NetsOf
    <3> QED BY <2>1, <3>1 DEF Absent, HeldBy, InBacklog
  <2>4. CASE CarLeaves(c)
    <3> DEFINE s == SocketOf(c)
    <3>1. PICK unread \in {<<>>, net.from[s]} :
            net' = Abandoned([net EXCEPT !.from[s] = unread], s)
      BY <2>4 DEF CarLeaves
    <3>2. s \in Sockets
      BY <2>1, <2>4, SocketHeldOpen DEF TypeInv, CarLeaves
    <3>3. unread \in Seq(Replies)
      <4>1. net.from[s] \in Seq(Replies) /\ <<>> \in Seq(Replies)
        BY <3>2 DEF TypeInv, Sound, Nets, NetsOf
      <4> QED BY <4>1
    <3> DEFINE n == [net EXCEPT !.from[s] = unread]
    <3>4. n \in Nets /\ n.peer = net.peer /\ n.backlog = net.backlog
      <4> HIDE DEF s
      <4> QED BY <3>2, <3>3 DEF TypeInv, Sound, Nets, NetsOf
    <3>5. net' = Abandoned(n, SocketOf(c))
      BY <3>1
    <3> HIDE DEF n, s
    <3> QED BY <1>1, <2>1, <2>4, <3>4, <3>5, LeftAbsent DEF CarLeaves
  <2> QED BY <1>3, <2>2, <2>3, <2>4
<1>4. ASSUME NEW q \in Pads, PadStep(q) PROVE Absent(p)'
  <2>1. q \in Client /\ (p # q => Absent(p))
    <3>1. p # q => pad'[p] = pad[p]
      BY <1>4 DEF PadStep, PadCalls, PadReceives, PadQuits, PadsTyped
    <3> QED BY <3>1 DEF PadsAbsent, Client
  <2>2. CASE PadCalls(q)
    <3>1. p # q
      BY <2>2 DEF PadCalls, PadsTyped, NewPad
    <3> QED BY <2>1, <2>2, <3>1, DialledAbsent DEF PadCalls
  <2>3. CASE PadReceives(q)
    <3> DEFINE s == SocketOf(q)
               n == [net EXCEPT !.from[s] = Tail(@)]
    <3>1. s \in Sockets /\ net.from[s] # <<>>
      BY <2>1, <2>3, SocketHeldOpen DEF TypeInv, PadReceives
    <3>2. Tail(net.from[s]) \in Seq(Replies)
      BY <3>1, HeadTailProperties DEF TypeInv, Sound, Nets, NetsOf
    <3>3. n \in Nets /\ n.peer = net.peer /\ n.backlog = net.backlog
      <4> HIDE DEF s
      <4> QED BY <3>1, <3>2 DEF TypeInv, Sound, Nets, NetsOf
    <3>4. net' = Abandoned(n, SocketOf(q))
      BY <2>3 DEF PadReceives
    <3> HIDE DEF n, s
    <3> QED BY <1>1, <2>1, <2>3, <3>3, <3>4, LeftAbsent DEF PadReceives
  <2>4. CASE PadQuits(q)
    BY <1>1, <2>1, <2>4, LeftAbsent DEF PadQuits, TypeInv, Sound
  <2> QED BY <1>4, <2>2, <2>3, <2>4 DEF PadStep
<1>5. CASE UNCHANGED vars
  BY <1>5 DEF vars, controllerVars, clientVars, PadsAbsent, Absent, HeldBy, InBacklog
<1> QED BY <1>2, <1>3, <1>4, <1>5 DEF Next

(* Every step keeps the order and the list.                                *)
LEMMA StepListed ==
  TypeInv /\ TypeInv' /\ ListInv /\ PadsAbsent /\ [Next]_vars => ListInv'
<1> SUFFICES ASSUME TypeInv, TypeInv', ListInv, PadsAbsent, [Next]_vars PROVE ListInv'
  OBVIOUS
<1>1. CASE Handle
  <2>1. CASE Select /\ UNCHANGED cars
    BY <2>1, RoundListed, AcceptedListed
  <2>2. ASSUME NEW s \in Sockets, HandleSocket(s) PROVE ListInv'
    BY <2>2, TurnsListed, ShaftsAreTyped
  <2> QED BY <1>1, <2>1, <2>2 DEF Handle, Serve
<1>2. ASSUME NEW c \in Cars, CarRegisters(c) \/ CarReports(c) \/ CarLeaves(c)
      PROVE  ListInv'
  BY <1>2, CarListed, ReportListed
<1>3. ASSUME NEW p \in Pads, PadStep(p) PROVE ListInv'
  BY <1>3, PadListed
<1>4. CASE UNCHANGED vars
  BY <1>4 DEF vars, controllerVars, ListInv, Ordered, OneSocket, OneInLine, RegistersFirst, LineRegistersFirst, InOrder, LiveListed, Registers, LastOn
<1> QED BY <1>1, <1>2, <1>3, <1>4 DEF Next

(* The invariant as a whole.                                               *)
LEMMA ListingKept == Spec => [](TypeInv /\ ListInv /\ PadsTyped /\ PadsAbsent)
<1>1. Init => PadsTyped
  BY DEF Init, pad_init, NewPad, PadsTyped
<1>2. Init => PadsAbsent
  <2>1. Nobody \notin Pads
    BY ClientsAssumption DEF ClientsAssumption
  <2> QED BY <2>1 DEF Init, controller_init, NoConnections, PadsAbsent, Absent, HeldBy, InBacklog
<1>3. TypeInv /\ ListInv /\ PadsTyped /\ PadsAbsent /\ [Next]_vars
        => (TypeInv /\ ListInv /\ PadsTyped /\ PadsAbsent)'
  BY StepTyped, StepListed, StepPads, StepAbsent
<1> QED BY <1>1, <1>2, <1>3, InitTyped, InitListed, PTL DEF Spec

(* A car that registered and is still connected is in the list with its    *)
(* own socket: the entries that tcp_communication_thread removes by a name *)
(* found by a socket are never those of a connection that lives.           *)
THEOREM CarsListed == Spec => []EveryCarListed
<1>1. TypeInv /\ ListInv => EveryCarListed
  <2> SUFFICES ASSUME TypeInv, ListInv, NEW c \in Cars, Registered(c)
               PROVE  \E k \in Named(c) : cars[k].connectionsocket = SocketOf(c)
    BY DEF EveryCarListed
  <2>1. SocketOf(c) \in Sockets /\ net.peer[SocketOf(c)] = c
    BY SocketHeldOpen DEF TypeInv, Client, Registered
  <2>2. ~Registers(net.to[SocketOf(c)])
    BY DEF Registered, Registers
  <2>3. LastOn(cars, c, SocketOf(c))
    BY <2>1, <2>2 DEF ListInv, LiveListed
  <2> QED BY <2>3 DEF LastOn, Named
<1> QED BY <1>1, ListingKept, PTL
=============================================================================
