-------------------------- MODULE PassengerProofs ---------------------------
(***************************************************************************)
(* One passenger is never forgotten.  A call is one CALL, one answer and   *)
(* two FLOOR messages, and what is under way says how far it has come:     *)
(* while the call is unasked the car stands still; while it is expected    *)
(* the queue holds both floors and no report of closing doors is under     *)
(* way, because the doors do not close before the passenger is in; once    *)
(* the passenger is aboard the car rests at the first floor until the      *)
(* second is received, however often its doors open and close there and    *)
(* however far the reports are behind.                                     *)
(*                                                                         *)
(* With a second passenger the queue drops floors, with a break of the     *)
(* connection what is under way is lost, and in a shaft with floor B1 that *)
(* floor is taken for an empty queue: each of them is assumed away.        *)
(***************************************************************************)
EXTENDS ElevatorProofs

Alone == \E p : Pads = {p}

Steady == MaxBreaks = 0

(* No floor of the shaft has the number that stands for an empty queue.    *)
NoB1 == -1 \notin LowestFloor .. HighestFloor

-----------------------------------------------------------------------------
(* What stays as it is.                                                    *)

(* Nobody but the process thread moves the doors, and the link holds.      *)
Quiet ==
  /\ shm.open_button = 0 /\ shm.close_button = 0
  /\ shm.emergency_mode = 0 /\ shm.individual_service_mode = 0
  /\ pc["doorcontrol"] = "poll"
  /\ breaks = 0

Calm ==
  /\ shm.status \notin {"Closed", "Between"} => pc["process"] \in DoorPC
  /\ read_flag = 0 => pc["process"] \in {"start", "move", "set_closed", "flag1"}

(* Who waits to be accepted, with the first messages.                      *)
Line(n) == {n.backlog[k] : k \in DOMAIN n.backlog}

(* A client is on one socket at most, or in line once.                     *)
Single(n) ==
  /\ \A s, t \in Sockets : n.peer[s] # Nobody /\ n.peer[s] = n.peer[t] => s = t
  /\ \A j, k \in DOMAIN n.backlog : n.backlog[j].client = n.backlog[k].client => j = k
  /\ \A s \in Sockets, b \in Line(n) : n.peer[s] # b.client

Away(n, x) ==
  (\A b \in Line(n) : b.client # x) /\ (\A s \in Sockets : n.peer[s] # x)

(* What client x has under way is in n2 what it is in n.                   *)
SameFor(x, n, n2) ==
  /\ \A s \in Sockets : n2.peer[s] = x <=> n.peer[s] = x
  /\ \A s \in Sockets : n.peer[s] = x => n2.to[s] = n.to[s] /\ n2.from[s] = n.from[s]
  /\ \A b : b.client = x => (b \in Line(n2) <=> b \in Line(n))

(* Nothing is left on a socket that nobody holds.                          *)
Unheld(n) == \A s \in Sockets : n.peer[s] = Nobody => n.to[s] = <<>>

CallOf(p) == CallMessage(pad[p].call[1], pad[p].call[2])

(* Where the one CALL of the pad can be.                                   *)
PadAt(p) ==
  /\ IF pad[p].phase = "idle" THEN Away(net, p) /\ pad[p].answer = NoAnswer
                              ELSE pad[p].call \in Label \X Label
  /\ \A b \in Line(net) : b.client = p => b.messages = <<CallOf(p)>>
  /\ \A s \in Sockets : net.peer[s] = p =>
       net.to[s] = <<>> \/ (net.to[s] = <<CallOf(p)>> /\ net.from[s] = <<>>)

(* The CALL has been handled.                                              *)
Asked(p) ==
  /\ pad[p].phase # "idle"
  /\ \A b \in Line(net) : b.client # p
  /\ \A s \in Sockets : net.peer[s] = p => net.to[s] = <<>>

-----------------------------------------------------------------------------
(* The car and its connection.                                             *)

Hello == CarMessage(CarName, LowestFloor, HighestFloor)

ReportsOf(statuses) ==
  [kind : {"STATUS"}, status : statuses, currentfloor : Label, destinationfloor : Label]

IdleReport == StatusMessage("Closed", LowestFloor, LowestFloor)

(* The car has not registered, waits to be accepted, or has just been.     *)
Unlisted(R) ==
  /\ cars = <<>> /\ inbox = <<>>
  /\ \A s \in Sockets : net.peer[s] = CarName => net.from[s] = <<>>
  /\ \/ /\ pc["tcp"] \in {"connect", "register"}
        /\ pc["tcp"] = "connect" => sockets = 0
        /\ Away(net, CarName)
     \/ /\ pc["tcp"] \in {"top", "wait", "heed"}
        /\ \E b \in Line(net) :
             b.client = CarName /\ \E r \in R : b.messages = <<Hello, r>>
     \/ /\ pc["tcp"] \in {"top", "wait", "heed"}
        /\ \E s \in Sockets :
             /\ net.peer[s] = CarName /\ net.to[s] # <<>>
             /\ Head(net.to[s]) = Hello /\ Tail(net.to[s]) \in Seq(R)

(* The car is listed on socket s, and only reports of R are under way.     *)
Listed(s, R) ==
  /\ pc["tcp"] \in {"top", "wait", "heed"}
  /\ s \in Sockets /\ net.peer[s] = CarName /\ net.to[s] \in Seq(R)
  /\ Len(cars) = 1 /\ cars[1].connectionsocket = s

(* The car stands where it started.                                        *)
Standing ==
  /\ shm.current_floor = LowestFloor /\ shm.destination_floor = LowestFloor
  /\ shm.status = "Closed"
  /\ pc["process"] \in {"start", "loop", "check_send", "check_move"}
  /\ floordiff = 0 /\ shm_send = 0 /\ current_status["process"] = "Opening"

IdleEntry(e) ==
  /\ e.queue = <<>> /\ e.previous_status # "Closing"
  /\ e.currentfloor = e.destinationfloor

(* The car is at the floor, and goes nowhere before it is told to.         *)
RestsAt(floor) ==
  /\ shm.current_floor = floor /\ shm.destination_floor = floor
  /\ pc["process"] \in DoorPC \union {"loop", "check_send", "unsend", "check_move"}
  /\ pc["process"] \in {"check_send", "unsend", "check_move"} => floordiff = 0

FloorsTo(q) == [k \in 1 .. Len(q) |-> FloorMessage(q[k])]

(* The floors q are under way to the car on socket s.                      *)
UnderWay(s, q) == inbox = q /\ net.from[s] = FloorsTo(q)

-----------------------------------------------------------------------------
(* How far the call has come.                                              *)

From(p) == pad[p].call[1]
To(p) == pad[p].call[2]

StopAt(p, floor) == Stop(floor, RequestDirection(From(p), To(p)))

Unasked(p) ==
  /\ pad[p].answer # CarAnswer(CarName)
  /\ \A s \in Sockets : net.peer[s] = p => net.from[s] \in {<<>>, <<Unavailable>>}
  /\ Standing
  /\ \/ Unlisted({IdleReport})
     \/ \E s \in Sockets :
          Listed(s, {IdleReport}) /\ IdleEntry(cars[1]) /\ UnderWay(s, <<>>)

(* The doors do not close before the passenger has seen them open.         *)
Opens ==
  /\ shm.status # "Closing"
  /\ current_status["process"] \in {"Closing", "Closed"} => shm.status = "Open"

Expected(p) ==
  /\ Asked(p) /\ OnCourse({From(p)}) /\ Opens
  /\ \E s \in Sockets :
       /\ Listed(s, ReportsOf(Status \ {"Closing"}))
       /\ cars[1].queue = <<StopAt(p, From(p)), StopAt(p, To(p))>>
       /\ cars[1].previous_status # "Closing"
       /\ UnderWay(s, <<>>) \/ UnderWay(s, <<From(p)>>)

(* The stop the passenger got in at is still in the queue.                 *)
BothBooked(p, s) ==
  /\ cars[1].queue = <<StopAt(p, From(p)), StopAt(p, To(p))>>
  /\ UnderWay(s, <<>>) \/ UnderWay(s, <<From(p)>>)
  /\ RestsAt(From(p))

(* It is not, and the car has not received the other floor.                *)
LastSent(p, s) ==
  /\ cars[1].queue \in {<<>>, <<StopAt(p, To(p))>>}
  /\ UnderWay(s, <<To(p)>>) \/ UnderWay(s, <<From(p), To(p)>>)
  /\ RestsAt(From(p))

(* It has, and will not be sent anything else.                             *)
LastHeard(p, s) ==
  /\ cars[1].queue \in {<<>>, <<StopAt(p, To(p))>>}
  /\ UnderWay(s, <<>>)
  /\ shm.destination_floor = To(p)

Aboard(p) ==
  /\ Asked(p)
  /\ \E s \in Sockets :
       /\ Listed(s, ReportsOf(Status))
       /\ BothBooked(p, s) \/ LastSent(p, s) \/ LastHeard(p, s)

Stage(p) ==
  \/ trip[p] = "waiting" /\ (Unasked(p) \/ Expected(p))
  \/ trip[p] = "riding" /\ Aboard(p)

Orderly(p) == Quiet /\ Calm /\ Single(net) /\ Unheld(net) /\ PadAt(p)

(* Once the passenger is where the call was to, nothing is needed.         *)
PassengerInv(p) ==
  \/ raced
  \/ trip[p] = "delivered" /\ pad[p].phase # "idle"
  \/ Orderly(p) /\ Stage(p)

-----------------------------------------------------------------------------
(* Connections.                                                            *)

(* Who joins the line is in it.                                            *)
LEMMA LineAppended ==
  ASSUME NEW B, NEW q \in Seq(B), NEW b \in B
  PROVE  /\ {Append(q, b)[k] : k \in DOMAIN Append(q, b)} =
              {q[k] : k \in DOMAIN q} \union {b}
         /\ DOMAIN Append(q, b) = DOMAIN q \union {Len(q) + 1}
         /\ Len(q) + 1 \notin DOMAIN q
         /\ \A k \in DOMAIN q : Append(q, b)[k] = q[k]
         /\ Append(q, b)[Len(q) + 1] = b
<1>1. /\ Len(q) \in Nat /\ DOMAIN q = 1 .. Len(q)
      /\ Append(q, b) \in Seq(B) /\ Len(Append(q, b)) = Len(q) + 1
      /\ \A k \in 1 .. Len(q) : Append(q, b)[k] = q[k]
      /\ Append(q, b)[Len(q) + 1] = b
  BY LenProperties, AppendProperties
<1>2. DOMAIN Append(q, b) = 1 .. Len(q) + 1
  BY <1>1, LenProperties
<1>3. /\ DOMAIN Append(q, b) = DOMAIN q \union {Len(q) + 1}
      /\ Len(q) + 1 \notin DOMAIN q
  BY <1>1, <1>2
<1>4. /\ \A k \in DOMAIN q : Append(q, b)[k] = q[k]
      /\ Append(q, b)[Len(q) + 1] = b
  BY <1>1
<1> HIDE <1>1, <1>2
<1> QED BY <1>3, <1>4

(* Of a line of different clients all but the first are left.              *)
LEMMA LineShortened ==
  ASSUME NEW B, NEW q \in Seq(B), q # <<>>,
         \A j, k \in DOMAIN q : q[j].client = q[k].client => j = k
  PROVE  /\ Head(q) \in {q[k] : k \in DOMAIN q}
         /\ {Tail(q)[k] : k \in DOMAIN Tail(q)} = {q[k] : k \in DOMAIN q} \ {Head(q)}
         /\ \A b \in {Tail(q)[k] : k \in DOMAIN Tail(q)} : b.client # Head(q).client
         /\ \A j, k \in DOMAIN Tail(q) :
              Tail(q)[j].client = Tail(q)[k].client => j = k
<1>1. /\ Len(q) \in Nat /\ Len(q) >= 1 /\ DOMAIN q = 1 .. Len(q)
      /\ Tail(q) \in Seq(B) /\ Len(Tail(q)) = Len(q) - 1
      /\ \A k \in 1 .. Len(Tail(q)) : Tail(q)[k] = q[k + 1]
  BY LenProperties, HeadTailProperties, EmptySeq
<1>2. DOMAIN Tail(q) = 1 .. Len(q) - 1
  BY <1>1, LenProperties
<1>3. Head(q) = q[1]
  BY <1>1
<1>4. /\ 1 \in DOMAIN q
      /\ \A k \in DOMAIN Tail(q) :
           k + 1 \in DOMAIN q /\ k + 1 # 1 /\ Tail(q)[k] = q[k + 1]
  BY <1>1, <1>2
<1>5. \A k \in DOMAIN q : k = 1 \/ \E j \in DOMAIN Tail(q) : k = j + 1
  <2>1. \A k \in 1 .. Len(q) : k = 1 \/ (k - 1 \in 1 .. Len(q) - 1 /\ k = (k - 1) + 1)
    BY <1>1
  <2> QED BY <1>1, <1>2, <2>1
<1>6. \A j, k \in DOMAIN Tail(q) : j + 1 = k + 1 => j = k
  BY <1>1, <1>2
<1> QED BY <1>3, <1>4, <1>5, <1>6

(* Whoever holds a socket is a client, and the socket is open.             *)
LEMMA HeldOpen ==
  ASSUME NEW S, NEW n, Talk(n, S), NEW s \in Sockets, n.peer[s] # Nobody
  PROVE  n.link[s] = "open" /\ n.peer[s] \in Clients
BY DEF Talk, WellFormed, PeersOpenIn, NetsOf

(* A client that is nowhere joins the line.                                *)
LEMMA DialledView ==
  ASSUME NEW S, Talk(net, S), Single(net), Unheld(net), NEW x \in Clients, Away(net, x),
         NEW messages \in Seq(Messages(S)), NEW n, n = Dialled(x, messages)
  PROVE  /\ n.peer = net.peer /\ n.to = net.to /\ n.from = net.from
         /\ Line(n) = Line(net) \union {[client |-> x, messages |-> messages]}
         /\ Single(n) /\ Unheld(n)
         /\ \A y : y # x => SameFor(y, net, n)
<1> DEFINE b == [client |-> x, messages |-> messages]
           B == [client : Clients, messages : Seq(Messages(S))]
<1>1. /\ n.peer = net.peer /\ n.to = net.to /\ n.from = net.from
      /\ n.backlog = Append(net.backlog, b)
  BY DEF Talk, WellFormed, NetsOf, Dialled
<1>2. net.backlog \in Seq(B) /\ b \in B
  BY DEF Talk, WellFormed, NetsOf
<1>3. b.client = x
  OBVIOUS
<1> HIDE DEF b, B
<1>4. Line(n) = Line(net) \union {b}
  BY <1>1, <1>2, LineAppended DEF Line
<1>5. Single(n)
  <2>1. \A j, k \in DOMAIN n.backlog : n.backlog[j].client = n.backlog[k].client => j = k
    <3>1. \A k \in DOMAIN net.backlog : net.backlog[k].client # x
      BY DEF Away, Line
    <3>2. \A j, k \in DOMAIN net.backlog :
            net.backlog[j].client = net.backlog[k].client => j = k
      BY DEF Single
    <3> QED BY <1>1, <1>2, <1>3, <3>1, <3>2, LineAppended
  <2> QED BY <1>1, <1>3, <1>4, <2>1 DEF Single, Away
<1>6. Unheld(n)
  BY <1>1 DEF Unheld
<1>7. \A y : y # x => SameFor(y, net, n)
  BY <1>1, <1>3, <1>4 DEF SameFor
<1> QED BY <1>1, <1>4, <1>5, <1>6, <1>7 DEF b

(* A round of select: nobody is accepted, or the first in line gets a      *)
(* socket that nobody holds.                                               *)
LEMMA SelectView ==
  ASSUME NEW S, Talk(net, S), Single(net), Unheld(net), Select
  PROVE  /\ Single(net') /\ Unheld(net')
         /\ \/ \A y : SameFor(y, net, net')
            \/ \E f \in Sockets, b \in Line(net) :
                 /\ net.peer[f] = Nobody /\ net.from[f] = <<>>
                 /\ b.client \in Clients
                 /\ net'.peer = [net.peer EXCEPT ![f] = b.client]
                 /\ net'.to = [net.to EXCEPT ![f] = b.messages]
                 /\ net'.from = net.from
                 /\ Line(net') = Line(net) \ {b}
                 /\ \A c \in Line(net') : c.client # b.client
                 /\ \A y : y # Nobody /\ y # b.client => SameFor(y, net, net')
<1> DEFINE n == Accepted(net)
<1>1. net \in NetsOf(Clients, Messages(S), Replies(S))
  BY DEF Talk, WellFormed
<1>2. net' = [n EXCEPT !.ready = Waiting]
  BY DEF Select
<1>3. CASE net.backlog = <<>>
  <2>1. /\ net'.to = net.to /\ net'.backlog = net.backlog
        /\ net'.from = net.from /\ net'.peer = net.peer
    BY <1>1, <1>2, <1>3 DEF Accepted, NetsOf
  <2>2. Line(net') = Line(net)
    BY <2>1 DEF Line
  <2> QED BY <2>1, <2>2 DEF Single, Unheld, SameFor
<1>4. CASE net.backlog # <<>>
  <2> DEFINE f == Min(Free)
             b == Head(net.backlog)
             B == [client : Clients, messages : Seq(Messages(S))]
  <2>1. f \in Sockets /\ net.link[f] = "free"
    <3>1. Free \subseteq Nat /\ Free # {}
      BY <1>4, FreeForBacklog DEF Free, Sockets, Talk
    <3>2. f \in Free
      BY <3>1, NatMin
    <3> QED BY <3>2 DEF Free
  <2>2. net.from[f] = <<>> /\ net.peer[f] = Nobody
    BY <2>1 DEF Talk, NothingLeft, WellFormed, PeersOpenIn
  <2>3. net.backlog \in Seq(B)
    BY <1>1 DEF NetsOf
  <2>4. n = [net EXCEPT !.link[f] = "open", !.peer[f] = b.client,
                        !.to[f] = b.messages, !.backlog = Tail(@)]
    BY <1>4 DEF Accepted
  <2> HIDE DEF f, B
  <2>5. /\ \A j, k \in DOMAIN Tail(net.backlog) :
             Tail(net.backlog)[j].client = Tail(net.backlog)[k].client => j = k
        /\ b \in Line(net)
        /\ {Tail(net.backlog)[k] : k \in DOMAIN Tail(net.backlog)} = Line(net) \ {b}
        /\ \A c \in {Tail(net.backlog)[k] : k \in DOMAIN Tail(net.backlog)} :
             c.client # b.client
    <3>1. \A j, k \in DOMAIN net.backlog :
            net.backlog[j].client = net.backlog[k].client => j = k
      BY DEF Single
    <3>2. /\ Head(net.backlog) \in {net.backlog[k] : k \in DOMAIN net.backlog}
          /\ {Tail(net.backlog)[k] : k \in DOMAIN Tail(net.backlog)} =
               {net.backlog[k] : k \in DOMAIN net.backlog} \ {Head(net.backlog)}
          /\ \A c \in {Tail(net.backlog)[k] : k \in DOMAIN Tail(net.backlog)} :
               c.client # Head(net.backlog).client
          /\ \A j, k \in DOMAIN Tail(net.backlog) :
               Tail(net.backlog)[j].client = Tail(net.backlog)[k].client => j = k
      BY <1>4, <2>3, <3>1, LineShortened
    <3> QED BY <3>2 DEF Line
  <2>6. b.client \in Clients
    <3>1. b \in B
      BY <1>4, <2>3, HeadTailProperties
    <3> QED BY <3>1 DEF B
  <2> HIDE DEF b, n
  <2>7. /\ net'.peer = [net.peer EXCEPT ![f] = b.client]
        /\ net'.to = [net.to EXCEPT ![f] = b.messages]
        /\ net'.from = net.from /\ net'.backlog = Tail(net.backlog)
    BY <1>1, <1>2, <2>4 DEF NetsOf
  <2>8. Line(net') = Line(net) \ {b} /\ \A c \in Line(net') : c.client # b.client
    <3>1. Line(net') = {Tail(net.backlog)[k] : k \in DOMAIN Tail(net.backlog)}
      BY <2>7, Zenon DEF Line
    <3> QED BY <2>5, <3>1, Zenon
  <2>9. /\ \A s \in Sockets : net'.peer[s] = IF s = f THEN b.client ELSE net.peer[s]
        /\ \A s \in Sockets : net'.to[s] = IF s = f THEN b.messages ELSE net.to[s]
    BY <1>1, <2>1, <2>7 DEF NetsOf
  <2>10. b.client # Nobody
    BY <2>6, FlightAssumption DEF FlightAssumption, Clients
  <2>11. Single(net')
    <3>1. \A s \in Sockets : net.peer[s] # b.client
      BY <2>5 DEF Single
    <3>2. \A s, t \in Sockets :
            net'.peer[s] # Nobody /\ net'.peer[s] = net'.peer[t] => s = t
      BY <2>9, <3>1 DEF Single
    <3>3. \A j, k \in DOMAIN net'.backlog :
            net'.backlog[j].client = net'.backlog[k].client => j = k
      BY <2>5, <2>7
    <3>4. \A s \in Sockets, c \in Line(net') : net'.peer[s] # c.client
      BY <2>8, <2>9 DEF Single
    <3> QED BY <3>2, <3>3, <3>4 DEF Single
  <2>12. Unheld(net')
    BY <2>9, <2>10 DEF Unheld
  <2>13. \A y : y # Nobody /\ y # b.client => SameFor(y, net, net')
    BY <2>2, <2>7, <2>8, <2>9 DEF SameFor
  <2> QED BY <2>1, <2>2, <2>5, <2>6, <2>7, <2>8, <2>11, <2>12, <2>13
<1> QED BY <1>3, <1>4

(* A message is received.                                                  *)
LEMMA ReceivedView ==
  ASSUME NEW S, Talk(net, S), Single(net), Unheld(net), NEW s \in Sockets,
         net.to[s] # <<>>, NEW n, n = Received(s)
  PROVE  /\ net.peer[s] \in Clients
         /\ n.peer = net.peer /\ n.from = net.from /\ n.link = net.link /\ n.up = net.up
         /\ n.to = [net.to EXCEPT ![s] = Tail(@)]
         /\ Line(n) = Line(net) /\ Single(n) /\ Unheld(n) /\ Talk(n, S)
         /\ \A y : y # net.peer[s] => SameFor(y, net, n)
<1>1. net \in NetsOf(Clients, Messages(S), Replies(S))
  BY DEF Talk, WellFormed
<1>2. /\ n.peer = net.peer /\ n.from = net.from /\ n.link = net.link /\ n.up = net.up
      /\ n.to = [net.to EXCEPT ![s] = Tail(@)] /\ n.backlog = net.backlog
  BY <1>1 DEF Received, Served, NetsOf
<1>3. Talk(n, S)
  BY TalkServed
<1>4. net.peer[s] # Nobody /\ net.peer[s] \in Clients
  BY HeldOpen DEF Unheld
<1>5. Line(n) = Line(net)
  BY <1>2 DEF Line
<1>6. Single(n)
  BY <1>2, <1>5 DEF Single
<1>7. \A t \in Sockets : t # s => n.to[t] = net.to[t]
  BY <1>1, <1>2 DEF NetsOf
<1>8. Unheld(n)
  BY <1>2, <1>4, <1>7 DEF Unheld
<1>9. \A y : y # net.peer[s] => SameFor(y, net, n)
  BY <1>2, <1>5, <1>7 DEF SameFor
<1> QED BY <1>2, <1>3, <1>4, <1>5, <1>6, <1>8, <1>9

(* In n2 the message m has been sent to socket s.                          *)
Sent(n, n2, s, m) ==
  /\ n2.peer = n.peer /\ n2.to = n.to
  /\ n2.from = [n.from EXCEPT ![s] = Append(@, m)]

(* A message to a client that is there goes to it and nowhere else.        *)
LEMMA SendsView ==
  ASSUME NEW S, NEW n, Talk(n, S), Single(n), Unheld(n), n.up, NEW s \in Sockets,
         n.peer[s] # Nobody, NEW m \in Replies(S), n.peer[s] = CarName => m \in FloorsOf(S),
         NEW n2 \in Sends(n, s, m)
  PROVE  /\ Sent(n, n2, s, m) /\ n2.up /\ Line(n2) = Line(n)
         /\ Single(n2) /\ Unheld(n2) /\ Talk(n2, S)
         /\ \A y : y # n.peer[s] => SameFor(y, n, n2)
<1>1. n \in NetsOf(Clients, Messages(S), Replies(S))
  BY DEF Talk, WellFormed
<1>2. n.link[s] = "open"
  BY HeldOpen
<1>3. n2 = [n EXCEPT !.from[s] = Append(@, m)]
  BY <1>2 DEF Sends
<1>4. /\ n2.peer = n.peer /\ n2.to = n.to /\ n2.up /\ n2.backlog = n.backlog
      /\ n2.from = [n.from EXCEPT ![s] = Append(@, m)]
  BY <1>1, <1>3 DEF NetsOf
<1>5. Line(n2) = Line(n)
  BY <1>4 DEF Line
<1>6. Single(n2) /\ Unheld(n2)
  BY <1>4, <1>5 DEF Single, Unheld
<1>7. Talk(n2, S)
  BY TalkSends
<1>8. \A y : y # n.peer[s] => SameFor(y, n, n2)
  BY <1>1, <1>4, <1>5 DEF SameFor, NetsOf
<1> QED BY <1>4, <1>5, <1>6, <1>7, <1>8 DEF Sent

(* A descriptor that nobody holds is closed.                               *)
LEMMA ClosedView ==
  ASSUME NEW S, Talk(net, S), Single(net), Unheld(net), NEW s \in Sockets,
         net.link[s] # "open", NEW n, n = Closed(Served(s), s)
  PROVE  /\ net.peer[s] = Nobody /\ Single(n) /\ Unheld(n)
         /\ \A y : y # Nobody => SameFor(y, net, n)
<1>1. net \in NetsOf(Clients, Messages(S), Replies(S))
  BY DEF Talk, WellFormed
<1>2. /\ n.peer = net.peer /\ n.backlog = net.backlog
      /\ n.to = [net.to EXCEPT ![s] = <<>>] /\ n.from = [net.from EXCEPT ![s] = <<>>]
  BY <1>1 DEF Closed, Served, NetsOf
<1>3. net.peer[s] = Nobody
  BY HeldOpen
<1>4. Line(n) = Line(net)
  BY <1>2 DEF Line
<1>5. \A t \in Sockets : t # s => n.to[t] = net.to[t] /\ n.from[t] = net.from[t]
  BY <1>1, <1>2 DEF NetsOf
<1>6. n.to[s] = <<>>
  BY <1>1, <1>2 DEF NetsOf
<1>7. Single(n) /\ Unheld(n)
  BY <1>2, <1>4, <1>5, <1>6 DEF Single, Unheld
<1>8. \A y : y # Nobody => SameFor(y, net, n)
  BY <1>2, <1>3, <1>4, <1>5 DEF SameFor
<1> QED BY <1>3, <1>7, <1>8

(* A client that has nothing to be received any more leaves.               *)
LEMMA AbandonedView ==
  ASSUME NEW S, Talk(net, S), Single(net), Unheld(net), NEW s \in Sockets,
         net.peer[s] # Nobody, net.to[s] = <<>>, NEW unread,
         NEW n, n = Abandoned([net EXCEPT !.from[s] = unread], s)
  PROVE  /\ Single(n) /\ Unheld(n) /\ Away(n, net.peer[s])
         /\ \A y : y # Nobody /\ y # net.peer[s] => SameFor(y, net, n)
<1>1. net \in NetsOf(Clients, Messages(S), Replies(S))
  BY DEF Talk, WellFormed
<1>2. /\ n.peer = [net.peer EXCEPT ![s] = Nobody]
      /\ n.from = [[net.from EXCEPT ![s] = unread] EXCEPT ![s] = <<>>]
      /\ n.to = net.to /\ n.backlog = net.backlog
  BY <1>1 DEF Abandoned, NetsOf
<1>3. Line(n) = Line(net)
  BY <1>2 DEF Line
<1>4. /\ \A t \in Sockets : n.peer[t] = IF t = s THEN Nobody ELSE net.peer[t]
      /\ \A t \in Sockets : t # s => n.from[t] = net.from[t]
  BY <1>1, <1>2 DEF NetsOf
<1>5. Single(n)
  <2>1. \A t \in Sockets, b \in Line(n) : n.peer[t] # b.client
    <3>1. \A b \in Line(net) : b.client # Nobody
      <4>1. \A k \in DOMAIN net.backlog : net.backlog[k].client \in Clients
        <5> DEFINE B == [client : Clients, messages : Seq(Messages(S))]
        <5>1. net.backlog \in Seq(B)
          BY <1>1 DEF NetsOf
        <5>2. \A b \in B : b.client \in Clients
          OBVIOUS
        <5> HIDE DEF B
        <5> QED BY <5>1, <5>2, LenProperties, ElementOfSeq
      <4> QED BY <4>1, FlightAssumption DEF Line, FlightAssumption, Clients
    <3> QED BY <1>3, <1>4, <3>1 DEF Single
  <2> QED BY <1>2, <1>4, <2>1 DEF Single
<1>6. Unheld(n)
  BY <1>2, <1>4 DEF Unheld
<1>7. Away(n, net.peer[s])
  BY <1>3, <1>4 DEF Away, Single
<1>8. \A y : y # Nobody /\ y # net.peer[s] => SameFor(y, net, n)
  BY <1>2, <1>3, <1>4 DEF SameFor
<1> QED BY <1>5, <1>6, <1>7, <1>8

-----------------------------------------------------------------------------
(* Floors under way to the car.                                            *)

(* A sequence of two.                                                      *)
LEMMA PairAppended ==
  ASSUME NEW x, NEW y
  PROVE  Append(<<x>>, y) = <<x, y>>
<1>1. ASSUME NEW X, NEW q \in Seq(X), NEW r \in Seq(X), Len(q) = 2, Len(r) = 2,
             q[1] = r[1], q[2] = r[2]
      PROVE  q = r
  <2>1. \A k \in 1 .. 2 : k = 1 \/ k = 2
    OBVIOUS
  <2> QED BY <1>1, <2>1, SeqEqual
<1>2. <<x>> \in Seq({x, y}) /\ <<x, y>> \in Seq({x, y}) /\ y \in {x, y}
  OBVIOUS
<1>3. /\ Append(<<x>>, y) \in Seq({x, y}) /\ Len(Append(<<x>>, y)) = 2
      /\ Append(<<x>>, y)[1] = x /\ Append(<<x>>, y)[2] = y
  BY <1>2, AppendProperties
<1>4. Len(<<x, y>>) = 2 /\ <<x, y>>[1] = x /\ <<x, y>>[2] = y
  OBVIOUS
<1> HIDE <1>2
<1> QED BY <1>1, <1>2, <1>3, <1>4, Zenon

(* There are never more than two.                                          *)
LEMMA FewFloors ==
  ASSUME NEW a, NEW b
  PROVE  /\ FloorsTo(<<>>) = <<>>
         /\ FloorsTo(<<a>>) = <<FloorMessage(a)>>
         /\ FloorsTo(<<a, b>>) = <<FloorMessage(a), FloorMessage(b)>>
         /\ Append(FloorsTo(<<>>), FloorMessage(a)) = FloorsTo(<<a>>)
         /\ Append(FloorsTo(<<a>>), FloorMessage(b)) = FloorsTo(<<a, b>>)
         /\ FloorsTo(<<a>>) # <<>> /\ Tail(FloorsTo(<<a>>)) = FloorsTo(<<>>)
         /\ FloorsTo(<<a, b>>) # <<>> /\ Tail(FloorsTo(<<a, b>>)) = FloorsTo(<<b>>)
         /\ <<a>> # <<>> /\ Head(<<a>>) = a /\ Tail(<<a>>) = <<>>
         /\ <<a, b>> # <<>> /\ Head(<<a, b>>) = a /\ Tail(<<a, b>>) = <<b>>
<1>1. FloorsTo(<<>>) = <<>>
  BY DEF FloorsTo
<1>2. \A x : FloorsTo(<<x>>) = <<FloorMessage(x)>>
  BY DEF FloorsTo
<1>3. FloorsTo(<<a, b>>) = <<FloorMessage(a), FloorMessage(b)>>
  BY DEF FloorsTo
<1>4. Append(<<FloorMessage(a)>>, FloorMessage(b)) = <<FloorMessage(a), FloorMessage(b)>>
  BY PairAppended
<1>5. \A x : Append(<<>>, x) = <<x>>
  OBVIOUS
<1>6. \A x : <<x>> # <<>> /\ Head(<<x>>) = x /\ Tail(<<x>>) = <<>>
  OBVIOUS
<1>7. \A x, y : <<x, y>> # <<>> /\ Head(<<x, y>>) = x /\ Tail(<<x, y>>) = <<y>>
  OBVIOUS
<1> QED BY <1>1, <1>2, <1>3, <1>4, <1>5, <1>6, <1>7, Zenon

(* The inbox of the car is what is under way on its one socket.            *)
LEMMA SentIs ==
  ASSUME NEW n, Single(n), NEW s \in Sockets, n.peer[s] = CarName,
         NEW q \in Seq(Int), n.from[s] = FloorsTo(q)
  PROVE  SentToCar(n) = q
<1> DEFINE held == {t \in Sockets : n.peer[t] = CarName}
<1>1. held = {s}
  BY FlightAssumption DEF Single, FlightAssumption
<1>2. Min(held) = s
  <2>1. held \subseteq Nat /\ held # {}
    BY <1>1 DEF Sockets
  <2> HIDE DEF held
  <2>2. Min(held) \in held
    BY <2>1, NatMin
  <2> QED BY <1>1, <2>2
<1>3. SentToCar(n) = [k \in DOMAIN n.from[s] |-> n.from[s][k].floor]
  BY <1>1, <1>2 DEF SentToCar
<1>4. /\ DOMAIN n.from[s] = 1 .. Len(q)
      /\ \A k \in 1 .. Len(q) : n.from[s][k].floor = q[k]
  BY DEF FloorsTo, FloorMessage
<1>5. q = [k \in 1 .. Len(q) |-> q[k]]
  BY LenProperties
<1> QED BY <1>3, <1>4, <1>5

(* It is empty if nothing is.                                              *)
LEMMA NothingSent ==
  ASSUME NEW n, \A s \in Sockets : n.peer[s] = CarName => n.from[s] = <<>>
  PROVE  SentToCar(n) = <<>>
<1> DEFINE held == {t \in Sockets : n.peer[t] = CarName}
<1>1. CASE held = {}
  BY <1>1 DEF SentToCar
<1>2. CASE held # {}
  <2>1. held \subseteq Nat
    BY DEF Sockets
  <2>2. Min(held) \in held
    <3> HIDE DEF held
    <3> QED BY <1>2, <2>1, NatMin
  <2>3. n.from[Min(held)] = <<>>
    BY <2>2
  <2>4. SentToCar(n) = [k \in DOMAIN n.from[Min(held)] |-> n.from[Min(held)][k].floor]
    BY <1>2 DEF SentToCar
  <2>5. [k \in DOMAIN <<>> |-> <<>>[k].floor] = <<>>
    OBVIOUS
  <2> HIDE DEF held
  <2> QED BY <2>3, <2>4, <2>5
<1> QED BY <1>1, <1>2

(* The socket of a client is the one it holds.                             *)
LEMMA SocketIs ==
  ASSUME Single(net), NEW s \in Sockets, NEW x, x # Nobody, net.peer[s] = x
  PROVE  SocketOf(x) = s
<1>1. HeldBy(x) = {s}
  BY DEF Single, HeldBy
<1>2. {s} \subseteq Nat /\ {s} # {}
  BY DEF Sockets
<1>3. Min({s}) \in {s}
  BY <1>2, NatMin
<1> QED BY <1>1, <1>3 DEF SocketOf

-----------------------------------------------------------------------------
(* What is under way to and from the passenger and the car.                *)

Basis(p) ==
  /\ FloorsInv(Stops) /\ ShaftInv /\ MovesBetween
  /\ Quiet /\ Calm /\ Single(net) /\ Unheld(net) /\ PadAt(p)

(* There are two clients.                                                  *)
LEMMA TwoClients ==
  ASSUME NEW p \in Pads, Pads = {p}
  PROVE  /\ Clients = {p, CarName} /\ p # CarName /\ p # Nobody /\ CarName # Nobody
BY FlightAssumption DEF FlightAssumption, Clients

(* A step that is not about the passenger leaves the CALL where it is.     *)
LEMMA PadFrame ==
  ASSUME NEW p, SameFor(p, net, net'), UNCHANGED pad
  PROVE  /\ PadAt(p) => PadAt(p)'
         /\ Asked(p) => Asked(p)'
<1>1. /\ \A s \in Sockets : net'.peer[s] = p => net.peer[s] = p
      /\ \A s \in Sockets : net'.peer[s] = p =>
           net'.to[s] = net.to[s] /\ net'.from[s] = net.from[s]
      /\ \A b \in Line(net') : b.client = p => b \in Line(net)
  BY DEF SameFor
<1>2. Asked(p) => Asked(p)'
  BY <1>1 DEF Asked
<1>3. Away(net, p) => Away(net', p)
  BY <1>1 DEF Away
<1>4. PadAt(p) => PadAt(p)'
  <2>1. CallOf(p)' = CallOf(p)
    BY DEF CallOf
  <2> QED BY <1>1, <1>3, <2>1 DEF PadAt
<1> QED BY <1>2, <1>4

(* A step that is not about the car leaves what it was sent where it is.   *)
LEMMA CarFrame ==
  ASSUME SameFor(CarName, net, net'), UNCHANGED <<cars, sockets>>, pc'["tcp"] = pc["tcp"],
         Single(net'), \/ UNCHANGED inbox
                       \/ inbox' = SentToCar(net'),
         NEW R
  PROVE  /\ Unlisted(R) => Unlisted(R)'
         /\ \A s : Listed(s, R) => Listed(s, R)'
         /\ \A s, q : Listed(s, R) /\ q \in Seq(Int) /\ UnderWay(s, q) => UnderWay(s, q)'
<1>1. /\ \A s \in Sockets : net'.peer[s] = CarName <=> net.peer[s] = CarName
      /\ \A s \in Sockets : net.peer[s] = CarName =>
           net'.to[s] = net.to[s] /\ net'.from[s] = net.from[s]
      /\ \A b : b.client = CarName => (b \in Line(net') <=> b \in Line(net))
  BY DEF SameFor
<1>2. \A s : Listed(s, R) => Listed(s, R)'
  BY <1>1 DEF Listed
<1>3. ASSUME NEW s, NEW q \in Seq(Int), Listed(s, R), UnderWay(s, q) PROVE UnderWay(s, q)'
  <2>1. /\ s \in Sockets /\ net'.peer[s] = CarName
        /\ net'.from[s] = net.from[s] /\ net.from[s] = FloorsTo(q) /\ inbox = q
    BY <1>1, <1>3 DEF Listed, UnderWay
  <2>2. inbox' = q
    BY <2>1, SentIs
  <2> QED BY <2>1, <2>2 DEF UnderWay
<1>4. ASSUME Unlisted(R) PROVE Unlisted(R)'
  <2>1. \A s \in Sockets : net'.peer[s] = CarName => net'.from[s] = <<>>
    BY <1>1, <1>4 DEF Unlisted
  <2>2. cars' = <<>> /\ inbox' = <<>>
    BY <1>4, <2>1, NothingSent DEF Unlisted
  <2>3. CASE /\ pc["tcp"] \in {"connect", "register"}
             /\ pc["tcp"] = "connect" => sockets = 0
             /\ Away(net, CarName)
    <3>1. Away(net', CarName)
      BY <1>1, <2>3 DEF Away
    <3> QED BY <2>1, <2>2, <2>3, <3>1 DEF Unlisted
  <2>4. CASE /\ pc["tcp"] \in {"top", "wait", "heed"}
             /\ \E b \in Line(net) :
                  b.client = CarName /\ \E r \in R : b.messages = <<Hello, r>>
    <3>1. \E b \in Line(net') :
            b.client = CarName /\ \E r \in R : b.messages = <<Hello, r>>
      BY <1>1, <2>4
    <3> QED BY <2>1, <2>2, <2>4, <3>1 DEF Unlisted
  <2>5. CASE /\ pc["tcp"] \in {"top", "wait", "heed"}
             /\ \E s \in Sockets :
                  /\ net.peer[s] = CarName /\ net.to[s] # <<>>
                  /\ Head(net.to[s]) = Hello /\ Tail(net.to[s]) \in Seq(R)
    <3>1. \E s \in Sockets :
            /\ net'.peer[s] = CarName /\ net'.to[s] # <<>>
            /\ Head(net'.to[s]) = Hello /\ Tail(net'.to[s]) \in Seq(R)
      BY <1>1, <2>5
    <3> QED BY <2>1, <2>2, <2>5, <3>1 DEF Unlisted
  <2> QED BY <1>4, <2>3, <2>4, <2>5 DEF Unlisted
<1> QED BY <1>2, <1>3, <1>4

-----------------------------------------------------------------------------
(* The controller.                                                         *)

(* A step that does not touch the car leaves it where it stands.           *)
LEMMA CarStill ==
  ASSUME UNCHANGED <<shm, pc, current_status, floordiff, i, shm_send, read_flag, breaks>>
  PROVE  /\ Quiet => Quiet'
         /\ Calm => Calm'
         /\ Standing => Standing'
         /\ Opens => Opens'
         /\ \A f : RestsAt(f) => RestsAt(f)'
         /\ \A S : OnCourse(S) => OnCourse(S)'
<1>1. Quiet => Quiet'
  BY DEF Quiet
<1>2. Calm => Calm'
  BY DEF Calm
<1>3. Standing => Standing'
  BY DEF Standing
<1>4. Opens => Opens'
  BY DEF Opens
<1>5. \A f : RestsAt(f) => RestsAt(f)'
  BY DEF RestsAt
<1>6. ASSUME NEW S, OnCourse(S) PROVE OnCourse(S)'
  <2>1. AtStop(S)' /\ ToStop(S)' /\ HereStill'
    BY <1>6 DEF OnCourse, AtStop, ToStop, Untold, HereStill
  <2>2. TripToStop(S)'
    BY <1>6 DEF OnCourse, TripToStop, Ends, TripEnd
  <2> QED BY <2>1, <2>2 DEF OnCourse
<1> QED BY <1>1, <1>2, <1>3, <1>4, <1>5, <1>6

(* Everything under way to the controller is the call of the pad, a        *)
(* greeting of the car or one of its reports.                              *)
LEMMA TurnView ==
  ASSUME NEW p \in Pads, Pads = {p}, Basis(p), NEW s \in Sockets, net.to[s] # <<>>
  PROVE  /\ net.peer[s] \in {p, CarName}
         /\ net.peer[s] = p =>
              /\ net.to[s] = <<CallOf(p)>> /\ net.from[s] = <<>>
              /\ pad[p].phase # "idle" /\ pad[p].call \in Label \X Label
              /\ Head(net.to[s]) = CallOf(p) /\ Tail(net.to[s]) = <<>>
         /\ net.peer[s] = CarName =>
              Head(net.to[s]) \in CarMessages /\ Head(net.to[s]).kind \in {"CAR", "STATUS"}
<1>1. Talk(net, Stops) /\ Unheld(net) /\ PadAt(p)
  BY DEF Basis, FloorsInv, TalkInv
<1>2. net.peer[s] \in {p, CarName}
  <2>1. net.peer[s] # Nobody
    BY <1>1 DEF Unheld
  <2>2. net.peer[s] \in Clients
    BY <1>1, <2>1, HeldOpen
  <2> QED BY <2>2, TwoClients
<1>3. ASSUME net.peer[s] = p
      PROVE  /\ net.to[s] = <<CallOf(p)>> /\ net.from[s] = <<>>
             /\ pad[p].phase # "idle" /\ pad[p].call \in Label \X Label
             /\ Head(net.to[s]) = CallOf(p) /\ Tail(net.to[s]) = <<>>
  <2>1. /\ net.to[s] = <<CallOf(p)>> /\ net.from[s] = <<>>
        /\ pad[p].phase # "idle" /\ pad[p].call \in Label \X Label
    BY <1>1, <1>3 DEF PadAt, Away
  <2>2. \A x : Head(<<x>>) = x /\ Tail(<<x>>) = <<>>
    OBVIOUS
  <2> QED BY <2>1, <2>2
<1>4. ASSUME net.peer[s] = CarName PROVE Head(net.to[s]) \in CarMessages
  <2>1. net.to[s] \in Seq(CarMessages)
    BY <1>1, <1>4 DEF Talk, CarLine
  <2> QED BY <2>1, HeadTailProperties
<1>5. \A m \in CarMessages : m.kind \in {"CAR", "STATUS"}
  BY DEF CarMessages, CarMessage
<1> QED BY <1>2, <1>3, <1>4, <1>5

(* What the controller can do: accept, hang up on somebody who has left,   *)
(* or handle the call, the greeting or a report.                           *)
LEMMA ControlView ==
  ASSUME NEW p \in Pads, Pads = {p}, Basis(p), Serve, UNCHANGED pad,
         \A k \in DOMAIN cars : net.peer[cars[k].connectionsocket] = CarName
  PROVE  \/ /\ Single(net') /\ Unheld(net') /\ PadAt(p)' /\ UNCHANGED cars
            /\ SameFor(CarName, net, net')
            /\ \/ SameFor(p, net, net')
               \/ /\ ~Asked(p)
                  /\ \A s \in Sockets : net'.peer[s] = p => net'.from[s] = <<>>
         \/ /\ Single(net') /\ Unheld(net') /\ PadAt(p)' /\ UNCHANGED cars
            /\ SameFor(p, net, net')
            /\ \E f \in Sockets, b \in Line(net) :
                 /\ b.client = CarName /\ net'.peer[f] = CarName
                 /\ net'.to[f] = b.messages /\ net'.from[f] = <<>>
         \/ \E s \in Sockets : net.peer[s] = p /\ HandleCall(s)
         \/ \E s \in Sockets : net.peer[s] = CarName /\ HandleCar(s)
         \/ \E s \in Sockets : net.peer[s] = CarName /\ HandleStatus(s)
<1>1. Talk(net, Stops) /\ Single(net) /\ Unheld(net) /\ PadAt(p) /\ cars \in Seq(Entries(Stops))
  BY DEF Basis, FloorsInv, TalkInv
<1>2. Clients = {p, CarName} /\ p # CarName /\ p # Nobody /\ CarName # Nobody
  BY TwoClients
<1>3. ASSUME SameFor(p, net, net'), SameFor(CarName, net, net'), UNCHANGED cars,
             Single(net'), Unheld(net')
      PROVE  /\ Single(net') /\ Unheld(net') /\ PadAt(p)' /\ UNCHANGED cars
             /\ SameFor(CarName, net, net') /\ SameFor(p, net, net')
  BY <1>1, <1>3, PadFrame
<1>4. CASE Select /\ UNCHANGED cars
  <2>1. CASE \A y : SameFor(y, net, net')
    BY <1>1, <1>3, <1>4, <2>1, SelectView
  <2>2. CASE ~\A y : SameFor(y, net, net')
    <3>1. PICK f \in Sockets, b \in Line(net) :
            /\ net.peer[f] = Nobody /\ net.from[f] = <<>>
            /\ b.client \in Clients
            /\ net'.peer = [net.peer EXCEPT ![f] = b.client]
            /\ net'.to = [net.to EXCEPT ![f] = b.messages]
            /\ net'.from = net.from
            /\ Line(net') = Line(net) \ {b}
            /\ \A c \in Line(net') : c.client # b.client
            /\ \A y : y # Nobody /\ y # b.client => SameFor(y, net, net')
      BY <1>1, <1>4, <2>2, SelectView
    <3>2. Single(net') /\ Unheld(net')
      BY <1>1, <1>4, SelectView
    <3>3. /\ \A s \in Sockets : net'.peer[s] = IF s = f THEN b.client ELSE net.peer[s]
          /\ \A s \in Sockets : net'.to[s] = IF s = f THEN b.messages ELSE net.to[s]
      BY <1>1, <3>1 DEF Talk, WellFormed, NetsOf
    <3>4. CASE b.client = CarName
      <4>1. SameFor(p, net, net')
        BY <1>2, <3>1, <3>4
      <4>2. PadAt(p)'
        BY <1>1, <4>1, PadFrame
      <4> QED BY <1>4, <3>1, <3>2, <3>3, <3>4, <4>1, <4>2
    <3>5. CASE b.client = p
      <4>1. SameFor(CarName, net, net')
        BY <1>2, <3>1, <3>5
      <4>2. \A s \in Sockets : net'.peer[s] = p => s = f
        BY <1>1, <3>3, <3>5 DEF Single
      <4>3. /\ b.messages = <<CallOf(p)>> /\ pad[p].phase # "idle"
            /\ pad[p].call \in Label \X Label /\ ~Asked(p)
        BY <1>1, <3>5 DEF PadAt, Away, Asked
      <4>4. \A c \in Line(net') : c.client # p
        BY <3>1, <3>5
      <4>5. CallOf(p)' = CallOf(p)
        BY DEF CallOf
      <4>6. PadAt(p)'
        BY <3>1, <3>3, <4>2, <4>3, <4>4, <4>5 DEF PadAt
      <4>7. \A s \in Sockets : net'.peer[s] = p => net'.from[s] = <<>>
        BY <3>1, <4>2
      <4> QED BY <1>4, <3>2, <4>1, <4>3, <4>6, <4>7
    <3> QED BY <1>2, <3>1, <3>4, <3>5
  <2> QED BY <2>1, <2>2
<1>5. ASSUME NEW s \in Sockets, HandleSocket(s)
      PROVE  \/ net.peer[s] = p /\ HandleCall(s)
             \/ net.peer[s] = CarName /\ HandleCar(s)
             \/ net.peer[s] = CarName /\ HandleStatus(s)
             \/ /\ SameFor(p, net, net') /\ SameFor(CarName, net, net') /\ UNCHANGED cars
                /\ Single(net') /\ Unheld(net')
  <2>1. CASE Arrived(s)
    <3>1. net.to[s] # <<>>
      BY <2>1 DEF Arrived
    <3>2. net.peer[s] = p => Head(net.to[s]).kind = "CALL"
      BY <3>1, TurnView DEF CallOf, CallMessage
    <3>3. \/ net.peer[s] = p /\ Head(net.to[s]).kind = "CALL"
          \/ net.peer[s] = CarName /\ Head(net.to[s]).kind \in {"CAR", "STATUS"}
      BY <3>1, <3>2, TurnView
    <3> QED BY <1>5, <3>1, <3>3
            DEF HandleSocket, HandleCall, HandleCar, HandleStatus, HandleOther,
                HandleHangUp, HandleError
  <2>2. CASE ~Arrived(s)
    <3>1. HandleHangUp(s) \/ HandleError(s)
      BY <1>5, <2>2
         DEF HandleSocket, HandleCall, HandleCar, HandleStatus, HandleOther
    <3>2. net.link[s] # "open" /\ net' = Closed(Served(s), s)
      BY <3>1 DEF HandleHangUp, HandleError
    <3>3. net.peer[s] = Nobody /\ Single(net') /\ Unheld(net')
      BY <1>1, <3>2, ClosedView
    <3>4. SameFor(p, net, net') /\ SameFor(CarName, net, net')
      BY <1>1, <1>2, <3>2, ClosedView
    <3>5. OnSocket(s) = {}
      BY <1>2, <3>3 DEF OnSocket
    <3>6. UNCHANGED cars
      BY <3>1, <3>5 DEF HandleHangUp, HandleError
    <3> QED BY <3>3, <3>4, <3>6
  <2> QED BY <2>1, <2>2
<1>6. CASE \E s \in Sockets : HandleSocket(s)
  <2>1. PICK s \in Sockets : HandleSocket(s)
    BY <1>6
  <2> QED BY <1>3, <1>5, <2>1
<1> QED BY <1>4, <1>6 DEF Serve

(* The entry after a report.                                               *)
Reported(e, m, queue) == [Updated(e, m) EXCEPT !.queue = queue]

(* What an entry of the car is, and becomes with a report.                 *)
LEMMA EntryFields ==
  ASSUME NEW S, NEW e \in Entries(S)
  PROVE  /\ e.name = CarName /\ e.queue \in Seq(NodesOf(Wanted(S)))
         /\ e.lowest_floor = LowestFloor /\ e.highest_floor = HighestFloor
         /\ e.currentfloor \in Int /\ e.destinationfloor \in Int
         /\ \A m, q, u : u = Reported(e, m, q) =>
              /\ u.queue = q /\ u.previous_status = m.status
              /\ u.currentfloor = m.currentfloor
              /\ u.destinationfloor = m.destinationfloor
              /\ u.connectionsocket = e.connectionsocket
         /\ \A q, u : u = Booked(e, q) =>
              /\ u.queue = q /\ u.previous_status = e.previous_status
              /\ u.connectionsocket = e.connectionsocket
<1>1. e.name = CarName /\ e.lowest_floor = LowestFloor /\ e.highest_floor = HighestFloor
  BY DEF Entries
<1>2. e.queue \in Seq(NodesOf(Wanted(S)))
  BY DEF Entries
<1>3. e.currentfloor \in Int /\ e.destinationfloor \in Int
  BY DEF Entries
<1>4. ASSUME NEW m, NEW q, NEW u, u = Reported(e, m, q)
      PROVE  /\ u.queue = q /\ u.previous_status = m.status
             /\ u.currentfloor = m.currentfloor
             /\ u.destinationfloor = m.destinationfloor
             /\ u.connectionsocket = e.connectionsocket
  BY <1>4 DEF Entries, Updated, Reported
<1>5. ASSUME NEW q, NEW u, u = Booked(e, q)
      PROVE  /\ u.queue = q /\ u.previous_status = e.previous_status
             /\ u.connectionsocket = e.connectionsocket
  BY <1>5 DEF Entries, Booked
<1> QED BY <1>1, <1>2, <1>3, <1>4, <1>5

(* The one entry of the list is that of the car.                           *)
LEMMA OneCar ==
  ASSUME cars \in Seq(Entries(Stops)), NEW R, NEW s, Listed(s, R)
  PROVE  /\ DOMAIN cars = {1} /\ cars[1] \in Entries(Stops)
         /\ Named(CarName) = {1} /\ Min({1}) = 1
         /\ controller_get_socket_by_name(CarName) = s
         /\ OnSocket(s) = {1} /\ controller_get_name_by_socket(s) = CarName
         /\ cars[1].name = CarName
         /\ \A e : Len([cars EXCEPT ![1] = e]) = 1 /\ [cars EXCEPT ![1] = e][1] = e
<1>1. Len(cars) = 1 /\ cars[1].connectionsocket = s
  BY DEF Listed
<1>2. DOMAIN cars = {1}
  <2>1. 1 .. 1 = {1}
    OBVIOUS
  <2> QED BY <1>1, <2>1, LenProperties
<1>3. cars[1] \in Entries(Stops)
  BY <1>2, EntryAt
<1>4. cars[1].name = CarName
  BY <1>3, EntryFields
<1>5. Named(CarName) = {1} /\ OnSocket(s) = {1}
  BY <1>1, <1>2, <1>4 DEF Named, OnSocket
<1>6. Min({1}) = 1
  <2>1. {1} \subseteq Nat /\ {1} # {}
    OBVIOUS
  <2>2. Min({1}) \in {1}
    BY <2>1, NatMin
  <2> QED BY <2>2
<1>7. \A e : Len([cars EXCEPT ![1] = e]) = 1 /\ [cars EXCEPT ![1] = e][1] = e
  <2>1. ASSUME NEW e PROVE Len([cars EXCEPT ![1] = e]) = 1 /\ [cars EXCEPT ![1] = e][1] = e
    <3>1. cars \in Seq(Entries(Stops) \union {e}) /\ 1 \in 1 .. Len(cars)
      BY <1>1, SeqGrows
    <3>2. Len([cars EXCEPT ![1] = e]) = Len(cars) /\ [cars EXCEPT ![1] = e][1] = e
      BY <3>1, ExceptSeq
    <3> QED BY <1>1, <3>2
  <2> QED BY <2>1
<1> QED BY <1>1, <1>2, <1>3, <1>4, <1>5, <1>6, <1>7
        DEF controller_get_socket_by_name, controller_get_name_by_socket

(* A report is taken for what it is, and may cost a stop of the queue.     *)
LEMMA StatusView ==
  ASSUME NEW p \in Pads, Pads = {p}, Basis(p), NEW R, NEW s, Listed(s, R),
         NEW t \in Sockets, net.peer[t] = CarName, HandleStatus(t)
  PROVE  /\ net.to[s] # <<>> /\ Head(net.to[s]) \in R
         /\ Single(net') /\ Unheld(net') /\ SameFor(p, net, net')
         /\ UNCHANGED pc => Listed(s, R)'
         /\ LET m       == Head(net.to[s])
                arrives == Arrives(cars[1], m)
                queue   == IF arrives THEN remove_from_car_queue(cars[1].queue)
                                      ELSE cars[1].queue
                next    == get_next_destination(queue)
            IN  /\ cars'[1].queue = queue /\ cars'[1].previous_status = m.status
                /\ cars'[1].currentfloor = m.currentfloor
                /\ cars'[1].destinationfloor = m.destinationfloor
                /\ net'.from[s] = IF arrives /\ next # -1
                                    THEN Append(net.from[s], FloorMessage(next))
                                    ELSE net.from[s]
<1> DEFINE m == Head(net.to[s])
           arrives == Arrives(cars[1], m)
           queue == IF arrives THEN remove_from_car_queue(cars[1].queue) ELSE cars[1].queue
           next == get_next_destination(queue)
           e == [Updated(cars[1], m) EXCEPT !.queue = queue]
           n == Received(s)
<1>1. /\ Talk(net, Stops) /\ Single(net) /\ Unheld(net)
      /\ Stops \subseteq Label /\ cars \in Seq(Entries(Stops))
  BY DEF Basis, FloorsInv, TalkInv
<1>2. p # CarName /\ CarName # Nobody
  BY TwoClients
<1>3. s \in Sockets /\ net.peer[s] = CarName /\ net.to[s] \in Seq(R)
  BY DEF Listed
<1>4. t = s
  BY <1>1, <1>2, <1>3 DEF Single
<1>5. net.to[s] # <<>> /\ net.up
  BY <1>4 DEF HandleStatus, Arrived, Turn
<1>6. m \in R /\ Tail(net.to[s]) \in Seq(R)
  BY <1>3, <1>5, HeadTailProperties
<1>7. /\ DOMAIN cars = {1} /\ cars[1] \in Entries(Stops) /\ OnSocket(s) = {1}
      /\ Min(Named(controller_get_name_by_socket(s))) = 1
  BY <1>1, OneCar
<1>8. /\ cars' = [cars EXCEPT ![1] = e]
      /\ net' \in IF arrives /\ next # -1 THEN Sends(n, s, FloorMessage(next)) ELSE {n}
  BY <1>4, <1>7 DEF HandleStatus
<1>9. Len(cars') = 1 /\ cars'[1] = e
  BY <1>1, <1>8, OneCar
<1>10. /\ e.queue = queue /\ e.previous_status = m.status /\ e.currentfloor = m.currentfloor
       /\ e.destinationfloor = m.destinationfloor
       /\ e.connectionsocket = cars[1].connectionsocket
  <2>1. PICK r, q, u : r = m /\ q = queue /\ u = Reported(cars[1], r, q)
    OBVIOUS
  <2>2. u = e
    BY <2>1 DEF Reported
  <2> HIDE DEF m, queue, e
  <2>3. /\ u.queue = q /\ u.previous_status = r.status /\ u.currentfloor = r.currentfloor
        /\ u.destinationfloor = r.destinationfloor
        /\ u.connectionsocket = cars[1].connectionsocket
    BY <1>7, <2>1, EntryFields
  <2> QED BY <2>1, <2>2, <2>3
<1>11. next # -1 => FloorMessage(next) \in FloorsOf(Stops)
  <2>1. queue \in Seq(NodesOf(Wanted(Stops)))
    <3>1. cars[1].queue \in Seq(NodesOf(Wanted(Stops)))
      BY <1>7, EntryFields
    <3> QED BY <3>1, QueueRemoved
  <2>2. next \in Wanted(Stops) \union {-1}
    BY <2>1, NextOfQueue
  <2> QED BY <2>2 DEF FloorMessage, FloorsOf
<1>12. /\ n.peer = net.peer /\ n.from = net.from /\ n.up = net.up
       /\ n.to = [net.to EXCEPT ![s] = Tail(@)]
       /\ Single(n) /\ Unheld(n) /\ Talk(n, Stops) /\ SameFor(p, net, n)
  BY <1>1, <1>2, <1>3, <1>5, ReceivedView
<1>13. n.to[s] = Tail(net.to[s]) /\ net.from \in [Sockets -> Seq(Replies(Stops))]
  BY <1>1, <1>3, <1>12 DEF Talk, WellFormed, NetsOf
<1> HIDE DEF m, arrives, queue, next, e, n
<1>14. /\ Single(net') /\ Unheld(net') /\ SameFor(p, net, net')
       /\ net'.peer[s] = CarName /\ net'.to[s] = Tail(net.to[s])
       /\ net'.from[s] = IF arrives /\ next # -1 THEN Append(net.from[s], FloorMessage(next))
                                                 ELSE net.from[s]
  <2>1. CASE arrives /\ next # -1
    <3>1. FloorMessage(next) \in Replies(Stops) /\ FloorMessage(next) \in FloorsOf(Stops)
      BY <1>11, <2>1 DEF Replies
    <3>2. /\ net'.peer = n.peer /\ net'.to = n.to
          /\ net'.from = [n.from EXCEPT ![s] = Append(@, FloorMessage(next))]
          /\ Single(net') /\ Unheld(net') /\ SameFor(p, n, net')
      <4>1. /\ net' \in Sends(n, s, FloorMessage(next)) /\ s \in Sockets
            /\ n.peer[s] = CarName /\ n.up /\ Talk(n, Stops) /\ Single(n) /\ Unheld(n)
        BY <1>3, <1>5, <1>8, <1>12, <2>1
      <4>2. PICK f : f = FloorMessage(next)
        OBVIOUS
      <4>3. f \in Replies(Stops) /\ f \in FloorsOf(Stops) /\ net' \in Sends(n, s, f)
        BY <3>1, <4>1, <4>2
      <4>4. Sent(n, net', s, f) /\ Single(net') /\ Unheld(net')
        BY <1>2, <4>1, <4>3, SendsView
      <4>5. SameFor(p, n, net')
        BY <1>2, <4>1, <4>3, SendsView
      <4> QED BY <4>2, <4>4, <4>5 DEF Sent
    <3>3. SameFor(p, net, net')
      BY <1>12, <3>2 DEF SameFor
    <3> QED BY <1>3, <1>12, <1>13, <2>1, <3>2, <3>3
  <2>2. CASE ~(arrives /\ next # -1)
    <3>1. net' = n
      BY <1>8, <2>2
    <3> QED BY <1>3, <1>12, <1>13, <2>2, <3>1
  <2> QED BY <2>1, <2>2
<1>15. UNCHANGED pc => Listed(s, R)'
  BY <1>3, <1>6, <1>9, <1>10, <1>14 DEF Listed
<1> QED BY <1>5, <1>6, <1>9, <1>10, <1>14, <1>15 DEF m, arrives, queue, next

(* A label is a number.                                                    *)
LEMMA LabelInt ==
  ASSUME NEW x \in Label
  PROVE  x \in Int
BY DEF Label

(* The floors of the call are stops.                                       *)
LEMMA StopsOf ==
  ASSUME NEW p \in Pads, pad[p].call \in Label \X Label
  PROVE  From(p) \in Stops /\ To(p) \in Stops /\ From(p) \in Label /\ To(p) \in Label
<1>1. Range(pad[p].call) \subseteq Stops
  BY DEF Stops
<1>2. From(p) \in Range(pad[p].call) /\ To(p) \in Range(pad[p].call)
  BY DEF From, To, Range
<1> QED BY <1>1, <1>2 DEF From, To

(* The call has been taken off its socket.                                 *)
LEMMA CallTaken ==
  ASSUME NEW p \in Pads, Pads = {p}, Basis(p), UNCHANGED pad,
         NEW s \in Sockets, net.peer[s] = p, net.to[s] # <<>>,
         net'.peer = net.peer, net'.to = Received(s).to, Line(net') = Line(net)
  PROVE  PadAt(p)' /\ Asked(p)' /\ \A t \in Sockets : net.peer[t] = p => t = s
<1>1. Talk(net, Stops) /\ Single(net) /\ Unheld(net) /\ PadAt(p)
  BY DEF Basis, FloorsInv, TalkInv
<1>2. p # Nobody
  BY TwoClients
<1>3. \A t \in Sockets : net.peer[t] = p => t = s
  BY <1>1, <1>2 DEF Single
<1>4. /\ net.to[s] = <<CallOf(p)>> /\ Tail(net.to[s]) = <<>>
      /\ pad[p].phase # "idle" /\ pad[p].call \in Label \X Label
  BY TurnView
<1>5. Received(s).to = [net.to EXCEPT ![s] = Tail(@)]
  BY <1>1, ReceivedView
<1>6. net'.to[s] = <<>>
  BY <1>1, <1>4, <1>5 DEF Talk, WellFormed, NetsOf
<1>7. \A b \in Line(net) : b.client # p
  BY <1>1 DEF Single
<1> QED BY <1>2, <1>3, <1>4, <1>6, <1>7 DEF PadAt, Asked

(* The car is to go to the floor it is told, from where it stands.         *)
LEMMA StandingOnCourse ==
  ASSUME CarInv, Standing, Calm, NEW S
  PROVE  OnCourse(S) /\ Opens
<1>1. read_flag \in Bit
  BY DEF CarInv, CarTypeOK
<1>2. read_flag = 1 \/ pc["process"] = "start"
  BY <1>1 DEF Standing, Calm, Bit
<1>3. Untold
  BY <1>2 DEF Standing, Untold, Driving, DoorPC
<1>4. AtStop(S)
  BY DEF Standing, AtStop, DoorPC
<1>5. ToStop(S)
  BY <1>3 DEF ToStop
<1>6. TripToStop(S)
  BY DEF Standing, TripToStop
<1>7. HereStill
  BY DEF Standing, HereStill
<1>8. Opens
  BY DEF Standing, Opens
<1> QED BY <1>4, <1>5, <1>6, <1>7, <1>8 DEF OnCourse

(* A call that the one idle car of the list can take.                      *)
LEMMA CallAccepted ==
  ASSUME NEW p \in Pads, Pads = {p}, Basis(p), NoB1, UNCHANGED pad,
         NEW R, NEW c, Listed(c, R), UNCHANGED pc, IdleEntry(cars[1]),
         NEW s \in Sockets, net.peer[s] = p, net.to[s] # <<>>, net.up,
         Candidates(From(p), To(p)) # {},
         Assign(BestCar(From(p), To(p)), From(p), To(p), s)
  PROVE  /\ Single(net') /\ Unheld(net') /\ PadAt(p)' /\ Asked(p)'
         /\ Listed(c, R)' /\ net'.from[c] = Append(net.from[c], FloorMessage(From(p)))
         /\ cars'[1].queue = <<StopAt(p, From(p)), StopAt(p, To(p))>>
         /\ cars'[1].previous_status # "Closing"
<1> DEFINE queue == <<StopAt(p, From(p)), StopAt(p, To(p))>>
<1>1. /\ Talk(net, Stops) /\ Single(net) /\ Unheld(net) /\ PadAt(p)
      /\ cars \in Seq(Entries(Stops)) /\ Stops \subseteq Label
  BY DEF Basis, FloorsInv, TalkInv
<1>2. p # CarName /\ p # Nobody /\ CarName # Nobody
  BY TwoClients
<1>3. /\ pad[p].phase # "idle" /\ pad[p].call \in Label \X Label
      /\ net.from[s] = <<>>
  BY TurnView
<1>4. From(p) \in Label /\ To(p) \in Label /\ From(p) \in Int /\ To(p) \in Int
  BY <1>3, StopsOf, LabelInt
<1>5. /\ DOMAIN cars = {1} /\ cars[1] \in Entries(Stops) /\ cars[1].name = CarName
      /\ controller_get_socket_by_name(CarName) = c
  BY <1>1, OneCar
<1>6. c \in Sockets /\ net.peer[c] = CarName /\ net.to[c] \in Seq(R) /\ c # s
      /\ cars[1].connectionsocket = c
  BY <1>2 DEF Listed
<1>7. BestCar(From(p), To(p)) = 1 /\ can_service_request(cars[1], From(p), To(p))
  <2>1. \A k \in DOMAIN cars : cars[k].currentfloor \in Int /\ Len(cars[k].queue) \in Nat
    BY <1>1, EntryAt, LenProperties DEF Entries
  <2>2. BestCar(From(p), To(p)) \in Candidates(From(p), To(p))
    BY <1>1, <1>4, <2>1, NearestCar
  <2> QED BY <1>5, <2>2 DEF Candidates
<1>8. From(p) # -1
  BY <1>5, <1>7, EntryFields DEF NoB1, can_service_request
<1>9. add_to_car_queue(cars[1], From(p), To(p)) = queue
  BY DEF IdleEntry, add_to_car_queue, StopAt
<1>10. get_next_destination(queue) = From(p)
  BY DEF get_next_destination, StopAt, Stop
<1>11. SendsFloor(cars[1], queue)
  BY <1>8, <1>10 DEF SendsFloor, IdleEntry
<1> HIDE DEF queue
<1> PICK n : n = Received(s)
  OBVIOUS
<1>12. /\ cars' = [cars EXCEPT ![1] = Booked(cars[1], queue)]
       /\ \E x \in Sends(n, c, FloorMessage(From(p))) : net' \in Sends(x, s, CarAnswer(CarName))
  BY <1>5, <1>7, <1>9, <1>10, <1>11 DEF Assign
<1>13. /\ Len(cars') = 1 /\ cars'[1].queue = queue
       /\ cars'[1].previous_status # "Closing" /\ cars'[1].connectionsocket = c
  <2>1. Len(cars') = 1 /\ cars'[1] = Booked(cars[1], queue)
    BY <1>1, <1>12, OneCar
  <2>2. PICK u : u = Booked(cars[1], queue)
    OBVIOUS
  <2>3. /\ u.queue = queue /\ u.previous_status = cars[1].previous_status
        /\ u.connectionsocket = cars[1].connectionsocket
    BY <1>5, <2>2, EntryFields
  <2> QED BY <1>6, <2>1, <2>2, <2>3 DEF IdleEntry
<1>14. PICK x \in Sends(n, c, FloorMessage(From(p))) : net' \in Sends(x, s, CarAnswer(CarName))
  BY <1>12
<1>15. /\ n.peer = net.peer /\ n.from = net.from /\ n.up = net.up /\ Line(n) = Line(net)
       /\ n.to = [net.to EXCEPT ![s] = Tail(@)]
       /\ Single(n) /\ Unheld(n) /\ Talk(n, Stops)
  BY <1>1, ReceivedView
<1>16. n.to[c] = net.to[c] /\ net.from \in [Sockets -> Seq(Replies(Stops))]
  BY <1>1, <1>6, <1>15 DEF Talk, WellFormed, NetsOf
<1>17. FloorMessage(From(p)) \in FloorsOf(Stops) /\ FloorMessage(From(p)) \in Replies(Stops)
  <2>1. From(p) \in Stops
    BY <1>3, StopsOf
  <2>2. From(p) \in Wanted(Stops)
    BY <1>5, <1>7, <2>1, EntryFields DEF can_service_request, Wanted
  <2> QED BY <2>2 DEF FloorMessage, FloorsOf, Replies
<1>18. PICK f : f = FloorMessage(From(p))
  OBVIOUS
<1>19. /\ Sent(n, x, c, f) /\ x.up /\ Line(x) = Line(n)
       /\ Single(x) /\ Unheld(x) /\ Talk(x, Stops)
  <2>1. x \in Sends(n, c, f) /\ f \in FloorsOf(Stops) /\ f \in Replies(Stops)
    BY <1>14, <1>17, <1>18
  <2>2. n.up /\ n.peer[c] # Nobody
    BY <1>2, <1>6, <1>15
  <2> QED BY <1>6, <1>15, <2>1, <2>2, SendsView
<1>20. PICK a : a = CarAnswer(CarName)
  OBVIOUS
<1>21. a \in Replies(Stops)
  BY <1>20 DEF Replies
<1>22. x.peer[s] = p
  BY <1>15, <1>19 DEF Sent
<1>23. Sent(x, net', s, a) /\ Line(net') = Line(x) /\ Single(net') /\ Unheld(net')
  BY <1>2, <1>14, <1>19, <1>20, <1>21, <1>22, SendsView
<1>24. /\ net'.peer = net.peer /\ net'.to = n.to /\ Line(net') = Line(net)
       /\ net'.from = [[net.from EXCEPT ![c] = Append(@, f)] EXCEPT ![s] = Append(@, a)]
  BY <1>15, <1>19, <1>23 DEF Sent
<1>25. net'.from[c] = Append(net.from[c], f)
  BY <1>6, <1>16, <1>24
<1>26. PadAt(p)' /\ Asked(p)'
  BY <1>24, CallTaken
<1>27. Listed(c, R)'
  BY <1>6, <1>13, <1>16, <1>24 DEF Listed
<1> QED BY <1>13, <1>18, <1>23, <1>25, <1>26, <1>27 DEF queue

(* What a step of the controller leaves alone.                             *)
LEMMA ControlKeeps ==
  ASSUME Control
  PROVE  /\ Serve /\ inbox' = SentToCar(net')
         /\ UNCHANGED <<shm, pc, current_status, floordiff, i, shm_send, read_flag,
                        breaks, sockets, pad>>
         /\ Quiet => Quiet'
         /\ Calm => Calm'
         /\ Standing => Standing'
         /\ Opens => Opens'
         /\ \A f : RestsAt(f) => RestsAt(f)'
         /\ \A S : OnCourse(S) => OnCourse(S)'
<1>1. /\ Serve /\ inbox' = SentToCar(net')
      /\ UNCHANGED <<shm, pc, current_status, floordiff, i, shm_send, read_flag,
                     breaks, sockets, pad>>
  BY DEF Control, shmVars, doorVars, processVars
<1> QED BY <1>1, CarStill

(* The controller and a car that is listed.                                *)
LEMMA ListedControl ==
  ASSUME NEW p \in Pads, Pads = {p}, Basis(p), Control,
         NEW R, \A r \in R : r.kind = "STATUS", NEW c, Listed(c, R)
  PROVE  \/ /\ Single(net') /\ Unheld(net') /\ PadAt(p)' /\ UNCHANGED cars
            /\ SameFor(CarName, net, net') /\ Listed(c, R)'
            /\ \A q \in Seq(Int) : UnderWay(c, q) => UnderWay(c, q)'
            /\ \/ SameFor(p, net, net')
               \/ ~Asked(p) /\ \A s \in Sockets : net'.peer[s] = p => net'.from[s] = <<>>
         \/ \E s \in Sockets : net.peer[s] = p /\ HandleCall(s)
         \/ c \in Sockets /\ net.peer[c] = CarName /\ HandleStatus(c)
<1>1. /\ Serve /\ inbox' = SentToCar(net') /\ UNCHANGED <<pc, pad, sockets>>
  BY ControlKeeps
<1>2. Single(net) /\ cars \in Seq(Entries(Stops))
  BY DEF Basis, FloorsInv, TalkInv
<1>3. c \in Sockets /\ net.peer[c] = CarName /\ net.to[c] \in Seq(R)
  BY DEF Listed
<1>4. CarName # Nobody
  BY TwoClients
<1>5. \A k \in DOMAIN cars : net.peer[cars[k].connectionsocket] = CarName
  <2>1. DOMAIN cars = {1} /\ cars[1].connectionsocket = c
    BY <1>2, OneCar DEF Listed
  <2> QED BY <1>3, <2>1
<1>6. \A s \in Sockets : net.peer[s] = CarName => s = c
  BY <1>2, <1>3, <1>4 DEF Single
<1>7. CASE /\ Single(net') /\ Unheld(net') /\ PadAt(p)' /\ UNCHANGED cars
           /\ SameFor(CarName, net, net')
           /\ \/ SameFor(p, net, net')
              \/ /\ ~Asked(p)
                 /\ \A s \in Sockets : net'.peer[s] = p => net'.from[s] = <<>>
  <2>1. Listed(c, R)' /\ \A q \in Seq(Int) : UnderWay(c, q) => UnderWay(c, q)'
    BY <1>1, <1>7, CarFrame
  <2> QED BY <1>7, <2>1
<1>8. ASSUME NEW f \in Sockets, NEW b \in Line(net), b.client = CarName PROVE FALSE
  BY <1>2, <1>3, <1>8 DEF Single
<1>9. ASSUME NEW s \in Sockets, net.peer[s] = CarName, HandleCar(s) PROVE FALSE
  <2>1. s = c /\ net.to[c] # <<>> /\ Head(net.to[c]).kind = "CAR"
    BY <1>6, <1>9 DEF HandleCar, Arrived
  <2>2. Head(net.to[c]) \in R
    BY <1>3, <2>1, HeadTailProperties
  <2> QED BY <2>1, <2>2
<1>10. ASSUME NEW s \in Sockets, net.peer[s] = CarName, HandleStatus(s)
       PROVE  c \in Sockets /\ net.peer[c] = CarName /\ HandleStatus(c)
  BY <1>3, <1>6, <1>10
<1> QED BY <1>1, <1>5, <1>7, <1>8, <1>9, <1>10, ControlView

(* The controller, when the call has been handled.                         *)
LEMMA AskedControl ==
  ASSUME NEW p \in Pads, Pads = {p}, Basis(p), Control, Asked(p),
         NEW R, \A r \in R : r.kind = "STATUS", NEW c, Listed(c, R)
  PROVE  /\ Single(net') /\ Unheld(net') /\ PadAt(p)' /\ Asked(p)' /\ Listed(c, R)'
         /\ \/ UNCHANGED cars /\ \A q \in Seq(Int) : UnderWay(c, q) => UnderWay(c, q)'
            \/ net.peer[c] = CarName /\ c \in Sockets /\ HandleStatus(c)
<1>1. UNCHANGED <<pc, pad>> /\ PadAt(p)
  BY ControlKeeps DEF Basis
<1>2. ASSUME NEW s \in Sockets, net.peer[s] = p, HandleCall(s) PROVE FALSE
  BY <1>2 DEF Asked, HandleCall, Arrived
<1>3. CASE /\ Single(net') /\ Unheld(net') /\ PadAt(p)' /\ UNCHANGED cars
           /\ SameFor(p, net, net') /\ Listed(c, R)'
           /\ \A q \in Seq(Int) : UnderWay(c, q) => UnderWay(c, q)'
  <2>1. Asked(p)'
    BY <1>1, <1>3, PadFrame
  <2> QED BY <1>3, <2>1
<1>4. CASE c \in Sockets /\ net.peer[c] = CarName /\ HandleStatus(c)
  <2>1. Single(net') /\ Unheld(net') /\ SameFor(p, net, net') /\ Listed(c, R)'
    BY <1>1, <1>4, StatusView
  <2>2. PadAt(p)' /\ Asked(p)'
    BY <1>1, <2>1, PadFrame
  <2> QED BY <1>4, <2>1, <2>2
<1> QED BY <1>2, <1>3, <1>4, ListedControl

(* The inbox is what is under way.                                         *)
LEMMA UnderWayIs ==
  ASSUME NEW n, n = net', Single(n), NEW c \in Sockets, n.peer[c] = CarName, NEW q \in Seq(Int),
         n.from[c] = FloorsTo(q), inbox' = SentToCar(net')
  PROVE  UnderWay(c, q)'
<1>1. SentToCar(n) = q
  BY SentIs
<1> QED BY <1>1 DEF UnderWay

(* A report that says nothing new about the queue.                         *)
LEMMA StatusPassed ==
  ASSUME NEW p \in Pads, Pads = {p}, Basis(p), Control, NEW R, NEW c, Listed(c, R),
         c \in Sockets, net.peer[c] = CarName, HandleStatus(c),
         \/ cars[1].previous_status # "Closing"
         \/ get_next_destination(remove_from_car_queue(cars[1].queue)) = -1
  PROVE  /\ \E m \in R : /\ cars'[1].previous_status = m.status
                         /\ cars'[1].currentfloor = m.currentfloor
                         /\ cars'[1].destinationfloor = m.destinationfloor
         /\ \/ cars'[1].queue = cars[1].queue
            \/ /\ cars[1].previous_status = "Closing"
               /\ cars'[1].queue = remove_from_car_queue(cars[1].queue)
         /\ \A q \in Seq(Int) : UnderWay(c, q) => UnderWay(c, q)'
<1>1. /\ inbox' = SentToCar(net') /\ UNCHANGED <<pc, pad>>
  BY ControlKeeps
<1>2. /\ Head(net.to[c]) \in R /\ Single(net') /\ Listed(c, R)'
      /\ cars'[1].previous_status = Head(net.to[c]).status
      /\ cars'[1].currentfloor = Head(net.to[c]).currentfloor
      /\ cars'[1].destinationfloor = Head(net.to[c]).destinationfloor
  BY <1>1, StatusView
<1>3. net'.from[c] = net.from[c]
  BY StatusView DEF Arrives
<1>4. \/ cars'[1].queue = cars[1].queue
      \/ /\ cars[1].previous_status = "Closing"
         /\ cars'[1].queue = remove_from_car_queue(cars[1].queue)
  BY StatusView DEF Arrives
<1>5. net'.peer[c] = CarName
  BY <1>2 DEF Listed
<1>6. ASSUME NEW q \in Seq(Int), UnderWay(c, q) PROVE UnderWay(c, q)'
  <2>1. net'.from[c] = FloorsTo(q)
    BY <1>3, <1>6 DEF UnderWay
  <2> QED BY <1>1, <1>2, <1>5, <2>1, UnderWayIs
<1> QED BY <1>2, <1>4, <1>6

(* What an entry is before a report.                                       *)
LEMMA NewCarFields ==
  ASSUME NEW m, NEW s, NEW stack, NEW e, e = NewCar(m, s, stack)
  PROVE  /\ e.connectionsocket = s /\ e.queue = <<>> /\ e.previous_status = "IDLE"
         /\ e.currentfloor = e.destinationfloor
BY DEF NewCar

(* The car registers.                                                      *)
LEMMA CarTaken ==
  ASSUME NEW p \in Pads, Pads = {p}, Basis(p), Control, NEW R, Unlisted(R),
         NEW s \in Sockets, net.peer[s] = CarName, HandleCar(s)
  PROVE  /\ Single(net') /\ Unheld(net') /\ SameFor(p, net, net')
         /\ Listed(s, R)' /\ IdleEntry(cars[1])' /\ UnderWay(s, <<>>)'
<1>1. /\ inbox' = SentToCar(net') /\ UNCHANGED pc
  BY ControlKeeps
<1>2. Talk(net, Stops) /\ Single(net) /\ Unheld(net)
  BY DEF Basis, FloorsInv, TalkInv
<1>3. p # CarName /\ CarName # Nobody
  BY TwoClients
<1>4. \A t \in Sockets : net.peer[t] = CarName => t = s
  BY <1>2, <1>3 DEF Single
<1>5. /\ pc["tcp"] \in {"top", "wait", "heed"} /\ net.to[s] # <<>> /\ cars = <<>>
      /\ Head(net.to[s]) = Hello /\ Tail(net.to[s]) \in Seq(R) /\ net.from[s] = <<>>
  <2>1. ~Away(net, CarName)
    BY DEF Away
  <2>2. ~\E b \in Line(net) : b.client = CarName
    BY <1>2 DEF Single
  <2> QED BY <1>4, <2>1, <2>2 DEF Unlisted
<1>6. PICK stack : cars' = Append(cars, NewCar(Hello, s, stack))
  BY <1>5 DEF HandleCar
<1>7. net' = Received(s)
  BY DEF HandleCar
<1>8. /\ net'.peer = net.peer /\ net'.from = net.from
      /\ net'.to = [net.to EXCEPT ![s] = Tail(@)]
      /\ Single(net') /\ Unheld(net') /\ SameFor(p, net, net')
  BY <1>2, <1>3, <1>5, <1>7, ReceivedView
<1>9. net'.to[s] = Tail(net.to[s])
  BY <1>2, <1>8 DEF Talk, WellFormed, NetsOf
<1>10. Len(cars') = 1 /\ cars'[1] = NewCar(Hello, s, stack)
  <2>1. \A x : Len(Append(<<>>, x)) = 1 /\ Append(<<>>, x)[1] = x
    OBVIOUS
  <2> QED BY <1>5, <1>6, <2>1, Zenon
<1>11. \A e : e = NewCar(Hello, s, stack) =>
         /\ e.connectionsocket = s /\ e.queue = <<>> /\ e.previous_status = "IDLE"
         /\ e.currentfloor = e.destinationfloor
  BY NewCarFields
<1>12. Listed(s, R)'
  BY <1>1, <1>5, <1>8, <1>9, <1>10, <1>11 DEF Listed
<1>13. IdleEntry(cars[1])'
  BY <1>10, <1>11 DEF IdleEntry
<1>14. UnderWay(s, <<>>)'
  <2>1. <<>> \in Seq(Int)
    OBVIOUS
  <2>2. PICK n : n = net'
    OBVIOUS
  <2>3. Single(n) /\ n.peer[s] = CarName /\ n.from[s] = FloorsTo(<<>>)
    BY <1>5, <1>8, <2>2, FewFloors
  <2> QED BY <1>1, <2>1, <2>2, <2>3, UnderWayIs
<1> QED BY <1>8, <1>12, <1>13, <1>14

(* The controller refuses a call.                                          *)
LEMMA CallRefused ==
  ASSUME NEW p \in Pads, Pads = {p}, Basis(p), UNCHANGED pad,
         NEW s \in Sockets, net.peer[s] = p, net.to[s] # <<>>, net.up, Refuse(s)
  PROVE  /\ Single(net') /\ Unheld(net') /\ PadAt(p)' /\ SameFor(CarName, net, net')
         /\ \A t \in Sockets : net'.peer[t] = p => net'.from[t] = <<Unavailable>>
<1>1. Talk(net, Stops) /\ Single(net) /\ Unheld(net)
  BY DEF Basis, FloorsInv, TalkInv
<1>2. p # CarName /\ p # Nobody
  BY TwoClients
<1>3. net.from[s] = <<>>
  BY TurnView
<1>4. PICK n : n = Received(s)
  OBVIOUS
<1>5. /\ n.peer = net.peer /\ n.from = net.from /\ n.up = net.up /\ Line(n) = Line(net)
      /\ n.to = [net.to EXCEPT ![s] = Tail(@)]
      /\ Single(n) /\ Unheld(n) /\ Talk(n, Stops) /\ SameFor(CarName, net, n)
  BY <1>1, <1>2, <1>4, ReceivedView
<1>6. PICK a : a = Unavailable
  OBVIOUS
<1>7. /\ Sent(n, net', s, a) /\ Line(net') = Line(n) /\ Single(net') /\ Unheld(net')
      /\ SameFor(CarName, n, net')
  <2>1. a \in Replies(Stops) /\ net' \in Sends(n, s, a)
    BY <1>4, <1>6 DEF Refuse, Replies
  <2>2. n.peer[s] # Nobody /\ n.peer[s] # CarName /\ n.up
    BY <1>2, <1>5
  <2> QED BY <1>5, <2>1, <2>2, SendsView
<1>8. SameFor(CarName, net, net')
  BY <1>5, <1>7 DEF SameFor
<1>9. /\ net'.peer = net.peer /\ net'.to = n.to /\ Line(net') = Line(net)
      /\ net'.from = [net.from EXCEPT ![s] = Append(@, a)]
  BY <1>5, <1>7 DEF Sent
<1>10. PadAt(p)' /\ \A t \in Sockets : net.peer[t] = p => t = s
  BY <1>4, <1>9, CallTaken
<1>11. net'.from[s] = <<Unavailable>>
  <2>1. Append(<<>>, a) = <<a>>
    OBVIOUS
  <2>2. net'.from[s] = Append(net.from[s], a)
    BY <1>1, <1>9 DEF Talk, WellFormed, NetsOf
  <2> QED BY <1>3, <1>6, <2>1, <2>2
<1> QED BY <1>7, <1>8, <1>9, <1>10, <1>11

(* The queue is what a CAR, a refusal and a report leave; a call that is   *)
(* accepted is expected.                                                   *)
LEMMA UnaskedControl ==
  ASSUME NEW p \in Pads, Pads = {p}, Basis(p), NoB1, Control, Unasked(p)
  PROVE  Single(net') /\ Unheld(net') /\ PadAt(p)' /\ (Unasked(p)' \/ Expected(p)')
<1> DEFINE Nothing(n) == \A t \in Sockets : n.peer[t] = p => n.from[t] \in {<<>>, <<Unavailable>>}
<1>1. /\ Serve /\ inbox' = SentToCar(net') /\ UNCHANGED <<pc, pad, sockets>> /\ Standing'
  BY ControlKeeps DEF Unasked
<1>2. /\ Single(net) /\ cars \in Seq(Entries(Stops)) /\ CarInv /\ Calm
      /\ Standing /\ Nothing(net) /\ pad[p].answer # CarAnswer(CarName)
  BY DEF Basis, FloorsInv, TalkInv, Unasked
<1>3. From(p)' = From(p) /\ To(p)' = To(p) /\ CallOf(p)' = CallOf(p)
  BY <1>1 DEF From, To, CallOf
<1>4. <<>> \in Seq(Int)
  OBVIOUS
<1>5. IdleReport.kind = "STATUS" /\ IdleReport.status = "Closed"
      /\ IdleReport.currentfloor = IdleReport.destinationfloor
  BY DEF IdleReport, StatusMessage
<1>6. ASSUME Nothing(net'),
             \/ Unlisted({IdleReport})'
             \/ \E c \in Sockets :
                  Listed(c, {IdleReport})' /\ IdleEntry(cars[1])' /\ UnderWay(c, <<>>)'
      PROVE  Unasked(p)'
  BY <1>1, <1>2, <1>6 DEF Unasked
<1>7. ASSUME SameFor(p, net, net') PROVE Nothing(net')
  BY <1>2, <1>7 DEF SameFor
<1>8. ASSUME \A t \in Sockets : net'.peer[t] = p => net'.from[t] = <<>>
      PROVE  Nothing(net')
  BY <1>8
<1>9. ASSUME NEW s \in Sockets, net.peer[s] = p, HandleCall(s)
      PROVE  /\ net.to[s] # <<>> /\ net.up
             /\ \/ /\ Candidates(From(p), To(p)) # {}
                   /\ Assign(BestCar(From(p), To(p)), From(p), To(p), s)
                \/ /\ Candidates(From(p), To(p)) = {}
                   /\ Refuse(s) /\ UNCHANGED cars
  <2>1. net.to[s] # <<>> /\ net.up
    BY <1>9 DEF HandleCall, Arrived, Turn
  <2>2. Head(net.to[s]) = CallOf(p)
    BY <1>9, <2>1, TurnView
  <2>3. Head(net.to[s]).source = From(p) /\ Head(net.to[s]).dest = To(p)
    BY <2>2 DEF CallOf, CallMessage, From, To
  <2> QED BY <1>9, <2>1, <2>3 DEF HandleCall
<1>10. ASSUME NEW s \in Sockets, net.peer[s] = p, net.to[s] # <<>>, net.up,
              Refuse(s), UNCHANGED cars
       PROVE  /\ Single(net') /\ Unheld(net') /\ PadAt(p)' /\ Nothing(net')
              /\ SameFor(CarName, net, net')
  <2>1. /\ Single(net') /\ Unheld(net') /\ PadAt(p)' /\ SameFor(CarName, net, net')
        /\ \A t \in Sockets : net'.peer[t] = p => net'.from[t] = <<Unavailable>>
    BY <1>1, <1>10, CallRefused
  <2> QED BY <2>1
<1> HIDE DEF Nothing
<1>11. ASSUME Single(net'), UNCHANGED cars, SameFor(CarName, net, net')
       PROVE  \/ Unlisted({IdleReport})'
              \/ \E c \in Sockets :
                   Listed(c, {IdleReport})' /\ IdleEntry(cars[1])' /\ UnderWay(c, <<>>)'
  <2>1. CASE Unlisted({IdleReport})
    BY <1>1, <1>11, <2>1, CarFrame
  <2>2. ASSUME NEW c \in Sockets, Listed(c, {IdleReport}), IdleEntry(cars[1]),
               UnderWay(c, <<>>)
        PROVE  Listed(c, {IdleReport})' /\ IdleEntry(cars[1])' /\ UnderWay(c, <<>>)'
    <3>1. Listed(c, {IdleReport})' /\ UnderWay(c, <<>>)'
      BY <1>1, <1>4, <1>11, <2>2, CarFrame
    <3>2. IdleEntry(cars[1])'
      BY <1>11, <2>2 DEF IdleEntry
    <3> QED BY <3>1, <3>2
  <2> QED BY <2>1, <2>2 DEF Unasked
<1>12. CASE Unlisted({IdleReport})
  <2>1. cars = <<>>
    BY <1>12 DEF Unlisted
  <2>2. DOMAIN cars = {} /\ \A x, y : Candidates(x, y) = {}
    BY <2>1 DEF Candidates
  <2>3. CASE /\ Single(net') /\ Unheld(net') /\ PadAt(p)' /\ UNCHANGED cars
             /\ SameFor(CarName, net, net')
             /\ \/ SameFor(p, net, net')
                \/ /\ ~Asked(p)
                   /\ \A s \in Sockets : net'.peer[s] = p => net'.from[s] = <<>>
    BY <1>6, <1>7, <1>8, <1>11, <2>3
  <2>4. CASE /\ Single(net') /\ Unheld(net') /\ PadAt(p)' /\ UNCHANGED cars
             /\ SameFor(p, net, net')
             /\ \E f \in Sockets, b \in Line(net) :
                  /\ b.client = CarName /\ net'.peer[f] = CarName
                  /\ net'.to[f] = b.messages /\ net'.from[f] = <<>>
    <3>1. PICK f \in Sockets, b \in Line(net) :
            /\ b.client = CarName /\ net'.peer[f] = CarName
            /\ net'.to[f] = b.messages /\ net'.from[f] = <<>>
      BY <2>4
    <3>2. \A s \in Sockets : net'.peer[s] = CarName => net'.from[s] = <<>>
      BY <2>4, <3>1, TwoClients DEF Single
    <3>3. inbox' = <<>>
      BY <1>1, <3>2, NothingSent
    <3>4. pc["tcp"] \in {"top", "wait", "heed"} /\ b.messages = <<Hello, IdleReport>>
      <4>1. ~Away(net, CarName) /\ \A s \in Sockets : net.peer[s] # CarName
        BY <1>2, <3>1 DEF Away, Single
      <4>2. \A c \in Line(net) : c.client = CarName => c = b
        <5>1. \A j, k \in DOMAIN net.backlog :
                net.backlog[j].client = net.backlog[k].client => j = k
          BY <1>2 DEF Single
        <5> QED BY <3>1, <5>1 DEF Line
      <4> QED BY <1>12, <4>1, <4>2 DEF Unlisted
    <3>5. \A x, y : <<x, y>> # <<>> /\ Head(<<x, y>>) = x /\ Tail(<<x, y>>) = <<y>>
      OBVIOUS
    <3>6. <<IdleReport>> \in Seq({IdleReport})
      OBVIOUS
    <3>7. /\ net'.to[f] # <<>> /\ Head(net'.to[f]) = Hello
          /\ Tail(net'.to[f]) \in Seq({IdleReport})
      BY <3>1, <3>4, <3>5, <3>6
    <3>8. Hello' = Hello /\ IdleReport' = IdleReport
      BY DEF Hello, IdleReport
    <3>9. Unlisted({IdleReport})'
      BY <1>1, <2>1, <2>4, <3>1, <3>2, <3>3, <3>4, <3>7, <3>8 DEF Unlisted
    <3> QED BY <1>6, <1>7, <2>4, <3>9
  <2>5. ASSUME NEW s \in Sockets, net.peer[s] = p, HandleCall(s)
        PROVE  Single(net') /\ Unheld(net') /\ PadAt(p)' /\ Unasked(p)'
    <3>1. net.to[s] # <<>> /\ net.up /\ Refuse(s) /\ UNCHANGED cars
      BY <1>9, <2>2, <2>5
    <3>2. /\ Single(net') /\ Unheld(net') /\ PadAt(p)' /\ Nothing(net')
          /\ SameFor(CarName, net, net')
      BY <1>10, <2>5, <3>1
    <3> QED BY <1>6, <1>11, <3>1, <3>2
  <2>6. ASSUME NEW s \in Sockets, net.peer[s] = CarName, HandleCar(s)
        PROVE  Single(net') /\ Unheld(net') /\ PadAt(p)' /\ Unasked(p)'
    <3>1. /\ Single(net') /\ Unheld(net') /\ SameFor(p, net, net')
          /\ Listed(s, {IdleReport})' /\ IdleEntry(cars[1])' /\ UnderWay(s, <<>>)'
      BY <1>12, <2>6, CarTaken
    <3>2. PadAt(p)'
      BY <1>1, <3>1, PadFrame DEF Basis
    <3> QED BY <1>6, <1>7, <3>1, <3>2
  <2>7. ASSUME NEW s \in Sockets, net.peer[s] = CarName, HandleStatus(s) PROVE FALSE
    <3>1. net.to[s] # <<>> /\ Head(net.to[s]).kind = "STATUS"
      BY <2>7 DEF HandleStatus, Arrived
    <3>2. \A t \in Sockets : net.peer[t] = CarName => t = s
      BY <1>2, <2>7, TwoClients DEF Single
    <3>3. Head(net.to[s]) = Hello
      <4>1. ~Away(net, CarName)
        BY <2>7 DEF Away
      <4>2. ~\E b \in Line(net) : b.client = CarName
        BY <1>2, <2>7 DEF Single
      <4> QED BY <1>12, <3>2, <4>1, <4>2 DEF Unlisted
    <3> QED BY <3>1, <3>3 DEF Hello, CarMessage
  <2> QED BY <1>1, <2>2, <2>3, <2>4, <2>5, <2>6, <2>7, ControlView
<1>13. ASSUME NEW c \in Sockets, Listed(c, {IdleReport}), IdleEntry(cars[1]),
              UnderWay(c, <<>>)
       PROVE  Single(net') /\ Unheld(net') /\ PadAt(p)' /\ (Unasked(p)' \/ Expected(p)')
  <2>1. CASE /\ Single(net') /\ Unheld(net') /\ PadAt(p)' /\ UNCHANGED cars
             /\ SameFor(CarName, net, net')
             /\ \/ SameFor(p, net, net')
                \/ /\ ~Asked(p)
                   /\ \A s \in Sockets : net'.peer[s] = p => net'.from[s] = <<>>
    BY <1>6, <1>7, <1>8, <1>11, <2>1
  <2>2. ASSUME NEW s \in Sockets, net.peer[s] = p, net.to[s] # <<>>, net.up,
               Candidates(From(p), To(p)) # {},
               Assign(BestCar(From(p), To(p)), From(p), To(p), s)
        PROVE  Single(net') /\ Unheld(net') /\ PadAt(p)' /\ Expected(p)'
    <3>1. /\ Single(net') /\ Unheld(net') /\ PadAt(p)' /\ Asked(p)'
          /\ Listed(c, {IdleReport})'
          /\ net'.from[c] = Append(net.from[c], FloorMessage(From(p)))
          /\ cars'[1].queue = <<StopAt(p, From(p)), StopAt(p, To(p))>>
          /\ cars'[1].previous_status # "Closing"
      BY <1>1, <1>13, <2>2, CallAccepted
    <3>2. UnderWay(c, <<From(p)>>)'
      <4>1. PICK f : f = From(p)
        OBVIOUS
      <4>2. PICK n : n = net'
        OBVIOUS
      <4>3. n.from[c] = FloorsTo(<<f>>)
        BY <1>13, <3>1, <4>1, <4>2, FewFloors DEF UnderWay
      <4>4. <<f>> \in Seq(Int)
        <5>1. pad[p].call \in Label \X Label
          BY <2>2, TurnView
        <5>2. f \in Int
          BY <4>1, <5>1, StopsOf, LabelInt
        <5> QED BY <5>2
      <4>5. n.peer[c] = CarName /\ Single(n)
        BY <3>1, <4>2 DEF Listed
      <4>6. UnderWay(c, <<f>>)'
        BY <1>1, <4>2, <4>3, <4>4, <4>5, UnderWayIs
      <4>7. f = From(p)'
        BY <1>3, <4>1
      <4> QED BY <4>6, <4>7
    <3>3. Listed(c, ReportsOf(Status \ {"Closing"}))'
      <4>1. IdleReport \in ReportsOf(Status \ {"Closing"})
        <5>1. "Closed" \in Status \ {"Closing"}
          BY DEF Status
        <5>2. LowestFloor \in Label
          BY ShaftAssumption DEF ShaftAssumption
        <5> QED BY <5>1, <5>2 DEF IdleReport, StatusMessage, ReportsOf
      <4>2. Seq({IdleReport}) \subseteq Seq(ReportsOf(Status \ {"Closing"}))
        BY <4>1, SeqGrows
      <4> QED BY <3>1, <4>2 DEF Listed
    <3>4. OnCourse({From(p)})' /\ Opens'
      <4>1. PICK f : f = From(p)
        OBVIOUS
      <4>2. OnCourse({f}) /\ Opens
        BY <1>2, StandingOnCourse
      <4>3. OnCourse({f})' /\ Opens'
        BY <4>2, ControlKeeps
      <4>4. f = From(p)'
        BY <1>3, <4>1
      <4> QED BY <4>3, <4>4
    <3>5. /\ cars'[1].queue = <<StopAt(p, From(p))', StopAt(p, To(p))'>>
          /\ <<From(p)>> = <<From(p)'>>
      BY <1>3, <3>1 DEF StopAt
    <3> QED BY <3>1, <3>2, <3>3, <3>4, <3>5 DEF Expected
  <2>3. ASSUME NEW s \in Sockets, net.peer[s] = p, HandleCall(s)
        PROVE  Single(net') /\ Unheld(net') /\ PadAt(p)' /\ (Unasked(p)' \/ Expected(p)')
    <3>1. CASE Candidates(From(p), To(p)) # {} /\ Assign(BestCar(From(p), To(p)), From(p), To(p), s)
      BY <1>9, <2>2, <2>3, <3>1
    <3>2. CASE Refuse(s) /\ UNCHANGED cars
      <4>1. /\ Single(net') /\ Unheld(net') /\ PadAt(p)' /\ Nothing(net')
            /\ SameFor(CarName, net, net')
        BY <1>9, <1>10, <2>3, <3>2
      <4> QED BY <1>6, <1>11, <3>2, <4>1
    <3> QED BY <1>9, <2>3, <3>1, <3>2
  <2>4. CASE c \in Sockets /\ net.peer[c] = CarName /\ HandleStatus(c)
    <3>1. cars[1].previous_status # "Closing" /\ cars[1].queue = <<>>
      BY <1>13 DEF IdleEntry
    <3>2. /\ Single(net') /\ Unheld(net') /\ SameFor(p, net, net')
          /\ Listed(c, {IdleReport})'
      BY <1>1, <1>13, <2>4, StatusView
    <3>3. UnderWay(c, <<>>)'
      BY <1>4, <1>13, <2>4, <3>1, StatusPassed
    <3>4. /\ cars'[1].queue = <<>>
          /\ \E m \in {IdleReport} :
               /\ cars'[1].previous_status = m.status
               /\ cars'[1].currentfloor = m.currentfloor
               /\ cars'[1].destinationfloor = m.destinationfloor
      BY <1>13, <2>4, <3>1, StatusPassed
    <3>5. IdleEntry(cars[1])'
      BY <1>5, <3>4 DEF IdleEntry
    <3>6. PadAt(p)'
      BY <1>1, <3>2, PadFrame DEF Basis
    <3> QED BY <1>6, <1>7, <3>2, <3>3, <3>5, <3>6
  <2>5. \A r \in {IdleReport} : r.kind = "STATUS"
    BY <1>5
  <2> QED BY <1>13, <2>1, <2>3, <2>4, <2>5, ListedControl
<1> QED BY <1>12, <1>13 DEF Unasked

(* The floors of a call that was booked can be served, and sent.           *)
LEMMA BookedFloors ==
  ASSUME NEW p \in Pads, Basis(p), NoB1, Asked(p)
  PROVE  /\ From(p) \in Int /\ To(p) \in Int /\ From(p) \in Stops /\ To(p) \in Stops
         /\ From(p) \in Label /\ To(p) \in Label
         /\ <<>> \in Seq(Int) /\ <<From(p)>> \in Seq(Int) /\ <<To(p)>> \in Seq(Int)
         /\ <<From(p), To(p)>> \in Seq(Int)
<1>1. pad[p].call \in Label \X Label
  BY DEF Basis, PadAt, Asked
<1>2. /\ From(p) \in Int /\ To(p) \in Int /\ From(p) \in Stops /\ To(p) \in Stops
      /\ From(p) \in Label /\ To(p) \in Label
  BY <1>1, StopsOf, LabelInt
<1> QED BY <1>2

(* While the call is expected the controller changes nothing.              *)
LEMMA ExpectedControl ==
  ASSUME NEW p \in Pads, Pads = {p}, Basis(p), NoB1, Control, Expected(p)
  PROVE  Single(net') /\ Unheld(net') /\ PadAt(p)' /\ Expected(p)'
<1> DEFINE R == ReportsOf(Status \ {"Closing"})
<1>1. PICK c \in Sockets :
        /\ Listed(c, R)
        /\ cars[1].queue = <<StopAt(p, From(p)), StopAt(p, To(p))>>
        /\ cars[1].previous_status # "Closing"
        /\ UnderWay(c, <<>>) \/ UnderWay(c, <<From(p)>>)
  BY DEF Expected
<1>2. UNCHANGED pad /\ Asked(p) /\ OnCourse({From(p)}) /\ Opens
  BY ControlKeeps DEF Expected
<1>3. \A r \in R : r.kind = "STATUS" /\ r.status # "Closing"
  BY DEF ReportsOf
<1>4. PICK f, t : f = From(p) /\ t = To(p)
  OBVIOUS
<1>5. f = From(p)' /\ t = To(p)' /\ StopAt(p, f)' = StopAt(p, f) /\ StopAt(p, t)' = StopAt(p, t)
  BY <1>2, <1>4 DEF From, To, StopAt
<1>6. OnCourse({f})' /\ Opens'
  BY <1>2, <1>4, ControlKeeps
<1> HIDE DEF R
<1>7. Single(net') /\ Unheld(net') /\ PadAt(p)' /\ Asked(p)' /\ Listed(c, R)'
  BY <1>1, <1>2, <1>3, AskedControl
<1>8. /\ cars'[1].queue = cars[1].queue /\ cars'[1].previous_status # "Closing"
      /\ UnderWay(c, <<>>)' \/ UnderWay(c, <<f>>)'
  <2>1. <<>> \in Seq(Int) /\ <<f>> \in Seq(Int)
    BY <1>2, <1>4, BookedFloors
  <2>2. CASE UNCHANGED cars /\ \A q \in Seq(Int) : UnderWay(c, q) => UnderWay(c, q)'
    BY <1>1, <1>4, <2>1, <2>2
  <2>3. CASE net.peer[c] = CarName /\ c \in Sockets /\ HandleStatus(c)
    <3>1. /\ \E m \in R : cars'[1].previous_status = m.status
          /\ cars'[1].queue = cars[1].queue
          /\ \A q \in Seq(Int) : UnderWay(c, q) => UnderWay(c, q)'
      BY <1>1, <2>3, StatusPassed
    <3> QED BY <1>1, <1>3, <1>4, <2>1, <3>1
  <2> QED BY <1>1, <1>2, <1>3, <2>2, <2>3, AskedControl
<1>9. cars'[1].queue = <<StopAt(p, f)', StopAt(p, t)'>>
  BY <1>1, <1>4, <1>5, <1>8
<1> QED BY <1>5, <1>6, <1>7, <1>8, <1>9 DEF Expected, R

(* The report of closed doors after one of closing doors takes the first   *)
(* floor off the queue, and the second is sent; another takes that.        *)
LEMMA AboardControl ==
  ASSUME NEW p \in Pads, Pads = {p}, Basis(p), NoB1, Control, Aboard(p)
  PROVE  Single(net') /\ Unheld(net') /\ PadAt(p)' /\ Aboard(p)'
<1> DEFINE R == ReportsOf(Status)
<1>1. PICK c \in Sockets :
        Listed(c, R) /\ (BothBooked(p, c) \/ LastSent(p, c) \/ LastHeard(p, c))
  BY DEF Aboard
<1>2. UNCHANGED <<pad, shm, pc>> /\ Asked(p) /\ inbox' = SentToCar(net')
  BY ControlKeeps DEF Aboard
<1>3. \A r \in R : r.kind = "STATUS"
  BY DEF ReportsOf
<1>4. PICK f, t, sf, st :
        f = From(p) /\ t = To(p) /\ sf = StopAt(p, From(p)) /\ st = StopAt(p, To(p))
  OBVIOUS
<1>5. f = From(p)' /\ t = To(p)' /\ sf = StopAt(p, From(p))' /\ st = StopAt(p, To(p))'
  BY <1>2, <1>4 DEF From, To, StopAt
<1>6. /\ <<>> \in Seq(Int) /\ <<f>> \in Seq(Int) /\ <<t>> \in Seq(Int)
      /\ <<f, t>> \in Seq(Int)
  BY <1>2, <1>4, BookedFloors
<1>7. RestsAt(f) => RestsAt(f)'
  BY ControlKeeps
<1> HIDE DEF R
<1>8. Single(net') /\ Unheld(net') /\ PadAt(p)' /\ Asked(p)' /\ Listed(c, R)'
  BY <1>1, <1>2, <1>3, AskedControl
<1>9. /\ st.floor = t /\ remove_from_car_queue(<<>>) = <<>>
      /\ remove_from_car_queue(<<sf, st>>) = <<st>> /\ remove_from_car_queue(<<st>>) = <<>>
      /\ get_next_destination(<<>>) = -1 /\ get_next_destination(<<st>>) = t
  <2>1. st.floor = t
    BY <1>4 DEF StopAt, Stop
  <2>2. \A x : <<x>> # <<>> /\ Head(<<x>>) = x /\ Tail(<<x>>) = <<>>
    OBVIOUS
  <2>3. \A x, y : <<x, y>> # <<>> /\ Tail(<<x, y>>) = <<y>>
    OBVIOUS
  <2> QED BY <2>1, <2>2, <2>3 DEF remove_from_car_queue, get_next_destination
<1>10. ASSUME BothBooked(p, c)' \/ LastSent(p, c)' \/ LastHeard(p, c)' PROVE Aboard(p)'
  BY <1>8, <1>10 DEF Aboard, R
<1>11. CASE UNCHANGED cars /\ \A q \in Seq(Int) : UnderWay(c, q) => UnderWay(c, q)'
  <2>1. CASE BothBooked(p, c)
    <3>1. BothBooked(p, c)'
      BY <1>4, <1>5, <1>6, <1>7, <1>11, <2>1 DEF BothBooked
    <3> QED BY <1>8, <1>10, <3>1
  <2>2. CASE LastSent(p, c)
    <3>1. LastSent(p, c)'
      BY <1>4, <1>5, <1>6, <1>7, <1>11, <2>2 DEF LastSent
    <3> QED BY <1>8, <1>10, <3>1
  <2>3. CASE LastHeard(p, c)
    <3>1. LastHeard(p, c)'
      BY <1>2, <1>4, <1>5, <1>6, <1>11, <2>3 DEF LastHeard
    <3> QED BY <1>8, <1>10, <3>1
  <2> QED BY <1>1, <2>1, <2>2, <2>3
<1>12. CASE c \in Sockets /\ net.peer[c] = CarName /\ HandleStatus(c)
  <2>1. CASE BothBooked(p, c)
    <3>1. CASE Arrives(cars[1], Head(net.to[c]))
      <4>1. /\ cars'[1].queue = <<st>>
            /\ get_next_destination(<<st>>) # -1 =>
                 net'.from[c] = Append(net.from[c], FloorMessage(t))
        <5>1. /\ cars'[1].queue = remove_from_car_queue(cars[1].queue)
              /\ get_next_destination(remove_from_car_queue(cars[1].queue)) # -1 =>
                   net'.from[c] =
                     Append(net.from[c],
                            FloorMessage(get_next_destination(
                                           remove_from_car_queue(cars[1].queue))))
          BY <1>1, <1>12, <3>1, StatusView
        <5>2. remove_from_car_queue(cars[1].queue) = <<st>>
          BY <1>4, <1>9, <2>1 DEF BothBooked
        <5> QED BY <1>9, <5>1, <5>2
      <4>2. t # -1
        <5>1. /\ cars \in Seq(Entries(Stops)) /\ Len(cars) = 1
          BY <1>1 DEF Basis, FloorsInv, TalkInv, Listed
        <5>2. cars[1] \in Entries(Stops)
          BY <1>1, <5>1, OneCar
        <5>3. cars[1].queue \in Seq(NodesOf(Wanted(Stops)))
          BY <5>2, EntryFields
        <5>4. remove_from_car_queue(cars[1].queue) \in Seq(NodesOf(Wanted(Stops)))
          BY <5>3, QueueRemoved
        <5>5. <<st>> \in Seq(NodesOf(Wanted(Stops)))
          BY <1>4, <1>9, <2>1, <5>4 DEF BothBooked
        <5>6. st \in NodesOf(Wanted(Stops))
          <6>1. Len(<<st>>) = 1 /\ <<st>>[1] = st
            OBVIOUS
          <6> QED BY <5>5, <6>1, ElementOfSeq
        <5>7. t \in Wanted(Stops)
          BY <1>9, <5>6 DEF NodesOf
        <5> QED BY <5>7 DEF Wanted, NoB1
      <4>3. UnderWay(c, <<t>>)' \/ UnderWay(c, <<f, t>>)'
        <5>1. PICK n : n = net'
          OBVIOUS
        <5>2. Single(n) /\ n.peer[c] = CarName
          BY <1>8, <5>1 DEF Listed
        <5>3. n.from[c] = FloorsTo(<<t>>) \/ n.from[c] = FloorsTo(<<f, t>>)
          <6>1. net.from[c] = FloorsTo(<<>>) \/ net.from[c] = FloorsTo(<<f>>)
            BY <1>4, <2>1 DEF BothBooked, UnderWay
          <6>2. /\ Append(FloorsTo(<<>>), FloorMessage(t)) = FloorsTo(<<t>>)
                /\ Append(FloorsTo(<<f>>), FloorMessage(t)) = FloorsTo(<<f, t>>)
            BY FewFloors
          <6>3. n.from[c] = Append(net.from[c], FloorMessage(t))
            BY <1>9, <4>1, <4>2, <5>1
          <6> QED BY <6>1, <6>2, <6>3
        <5>4. UnderWay(c, <<t>>)' \/ UnderWay(c, <<f, t>>)'
          BY <1>2, <1>6, <5>1, <5>2, <5>3, UnderWayIs
        <5> QED BY <5>4
      <4>4. RestsAt(f)'
        BY <1>4, <1>7, <2>1 DEF BothBooked
      <4>5. LastSent(p, c)'
        BY <1>5, <4>1, <4>3, <4>4 DEF LastSent
      <4> QED BY <1>8, <1>10, <4>5
    <3>2. CASE ~Arrives(cars[1], Head(net.to[c]))
      <4>1. cars'[1].queue = cars[1].queue /\ net'.from[c] = net.from[c]
        BY <1>1, <1>12, <3>2, StatusView
      <4>2. UnderWay(c, <<>>)' \/ UnderWay(c, <<f>>)'
        <5>1. PICK n : n = net'
          OBVIOUS
        <5>2. Single(n) /\ n.peer[c] = CarName
          BY <1>8, <5>1 DEF Listed
        <5>3. n.from[c] = FloorsTo(<<>>) \/ n.from[c] = FloorsTo(<<f>>)
          BY <1>4, <2>1, <4>1, <5>1 DEF BothBooked, UnderWay
        <5> QED BY <1>2, <1>6, <5>1, <5>2, <5>3, UnderWayIs
      <4>3. BothBooked(p, c)'
        BY <1>4, <1>5, <1>7, <2>1, <4>1, <4>2 DEF BothBooked
      <4> QED BY <1>8, <1>10, <4>3
    <3> QED BY <3>1, <3>2
  <2>2. ASSUME cars[1].queue \in {<<>>, <<st>>}
        PROVE  /\ cars'[1].queue \in {<<>>, <<st>>}
               /\ \A q \in Seq(Int) : UnderWay(c, q) => UnderWay(c, q)'
    <3>1. get_next_destination(remove_from_car_queue(cars[1].queue)) = -1
      BY <1>9, <2>2
    <3>2. /\ \/ cars'[1].queue = cars[1].queue
             \/ cars'[1].queue = remove_from_car_queue(cars[1].queue)
          /\ \A q \in Seq(Int) : UnderWay(c, q) => UnderWay(c, q)'
      BY <1>1, <1>12, <3>1, StatusPassed
    <3> QED BY <1>9, <2>2, <3>2
  <2>3. CASE LastSent(p, c)
    <3>1. LastSent(p, c)'
      BY <1>4, <1>5, <1>6, <1>7, <2>2, <2>3 DEF LastSent
    <3> QED BY <1>8, <1>10, <3>1
  <2>4. CASE LastHeard(p, c)
    <3>1. LastHeard(p, c)'
      BY <1>2, <1>4, <1>5, <1>6, <2>2, <2>4 DEF LastHeard
    <3> QED BY <1>8, <1>10, <3>1
  <2> QED BY <1>1, <2>1, <2>3, <2>4
<1> QED BY <1>1, <1>2, <1>3, <1>11, <1>12, AskedControl

-----------------------------------------------------------------------------
(* The process thread.                                                     *)

NoButtons ==
  /\ shm.open_button = 0 /\ shm.close_button = 0
  /\ shm.emergency_mode = 0 /\ shm.individual_service_mode = 0

(* Writing the status, moving, and clearing a flag press no button.        *)
LEMMA ButtonsKept ==
  ASSUME SharedTypeOK, NoButtons
  PROVE  /\ \A s \in Status : set_status(s) => NoButtons'
         /\ edit_flag("OP_CLEAR_OPEN") => NoButtons' /\ shm'.status = shm.status
         /\ edit_flag("OP_CLEAR_CLOSE") => NoButtons' /\ shm'.status = shm.status
         /\ \A d \in {-1, 1} : edit_shared_memory("OP_MOVE_CURRENT", d, "Opening") => NoButtons'
         /\ \A d : shm' = [shm EXCEPT !.destination_floor = d] =>
              NoButtons' /\ shm'.status = shm.status
<1>1. \A s \in Status : set_status(s) => NoButtons'
  BY StatusTyped DEF SharedTypeOK, SharedData, NoButtons
<1>2. edit_flag("OP_CLEAR_OPEN") => NoButtons' /\ shm'.status = shm.status
  BY DEF SharedTypeOK, SharedData, NoButtons, edit_flag, edit_shared_memory, Edited
<1>3. edit_flag("OP_CLEAR_CLOSE") => NoButtons' /\ shm'.status = shm.status
  BY DEF SharedTypeOK, SharedData, NoButtons, edit_flag, edit_shared_memory, Edited
<1>4. \A d \in {-1, 1} : edit_shared_memory("OP_MOVE_CURRENT", d, "Opening") => NoButtons'
  BY DEF SharedTypeOK, SharedData, NoButtons, edit_shared_memory, Edited
<1>5. \A d : shm' = [shm EXCEPT !.destination_floor = d] =>
        NoButtons' /\ shm'.status = shm.status
  BY DEF SharedTypeOK, SharedData, NoButtons
<1> QED BY <1>1, <1>2, <1>3, <1>4, <1>5

(* With no button pressed the phases follow each other.                    *)
LEMMA QuietDoor ==
  ASSUME CarInv, NoButtons, DoorStep("process", ProcessReturn)
  PROVE  /\ NoButtons'
         /\ \/ /\ shm'.status \in {shm.status, current_status["process"]}
               /\ current_status'["process"] = current_status["process"]
               /\ pc'["process"] \in DoorPC
            \/ /\ shm'.status = current_status["process"]
               /\ current_status["process"] = "Closed"
               /\ current_status'["process"] = "Opening"
               /\ pc'["process"] = ProcessReturn
            \/ /\ shm'.status = current_status["process"]
               /\ current_status["process"] \in {"Opening", "Open", "Closing"}
               /\ current_status'["process"] = NextStatus[current_status["process"]]
               /\ pc'["process"] \in DoorPC
<1>1. /\ SharedTypeOK /\ PcTypeOK /\ current_status \in [DoorThread -> DoorPhase]
      /\ "process" \in DoorThread
      /\ current_status["process"] \in {"Opening", "Open", "Closing", "Closed"}
      /\ current_status["process"] \in Status
  BY DEF CarInv, CarTypeOK, DoorThread, DoorPhase, Status
<1>2. \A label : Goto("process", label) => pc'["process"] = label
  BY <1>1, ProcessGoto
<1>3. CASE CheckStatus("process")
  <2>1. Goto("process", "readopen") \/ Goto("process", "correct")
    BY <1>3 DEF CheckStatus
  <2>2. UNCHANGED <<shm, current_status>>
    BY <1>3 DEF CheckStatus, shmVars
  <2> QED BY <1>2, <2>1, <2>2 DEF DoorPC, NoButtons
<1>4. CASE CorrectStatus("process")
  <2>1. /\ set_status(current_status["process"]) /\ Goto("process", "readopen")
        /\ UNCHANGED current_status
    BY <1>4 DEF CorrectStatus
  <2>2. NoButtons' /\ shm'.status = current_status["process"]
    BY <1>1, <2>1, ButtonsKept, StatusKeeps
  <2> QED BY <1>2, <2>1, <2>2 DEF DoorPC
<1>5. CASE ReadOpen("process")
  <2>1. /\ Goto("process", "readclose") /\ UNCHANGED <<shm, current_status>>
    BY <1>5 DEF ReadOpen, NoButtons, shmVars
  <2> QED BY <1>2, <2>1 DEF DoorPC, NoButtons
<1>6. CASE ClearOpenTwice("process")
  <2>1. /\ edit_flag("OP_CLEAR_OPEN") /\ Goto("process", "clear") /\ UNCHANGED current_status
    BY <1>6 DEF ClearOpenTwice
  <2> QED BY <1>1, <1>2, <2>1, ButtonsKept DEF DoorPC
<1>7. CASE ClearOpen("process")
  <2>1. /\ edit_flag("OP_CLEAR_OPEN") /\ Goto("process", "readclose")
        /\ UNCHANGED current_status
    BY <1>7 DEF ClearOpen
  <2> QED BY <1>1, <1>2, <2>1, ButtonsKept DEF DoorPC
<1>8. CASE ReadClose("process")
  <2>1. Goto("process", "enter") /\ UNCHANGED <<shm, current_status>>
    BY <1>8 DEF ReadClose, NoButtons, shmVars
  <2> QED BY <1>2, <2>1 DEF DoorPC, NoButtons
<1>9. CASE ClearClose("process")
  <2>1. /\ edit_flag("OP_CLEAR_CLOSE") /\ Goto("process", "enter") /\ UNCHANGED current_status
    BY <1>9 DEF ClearClose
  <2> QED BY <1>1, <1>2, <2>1, ButtonsKept DEF DoorPC
<1>10. CASE EnterStatus("process", ProcessReturn)
  <2>1. NoButtons' /\ shm'.status = current_status["process"]
    BY <1>1, <1>10, ButtonsKept, StatusKeeps DEF EnterStatus
  <2>2. CASE current_status["process"] = "Closed"
    <3>1. Become("process", "Opening") /\ Goto("process", ProcessReturn)
      BY <1>10, <2>2 DEF EnterStatus, LoopEnds
    <3> QED BY <1>1, <1>2, <2>1, <2>2, <3>1 DEF Become
  <2>3. CASE current_status["process"] # "Closed"
    <3>1. /\ Become("process", NextStatus[current_status["process"]])
          /\ Goto("process", "check")
      BY <1>10, <2>3 DEF EnterStatus, LoopEnds
    <3> QED BY <1>1, <1>2, <2>1, <2>3, <3>1 DEF Become, DoorPC
  <2> QED BY <2>2, <2>3
<1> QED BY <1>3, <1>4, <1>5, <1>6, <1>7, <1>8, <1>9, <1>10 DEF DoorStep

Goes(from, to) == pc["process"] = from /\ pc'["process"] = to

(* One round of the process thread, without its doors.                     *)
Round ==
  \/ Goes("start", "loop") /\ read_flag' = 1 /\ UNCHANGED <<shm, floordiff, shm_send>>
  \/ /\ Goes("loop", "check_send")
     /\ floordiff' = shm.destination_floor - shm.current_floor
     /\ UNCHANGED <<shm, shm_send, read_flag>>
  \/ /\ Goes("check_send", IF shm_send = 1 /\ floordiff = 0 THEN "check" ELSE "check_move")
     /\ UNCHANGED <<shm, floordiff, shm_send, read_flag>>
  \/ Goes("unsend", "check_move") /\ UNCHANGED <<shm, floordiff, read_flag>>
  \/ /\ Goes("check_move", IF floordiff # 0 /\ shm.status = "Closed" THEN "between" ELSE "loop")
     /\ UNCHANGED <<shm, floordiff, shm_send, read_flag>>
  \/ Goes("between", "flag0") /\ shm'.status = "Between" /\ UNCHANGED read_flag
  \/ Goes("flag0", "move") /\ UNCHANGED shm
  \/ Goes("move", "set_closed") /\ shm'.status = shm.status /\ UNCHANGED read_flag
  \/ Goes("set_closed", "flag1") /\ shm'.status = "Closed" /\ UNCHANGED read_flag
  \/ /\ Goes("flag1", "between") \/ Goes("flag1", "check")
     /\ read_flag' = 1 /\ UNCHANGED shm

(* The car stays where it is told to go while the thread runs its round.   *)
LEMMA ProcessRound ==
  ASSUME CarInv, ShaftInv, NoButtons, Process
  PROVE  /\ NoButtons' /\ ProcessStep /\ shm'.destination_floor = shm.destination_floor
         /\ UNCHANGED <<net, cars, inbox, pad, breaks, sockets>>
         /\ pc'["tcp"] = pc["tcp"] /\ pc'["doorcontrol"] = pc["doorcontrol"]
         /\ \/ DoorStep("process", ProcessReturn) /\ UNCHANGED processVars
            \/ Round /\ UNCHANGED current_status
<1>1. /\ SharedTypeOK /\ PcTypeOK /\ current_status \in [DoorThread -> DoorPhase]
      /\ "process" \in DoorThread /\ shm \in SharedData
      /\ shm.current_floor \in Label /\ shm.destination_floor \in Label
  BY DEF CarInv, CarTypeOK, DoorThread, SharedTypeOK, SharedData
<1>2. ProcessStep /\ UNCHANGED <<net, cars, inbox, pad, breaks, sockets>>
  BY DEF Process, ProcessRuns, linkVars, controllerVars
<1>3. \A label : Goto("process", label) =>
        /\ pc'["process"] = label /\ pc'["tcp"] = pc["tcp"]
        /\ pc'["doorcontrol"] = pc["doorcontrol"]
  BY <1>1 DEF PcTypeOK, Goto, Thread
<1> DEFINE Others == pc'["tcp"] = pc["tcp"] /\ pc'["doorcontrol"] = pc["doorcontrol"]
           Told == shm'.destination_floor = shm.destination_floor
<1>4. UNCHANGED shm => NoButtons' /\ Told
  BY DEF NoButtons
<1>5. CASE DoorStep("process", ProcessReturn) /\ UNCHANGED processVars
  <2>1. NoButtons'
    BY <1>5, QuietDoor
  <2>2. Told /\ Others
    BY <1>1, <1>5, DoorStepKeeps DEF Thread, FloorsKept
  <2> QED BY <1>2, <1>5, <2>1, <2>2
<1>6. CASE StartProcess
  <2>1. /\ pc["process"] = "start" /\ Goto("process", "loop") /\ read_flag' = 1
        /\ UNCHANGED <<shm, current_status, floordiff, shm_send>>
    BY <1>6 DEF StartProcess, shmVars
  <2> QED BY <1>2, <1>3, <1>4, <2>1 DEF Round, Goes
<1>7. CASE ReadFloors
  <2>1. /\ pc["process"] = "loop" /\ Goto("process", "check_send")
        /\ floordiff' = shm.destination_floor - shm.current_floor
        /\ UNCHANGED <<current_status, shm_send, read_flag>>
    BY <1>7 DEF ReadFloors
  <2>2. UNCHANGED shm
    <3>1. ~(shm.destination_floor > HighestFloor \/ shm.destination_floor < LowestFloor)
      <4>1. \A m, n \in Label : m =< n => ~(m > n)
        BY DEF Label
      <4> QED BY <1>1, <4>1, ShaftAssumption DEF ShaftAssumption, ShaftInv, DestinationInShaft
    <3> QED BY <1>1, <1>7, <3>1 DEF ReadFloors, SharedData
  <2> QED BY <1>2, <1>3, <1>4, <2>1, <2>2 DEF Round, Goes
<1>8. CASE CheckSend
  <2>1. /\ pc["process"] = "check_send"
        /\ Goto("process", IF shm_send = 1 /\ floordiff = 0 THEN "check" ELSE "check_move")
        /\ UNCHANGED <<shm, current_status, floordiff, shm_send, read_flag>>
    BY <1>8 DEF CheckSend, operate_door, shmVars, processVars
  <2> QED BY <1>2, <1>3, <1>4, <2>1 DEF Round, Goes
<1>9. CASE ClearSend
  <2>1. /\ pc["process"] = "unsend" /\ Goto("process", "check_move")
        /\ UNCHANGED <<shm, current_status, floordiff, read_flag>>
    BY <1>9 DEF ClearSend, shmVars
  <2> QED BY <1>2, <1>3, <1>4, <2>1 DEF Round, Goes
<1>10. CASE CheckMove
  <2>1. /\ pc["process"] = "check_move"
        /\ Goto("process", IF floordiff # 0 /\ shm.status = "Closed" THEN "between" ELSE "loop")
        /\ UNCHANGED <<shm, current_status, floordiff, shm_send, read_flag>>
    BY <1>10 DEF CheckMove, shmVars, processVars
  <2> QED BY <1>2, <1>3, <1>4, <2>1 DEF Round, Goes
<1>11. CASE SetBetween
  <2>1. /\ pc["process"] = "between" /\ Goto("process", "flag0") /\ set_status("Between")
        /\ UNCHANGED <<current_status, read_flag>>
    BY <1>11 DEF SetBetween, processVars
  <2>2. NoButtons' /\ Told /\ shm'.status = "Between"
    BY <1>1, <2>1, ButtonsKept, StatusKeeps DEF Status, FloorsKept
  <2> QED BY <1>2, <1>3, <2>1, <2>2 DEF Round, Goes
<1>12. CASE ClearReadFlag
  <2>1. /\ pc["process"] = "flag0" /\ Goto("process", "move")
        /\ UNCHANGED <<shm, current_status>>
    BY <1>12 DEF ClearReadFlag, shmVars
  <2> QED BY <1>2, <1>3, <1>4, <2>1 DEF Round, Goes
<1>13. CASE MoveCurrent
  <2>1. PICK d \in {-1, 1} : edit_shared_memory("OP_MOVE_CURRENT", d, "Opening")
    BY <1>13 DEF MoveCurrent
  <2>2. NoButtons' /\ Told /\ shm'.status = shm.status
    BY <1>1, <2>1, ButtonsKept, MoveKeeps
  <2>3. /\ pc["process"] = "move" /\ Goto("process", "set_closed")
        /\ UNCHANGED <<current_status, read_flag>>
    BY <1>13 DEF MoveCurrent, processVars
  <2> QED BY <1>2, <1>3, <2>2, <2>3 DEF Round, Goes
<1>14. CASE SetClosed
  <2>1. /\ pc["process"] = "set_closed" /\ Goto("process", "flag1") /\ set_status("Closed")
        /\ UNCHANGED <<current_status, read_flag>>
    BY <1>14 DEF SetClosed, processVars
  <2>2. NoButtons' /\ Told /\ shm'.status = "Closed"
    BY <1>1, <2>1, ButtonsKept, StatusKeeps DEF Status, FloorsKept
  <2> QED BY <1>2, <1>3, <2>1, <2>2 DEF Round, Goes
<1>15. CASE SetReadFlag
  <2>1. /\ pc["process"] = "flag1" /\ read_flag' = 1
        /\ Goto("process", "between") \/ Goto("process", "check")
        /\ UNCHANGED <<shm, current_status>>
    BY <1>15 DEF SetReadFlag, Arrive, operate_door, shmVars
  <2> QED BY <1>2, <1>3, <1>4, <2>1 DEF Round, Goes
<1> QED BY <1>2, <1>5, <1>6, <1>7, <1>8, <1>9, <1>10, <1>11, <1>12, <1>13, <1>14, <1>15
        DEF ProcessStep

(* No button is pressed, and the doors are moved by nobody else.           *)
LEMMA ProcessQuiet ==
  ASSUME CarInv, ShaftInv, Quiet, Calm, Process
  PROVE  /\ Quiet' /\ Calm'
         /\ Standing => Standing'
         /\ \A f : RestsAt(f) => RestsAt(f)'
         /\ Opens /\ shm.status # "Open" => Opens'
         /\ ProcessStep /\ shm'.destination_floor = shm.destination_floor
         /\ UNCHANGED <<net, cars, inbox, pad, sockets>> /\ pc'["tcp"] = pc["tcp"]
<1>1. /\ NoButtons' /\ ProcessStep /\ shm'.destination_floor = shm.destination_floor
      /\ UNCHANGED <<net, cars, inbox, pad, breaks, sockets>>
      /\ pc'["tcp"] = pc["tcp"] /\ pc'["doorcontrol"] = pc["doorcontrol"]
      /\ \/ DoorStep("process", ProcessReturn) /\ UNCHANGED processVars
         \/ Round /\ UNCHANGED current_status
  BY ProcessRound DEF Quiet, NoButtons
<1>2. Quiet'
  BY <1>1 DEF Quiet, NoButtons
<1>3. /\ SharedTypeOK /\ PcTypeOK /\ current_status \in [DoorThread -> DoorPhase]
      /\ shm.current_floor \in Int /\ shm.destination_floor \in Int
  BY LabelInt DEF CarInv, CarTypeOK, SharedTypeOK, SharedData
<1>4. \A n \in Int : n - n = 0
  OBVIOUS
<1>5. CASE DoorStep("process", ProcessReturn) /\ UNCHANGED processVars
  <2>1. /\ FloorsKept /\ pc["process"] \in DoorPC
        /\ \/ pc'["process"] \in DoorPC
           \/ pc'["process"] = ProcessReturn /\ shm'.status = "Closed"
    BY <1>3, <1>5, DoorStepKeeps DEF DoorThread
  <2>2. \/ /\ shm'.status \in {shm.status, current_status["process"]}
           /\ current_status'["process"] = current_status["process"]
        \/ /\ shm'.status = current_status["process"]
           /\ current_status["process"] = "Closed"
        \/ /\ shm'.status = current_status["process"]
           /\ current_status["process"] \in {"Opening", "Open", "Closing"}
           /\ current_status'["process"] = NextStatus[current_status["process"]]
    BY <1>5, QuietDoor DEF Quiet, NoButtons
  <2>3. UNCHANGED <<floordiff, shm_send, read_flag>>
    BY <1>5 DEF processVars
  <2>4. Calm'
    BY <2>1, <2>3 DEF Calm, DoorPC
  <2>5. ~Standing
    BY <2>1 DEF Standing, DoorPC
  <2>6. \A f : RestsAt(f) => RestsAt(f)'
    BY <2>1, <2>3 DEF RestsAt, FloorsKept, ProcessReturn, DoorPC
  <2>7. Opens /\ shm.status # "Open" => Opens'
    <3>1. /\ NextStatus["Opening"] = "Open" /\ NextStatus["Open"] = "Closing"
      BY DEF NextStatus
    <3>2. current_status["process"] \in {"Opening", "Open", "Closing", "Closed"}
      BY <1>3 DEF DoorThread, DoorPhase, Status
    <3> QED BY <2>2, <3>1, <3>2 DEF Opens
  <2> QED BY <1>1, <1>2, <2>4, <2>5, <2>6, <2>7
<1>6. CASE Round /\ UNCHANGED current_status
  <2>1. pc["process"] \notin DoorPC
    BY <1>6 DEF Round, Goes, DoorPC
  <2>2. Calm'
    <3>1. shm.status \in {"Closed", "Between"}
      BY <2>1 DEF Calm
    <3>2. shm'.status \in {"Closed", "Between"} \/ pc'["process"] \in DoorPC
      BY <1>6, <3>1 DEF Round, Goes, DoorPC
    <3>3. read_flag' = 0 => pc'["process"] \in {"start", "move", "set_closed", "flag1"}
      BY <1>6 DEF Round, Goes, Calm
    <3> QED BY <3>2, <3>3 DEF Calm
  <2>3. Standing => Standing'
    BY <1>3, <1>4, <1>6 DEF Round, Goes, Standing
  <2>4. \A f : RestsAt(f) => RestsAt(f)'
    BY <1>3, <1>4, <1>6 DEF Round, Goes, RestsAt, DoorPC
  <2>5. Opens /\ shm.status # "Open" => Opens'
    <3>1. shm'.status \in {shm.status, "Closed", "Between"}
      BY <1>6 DEF Round
    <3> QED BY <1>6, <3>1 DEF Opens
  <2> QED BY <1>1, <1>2, <2>2, <2>3, <2>4, <2>5
<1> QED BY <1>1, <1>5, <1>6

(* A step that no message is sent or received in.                          *)
LEMMA Unspoken ==
  ASSUME UNCHANGED <<net, cars, inbox, pad, sockets>>, pc'["tcp"] = pc["tcp"], NEW p
  PROVE  /\ Single(net) => Single(net')
         /\ Unheld(net) => Unheld(net')
         /\ PadAt(p) => PadAt(p)'
         /\ Asked(p) => Asked(p)'
         /\ From(p)' = From(p) /\ To(p)' = To(p)
         /\ \A f : StopAt(p, f)' = StopAt(p, f)
         /\ \A R : Unlisted(R) => Unlisted(R)'
         /\ \A s, R : Listed(s, R) => Listed(s, R)'
         /\ \A s, q : UnderWay(s, q) => UnderWay(s, q)'
<1>1. /\ Single(net) => Single(net')
      /\ Unheld(net) => Unheld(net')
  OBVIOUS
<1>2. SameFor(p, net, net')
  BY DEF SameFor
<1>3. (PadAt(p) => PadAt(p)') /\ (Asked(p) => Asked(p)')
  BY <1>2, PadFrame
<1>4. From(p)' = From(p) /\ To(p)' = To(p) /\ \A f : StopAt(p, f)' = StopAt(p, f)
  BY DEF From, To, StopAt
<1>5. \A R : Unlisted(R) => Unlisted(R)'
  BY DEF Unlisted, Line, Away
<1>6. \A s, R : Listed(s, R) => Listed(s, R)'
  BY DEF Listed
<1>7. \A s, q : UnderWay(s, q) => UnderWay(s, q)'
  BY DEF UnderWay
<1> QED BY <1>1, <1>3, <1>4, <1>5, <1>6, <1>7

(* The process thread opens and closes the doors at the floor the car is   *)
(* told, and moves it there.                                               *)
LEMMA PassengerProcess ==
  ASSUME NEW p \in Pads, Pads = {p}, Basis(p), SameSide, Process
  PROVE  /\ Quiet' /\ Calm' /\ Single(net') /\ Unheld(net') /\ PadAt(p)'
         /\ Unasked(p) => Unasked(p)'
         /\ Expected(p) /\ shm.status # "Open" => Expected(p)'
         /\ Aboard(p) => Aboard(p)'
<1>1. /\ CarInv /\ ShaftInv /\ Quiet /\ Calm /\ MovesBetween
      /\ Single(net) /\ Unheld(net) /\ PadAt(p)
  BY DEF Basis, FloorsInv
<1>2. /\ Quiet' /\ Calm'
      /\ Standing => Standing'
      /\ \A f : RestsAt(f) => RestsAt(f)'
      /\ Opens /\ shm.status # "Open" => Opens'
      /\ ProcessStep /\ shm'.destination_floor = shm.destination_floor
      /\ UNCHANGED <<net, cars, inbox, pad, sockets>> /\ pc'["tcp"] = pc["tcp"]
  BY <1>1, ProcessQuiet
<1>3. PICK f, t, sf, st :
        f = From(p) /\ t = To(p) /\ sf = StopAt(p, From(p)) /\ st = StopAt(p, To(p))
  OBVIOUS
<1>4. /\ Single(net') /\ Unheld(net') /\ PadAt(p)'
      /\ Asked(p) => Asked(p)'
      /\ f = From(p)' /\ t = To(p)'
      /\ sf = StopAt(p, From(p))' /\ st = StopAt(p, To(p))'
  <2>1. UNCHANGED <<net, cars, inbox, pad, sockets>> /\ pc'["tcp"] = pc["tcp"]
    BY <1>2
  <2>2. /\ Single(net) => Single(net')
        /\ Unheld(net) => Unheld(net')
        /\ PadAt(p) => PadAt(p)'
        /\ Asked(p) => Asked(p)'
    BY <2>1, Unspoken
  <2>3. /\ f = From(p)' /\ t = To(p)'
        /\ sf = StopAt(p, From(p))' /\ st = StopAt(p, To(p))'
    BY <1>2, <1>3 DEF From, To, StopAt
  <2> QED BY <1>1, <2>2, <2>3
<1>5. /\ \A R : Unlisted(R) => Unlisted(R)'
      /\ \A s, R : Listed(s, R) => Listed(s, R)'
      /\ \A s, q : UnderWay(s, q) => UnderWay(s, q)'
  BY <1>2, Unspoken
<1>6. ASSUME Unasked(p) PROVE Unasked(p)'
  <2>1. /\ pad'[p].answer # CarAnswer(CarName) /\ Standing'
        /\ \A s \in Sockets : net'.peer[s] = p => net'.from[s] \in {<<>>, <<Unavailable>>}
    BY <1>2, <1>6 DEF Unasked
  <2>2. CASE Unlisted({IdleReport})
    <3>1. PICK R : R = {IdleReport}
      OBVIOUS
    <3>2. Unlisted(R)'
      BY <1>5, <2>2, <3>1
    <3>3. R = {IdleReport'}
      BY <3>1 DEF IdleReport
    <3> QED BY <2>1, <3>2, <3>3 DEF Unasked
  <2>3. ASSUME NEW c \in Sockets,
               Listed(c, {IdleReport}), IdleEntry(cars[1]), UnderWay(c, <<>>)
        PROVE  Unasked(p)'
    <3>1. PICK R : R = {IdleReport}
      OBVIOUS
    <3>2. Listed(c, R)' /\ UnderWay(c, <<>>)'
      BY <1>5, <2>3, <3>1
    <3>3. R = {IdleReport'}
      BY <3>1 DEF IdleReport
    <3>4. IdleEntry(cars[1])'
      BY <1>2, <2>3 DEF IdleEntry
    <3> QED BY <2>1, <3>2, <3>3, <3>4 DEF Unasked
  <2> QED BY <1>6, <2>2, <2>3 DEF Unasked
<1>7. ASSUME Expected(p), shm.status # "Open" PROVE Expected(p)'
  <2>1. PICK c \in Sockets :
          /\ Listed(c, ReportsOf(Status \ {"Closing"}))
          /\ cars[1].queue = <<StopAt(p, From(p)), StopAt(p, To(p))>>
          /\ cars[1].previous_status # "Closing"
          /\ UnderWay(c, <<>>) \/ UnderWay(c, <<From(p)>>)
    BY <1>7 DEF Expected
  <2>2. Asked(p) /\ OnCourse({f}) /\ Opens
    BY <1>3, <1>7 DEF Expected
  <2>3. Listed(c, ReportsOf(Status \ {"Closing"}))'
    <3>1. PICK R : R = ReportsOf(Status \ {"Closing"})
      OBVIOUS
    <3>2. Listed(c, R)'
      BY <1>5, <2>1, <3>1
    <3>3. R = ReportsOf(Status \ {"Closing"})'
      BY <3>1 DEF ReportsOf
    <3> QED BY <3>2, <3>3
  <2>4. cars'[1].queue = <<sf, st>> /\ cars'[1].previous_status # "Closing"
    BY <1>2, <1>3, <2>1
  <2>5. UnderWay(c, <<>>)' \/ UnderWay(c, <<f>>)'
    BY <1>3, <1>5, <2>1
  <2>6. OnCourse({f})'
    <3>1. f \in Label
      <4>1. pad[p].call \in Label \X Label
        BY <1>1, <2>2 DEF PadAt, Asked
      <4> QED BY <1>3, <4>1, StopsOf
    <3>2. {f} \subseteq Label
      BY <3>1
    <3>3. PICK S : S = {f}
      OBVIOUS
    <3>4. OnCourse(S)'
      BY <1>1, <1>2, <2>2, <3>2, <3>3, CourseProcess
    <3> QED BY <3>3, <3>4
  <2>7. Opens'
    BY <1>2, <1>7, <2>2
  <2>8. \/ UnderWay(c, <<>>)' \/ UnderWay(c, <<From(p)>>)'
    BY <1>4, <2>5
  <2> QED BY <1>4, <2>2, <2>3, <2>4, <2>6, <2>7, <2>8 DEF Expected
<1>8. ASSUME Aboard(p) PROVE Aboard(p)'
  <2>1. PICK c \in Sockets :
          Listed(c, ReportsOf(Status)) /\ (BothBooked(p, c) \/ LastSent(p, c) \/ LastHeard(p, c))
    BY <1>8 DEF Aboard
  <2>2. Listed(c, ReportsOf(Status))'
    <3>1. PICK R : R = ReportsOf(Status)
      OBVIOUS
    <3>2. Listed(c, R)'
      BY <1>5, <2>1, <3>1
    <3>3. R = ReportsOf(Status)'
      BY <3>1 DEF ReportsOf
    <3> QED BY <3>2, <3>3
  <2>3. RestsAt(f) => RestsAt(f)'
    BY <1>2
  <2>4. CASE BothBooked(p, c)
    <3>1. BothBooked(p, c)'
      BY <1>2, <1>3, <1>4, <1>5, <2>3, <2>4 DEF BothBooked
    <3> QED BY <1>4, <1>8, <2>2, <3>1 DEF Aboard
  <2>5. CASE LastSent(p, c)
    <3>1. LastSent(p, c)'
      BY <1>2, <1>3, <1>4, <1>5, <2>3, <2>5 DEF LastSent
    <3> QED BY <1>4, <1>8, <2>2, <3>1 DEF Aboard
  <2>6. CASE LastHeard(p, c)
    <3>1. LastHeard(p, c)'
      BY <1>2, <1>3, <1>4, <1>5, <2>6 DEF LastHeard
    <3> QED BY <1>4, <1>8, <2>2, <3>1 DEF Aboard
  <2> QED BY <2>1, <2>4, <2>5, <2>6
<1> QED BY <1>2, <1>4, <1>6, <1>7, <1>8

-----------------------------------------------------------------------------
(* The link to the controller.                                             *)

(* On socket s the car has said where it is, or heard what was there.      *)
Exchanged(s, says, hears) ==
  [net EXCEPT !.to[s] = IF says THEN Append(@, ReportedStatus) ELSE @,
              !.from[s] = IF hears THEN Taken(@) ELSE @]

Connects ==
  /\ pc["tcp"] = "connect" /\ pc'["tcp"] = "register"
  /\ UNCHANGED <<net, shm, shm_send, inbox>>

Registers ==
  /\ pc["tcp"] = "register" /\ pc'["tcp"] = "top"
  /\ net' = Dialled(CarName, <<Hello, ReportedStatus>>)
  /\ UNCHANGED <<shm, shm_send, inbox>>

Waits ==
  /\ pc["tcp"] \in {"top", "wait", "heed"} /\ pc'["tcp"] = "wait"
  /\ UNCHANGED <<net, shm, shm_send, inbox>>

(* A FLOOR that is heeded is heard in a step of its own, after the report. *)
Reports ==
  /\ pc["tcp"] \in {"top", "wait", "heed"}
  /\ \E says, hears \in BOOLEAN :
       /\ net' = Exchanged(SocketOf(CarName), says, hears)
       /\ \/ /\ hears => inbox = <<>>
             /\ pc'["tcp"] \in {"top", "heed"}
             /\ UNCHANGED <<shm, shm_send, inbox>>
          \/ hears /\ TakesFloor /\ pc'["tcp"] = "top"

(* Without breaks the link registers once, and then reports.               *)
LEMMA QuietLink ==
  ASSUME CarInv, Quiet, Calm, Steady, NEW S, Talk(net, S),
         pc["tcp"] = "connect" => sockets = 0, CarTalks
  PROVE  /\ LinkStep
         /\ UNCHANGED <<cars, pad, current_status, floordiff, i, read_flag>>
         /\ pc'["process"] = pc["process"]
         /\ Quiet' /\ Calm'
         /\ Connects \/ Registers \/ (HeldBy(CarName) # {} /\ (Waits \/ Reports))
<1>1. LinkStep /\ UNCHANGED <<cars, pad>>
  BY DEF CarTalks, ConnectCar, RegisterCar, ReportCar, HeedCar, LinkStep, controllerVars
<1>2. SharedTypeOK /\ PcTypeOK
  BY DEF CarInv
<1>3. /\ UNCHANGED <<current_status, floordiff, i, read_flag>>
      /\ UNCHANGED shm \/ TakesFloor
  BY <1>1, <1>2, LinkMoves
<1>4. ~Break /\ ~Withdrawn /\ ~(shm.emergency_mode = 1 /\ shm.individual_service_mode = 1)
  BY DEF Quiet, Steady, Break, Withdrawn
<1>5. \A label : Goto("tcp", label) =>
        /\ pc'["tcp"] = label /\ pc'["process"] = pc["process"]
        /\ pc'["doorcontrol"] = pc["doorcontrol"]
  BY <1>2 DEF PcTypeOK, Goto, Thread
<1> DEFINE Others == pc'["process"] = pc["process"] /\ pc'["doorcontrol"] = pc["doorcontrol"]
           Said == Connects \/ Registers \/ (HeldBy(CarName) # {} /\ (Waits \/ Reports))
<1>6. ASSUME ConnectCar PROVE Others /\ UNCHANGED breaks /\ Said
  <2>1. sockets < MaxSockets
    <3>1. sockets = 0
      BY <1>6 DEF ConnectCar, Connect
    <3>2. 0 < MaxSockets
      BY LinkAssumption DEF LinkAssumption
    <3> QED BY <3>1, <3>2
  <2>2. Goto("tcp", "register")
    BY <1>6, <2>1 DEF ConnectCar, Connect
  <2>3. pc["tcp"] = "connect" /\ UNCHANGED <<net, shm, shm_send, inbox, breaks>>
    BY <1>6 DEF ConnectCar, Connect, shmVars, processVars, controllerVars
  <2>4. Connects /\ Others /\ UNCHANGED breaks
    BY <1>5, <2>2, <2>3 DEF Connects
  <2> QED BY <2>4
<1>7. ASSUME RegisterCar PROVE Others /\ UNCHANGED breaks /\ Said
  <2>1. /\ pc["tcp"] = "register" /\ Goto("tcp", "top")
        /\ UNCHANGED <<shm, shm_send, inbox, breaks>>
    BY <1>4, <1>7 DEF RegisterCar, Register, shmVars, processVars
  <2>2. pc'["tcp"] = "top"
    BY <1>5, <2>1
  <2>3. net' = Dialled(CarName, <<Hello, ReportedStatus>>)
    BY <1>7, <2>2 DEF RegisterCar, Hello
  <2>4. Registers /\ Others /\ UNCHANGED breaks
    BY <1>5, <2>1, <2>2, <2>3 DEF Registers
  <2> QED BY <2>4
<1>8. ASSUME ReportCar PROVE Others /\ UNCHANGED breaks /\ Said
  <2>1. /\ HeldBy(CarName) # {} /\ pc["tcp"] \in {"top", "wait"}
        /\ \/ Goto("tcp", "wait") /\ UNCHANGED <<shm, shm_send, inbox, breaks>>
           \/ Report
    BY <1>4, <1>8 DEF ReportCar, Top, TimeoutReport, Withdraw
  <2>2. CASE Goto("tcp", "wait") /\ UNCHANGED <<shm, shm_send, inbox, breaks>>
    <3>1. pc'["tcp"] = "wait" /\ Others
      BY <1>5, <2>2
    <3>2. UNCHANGED net
      BY <1>8, <3>1 DEF ReportCar
    <3> QED BY <2>1, <2>2, <3>1, <3>2 DEF Waits
  <2>3. CASE Report
    <3>1. /\ UNCHANGED <<shm, breaks>>
          /\ \/ inbox = <<>> /\ Goto("tcp", "top") /\ UNCHANGED <<shm_send, inbox>>
             \/ inbox # <<>> /\ ReceiveFloor
      BY <1>4, <2>3 DEF Report
    <3>2. CASE Goto("tcp", "heed") /\ UNCHANGED <<shm_send, inbox>>
      <4>1. pc'["tcp"] = "heed" /\ Others
        BY <1>5, <3>2
      <4>2. net' = Exchanged(SocketOf(CarName), TRUE, FALSE)
        BY <1>8, <4>1 DEF ReportCar, Exchanged
      <4>3. Reports
        BY <2>1, <3>1, <3>2, <4>1, <4>2 DEF Reports
      <4> QED BY <2>1, <3>1, <4>1, <4>3
    <3>3. CASE /\ Goto("tcp", "top")
               /\ \/ inbox = <<>> /\ UNCHANGED <<shm_send, inbox>>
                  \/ /\ inbox # <<>> /\ read_flag # 1
                     /\ shm_send' = 1 /\ inbox' = Tail(inbox)
      <4>1. pc'["tcp"] = "top" /\ Others
        BY <1>5, <3>3
      <4>2. net' = Exchanged(SocketOf(CarName), TRUE, TRUE)
        BY <1>8, <4>1 DEF ReportCar, Exchanged
      <4>3. Reports
        BY <2>1, <3>1, <3>3, <4>1, <4>2 DEF Reports, TakesFloor
      <4> QED BY <2>1, <3>1, <4>1, <4>3
    <3> QED BY <3>1, <3>2, <3>3 DEF ReceiveFloor, HeedsFloor
  <2> QED BY <2>1, <2>2, <2>3
<1>9. ASSUME HeedCar PROVE Others /\ UNCHANGED breaks /\ Said
  <2>1. /\ HeldBy(CarName) # {} /\ pc["tcp"] = "heed" /\ TakesFloor
        /\ Goto("tcp", "top") /\ UNCHANGED breaks
    BY <1>9 DEF HeedCar, HeedFloor, TakesFloor
  <2>2. net' = Exchanged(SocketOf(CarName), FALSE, TRUE)
    <3>1. net \in NetsOf(Clients, Messages(S), Replies(S))
      BY DEF Talk, WellFormed
    <3>2. net' = [net EXCEPT !.from[SocketOf(CarName)] = Taken(@)]
      BY <1>9 DEF HeedCar
    <3>3. \A s : net = [net EXCEPT !.to[s] = @]
      BY <3>1 DEF NetsOf
    <3> QED BY <3>2, <3>3 DEF Exchanged
  <2>3. pc'["tcp"] = "top" /\ Others
    BY <1>5, <2>1
  <2>4. Reports
    BY <2>1, <2>2, <2>3 DEF Reports
  <2> QED BY <2>1, <2>3, <2>4
<1>10. Others /\ UNCHANGED breaks /\ Said
  BY <1>6, <1>7, <1>8, <1>9 DEF CarTalks
<1>11. NoButtons' /\ shm'.status = shm.status
  <2>1. NoButtons
    BY DEF Quiet, NoButtons
  <2>2. CASE UNCHANGED shm
    BY <2>1, <2>2 DEF NoButtons
  <2>3. CASE shm' = [shm EXCEPT !.destination_floor = Head(inbox)]
    BY <1>2, <2>1, <2>3, ButtonsKept
  <2> QED BY <1>3, <2>2, <2>3 DEF TakesFloor
<1>12. Quiet' /\ Calm'
  BY <1>3, <1>10, <1>11 DEF Quiet, NoButtons, Calm
<1> QED BY <1>1, <1>3, <1>10, <1>12

(* What is said goes to the end of what is under way, and what is heard    *)
(* was at its head.                                                        *)
LEMMA ExchangedView ==
  ASSUME NEW S, Talk(net, S), Single(net), Unheld(net), NEW s \in Sockets,
         net.peer[s] = CarName, NEW says, NEW hears,
         NEW n, n = Exchanged(SocketOf(CarName), says, hears)
  PROVE  /\ n.peer = net.peer /\ Line(n) = Line(net)
         /\ n.to[s] = IF says THEN Append(net.to[s], ReportedStatus) ELSE net.to[s]
         /\ n.from[s] = IF hears THEN Taken(net.from[s]) ELSE net.from[s]
         /\ Single(n) /\ Unheld(n)
         /\ \A y : y # CarName => SameFor(y, net, n)
<1>1. CarName # Nobody
  BY FlightAssumption DEF FlightAssumption
<1>2. SocketOf(CarName) = s
  BY <1>1, SocketIs
<1>3. net \in NetsOf(Clients, Messages(S), Replies(S))
  BY DEF Talk, WellFormed
<1>4. PICK q : q = IF says THEN Append(net.to[s], ReportedStatus) ELSE net.to[s]
  OBVIOUS
<1>5. PICK rest : rest = IF hears THEN Taken(net.from[s]) ELSE net.from[s]
  OBVIOUS
<1>6. n = [net EXCEPT !.to[s] = q, !.from[s] = rest]
  BY <1>2, <1>4, <1>5 DEF Exchanged
<1>7. /\ n.peer = net.peer /\ n.backlog = net.backlog
      /\ n.to = [net.to EXCEPT ![s] = q]
      /\ n.from = [net.from EXCEPT ![s] = rest]
  BY <1>3, <1>6 DEF NetsOf
<1>8. Line(n) = Line(net)
  BY <1>7 DEF Line
<1>9. /\ \A t \in Sockets : t # s => n.to[t] = net.to[t] /\ n.from[t] = net.from[t]
      /\ n.to[s] = q /\ n.from[s] = rest
  BY <1>3, <1>7 DEF NetsOf
<1>10. Single(n)
  BY <1>7, <1>8 DEF Single
<1>11. Unheld(n)
  BY <1>1, <1>7, <1>9 DEF Unheld
<1>12. \A y : y # CarName => SameFor(y, net, n)
  BY <1>7, <1>8, <1>9 DEF SameFor
<1> QED BY <1>4, <1>5, <1>7, <1>8, <1>9, <1>10, <1>11, <1>12

(* What is said last changes neither what is heard first nor its order.    *)
LEMMA AppendedEnds ==
  ASSUME NEW B, NEW q \in Seq(B), q # <<>>, NEW b \in B
  PROVE  /\ Append(q, b) # <<>> /\ Head(Append(q, b)) = Head(q)
         /\ Tail(Append(q, b)) = Append(Tail(q), b)
<1>1. /\ Len(q) \in Nat /\ Len(q) >= 1
      /\ Append(q, b) \in Seq(B) /\ Len(Append(q, b)) = Len(q) + 1
      /\ \A k \in 1 .. Len(q) : Append(q, b)[k] = q[k]
      /\ Append(q, b)[Len(q) + 1] = b
  BY LenProperties, AppendProperties, EmptySeq
<1>2. Append(q, b) # <<>>
  BY <1>1
<1>3. Head(Append(q, b)) = Head(q)
  BY <1>1
<1>4. /\ Tail(q) \in Seq(B) /\ Len(Tail(q)) = Len(q) - 1
      /\ \A k \in 1 .. Len(q) - 1 : Tail(q)[k] = q[k + 1]
  BY <1>1, HeadTailProperties
<1>5. /\ Tail(Append(q, b)) \in Seq(B) /\ Len(Tail(Append(q, b))) = Len(q)
      /\ \A k \in 1 .. Len(q) : Tail(Append(q, b))[k] = Append(q, b)[k + 1]
  BY <1>1, <1>2, HeadTailProperties
<1>6. /\ Append(Tail(q), b) \in Seq(B) /\ Len(Append(Tail(q), b)) = Len(q)
      /\ \A k \in 1 .. Len(q) - 1 : Append(Tail(q), b)[k] = Tail(q)[k]
      /\ Append(Tail(q), b)[Len(q)] = b
  BY <1>1, <1>4, AppendProperties
<1>7. \A k \in 1 .. Len(q) : Tail(Append(q, b))[k] = Append(Tail(q), b)[k]
  <2>1. \A k \in 1 .. Len(q) - 1 : Tail(Append(q, b))[k] = Append(Tail(q), b)[k]
    BY <1>1, <1>4, <1>5, <1>6
  <2>2. Tail(Append(q, b))[Len(q)] = Append(Tail(q), b)[Len(q)]
    BY <1>1, <1>5, <1>6
  <2>3. \A k \in 1 .. Len(q) : k = Len(q) \/ k \in 1 .. Len(q) - 1
    BY <1>1
  <2> QED BY <2>1, <2>2, <2>3
<1>8. Tail(Append(q, b)) = Append(Tail(q), b)
  BY <1>5, <1>6, <1>7, SeqEqual
<1> QED BY <1>2, <1>3, <1>8

(* The car registers, and reports that it stands where it started.         *)
LEMMA UnaskedLink ==
  ASSUME NEW p \in Pads, Pads = {p}, Basis(p), Steady, CarTalks, Unasked(p)
  PROVE  Quiet' /\ Calm' /\ Single(net') /\ Unheld(net') /\ PadAt(p)' /\ Unasked(p)'
<1>1. /\ CarInv /\ Quiet /\ Calm /\ Talk(net, Stops) /\ Single(net) /\ Unheld(net) /\ PadAt(p)
      /\ Standing
  BY DEF Basis, FloorsInv, TalkInv, Unasked
<1>2. p # CarName /\ p # Nobody /\ CarName # Nobody /\ CarName \in Clients
  BY TwoClients DEF Clients
<1>3. inbox = <<>> /\ (pc["tcp"] = "connect" => sockets = 0)
  BY DEF Unasked, Unlisted, Listed, UnderWay
<1>4. /\ UNCHANGED <<cars, pad, current_status, floordiff, i, read_flag>>
      /\ pc'["process"] = pc["process"] /\ Quiet' /\ Calm'
      /\ Connects \/ Registers \/ (HeldBy(CarName) # {} /\ (Waits \/ Reports))
  BY <1>1, <1>3, QuietLink
<1>5. UNCHANGED <<shm, shm_send, inbox>>
  BY <1>3, <1>4 DEF Connects, Registers, Waits, Reports, TakesFloor
<1>6. Standing'
  BY <1>1, <1>4, <1>5 DEF Standing
<1>7. PICK r : r = ReportedStatus
  OBVIOUS
<1>8. r = IdleReport /\ r = IdleReport'
  BY <1>1, <1>7 DEF Standing, ReportedStatus, IdleReport
<1>9. ASSUME SameFor(p, net, net'), Single(net'), Unheld(net'),
             \/ Unlisted({r})'
             \/ \E c \in Sockets :
                  Listed(c, {r})' /\ IdleEntry(cars[1])' /\ UnderWay(c, <<>>)'
      PROVE  Single(net') /\ Unheld(net') /\ PadAt(p)' /\ Unasked(p)'
  <2>1. PadAt(p)'
    BY <1>1, <1>4, <1>9, PadFrame
  <2>2. pad'[p].answer # CarAnswer(CarName)
    BY <1>4 DEF Unasked
  <2>3. \A t \in Sockets : net'.peer[t] = p => net'.from[t] \in {<<>>, <<Unavailable>>}
    BY <1>9 DEF SameFor, Unasked
  <2> QED BY <1>6, <1>8, <1>9, <2>1, <2>2, <2>3 DEF Unasked
<1>10. CASE Unlisted({IdleReport})
  <2>1. /\ cars' = <<>> /\ inbox' = <<>>
        /\ \A s \in Sockets : net.peer[s] = CarName => net.from[s] = <<>>
    BY <1>4, <1>5, <1>10 DEF Unlisted
  <2>2. CASE Connects
    <3>1. UNCHANGED net /\ Away(net, CarName) /\ pc'["tcp"] = "register"
      BY <1>10, <2>2 DEF Connects, Unlisted
    <3>2. Unlisted({r})'
      BY <2>1, <3>1 DEF Unlisted, Away, Line
    <3> QED BY <1>1, <1>4, <1>9, <3>1, <3>2 DEF SameFor
  <2>3. CASE Registers
    <3>1. Away(net, CarName) /\ pc'["tcp"] = "top"
      BY <1>10, <2>3 DEF Registers, Unlisted
    <3>2. PICK hello : hello = <<Hello, r>>
      OBVIOUS
    <3>3. hello \in Seq(Messages(Stops))
      <4>1. r \in CarMessages /\ CarMessages \subseteq Messages(Stops)
        BY <1>1, <1>7, StatusReported DEF CarInv, Messages
      <4>2. Hello \in CarMessages
        BY DEF Hello, CarMessages
      <4>3. Hello \in Messages(Stops) /\ r \in Messages(Stops)
        BY <4>1, <4>2
      <4> QED BY <3>2, <4>3
    <3>4. PICK n : n = net'
      OBVIOUS
    <3>5. n = Dialled(CarName, hello)
      BY <1>7, <2>3, <3>2, <3>4 DEF Registers
    <3>6. /\ n.peer = net.peer
          /\ Line(n) = Line(net) \union {[client |-> CarName, messages |-> hello]}
          /\ Single(n) /\ Unheld(n) /\ SameFor(p, net, n)
      BY <1>1, <1>2, <3>1, <3>3, <3>5, DialledView
    <3>7. \A s \in Sockets : n.peer[s] # CarName
      BY <3>1, <3>6 DEF Away
    <3>8. \E b \in Line(n) : b.client = CarName /\ b.messages = hello
      <4>1. PICK b : b = [client |-> CarName, messages |-> hello]
        OBVIOUS
      <4>2. b \in Line(n)
        BY <3>6, <4>1, Zenon
      <4>3. b.client = CarName /\ b.messages = hello
        BY <4>1
      <4> QED BY <4>2, <4>3
    <3>9. hello = <<Hello, r>>'
      BY <3>2 DEF Hello
    <3>10. Unlisted({r})'
      BY <2>1, <3>1, <3>4, <3>7, <3>8, <3>9 DEF Unlisted
    <3> QED BY <1>4, <1>9, <3>4, <3>6, <3>10
  <2>4. CASE Waits
    <3>1. UNCHANGED net /\ pc'["tcp"] = "wait" /\ pc["tcp"] \in {"top", "wait", "heed"}
      BY <2>4 DEF Waits
    <3>2. Hello' = Hello
      BY DEF Hello
    <3>3. Unlisted({r})'
      BY <1>8, <1>10, <2>1, <3>1, <3>2 DEF Unlisted, Line
    <3> QED BY <1>1, <1>4, <1>9, <3>1, <3>3 DEF SameFor
  <2>5. CASE HeldBy(CarName) # {} /\ Reports
    <3>1. PICK s \in Sockets :
            /\ net.peer[s] = CarName /\ net.to[s] # <<>>
            /\ Head(net.to[s]) = Hello /\ Tail(net.to[s]) \in Seq({r})
      <4>1. \A b \in Line(net) : b.client # CarName
        BY <1>1, <2>5 DEF HeldBy, Single
      <4>2. pc["tcp"] \in {"top", "wait", "heed"}
        BY <2>5 DEF Reports
      <4> QED BY <1>8, <1>10, <4>1, <4>2 DEF Unlisted
    <3>2. PICK n : n = net'
      OBVIOUS
    <3>3. PICK says, hears \in BOOLEAN :
            n = Exchanged(SocketOf(CarName), says, hears) /\ pc'["tcp"] \in {"top", "heed"}
      BY <2>5, <3>2 DEF Reports
    <3>4. /\ n.peer = net.peer /\ n.to[s] \in {Append(net.to[s], r), net.to[s]}
          /\ n.from[s] \in {Taken(net.from[s]), net.from[s]}
          /\ Single(n) /\ Unheld(n) /\ SameFor(p, net, n)
      <4>1. /\ n.peer = net.peer
            /\ n.to[s] = IF says THEN Append(net.to[s], r) ELSE net.to[s]
            /\ n.from[s] = IF hears THEN Taken(net.from[s]) ELSE net.from[s]
            /\ Single(n) /\ Unheld(n) /\ SameFor(p, net, n)
        BY <1>1, <1>2, <1>7, <3>1, <3>3, ExchangedView
      <4>2. /\ n.to[s] \in {Append(net.to[s], r), net.to[s]}
            /\ n.from[s] \in {Taken(net.from[s]), net.from[s]}
        BY <4>1, Zenon
      <4> QED BY <4>1, <4>2
    <3>5. /\ n.to[s] # <<>> /\ Head(n.to[s]) = Hello /\ Tail(n.to[s]) \in Seq({r})
      <4>1. net.to[s] \in Seq(CarMessages)
        BY <1>1, <3>1 DEF Talk, CarLine
      <4>2. r \in CarMessages
        BY <1>1, <1>7, StatusReported DEF CarInv
      <4>3. PICK q \in Seq(CarMessages) : q = net.to[s]
        BY <4>1
      <4>4. /\ Append(q, r) # <<>> /\ Head(Append(q, r)) = Head(q)
            /\ Tail(Append(q, r)) = Append(Tail(q), r)
        BY <3>1, <4>2, <4>3, AppendedEnds
      <4>5. Append(Tail(q), r) \in Seq({r})
        BY <3>1, <4>3, AppendProperties
      <4> QED BY <3>1, <3>4, <4>3, <4>4, <4>5
    <3>6. \A t \in Sockets : n.peer[t] = CarName => n.from[t] = <<>>
      <4>1. \A t \in Sockets : net.peer[t] = CarName => t = s
        BY <1>1, <1>2, <3>1 DEF Single
      <4> QED BY <2>1, <3>1, <3>4, <4>1 DEF Taken
    <3>7. Hello' = Hello
      BY DEF Hello
    <3>8. Unlisted({r})'
      BY <2>1, <3>1, <3>2, <3>3, <3>4, <3>5, <3>6, <3>7 DEF Unlisted
    <3> QED BY <1>4, <1>9, <3>2, <3>4, <3>8
  <2> QED BY <1>4, <2>2, <2>3, <2>4, <2>5
<1>11. ASSUME NEW c \in Sockets, Listed(c, {IdleReport}), IdleEntry(cars[1]), UnderWay(c, <<>>)
       PROVE  /\ Quiet' /\ Calm' /\ Single(net') /\ Unheld(net') /\ PadAt(p)'
              /\ Unasked(p)'
  <2>1. /\ pc["tcp"] \in {"top", "wait", "heed"} /\ net.peer[c] = CarName /\ net.to[c] \in Seq({r})
        /\ Len(cars) = 1 /\ cars[1].connectionsocket = c
    BY <1>8, <1>11 DEF Listed
  <2>2. IdleEntry(cars[1])'
    BY <1>4, <1>11 DEF IdleEntry
  <2>3. CASE Waits
    <3>1. UNCHANGED net /\ pc'["tcp"] = "wait"
      BY <2>3 DEF Waits
    <3>2. Listed(c, {r})' /\ UnderWay(c, <<>>)'
      BY <1>4, <1>5, <1>11, <2>1, <3>1 DEF Listed, UnderWay
    <3> QED BY <1>1, <1>4, <1>9, <2>2, <3>1, <3>2 DEF SameFor
  <2>4. CASE Reports
    <3>1. PICK n : n = net'
      OBVIOUS
    <3>2. PICK says, hears \in BOOLEAN :
            n = Exchanged(SocketOf(CarName), says, hears) /\ pc'["tcp"] \in {"top", "heed"}
      BY <2>4, <3>1 DEF Reports
    <3>3. /\ n.peer = net.peer /\ n.to[c] \in {Append(net.to[c], r), net.to[c]}
          /\ n.from[c] \in {Taken(net.from[c]), net.from[c]}
          /\ Single(n) /\ Unheld(n) /\ SameFor(p, net, n)
      <4>1. /\ n.peer = net.peer
            /\ n.to[c] = IF says THEN Append(net.to[c], r) ELSE net.to[c]
            /\ n.from[c] = IF hears THEN Taken(net.from[c]) ELSE net.from[c]
            /\ Single(n) /\ Unheld(n) /\ SameFor(p, net, n)
        BY <1>1, <1>2, <1>7, <2>1, <3>2, ExchangedView
      <4>2. /\ n.to[c] \in {Append(net.to[c], r), net.to[c]}
            /\ n.from[c] \in {Taken(net.from[c]), net.from[c]}
        BY <4>1, Zenon
      <4> QED BY <4>1, <4>2
    <3>4. n.to[c] \in Seq({r})
      <4>1. Append(net.to[c], r) \in Seq({r})
        BY <2>1, AppendProperties
      <4> QED BY <2>1, <3>3, <4>1
    <3>5. n.from[c] = net.from[c]
      BY <1>11, <3>3, FewFloors DEF UnderWay, Taken
    <3>6. Listed(c, {r})' /\ UnderWay(c, <<>>)'
      BY <1>4, <1>5, <1>11, <2>1, <3>1, <3>2, <3>3, <3>4, <3>5 DEF Listed, UnderWay
    <3> QED BY <1>4, <1>9, <2>2, <3>1, <3>3, <3>6
  <2> QED BY <1>4, <2>1, <2>3, <2>4 DEF Connects, Registers
<1> QED BY <1>10, <1>11 DEF Unasked

(* The link of a car that is listed.                                       *)
LEMMA ListedLink ==
  ASSUME NEW p \in Pads, Pads = {p}, Basis(p), Steady, CarTalks, Asked(p),
         NEW R, ReportedStatus \in R, NEW c \in Sockets, Listed(c, R)
  PROVE  /\ Quiet' /\ Calm' /\ Single(net') /\ Unheld(net') /\ PadAt(p)' /\ Asked(p)'
         /\ Listed(c, R)' /\ LinkStep
         /\ UNCHANGED <<cars, pad, current_status, floordiff, i, read_flag>>
         /\ pc'["process"] = pc["process"]
         /\ \/ /\ UNCHANGED <<shm, shm_send, inbox>>
               /\ \A q : UnderWay(c, q) => UnderWay(c, q)'
            \/ /\ TakesFloor
               /\ \A a : UnderWay(c, <<a>>) => UnderWay(c, <<>>)'
               /\ \A a, b : UnderWay(c, <<a, b>>) => UnderWay(c, <<b>>)'
<1>1. /\ CarInv /\ Quiet /\ Calm /\ Talk(net, Stops) /\ Single(net) /\ Unheld(net) /\ PadAt(p)
  BY DEF Basis, FloorsInv, TalkInv
<1>2. p # CarName
  BY TwoClients
<1>3. /\ pc["tcp"] \in {"top", "wait", "heed"} /\ net.peer[c] = CarName /\ net.to[c] \in Seq(R)
      /\ Len(cars) = 1 /\ cars[1].connectionsocket = c
  BY DEF Listed
<1>4. /\ LinkStep /\ UNCHANGED <<cars, pad, current_status, floordiff, i, read_flag>>
      /\ pc'["process"] = pc["process"] /\ Quiet' /\ Calm'
      /\ Connects \/ Registers \/ (HeldBy(CarName) # {} /\ (Waits \/ Reports))
  BY <1>1, <1>3, QuietLink
<1>5. ASSUME SameFor(p, net, net') PROVE PadAt(p)' /\ Asked(p)'
  BY <1>1, <1>4, <1>5, PadFrame
<1>6. CASE Waits
  <2>1. UNCHANGED <<net, shm, shm_send, inbox>> /\ pc'["tcp"] = "wait"
    BY <1>6 DEF Waits
  <2>2. Listed(c, R)' /\ \A q : UnderWay(c, q) => UnderWay(c, q)'
    BY <1>3, <1>4, <2>1 DEF Listed, UnderWay
  <2>3. SameFor(p, net, net')
    BY <2>1 DEF SameFor
  <2> QED BY <1>1, <1>4, <1>5, <2>1, <2>2, <2>3
<1>7. CASE Reports
  <2>1. PICK n : n = net'
    OBVIOUS
  <2>2. PICK says, hears \in BOOLEAN :
          /\ n = Exchanged(SocketOf(CarName), says, hears)
          /\ \/ /\ hears => inbox = <<>>
                /\ pc'["tcp"] \in {"top", "heed"}
                /\ UNCHANGED <<shm, shm_send, inbox>>
             \/ hears /\ TakesFloor /\ pc'["tcp"] = "top"
    BY <1>7, <2>1 DEF Reports
  <2>3. /\ n.peer = net.peer
        /\ n.to[c] = IF says THEN Append(net.to[c], ReportedStatus) ELSE net.to[c]
        /\ n.from[c] = IF hears THEN Taken(net.from[c]) ELSE net.from[c]
        /\ Single(n) /\ Unheld(n) /\ SameFor(p, net, n)
    BY <1>1, <1>2, <1>3, <2>2, ExchangedView
  <2>4. n.to[c] \in Seq(R)
    BY <1>3, <2>3, AppendProperties
  <2>5. Listed(c, R)'
    BY <1>3, <1>4, <2>1, <2>2, <2>3, <2>4 DEF Listed
  <2>6. PadAt(p)' /\ Asked(p)'
    BY <1>5, <2>1, <2>3
  <2>7. CASE (hears => inbox = <<>>) /\ UNCHANGED <<shm, shm_send, inbox>>
    <3>1. ASSUME NEW q, UnderWay(c, q) PROVE UnderWay(c, q)'
      <4>1. net.from[c] = FloorsTo(q) /\ inbox = q
        BY <3>1 DEF UnderWay
      <4>2. hears => net.from[c] = <<>>
        BY <2>7, <4>1, FewFloors
      <4>3. n.from[c] = net.from[c]
        BY <2>3, <4>2 DEF Taken
      <4> QED BY <2>1, <2>7, <4>1, <4>3 DEF UnderWay
    <3> QED BY <1>4, <2>1, <2>3, <2>5, <2>6, <2>7, <3>1
  <2>8. CASE hears /\ TakesFloor
    <3>1. inbox' = Tail(inbox) /\ n.from[c] = Taken(net.from[c])
      BY <2>3, <2>8 DEF TakesFloor
    <3>2. ASSUME NEW a, UnderWay(c, <<a>>) PROVE UnderWay(c, <<>>)'
      <4>1. inbox' = <<>>
        BY <3>1, <3>2, FewFloors DEF UnderWay
      <4>2. n.from[c] = FloorsTo(<<>>)
        BY <3>1, <3>2, FewFloors DEF UnderWay, Taken
      <4> QED BY <2>1, <4>1, <4>2 DEF UnderWay
    <3>3. ASSUME NEW a, NEW b, UnderWay(c, <<a, b>>) PROVE UnderWay(c, <<b>>)'
      <4>1. inbox' = <<b>>
        BY <3>1, <3>3, FewFloors DEF UnderWay
      <4>2. n.from[c] = FloorsTo(<<b>>)
        <5>1. net.from[c] = FloorsTo(<<a, b>>)
          BY <3>3 DEF UnderWay
        <5>2. FloorsTo(<<a, b>>) # <<>> /\ Tail(FloorsTo(<<a, b>>)) = FloorsTo(<<b>>)
          BY FewFloors
        <5> QED BY <3>1, <5>1, <5>2 DEF Taken
      <4> QED BY <2>1, <4>1, <4>2 DEF UnderWay
    <3> QED BY <1>4, <2>1, <2>3, <2>5, <2>6, <2>8, <3>2, <3>3
  <2> QED BY <2>2, <2>7, <2>8
<1> QED BY <1>3, <1>4, <1>6, <1>7 DEF Connects, Registers

(* The car is told the first floor, and reports no closing doors.          *)
LEMMA ExpectedLink ==
  ASSUME NEW p \in Pads, Pads = {p}, Basis(p), Steady, CarTalks, Observe, ~raced',
         Expected(p)
  PROVE  Quiet' /\ Calm' /\ Single(net') /\ Unheld(net') /\ PadAt(p)' /\ Expected(p)'
<1>1. PICK R : R = ReportsOf(Status \ {"Closing"})
  OBVIOUS
<1>2. R = ReportsOf(Status \ {"Closing"})'
  BY <1>1 DEF ReportsOf
<1>3. PICK f, sf, st : f = From(p) /\ sf = StopAt(p, From(p)) /\ st = StopAt(p, To(p))
  OBVIOUS
<1>4. PICK c \in Sockets :
        /\ Listed(c, R) /\ cars[1].queue = <<sf, st>> /\ cars[1].previous_status # "Closing"
        /\ UnderWay(c, <<>>) \/ UnderWay(c, <<f>>)
  BY <1>1, <1>3 DEF Expected
<1>5. /\ Asked(p) /\ OnCourse({f}) /\ Opens /\ CarInv /\ inbox \in Seq(Wanted(Stops))
  BY <1>3 DEF Expected, Basis, FloorsInv, TalkInv
<1>6. ReportedStatus \in R
  BY <1>1, <1>5 DEF CarInv, SharedTypeOK, SharedData, ReportedStatus, StatusMessage,
                    ReportsOf, Opens
<1>7. /\ Quiet' /\ Calm' /\ Single(net') /\ Unheld(net') /\ PadAt(p)' /\ Asked(p)'
      /\ Listed(c, R)' /\ LinkStep
      /\ UNCHANGED <<cars, pad, current_status, floordiff, i, read_flag>>
      /\ pc'["process"] = pc["process"]
      /\ \/ /\ UNCHANGED <<shm, shm_send, inbox>>
            /\ \A q : UnderWay(c, q) => UnderWay(c, q)'
         \/ /\ TakesFloor
            /\ \A a : UnderWay(c, <<a>>) => UnderWay(c, <<>>)'
            /\ \A a, b : UnderWay(c, <<a, b>>) => UnderWay(c, <<b>>)'
  BY <1>4, <1>5, <1>6, ListedLink
<1>8. f = From(p)' /\ sf = StopAt(p, From(p))' /\ st = StopAt(p, To(p))'
  BY <1>3, <1>7 DEF From, To, StopAt
<1>9. UnderWay(c, <<>>)' \/ UnderWay(c, <<f>>)'
  <2>1. ASSUME inbox # <<>> PROVE UnderWay(c, <<f>>)
    BY <1>4, <2>1 DEF UnderWay
  <2> QED BY <1>4, <1>7, <2>1 DEF TakesFloor
<1>10. Opens'
  <2>1. shm'.status = shm.status
    BY <1>5, <1>7, FloorReceived DEF CarInv
  <2> QED BY <1>5, <1>7, <2>1 DEF Opens
<1>11. OnCourse({f})'
  <2>1. PICK S : S = {f}
    OBVIOUS
  <2>2. inbox \in Seq(Wanted(S))
    <3>1. CASE UnderWay(c, <<>>)
      BY <3>1 DEF UnderWay
    <3>2. CASE UnderWay(c, <<f>>)
      <4>1. inbox = <<f>> /\ Head(inbox) = f /\ inbox # <<>>
        BY <3>2, FewFloors DEF UnderWay
      <4>2. f \in Wanted(Stops)
        BY <1>5, <4>1, HeadTailProperties
      <4>3. f \in Wanted(S)
        BY <2>1, <4>2 DEF Wanted
      <4> QED BY <4>1, <4>3
    <3> QED BY <1>4, <3>1, <3>2
  <2>3. OnCourse(S)'
    BY <1>5, <1>7, <2>1, <2>2, CourseLink
  <2> QED BY <2>1, <2>3
<1>12. /\ cars'[1].queue = <<sf, st>> /\ cars'[1].previous_status # "Closing"
  BY <1>4, <1>7
<1> QED BY <1>2, <1>7, <1>8, <1>9, <1>10, <1>11, <1>12 DEF Expected

(* The car is told the first floor again, and goes on to the second.       *)
LEMMA AboardLink ==
  ASSUME NEW p \in Pads, Pads = {p}, Basis(p), Steady, CarTalks, Aboard(p)
  PROVE  Quiet' /\ Calm' /\ Single(net') /\ Unheld(net') /\ PadAt(p)' /\ Aboard(p)'
<1>1. PICK R : R = ReportsOf(Status)
  OBVIOUS
<1>2. R = ReportsOf(Status)'
  BY <1>1 DEF ReportsOf
<1>3. PICK f, t, sf, st :
        f = From(p) /\ t = To(p) /\ sf = StopAt(p, From(p)) /\ st = StopAt(p, To(p))
  OBVIOUS
<1>4. PICK c \in Sockets :
        Listed(c, R) /\ (BothBooked(p, c) \/ LastSent(p, c) \/ LastHeard(p, c))
  BY <1>1 DEF Aboard
<1>5. Asked(p) /\ CarInv /\ Calm
  BY DEF Aboard, Basis, FloorsInv
<1>6. ReportedStatus \in R
  BY <1>1, <1>5 DEF CarInv, SharedTypeOK, SharedData, ReportedStatus, StatusMessage, ReportsOf
<1>7. /\ Quiet' /\ Calm' /\ Single(net') /\ Unheld(net') /\ PadAt(p)' /\ Asked(p)'
      /\ Listed(c, R)' /\ LinkStep
      /\ UNCHANGED <<cars, pad, current_status, floordiff, i, read_flag>>
      /\ pc'["process"] = pc["process"]
      /\ \/ /\ UNCHANGED <<shm, shm_send, inbox>>
            /\ \A q : UnderWay(c, q) => UnderWay(c, q)'
         \/ /\ TakesFloor
            /\ \A a : UnderWay(c, <<a>>) => UnderWay(c, <<>>)'
            /\ \A a, b : UnderWay(c, <<a, b>>) => UnderWay(c, <<b>>)'
  BY <1>4, <1>5, <1>6, ListedLink
<1>8. /\ f = From(p)' /\ t = To(p)'
      /\ sf = StopAt(p, From(p))' /\ st = StopAt(p, To(p))'
  BY <1>3, <1>7 DEF From, To, StopAt
<1>9. ASSUME BothBooked(p, c)' \/ LastSent(p, c)' \/ LastHeard(p, c)' PROVE Aboard(p)'
  BY <1>2, <1>7, <1>9 DEF Aboard
<1>10. CASE UNCHANGED <<shm, shm_send, inbox>> /\ \A q : UnderWay(c, q) => UnderWay(c, q)'
  <2>1. RestsAt(f) => RestsAt(f)'
    BY <1>7, <1>10 DEF RestsAt
  <2>2. CASE BothBooked(p, c)
    <3>1. BothBooked(p, c)'
      BY <1>3, <1>7, <1>8, <1>10, <2>1, <2>2 DEF BothBooked
    <3> QED BY <1>7, <1>9, <3>1
  <2>3. CASE LastSent(p, c)
    <3>1. LastSent(p, c)'
      BY <1>3, <1>7, <1>8, <1>10, <2>1, <2>3 DEF LastSent
    <3> QED BY <1>7, <1>9, <3>1
  <2>4. CASE LastHeard(p, c)
    <3>1. LastHeard(p, c)'
      BY <1>3, <1>7, <1>8, <1>10, <2>4 DEF LastHeard
    <3> QED BY <1>7, <1>9, <3>1
  <2> QED BY <1>4, <2>2, <2>3, <2>4
<1>11. CASE /\ TakesFloor
            /\ \A a : UnderWay(c, <<a>>) => UnderWay(c, <<>>)'
            /\ \A a, b : UnderWay(c, <<a, b>>) => UnderWay(c, <<b>>)'
  <2>1. /\ shm'.current_floor = shm.current_floor
        /\ shm'.destination_floor =
             IF pc["tcp"] = "heed" THEN Head(inbox) ELSE shm.destination_floor
    BY <1>5, <1>11, FloorReceived DEF CarInv
  <2>2. ASSUME RestsAt(f), Head(inbox) = f PROVE RestsAt(f)'
    <3>1. shm'.current_floor = f /\ shm'.destination_floor = f
      BY <2>1, <2>2 DEF RestsAt
    <3> QED BY <1>7, <2>2, <3>1 DEF RestsAt
  <2>3. CASE BothBooked(p, c)
    <3>1. UnderWay(c, <<f>>) /\ Head(inbox) = f
      <4>1. UnderWay(c, <<f>>)
        BY <1>3, <1>11, <2>3 DEF BothBooked, UnderWay, TakesFloor
      <4> QED BY <4>1, FewFloors DEF UnderWay
    <3>2. BothBooked(p, c)'
      BY <1>3, <1>7, <1>8, <1>11, <2>2, <2>3, <3>1 DEF BothBooked
    <3> QED BY <1>7, <1>9, <3>2
  <2>4. CASE LastSent(p, c) /\ UnderWay(c, <<f, t>>)
    <3>1. Head(inbox) = f
      BY <2>4, FewFloors DEF UnderWay
    <3>2. LastSent(p, c)'
      BY <1>3, <1>7, <1>8, <1>11, <2>2, <2>4, <3>1 DEF LastSent
    <3> QED BY <1>7, <1>9, <3>2
  <2>5. CASE LastSent(p, c) /\ UnderWay(c, <<t>>)
    <3>1. Head(inbox) = t
      BY <2>5, FewFloors DEF UnderWay
    <3>2. pc["tcp"] = "heed"
      <4>1. read_flag = 1
        BY <1>5, <2>5 DEF LastSent, RestsAt, Calm, DoorPC, CarInv, CarTypeOK, Bit
      <4> QED BY <1>11, <4>1 DEF TakesFloor
    <3>3. shm'.destination_floor = t
      BY <2>1, <3>1, <3>2
    <3>4. LastHeard(p, c)'
      BY <1>3, <1>7, <1>8, <1>11, <2>5, <3>3 DEF LastSent, LastHeard
    <3> QED BY <1>7, <1>9, <3>4
  <2>6. CASE LastHeard(p, c)
    BY <1>11, <2>6 DEF LastHeard, UnderWay, TakesFloor
  <2> QED BY <1>3, <1>4, <2>3, <2>4, <2>5, <2>6 DEF LastSent
<1> QED BY <1>7, <1>10, <1>11

-----------------------------------------------------------------------------
(* The passenger.                                                          *)

(* Nothing of the car changes with a step of the pad.                      *)
LEMMA CarUntouched ==
  ASSUME Quiet, Calm, Single(net), UNCHANGED <<carVars, cars>>, SameFor(CarName, net, net'),
         Single(net')
  PROVE  /\ Quiet' /\ Calm'
         /\ Standing => Standing'
         /\ Opens => Opens'
         /\ \A f : RestsAt(f) => RestsAt(f)'
         /\ \A S : OnCourse(S) => OnCourse(S)'
         /\ \A R : Unlisted(R) => Unlisted(R)'
         /\ \A s, R : Listed(s, R) => Listed(s, R)'
         /\ \A s, R, q : Listed(s, R) /\ UnderWay(s, q) => UnderWay(s, q)'
<1>1. UNCHANGED <<shm, pc, current_status, floordiff, i, shm_send, read_flag, breaks, inbox,
                  sockets, cars>>
  BY DEF carVars, shmVars, doorVars, processVars, linkVars
<1>2. /\ Quiet' /\ Calm'
      /\ Standing => Standing'
      /\ Opens => Opens'
      /\ \A f : RestsAt(f) => RestsAt(f)'
      /\ \A S : OnCourse(S) => OnCourse(S)'
  BY <1>1, CarStill
<1>3. ASSUME NEW R
      PROVE  /\ Unlisted(R) => Unlisted(R)'
             /\ \A s : Listed(s, R) => Listed(s, R)'
  BY <1>1, CarFrame
<1>4. ASSUME NEW s, NEW R, NEW q, Listed(s, R), UnderWay(s, q) PROVE UnderWay(s, q)'
  <2>1. s \in Sockets /\ net.peer[s] = CarName /\ inbox = q /\ net.from[s] = FloorsTo(q)
    BY <1>4 DEF Listed, UnderWay
  <2>2. net'.from[s] = net.from[s]
    BY <2>1 DEF SameFor
  <2> QED BY <1>1, <2>1, <2>2 DEF UnderWay
<1> QED BY <1>2, <1>3, <1>4

(* The passenger calls before the car has moved.                           *)
LEMMA PassengerCalls ==
  ASSUME NEW p \in Pads, Pads = {p}, Basis(p), Call
  PROVE  /\ Quiet' /\ Calm' /\ Single(net') /\ Unheld(net') /\ PadAt(p)'
         /\ Unasked(p) => Unasked(p)'
         /\ pad[p].phase = "idle"
<1>1. /\ CarInv /\ Quiet /\ Calm /\ Talk(net, Stops) /\ Single(net) /\ Unheld(net) /\ PadAt(p)
      /\ PadInv(Stops) /\ FloorsInv(Stops)
  BY DEF Basis, FloorsInv, TalkInv
<1>2. p # CarName /\ p # Nobody /\ CarName # Nobody /\ p \in Clients
  BY TwoClients DEF Clients
<1>3. PadCalls(p) /\ UNCHANGED carVars
  BY DEF Call
<1>4. pad[p].phase = "idle" /\ Away(net, p) /\ UNCHANGED cars
  BY <1>1, <1>3 DEF PadCalls, PadAt
<1>5. PICK c \in Label \X Label :
        /\ Stops \subseteq Stops' /\ c[1] \in Stops' /\ c[2] \in Stops'
        /\ net' = Dialled(p, <<CallMessage(c[1], c[2])>>)
        /\ pad' = [pad EXCEPT ![p] = [phase |-> "waiting", call |-> c, answer |-> NoAnswer]]
  BY <1>1, <1>3, StopsAdded
<1>6. PICK T : T = Stops'
  OBVIOUS
<1>7. Stops \subseteq T /\ T \subseteq Label
  <2>1. \E d \in Label \X Label : Stops' \subseteq Stops \union {d[1], d[2]}
    BY <1>1, <1>3, StopsAdded
  <2> QED BY <1>1, <1>5, <1>6, <2>1 DEF FloorsInv
<1>8. Talk(net, T)
  BY <1>1, <1>7, TalkGrows DEF FloorsInv
<1>9. PICK m : m = CallMessage(c[1], c[2])
  OBVIOUS
<1>10. <<m>> \in Seq(Messages(T))
  <2>1. m \in CallsFor(T)
    BY <1>5, <1>6, <1>9 DEF CallMessage, CallsFor
  <2> QED BY <2>1 DEF Messages
<1>11. PICK n : n = net'
  OBVIOUS
<1>12. n = Dialled(p, <<m>>)
  BY <1>5, <1>9, <1>11
<1>13. /\ n.peer = net.peer
       /\ Line(n) = Line(net) \union {[client |-> p, messages |-> <<m>>]}
       /\ Single(n) /\ Unheld(n) /\ SameFor(CarName, net, n)
  BY <1>1, <1>2, <1>4, <1>8, <1>10, <1>12, DialledView
<1>14. /\ pad'[p].phase = "waiting" /\ pad'[p].call = c /\ pad'[p].answer = NoAnswer
  BY <1>1, <1>5 DEF PadInv
<1>15. CallOf(p)' = m
  BY <1>9, <1>14 DEF CallOf
<1>16. \A s \in Sockets : n.peer[s] # p
  BY <1>4, <1>13 DEF Away
<1>17. \A b \in Line(n) : b.client = p => b.messages = <<m>>
  <2>1. ASSUME NEW b, b = [client |-> p, messages |-> <<m>>] PROVE b.messages = <<m>>
    BY <2>1
  <2> QED BY <1>4, <1>13, <2>1 DEF Away
<1>18. PadAt(p)'
  BY <1>5, <1>11, <1>14, <1>15, <1>16, <1>17 DEF PadAt
<1>19. /\ Quiet' /\ Calm'
       /\ Standing => Standing'
       /\ \A R : Unlisted(R) => Unlisted(R)'
       /\ \A s, R : Listed(s, R) => Listed(s, R)'
       /\ \A s, R, q : Listed(s, R) /\ UnderWay(s, q) => UnderWay(s, q)'
  BY <1>1, <1>3, <1>4, <1>11, <1>13, CarUntouched
<1>20. ASSUME Unasked(p) PROVE Unasked(p)'
  <2>1. PICK R : R = {IdleReport}
    OBVIOUS
  <2>2. R = {IdleReport'}
    BY <2>1 DEF IdleReport
  <2>3. pad'[p].answer # CarAnswer(CarName) /\ Standing'
    BY <1>14, <1>19, <1>20 DEF Unasked, CarAnswer, NoAnswer
  <2>4. CASE Unlisted(R)
    BY <1>11, <1>16, <1>19, <2>2, <2>3, <2>4 DEF Unasked
  <2>5. ASSUME NEW s \in Sockets, Listed(s, R), IdleEntry(cars[1]), UnderWay(s, <<>>)
        PROVE  Unasked(p)'
    <3>1. Listed(s, R)' /\ UnderWay(s, <<>>)'
      BY <1>19, <2>5
    <3>2. IdleEntry(cars[1])'
      BY <1>4, <2>5 DEF IdleEntry
    <3> QED BY <1>11, <1>16, <2>2, <2>3, <3>1, <3>2 DEF Unasked
  <2> QED BY <1>20, <2>1, <2>4, <2>5 DEF Unasked
<1> QED BY <1>4, <1>11, <1>13, <1>18, <1>19, <1>20

(* The passenger reads the answer and hangs up; before the call is         *)
(* handled that is one which names no car.                                 *)
LEMMA PassengerHears ==
  ASSUME NEW p \in Pads, Pads = {p}, Basis(p), Answered
  PROVE  /\ Quiet' /\ Calm' /\ Single(net') /\ Unheld(net') /\ PadAt(p)'
         /\ Unasked(p) => Unasked(p)'
         /\ Expected(p) => Expected(p)'
         /\ Aboard(p) => Aboard(p)'
         /\ From(p)' = From(p) /\ To(p)' = To(p)
<1>1. /\ CarInv /\ Quiet /\ Calm /\ Talk(net, Stops) /\ Single(net) /\ Unheld(net) /\ PadAt(p)
      /\ PadInv(Stops)
  BY DEF Basis, FloorsInv, TalkInv
<1>2. p # CarName /\ p # Nobody /\ CarName # Nobody
  BY TwoClients
<1>3. PadReceives(p) /\ UNCHANGED carVars /\ UNCHANGED cars
  BY DEF Answered, PadReceives
<1>4. PICK s : s = SocketOf(p)
  OBVIOUS
<1>5. s \in Sockets /\ net.peer[s] = p /\ net.from[s] # <<>>
  BY <1>1, <1>2, <1>3, <1>4, HolderOpen DEF PadReceives, Talk
<1>6. net.to[s] = <<>> /\ pad[p].phase # "idle" /\ pad[p].call \in Label \X Label
  BY <1>1, <1>5 DEF PadAt, Away
<1>7. PICK n : n = net'
  OBVIOUS
<1>8. PICK unread : unread = Tail(net.from[s])
  OBVIOUS
<1>9. n = Abandoned([net EXCEPT !.from[s] = unread], s)
  BY <1>3, <1>4, <1>7, <1>8 DEF PadReceives
<1>10. Single(n) /\ Unheld(n) /\ Away(n, p) /\ SameFor(CarName, net, n)
  BY <1>1, <1>2, <1>5, <1>6, <1>9, AbandonedView
<1>11. /\ pad'[p].phase = "done" /\ pad'[p].call = pad[p].call
       /\ pad'[p].answer = Head(net.from[s])
  BY <1>1, <1>3, <1>4 DEF PadReceives, PadInv
<1>12. PICK f, t, sf, st :
         f = From(p) /\ t = To(p) /\ sf = StopAt(p, From(p)) /\ st = StopAt(p, To(p))
  OBVIOUS
<1>13. /\ f = From(p)' /\ t = To(p)'
       /\ sf = StopAt(p, From(p))' /\ st = StopAt(p, To(p))'
  BY <1>11, <1>12 DEF From, To, StopAt
<1>14. PadAt(p)' /\ Asked(p)'
  BY <1>6, <1>7, <1>10, <1>11 DEF PadAt, Asked, Away
<1>15. /\ Quiet' /\ Calm'
       /\ Standing => Standing'
       /\ Opens => Opens'
       /\ \A g : RestsAt(g) => RestsAt(g)'
       /\ \A S : OnCourse(S) => OnCourse(S)'
       /\ \A R : Unlisted(R) => Unlisted(R)'
       /\ \A c, R : Listed(c, R) => Listed(c, R)'
       /\ \A c, R, q : Listed(c, R) /\ UnderWay(c, q) => UnderWay(c, q)'
  BY <1>1, <1>3, <1>7, <1>10, CarUntouched
<1>16. ASSUME Unasked(p) PROVE Unasked(p)'
  <2>1. PICK R : R = {IdleReport}
    OBVIOUS
  <2>2. R = {IdleReport'}
    BY <2>1 DEF IdleReport
  <2>3. pad'[p].answer # CarAnswer(CarName)
    <3>1. net.from[s] = <<Unavailable>>
      BY <1>5, <1>16 DEF Unasked
    <3>2. \A x : Head(<<x>>) = x
      OBVIOUS
    <3>3. Unavailable # CarAnswer(CarName)
      BY DEF Unavailable, CarAnswer
    <3> QED BY <1>11, <3>1, <3>2, <3>3
  <2>4. \A c \in Sockets : net'.peer[c] # p
    BY <1>7, <1>10 DEF Away
  <2>5. Standing'
    BY <1>15, <1>16 DEF Unasked
  <2>6. CASE Unlisted(R)
    BY <1>15, <2>2, <2>3, <2>4, <2>5, <2>6 DEF Unasked
  <2>7. ASSUME NEW c \in Sockets, Listed(c, R), IdleEntry(cars[1]), UnderWay(c, <<>>)
        PROVE  Unasked(p)'
    <3>1. Listed(c, R)' /\ UnderWay(c, <<>>)'
      BY <1>15, <2>7
    <3>2. IdleEntry(cars[1])'
      BY <1>3, <2>7 DEF IdleEntry
    <3> QED BY <2>2, <2>3, <2>4, <2>5, <3>1, <3>2 DEF Unasked
  <2> QED BY <1>16, <2>1, <2>6, <2>7 DEF Unasked
<1>17. ASSUME Expected(p) PROVE Expected(p)'
  <2>1. PICK R : R = ReportsOf(Status \ {"Closing"})
    OBVIOUS
  <2>2. R = ReportsOf(Status \ {"Closing"})'
    BY <2>1 DEF ReportsOf
  <2>3. PICK c \in Sockets :
          /\ Listed(c, R) /\ cars[1].queue = <<sf, st>> /\ cars[1].previous_status # "Closing"
          /\ UnderWay(c, <<>>) \/ UnderWay(c, <<f>>)
    BY <1>12, <1>17, <2>1 DEF Expected
  <2>4. /\ Listed(c, R)' /\ cars'[1].queue = <<sf, st>> /\ cars'[1].previous_status # "Closing"
        /\ UnderWay(c, <<>>)' \/ UnderWay(c, <<f>>)'
    BY <1>3, <1>15, <2>3
  <2>5. OnCourse({f})' /\ Opens'
    BY <1>12, <1>15, <1>17 DEF Expected
  <2> QED BY <1>13, <1>14, <2>2, <2>4, <2>5 DEF Expected
<1>18. ASSUME Aboard(p) PROVE Aboard(p)'
  <2>1. PICK R : R = ReportsOf(Status)
    OBVIOUS
  <2>2. R = ReportsOf(Status)'
    BY <2>1 DEF ReportsOf
  <2>3. PICK c \in Sockets :
          Listed(c, R) /\ (BothBooked(p, c) \/ LastSent(p, c) \/ LastHeard(p, c))
    BY <1>18, <2>1 DEF Aboard
  <2>4. Listed(c, R)' /\ \A q : UnderWay(c, q) => UnderWay(c, q)'
    BY <1>15, <2>3
  <2>5. UNCHANGED shm /\ (RestsAt(f) => RestsAt(f)')
    BY <1>3, <1>15 DEF carVars, shmVars
  <2>6. CASE BothBooked(p, c)
    <3>1. BothBooked(p, c)'
      BY <1>3, <1>12, <1>13, <2>4, <2>5, <2>6 DEF BothBooked
    <3> QED BY <1>14, <2>2, <2>4, <3>1 DEF Aboard
  <2>7. CASE LastSent(p, c)
    <3>1. LastSent(p, c)'
      BY <1>3, <1>12, <1>13, <2>4, <2>5, <2>7 DEF LastSent
    <3> QED BY <1>14, <2>2, <2>4, <3>1 DEF Aboard
  <2>8. CASE LastHeard(p, c)
    <3>1. LastHeard(p, c)'
      BY <1>3, <1>12, <1>13, <2>4, <2>5, <2>8 DEF LastHeard
    <3> QED BY <1>14, <2>2, <2>4, <3>1 DEF Aboard
  <2> QED BY <2>3, <2>6, <2>7, <2>8
<1> QED BY <1>7, <1>10, <1>12, <1>13, <1>14, <1>15, <1>16, <1>17, <1>18

-----------------------------------------------------------------------------
(* The whole trip.                                                         *)

(* When the doors open for the passenger both floors are booked, and the   *)
(* car goes nowhere.                                                       *)
LEMMA Boards ==
  ASSUME NEW p \in Pads, Basis(p), Expected(p), shm.status = "Open"
  PROVE  Aboard(p) /\ DoorsOpenAt(From(p)) /\ pad[p].phase # "idle"
<1>1. OnCourse({From(p)}) /\ Asked(p) /\ Calm
  BY DEF Expected, Basis
<1>2. pc["process"] \in DoorPC
  BY <1>1 DEF Calm
<1>3. shm.current_floor = From(p)
  BY <1>1, <1>2 DEF OnCourse, AtStop
<1>4. shm.destination_floor = From(p)
  BY <1>1, <1>2 DEF OnCourse, ToStop, Untold
<1>5. RestsAt(From(p))
  BY <1>2, <1>3, <1>4 DEF RestsAt, DoorPC
<1>6. PICK c \in Sockets :
        /\ Listed(c, ReportsOf(Status \ {"Closing"}))
        /\ cars[1].queue = <<StopAt(p, From(p)), StopAt(p, To(p))>>
        /\ UnderWay(c, <<>>) \/ UnderWay(c, <<From(p)>>)
  BY DEF Expected
<1>7. Listed(c, ReportsOf(Status))
  <2>1. ReportsOf(Status \ {"Closing"}) \subseteq ReportsOf(Status)
    BY DEF ReportsOf
  <2>2. Seq(ReportsOf(Status \ {"Closing"})) \subseteq Seq(ReportsOf(Status))
    BY <2>1, SeqGrows
  <2> QED BY <1>6, <2>2 DEF Listed
<1>8. BothBooked(p, c)
  BY <1>5, <1>6 DEF BothBooked
<1>9. Aboard(p)
  BY <1>1, <1>7, <1>8 DEF Aboard
<1> QED BY <1>1, <1>3, <1>9 DEF DoorsOpenAt, Asked

(* A stage leads to itself or to the next.                                 *)
LEMMA StageNext ==
  ASSUME NEW p \in Pads, Pads = {p}, Basis(p), Steady, NoB1, SameSide, Next, ~raced'
  PROVE  /\ Unasked(p) => Orderly(p)' /\ (Unasked(p)' \/ Expected(p)')
         /\ Expected(p) /\ shm.status # "Open" => Orderly(p)' /\ Expected(p)'
         /\ Aboard(p) => Orderly(p)' /\ Aboard(p)'
<1>1. ASSUME Quiet', Calm', Single(net'), Unheld(net'), PadAt(p)' PROVE Orderly(p)'
  BY <1>1 DEF Orderly
<1>2. CASE Process
  BY <1>1, <1>2, PassengerProcess
<1>3. CASE CarTalks
  <2>1. Unasked(p) => Orderly(p)' /\ Unasked(p)'
    BY <1>1, <1>3, UnaskedLink
  <2>2. Expected(p) => Orderly(p)' /\ Expected(p)'
    <3>1. Observe
      BY DEF Next
    <3> QED BY <1>1, <1>3, <3>1, ExpectedLink
  <2>3. Aboard(p) => Orderly(p)' /\ Aboard(p)'
    BY <1>1, <1>3, AboardLink
  <2> QED BY <2>1, <2>2, <2>3
<1>4. CASE Control
  <2>1. Quiet' /\ Calm'
    BY <1>4, ControlKeeps DEF Basis
  <2>2. Unasked(p) => Orderly(p)' /\ (Unasked(p)' \/ Expected(p)')
    BY <1>1, <1>4, <2>1, UnaskedControl
  <2>3. Expected(p) => Orderly(p)' /\ Expected(p)'
    BY <1>1, <1>4, <2>1, ExpectedControl
  <2>4. Aboard(p) => Orderly(p)' /\ Aboard(p)'
    BY <1>1, <1>4, <2>1, AboardControl
  <2> QED BY <2>2, <2>3, <2>4
<1>5. CASE Call
  <2>1. /\ Quiet' /\ Calm' /\ Single(net') /\ Unheld(net') /\ PadAt(p)'
        /\ Unasked(p) => Unasked(p)'
        /\ pad[p].phase = "idle"
    BY <1>5, PassengerCalls
  <2>2. ~Expected(p) /\ ~Aboard(p)
    BY <2>1 DEF Expected, Aboard, Asked
  <2> QED BY <1>1, <2>1, <2>2
<1>6. CASE Answered
  BY <1>1, <1>6, PassengerHears
<1> QED BY <1>2, <1>3, <1>4, <1>5, <1>6 DEF Next

(* A pad calls once.                                                       *)
LEMMA PhaseKept ==
  ASSUME NEW p \in Pads, Pads = {p}, PadInv(Stops), pad[p].phase # "idle", [Next]_vars
  PROVE  pad'[p].phase # "idle"
<1>1. CASE UNCHANGED pad
  BY <1>1
<1>2. CASE Call
  BY <1>2 DEF Call, PadCalls
<1>3. CASE Answered
  <2>1. pad' = [pad EXCEPT ![p].phase = "done", ![p].answer = Head(net.from[SocketOf(p)])]
    BY <1>3 DEF Answered, PadReceives
  <2> QED BY <2>1 DEF PadInv
<1> QED BY <1>1, <1>2, <1>3
        DEF Next, Process, CarTalks, ConnectCar, RegisterCar, ReportCar, HeedCar,
            Control, controllerVars, vars

(* Nothing changes when nothing does.                                      *)
LEMMA PassengerStutters ==
  ASSUME NEW p, PassengerInv(p), UNCHANGED vars
  PROVE  PassengerInv(p)'
<1>1. /\ UNCHANGED <<net, cars, inbox, pad, sockets, trip, raced>>
      /\ UNCHANGED <<shm, pc, current_status, floordiff, i, shm_send, read_flag, breaks>>
  BY DEF vars, carVars, shmVars, doorVars, processVars, linkVars, controllerVars
<1>2. /\ \A f : RestsAt(f) => RestsAt(f)'
      /\ \A S : OnCourse(S) => OnCourse(S)'
      /\ (Quiet => Quiet') /\ (Calm => Calm') /\ (Standing => Standing') /\ (Opens => Opens')
  BY <1>1, CarStill
<1>3. /\ Single(net) => Single(net')
      /\ Unheld(net) => Unheld(net')
      /\ PadAt(p) => PadAt(p)'
      /\ Asked(p) => Asked(p)'
      /\ \A R : Unlisted(R) => Unlisted(R)'
      /\ \A s, R : Listed(s, R) => Listed(s, R)'
      /\ \A s, q : UnderWay(s, q) => UnderWay(s, q)'
  BY <1>1, Unspoken
<1>4. Orderly(p) => Orderly(p)'
  BY <1>2, <1>3 DEF Orderly
<1>5. PICK f, t, sf, st, R1, R2, R3 :
        /\ f = From(p) /\ t = To(p) /\ sf = StopAt(p, From(p)) /\ st = StopAt(p, To(p))
        /\ R1 = {IdleReport} /\ R2 = ReportsOf(Status \ {"Closing"}) /\ R3 = ReportsOf(Status)
  OBVIOUS
<1>6. /\ f = From(p)' /\ t = To(p)' /\ sf = StopAt(p, From(p))' /\ st = StopAt(p, To(p))'
      /\ R1 = {IdleReport'} /\ R2 = ReportsOf(Status \ {"Closing"})' /\ R3 = ReportsOf(Status)'
  BY <1>1, <1>5 DEF From, To, StopAt, IdleReport, ReportsOf
<1>7. Unasked(p) => Unasked(p)'
  <2>1. ASSUME NEW s, IdleEntry(cars[1]) PROVE IdleEntry(cars[1])'
    BY <1>1, <2>1 DEF IdleEntry
  <2>2. Unlisted(R1) => Unlisted(R1)'
    BY <1>3
  <2>3. \A s : Listed(s, R1) /\ UnderWay(s, <<>>) => Listed(s, R1)' /\ UnderWay(s, <<>>)'
    BY <1>3
  <2> QED BY <1>1, <1>2, <1>5, <1>6, <2>1, <2>2, <2>3 DEF Unasked
<1>8. Expected(p) => Expected(p)'
  <2>1. \A s : /\ Listed(s, R2) => Listed(s, R2)'
               /\ UnderWay(s, <<>>) => UnderWay(s, <<>>)'
               /\ UnderWay(s, <<f>>) => UnderWay(s, <<f>>)'
    BY <1>3
  <2>2. OnCourse({f}) => OnCourse({f})'
    BY <1>2
  <2> QED BY <1>1, <1>2, <1>3, <1>5, <1>6, <2>1, <2>2 DEF Expected
<1>9. Aboard(p) => Aboard(p)'
  <2>1. \A s : Listed(s, R3) => Listed(s, R3)'
    BY <1>3
  <2>2. RestsAt(f) => RestsAt(f)'
    BY <1>2
  <2>3. \A s : BothBooked(p, s) => BothBooked(p, s)'
    BY <1>1, <1>3, <1>5, <1>6, <2>2 DEF BothBooked
  <2>4. \A s : LastSent(p, s) => LastSent(p, s)'
    BY <1>1, <1>3, <1>5, <1>6, <2>2 DEF LastSent
  <2>5. \A s : LastHeard(p, s) => LastHeard(p, s)'
    BY <1>1, <1>3, <1>5, <1>6 DEF LastHeard
  <2> QED BY <1>3, <1>5, <1>6, <2>1, <2>3, <2>4, <2>5 DEF Aboard
<1> QED BY <1>1, <1>4, <1>7, <1>8, <1>9 DEF PassengerInv, Stage

(* Before the passenger is there the trip follows the doors, and then the  *)
(* phase of the pad is all that is needed.                                 *)
LEMMA PassengerNext ==
  ASSUME NEW p \in Pads, Pads = {p}, Steady, NoB1, SameSide,
         FloorsInv(Stops), ShaftInv, CourseInv(Stops), PassengerInv(p), [Next]_vars
  PROVE  PassengerInv(p)'
<1>1. CASE UNCHANGED vars
  BY <1>1, PassengerStutters
<1>2. CASE raced'
  BY <1>2 DEF PassengerInv
<1>3. CASE Next /\ ~raced'
  <2>1. ~raced
    BY <1>3, RaceKept
  <2>2. trip'[p] = Ride(p)
    BY <1>3 DEF Next, Observe
  <2>3. pad[p].phase # "idle" => pad'[p].phase # "idle"
    BY PhaseKept DEF FloorsInv
  <2>4. CASE trip[p] = "delivered" /\ pad[p].phase # "idle"
    <3>1. trip'[p] = "delivered"
      BY <2>2, <2>4 DEF Ride
    <3> QED BY <2>3, <2>4, <3>1 DEF PassengerInv
  <2>5. CASE Orderly(p) /\ Stage(p)
    <3>1. Basis(p)
      BY <2>5 DEF Basis, Orderly, CourseInv
    <3>2. /\ Unasked(p) => Orderly(p)' /\ (Unasked(p)' \/ Expected(p)')
          /\ Expected(p) /\ shm.status # "Open" => Orderly(p)' /\ Expected(p)'
          /\ Aboard(p) => Orderly(p)' /\ Aboard(p)'
      BY <1>3, <3>1, StageNext
    <3>3. CASE trip[p] = "waiting" /\ Unasked(p)
      <4>1. shm.status = "Closed"
        BY <3>3 DEF Unasked, Standing
      <4>2. trip'[p] = "waiting"
        BY <2>2, <3>3, <4>1 DEF Ride, DoorsOpenAt
      <4> QED BY <3>2, <3>3, <4>2 DEF PassengerInv, Stage
    <3>4. CASE trip[p] = "waiting" /\ Expected(p) /\ shm.status # "Open"
      <4>1. trip'[p] = "waiting"
        BY <2>2, <3>4 DEF Ride, DoorsOpenAt
      <4> QED BY <3>2, <3>4, <4>1 DEF PassengerInv, Stage
    <3>5. CASE trip[p] = "waiting" /\ Expected(p) /\ shm.status = "Open"
      <4>1. Aboard(p) /\ DoorsOpenAt(From(p)) /\ pad[p].phase # "idle"
        BY <3>1, <3>5, Boards
      <4>2. trip'[p] = "riding"
        BY <2>2, <3>5, <4>1 DEF Ride, From
      <4> QED BY <3>2, <4>1, <4>2 DEF PassengerInv, Stage
    <3>6. CASE trip[p] = "riding" /\ Aboard(p)
      <4>1. pad[p].phase # "idle"
        BY <3>6 DEF Aboard, Asked
      <4>2. trip'[p] \in {"riding", "delivered"}
        BY <2>2, <3>6, <4>1 DEF Ride
      <4> QED BY <2>3, <3>2, <3>6, <4>1, <4>2 DEF PassengerInv, Stage
    <3> QED BY <2>5, <3>3, <3>4, <3>5, <3>6 DEF Stage
  <2> QED BY <2>1, <2>4, <2>5 DEF PassengerInv
<1> QED BY <1>1, <1>2, <1>3

(* At first the car is not connected and nobody has called.                *)
LEMMA PassengerInit ==
  ASSUME NEW p \in Pads, Pads = {p}, Init
  PROVE  PassengerInv(p)
<1>1. /\ net = NoConnections /\ cars = <<>> /\ inbox = <<>> /\ pad[p] = NewPad
      /\ trip[p] = "waiting" /\ sockets = 0 /\ breaks = 0 /\ read_flag \in {0, 1}
      /\ floordiff = 0 /\ shm_send = 0 /\ current_status["process"] = "Opening"
      /\ pc["process"] = "start" /\ pc["tcp"] = "connect" /\ pc["doorcontrol"] = "poll"
  BY DEF Init, controller_init, pad_init, DoorThread
<1>2. /\ shm.current_floor = LowestFloor /\ shm.destination_floor = LowestFloor
      /\ shm.status = "Closed" /\ shm.open_button = 0 /\ shm.close_button = 0
      /\ shm.emergency_mode = 0 /\ shm.individual_service_mode = 0
  BY DEF Init, init_shared_data
<1>3. p # CarName /\ p # Nobody /\ CarName # Nobody
  BY TwoClients
<1>4. /\ \A s \in Sockets : net.peer[s] = Nobody /\ net.to[s] = <<>> /\ net.from[s] = <<>>
      /\ net.backlog = <<>>
  BY <1>1 DEF NoConnections
<1>5. Line(net) = {} /\ DOMAIN net.backlog = {}
  BY <1>4 DEF Line
<1>6. Quiet /\ Calm /\ Standing
  BY <1>1, <1>2 DEF Quiet, Calm, Standing
<1>7. Single(net) /\ Unheld(net)
  BY <1>4, <1>5 DEF Single, Unheld
<1>8. Away(net, p) /\ Away(net, CarName)
  BY <1>3, <1>4, <1>5 DEF Away
<1>9. pad[p].phase = "idle" /\ pad[p].answer = NoAnswer
  BY <1>1 DEF NewPad
<1>10. PadAt(p)
  BY <1>8, <1>9 DEF PadAt, Away
<1>11. Unasked(p)
  <2>1. NoAnswer # CarAnswer(CarName)
    BY DEF NoAnswer, CarAnswer
  <2>2. Unlisted({IdleReport})
    BY <1>1, <1>4, <1>8 DEF Unlisted
  <2> QED BY <1>4, <1>6, <1>9, <2>1, <2>2 DEF Unasked
<1> QED BY <1>1, <1>6, <1>7, <1>10, <1>11 DEF PassengerInv, Orderly, Stage

(* What is planned is in a queue, under way, or where the car is going.    *)
LEMMA PlannedParts ==
  /\ \A k \in DOMAIN cars : \A j \in DOMAIN cars[k].queue : cars[k].queue[j].floor \in Planned
  /\ ToSet(inbox) \subseteq Planned
  /\ shm.destination_floor \in Planned
<1>1. PICK Q : Q = {{cars[k].queue[j].floor : j \in DOMAIN cars[k].queue} : k \in DOMAIN cars}
  OBVIOUS
<1>2. PICK I : I = ToSet(inbox)
  OBVIOUS
<1>3. Planned = (UNION Q) \union I \union {shm.destination_floor}
  BY <1>1, <1>2, Zenon DEF Planned
<1>4. ASSUME NEW k \in DOMAIN cars, NEW j \in DOMAIN cars[k].queue
      PROVE  cars[k].queue[j].floor \in UNION Q
  <2>1. PICK F : F = {cars[k].queue[h].floor : h \in DOMAIN cars[k].queue}
    OBVIOUS
  <2>2. F \in Q
    BY <1>1, <2>1
  <2>3. cars[k].queue[j].floor \in F
    BY <2>1
  <2> QED BY <2>2, <2>3
<1> QED BY <1>2, <1>3, <1>4

(* Whatever the stage, a floor that is needed is somewhere.                *)
LEMMA NeedsPlanned ==
  ASSUME NEW p \in Pads, FloorsInv(Stops), PassengerInv(p), pad[p].answer = CarAnswer(CarName)
  PROVE  Needs(p) \subseteq Planned \/ raced
<1>1. CASE trip[p] = "delivered"
  BY <1>1 DEF Needs
<1>2. ASSUME NEW c, NEW R, Listed(c, R)
      PROVE  \A j \in DOMAIN cars[1].queue : cars[1].queue[j].floor \in Planned
  <2>1. Len(cars) = 1 /\ cars \in Seq(Entries(Stops))
    BY <1>2 DEF Listed, FloorsInv, TalkInv
  <2>2. 1 \in DOMAIN cars
    BY <2>1, LenProperties
  <2> QED BY <2>2, PlannedParts
<1>3. PICK sf, st : sf = StopAt(p, From(p)) /\ st = StopAt(p, To(p))
  OBVIOUS
<1>4. sf.floor = From(p) /\ st.floor = To(p)
  BY <1>3 DEF StopAt, Stop
<1>5. /\ DOMAIN <<sf, st>> = {1, 2} /\ <<sf, st>>[1] = sf /\ <<sf, st>>[2] = st
  OBVIOUS
<1>6. CASE Orderly(p) /\ trip[p] = "waiting" /\ Expected(p)
  <2>1. PICK c \in Sockets :
          Listed(c, ReportsOf(Status \ {"Closing"})) /\ cars[1].queue = <<sf, st>>
    BY <1>3, <1>6 DEF Expected
  <2>2. From(p) \in Planned /\ To(p) \in Planned
    <3>1. \A j \in DOMAIN <<sf, st>> : <<sf, st>>[j].floor \in Planned
      BY <1>2, <2>1
    <3> QED BY <1>4, <1>5, <3>1
  <2> QED BY <1>6, <2>2 DEF Needs, From, To
<1>7. CASE Orderly(p) /\ trip[p] = "riding" /\ Aboard(p)
  <2>1. PICK c \in Sockets :
          /\ Listed(c, ReportsOf(Status))
          /\ BothBooked(p, c) \/ LastSent(p, c) \/ LastHeard(p, c)
    BY <1>7 DEF Aboard
  <2>2. CASE BothBooked(p, c)
    <3>1. cars[1].queue = <<sf, st>>
      BY <1>3, <2>2 DEF BothBooked
    <3>2. \A j \in DOMAIN <<sf, st>> : <<sf, st>>[j].floor \in Planned
      BY <1>2, <2>1, <3>1
    <3>3. To(p) \in Planned
      BY <1>4, <1>5, <3>2
    <3> QED BY <1>7, <3>3 DEF Needs, To
  <2>3. CASE LastSent(p, c)
    <3>1. inbox = <<To(p)>> \/ inbox = <<From(p), To(p)>>
      BY <2>3 DEF LastSent, UnderWay
    <3>2. To(p) \in ToSet(inbox)
      BY <3>1 DEF ToSet
    <3>3. To(p) \in Planned
      BY <3>2, PlannedParts
    <3> QED BY <1>7, <3>3 DEF Needs, To
  <2>4. CASE LastHeard(p, c)
    <3>1. To(p) \in Planned
      BY <2>4, PlannedParts DEF LastHeard
    <3> QED BY <1>7, <3>1 DEF Needs, To
  <2> QED BY <2>1, <2>2, <2>3, <2>4
<1> QED BY <1>1, <1>6, <1>7 DEF PassengerInv, Stage, Unasked

(* In a shaft without floor B1, and with a connection that holds, the one  *)
(* passenger who was told a car is never forgotten: the floors still       *)
(* needed are in the queue, under way, or where the car is going, unless a *)
(* FLOOR raced: it was dropped before the process thread had started, or   *)
(* came while that thread had read the floors and not yet shm_send.        *)
THEOREM NobodyLost == Alone /\ Steady /\ NoB1 => (Spec => []NobodyForgotten)
<1>1. ASSUME Alone, Steady, NoB1 PROVE Spec => []NobodyForgotten
  <2>1. PICK p : Pads = {p}
    BY <1>1 DEF Alone
  <2>2. p \in Pads
    BY <2>1
  <2>3. SameSide
    <3>1. LowestFloor \in Label /\ HighestFloor \in Label /\ LowestFloor =< HighestFloor
      BY ShaftAssumption DEF ShaftAssumption
    <3> QED BY <1>1, <3>1 DEF NoB1, SameSide, Label
  <2>4. ShaftInv /\ FloorsInv(Stops) /\ [Next]_vars => ShaftInv'
    BY <2>3, NoOvershoot, ShaftNext
  <2>5. CourseInv(Stops) /\ ShaftInv /\ FloorsInv(Stops) /\ [Next]_vars => CourseInv(Stops)'
    BY <2>3, CourseNext
  <2>6. Init => PassengerInv(p)
    BY <2>1, <2>2, PassengerInit
  <2>7. /\ PassengerInv(p) /\ CourseInv(Stops) /\ ShaftInv /\ FloorsInv(Stops)
        /\ [Next]_vars
        => PassengerInv(p)'
    BY <1>1, <2>1, <2>2, <2>3, PassengerNext
  <2>8. PassengerInv(p) /\ FloorsInv(Stops) => NobodyForgotten
    BY <2>1, <2>2, NeedsPlanned DEF NobodyForgotten
  <2> QED BY ShaftInit, CourseInit, FloorsAskedFor, <2>4, <2>5, <2>6, <2>7, <2>8, PTL DEF Spec
<1> QED BY <1>1

=============================================================================
