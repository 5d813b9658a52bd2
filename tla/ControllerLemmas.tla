-------------------------- MODULE ControllerLemmas --------------------------
(***************************************************************************)
(* Lemmas about the controller, whoever its clients are: its queues, its   *)
(* list of cars, and its connections, on which the clients C send messages *)
(* of M and receive messages of R.                                         *)
(***************************************************************************)
EXTENDS Controller, SequenceTheorems, FiniteSetTheorems, WellFoundedInduction,
        TLAPS

(* A set of naturals has a least element, and Min is it.                   *)
LEMMA NatMin ==
  ASSUME NEW S, S \subseteq Nat, S # {}
  PROVE  Min(S) \in S /\ \A y \in S : Min(S) =< y
<1>1. \E x \in S : \A y \in S : <<y, x>> \notin OpToRel(<, Nat)
  BY WFMin, NatLessThanWellFounded
<1>2. PICK x \in S : \A y \in S : <<y, x>> \notin OpToRel(<, Nat)
  BY <1>1
<1>3. \A y \in S : ~(y < x)
  BY <1>2 DEF OpToRel
<1>4. \E z \in S : \A y \in S : z =< y
  BY <1>3
<1>5. (CHOOSE z \in S : \A y \in S : z =< y) \in S
  BY <1>4
<1>6. \A y \in S : (CHOOSE z \in S : \A w \in S : z =< w) =< y
  BY <1>4
<1> QED BY <1>5, <1>6 DEF Min

(* Insertion in front of a place of the sequence, or at its end.           *)
LEMMA Inserted ==
  ASSUME NEW S, NEW q \in Seq(S), NEW e \in S, NEW k \in 1 .. Len(q) + 1
  PROVE  InsertAt(q, k, e) \in Seq(S)
<1>1. /\ Len(q) \in Nat
      /\ \A j \in 1 .. Len(q) : q[j] \in S
  BY LenProperties, ElementOfSeq
<1>2. SubSeq(q, 1, k - 1) \in Seq(S) /\ SubSeq(q, k, Len(q)) \in Seq(S)
  BY <1>1, SubSeqProperties
<1>3. <<e>> \in Seq(S)
  OBVIOUS
<1> QED BY <1>2, <1>3, ConcatProperties DEF InsertAt

(* Removal of one place: those before it stay, those after it move up.     *)
LEMMA RemovedAt ==
  ASSUME NEW S, NEW q \in Seq(S), NEW k \in 1 .. Len(q)
  PROVE  /\ RemoveAt(q, k) \in Seq(S)
         /\ Len(RemoveAt(q, k)) = Len(q) - 1
         /\ \A j \in 1 .. Len(q) - 1 :
              RemoveAt(q, k)[j] = IF j < k THEN q[j] ELSE q[j + 1]
<1>1. /\ Len(q) \in Nat
      /\ \A j \in 1 .. Len(q) : q[j] \in S
  BY LenProperties, ElementOfSeq
<1> DEFINE before == SubSeq(q, 1, k - 1)
           after  == SubSeq(q, k + 1, Len(q))
<1>2. /\ before \in Seq(S) /\ Len(before) = k - 1
      /\ \A j \in 1 .. k - 1 : before[j] = q[j]
  BY <1>1, SubSeqProperties
<1>3. /\ after \in Seq(S) /\ Len(after) = Len(q) - k
      /\ \A j \in 1 .. Len(q) - k : after[j] = q[k + j]
  BY <1>1, SubSeqProperties
<1>4. RemoveAt(q, k) = before \o after
  BY DEF RemoveAt
<1> HIDE DEF before, after
<1>5. /\ before \o after \in Seq(S)
      /\ Len(before \o after) = Len(before) + Len(after)
      /\ \A j \in 1 .. Len(before) + Len(after) :
           (before \o after)[j] = IF j =< Len(before) THEN before[j] ELSE after[j - Len(before)]
  BY <1>2, <1>3, ConcatProperties
<1>6. Len(before) + Len(after) = Len(q) - 1
  BY <1>1, <1>2, <1>3
<1>7. ASSUME NEW j \in 1 .. Len(q) - 1
      PROVE  (before \o after)[j] = IF j < k THEN q[j] ELSE q[j + 1]
  <2>1. CASE j < k
    <3>1. j \in 1 .. k - 1 /\ j =< Len(before)
      BY <2>1, <1>1, <1>2
    <3> QED BY <3>1, <1>2, <1>5, <1>6, <2>1
  <2>2. CASE ~(j < k)
    <3>1. j - (k - 1) \in 1 .. Len(q) - k /\ ~(j =< Len(before)) /\ k + (j - (k - 1)) = j + 1
      BY <2>2, <1>1, <1>2
    <3>2. after[j - (k - 1)] = q[j + 1]
      BY <3>1, <1>3
    <3> QED BY <3>1, <3>2, <1>2, <1>5, <1>6, <2>2
  <2> QED BY <2>1, <2>2
<1> QED BY <1>4, <1>5, <1>6, <1>7

-----------------------------------------------------------------------------
(* The queue of one car, and the list of cars.                             *)

NodesOf(floors) == [floor : floors, direction : Direction]

(* A request for two of the floors leaves such floors in the queue.        *)
LEMMA AddedToQueue ==
  ASSUME NEW F, NEW e, e.queue \in Seq(NodesOf(F)), NEW x \in F, NEW y \in F
  PROVE  add_to_car_queue(e, x, y) \in Seq(NodesOf(F))
<1> DEFINE d == RequestDirection(x, y)
           from == Stop(x, d)
           to == Stop(y, d)
           points == InsertionPoints(e, x, d)
<1>1. DOMAIN e.queue = 1 .. Len(e.queue) /\ Len(e.queue) \in Nat
  BY LenProperties
<1>2. d \in Direction
  BY DEF RequestDirection, Direction
<1>3. from \in NodesOf(F) /\ to \in NodesOf(F)
  BY <1>2 DEF Stop, NodesOf
<1>4. points \subseteq 1 .. Len(e.queue)
  BY <1>1 DEF InsertionPoints
<1> HIDE DEF from, to, d
<1>5. <<from, to>> \in Seq(NodesOf(F))
  BY <1>3
<1>6. <<from>> \o e.queue \in Seq(NodesOf(F))
  BY <1>3, ConcatProperties
<1>7. e.queue \o <<from, to>> \in Seq(NodesOf(F))
  BY <1>5, ConcatProperties
<1>8. points # {} => InsertAt(e.queue, Min(points) + 1, from) \in Seq(NodesOf(F))
  <2> HAVE points # {}
  <2>1. Min(points) \in points
    BY <1>4, NatMin, <1>1
  <2>2. Min(points) + 1 \in 1 .. Len(e.queue) + 1
    BY <2>1, <1>4, <1>1
  <2> QED BY <2>2, <1>1, <1>3, Inserted
<1> QED BY <1>5, <1>6, <1>7, <1>8 DEF add_to_car_queue, from, to, d

(* What the queue says the car should do next is one of its floors.        *)
LEMMA NextOfQueue ==
  ASSUME NEW F, NEW q \in Seq(NodesOf(F))
  PROVE  get_next_destination(q) \in F \union {-1}
<1>1. CASE q = <<>>
  BY <1>1 DEF get_next_destination
<1>2. CASE q # <<>>
  <2>1. Head(q) \in NodesOf(F)
    BY <1>2, HeadTailProperties
  <2> QED BY <1>2, <2>1 DEF get_next_destination, NodesOf
<1> QED BY <1>1, <1>2

(* A stop that was served leaves the others in the queue.                  *)
LEMMA QueueRemoved ==
  ASSUME NEW S, NEW q \in Seq(S)
  PROVE  remove_from_car_queue(q) \in Seq(S)
BY HeadTailProperties DEF remove_from_car_queue

(* The nearest car is one of those that can serve the call.                *)
LEMMA NearestCar ==
  ASSUME NEW S, cars \in Seq(S),
         \A k \in DOMAIN cars : cars[k].currentfloor \in Int /\ Len(cars[k].queue) \in Nat,
         NEW x \in Int, NEW y \in Int, Candidates(x, y) # {}
  PROVE  BestCar(x, y) \in Candidates(x, y)
<1> DEFINE C == Candidates(x, y)
           near(k) == Distance(cars[k], x, y)
           scores == {near(k) + 5 : k \in C}
<1>1. C \subseteq DOMAIN cars /\ DOMAIN cars = 1 .. Len(cars) /\ Len(cars) \in Nat
  BY LenProperties DEF Candidates
<1>2. ASSUME NEW k \in C PROVE near(k) \in Int /\ near(k) + 5 \in Nat
  <2>1. Len(cars[k].queue) \in Nat /\ cars[k].currentfloor \in Int
    BY <1>1
  <2> DEFINE gap == Abs(stringToFloor(cars[k].currentfloor) - x)
             bonus == IF cars[k].current_direction = RequestDirection(x, y) THEN 5 ELSE 0
             load == Len(cars[k].queue)
  <2>2. gap \in Nat
    BY <2>1 DEF Abs, stringToFloor, INT_MIN
  <2>3. bonus \in 0 .. 5 /\ load \in Nat
    BY <2>1
  <2>4. near(k) = gap - bonus + 2 * load
    BY DEF Distance
  <2> HIDE DEF gap, bonus, load, near
  <2> QED BY <2>2, <2>3, <2>4
<1>3. scores \subseteq Nat /\ scores # {}
  BY <1>2
<1> HIDE DEF near
<1>4. \E k \in C : \A j \in C : near(k) =< near(j)
  <2>1. Min(scores) \in scores /\ \A n \in scores : Min(scores) =< n
    BY <1>3, NatMin
  <2>2. PICK k \in C : Min(scores) = near(k) + 5
    BY <2>1
  <2>3. ASSUME NEW j \in C PROVE near(k) =< near(j)
    <3>1. near(k) + 5 =< near(j) + 5
      BY <2>1, <2>2
    <3> QED BY <3>1, <1>2
  <2> QED BY <2>3
<1>5. {k \in C : \A j \in C : near(k) =< near(j)} \subseteq Nat
  BY <1>1
<1>6. Min({k \in C : \A j \in C : near(k) =< near(j)})
        \in {k \in C : \A j \in C : near(k) =< near(j)}
  BY <1>4, <1>5, NatMin
<1> QED BY <1>6 DEF BestCar, near

(* The first entry with the name of entry k, and with socket s.            *)
LEMMA FirstOfName ==
  ASSUME NEW S, cars \in Seq(S), NEW k \in DOMAIN cars
  PROVE  /\ Min(Named(cars[k].name)) \in DOMAIN cars
         /\ cars[Min(Named(cars[k].name))].name = cars[k].name
         /\ Min(Named(cars[k].name)) =< k
<1>1. Named(cars[k].name) \subseteq Nat /\ k \in Named(cars[k].name)
  BY LenProperties DEF Named
<1>2. /\ Min(Named(cars[k].name)) \in Named(cars[k].name)
      /\ Min(Named(cars[k].name)) =< k
  BY <1>1, NatMin
<1> QED BY <1>2 DEF Named

(* The first entry with socket s.                                          *)
LEMMA FirstOnSocket ==
  ASSUME NEW S, cars \in Seq(S), NEW s, OnSocket(s) # {}
  PROVE  /\ Min(OnSocket(s)) \in DOMAIN cars
         /\ cars[Min(OnSocket(s))].connectionsocket = s
<1>1. OnSocket(s) \subseteq Nat
  BY LenProperties DEF OnSocket
<1>2. Min(OnSocket(s)) \in OnSocket(s)
  BY <1>1, NatMin
<1> QED BY <1>2 DEF OnSocket

-----------------------------------------------------------------------------
(* Connections.                                                            *)

NetsOf(C, M, R) ==
  [link    : [Sockets -> Link],
   peer    : [Sockets -> C \union {Nobody}],
   to      : [Sockets -> Seq(M)],
   from    : [Sockets -> Seq(R)],
   backlog : Seq([client : C, messages : Seq(M)]),
   ready   : SUBSET Sockets,
   up      : BOOLEAN]

FreeIn(n) == {s \in Sockets : n.link[s] = "free"}

RoomIn(n) == Cardinality(FreeIn(n)) >= Len(n.backlog)

(* Whoever holds a socket holds an open one.                               *)
PeersOpenIn(n) == \A s \in Sockets : n.peer[s] # Nobody => n.link[s] = "open"

(* Whoever is in the backlog finds a descriptor, and no descriptor that a  *)
(* client holds is given to another.                                       *)
WellFormed(n, C, M, R) == n \in NetsOf(C, M, R) /\ RoomIn(n) /\ PeersOpenIn(n)

KeepsRoom(n, n2) ==
  /\ n2.backlog = n.backlog
  /\ FreeIn(n) \subseteq FreeIn(n2)
  /\ PeersOpenIn(n2)

(* What sends do to anything but the replies.                              *)
OnlyReplies(n, n2) ==
  /\ n2.peer = n.peer /\ n2.backlog = n.backlog /\ n2.ready = n.ready
  /\ \A t \in Sockets :
       n2.to[t] = n.to[t] \/ (n.peer[t] = Nobody /\ n2.to[t] = <<>>)
  /\ \A t \in Sockets :
       n2.link[t] = "free" => n.link[t] = "free" \/ n2.to[t] = <<>>

(* Room is lost only to a client that joins the line.                      *)
LEMMA KeepsWellFormed ==
  ASSUME NEW C, NEW M, NEW R, NEW n, WellFormed(n, C, M, R),
         NEW n2 \in NetsOf(C, M, R), KeepsRoom(n, n2)
  PROVE  WellFormed(n2, C, M, R)
<1>1. IsFiniteSet(Sockets)
  BY FS_Interval, ConnectionsAssumption DEF Sockets, ConnectionsAssumption
<1>2. IsFiniteSet(FreeIn(n2))
  BY <1>1, FS_Subset DEF FreeIn
<1>3. IsFiniteSet(FreeIn(n)) /\ Cardinality(FreeIn(n)) =< Cardinality(FreeIn(n2))
  BY <1>2, FS_Subset DEF KeepsRoom
<1>4. Cardinality(FreeIn(n)) \in Nat /\ Cardinality(FreeIn(n2)) \in Nat
  BY <1>2, <1>3, FS_CardinalityType
<1>5. Len(n.backlog) \in Nat
  BY LenProperties DEF NetsOf, WellFormed
<1> QED BY <1>3, <1>4, <1>5 DEF RoomIn, KeepsRoom, WellFormed

(* A descriptor that is closed is free again.                              *)
LEMMA ClosedWellFormed ==
  ASSUME NEW C, NEW M, NEW R, NEW n, WellFormed(n, C, M, R),
         NEW s \in Sockets, n.link[s] # "open"
  PROVE  WellFormed(Closed(n, s), C, M, R)
<1> DEFINE n2 == Closed(n, s)
<1>1. <<>> \in Seq(M) /\ <<>> \in Seq(R)
  OBVIOUS
<1>2. /\ n2.link = [n.link EXCEPT ![s] = "free"] /\ n2.to = [n.to EXCEPT ![s] = <<>>]
      /\ n2.from = [n.from EXCEPT ![s] = <<>>] /\ n2.peer = n.peer
      /\ n2.backlog = n.backlog /\ n2.ready = n.ready /\ n2.up = n.up
  BY DEF NetsOf, Closed, WellFormed
<1>3. n2 \in NetsOf(C, M, R)
  BY <1>1 DEF NetsOf, Closed, Link, WellFormed
<1>4. FreeIn(n) \subseteq FreeIn(n2)
  BY <1>2 DEF FreeIn, NetsOf, WellFormed
<1>5. PeersOpenIn(n2)
  BY <1>2 DEF PeersOpenIn, NetsOf, WellFormed
<1> QED BY <1>2, <1>3, <1>4, <1>5, KeepsWellFormed DEF KeepsRoom

(* A send adds a reply, closes a descriptor or ends the controller.        *)
LEMMA SendsWellFormed ==
  ASSUME NEW C, NEW M, NEW R, NEW n, WellFormed(n, C, M, R),
         NEW s \in Sockets, NEW m \in R,
         NEW n2 \in Sends(n, s, m)
  PROVE  WellFormed(n2, C, M, R) /\ OnlyReplies(n, n2)
<1>1. CASE n2 = [n EXCEPT !.from[s] = Append(@, m)]
  <2>1. Append(n.from[s], m) \in Seq(R)
    BY AppendProperties DEF NetsOf, WellFormed
  <2>2. n2 \in NetsOf(C, M, R) /\ KeepsRoom(n, n2)
    BY <1>1, <2>1 DEF NetsOf, KeepsRoom, FreeIn, PeersOpenIn, WellFormed
  <2>3. OnlyReplies(n, n2)
    BY <1>1 DEF OnlyReplies, WellFormed, NetsOf
  <2> QED BY <2>2, <2>3, KeepsWellFormed
<1>2. CASE n2 = [n EXCEPT !.up = FALSE]
  <2>1. n2 \in NetsOf(C, M, R) /\ KeepsRoom(n, n2) /\ OnlyReplies(n, n2)
    BY <1>2 DEF NetsOf, KeepsRoom, FreeIn, PeersOpenIn, WellFormed, OnlyReplies
  <2> QED BY <2>1, KeepsWellFormed
<1>3. CASE n2 = Closed(n, s) /\ n.link[s] = "reset"
  <2>1. OnlyReplies(n, n2)
    BY <1>3 DEF OnlyReplies, WellFormed, NetsOf, Closed, PeersOpenIn
  <2> QED BY <1>3, <2>1, ClosedWellFormed
<1>4. CASE n2 = n
  BY <1>4 DEF OnlyReplies
<1> QED BY <1>1, <1>2, <1>3, <1>4 DEF Sends

(* A client closes its end.                                                *)
LEMMA AbandonedWellFormed ==
  ASSUME NEW C, NEW M, NEW R, NEW n, WellFormed(n, C, M, R),
         NEW s \in Sockets, n.link[s] # "free"
  PROVE  WellFormed(Abandoned(n, s), C, M, R)
<1> DEFINE n2 == Abandoned(n, s)
<1>1. <<>> \in Seq(R)
  OBVIOUS
<1>2. /\ \E l \in {"hung_up", "reset"} : n2.link = [n.link EXCEPT ![s] = l]
      /\ n2.peer = [n.peer EXCEPT ![s] = Nobody] /\ n2.backlog = n.backlog
  BY DEF NetsOf, Abandoned, WellFormed
<1>3. n2 \in NetsOf(C, M, R)
  BY <1>1 DEF NetsOf, Abandoned, Link, WellFormed
<1>4. FreeIn(n) \subseteq FreeIn(n2)
  BY <1>2 DEF FreeIn, NetsOf, WellFormed
<1>5. PeersOpenIn(n2)
  BY <1>2 DEF PeersOpenIn, NetsOf, WellFormed
<1> QED BY <1>2, <1>3, <1>4, <1>5, KeepsWellFormed DEF KeepsRoom

(* The end of one socket's turn.                                           *)
LEMMA ServedWellFormed ==
  ASSUME NEW C, NEW M, NEW R, WellFormed(net, C, M, R),
         NEW s \in Sockets
  PROVE  /\ WellFormed(Served(s), C, M, R)
         /\ Served(s).link = net.link /\ Served(s).to = net.to
         /\ net.to[s] # <<>> => WellFormed(Received(s), C, M, R)
<1>1. /\ Served(s) \in NetsOf(C, M, R) /\ KeepsRoom(net, Served(s))
      /\ Served(s).link = net.link /\ Served(s).to = net.to
  BY DEF Served, KeepsRoom, NetsOf, FreeIn, PeersOpenIn, WellFormed
<1>2. ASSUME net.to[s] # <<>>
      PROVE  Received(s) \in NetsOf(C, M, R) /\ KeepsRoom(net, Received(s))
  <2>1. Tail(net.to[s]) \in Seq(M)
    BY <1>2, HeadTailProperties DEF NetsOf, WellFormed
  <2> QED BY <2>1 DEF Received, Served, KeepsRoom, NetsOf, FreeIn, PeersOpenIn, WellFormed
<1> QED BY <1>1, <1>2, KeepsWellFormed

(* A client that is heard of for the first time joins the line.            *)
LEMMA DialledWellFormed ==
  ASSUME NEW C, NEW M, NEW R, WellFormed(net, C, M, R),
         Room, NEW x \in C, NEW messages \in Seq(M)
  PROVE  WellFormed(Dialled(x, messages), C, M, R)
<1> DEFINE b == [client |-> x, messages |-> messages]
           n2 == Dialled(x, messages)
<1>1. net.backlog \in Seq([client : C, messages : Seq(M)])
  BY DEF NetsOf, WellFormed
<1>2. /\ Append(net.backlog, b) \in Seq([client : C, messages : Seq(M)])
      /\ Len(Append(net.backlog, b)) = Len(net.backlog) + 1
  BY <1>1, AppendProperties
<1>3. n2 \in NetsOf(C, M, R)
  BY <1>2 DEF NetsOf, WellFormed, Dialled
<1>4. /\ n2.backlog = Append(net.backlog, b) /\ FreeIn(n2) = FreeIn(net)
      /\ FreeIn(net) = Free /\ PeersOpenIn(n2)
  BY DEF Dialled, NetsOf, WellFormed, FreeIn, Free, PeersOpenIn
<1>5. Len(net.backlog) \in Nat
  BY <1>1, LenProperties
<1>6. Cardinality(FreeIn(net)) \in Nat
  <2>1. IsFiniteSet(Sockets)
    BY FS_Interval, ConnectionsAssumption DEF Sockets, ConnectionsAssumption
  <2> QED BY <2>1, FS_Subset, FS_CardinalityType DEF FreeIn
<1>7. RoomIn(n2)
  BY <1>2, <1>4, <1>5, <1>6 DEF RoomIn, Room
<1> QED BY <1>3, <1>4, <1>7 DEF WellFormed

(* There is a descriptor for the next in line.                             *)
LEMMA FreeForBacklog ==
  ASSUME NEW C, NEW M, NEW R, WellFormed(net, C, M, R),
         net.backlog # <<>>
  PROVE  Free # {}
<1>1. Len(net.backlog) \in Nat \ {0}
  BY EmptySeq DEF NetsOf, WellFormed
<1>2. FreeIn(net) = Free
  BY DEF FreeIn, Free
<1>3. IsFiniteSet(Free) /\ Cardinality(Free) \in Nat
  <2>1. IsFiniteSet(Sockets)
    BY FS_Interval, ConnectionsAssumption DEF Sockets, ConnectionsAssumption
  <2> QED BY <2>1, FS_Subset, FS_CardinalityType DEF Free
<1> QED BY <1>1, <1>2, <1>3, FS_EmptySet DEF WellFormed, RoomIn

(* select: the backlog gives one client, on a free descriptor.             *)
LEMMA SelectWellFormed ==
  ASSUME NEW C, NEW M, NEW R, WellFormed(net, C, M, R),
         Select
  PROVE  WellFormed(net', C, M, R)
<1> DEFINE n == Accepted(net)
<1>1. net' = [n EXCEPT !.ready = Waiting]
  BY DEF Select
<1>2. CASE net.backlog = <<>>
  <2>1. n = net
    BY <1>2 DEF Accepted
  <2>2. net' \in NetsOf(C, M, R) /\ KeepsRoom(net, net')
    BY <1>1, <2>1 DEF KeepsRoom, NetsOf, WellFormed, FreeIn, PeersOpenIn, Waiting
  <2> QED BY <2>2, KeepsWellFormed
<1>3. CASE net.backlog # <<>>
  <2> DEFINE f == Min(Free)
             b == Head(net.backlog)
  <2>1. FreeIn(net) = Free /\ Free \subseteq Nat
    BY DEF FreeIn, Free, Sockets
  <2>2. /\ net.backlog \in Seq([client : C, messages : Seq(M)])
        /\ Len(net.backlog) \in Nat \ {0}
    BY <1>3, EmptySeq DEF NetsOf, WellFormed
  <2>3. IsFiniteSet(Free) /\ Cardinality(Free) \in Nat
    <3>1. IsFiniteSet(Sockets)
      BY FS_Interval, ConnectionsAssumption DEF Sockets, ConnectionsAssumption
    <3> QED BY <3>1, FS_Subset, FS_CardinalityType DEF Free
  <2>4. Free # {}
    BY <1>3, FreeForBacklog
  <2>5. f \in Free /\ f \in Sockets
    <3>1. f \in Free
      BY <2>1, <2>4, NatMin
    <3> QED BY <3>1 DEF Free
  <2>6. /\ b.client \in C /\ b.messages \in Seq(M)
        /\ Tail(net.backlog) \in Seq([client : C, messages : Seq(M)])
        /\ Len(Tail(net.backlog)) = Len(net.backlog) - 1
    <3> DEFINE B == [client : C, messages : Seq(M)]
    <3>1. net.backlog \in Seq(B) /\ net.backlog # <<>>
      BY <1>3, <2>2
    <3> HIDE DEF B
    <3>2. /\ b \in B /\ Tail(net.backlog) \in Seq(B)
          /\ Len(Tail(net.backlog)) = Len(net.backlog) - 1
      BY <3>1, HeadTailProperties
    <3> QED BY <3>2 DEF B
  <2> HIDE DEF f, b
  <2>7. n = [net EXCEPT !.link[f] = "open", !.peer[f] = b.client,
                        !.to[f] = b.messages, !.backlog = Tail(@)]
    BY <1>3 DEF Accepted, f, b
  <2>8. net' \in NetsOf(C, M, R)
    <3>1. n \in NetsOf(C, M, R)
      <4>1. /\ [net.link EXCEPT ![f] = "open"] \in [Sockets -> Link]
            /\ [net.peer EXCEPT ![f] = b.client] \in [Sockets -> C \union {Nobody}]
            /\ [net.to EXCEPT ![f] = b.messages] \in [Sockets -> Seq(M)]
        BY <2>5, <2>6 DEF NetsOf, WellFormed, Link
      <4> HIDE DEF n
      <4> QED BY <2>6, <2>7, <4>1 DEF NetsOf, WellFormed
    <3>2. Waiting \in SUBSET Sockets
      BY DEF Waiting
    <3> HIDE DEF n
    <3> QED BY <1>1, <3>1, <3>2 DEF NetsOf
  <2>9. /\ net'.link = [net.link EXCEPT ![f] = "open"]
        /\ net'.peer = [net.peer EXCEPT ![f] = b.client]
        /\ net'.backlog = Tail(net.backlog)
    BY <1>1, <2>7 DEF NetsOf, WellFormed
  <2>10. FreeIn(net') = Free \ {f}
    BY <2>5, <2>9 DEF FreeIn, Free, NetsOf, WellFormed
  <2>11. PeersOpenIn(net')
    BY <2>9 DEF PeersOpenIn, NetsOf, WellFormed
  <2>12. Cardinality(Free \ {f}) = Cardinality(Free) - 1
    BY <2>3, <2>5, FS_RemoveElement
  <2>13. RoomIn(net')
    BY <2>1, <2>2, <2>3, <2>6, <2>9, <2>10, <2>12 DEF RoomIn, WellFormed
  <2> QED BY <2>8, <2>11, <2>13 DEF WellFormed
<1> QED BY <1>2, <1>3

(* The socket a client holds is open.                                      *)
LEMMA HolderOpen ==
  ASSUME NEW C, NEW M, NEW R, WellFormed(net, C, M, R),
         NEW x, x # Nobody, HeldBy(x) # {}
  PROVE  /\ SocketOf(x) \in Sockets
         /\ net.peer[SocketOf(x)] = x /\ net.link[SocketOf(x)] = "open"
<1>1. HeldBy(x) \subseteq Nat
  BY DEF HeldBy, Sockets
<1>2. SocketOf(x) \in HeldBy(x)
  BY <1>1, NatMin DEF SocketOf
<1> QED BY <1>2 DEF HeldBy, WellFormed, PeersOpenIn
=============================================================================
