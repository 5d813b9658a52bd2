--------------------------- MODULE DispatchProofs ---------------------------
(***************************************************************************)
(* The controller implements Dispatch, for any number of cars, pads and    *)
(* connections: a pad gets one answer to the call it made, although the    *)
(* controller finds cars by name and sends to descriptors that may have    *)
(* changed hands, because a call is alone on its connection and its answer *)
(* goes to the descriptor it came from.                                    *)
(***************************************************************************)
EXTENDS ListingProofs

Known == {cars[k].name : k \in DOMAIN cars}

CallOf(p) == <<CallMessage(pad[p].call[1], pad[p].call[2])>>

(* Nothing is under way on a connection that is not open.                  *)
Silent(n) == \A s \in Sockets : n.link[s] # "open" => n.from[s] = <<>>

(* A pad is not answered before its call, the only message it sends, has   *)
(* been received.                                                          *)
OneCall ==
  \A s \in Sockets :
    net.peer[s] \in Pads =>
      \/ net.to[s] = <<>>
      \/ net.to[s] = CallOf(net.peer[s]) /\ AnswersIn(net.from[s]) = {}

LineCalls ==
  \A i \in DOMAIN net.backlog :
    net.backlog[i].client \in Pads =>
      net.backlog[i].messages = CallOf(net.backlog[i].client)

AnsweredOnce ==
  \A s \in Sockets :
    net.peer[s] \in Pads =>
      \A x, y \in AnswersIn(net.from[s]) : x = y

Phases ==
  \A p \in Pads :
    /\ pad[p].phase = "idle" => pad[p].call = <<>>
    /\ pad[p].phase # "done" => pad[p].answer = NoAnswer

AnswerInv == Silent(net) /\ OneCall /\ LineCalls /\ AnsweredOnce /\ Phases

(* The state of the invariants that the steps start from.                  *)
Good == TypeInv /\ ListInv /\ PadsTyped /\ PadsAbsent /\ AnswerInv

-----------------------------------------------------------------------------
(* Answers among the messages that are under way.                          *)

(* The lowest of one descriptor.                                           *)
LEMMA MinOfOne ==
  ASSUME NEW s \in Nat
  PROVE  Min({s}) = s
BY NatMin

(* No message, no answer.                                                  *)
LEMMA AnswersOfNone == AnswersIn(<<>>) = {}
BY DEF AnswersIn, ToSet

(* A message that is sent is the only answer it adds.                      *)
LEMMA AnswersAppended ==
  ASSUME NEW S, NEW q \in Seq(S), NEW m
  PROVE  AnswersIn(Append(q, m)) =
           AnswersIn(q) \union {x \in {m} : x.kind \in {"CAR", "UNAVAILABLE"}}
<1>1. q \in Seq(S \union {m}) /\ Len(q) \in Nat
  BY ElementOfSeq, LenProperties
<1>2. /\ DOMAIN q = 1 .. Len(q) /\ DOMAIN Append(q, m) = 1 .. Len(q) + 1
      /\ \A k \in 1 .. Len(q) : Append(q, m)[k] = q[k]
      /\ Append(q, m)[Len(q) + 1] = m
  BY <1>1, AppendProperties, LenProperties
<1>3. ToSet(Append(q, m)) = ToSet(q) \union {m}
  BY <1>1, <1>2 DEF ToSet
<1> QED BY <1>3 DEF AnswersIn

(* One message is one answer or none.                                      *)
LEMMA AnswersOfOne ==
  ASSUME NEW m
  PROVE  AnswersIn(<<m>>) = {x \in {m} : x.kind \in {"CAR", "UNAVAILABLE"}}
<1>1. ToSet(<<m>>) = {m}
  BY DEF ToSet
<1> QED BY <1>1 DEF AnswersIn

(* Two answers that differ stand for outcomes that do.                     *)
LEMMA Outcomes ==
  /\ Outcome("idle", {}) = "unasked"
  /\ Outcome("waiting", {}) = "pending"
  /\ Outcome("done", {}) = "left"
  /\ \A phase \in {"waiting", "done"} :
       /\ Outcome(phase, {Unavailable}) = "UNAVAILABLE"
       /\ \A c \in Cars : Outcome(phase, {CarAnswer(c)}) = c
<1>1. \A c \in Cars : CarAnswer(c) # Unavailable
  BY DEF CarAnswer, Unavailable
<1>2. \A c, d \in Cars : CarAnswer(c) = CarAnswer(d) => c = d
  BY DEF CarAnswer
<1>3. \A phase \in {"waiting", "done"} : Outcome(phase, {Unavailable}) = "UNAVAILABLE"
  BY <1>1 DEF Outcome
<1>4. ASSUME NEW phase \in {"waiting", "done"}, NEW c \in Cars
      PROVE  Outcome(phase, {CarAnswer(c)}) = c
  <2>1. (CHOOSE d \in Cars : CarAnswer(d) \in {CarAnswer(c)}) = c
    BY <1>2
  <2> QED BY <2>1 DEF Outcome
<1>5. Outcome("idle", {}) = "unasked"
  BY DEF Outcome
<1>6. Outcome("waiting", {}) = "pending" /\ Outcome("done", {}) = "left"
  BY DEF Outcome
<1> QED BY <1>3, <1>4, <1>5, <1>6

-----------------------------------------------------------------------------
(* Steps of Dispatch.                                                      *)

Dispatches == D!Next \/ UNCHANGED D!vars

SameCalls == \A p \in Pads : pad'[p].call = pad[p].call

SameAnswerBut(p) ==
  \A q \in Pads \ {p} : AbstractAnswer(q)' = AbstractAnswer(q)

(* A step that changes no call, no answer and no listed name is a stutter. *)
LEMMA Stutters ==
  ASSUME SameCalls, Known' = Known,
         \A p \in Pads : AbstractAnswer(p)' = AbstractAnswer(p)
  PROVE  UNCHANGED D!vars
BY DEF D!vars, SameCalls, Known

(* A call is the abstract question.                                        *)
LEMMA Asks ==
  ASSUME NEW p \in Pads, NEW c \in Calls[p], pad[p].call = <<>>,
         \A q \in Pads : pad'[q].call = IF q = p THEN c ELSE pad[q].call,
         Known' = Known, SameAnswerBut(p), AbstractAnswer(p)' = "pending"
  PROVE  D!Next
BY DEF D!Next, D!Ask, D!NoCall, D!Pending, Known, SameAnswerBut

(* An answer to a pending call is the abstract answer.                     *)
LEMMA Responds ==
  ASSUME NEW p \in Pads, SameCalls, Known' = Known, SameAnswerBut(p),
         AbstractAnswer(p) = "pending",
         \/ AbstractAnswer(p)' = "UNAVAILABLE"
         \/ /\ AbstractAnswer(p)' \in Known
            /\ BothFloors(AbstractAnswer(p)', pad[p].call)
  PROVE  D!Next
BY DEF D!Next, D!Answer, D!Pending, D!Refused, Known, SameCalls, SameAnswerBut

(* A pad that stops waiting leaves.                                        *)
LEMMA Leaves ==
  ASSUME NEW p \in Pads, SameCalls, Known' = Known, SameAnswerBut(p),
         AbstractAnswer(p) \notin {"unasked", "left"}, AbstractAnswer(p)' = "left"
  PROVE  D!Next
BY DEF D!Next, D!Leave, D!Unasked, D!Left, Known, SameCalls, SameAnswerBut

(* A name that is listed, or is no more, is a step of the list.            *)
LEMMA Lists ==
  ASSUME NEW c \in Cars, SameCalls, Known' = Known \union {c} \/ Known' = Known \ {c},
         \A p \in Pads : AbstractAnswer(p)' = AbstractAnswer(p)
  PROVE  D!Next
BY DEF D!Next, D!Register, D!Forget, Known, SameCalls

-----------------------------------------------------------------------------
(* What a send does to the answers.                                        *)

SameAnswers(n, n2) ==
  \A t \in Sockets :
    n.peer[t] # Nobody => AnswersIn(n2.from[t]) = AnswersIn(n.from[t])

(* A send adds to one open connection, or closes a descriptor that nobody  *)
(* holds.                                                                  *)
LEMMA SendsFrom ==
  ASSUME NEW n, Sound(n), Silent(n), NEW s \in Sockets, NEW m, NEW n2 \in Sends(n, s, m)
  PROVE  /\ Silent(n2)
         /\ \A t \in Sockets :
              n.peer[t] # Nobody =>
                \/ n2.from[t] = n.from[t]
                \/ t = s /\ n2.from[t] = Append(n.from[t], m)
<1>1. CASE n2 = [n EXCEPT !.from[s] = Append(@, m)] /\ n.link[s] = "open"
  BY <1>1 DEF Silent, Sound, Nets, NetsOf
<1>2. CASE n2 = [n EXCEPT !.up = FALSE]
  BY <1>2 DEF Silent, Sound, Nets, NetsOf
<1>3. CASE n2 = Closed(n, s) /\ n.link[s] = "reset"
  BY <1>3 DEF Silent, Sound, Nets, NetsOf, Closed, PeersOpenIn
<1>4. CASE n2 = n
  BY <1>4
<1> QED BY <1>1, <1>2, <1>3, <1>4 DEF Sends

(* FLOOR is no answer, whoever gets it.                                    *)
LEMMA FloorsAnswerNobody ==
  ASSUME NEW n, Sound(n), Silent(n), NEW s \in Sockets, NEW f,
         NEW n2 \in Sends(n, s, FloorMessage(f))
  PROVE  Silent(n2) /\ SameAnswers(n, n2)
<1>1. ASSUME NEW t \in Sockets, n.peer[t] # Nobody
      PROVE  AnswersIn(n2.from[t]) = AnswersIn(n.from[t])
  <2>1. n2.from[t] = n.from[t] \/ n2.from[t] = Append(n.from[t], FloorMessage(f))
    BY <1>1, SendsFrom
  <2>2. n.from[t] \in Seq(Replies)
    BY DEF Sound, Nets, NetsOf
  <2>3. AnswersIn(Append(n.from[t], FloorMessage(f))) = AnswersIn(n.from[t])
    <3>1. {x \in {FloorMessage(f)} : x.kind \in {"CAR", "UNAVAILABLE"}} = {}
      BY DEF FloorMessage
    <3> QED BY <2>2, <3>1, AnswersAppended
  <2> QED BY <2>1, <2>3
<1> QED BY <1>1, SendsFrom DEF SameAnswers

(* The end of a turn.                                                      *)
LEMMA ServedSilent ==
  ASSUME TypeInv, Silent(net), NEW s \in Sockets
  PROVE  /\ Silent(Served(s)) /\ SameAnswers(net, Served(s))
         /\ Silent(Received(s)) /\ SameAnswers(net, Received(s))
BY DEF TypeInv, Sound, Nets, NetsOf, Served, Received, Silent, SameAnswers

(* A pad whose connections and answers are what they were has heard        *)
(* nothing new.                                                            *)
LEMMA NothingHeard ==
  ASSUME NEW p \in Pads, pad'[p] = pad[p], HeldBy(p)' = HeldBy(p),
         \A s \in HeldBy(p) : AnswersIn(net'.from[s]) = AnswersIn(net.from[s])
  PROVE  Answers(p)' = Answers(p) /\ AbstractAnswer(p)' = AbstractAnswer(p)
<1>1. Answers(p)' = Answers(p)
  <2>1. CASE HeldBy(p) = {}
    BY <2>1 DEF Answers
  <2>2. CASE HeldBy(p) # {}
    <3>1. SocketOf(p) \in HeldBy(p)
      BY <2>2, NatMin DEF SocketOf, HeldBy, Sockets
    <3>2. SocketOf(p)' = SocketOf(p)
      BY DEF SocketOf
    <3> QED BY <2>2, <3>1, <3>2 DEF Answers
  <2> QED BY <2>1, <2>2
<1> QED BY <1>1 DEF AbstractAnswer

(* If no message to a pad changes, no answer does.                         *)
LEMMA NobodyHears ==
  ASSUME UNCHANGED pad, net'.peer = net.peer, SameAnswers(net, net')
  PROVE  SameCalls /\ \A p \in Pads : AbstractAnswer(p)' = AbstractAnswer(p)
<1>1. ASSUME NEW p \in Pads PROVE AbstractAnswer(p)' = AbstractAnswer(p)
  <2>1. HeldBy(p)' = HeldBy(p)
    BY DEF HeldBy
  <2>2. \A s \in HeldBy(p) : AnswersIn(net'.from[s]) = AnswersIn(net.from[s])
    BY ClientsAssumption DEF HeldBy, SameAnswers, ClientsAssumption
  <2> QED BY <2>1, <2>2, NothingHeard
<1> QED BY <1>1 DEF SameCalls

(* A pad that holds socket s.                                              *)
LEMMA PadHolds ==
  ASSUME Good, NEW p \in Pads, NEW s \in Sockets, net.peer[s] = p
  PROVE  /\ HeldBy(p) = {s} /\ SocketOf(p) = s /\ Answers(p) = AnswersIn(net.from[s])
         /\ pad[p].phase = "waiting" /\ net.link[s] = "open"
<1>1. HeldBy(p) = {s}
  BY ClientsAssumption DEF Good, ListInv, Ordered, OneSocket, HeldBy, ClientsAssumption
<1>2. SocketOf(p) = s
  BY <1>1, MinOfOne DEF SocketOf, Sockets
<1>3. Answers(p) = AnswersIn(net.from[s])
  BY <1>1, <1>2 DEF Answers
<1>4. pad[p].phase = "waiting"
  BY <1>1 DEF Good, PadsAbsent, Absent
<1>5. net.link[s] = "open"
  BY ClientsAssumption DEF Good, TypeInv, Sound, PeersOpenIn, ClientsAssumption
<1> QED BY <1>1, <1>2, <1>3, <1>4, <1>5

-----------------------------------------------------------------------------
(* Turns of the controller.                                                *)

(* What is received on a pad's socket is its call.                         *)
LEMMA CallReceived ==
  ASSUME Good, NEW s \in Sockets, net.to[s] # <<>>, OnlyReplies(Received(s), net')
  PROVE  /\ net'.peer = net.peer /\ net'.backlog = net.backlog
         /\ \A t \in Sockets :
              net.peer[t] \in Pads => net'.to[t] = net.to[t] \/ net'.to[t] = <<>>
         /\ net.peer[s] \in Pads => net'.to[s] = <<>>
<1>1. /\ Received(s).peer = net.peer /\ Received(s).backlog = net.backlog
      /\ \A t \in Sockets :
           Received(s).to[t] = IF t = s THEN Tail(net.to[s]) ELSE net.to[t]
  BY DEF Received, Served, Good, TypeInv, Sound, Nets, NetsOf
<1>2. net.peer[s] \in Pads => Tail(net.to[s]) = <<>>
  <2> HAVE net.peer[s] \in Pads
  <2>1. net.to[s] = CallOf(net.peer[s]) /\ net.to[s] \in Seq(Messages)
    BY DEF Good, AnswerInv, OneCall, TypeInv, Sound, Nets, NetsOf
  <2>2. Len(net.to[s]) = 1
    BY <2>1 DEF CallOf
  <2>3. Tail(net.to[s]) \in Seq(Messages) /\ Len(Tail(net.to[s])) = 0
    BY <2>1, <2>2, HeadTailProperties
  <2> QED BY <2>3, EmptySeq
<1> QED BY <1>1, <1>2 DEF OnlyReplies

(* A turn keeps the invariant if it adds at most one answer, to a call     *)
(* that has been received.                                                 *)
LEMMA TurnAnswers ==
  ASSUME Good, UNCHANGED pad, net'.peer = net.peer, net'.backlog = net.backlog,
         Silent(net'),
         \A t \in Sockets :
           net.peer[t] \in Pads =>
             /\ net'.to[t] = net.to[t] \/ net'.to[t] = <<>>
             /\ \/ AnswersIn(net'.from[t]) = AnswersIn(net.from[t])
                \/ net'.to[t] = <<>> /\ \E m : AnswersIn(net'.from[t]) = {m}
  PROVE  AnswerInv'
<1> USE DEF Good, AnswerInv
<1>1. OneCall'
  BY DEF OneCall, CallOf
<1>2. AnsweredOnce'
  BY DEF AnsweredOnce
<1>3. LineCalls' /\ Phases'
  BY DEF LineCalls, CallOf, Phases
<1>4. Silent(net)'
  OBVIOUS
<1> QED BY <1>1, <1>2, <1>3, <1>4

(* Messages that are no calls.                                             *)
LEMMA MessageStep ==
  ASSUME Good, NEW s \in Sockets, UNCHANGED pad,
         HandleCar(s) \/ HandleStatus(s) \/ HandleOther(s)
  PROVE  Dispatches /\ AnswerInv'
<1> USE ShaftsAreTyped
<1>1. TypeInv /\ Silent(net) /\ net.to[s] # <<>>
  BY DEF Good, AnswerInv, HandleCar, HandleStatus, HandleOther, Arrived
<1>2. /\ Sound(Received(s)) /\ Silent(Received(s)) /\ SameAnswers(net, Received(s))
      /\ Received(s).peer = net.peer
  <2>1. Received(s).peer = net.peer
    BY <1>1 DEF Received, Served, TypeInv, Sound, Nets, NetsOf
  <2> QED BY <1>1, <2>1, ServedSilent, ServedSound DEF TypeInv
<1>3. OnlyReplies(Received(s), net') /\ Silent(net') /\ SameAnswers(net, net')
  <2>1. CASE net' = Received(s)
    BY <1>2, <2>1 DEF OnlyReplies
  <2>2. CASE \E f : net' \in Sends(Received(s), s, FloorMessage(f)) /\ HandleStatus(s)
    <3>1. Silent(net') /\ SameAnswers(Received(s), net')
      BY <1>2, <2>2, FloorsAnswerNobody
    <3>2. SameAnswers(net, net')
      BY <1>2, <3>1 DEF SameAnswers
    <3> QED BY <1>1, <2>2, <3>1, <3>2, StatusTyped
  <2> QED BY <2>1, <2>2 DEF HandleCar, HandleStatus, HandleOther
<1>4. /\ net'.peer = net.peer /\ net'.backlog = net.backlog
      /\ \A t \in Sockets :
           net.peer[t] \in Pads => net'.to[t] = net.to[t] \/ net'.to[t] = <<>>
  BY <1>1, <1>3, CallReceived
<1>5. AnswerInv'
  BY <1>3, <1>4, TurnAnswers, ClientsAssumption DEF SameAnswers, ClientsAssumption
<1>6. SameCalls /\ \A p \in Pads : AbstractAnswer(p)' = AbstractAnswer(p)
  BY <1>3, <1>4, NobodyHears
<1>7. CASE HandleCar(s)
  <2>1. PICK e : cars' = Append(cars, e) /\ e.name \in Cars
    <3>1. PICK stack \in StackCars :
            cars' = Append(cars, NewCar(Head(net.to[s]), s, stack))
      BY <1>7 DEF HandleCar
    <3>2. Head(net.to[s]).name \in Cars
      <4>1. net.to[s] \in Seq(Messages) /\ Head(net.to[s]) = net.to[s][1]
        BY <1>1 DEF TypeInv, Sound, Nets, NetsOf
      <4>2. Registers(net.to[s])
        BY <1>1, <1>7, <4>1, LenProperties DEF HandleCar, Registers
      <4> QED BY <4>1, <4>2, RegistrationsNameCars
    <3>3. NewCar(Head(net.to[s]), s, stack).name = Head(net.to[s]).name
      BY DEF NewCar
    <3> QED BY <3>1, <3>2, <3>3
  <2>2. Known' = Known \union {e.name}
    <3>1. cars \in Seq(Entries \union {e}) /\ Len(cars) \in Nat
      BY <1>1, ElementOfSeq, LenProperties DEF TypeInv
    <3>2. /\ DOMAIN cars = 1 .. Len(cars) /\ DOMAIN cars' = 1 .. Len(cars) + 1
          /\ cars'[Len(cars) + 1] = e
          /\ \A k \in 1 .. Len(cars) : cars'[k] = cars[k]
      BY <2>1, <3>1, AppendProperties, LenProperties
    <3> QED BY <3>1, <3>2 DEF Known
  <2> QED BY <1>5, <1>6, <2>1, <2>2, Lists DEF Dispatches
<1>8. CASE HandleStatus(s) \/ HandleOther(s)
  <2>1. SameEntries
    BY <1>1, <1>8, StatusTyped DEF HandleOther, SameEntries
  <2>2. Known' = Known
    BY <2>1 DEF SameEntries, Known
  <2> QED BY <1>5, <1>6, <2>2, Stutters DEF Dispatches
<1> QED BY <1>7, <1>8

(* Ends of connections.                                                    *)
LEMMA EndStep ==
  ASSUME Good, NEW s \in Sockets, UNCHANGED pad, HandleHangUp(s) \/ HandleError(s)
  PROVE  Dispatches /\ AnswerInv'
<1>1. /\ TypeInv /\ Silent(net) /\ net' = Closed(Served(s), s) /\ net.peer[s] = Nobody
  BY DEF Good, AnswerInv, HandleHangUp, HandleError, TypeInv, Sound, PeersOpenIn
<1>2. /\ net'.peer = net.peer /\ net'.backlog = net.backlog
      /\ net'.link = [net.link EXCEPT ![s] = "free"]
      /\ net'.from = [net.from EXCEPT ![s] = <<>>]
      /\ net'.to = [net.to EXCEPT ![s] = <<>>]
  BY <1>1 DEF Closed, Served, TypeInv, Sound, Nets, NetsOf
<1>3. Silent(net') /\ SameAnswers(net, net')
  BY <1>1, <1>2 DEF Silent, SameAnswers, TypeInv, Sound, Nets, NetsOf
<1>4. \A t \in Sockets : net'.to[t] = net.to[t] \/ net'.to[t] = <<>>
  BY <1>2 DEF Good, TypeInv, Sound, Nets, NetsOf
<1>5. AnswerInv'
  BY <1>2, <1>3, <1>4, TurnAnswers, ClientsAssumption DEF SameAnswers, ClientsAssumption
<1>6. SameCalls /\ \A p \in Pads : AbstractAnswer(p)' = AbstractAnswer(p)
  BY <1>2, <1>3, NobodyHears
<1>7. CASE UNCHANGED cars
  <2>1. Known' = Known
    BY <1>7 DEF Known
  <2> QED BY <1>5, <1>6, <2>1, Stutters DEF Dispatches
<1>8. CASE HandleHangUp(s) /\ OnSocket(s) # {}
  <2> DEFINE o == Min(OnSocket(s))
             r == Min(Named(cars[o].name))
  <2>1. o \in DOMAIN cars
    BY <1>1, <1>8, FirstOnSocket DEF TypeInv
  <2>2. r \in 1 .. Len(cars)
    BY <1>1, <2>1, FirstOfName, LenProperties DEF TypeInv
  <2>3. cars' = RemoveAt(cars, r)
    BY <1>8 DEF HandleHangUp, controller_remove_by_name, controller_get_name_by_socket, RemovedFirst
  <2> HIDE DEF o, r
  <2>4. cars[r].name \in Cars
    <3>1. PICK c \in Cars : cars[r] \in EntriesOf(c)
      BY <1>1, <2>2, ElementOfSeq DEF TypeInv, Entries
    <3> QED BY <3>1 DEF EntriesOf
  <2>5. Known' = Known \ {cars[r].name} \/ Known' = Known
    <3>1. /\ DOMAIN cars = 1 .. Len(cars) /\ Len(cars) \in Nat
          /\ DOMAIN cars' = 1 .. Len(cars) - 1
          /\ \A j \in 1 .. Len(cars) - 1 : cars'[j] = IF j < r THEN cars[j] ELSE cars[j + 1]
      <4>1. /\ RemoveAt(cars, r) \in Seq(Entries) /\ Len(RemoveAt(cars, r)) = Len(cars) - 1
            /\ \A j \in 1 .. Len(cars) - 1 :
                 RemoveAt(cars, r)[j] = IF j < r THEN cars[j] ELSE cars[j + 1]
        BY <1>1, <2>2, RemovedAt DEF TypeInv
      <4> QED BY <1>1, <2>3, <4>1, LenProperties DEF TypeInv
    <3>2. Known' \subseteq Known
      BY <2>2, <3>1 DEF Known
    <3>3. ASSUME NEW k \in 1 .. Len(cars), k # r
          PROVE  cars[k].name \in Known'
      <4> DEFINE j == IF k < r THEN k ELSE k - 1
      <4>1. j \in DOMAIN cars' /\ cars'[j] = cars[k]
        BY <2>2, <3>1, <3>3
      <4> HIDE DEF j
      <4> QED BY <4>1 DEF Known
    <3>4. Known \subseteq Known' \union {cars[r].name}
      BY <3>1, <3>3 DEF Known
    <3> HIDE DEF Known
    <3> QED BY <3>2, <3>4
  <2>6. CASE Known' = Known
    BY <1>5, <1>6, <2>6, Stutters DEF Dispatches
  <2>7. CASE Known' = Known \ {cars[r].name}
    BY <1>5, <1>6, <2>4, <2>7, Lists DEF Dispatches
  <2> QED BY <2>5, <2>6, <2>7
<1> QED BY <1>7, <1>8 DEF HandleHangUp, HandleError

(* A call is answered on the socket it came from, by the name of a listed  *)
(* car that goes to both floors or by a refusal.                           *)
LEMMA CallAnswered ==
  ASSUME TypeInv, Silent(net), NEW s \in Sockets, HandleCall(s)
  PROVE  \E n, m :
           /\ Sound(n) /\ Silent(n) /\ SameAnswers(net, n) /\ n.peer = net.peer
           /\ net' \in Sends(n, s, m)
           /\ \/ m = Unavailable
              \/ \E c \in Known \intersect Cars :
                   /\ m = CarAnswer(c)
                   /\ {Head(net.to[s]).source, Head(net.to[s]).dest}
                        \subseteq Shaft[c][1] .. Shaft[c][2]
<1> USE ShaftsAreTyped
<1> DEFINE x == Head(net.to[s]).source
           y == Head(net.to[s]).dest
<1>1. net.to[s] # <<>> /\ x \in Label /\ y \in Label
  <2>1. net.to[s] # <<>> /\ Head(net.to[s]).kind = "CALL"
    BY DEF HandleCall, Arrived
  <2>2. Head(net.to[s]) \in Messages
    BY <2>1, HeadTailProperties DEF TypeInv, Sound, Nets, NetsOf
  <2> QED BY <2>1, <2>2 DEF Messages, CallMessages, CarMessages, CarMessage, StatusMessages, EmergencyMessage
<1>2. /\ Sound(Received(s)) /\ Silent(Received(s)) /\ SameAnswers(net, Received(s))
      /\ Received(s).peer = net.peer
  <2>1. Received(s).peer = net.peer
    BY DEF Received, Served, TypeInv, Sound, Nets, NetsOf
  <2> QED BY <1>1, <2>1, ServedSilent, ServedSound DEF TypeInv
<1>3. CASE Candidates(x, y) # {} /\ Assign(BestCar(x, y), x, y, s)
  <2> DEFINE k == BestCar(x, y)
             queue == add_to_car_queue(cars[k], x, y)
             target == controller_get_socket_by_name(cars[k].name)
             first == get_next_destination(queue)
  <2> HIDE DEF x, y
  <2>1. k \in DOMAIN cars /\ can_service_request(cars[k], x, y)
    BY <1>1, <1>3, NearestServes DEF TypeInv, Candidates
  <2>2. PICK c \in Cars : cars[k] \in EntriesOf(c)
    <3>1. k \in 1 .. Len(cars)
      BY <2>1, LenProperties DEF TypeInv
    <3> QED BY <3>1, ElementOfSeq DEF TypeInv, Entries
  <2>3. /\ cars[k].name = c /\ c \in Known
        /\ {x, y} \subseteq Shaft[c][1] .. Shaft[c][2]
    BY <2>1, <2>2 DEF EntriesOf, Known, can_service_request
  <2>4. \E n \in IF SendsFloor(cars[k], queue)
                   THEN Sends(Received(s), target, FloorMessage(first))
                   ELSE {Received(s)} :
          net' \in Sends(n, s, CarAnswer(cars[k].name))
    BY <1>3 DEF Assign
  <2>5. target \in Sockets /\ FloorMessage(first) \in Replies
    <3>1. Min(Named(cars[k].name)) \in 1 .. Len(cars)
      BY <2>1, FirstOfName, LenProperties DEF TypeInv
    <3>2. PICK d \in Cars : cars[Min(Named(cars[k].name))] \in EntriesOf(d)
      BY <3>1, ElementOfSeq DEF TypeInv, Entries
    <3>3. cars[Min(Named(cars[k].name))].connectionsocket \in Sockets
      BY <3>2 DEF EntriesOf
    <3>4. queue \in Seq(StopsOf(c))
      BY <2>1, <2>2, QueueAdded
    <3>5. first \in Int
      BY <3>4, NextIsNumber
    <3> QED BY <3>3, <3>5 DEF controller_get_socket_by_name, Replies, FloorMessage
  <2> HIDE DEF k, queue, target, first
  <2>6. PICK n \in IF SendsFloor(cars[k], queue)
                     THEN Sends(Received(s), target, FloorMessage(first))
                     ELSE {Received(s)} :
          net' \in Sends(n, s, CarAnswer(cars[k].name))
    BY <2>4
  <2>7. Sound(n) /\ Silent(n) /\ SameAnswers(net, n) /\ n.peer = net.peer
    <3>1. CASE n = Received(s)
      BY <1>2, <3>1
    <3>2. CASE n \in Sends(Received(s), target, FloorMessage(first))
      <4>1. Silent(n) /\ SameAnswers(Received(s), n)
        BY <1>2, <2>5, <3>2, FloorsAnswerNobody
      <4>2. Sound(n) /\ n.peer = net.peer
        BY <1>2, <2>5, <3>2, SendsSound DEF OnlyReplies
      <4> QED BY <1>2, <4>1, <4>2 DEF SameAnswers
    <3> QED BY <2>6, <3>1, <3>2
  <2> QED BY <2>2, <2>3, <2>6, <2>7 DEF x, y
<1>4. CASE Refuse(s)
  BY <1>2, <1>4 DEF Refuse
<1> QED BY <1>3, <1>4 DEF HandleCall

(* A CALL is answered or refused, or its pad has gone.                     *)
LEMMA CallStep ==
  ASSUME Good, NEW s \in Sockets, UNCHANGED pad, HandleCall(s)
  PROVE  Dispatches /\ AnswerInv'
<1> USE ShaftsAreTyped
<1>1. /\ TypeInv /\ Silent(net) /\ net.to[s] # <<>>
      /\ SameEntries /\ OnlyReplies(Received(s), net')
  BY CallTyped DEF Good, AnswerInv, HandleCall, Arrived
<1>2. PICK n, m :
        /\ Sound(n) /\ Silent(n) /\ SameAnswers(net, n) /\ n.peer = net.peer
        /\ net' \in Sends(n, s, m)
        /\ \/ m = Unavailable
           \/ \E c \in Known \intersect Cars :
                /\ m = CarAnswer(c)
                /\ {Head(net.to[s]).source, Head(net.to[s]).dest}
                     \subseteq Shaft[c][1] .. Shaft[c][2]
  BY <1>1, CallAnswered
<1>3. /\ net'.peer = net.peer /\ net'.backlog = net.backlog
      /\ \A t \in Sockets :
           net.peer[t] \in Pads => net'.to[t] = net.to[t] \/ net'.to[t] = <<>>
      /\ net.peer[s] \in Pads => net'.to[s] = <<>>
  BY <1>1, CallReceived
<1>4. Silent(net')
  BY <1>2, SendsFrom
<1>5. m.kind \in {"CAR", "UNAVAILABLE"}
  BY <1>2 DEF Unavailable, CarAnswer
<1>6. ASSUME NEW t \in Sockets, net.peer[t] # Nobody
      PROVE  \/ AnswersIn(net'.from[t]) = AnswersIn(net.from[t])
             \/ t = s /\ AnswersIn(net'.from[t]) = AnswersIn(net.from[t]) \union {m}
  <2>1. n.from[t] \in Seq(Replies) /\ AnswersIn(n.from[t]) = AnswersIn(net.from[t])
    BY <1>2, <1>6 DEF Sound, Nets, NetsOf, SameAnswers
  <2>2. net'.from[t] = n.from[t] \/ (t = s /\ net'.from[t] = Append(n.from[t], m))
    BY <1>2, <1>6, SendsFrom
  <2>3. AnswersIn(Append(n.from[t], m)) = AnswersIn(net.from[t]) \union {m}
    BY <1>5, <2>1, AnswersAppended
  <2> QED BY <2>1, <2>2, <2>3
<1>7. net.peer[s] \in Pads =>
        net.to[s] = CallOf(net.peer[s]) /\ AnswersIn(net.from[s]) = {}
  BY <1>1 DEF Good, AnswerInv, OneCall
<1>8. AnswerInv'
  <2>1. ASSUME NEW t \in Sockets, net.peer[t] \in Pads
        PROVE  \/ AnswersIn(net'.from[t]) = AnswersIn(net.from[t])
               \/ net'.to[t] = <<>> /\ \E z : AnswersIn(net'.from[t]) = {z}
    <3>1. net.peer[t] # Nobody
      BY <2>1, ClientsAssumption DEF ClientsAssumption
    <3> QED BY <1>3, <1>6, <1>7, <2>1, <3>1
  <2> QED BY <1>3, <1>4, <2>1, TurnAnswers
<1>9. Known' = Known /\ SameCalls
  BY <1>1 DEF SameEntries, Known, SameCalls
<1>10. CASE SameAnswers(net, net')
  BY <1>3, <1>8, <1>9, <1>10, NobodyHears, Stutters DEF Dispatches
<1>11. CASE ~SameAnswers(net, net')
  <2>0. PICK p : p = net.peer[s]
    OBVIOUS
  <2>1. AnswersIn(net'.from[s]) = AnswersIn(net.from[s]) \union {m} /\ p # Nobody
    BY <1>6, <1>11, <2>0 DEF SameAnswers
  <2>2. \A t \in Sockets \ {s} :
          net.peer[t] # Nobody => AnswersIn(net'.from[t]) = AnswersIn(net.from[t])
    BY <1>6
  <2>3. ASSUME NEW q \in Pads, q # p PROVE AbstractAnswer(q)' = AbstractAnswer(q)
    <3>1. HeldBy(q)' = HeldBy(q)
      BY <1>3 DEF HeldBy
    <3>2. \A t \in HeldBy(q) : AnswersIn(net'.from[t]) = AnswersIn(net.from[t])
      BY <2>0, <2>2, <2>3, ClientsAssumption DEF HeldBy, ClientsAssumption
    <3> QED BY <3>1, <3>2, NothingHeard
  <2>4. CASE p \notin Pads
    BY <1>8, <1>9, <2>3, <2>4, Stutters DEF Dispatches
  <2>5. CASE p \in Pads
    <3>1. /\ HeldBy(p) = {s} /\ SocketOf(p) = s /\ pad[p].phase = "waiting"
          /\ Answers(p) = {}
      BY <1>7, <2>0, <2>5, PadHolds
    <3>2. AbstractAnswer(p) = "pending"
      BY <3>1, Outcomes DEF AbstractAnswer
    <3>3. AbstractAnswer(p)' = Outcome("waiting", {m})
      <4>1. HeldBy(p)' = {s} /\ SocketOf(p)' = s
        <5>1. {t \in Sockets : net'.peer[t] = p} = {s}
          BY <1>3, <3>1 DEF HeldBy
        <5>2. HeldBy(p)' = {t \in Sockets : net'.peer[t] = p}
          BY <1>3 DEF HeldBy
        <5>3. HeldBy(p)' = {s}
          BY <5>1, <5>2
        <5> QED BY <5>3, MinOfOne DEF SocketOf, Sockets
      <4>2. AnswersIn(net'.from[s]) = {m}
        BY <1>7, <2>0, <2>1, <2>5
      <4> QED BY <3>1, <4>1, <4>2 DEF AbstractAnswer, Answers
    <3>4. \/ AbstractAnswer(p)' = "UNAVAILABLE"
          \/ /\ AbstractAnswer(p)' \in Known
             /\ BothFloors(AbstractAnswer(p)', pad[p].call)
      <4>1. CASE m = Unavailable
        BY <3>3, <4>1, Outcomes
      <4>2. ASSUME NEW c \in Known \intersect Cars, m = CarAnswer(c),
                   {Head(net.to[s]).source, Head(net.to[s]).dest}
                     \subseteq Shaft[c][1] .. Shaft[c][2]
            PROVE  AbstractAnswer(p)' = c /\ BothFloors(c, pad[p].call)
        <5>1. AbstractAnswer(p)' = c
          BY <3>3, <4>2, Outcomes
        <5>2. /\ Head(net.to[s]).source = pad[p].call[1]
              /\ Head(net.to[s]).dest = pad[p].call[2]
          <6>1. Head(net.to[s]) = CallMessage(pad[p].call[1], pad[p].call[2])
            BY <1>7, <2>0, <2>5 DEF CallOf
          <6> QED BY <6>1 DEF CallMessage
        <5> QED BY <4>2, <5>1, <5>2 DEF BothFloors
      <4> QED BY <1>2, <4>1, <4>2
    <3>5. SameAnswerBut(p)
      BY <2>3 DEF SameAnswerBut
    <3> QED BY <1>8, <1>9, <2>5, <3>2, <3>4, <3>5, Responds DEF Dispatches
  <2> QED BY <2>4, <2>5
<1> QED BY <1>10, <1>11

(* The first in line is accepted, with its call if it is a pad.            *)
LEMMA SelectStep ==
  ASSUME Good, UNCHANGED <<cars, pad>>, Select
  PROVE  Dispatches /\ AnswerInv'
<1> USE DEF Good, AnswerInv
<1>1. Known' = Known /\ SameCalls /\ Phases' /\ \A p \in Pads : CallOf(p)' = CallOf(p)
  BY DEF Known, SameCalls, Phases, CallOf
<1>2. CASE net.backlog = <<>>
  <2>1. /\ net'.peer = net.peer /\ net'.backlog = net.backlog /\ net'.to = net.to
        /\ net'.from = net.from /\ net'.link = net.link
    BY <1>2 DEF Select, Accepted, TypeInv, Sound, Nets, NetsOf
  <2>2. Silent(net') /\ SameAnswers(net, net')
    BY <2>1 DEF Silent, SameAnswers
  <2>3. OneCall' /\ LineCalls' /\ AnsweredOnce'
    BY <1>1, <2>1 DEF OneCall, LineCalls, AnsweredOnce
  <2> QED BY <1>1, <2>1, <2>2, <2>3, NobodyHears, Stutters DEF Dispatches
<1>3. CASE net.backlog # <<>>
  <2> DEFINE B == [client : Client, messages : Seq(Messages)]
  <2>1. PICK f \in Sockets, b \in B :
          /\ net.link[f] = "free" /\ net.peer[f] = Nobody
          /\ 1 \in DOMAIN net.backlog /\ b = net.backlog[1]
          /\ \A i \in DOMAIN net'.backlog :
               /\ i \in Nat /\ i + 1 \in DOMAIN net.backlog /\ i + 1 # 1
               /\ net'.backlog[i] = net.backlog[i + 1]
          /\ net'.link[f] = "open" /\ net'.peer[f] = b.client /\ net'.to[f] = b.messages
          /\ \A s \in Sockets \ {f} : /\ net'.link[s] = net.link[s]
                                     /\ net'.peer[s] = net.peer[s]
                                     /\ net'.to[s] = net.to[s]
          /\ net'.from = net.from /\ net'.ready = Waiting /\ net.ready = {}
    BY <1>3, AcceptedOn
  <2>2. net'.from[f] = <<>> /\ Silent(net')
    BY <2>1 DEF Silent
  <2>3. b.client \in Pads => b.messages = CallOf(b.client)
    BY <2>1 DEF LineCalls
  <2>4. OneCall'
    <3> SUFFICES ASSUME NEW s \in Sockets, net'.peer[s] \in Pads
                 PROVE  \/ net'.to[s] = <<>>
                        \/ /\ net'.to[s] = CallOf(net'.peer[s])
                           /\ AnswersIn(net'.from[s]) = {}
      BY DEF OneCall, CallOf
    <3>1. CASE s = f
      BY <2>1, <2>2, <2>3, <3>1, AnswersOfNone
    <3>2. CASE s # f
      BY <2>1, <3>2 DEF OneCall
    <3> QED BY <3>1, <3>2
  <2>5. LineCalls'
    BY <2>1 DEF LineCalls, CallOf
  <2>6. AnsweredOnce'
    <3> SUFFICES ASSUME NEW s \in Sockets, net'.peer[s] \in Pads,
                        NEW x \in AnswersIn(net'.from[s]), NEW y \in AnswersIn(net'.from[s])
                 PROVE  x = y
      BY DEF AnsweredOnce
    <3>1. s # f
      BY <2>2, AnswersOfNone
    <3>2. net'.peer[s] = net.peer[s] /\ net'.from[s] = net.from[s]
      BY <2>1, <3>1
    <3> HIDE DEF Good
    <3>3. AnsweredOnce
      BY DEF Good
    <3> QED BY <3>2, <3>3 DEF AnsweredOnce
  <2>7. ASSUME NEW p \in Pads PROVE AbstractAnswer(p)' = AbstractAnswer(p)
    <3>1. CASE p # b.client
      <4>1. HeldBy(p)' = HeldBy(p)
        BY <2>1, <3>1, ClientsAssumption DEF HeldBy, ClientsAssumption
      <4> QED BY <2>1, <4>1, NothingHeard DEF HeldBy
    <3>2. CASE p = b.client
      <4>1. HeldBy(p) = {}
        BY <2>1, <3>2 DEF ListInv, Ordered, OneInLine, HeldBy
      <4>2. pad[p].phase = "waiting" /\ pad[p].answer = NoAnswer
        BY <2>1, <3>2 DEF PadsAbsent, Absent, InBacklog, Phases
      <4>3. Answers(p) = {}
        <5>1. {x \in {NoAnswer} : x.kind \in {"CAR", "UNAVAILABLE"}} = {}
          BY DEF NoAnswer
        <5> QED BY <4>1, <4>2, <5>1, AnswersOfOne DEF Answers
      <4>4. HeldBy(p)' = {f}
        <5>1. {t \in Sockets : net'.peer[t] = p} = {f}
          BY <2>1, <3>2, <4>1 DEF HeldBy
        <5> QED BY <5>1 DEF HeldBy
      <4>5. Answers(p)' = {}
        <5>1. SocketOf(p)' = f
          BY <4>4, MinOfOne DEF SocketOf, Sockets
        <5> QED BY <2>2, <4>4, <5>1, AnswersOfNone DEF Answers
      <4> QED BY <4>3, <4>5 DEF AbstractAnswer
    <3> QED BY <3>1, <3>2
  <2> QED BY <1>1, <2>2, <2>4, <2>5, <2>6, <2>7, Stutters DEF Dispatches
<1> QED BY <1>2, <1>3

-----------------------------------------------------------------------------
(* The clients.                                                            *)

(* A client that joins the line leaves the calls in it as they are.        *)
LEMMA JoinedLine ==
  ASSUME Good, NEW x, NEW messages, net' = Dialled(x, messages), Absent(x),
         \A p \in Pads \ {x} : pad'[p] = pad[p],
         x \in Pads => messages = CallOf(x)'
  PROVE  LineCalls'
<1> DEFINE b == [client |-> x, messages |-> messages]
<1>1. net'.backlog = Append(net.backlog, b)
  BY DEF Dialled, Good, TypeInv, Sound, Nets, NetsOf
<1>2. b.client = x /\ b.messages = messages
  OBVIOUS
<1> HIDE DEF b
<1> SUFFICES ASSUME NEW p \in Pads, NEW i \in DOMAIN net'.backlog,
                    net'.backlog[i].client = p
             PROVE  net'.backlog[i].messages = CallOf(p)'
  BY DEF LineCalls, CallOf
<1>3. \/ i = Len(net.backlog) + 1 /\ net'.backlog[i] = b
      \/ i \in DOMAIN net.backlog /\ net'.backlog[i] = net.backlog[i]
  <2> DEFINE B == [client : Client, messages : Seq(Messages)]
  <2>1. net.backlog \in Seq(B)
    BY DEF Good, TypeInv, Sound, Nets, NetsOf
  <2> HIDE DEF B
  <2>2. net.backlog \in Seq(B \union {b}) /\ Len(net.backlog) \in Nat
    BY <2>1, ElementOfSeq, LenProperties
  <2> QED BY <1>1, <2>2, AppendProperties, LenProperties
<1>4. CASE net'.backlog[i] = b
  BY <1>2, <1>4
<1>5. CASE i \in DOMAIN net.backlog /\ net'.backlog[i] = net.backlog[i]
  <2>1. net.backlog[i].client # x
    BY <1>5 DEF Absent, InBacklog
  <2> QED BY <1>5, <2>1 DEF Good, AnswerInv, LineCalls, CallOf
<1> QED BY <1>3, <1>4, <1>5

(* The pads that are neither heard of nor spoken to.                       *)
LEMMA OthersKeep ==
  ASSUME Good, NEW p \in Pads, pad'[p] = pad[p],
         \A t \in Sockets :
           net.peer[t] = p \/ net'.peer[t] = p =>
             net'.peer[t] = net.peer[t] /\ net'.from[t] = net.from[t]
  PROVE  AbstractAnswer(p)' = AbstractAnswer(p)
<1>1. HeldBy(p)' = HeldBy(p)
  BY DEF HeldBy
<1> QED BY <1>1, NothingHeard DEF HeldBy

(* Cars have no part in calls.                                             *)
LEMMA CarStep ==
  ASSUME Good, UNCHANGED <<cars, pad>>, NEW c \in Cars,
         CarRegisters(c) \/ CarReports(c) \/ CarLeaves(c)
  PROVE  Dispatches /\ AnswerInv'
<1> USE DEF Good, AnswerInv
<1>1. Known' = Known /\ SameCalls /\ Phases' /\ \A p \in Pads : CallOf(p)' = CallOf(p)
  BY DEF Known, SameCalls, Phases, CallOf
<1>2. c \in Client /\ c \notin Pads /\ Nobody \notin Pads
  BY ClientsAssumption DEF Client, ClientsAssumption
<1>3. /\ Silent(net') /\ LineCalls'
      /\ \A t \in Sockets :
           net.peer[t] \in Pads \/ net'.peer[t] \in Pads =>
             /\ net'.peer[t] = net.peer[t] /\ net'.to[t] = net.to[t]
             /\ net'.from[t] = net.from[t]
  <2>1. CASE CarRegisters(c)
    <3>1. PICK q : net' = Dialled(c, q) /\ Absent(c)
      BY <2>1 DEF CarRegisters
    <3>2. LineCalls'
      BY <1>2, <3>1, JoinedLine
    <3>3. /\ net'.peer = net.peer /\ net'.to = net.to /\ net'.from = net.from
          /\ net'.link = net.link
      BY <3>1 DEF Dialled, TypeInv, Sound, Nets, NetsOf
    <3> QED BY <3>2, <3>3 DEF Silent
  <2> DEFINE s == SocketOf(c)
  <2>2. CASE CarReports(c)
    <3>1. s \in Sockets /\ net.peer[s] = c
      BY <1>2, <2>2, SocketHeldOpen DEF TypeInv, CarReports
    <3>2. PICK r : net' = [net EXCEPT !.to[s] = Append(@, r)]
      BY <2>2 DEF CarReports
    <3> HIDE DEF s
    <3>3. /\ net'.peer = net.peer /\ net'.from = net.from /\ net'.link = net.link
          /\ net'.backlog = net.backlog
          /\ \A t \in Sockets \ {s} : net'.to[t] = net.to[t]
      BY <3>1, <3>2 DEF TypeInv, Sound, Nets, NetsOf
    <3> QED BY <1>1, <1>2, <3>1, <3>3 DEF Silent, LineCalls
  <2>3. CASE CarLeaves(c)
    <3>1. s \in Sockets /\ net.peer[s] = c
      BY <1>2, <2>3, SocketHeldOpen DEF TypeInv, CarLeaves
    <3>2. PICK unread : net' = Abandoned([net EXCEPT !.from[s] = unread], s)
      BY <2>3 DEF CarLeaves
    <3> HIDE DEF s
    <3>3. /\ net'.backlog = net.backlog /\ net'.to = net.to
          /\ net'.peer = [net.peer EXCEPT ![s] = Nobody]
          /\ net'.from[s] = <<>>
          /\ \A t \in Sockets \ {s} :
               net'.from[t] = net.from[t] /\ net'.link[t] = net.link[t]
      BY <3>1, <3>2 DEF Abandoned, TypeInv, Sound, Nets, NetsOf
    <3>4. net'.peer[s] = Nobody /\ \A t \in Sockets \ {s} : net'.peer[t] = net.peer[t]
      BY <3>1, <3>3 DEF TypeInv, Sound, Nets, NetsOf
    <3> QED BY <1>1, <1>2, <3>1, <3>3, <3>4 DEF Silent, LineCalls
  <2> QED BY <2>1, <2>2, <2>3
<1>4. OneCall' /\ AnsweredOnce'
  BY <1>1, <1>3 DEF OneCall, AnsweredOnce
<1>5. \A p \in Pads : AbstractAnswer(p)' = AbstractAnswer(p)
  BY <1>3, OthersKeep
<1> QED BY <1>1, <1>3, <1>4, <1>5, Stutters DEF Dispatches

(* What a pad that is not connected has been answered.                     *)
LEMMA Unconnected ==
  ASSUME NEW p \in Pads, HeldBy(p)' = {}
  PROVE  Answers(p)' = {x \in {pad'[p].answer} : x.kind \in {"CAR", "UNAVAILABLE"}}
<1>1. AnswersIn(<<pad'[p].answer>>) =
        {x \in {pad'[p].answer} : x.kind \in {"CAR", "UNAVAILABLE"}}
  BY AnswersOfOne
<1> QED BY <1>1 DEF Answers

(* A pad asks once, when it is not connected.                              *)
LEMMA PadCallStep ==
  ASSUME Good, UNCHANGED cars, NEW p \in Pads, PadCalls(p)
  PROVE  Dispatches /\ AnswerInv'
<1> USE DEF Good, AnswerInv
<1>1. PICK c \in Calls[p] :
        /\ net' = Dialled(p, <<CallMessage(c[1], c[2])>>)
        /\ pad' = [pad EXCEPT ![p] = [NewPad EXCEPT !.phase = "waiting", !.call = c]]
  BY DEF PadCalls
<1>2. /\ pad'[p].phase = "waiting" /\ pad'[p].call = c /\ pad'[p].answer = NoAnswer
      /\ \A q \in Pads \ {p} : pad'[q] = pad[q]
  <2> DEFINE e == [NewPad EXCEPT !.phase = "waiting", !.call = c]
  <2>1. e.phase = "waiting" /\ e.call = c /\ e.answer = NoAnswer
    BY DEF NewPad
  <2>2. pad' = [pad EXCEPT ![p] = e]
    BY <1>1
  <2> HIDE DEF e
  <2> QED BY <2>1, <2>2 DEF PadsTyped
<1>3. Absent(p) /\ pad[p].call = <<>>
  BY DEF PadCalls, PadsAbsent, Phases
<1>4. /\ net'.peer = net.peer /\ net'.to = net.to /\ net'.from = net.from
      /\ net'.link = net.link
  BY <1>1 DEF Dialled, TypeInv, Sound, Nets, NetsOf
<1>5. \A t \in Sockets : net.peer[t] # p
  BY <1>3 DEF Absent, HeldBy
<1>6. AnswerInv'
  <2>1. Silent(net')
    BY <1>4 DEF Silent
  <2>2. OneCall' /\ AnsweredOnce'
    BY <1>2, <1>4, <1>5 DEF OneCall, AnsweredOnce, CallOf
  <2>3. LineCalls'
    <3>1. <<CallMessage(c[1], c[2])>> = CallOf(p)'
      BY <1>2 DEF CallOf
    <3> QED BY <1>1, <1>2, <1>3, <3>1, JoinedLine
  <2>4. Phases'
    BY <1>2 DEF Phases
  <2> QED BY <2>1, <2>2, <2>3, <2>4
<1>7. AbstractAnswer(p)' = "pending"
  <2>1. HeldBy(p)' = {}
    BY <1>4, <1>5 DEF HeldBy
  <2>2. Answers(p)' = {}
    BY <1>2, <2>1, Unconnected DEF NoAnswer
  <2> QED BY <1>2, <2>2, Outcomes DEF AbstractAnswer
<1>8. SameAnswerBut(p)
  BY <1>2, <1>4, OthersKeep DEF SameAnswerBut
<1>9. Known' = Known /\ \A q \in Pads : pad'[q].call = IF q = p THEN c ELSE pad[q].call
  BY <1>2 DEF Known
<1> QED BY <1>3, <1>6, <1>7, <1>8, <1>9, Asks DEF Dispatches

(* The one answer a pad can be sent.                                       *)
LEMMA PadOutcome ==
  ASSUME Good, NEW p \in Pads, NEW s \in Sockets, net.peer[s] = p
  PROVE  \/ Answers(p) = {} /\ AbstractAnswer(p) = "pending"
         \/ \E m \in Replies :
              /\ Answers(p) = {m} /\ AbstractAnswer(p) \notin {"unasked", "left"}
              /\ AbstractAnswer(p) = Outcome("done", {m})
<1>1. Answers(p) = AnswersIn(net.from[s]) /\ pad[p].phase = "waiting"
  BY PadHolds
<1>2. CASE Answers(p) = {}
  BY <1>1, <1>2, Outcomes DEF AbstractAnswer
<1>3. ASSUME NEW m \in Answers(p)
      PROVE  /\ m \in Replies /\ Answers(p) = {m}
             /\ AbstractAnswer(p) \notin {"unasked", "left"}
             /\ AbstractAnswer(p) = Outcome("done", {m})
  <2>1. Answers(p) = {m}
    BY <1>1, <1>3 DEF Good, AnswerInv, AnsweredOnce
  <2>2. m \in Replies /\ m.kind \in {"CAR", "UNAVAILABLE"}
    <3>1. net.from[s] \in Seq(Replies)
      BY DEF Good, TypeInv, Sound, Nets, NetsOf
    <3>2. PICK k \in DOMAIN net.from[s] : m = net.from[s][k]
      BY <1>1, <1>3 DEF AnswersIn, ToSet
    <3>3. k \in 1 .. Len(net.from[s])
      BY <3>1, LenProperties
    <3> QED BY <1>1, <1>3, <3>1, <3>2, <3>3, ElementOfSeq DEF AnswersIn
  <2>3. m = Unavailable \/ \E c \in Cars : m = CarAnswer(c)
    BY <2>2 DEF Replies, CarAnswer
  <2>4. CASE m = Unavailable
    BY <1>1, <2>1, <2>2, <2>4, Outcomes DEF AbstractAnswer
  <2>5. ASSUME NEW c \in Cars, m = CarAnswer(c)
        PROVE  /\ AbstractAnswer(p) \notin {"unasked", "left"}
               /\ AbstractAnswer(p) = Outcome("done", {m})
    <3>1. AbstractAnswer(p) = c /\ Outcome("done", {m}) = c
      BY <1>1, <2>1, <2>5, Outcomes DEF AbstractAnswer
    <3> QED BY <3>1, NamesAssumption DEF NamesAssumption
  <2> QED BY <2>1, <2>2, <2>3, <2>4, <2>5
<1> QED BY <1>2, <1>3

(* A pad that closes its socket: what it read last is what it was told.    *)
LEMMA PadEndStep ==
  ASSUME Good, UNCHANGED cars, NEW p \in Pads, PadReceives(p) \/ PadQuits(p)
  PROVE  Dispatches /\ AnswerInv'
<1> USE DEF Good, AnswerInv
<1> DEFINE s == SocketOf(p)
<1>1. s \in Sockets /\ net.peer[s] = p
  BY SocketHeldOpen DEF TypeInv, PadReceives, PadQuits, Client
<1>2. /\ HeldBy(p) = {s} /\ pad[p].phase = "waiting"
      /\ Answers(p) = AnswersIn(net.from[s])
  BY <1>1, PadHolds
<1>3. /\ net'.backlog = net.backlog /\ net'.to = net.to
      /\ net'.peer = [net.peer EXCEPT ![s] = Nobody] /\ net'.from[s] = <<>>
      /\ \A t \in Sockets \ {s} :
           net'.from[t] = net.from[t] /\ net'.link[t] = net.link[t]
  <2>1. PICK q : net' = Abandoned([net EXCEPT !.from[s] = q], s)
    <3>1. CASE PadReceives(p)
      BY <3>1 DEF PadReceives
    <3>2. CASE PadQuits(p)
      <4>1. net = [net EXCEPT !.from[s] = net.from[s]]
        BY DEF TypeInv, Sound, Nets, NetsOf
      <4> QED BY <3>2, <4>1 DEF PadQuits
    <3> QED BY <3>1, <3>2
  <2> HIDE DEF s
  <2> QED BY <1>1, <2>1 DEF Abandoned, TypeInv, Sound, Nets, NetsOf
<1>4. /\ pad'[p].phase = "done" /\ pad'[p].call = pad[p].call
      /\ PadReceives(p) => pad'[p].answer = Head(net.from[s])
      /\ PadQuits(p) => pad'[p].answer = NoAnswer
      /\ \A q \in Pads \ {p} : pad'[q] = pad[q]
  BY <1>2 DEF PadReceives, PadQuits, PadsTyped, Phases
<1>5. PadReceives(p) => net.from[s] # <<>>
  BY DEF PadReceives
<1> HIDE DEF s
<1>6. net'.peer[s] = Nobody /\ \A t \in Sockets \ {s} : net'.peer[t] = net.peer[t]
  BY <1>1, <1>3 DEF TypeInv, Sound, Nets, NetsOf
<1>7. Nobody \notin Pads
  BY ClientsAssumption DEF ClientsAssumption
<1>8. Known' = Known /\ SameCalls /\ Phases' /\ \A q \in Pads : CallOf(q)' = CallOf(q)
  BY <1>2, <1>4 DEF Known, SameCalls, Phases, CallOf
<1>9. AnswerInv'
  <2>1. Silent(net')
    BY <1>3 DEF Silent
  <2>2. \A t \in Sockets : net'.peer[t] \in Pads => t # s
    BY <1>6, <1>7
  <2>3. OneCall'
    BY <1>3, <1>6, <1>8, <2>2 DEF OneCall, CallOf, SameCalls
  <2>4. LineCalls'
    BY <1>3, <1>8 DEF LineCalls, CallOf, SameCalls
  <2>5. AnsweredOnce'
    BY <1>3, <1>6, <2>2 DEF AnsweredOnce
  <2> QED BY <1>8, <2>1, <2>3, <2>4, <2>5
<1>10. SameAnswerBut(p)
  <2>1. ASSUME NEW q \in Pads \ {p} PROVE AbstractAnswer(q)' = AbstractAnswer(q)
    BY <1>1, <1>3, <1>4, <1>6, <1>7, OthersKeep
  <2> QED BY <2>1 DEF SameAnswerBut
<1>11. Answers(p)' = {x \in {pad'[p].answer} : x.kind \in {"CAR", "UNAVAILABLE"}}
  <2>1. HeldBy(p)' = {}
    BY <1>2, <1>6, <1>7 DEF HeldBy
  <2> QED BY <2>1, Unconnected
<1>12. CASE Answers(p)' = {}
  <2>1. AbstractAnswer(p)' = "left"
    BY <1>4, <1>12, Outcomes DEF AbstractAnswer
  <2>2. AbstractAnswer(p) \notin {"unasked", "left"}
    BY <1>1, PadOutcome
  <2> QED BY <1>8, <1>9, <1>10, <2>1, <2>2, Leaves DEF Dispatches
<1>13. CASE Answers(p)' # {}
  <2> DEFINE m == Head(net.from[s])
  <2>1. PadReceives(p) /\ pad'[p].answer = m
    BY <1>4, <1>11, <1>13 DEF NoAnswer
  <2>2. Answers(p)' = {m} /\ m \in Answers(p)
    <3>1. m.kind \in {"CAR", "UNAVAILABLE"} /\ Answers(p)' = {m}
      BY <1>11, <1>13, <2>1
    <3>2. m \in ToSet(net.from[s])
      <4>1. net.from[s] \in Seq(Replies) /\ net.from[s] # <<>>
        BY <1>1, <1>5, <2>1 DEF TypeInv, Sound, Nets, NetsOf
      <4>2. m = net.from[s][1] /\ 1 \in DOMAIN net.from[s]
        BY <4>1, EmptySeq, LenProperties
      <4> QED BY <4>2 DEF ToSet
    <3> QED BY <1>2, <3>1, <3>2 DEF AnswersIn
  <2> HIDE DEF m
  <2>3. AbstractAnswer(p) = Outcome("done", {m})
    BY <1>1, <2>2, PadOutcome
  <2>4. AbstractAnswer(p)' = AbstractAnswer(p)
    BY <1>4, <2>2, <2>3 DEF AbstractAnswer
  <2>5. \A q \in Pads : AbstractAnswer(q)' = AbstractAnswer(q)
    BY <1>10, <2>4 DEF SameAnswerBut
  <2> QED BY <1>8, <1>9, <2>5, Stutters DEF Dispatches
<1> QED BY <1>12, <1>13

-----------------------------------------------------------------------------
(* The theorem.                                                            *)

(* At first nobody has asked.                                              *)
LEMMA InitDispatches == Init => AnswerInv /\ D!Init
<1> HAVE Init
<1>1. /\ cars = <<>> /\ net.backlog = <<>>
      /\ \A s \in Sockets : net.peer[s] = Nobody /\ net.from[s] = <<>> /\ net.to[s] = <<>>
  BY DEF Init, controller_init, NoConnections
<1>2. \A p \in Pads : /\ pad[p].phase = "idle" /\ pad[p].call = <<>>
                      /\ pad[p].answer = NoAnswer
  BY DEF Init, pad_init, NewPad
<1>3. Nobody \notin Pads
  BY ClientsAssumption DEF ClientsAssumption
<1>4. AnswerInv
  BY <1>1, <1>2, <1>3 DEF AnswerInv, Silent, OneCall, LineCalls, AnsweredOnce, Phases
<1>5. ASSUME NEW p \in Pads PROVE AbstractAnswer(p) = "unasked"
  <2>1. HeldBy(p) = {}
    BY <1>1, <1>3 DEF HeldBy
  <2>2. Answers(p) = AnswersIn(<<NoAnswer>>)
    BY <1>2, <2>1 DEF Answers
  <2>3. {x \in {NoAnswer} : x.kind \in {"CAR", "UNAVAILABLE"}} = {}
    BY DEF NoAnswer
  <2>4. Answers(p) = {}
    BY <2>2, <2>3, AnswersOfOne
  <2> QED BY <1>2, <2>4, Outcomes DEF AbstractAnswer
<1>6. D!Init
  <2>1. {cars[k].name : k \in DOMAIN cars} = {}
    BY <1>1
  <2> QED BY <1>2, <1>5, <2>1 DEF D!Init, D!NoCall, D!Unasked
<1> QED BY <1>4, <1>6

(* Every step is a step of Dispatch, or none.                              *)
LEMMA StepDispatches == Good /\ [Next]_vars => Dispatches /\ AnswerInv'
<1> SUFFICES ASSUME Good, [Next]_vars PROVE Dispatches /\ AnswerInv'
  OBVIOUS
<1>1. CASE Handle
  <2>1. CASE Select /\ UNCHANGED cars
    BY <1>1, <2>1, SelectStep DEF Handle, clientVars
  <2>2. ASSUME NEW s \in Sockets, HandleSocket(s) PROVE Dispatches /\ AnswerInv'
    BY <1>1, <2>2, MessageStep, EndStep, CallStep DEF Handle, clientVars, HandleSocket
  <2> QED BY <1>1, <2>1, <2>2 DEF Handle, Serve
<1>2. ASSUME NEW c \in Cars, CarRegisters(c) \/ CarReports(c) \/ CarLeaves(c)
      PROVE  Dispatches /\ AnswerInv'
  BY <1>2, CarStep DEF CarRegisters, CarReports, CarLeaves, clientVars
<1>3. ASSUME NEW p \in Pads, PadStep(p) PROVE Dispatches /\ AnswerInv'
  <2>1. UNCHANGED cars
    BY <1>3 DEF PadStep, PadCalls, PadReceives, PadQuits
  <2> QED BY <1>3, <2>1, PadCallStep, PadEndStep DEF PadStep
<1>4. CASE UNCHANGED vars
  <2>1. UNCHANGED <<cars, net, pad>>
    BY <1>4 DEF vars, controllerVars, clientVars
  <2>2. Known' = Known /\ SameCalls /\ \A p \in Pads : AbstractAnswer(p)' = AbstractAnswer(p)
    BY <2>1, OthersKeep DEF Known, SameCalls
  <2>3. AnswerInv'
    BY <2>1 DEF Good, AnswerInv, Silent, OneCall, LineCalls, AnsweredOnce, Phases, CallOf
  <2> QED BY <2>2, <2>3, Stutters DEF Dispatches
<1> QED BY <1>1, <1>2, <1>3, <1>4 DEF Next

(* The controller and its clients do what Dispatch says: a call is         *)
(* answered at most once, the answer stands, and a car that                *)
(* handle_elevator_call names is in the list and goes to both floors.      *)
THEOREM DispatchImplemented == Spec => ImplementsDispatch
<1>1. Init => AnswerInv /\ D!Init
  BY InitDispatches
<1>2. (TypeInv /\ ListInv /\ PadsTyped /\ PadsAbsent) /\ AnswerInv /\ [Next]_vars
        => AnswerInv' /\ [D!Next]_(D!vars)
  BY StepDispatches DEF Good, Dispatches
<1> QED BY <1>1, <1>2, ListingKept, PTL DEF Spec, ImplementsDispatch, D!Spec
=============================================================================
