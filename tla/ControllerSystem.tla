-------------------------- MODULE ControllerSystem --------------------------
(***************************************************************************)
(* The controller with its clients: cars that register, report, leave and  *)
(* come back (src/car.c), and call pads that ask once (src/call.c).        *)
(* Cars are taken from the controller's side: any car may report any of    *)
(* Reports at any time, and may go away with FLOORs unread.                *)
(***************************************************************************)
EXTENDS CallPad

CONSTANTS
  Cars,          \* the names of the cars
  Shaft,         \* Shaft[c]: its lowest and highest floor, argv[2] and argv[3]
  FirstReports,  \* the status messages of a car that connects
  Reports,       \* the messages a car may send later
  MaxConnects,   \* bound on the connections of cars
  MaxReports     \* bound on the messages of cars after registering

VARIABLES
  connects,      \* connections of cars so far
  reports        \* later messages of cars so far

clientVars == <<connects, reports, pad>>

vars == <<controllerVars, clientVars>>

EmergencyMessage == [kind |-> "EMERGENCY"]

Status == {"Opening", "Open", "Closing", "Closed", "Between"}

(* Every STATUS line a car can send, whatever it does.                     *)
StatusMessages ==
  [kind : {"STATUS"}, status : Status, currentfloor : Label, destinationfloor : Label]

ClientsAssumption ==
  /\ Cars \intersect Pads = {} /\ Nobody \notin Cars \union Pads
  /\ Shaft \in [Cars -> Label \X Label]
  /\ FirstReports \union Reports \subseteq StatusMessages \union {EmergencyMessage}
  /\ MaxConnects \in Nat /\ MaxReports \in Nat
ASSUME ClientsAssumption

Init ==
  /\ controller_init
  /\ connects = 0
  /\ reports = 0
  /\ pad_init

(* A car connects and sends CAR and its first STATUS.                      *)
CarRegisters(c) ==
  /\ net.up /\ Room /\ Absent(c) /\ connects < MaxConnects
  /\ \E r \in FirstReports :
       net' = Dialled(c, <<CarMessage(c, Shaft[c][1], Shaft[c][2]), r>>)
  /\ connects' = connects + 1
  /\ UNCHANGED <<cars, reports, pad>>

CarReports(c) ==
  /\ net.up /\ HeldBy(c) # {} /\ reports < MaxReports
  /\ \E r \in Reports :
       net' = [net EXCEPT !.to[SocketOf(c)] = Append(@, r)]
  /\ reports' = reports + 1
  /\ UNCHANGED <<cars, connects, pad>>

(* A car closes its socket, or is killed.  It has read all that was sent   *)
(* to it, or not.                                                          *)
CarLeaves(c) ==
  /\ net.up /\ HeldBy(c) # {}
  /\ \E unread \in {<<>>, net.from[SocketOf(c)]} :
       net' = Abandoned([net EXCEPT !.from[SocketOf(c)] = unread], SocketOf(c))
  /\ UNCHANGED <<cars, clientVars>>

Handle == Serve /\ UNCHANGED clientVars

Next ==
  \/ Handle
  \/ \E c \in Cars : CarRegisters(c) \/ CarReports(c) \/ CarLeaves(c)
  \/ \E p \in Pads : PadStep(p) /\ UNCHANGED <<connects, reports>>

Spec == Init /\ [][Next]_vars

(* The thread of the controller runs, and a pad reads what has come.       *)
Fairness ==
  /\ WF_vars(Handle)
  /\ \A p \in Pads : WF_vars(PadReceives(p) /\ UNCHANGED <<connects, reports>>)

FairSpec == Spec /\ Fairness

-----------------------------------------------------------------------------

(***************************************************************************)
(* A car whose registration was handled and that is still connected stays  *)
(* in the list with its own socket, whatever other clients come and go:    *)
(* entries are removed by a name that was found by a socket, and the       *)
(* oldest entry of that name goes first, so that a dead entry can only     *)
(* take an older dead one with it.                                         *)
(***************************************************************************)
Registered(c) ==
  /\ net.up /\ HeldBy(c) # {}
  /\ ~\E k \in DOMAIN net.to[SocketOf(c)] : net.to[SocketOf(c)][k].kind = "CAR"

EveryCarListed ==
  \A c \in Cars : Registered(c) =>
    \E k \in Named(c) : cars[k].connectionsocket = SocketOf(c)

(***************************************************************************)
(* What waits in the queue of an entry are floors the car of that name can *)
(* go to, however the entries, names and sockets are mixed up.             *)
(***************************************************************************)
QueuesInShaft ==
  \A k \in DOMAIN cars : \A j \in DOMAIN cars[k].queue :
    cars[k].queue[j].floor \in Shaft[cars[k].name][1] .. Shaft[cars[k].name][2]

(***************************************************************************)
(* Every pad that waits gets an answer, CAR or UNAVAILABLE, with three     *)
(* exceptions: it is interrupted before it reads anything; the controller  *)
(* is gone, because a send to a client that hung up may end it; or the pad *)
(* reads a FLOOR instead and ends.  That one was meant for a car: a pad    *)
(* whose descriptor is not that of an entry of the list gets none.         *)
(***************************************************************************)
Answered(p) == pad[p].answer \in {Unavailable} \union {CarAnswer(c) : c \in Cars}

Interrupted(p) == pad[p].phase = "done" /\ pad[p].answer = NoAnswer

Misled(p) == pad[p].answer.kind = "FLOOR"

Misdirected(p) ==
  HeldBy(p) # {} /\ \E m \in ToSet(net.from[SocketOf(p)]) : m.kind = "FLOOR"

OnEntry(p) == OnSocket(SocketOf(p)) # {}

EveryCallAnswered ==
  /\ \A p \in Pads :
       pad[p].phase = "waiting" ~> Answered(p) \/ Interrupted(p) \/ Misled(p) \/ ~net.up
  /\ [][\A p \in Pads : ~Misdirected(p) /\ Misdirected(p)' => OnEntry(p)]_vars

(***************************************************************************)
(* The controller implements Dispatch.  A call counts as answered as soon  *)
(* as the answer is under way; a FLOOR that reaches a pad, on a descriptor *)
(* that was a car's, is no answer.                                         *)
(***************************************************************************)
AnswersIn(messages) == {m \in ToSet(messages) : m.kind \in {"CAR", "UNAVAILABLE"}}

Answers(p) ==
  AnswersIn(IF HeldBy(p) # {} THEN net.from[SocketOf(p)] ELSE <<pad[p].answer>>)

(* What has become of a call, from the phase of the pad and the answers.   *)
Outcome(phase, answers) ==
  CASE phase = "idle"                                  -> "unasked"
    [] phase = "waiting" /\ answers = {}               -> "pending"
    [] phase = "done" /\ answers = {}                  -> "left"
    [] \E c \in Cars : CarAnswer(c) \in answers        ->
         CHOOSE c \in Cars : CarAnswer(c) \in answers
    [] OTHER                                           -> "UNAVAILABLE"

AbstractAnswer(p) == Outcome(pad[p].phase, Answers(p))

(* No car has the name of another outcome.                                 *)
NamesAssumption == Cars \intersect {"unasked", "pending", "UNAVAILABLE", "left"} = {}
ASSUME NamesAssumption

BothFloors(car, call) == {call[1], call[2]} \subseteq Shaft[car][1] .. Shaft[car][2]

D == INSTANCE Dispatch WITH
  Calls  <- UNION {Calls[p] : p \in Pads},
  Able   <- BothFloors,
  call   <- [p \in Pads |-> pad[p].call],
  answer <- [p \in Pads |-> AbstractAnswer(p)],
  known  <- {cars[k].name : k \in DOMAIN cars}

ImplementsDispatch == D!Spec
=============================================================================
