------------------------------ MODULE CallPad -------------------------------
(***************************************************************************)
(* A call pad (src/call.c): a process that connects, asks for one trip,    *)
(* prints one message and ends.  Each pad is one run of the program.       *)
(***************************************************************************)
EXTENDS Controller

CONSTANTS
  Pads,          \* runs of the call program
  Calls          \* Calls[p]: the <<source, destination>> pad p may ask for

VARIABLE pad     \* Pads -> [phase, call, answer]

(* Two equal floors are refused before the pad connects.                   *)
PadAssumption ==
  Calls \in [Pads -> SUBSET {c \in Label \X Label : c[1] # c[2]}]
ASSUME PadAssumption

NoAnswer == [kind |-> "none"]

NewPad == [phase |-> "idle", call |-> <<>>, answer |-> NoAnswer]

pad_init == pad = [p \in Pads |-> NewPad]

(* Connect and send the request.                                           *)
PadCalls(p) ==
  /\ net.up /\ Room /\ pad[p].phase = "idle"
  /\ \E c \in Calls[p] :
       /\ net' = Dialled(p, <<CallMessage(c[1], c[2])>>)
       /\ pad' = [pad EXCEPT ![p] = [NewPad EXCEPT !.phase = "waiting", !.call = c]]
  /\ UNCHANGED cars

(* One message is read, whatever it is, and the socket closed.             *)
PadReceives(p) ==
  /\ net.up /\ HeldBy(p) # {} /\ net.from[SocketOf(p)] # <<>>
  /\ pad' = [pad EXCEPT ![p].phase = "done", ![p].answer = Head(net.from[SocketOf(p)])]
  /\ net' = Abandoned([net EXCEPT !.from[SocketOf(p)] = Tail(@)], SocketOf(p))
  /\ UNCHANGED cars

(* handle_sigint of call.c.                                                *)
PadQuits(p) ==
  /\ net.up /\ HeldBy(p) # {}
  /\ pad' = [pad EXCEPT ![p].phase = "done"]
  /\ net' = Abandoned(net, SocketOf(p))
  /\ UNCHANGED cars

PadStep(p) == PadCalls(p) \/ PadReceives(p) \/ PadQuits(p)
=============================================================================
