------------------------------ MODULE Dispatch ------------------------------
(***************************************************************************)
(* What the controller promises the call pads: a call is answered at most  *)
(* once, the answer stands, and a car that is named has registered and     *)
(* goes to both floors of the call.  Cars come and go at will.             *)
(***************************************************************************)
CONSTANTS
  Pads,         \* call pads, one call each
  Cars,         \* names of cars
  Calls,        \* what may be asked
  Able(_, _)    \* Able(car, call): does this car go to both floors?

VARIABLES
  call,         \* Pads -> the call, once asked
  answer,       \* Pads -> the answer
  known         \* the cars the controller has listed

vars == <<call, answer, known>>

NoCall  == <<>>
Unasked == "unasked"
Pending == "pending"
Refused == "UNAVAILABLE"
Left    == "left"

Init ==
  /\ call = [p \in Pads |-> NoCall]
  /\ answer = [p \in Pads |-> Unasked]
  /\ known = {}

Ask(p, c) ==
  /\ call[p] = NoCall
  /\ call' = [call EXCEPT ![p] = c]
  /\ answer' = [answer EXCEPT ![p] = Pending]
  /\ UNCHANGED known

Answer(p) ==
  /\ answer[p] = Pending
  /\ \E a \in {car \in known : Able(car, call[p])} \union {Refused} :
       answer' = [answer EXCEPT ![p] = a]
  /\ UNCHANGED <<call, known>>

(* A pad stops waiting: it was told something else, or nobody is there.    *)
Leave(p) ==
  /\ answer[p] \notin {Unasked, Left}
  /\ answer' = [answer EXCEPT ![p] = Left]
  /\ UNCHANGED <<call, known>>

Register(car) == known' = known \union {car} /\ UNCHANGED <<call, answer>>

Forget(car) == known' = known \ {car} /\ UNCHANGED <<call, answer>>

Next ==
  \/ \E p \in Pads : Answer(p) \/ Leave(p) \/ \E c \in Calls : Ask(p, c)
  \/ \E car \in Cars : Register(car) \/ Forget(car)

Spec == Init /\ [][Next]_vars
=============================================================================
