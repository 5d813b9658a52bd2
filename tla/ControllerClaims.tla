-------------------------- MODULE ControllerClaims --------------------------
(***************************************************************************)
(* What the repository's notes say of the controller and TLC refutes: the  *)
(* property below is violated by a behaviour of ControllerSystem.          *)
(***************************************************************************)
EXTENDS MCControllerSystem

(* What a step sends on socket s.                                          *)
SentTo(s) ==
  {net'.from[s][k] : k \in Len(net.from[s]) + 1 .. Len(net'.from[s])}

(***************************************************************************)
(* "The call pad then tells the user which elevator has been dispatched    *)
(* (so they know which one to wait by)", docs/notes.md:8.  When one step   *)
(* names a car to a pad and sends a car to a floor, they are the same car. *)
(***************************************************************************)
NamedCarIsSent ==
  [][\A named, moved \in Cars :
       /\ \E s \in Sockets : CarAnswer(named) \in SentTo(s)
       /\ \E s \in HeldBy(moved), f \in Label : FloorMessage(f) \in SentTo(s)
       => moved = named]_vars
=============================================================================
