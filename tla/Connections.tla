---------------------------- MODULE Connections -----------------------------
(***************************************************************************)
(* The TCP connections of the controller (src/controller.c), from its end: *)
(* descriptors, what has arrived on them and what was sent, the rounds of  *)
(* select, and what happens to a send or a receive once the other end has  *)
(* been closed.                                                            *)
(*                                                                         *)
(* A client that closes a socket with data it has not read resets the      *)
(* connection; otherwise it hangs up in order.  What it sent before can be *)
(* received in both cases.  The controller does not ignore SIGPIPE, so a   *)
(* send after a hang-up may end it, depending on whether the answer of the *)
(* closed end has come back yet.                                           *)
(*                                                                         *)
(* The first messages of a client are there when it is accepted: one that  *)
(* sends them later is one that connects later.                            *)
(***************************************************************************)
EXTENDS Integers, Sequences, FiniteSetsExt

CONSTANT MaxClients       \* bound on the descriptors in use at once

VARIABLE net     \* [link, peer, to, from, backlog, ready, up]: per descriptor its
                 \* state, who holds the other end, the messages to and from the
                 \* controller; the clients not accepted yet, what is left of the
                 \* set that select returned, and whether the controller runs

Sockets == 1 .. MaxClients

ConnectionsAssumption == MaxClients \in Nat \ {0}
ASSUME ConnectionsAssumption

Link == {"free", "open", "hung_up", "reset"}

Nobody == "nobody"

NoConnections ==
  [link    |-> [s \in Sockets |-> "free"],
   peer    |-> [s \in Sockets |-> Nobody],
   to      |-> [s \in Sockets |-> <<>>],
   from    |-> [s \in Sockets |-> <<>>],
   backlog |-> <<>>,
   ready   |-> {},
   up      |-> TRUE]

Free == {s \in Sockets : net.link[s] = "free"}

-----------------------------------------------------------------------------
(* The clients' end.                                                       *)

HeldBy(client) == {s \in Sockets : net.peer[s] = client}

InBacklog(client) == \E k \in DOMAIN net.backlog : net.backlog[k].client = client

Absent(client) == HeldBy(client) = {} /\ ~InBacklog(client)

(* Meaningful when the client holds a socket.                              *)
SocketOf(client) == Min(HeldBy(client))

(* The bound: there is a descriptor for everyone in the backlog.           *)
Room == Cardinality(Free) > Len(net.backlog)

Dialled(client, messages) ==
  [net EXCEPT !.backlog = Append(@, [client |-> client, messages |-> messages])]

(* The client closes its end.                                              *)
Abandoned(n, s) ==
  [n EXCEPT !.link[s] = IF n.from[s] = <<>> THEN "hung_up" ELSE "reset",
            !.peer[s] = Nobody,
            !.from[s] = <<>>]

-----------------------------------------------------------------------------
(* The controller's end.                                                   *)

Waiting == {s \in Sockets \ Free : net.to[s] # <<>> \/ net.link[s] # "open"}

(* One client is accepted, on the lowest descriptor that is not in use.    *)
Accepted(n) ==
  IF n.backlog = <<>> THEN n
  ELSE [n EXCEPT !.link[Min(Free)] = "open",
                 !.peer[Min(Free)] = Head(n.backlog).client,
                 !.to[Min(Free)]   = Head(n.backlog).messages,
                 !.backlog         = Tail(@)]

(* A round: select returns what is ready, the listening socket comes first *)
(* and gives one new connection, which is not looked at in this round.     *)
Select ==
  /\ net.up /\ net.ready = {} /\ (Waiting # {} \/ net.backlog # <<>>)
  /\ net' = [Accepted(net) EXCEPT !.ready = Waiting]

(* The descriptors of a round are served from the lowest to the highest.   *)
Turn(s) == net.up /\ s \in net.ready /\ \A t \in net.ready : s =< t

Served(s) == [net EXCEPT !.ready = @ \ {s}]

(* The first message of socket s has been received.                        *)
Received(s) == [Served(s) EXCEPT !.to[s] = Tail(@)]

(* close() and FD_CLR by the controller.                                   *)
Closed(n, s) ==
  [n EXCEPT !.link[s] = "free", !.to[s] = <<>>, !.from[s] = <<>>]

(* The outcomes of the two sends of one message.  A failed send closes the *)
(* descriptor; on one that is closed already nothing happens.              *)
Sends(n, s, message) ==
  CASE n.up /\ n.link[s] = "open"    -> {[n EXCEPT !.from[s] = Append(@, message)]}
    [] n.up /\ n.link[s] = "hung_up" -> {n, [n EXCEPT !.up = FALSE]}
    [] n.up /\ n.link[s] = "reset"   -> {Closed(n, s)}
    [] OTHER                         -> {n}
=============================================================================
