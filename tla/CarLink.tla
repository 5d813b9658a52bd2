------------------------------ MODULE CarLink ------------------------------
(***************************************************************************)
(* tcp_communication_thread() and connect_to_server() of a car             *)
(* (src/car.c): the connection to the controller, over which the car       *)
(* registers, reports and is told floors.                                  *)
(*                                                                         *)
(* The thread keeps the shared memory locked while it sends and receives,  *)
(* so one action is one critical section: "register" up to the unlock,     *)
(* "top" up to pthread_cond_timedwait, "wait" from its timeout to the      *)
(* unlock.  Only the timeout ends that wait, because no other thread sets  *)
(* shm_send to 1.  The exception is a FLOOR that is heeded: the test of    *)
(* read_flag and the write of the destination are two actions, because the *)
(* process thread sets and clears read_flag without the lock.  Whoever     *)
(* needs the lock waits while the thread is at "heed".                     *)
(*                                                                         *)
(* The controller is the environment: it sends at most MaxRequests FLOOR   *)
(* messages, and the connection breaks at most MaxBreaks times, at any     *)
(* send or receive.  What was in flight is lost with a connection.         *)
(***************************************************************************)
EXTENDS CarProcess, Sequences

CONSTANTS
  Requests,     \* the labels the controller may send in FLOOR messages
  MaxRequests,  \* bound on the FLOOR messages sent
  MaxBreaks,    \* bound on the failures of a connection
  MaxSockets    \* the car's limit on open descriptors (RLIMIT_NOFILE)

VARIABLES
  inbox,     \* labels of FLOOR messages sent by the controller and not received
  sent,      \* the kinds of message in the car's last report to the controller
  sockets,   \* the car's open sockets
  requests,  \* FLOOR messages sent so far
  breaks     \* failures of the connection so far

linkVars == <<inbox, sent, sockets, requests, breaks>>

LinkAssumption == /\ Requests \subseteq Label
                  /\ MaxRequests \in Nat
                  /\ MaxBreaks \in Nat
                  /\ MaxSockets \in Nat \ {0}
ASSUME LinkAssumption

LinkPC == {"connect", "register", "top", "wait", "wait_closed", "heed"}

Connected == pc["tcp"] \in {"top", "wait", "heed"}

MessageKind == {"CAR", "STATUS", "EMERGENCY", "INDIVIDUAL SERVICE"}

(* connected = 0, unlock, close(clientsockfd): the way out of every failed *)
(* send and receive.                                                       *)
Hangup ==
  /\ sockets' = sockets - 1
  /\ inbox' = <<>>
  /\ Goto("tcp", "connect")

Break == breaks < MaxBreaks /\ breaks' = breaks + 1

(* connect_to_server: a socket of its own for every call, and the end of   *)
(* the process when there is none left.  connect() is repeated until the   *)
(* controller accepts.                                                     *)
Connect ==
  /\ pc["tcp"] = "connect"
  /\ IF sockets < MaxSockets
       THEN sockets' = sockets + 1 /\ Goto("tcp", "register")
       ELSE sockets' = 0 /\ pc' = [t \in Thread |-> "exited"]
  /\ UNCHANGED <<shmVars, current_status, processVars, inbox, sent, requests, breaks>>

(* CAR and STATUS, unless both modes are on: then connected stays 0 and    *)
(* the loop connects again without closing the socket it has.              *)
Register ==
  /\ pc["tcp"] = "register"
  /\ \/ /\ shm.emergency_mode = 1 /\ shm.individual_service_mode = 1
        /\ Goto("tcp", "connect")
        /\ UNCHANGED <<inbox, sent, sockets, breaks>>
     \/ /\ shm.emergency_mode # 1 \/ shm.individual_service_mode # 1
        /\ sent' = {"CAR", "STATUS"}
        /\ Goto("tcp", "top")
        /\ UNCHANGED <<inbox, sockets, breaks>>
     \/ /\ shm.emergency_mode # 1 \/ shm.individual_service_mode # 1
        /\ Break
        /\ Hangup
        /\ UNCHANGED sent
  /\ UNCHANGED <<shmVars, current_status, processVars, requests>>

(* Mutant: read_flag is not asked.                                         *)
HeedsAlways == TRUE

HeedsFloor == read_flag = 1

(* A FLOOR message is heeded only while read_flag is 1, but sets shm_send  *)
(* either way.  One to be heeded stays in the inbox until it is.           *)
ReceiveFloor ==
  IF HeedsFloor
    THEN Goto("tcp", "heed") /\ UNCHANGED <<shm_send, inbox>>
    ELSE Goto("tcp", "top") /\ shm_send' = 1 /\ inbox' = Tail(inbox)

(* STATUS, then one non-blocking receive.  The length of a message may be  *)
(* there before its text: the receive of the text then fails like any      *)
(* other, and the FLOOR is lost with the connection.                       *)
Report ==
  \/ /\ inbox = <<>>
     /\ sent' = {"STATUS"}
     /\ Goto("tcp", "top")
     /\ UNCHANGED <<shm, shm_send, inbox, sockets, breaks>>
  \/ /\ inbox # <<>>
     /\ sent' = {"STATUS"}
     /\ ReceiveFloor
     /\ UNCHANGED <<shm, sockets, breaks>>
  \/ /\ Break
     /\ Hangup
     /\ UNCHANGED <<shm, shm_send, sent>>

(* Mutant: only individual service mode withdraws the car.                 *)
WithdrawnForService == shm.individual_service_mode = 1

Withdrawn == shm.emergency_mode = 1 \/ shm.individual_service_mode = 1

(* A car in one of the modes says so and closes the socket, but goes on to *)
(* wait for the next STATUS, which the closed socket then refuses.  A car  *)
(* in both closes it before INDIVIDUAL SERVICE, whose send fails.          *)
Withdraw ==
  /\ Withdrawn
  /\ sockets' = sockets - 1
  /\ inbox' = <<>>
  /\ \/ /\ shm.emergency_mode = 1
        /\ sent' = {"EMERGENCY"}
        /\ Goto("tcp", IF shm.individual_service_mode = 1 \/ shm_send = 1
                         THEN "connect" ELSE "wait_closed")
     \/ /\ shm.emergency_mode # 1
        /\ sent' = {"INDIVIDUAL SERVICE"}
        /\ Goto("tcp", IF shm_send = 1 THEN "connect" ELSE "wait_closed")
  /\ UNCHANGED <<shm, shm_send, breaks>>

(* The loop body up to the wait, or to its end when there is no wait.      *)
Top ==
  /\ pc["tcp"] = "top"
  /\ \/ Withdraw
     \/ /\ Withdrawn
        /\ Break
        /\ Hangup
        /\ UNCHANGED <<shm, shm_send, sent>>
     \/ /\ ~Withdrawn
        /\ shm_send # 1
        /\ Goto("tcp", "wait")
        /\ UNCHANGED <<shm, shm_send, inbox, sent, sockets, breaks>>
     \/ /\ ~Withdrawn
        /\ shm_send = 1
        /\ Report
  /\ UNCHANGED <<waiting, current_status, floordiff, i, read_flag, requests>>

TimeoutReport ==
  /\ pc["tcp"] = "wait"
  /\ Report
  /\ UNCHANGED <<waiting, current_status, floordiff, i, read_flag, requests>>

TimeoutClosed ==
  /\ pc["tcp"] = "wait_closed"
  /\ Goto("tcp", "connect")
  /\ UNCHANGED <<shmVars, current_status, processVars, linkVars>>

(* The sscanf, after the test and with the mutex still held.               *)
HeedFloor ==
  /\ pc["tcp"] = "heed" /\ inbox # <<>>
  /\ shm' = [shm EXCEPT !.destination_floor = Head(inbox)]
  /\ shm_send' = 1
  /\ inbox' = Tail(inbox)
  /\ Goto("tcp", "top")
  /\ UNCHANGED <<waiting, current_status, floordiff, i, read_flag,
                 sent, sockets, requests, breaks>>

LinkStep == Connect \/ Register \/ Top \/ TimeoutReport \/ TimeoutClosed \/ HeedFloor

(* What the other threads and processes may do meanwhile.                  *)
MutexFree == pc["tcp"] # "heed"

(* The steps of the process thread that touch only cardata.shm_send,       *)
(* read_flag and locals.                                                   *)
Lockless == {"start", "check_send", "unsend", "flag0", "flag1"}

ProcessRuns == (MutexFree \/ pc["process"] \in Lockless) /\ ProcessStep

(* The environment: the controller sends a floor to a car that registered. *)
SendFloor(label) ==
  /\ Connected
  /\ requests < MaxRequests
  /\ requests' = requests + 1
  /\ inbox' = Append(inbox, label)
  /\ UNCHANGED <<shmVars, doorVars, processVars, sent, sockets, breaks>>

-----------------------------------------------------------------------------

(* Types: of what the processes share, and of what the threads keep.       *)
SharedTypeOK == shm \in SharedData /\ waiting \subseteq {"safety"}

PcTypeOK ==
  /\ pc \in [Thread -> DoorPC \union ProcessPC \union LinkPC \union {"poll", "exited"}]
  /\ pc["doorcontrol"] \in DoorPC \union {"poll", "exited"}
  /\ pc["process"] \in DoorPC \union ProcessPC \union {"exited"}
  /\ pc["tcp"] \in LinkPC \union {"exited"}

CarTypeOK ==
  /\ current_status \in [DoorThread -> DoorPhase]
  /\ floordiff \in Int
  /\ i \in Nat
  /\ shm_send \in Bit
  /\ read_flag \in Bit
=============================================================================
