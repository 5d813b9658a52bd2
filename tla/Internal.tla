----------------------------- MODULE Internal ------------------------------
(***************************************************************************)
(* The internal controls (src/internal.c): a command run once per button,  *)
(* here the panels of a car.  An operation is a sequence of calls on the   *)
(* shared memory, each a critical section of its own: what one call read   *)
(* may no longer be true when the next one acts on it.                     *)
(***************************************************************************)
EXTENDS SharedMemory, Sequences

CONSTANTS
  Panels,           \* the internal commands that may run at the same time
  PanelOperations,  \* the operations in use
  MaxPresses        \* bound on the commands started

VARIABLES
  panel,     \* Panels -> the operation in progress and its next call
  presses    \* commands started so far

panelVars == <<panel, presses>>

(* The operations that only set and clear flags, with their edits.         *)
Edits ==
  [close       |-> <<"OP_SET_CLOSE">>,
   stop        |-> <<"OP_SET_EMERGENCY_STOP">>,
   service_on  |-> <<"OP_SET_SERVICE", "OP_CLEAR_EMERGENCY",
                     "OP_CLEAR_EMERGENCY_STOP", "OP_CLEAR_OVERLOAD",
                     "OP_CLEAR_DOOR_OBSTRUCTION">>,
   service_off |-> <<"OP_CLEAR_SERVICE">>]

Operation == DOMAIN Edits \union {"open", "up", "down"}

PanelAssumption == PanelOperations \subseteq Operation /\ MaxPresses \in Nat
ASSUME PanelAssumption

Idle == [op |-> "none", call |-> 0]

(* How many calls on the shared memory an operation makes at most.         *)
Calls(op) ==
  CASE op = "open"         -> 2
    [] op \in {"up", "down"} -> 4
    [] OTHER               -> Len(Edits[op])

InPanel ==
  {c \in [op : Operation, call : 1 .. 5] : c.call =< Calls(c.op)} \union {Idle}

Call(p, n) == panel' = [panel EXCEPT ![p].call = n]

Exit(p) == panel' = [panel EXCEPT ![p] = Idle]

(* get_operation and get_shared_object.                                    *)
RunOperation(p, op) ==
  /\ panel[p] = Idle
  /\ presses < MaxPresses
  /\ presses' = presses + 1
  /\ panel' = [panel EXCEPT ![p] = [op |-> op, call |-> 1]]
  /\ UNCHANGED shmVars

(* close, stop, service_on and service_off.                                *)
EditFlag(p) ==
  /\ panel[p].op \in DOMAIN Edits
  /\ LET edits == Edits[panel[p].op]
         n     == panel[p].call
     IN  /\ edit_flag(edits[n])
         /\ IF n < Len(edits) THEN Call(p, n + 1) ELSE Exit(p)
  /\ UNCHANGED presses

(* open: refused between floors, by a status read before the button is set.*)
OpenDoor(p) ==
  /\ panel[p].op = "open"
  /\ \/ /\ panel[p].call = 1
        /\ IF shm.status = "Between" THEN Exit(p) ELSE Call(p, 2)
        /\ UNCHANGED shmVars
     \/ /\ panel[p].call = 2
        /\ edit_flag("OP_SET_OPEN")
        /\ Exit(p)
  /\ UNCHANGED presses

(* up and down: three reads, each of which may refuse, then the move.      *)
Refuses(call) ==
  \/ call = 1 /\ shm.individual_service_mode = 0
  \/ call = 2 /\ shm.status = "Open"
  \/ call = 3 /\ shm.status = "Between"

Drive(p) ==
  /\ panel[p].op \in {"up", "down"}
  /\ \/ /\ panel[p].call < 4
        /\ IF Refuses(panel[p].call) THEN Exit(p) ELSE Call(p, panel[p].call + 1)
        /\ UNCHANGED shmVars
     \/ /\ panel[p].call = 4
        /\ edit_shared_memory("OP_MOVE_DESTINATION",
                              IF panel[p].op = "up" THEN 1 ELSE -1, "Opening")
        /\ Exit(p)
  /\ UNCHANGED presses

PanelStep(p) == EditFlag(p) \/ OpenDoor(p) \/ Drive(p)
=============================================================================
