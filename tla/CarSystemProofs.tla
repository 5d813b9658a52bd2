--------------------------- MODULE CarSystemProofs --------------------------
(***************************************************************************)
(* Theorems about one car, for every shaft, every set of floors the        *)
(* controller sends, any number of panels and every bound: the types, then *)
(* that its doors are never left ajar, that it heeds no new destination    *)
(* while read_flag is cleared, and that it stays in its shaft.             *)
(***************************************************************************)
EXTENDS CarSystem, CarLemmas

(* The check of the safety process keeps the segment well formed.          *)
LEMMA CheckedTyped ==
  ASSUME shm \in SharedData
  PROVE  Checked(shm) \in SharedData
<1>1. Reopened(shm) \in SharedData
  BY DEF Reopened, SharedData, Bit, Status
<1>2. Tripped(Reopened(shm)) \in SharedData
  BY <1>1 DEF Tripped, SharedData, Bit
<1>3. QED
  BY <1>2 DEF Checked, SharedData, Bit

(***************************************************************************)
(* The other threads of the car.  The tcp thread closes a socket only      *)
(* while it has one.                                                       *)
(***************************************************************************)
SocketHeld == pc["tcp"] \in {"register", "top", "wait", "heed"} => sockets >= 1

TypeInv == TypeOK /\ SocketHeld

(* Hanging up closes a socket the thread holds.                            *)
LEMMA HangupTyped ==
  ASSUME PcTypeOK, LinkTypeOK, sockets >= 1, Hangup
  PROVE  /\ PcTypeOK' /\ pc'["tcp"] = "connect"
         /\ sockets' \in 0 .. MaxSockets /\ inbox' \in Seq(Requests)
BY LinkAssumption, GotoTyped DEF LinkAssumption, Hangup, LinkTypeOK, LinkPC, Thread

(* A STATUS, with what is received or lost after it, keeps the types.      *)
LEMMA ReportTyped ==
  ASSUME SharedTypeOK, PcTypeOK, CarTypeOK, LinkTypeOK, sockets >= 1, Report,
         UNCHANGED <<waiting, current_status, floordiff, i, read_flag, requests>>
  PROVE  SharedTypeOK' /\ PcTypeOK' /\ CarTypeOK' /\ LinkTypeOK' /\ SocketHeld'
<1>1. \A label \in {"top", "heed"} : Goto("tcp", label) => PcTypeOK' /\ pc'["tcp"] = label
  BY GotoTyped DEF LinkPC, Thread
<1>2. CASE /\ inbox = <<>> /\ sent' = {"STATUS"} /\ Goto("tcp", "top")
           /\ UNCHANGED <<shm, shm_send, inbox, sockets, breaks>>
  BY <1>1, <1>2 DEF SharedTypeOK, CarTypeOK, LinkTypeOK, SocketHeld, MessageKind
<1>3. CASE /\ inbox # <<>> /\ sent' = {"STATUS"} /\ ReceiveFloor
           /\ UNCHANGED <<shm, sockets, breaks>>
  <2>1. \/ Goto("tcp", "heed") /\ UNCHANGED <<shm_send, inbox>>
        \/ Goto("tcp", "top") /\ shm_send' = 1 /\ inbox' = Tail(inbox)
    BY <1>3 DEF ReceiveFloor, HeedsFloor
  <2>2. inbox' \in Seq(Requests) /\ shm_send' \in Bit
    BY <1>3, <2>1 DEF LinkTypeOK, CarTypeOK, Bit
  <2>3. QED
    BY <1>1, <1>3, <2>1, <2>2
    DEF SharedTypeOK, CarTypeOK, LinkTypeOK, SocketHeld, MessageKind
<1>4. CASE Break /\ Hangup /\ UNCHANGED <<shm, shm_send, sent>>
  <2>1. breaks' \in 0 .. MaxBreaks
    BY <1>4, LinkAssumption DEF LinkAssumption, Break, LinkTypeOK
  <2>2. QED
    BY <1>4, <2>1, HangupTyped DEF SharedTypeOK, CarTypeOK, LinkTypeOK, SocketHeld
<1>5. QED
  BY <1>2, <1>3, <1>4 DEF Report

(* A step of the tcp thread keeps the types and its hold on a socket.      *)
LEMMA LinkTyped ==
  ASSUME TypeInv, LinkStep
  PROVE  SharedTypeOK' /\ PcTypeOK' /\ CarTypeOK' /\ LinkTypeOK' /\ SocketHeld'
<1>. USE DEF Thread
<1>1. SharedTypeOK /\ PcTypeOK /\ CarTypeOK /\ LinkTypeOK /\ SocketHeld
  BY DEF TypeInv, TypeOK
<1>2. \A label \in LinkPC :
        Goto("tcp", label) => PcTypeOK' /\ pc'["tcp"] = label
  BY <1>1, GotoTyped
<1>3. LinkPC = {"connect", "register", "top", "wait", "wait_closed", "heed"}
  BY DEF LinkPC
<1>4. CASE Connect
  <2>1. SharedTypeOK' /\ CarTypeOK'
    BY <1>1, <1>4 DEF Connect, SharedTypeOK, CarTypeOK, shmVars, processVars
  <2>2. CASE sockets < MaxSockets
    <3>1. sockets' = sockets + 1 /\ Goto("tcp", "register")
      BY <1>4, <2>2 DEF Connect
    <3>2. QED
      BY <1>1, <1>2, <1>3, <1>4, <2>1, <2>2, <3>1, LinkAssumption
      DEF LinkAssumption, Connect, LinkTypeOK, SocketHeld
  <2>3. CASE ~(sockets < MaxSockets)
    <3>1. sockets' = 0 /\ pc' = [t \in Thread |-> "exited"]
      BY <1>4, <2>3 DEF Connect
    <3>2. QED
      BY <1>1, <1>4, <2>1, <3>1, LinkAssumption
      DEF LinkAssumption, Connect, LinkTypeOK, SocketHeld, PcTypeOK
  <2>4. QED
    BY <2>2, <2>3
<1>5. CASE Register
  <2>1. SharedTypeOK' /\ CarTypeOK' /\ UNCHANGED requests
    BY <1>1, <1>5 DEF Register, SharedTypeOK, CarTypeOK, shmVars, processVars
  <2>2. sockets >= 1
    BY <1>1, <1>5 DEF Register, SocketHeld
  <2>3. CASE Goto("tcp", "connect") /\ UNCHANGED <<inbox, sent, sockets, breaks>>
    BY <1>1, <1>2, <1>3, <2>1, <2>3 DEF LinkTypeOK, SocketHeld
  <2>4. CASE /\ sent' = {"CAR", "STATUS"} /\ Goto("tcp", "top")
             /\ UNCHANGED <<inbox, sockets, breaks>>
    BY <1>1, <1>2, <1>3, <2>1, <2>2, <2>4 DEF LinkTypeOK, SocketHeld, MessageKind
  <2>5. CASE Break /\ Hangup /\ UNCHANGED sent
    <3>1. breaks' \in 0 .. MaxBreaks
      BY <1>1, <2>5, LinkAssumption DEF LinkAssumption, Break, LinkTypeOK
    <3>2. QED
      BY <1>1, <2>1, <2>2, <2>5, <3>1, HangupTyped DEF LinkTypeOK, SocketHeld
  <2>6. QED
    BY <1>5, <2>3, <2>4, <2>5 DEF Register
<1>6. CASE Top
  <2>1. sockets >= 1
    BY <1>1, <1>6 DEF Top, SocketHeld
  <2>2. UNCHANGED <<waiting, current_status, floordiff, i, read_flag, requests>>
    BY <1>6 DEF Top
  <2>3. CASE Withdraw
    <3>1. \E label \in {"connect", "wait_closed"} : Goto("tcp", label)
      BY <2>3 DEF Withdraw
    <3>2. PcTypeOK' /\ pc'["tcp"] \in {"connect", "wait_closed"}
      BY <1>2, <1>3, <3>1
    <3>3. sent' \subseteq MessageKind
      BY <2>3 DEF Withdraw, MessageKind
    <3>4. sockets' \in 0 .. MaxSockets /\ inbox' \in Seq(Requests)
      <4>1. sockets' = sockets - 1 /\ inbox' = <<>>
        BY <2>3 DEF Withdraw
      <4>2. QED
        BY <1>1, <2>1, <4>1, LinkAssumption DEF LinkAssumption, LinkTypeOK
    <3>5. QED
      BY <1>1, <2>2, <2>3, <3>2, <3>3, <3>4
      DEF Withdraw, SharedTypeOK, CarTypeOK, LinkTypeOK, SocketHeld
  <2>4. CASE Break /\ Hangup /\ UNCHANGED <<shm, shm_send, sent>>
    BY <1>1, <2>1, <2>2, <2>4, ReportTyped DEF Report
  <2>5. CASE Goto("tcp", "wait") /\ UNCHANGED <<shm, shm_send, inbox, sent, sockets, breaks>>
    BY <1>1, <1>2, <1>3, <2>1, <2>2, <2>5
    DEF SharedTypeOK, CarTypeOK, LinkTypeOK, SocketHeld
  <2>6. CASE Report
    BY <1>1, <2>1, <2>2, <2>6, ReportTyped
  <2>7. QED
    BY <1>6, <2>3, <2>4, <2>5, <2>6 DEF Top
<1>7. CASE TimeoutReport
  <2>1. sockets >= 1
    BY <1>1, <1>7 DEF TimeoutReport, SocketHeld
  <2>2. QED
    BY <1>1, <1>7, <2>1, ReportTyped DEF TimeoutReport
<1>8. CASE TimeoutClosed
  <2>1. UNCHANGED <<shmVars, current_status, processVars, linkVars>> /\ Goto("tcp", "connect")
    BY <1>8 DEF TimeoutClosed
  <2>2. PcTypeOK' /\ pc'["tcp"] = "connect"
    BY <1>2, <1>3, <2>1
  <2>3. QED
    BY <1>1, <2>1, <2>2
    DEF SharedTypeOK, CarTypeOK, LinkTypeOK, SocketHeld, shmVars, processVars, linkVars
<1>9. CASE HeedFloor
  <2>1. Head(inbox) \in Label /\ Tail(inbox) \in Seq(Requests)
    BY <1>1, <1>9, LinkAssumption DEF LinkAssumption, LinkTypeOK, HeedFloor
  <2>2. shm' \in SharedData
    BY <1>1, <1>9, <2>1 DEF HeedFloor, SharedTypeOK, SharedData
  <2>3. PcTypeOK' /\ pc'["tcp"] = "top" /\ sockets >= 1
    BY <1>1, <1>2, <1>3, <1>9 DEF HeedFloor, SocketHeld
  <2>4. QED
    BY <1>1, <1>9, <2>1, <2>2, <2>3
    DEF HeedFloor, SharedTypeOK, CarTypeOK, LinkTypeOK, SocketHeld, Bit
<1>10. QED
  BY <1>4, <1>5, <1>6, <1>7, <1>8, <1>9 DEF LinkStep

(***************************************************************************)
(* The internal controls and the safety process.                           *)
(***************************************************************************)
LEMMA CallsOf ==
  /\ Calls("open") = 2 /\ Calls("up") = 4 /\ Calls("down") = 4
  /\ Calls("close") = 1 /\ Calls("stop") = 1 /\ Calls("service_off") = 1
  /\ Calls("service_on") = 5
  /\ DOMAIN Edits = {"close", "stop", "service_on", "service_off"}
  /\ \A op \in DOMAIN Edits : Len(Edits[op]) = Calls(op)
BY DEF Calls, Edits

(* A step of an internal command keeps the types.                          *)
LEMMA PanelTyped ==
  ASSUME SharedTypeOK, PanelTypeOK, NEW p \in Panels, PanelStep(p)
  PROVE  SharedTypeOK' /\ PanelTypeOK'
<1>1. Exit(p) => panel' \in [Panels -> InPanel]
  BY DEF PanelTypeOK, InPanel, Exit
<1>2. ASSUME panel[p].op # "none",
             NEW n \in 1 .. 5, n =< Calls(panel[p].op), Call(p, n)
      PROVE  panel' \in [Panels -> InPanel]
  <2>1. panel[p] \in [op : Operation, call : 1 .. 5]
    BY <1>2 DEF PanelTypeOK, InPanel, Idle
  <2>2. [panel[p] EXCEPT !.call = n] = [op |-> panel[p].op, call |-> n]
    BY <2>1
  <2>3. [op |-> panel[p].op, call |-> n] \in InPanel
    BY <1>2, <2>1 DEF InPanel
  <2>4. QED
    BY <1>2, <2>2, <2>3 DEF PanelTypeOK, Call
<1>3. panel[p].op # "none" => panel[p].op \in Operation /\ panel[p].call \in 1 .. 5
  BY DEF PanelTypeOK, InPanel, Idle
<1>4. CASE EditFlag(p)
  <2>1. panel[p].op \in DOMAIN Edits
    BY <1>4 DEF EditFlag
  <2>2. PICK op : edit_flag(op)
    BY <1>4 DEF EditFlag
  <2>3. Exit(p) \/ (panel[p].call < Calls(panel[p].op) /\ Call(p, panel[p].call + 1))
    BY <1>4, <2>1, CallsOf DEF EditFlag
  <2>4. Calls(panel[p].op) \in {1, 5} /\ panel[p].op # "none"
    BY <2>1, CallsOf
  <2>5. panel' \in [Panels -> InPanel]
    BY <1>1, <1>2, <1>3, <2>3, <2>4
  <2>6. QED
    BY <1>4, <2>2, <2>5, FlagTyped DEF EditFlag, PanelTypeOK
<1>5. CASE OpenDoor(p)
  <2>1. panel[p].op = "open"
    BY <1>5 DEF OpenDoor
  <2>2. (Exit(p) \/ Call(p, 2)) /\ (UNCHANGED shmVars \/ edit_flag("OP_SET_OPEN"))
    BY <1>5 DEF OpenDoor
  <2>3. panel' \in [Panels -> InPanel]
    BY <1>1, <1>2, <2>1, <2>2, CallsOf
  <2>4. QED
    BY <1>5, <2>2, <2>3, FlagTyped DEF OpenDoor, PanelTypeOK, SharedTypeOK, shmVars
<1>6. CASE Drive(p)
  <2>1. panel[p].op \in {"up", "down"}
    BY <1>6 DEF Drive
  <2>2. Exit(p) \/ (panel[p].call < 4 /\ Call(p, panel[p].call + 1))
    BY <1>6 DEF Drive
  <2>3. Calls(panel[p].op) = 4
    BY <2>1, CallsOf
  <2>4. panel' \in [Panels -> InPanel]
    BY <1>1, <1>2, <1>3, <2>1, <2>2, <2>3
  <2>5. \/ UNCHANGED shmVars
        \/ \E d \in {-1, 1} : edit_shared_memory("OP_MOVE_DESTINATION", d, "Opening")
    BY <1>6 DEF Drive
  <2>6. SharedTypeOK'
    BY <2>5, EditTyped DEF SharedTypeOK, shmVars, Status
  <2>7. QED
    BY <1>6, <2>4, <2>6 DEF Drive, PanelTypeOK
<1>7. QED
  BY <1>4, <1>5, <1>6 DEF PanelStep

(* A step of the safety process or of a sensor keeps the types.            *)
LEMMA SafetyTyped ==
  ASSUME SharedTypeOK, SafetyTypeOK,
         \/ SafetyWait \/ SafetyCheck \/ SpuriousWakeup
         \/ \E op \in SensorOperations : Sense(op)
  PROVE  SharedTypeOK' /\ SafetyTypeOK'
<1>1. CASE SafetyWait
  BY <1>1 DEF SafetyWait, SharedTypeOK, SafetyTypeOK, SafetyPC
<1>2. CASE SafetyCheck
  BY <1>2, CheckedTyped DEF SafetyCheck, SharedTypeOK, SafetyTypeOK, SafetyPC
<1>3. CASE SpuriousWakeup
  BY <1>3 DEF SpuriousWakeup, SharedTypeOK, SafetyTypeOK, safetyVars
<1>4. ASSUME NEW op \in SensorOperations, Sense(op)
      PROVE  SharedTypeOK' /\ SafetyTypeOK'
  BY <1>4, FlagTyped, SafetyAssumption DEF SafetyAssumption, Sense, SafetyTypeOK
<1>5. QED
  BY <1>1, <1>2, <1>3, <1>4

(***************************************************************************)
(* Type correctness: in every reachable state every variable has a value   *)
(* of its type.  The car never closes a socket it does not have.           *)
(***************************************************************************)
LEMMA TypeInvInit == Init => TypeInv
<1>. SUFFICES ASSUME Init PROVE TypeInv
  OBVIOUS
<1>1. SharedTypeOK
  BY ShaftAssumption DEF ShaftAssumption, Init, init_shared_data, SharedTypeOK, SharedData, Bit, Status
<1>2. PcTypeOK
  BY DEF Init, PcTypeOK, Thread, DoorPC, ProcessPC, LinkPC
<1>3. CarTypeOK
  BY DEF Init, CarTypeOK, DoorThread, DoorPhase, Status, Bit
<1>4. LinkTypeOK
  BY LinkAssumption DEF LinkAssumption, Init, LinkTypeOK, MessageKind
<1>5. PanelTypeOK
  BY PanelAssumption DEF PanelAssumption, Init, PanelTypeOK, InPanel
<1>6. SafetyTypeOK
  BY SafetyAssumption DEF SafetyAssumption, Init, SafetyTypeOK, SafetyPC
<1>7. SocketHeld
  BY DEF Init, SocketHeld
<1>8. QED
  BY <1>1, <1>2, <1>3, <1>4, <1>5, <1>6, <1>7 DEF TypeInv, TypeOK

(* Every step preserves TypeInv.                                           *)
LEMMA TypeInvNext == TypeInv /\ [Next]_vars => TypeInv'
<1>. SUFFICES ASSUME TypeInv, [Next]_vars PROVE TypeInv'
  OBVIOUS
<1>0. /\ SharedTypeOK /\ PcTypeOK /\ CarTypeOK /\ LinkTypeOK
      /\ PanelTypeOK /\ SafetyTypeOK /\ SocketHeld
  BY DEF TypeInv, TypeOK
<1>1. CASE DoorControl
  <2>1. SharedTypeOK' /\ PcTypeOK' /\ CarTypeOK' /\ pc'["tcp"] = pc["tcp"]
    <3>1. CASE PollOpen /\ UNCHANGED processVars
      <4>1. Goto("doorcontrol", "check") /\ UNCHANGED <<shmVars, current_status>>
        BY <3>1 DEF PollOpen, operate_door
      <4>2. PcTypeOK' /\ pc'["tcp"] = pc["tcp"]
        BY <1>0, <4>1, GotoTyped DEF Thread, DoorPC
      <4>3. QED
        BY <1>0, <3>1, <4>1, <4>2 DEF SharedTypeOK, CarTypeOK, shmVars, processVars
    <3>2. CASE DoorStep("doorcontrol", "poll") /\ UNCHANGED processVars
      BY <1>0, <3>2, DoorStepTyped DEF CarTypeOK, DoorThread, Thread, processVars
    <3>3. QED
      BY <1>1, <3>1, <3>2 DEF DoorControl, DoorControlStep
  <2>2. QED
    BY <1>0, <1>1, <2>1
    DEF DoorControl, TypeInv, TypeOK, LinkTypeOK, PanelTypeOK, SafetyTypeOK, SocketHeld,
        linkVars, panelVars, safetyVars
<1>2. CASE Process
  BY <1>0, <1>2, ProcessTyped
  DEF Process, ProcessRuns, TypeInv, TypeOK, LinkTypeOK, PanelTypeOK, SafetyTypeOK, SocketHeld,
      linkVars, panelVars, safetyVars
<1>3. CASE Link
  BY <1>0, <1>3, LinkTyped
  DEF Link, TypeInv, TypeOK, PanelTypeOK, SafetyTypeOK, panelVars, safetyVars
<1>4. CASE ControllerSends
  <2>1. PICK label \in Requests : SendFloor(label)
    BY <1>4 DEF ControllerSends
  <2>2. LinkTypeOK'
    BY <1>0, <2>1, LinkAssumption DEF LinkAssumption, SendFloor, LinkTypeOK
  <2>3. QED
    BY <1>0, <1>4, <2>1, <2>2
    DEF ControllerSends, SendFloor, TypeInv, TypeOK, SharedTypeOK, PcTypeOK, CarTypeOK,
        PanelTypeOK, SafetyTypeOK, SocketHeld, shmVars, doorVars, processVars, panelVars,
        safetyVars
<1>5. CASE PressButton
  <2>1. PICK p \in Panels, op \in PanelOperations : RunOperation(p, op)
    BY <1>5 DEF PressButton
  <2>2. PanelTypeOK'
    <3>1. op \in Operation /\ Calls(op) >= 1
      BY PanelAssumption, CallsOf DEF PanelAssumption, Operation
    <3>2. [op |-> op, call |-> 1] \in InPanel
      BY <3>1 DEF InPanel
    <3>3. QED
      BY <1>0, <2>1, <3>2, PanelAssumption
      DEF PanelAssumption, RunOperation, PanelTypeOK
  <2>3. QED
    BY <1>0, <1>5, <2>1, <2>2
    DEF PressButton, RunOperation, TypeInv, TypeOK, SharedTypeOK, PcTypeOK, CarTypeOK,
        LinkTypeOK, SafetyTypeOK, SocketHeld, shmVars, carVars, doorVars, processVars,
        linkVars, safetyVars
<1>6. ASSUME NEW p \in Panels, InternalStep(p) PROVE TypeInv'
  <2>1. SharedTypeOK' /\ PanelTypeOK'
    BY <1>0, <1>6, PanelTyped DEF InternalStep
  <2>2. QED
    BY <1>0, <1>6, <2>1
    DEF InternalStep, TypeInv, TypeOK, PcTypeOK, CarTypeOK, LinkTypeOK, SafetyTypeOK,
        SocketHeld, carVars, doorVars, processVars, linkVars, safetyVars
<1>7. CASE Monitor \/ Spurious \/ Sensor
  <2>1. SharedTypeOK' /\ SafetyTypeOK'
    BY <1>0, <1>7, SafetyTyped DEF Monitor, Spurious, Sensor
  <2>2. QED
    BY <1>0, <1>7, <2>1
    DEF Monitor, Spurious, Sensor, TypeInv, TypeOK, PcTypeOK, CarTypeOK, LinkTypeOK,
        PanelTypeOK, SocketHeld, carVars, doorVars, processVars, linkVars, panelVars
<1>8. CASE UNCHANGED vars
  BY <1>0, <1>8
  DEF vars, TypeInv, TypeOK, SharedTypeOK, PcTypeOK, CarTypeOK, LinkTypeOK, PanelTypeOK,
      SafetyTypeOK, SocketHeld, shmVars, carVars, doorVars, processVars, linkVars,
      panelVars, safetyVars
<1>9. QED
  BY <1>1, <1>2, <1>3, <1>4, <1>5, <1>6, <1>7, <1>8 DEF Next

(* So TypeInv holds in every reachable state.                              *)
LEMMA TypeInvariant == Spec => []TypeInv
BY TypeInvInit, TypeInvNext, PTL DEF Spec

(* Every variable always has a value of its type.                          *)
THEOREM TypeCorrect == Spec => []TypeOK
<1>1. TypeInv => TypeOK
  BY DEF TypeInv
<1>2. QED
  BY <1>1, TypeInvariant, PTL

-----------------------------------------------------------------------------
(* What the steps of the others leave alone.                               *)

(* The safety process moves the status from Closing to Opening only.       *)
LEMMA CheckedKeeps ==
  ASSUME SharedTypeOK
  PROVE  /\ Checked(shm).current_floor = shm.current_floor
         /\ Checked(shm).destination_floor = shm.destination_floor
         /\ Checked(shm).status = "Closed" <=> shm.status = "Closed"
<1>1. /\ Reopened(shm) \in SharedData
      /\ Reopened(shm).current_floor = shm.current_floor
      /\ Reopened(shm).destination_floor = shm.destination_floor
      /\ Reopened(shm).status = "Closed" <=> shm.status = "Closed"
  BY DEF Reopened, SharedTypeOK, SharedData, Bit, Status
<1> DEFINE r == Reopened(shm)
<1>2. /\ Tripped(r) \in SharedData
      /\ Tripped(r).current_floor = r.current_floor
      /\ Tripped(r).destination_floor = r.destination_floor
      /\ Tripped(r).status = r.status
  BY <1>1 DEF Tripped, SharedData, Bit
<1>3. /\ Checked(shm).current_floor = Tripped(r).current_floor
      /\ Checked(shm).destination_floor = Tripped(r).destination_floor
      /\ Checked(shm).status = Tripped(r).status
  BY <1>2 DEF Checked, SharedData
<1>4. QED
  BY <1>1, <1>2, <1>3

(* The internal controls change the destination only by up and down, and   *)
(* never the current floor or the status.                                  *)
LEMMA PanelKeeps ==
  ASSUME SharedTypeOK, PanelTypeOK, NEW p \in Panels, PanelStep(p)
  PROVE  /\ shm'.current_floor = shm.current_floor
         /\ shm'.status = shm.status
         /\ panel[p].op \notin {"up", "down"} => FloorsKept
<1>1. CASE EditFlag(p)
  <2>1. panel[p].op \in DOMAIN Edits /\ edit_flag(Edits[panel[p].op][panel[p].call])
    BY <1>1 DEF EditFlag
  <2>2. panel[p].call \in 1 .. Len(Edits[panel[p].op])
    BY <2>1, CallsOf DEF PanelTypeOK, InPanel, Idle
  <2>3. \A op \in DOMAIN Edits : \A n \in 1 .. Len(Edits[op]) : Edits[op][n] \in FlagOp
    BY DEF Edits, FlagOp
  <2>4. QED
    BY <2>1, <2>2, <2>3, FlagKeeps DEF FloorsKept
<1>2. CASE OpenDoor(p)
  <2>1. UNCHANGED shmVars \/ edit_flag("OP_SET_OPEN")
    BY <1>2 DEF OpenDoor
  <2>2. QED
    BY <2>1, FlagKeeps DEF FloorsKept, FlagOp, shmVars
<1>3. CASE Drive(p)
  <2>1. /\ panel[p].op \in {"up", "down"}
        /\ \/ UNCHANGED shmVars
           \/ \E d \in {-1, 1} : edit_shared_memory("OP_MOVE_DESTINATION", d, "Opening")
    BY <1>3 DEF Drive
  <2>2. QED
    BY <2>1, MoveKeeps DEF shmVars
<1>4. QED
  BY <1>1, <1>2, <1>3 DEF PanelStep

(* The safety process and the sensors leave the floors alone and neither   *)
(* close doors nor open Closed ones.                                       *)
LEMMA SafetyKeeps ==
  ASSUME SharedTypeOK, Monitor \/ Spurious \/ Sensor
  PROVE  /\ FloorsKept
         /\ shm.status = "Closed" <=> shm'.status = "Closed"
<1>1. CASE Monitor \/ Spurious
  BY <1>1, CheckedKeeps
  DEF Monitor, Spurious, SafetyWait, SafetyCheck, SpuriousWakeup, FloorsKept
<1>2. CASE Sensor
  <2>1. PICK op \in SensorOperations : edit_flag(op)
    BY <1>2 DEF Sensor, Sense
  <2>2. op \in FlagOp
    BY SafetyAssumption DEF SafetyAssumption, FlagOp
  <2>3. QED
    BY <2>1, <2>2, FlagKeeps
<1>3. QED
  BY <1>1, <1>2

(* The tcp thread changes nothing but the destination, and that only to a  *)
(* requested floor and with the lock it took while read_flag was 1; or it  *)
(* ends the process.                                                       *)
LEMMA LinkKeeps ==
  ASSUME TypeInv, LinkStep
  PROVE  /\ shm'.current_floor = shm.current_floor
         /\ shm'.status = shm.status
         /\ UNCHANGED <<floordiff, i, read_flag>>
         /\ \/ pc'["process"] = "exited"
            \/ \A t \in DoorThread : pc'[t] = pc[t]
         /\ \/ shm'.destination_floor = shm.destination_floor
            \/ ~MutexFree /\ shm'.destination_floor \in Requests
         /\ ~MutexFree' => read_flag = 1
<1>1. SharedTypeOK /\ PcTypeOK /\ LinkTypeOK
  BY DEF TypeInv, TypeOK
<1>2. /\ UNCHANGED <<floordiff, i, read_flag>>
      /\ \/ pc'["process"] = "exited"
         \/ \A t \in DoorThread : pc'[t] = pc[t]
      /\ UNCHANGED shm \/ TakesFloor
      /\ ~MutexFree' => read_flag = 1
  BY <1>1, LinkMoves DEF Thread, MutexFree
<1>3. inbox # <<>> => Head(inbox) \in Requests
  BY <1>1 DEF LinkTypeOK
<1>4. CASE UNCHANGED shm
  BY <1>2, <1>4
<1>5. CASE TakesFloor
  <2>1. /\ shm'.current_floor = shm.current_floor /\ shm'.status = shm.status
        /\ shm'.destination_floor =
             IF pc["tcp"] = "heed" THEN Head(inbox) ELSE shm.destination_floor
    BY <1>1, <1>5, FloorReceived
  <2>2. inbox # <<>>
    BY <1>5 DEF TakesFloor
  <2> QED BY <1>2, <1>3, <2>1, <2>2 DEF MutexFree
<1>6. QED
  BY <1>2, <1>4, <1>5

(***************************************************************************)
(* The doors.  DoorsAttended is inductive given the types: a door machine  *)
(* in either thread ends with Closed, the process thread ends its travel   *)
(* with Closed, and nobody else turns Closed into another status.          *)
(***************************************************************************)
LEMMA DoorsInit == Init => DoorsAttended
BY DEF Init, init_shared_data, DoorsAttended

(* Every step keeps the doors attended.                                    *)
LEMMA DoorsNext == TypeInv /\ DoorsAttended /\ [Next]_vars => DoorsAttended'
<1>. SUFFICES ASSUME TypeInv, DoorsAttended, [Next]_vars PROVE DoorsAttended'
  OBVIOUS
<1>. USE DEF DoorThread, Thread
<1>1. SharedTypeOK /\ PcTypeOK /\ CarTypeOK /\ PanelTypeOK /\ SafetyTypeOK
  BY DEF TypeInv, TypeOK
<1>2. current_status \in [DoorThread -> DoorPhase]
  BY <1>1 DEF CarTypeOK
<1>3. CASE DoorControl
  <2>1. CASE PollOpen
    <3>1. UNCHANGED shm /\ Goto("doorcontrol", "check")
      BY <2>1 DEF PollOpen, operate_door, shmVars
    <3>2. pc'["doorcontrol"] = "check"
      BY <1>1, <3>1 DEF Goto, PcTypeOK
    <3>3. QED
      BY <3>2 DEF DoorsAttended, DoorPC
  <2>2. CASE DoorStep("doorcontrol", "poll")
    BY <1>1, <1>2, <2>2, DoorStepKeeps DEF DoorsAttended
  <2>3. QED
    BY <1>3, <2>1, <2>2 DEF DoorControl, DoorControlStep
<1>4. CASE Process
  <2>1. CASE DoorStep("process", ProcessReturn)
    BY <1>1, <1>2, <2>1, DoorStepKeeps DEF DoorsAttended
  <2>2. ASSUME NEW label, Goto("process", label)
        PROVE  pc'["process"] = label /\ pc'["doorcontrol"] = pc["doorcontrol"]
    BY <1>1, <2>2 DEF Goto, PcTypeOK
  <2>3. CASE StartProcess \/ CheckSend \/ ClearSend \/ CheckMove
    <3>1. UNCHANGED shm /\ \E label : Goto("process", label)
      BY <2>3 DEF StartProcess, CheckSend, ClearSend, CheckMove, operate_door, shmVars
    <3>2. pc["process"] \notin DoorPC \union Travelling
      BY <2>3 DEF StartProcess, CheckSend, ClearSend, CheckMove, DoorPC, Travelling
    <3>3. pc["process"] # "exited"
      BY <2>3 DEF StartProcess, CheckSend, ClearSend, CheckMove
    <3>4. QED
      BY <2>2, <3>1, <3>2, <3>3 DEF DoorsAttended
  <2>4. CASE ReadFloors
    <3>1. shm'.status = shm.status
      BY <1>1, <2>4 DEF ReadFloors, SharedTypeOK, SharedData
    <3>2. pc["process"] = "loop" /\ Goto("process", "check_send")
      BY <2>4 DEF ReadFloors
    <3>3. QED
      BY <2>2, <3>1, <3>2 DEF DoorsAttended, DoorPC, Travelling
  <2>5. CASE SetBetween
    BY <2>2, <2>5 DEF SetBetween, DoorsAttended, Travelling
  <2>6. CASE ClearReadFlag
    BY <2>2, <2>6 DEF ClearReadFlag, DoorsAttended, Travelling
  <2>7. CASE MoveCurrent
    BY <2>2, <2>7 DEF MoveCurrent, DoorsAttended, Travelling
  <2>8. CASE SetClosed
    <3>1. shm'.status = "Closed"
      BY <1>1, <2>8, StatusKeeps DEF SetClosed, Status
    <3>2. QED
      BY <3>1 DEF DoorsAttended
  <2>9. CASE SetReadFlag
    <3>1. UNCHANGED shm /\ (Goto("process", "between") \/ Goto("process", "check"))
      BY <2>9 DEF SetReadFlag, Arrive, operate_door, shmVars
    <3>2. pc["process"] = "flag1"
      BY <2>9 DEF SetReadFlag
    <3>3. QED
      BY <2>2, <3>1, <3>2 DEF DoorsAttended, DoorPC, Travelling
  <2>10. QED
    BY <1>4, <2>1, <2>3, <2>4, <2>5, <2>6, <2>7, <2>8, <2>9
    DEF Process, ProcessRuns, ProcessStep
<1>5. CASE Link
  BY <1>5, LinkKeeps DEF Link, DoorsAttended, DoorPC, Travelling, PcTypeOK
<1>6. CASE ControllerSends \/ PressButton
  <2>1. UNCHANGED <<shm, pc>>
    BY <1>6 DEF ControllerSends, SendFloor, PressButton, RunOperation, shmVars, carVars, doorVars
  <2>2. QED
    BY <2>1 DEF DoorsAttended
<1>7. ASSUME NEW p \in Panels, InternalStep(p) PROVE DoorsAttended'
  <2>1. shm'.status = shm.status /\ UNCHANGED pc
    BY <1>1, <1>7, PanelKeeps DEF InternalStep, carVars, doorVars
  <2>2. QED
    BY <2>1 DEF DoorsAttended
<1>8. CASE Monitor \/ Spurious \/ Sensor
  <2>1. UNCHANGED pc
    BY <1>8 DEF Monitor, Spurious, Sensor, carVars, doorVars
  <2>2. QED
    BY <1>1, <1>8, <2>1, SafetyKeeps DEF DoorsAttended
<1>9. CASE UNCHANGED vars
  BY <1>9 DEF vars, shmVars, carVars, doorVars, DoorsAttended
<1>10. QED
  BY <1>3, <1>4, <1>5, <1>6, <1>7, <1>8, <1>9 DEF Next

(* In every shaft, under every interleaving of the threads, the panels,    *)
(* the safety process and the sensors: doors that are not Closed will be.  *)
THEOREM DoorsSafe == Spec => []DoorsAttended
BY DoorsInit, DoorsNext, TypeInvariant, PTL DEF Spec

(***************************************************************************)
(* The destination and the shaft.  From here on nobody drives the car by   *)
(* up and down (a technician may drive it anywhere: StopsAtTheTop in       *)
(* CarClaims), and the controller sends floors of the shaft, as            *)
(* can_service_request sees to.                                            *)
(***************************************************************************)
NotDriven == PanelOperations \intersect {"up", "down"} = {}

SentInShaft == Requests \subseteq LowestFloor .. HighestFloor

NoDriver == \A p \in Panels : panel[p].op \notin {"up", "down"}

(* Nobody types up or down.                                                *)
LEMMA NoDriverInit == Init => NoDriver
BY DEF Init, NoDriver, Idle

(* A panel runs only what was typed.                                       *)
LEMMA NoDriverNext ==
  ASSUME NotDriven, TypeInv, NoDriver, [Next]_vars
  PROVE  NoDriver'
<1>1. panel \in [Panels -> InPanel]
  BY DEF TypeInv, TypeOK, PanelTypeOK
<1>2. CASE PressButton
  <2>1. PICK q \in Panels, op \in PanelOperations : RunOperation(q, op)
    BY <1>2 DEF PressButton
  <2>2. op \notin {"up", "down"}
    BY DEF NotDriven
  <2>3. QED
    BY <1>1, <2>1, <2>2 DEF RunOperation, NoDriver
<1>3. ASSUME NEW q \in Panels, InternalStep(q) PROVE NoDriver'
  <2>1. Exit(q) \/ \E n : Call(q, n)
    BY <1>3 DEF InternalStep, PanelStep, EditFlag, OpenDoor, Drive
  <2>2. panel[q] \in [op : Operation, call : 1 .. 5] \union {Idle}
    BY <1>1 DEF InPanel
  <2>3. CASE Exit(q)
    BY <1>1, <2>3 DEF Exit, NoDriver, Idle
  <2>4. ASSUME NEW n, Call(q, n) PROVE NoDriver'
    <3>1. [panel[q] EXCEPT !.call = n].op = panel[q].op
      BY <2>2 DEF Idle
    <3>2. \A p \in Panels : panel'[p].op = panel[p].op
      BY <1>1, <2>4, <3>1 DEF Call
    <3>3. QED
      BY <3>2 DEF NoDriver
  <2>5. QED
    BY <2>1, <2>3, <2>4
<1>4. CASE UNCHANGED panel
  BY <1>4 DEF NoDriver
<1>5. QED
  BY <1>2, <1>3, <1>4
  DEF Next, DoorControl, Process, Link, LinkStep, Connect, ControllerSends, Monitor,
      Spurious, Sensor, vars, panelVars

(***************************************************************************)
(* The destination while the flag is cleared.  The process thread clears   *)
(* read_flag before it moves the car and sets it after the doors are       *)
(* Closed again; the first StartProcess settles the uninitialised flag.    *)
(* A FLOOR that passed the test keeps the lock, and without it the thread  *)
(* gets no further than move.                                              *)
(***************************************************************************)
FlagHeld ==
  /\ FlagCleared => read_flag = 0
  /\ pc["process"] \in {"set_closed", "flag1"} => MutexFree

(* The process thread does not start between two floors.                   *)
LEMMA FlagHeldInit == Init => FlagHeld
BY DEF Init, FlagHeld, FlagCleared, MutexFree

(* Nobody but the process thread writes read_flag.                         *)
LEMMA FlagHeldNext == TypeInv /\ FlagHeld /\ [Next]_vars => FlagHeld'
<1>. SUFFICES ASSUME TypeInv, FlagHeld, [Next]_vars PROVE FlagHeld'
  OBVIOUS
<1>. USE DEF DoorThread, Thread
<1>1. /\ SharedTypeOK /\ PcTypeOK /\ CarTypeOK
      /\ current_status \in [DoorThread -> DoorPhase]
  BY DEF TypeInv, TypeOK, CarTypeOK
<1>2. ASSUME pc'["process"] \in {pc["process"], "exited"}, UNCHANGED read_flag,
             MutexFree => MutexFree'
      PROVE  FlagHeld'
  BY <1>2 DEF FlagHeld, FlagCleared
<1>3. CASE DoorControl
  <2>1. CASE PollOpen
    <3>1. Goto("doorcontrol", "check")
      BY <2>1 DEF PollOpen, operate_door
    <3> QED BY <1>1, <1>2, <1>3, <3>1 DEF DoorControl, Goto, PcTypeOK, processVars, MutexFree
  <2>2. CASE DoorStep("doorcontrol", "poll")
    BY <1>1, <1>2, <1>3, <2>2, DoorStepKeeps DEF DoorControl, processVars, MutexFree
  <2>3. QED
    BY <1>3, <2>1, <2>2 DEF DoorControl, DoorControlStep
<1>4. CASE Process
  <2>1. /\ ProcessStep /\ pc'["tcp"] = pc["tcp"]
        /\ MutexFree \/ pc["process"] \in Lockless
    BY <1>1, <1>4, ProcessTyped DEF Process, ProcessRuns
  <2>2. MutexFree' = MutexFree
    BY <2>1 DEF MutexFree
  <2>3. CASE pc'["process"] \notin {"move", "set_closed", "flag1"}
    BY <2>3 DEF FlagHeld, FlagCleared
  <2>4. CASE DoorStep("process", ProcessReturn)
    <3>1. pc'["process"] \in DoorPC \union {"unsend", "loop"}
      BY <1>1, <2>4, DoorStepKeeps DEF ProcessReturn
    <3>2. QED
      BY <2>3, <3>1 DEF DoorPC
  <2>5. CASE \E label \in {"check", "loop", "check_send", "check_move", "between", "flag0"} :
               Goto("process", label)
    BY <1>1, <2>3, <2>5, ProcessGoto
  <2>6. CASE ClearReadFlag
    BY <1>1, <2>6, ProcessGoto DEF ClearReadFlag, FlagHeld, FlagCleared
  <2>7. CASE MoveCurrent
    <3>1. MutexFree /\ UNCHANGED read_flag /\ FlagCleared
      BY <2>1, <2>7 DEF MoveCurrent, Lockless, processVars, FlagCleared
    <3> QED BY <2>2, <3>1 DEF FlagHeld
  <2>8. CASE SetClosed
    <3>1. MutexFree /\ UNCHANGED read_flag /\ FlagCleared
      BY <2>1, <2>8 DEF SetClosed, Lockless, processVars, FlagCleared
    <3> QED BY <2>2, <3>1 DEF FlagHeld
  <2>9. QED
    BY <2>1, <2>4, <2>5, <2>6, <2>7, <2>8
    DEF ProcessStep, StartProcess, ReadFloors, CheckSend, ClearSend, CheckMove, SetBetween,
        SetReadFlag, Arrive, operate_door
<1>5. CASE Link
  <2>1. /\ UNCHANGED read_flag
        /\ pc'["process"] \in {pc["process"], "exited"}
        /\ ~MutexFree' => read_flag = 1
    BY <1>5, LinkKeeps DEF Link
  <2> QED BY <1>2, <2>1 DEF FlagHeld, FlagCleared
<1>6. CASE ControllerSends
  BY <1>2, <1>6 DEF ControllerSends, SendFloor, doorVars, processVars, MutexFree
<1>7. CASE UNCHANGED carVars
  BY <1>2, <1>7 DEF carVars, doorVars, processVars, MutexFree
<1>8. QED
  BY <1>3, <1>4, <1>5, <1>6, <1>7
  DEF Next, PressButton, InternalStep, Monitor, Spurious, Sensor, vars

(* While the flag is cleared no FLOOR passes the test, and only one that   *)
(* passed it before changes the destination.                               *)
LEMMA HeldNext ==
  ASSUME TypeInv, FlagHeld, NoDriver, Next, FlagCleared
  PROVE  /\ MutexFree => MutexFree'
         /\ shm'.destination_floor # shm.destination_floor =>
              ~MutexFree /\ pc["process"] = "move"
<1>. USE DEF DoorThread, Thread
<1>1. /\ SharedTypeOK /\ PcTypeOK /\ CarTypeOK /\ PanelTypeOK
      /\ current_status \in [DoorThread -> DoorPhase]
  BY DEF TypeInv, TypeOK, CarTypeOK
<1>2. read_flag = 0 /\ (pc["process"] = "move" \/ MutexFree)
  BY DEF FlagHeld, FlagCleared
<1>3. CASE DoorControl
  <2>1. CASE PollOpen
    <3>1. UNCHANGED shm /\ Goto("doorcontrol", "check")
      BY <2>1 DEF PollOpen, operate_door, shmVars
    <3> QED BY <1>1, <3>1 DEF Goto, PcTypeOK, MutexFree
  <2>2. CASE DoorStep("doorcontrol", "poll")
    BY <1>1, <2>2, DoorStepKeeps DEF FloorsKept, MutexFree
  <2> QED BY <1>3, <2>1, <2>2 DEF DoorControl, DoorControlStep
<1>4. CASE Process
  <2>1. ProcessStep /\ pc'["tcp"] = pc["tcp"]
    BY <1>1, <1>4, ProcessTyped DEF Process, ProcessRuns
  <2>2. MoveCurrent \/ SetClosed \/ SetReadFlag \/ DoorStep("process", ProcessReturn)
    BY <2>1
    DEF ProcessStep, StartProcess, ReadFloors, CheckSend, ClearSend, CheckMove,
        SetBetween, ClearReadFlag, FlagCleared
  <2>3. shm'.destination_floor = shm.destination_floor
    BY <1>1, <2>2, MoveKeeps, StatusKeeps, DoorStepKeeps
    DEF MoveCurrent, SetClosed, SetReadFlag, FloorsKept, Status, shmVars
  <2>4. QED
    BY <2>1, <2>3 DEF MutexFree
<1>5. CASE Link
  BY <1>2, <1>5, LinkKeeps DEF Link
<1>6. CASE ControllerSends \/ PressButton
  BY <1>6
  DEF ControllerSends, SendFloor, PressButton, RunOperation, shmVars, doorVars, carVars, MutexFree
<1>7. ASSUME NEW p \in Panels, InternalStep(p)
      PROVE  shm'.destination_floor = shm.destination_floor /\ UNCHANGED pc
  BY <1>1, <1>7, PanelKeeps DEF InternalStep, NoDriver, FloorsKept, carVars, doorVars
<1>8. CASE Monitor \/ Spurious \/ Sensor
  <2>1. UNCHANGED pc
    BY <1>8 DEF Monitor, Spurious, Sensor, carVars, doorVars
  <2> QED BY <1>1, <1>8, <2>1, SafetyKeeps DEF FloorsKept, MutexFree
<1>9. QED
  BY <1>3, <1>4, <1>5, <1>6, <1>7, <1>8 DEF Next, MutexFree

(* Unless a technician drives it: from the store of read_flag = 0 on the   *)
(* car goes where the last FLOOR tested before it said, although the store *)
(* takes no lock; a FLOOR tested before may still be written after it, but *)
(* not once the car has moved.                                             *)
THEOREM DestinationSafe == NotDriven => (Spec => DestinationHeld)
<1>. SUFFICES ASSUME NotDriven PROVE Spec => DestinationHeld
  OBVIOUS
<1>1. TypeInv /\ NoDriver /\ FlagHeld /\ [Next]_vars => NoDriver' /\ FlagHeld'
  BY NoDriverNext, FlagHeldNext
<1>2. TypeInv /\ NoDriver /\ FlagHeld /\ [Next]_vars =>
        [FlagCleared =>
           /\ MutexFree => MutexFree'
           /\ shm'.destination_floor # shm.destination_floor =>
                ~MutexFree /\ pc["process"] = "move"]_vars
  BY HeldNext
<1>3. QED
  BY <1>1, <1>2, NoDriverInit, FlagHeldInit, TypeInvariant, PTL DEF Spec, DestinationHeld

(* The car starts at its lowest floor, which is also its destination.      *)
LEMMA ShaftInit == Init => ShaftInv
<1>. SUFFICES ASSUME Init PROVE ShaftInv
  OBVIOUS
<1>1. /\ shm.current_floor = LowestFloor /\ shm.destination_floor = LowestFloor
      /\ pc["process"] = "start" /\ i = 0
  BY DEF Init, init_shared_data
<1>2. InShaft /\ DestinationInShaft
  BY <1>1, ShaftAssumption
  DEF ShaftAssumption, InShaft, InBounds, DestinationInShaft, Overshoot, Position, Label
<1>3. TripInBounds
  BY <1>1 DEF TripInBounds, Driving
<1>4. QED
  BY <1>2, <1>3 DEF ShaftInv

(* Every step preserves ShaftInv.                                          *)
LEMMA ShaftNext ==
  ASSUME SentInShaft, RoomToOvershoot, TypeInv, NoDriver, ShaftInv, [Next]_vars
  PROVE  ShaftInv'
<1>. USE DEF DoorThread, Thread
<1>1. /\ SharedTypeOK /\ PcTypeOK /\ PanelTypeOK /\ CarTypeOK
      /\ current_status \in [DoorThread -> DoorPhase]
  BY DEF TypeInv, TypeOK, CarTypeOK
<1>2. CASE DoorControl
  <2>1. UNCHANGED <<floordiff, i>>
    BY <1>2 DEF DoorControl, processVars
  <2>2. FloorsKept /\ pc'["process"] = pc["process"]
    <3>1. CASE PollOpen
      BY <1>1, <3>1 DEF PollOpen, operate_door, Goto, PcTypeOK, shmVars, FloorsKept
    <3>2. CASE DoorStep("doorcontrol", "poll")
      BY <1>1, <3>2, DoorStepKeeps
    <3>3. QED
      BY <1>2, <3>1, <3>2 DEF DoorControl, DoorControlStep
  <2>3. QED
    BY <2>1, <2>2, ShaftKept DEF FloorsKept
<1>3. CASE Process
  BY <1>1, <1>3, ShaftProcess DEF Process, ProcessRuns
<1>4. CASE Link
  BY <1>4, LinkKeeps, ShaftKept DEF Link, SentInShaft
<1>5. CASE ControllerSends \/ PressButton
  <2>1. UNCHANGED <<shm, pc, floordiff, i>>
    BY <1>5
    DEF ControllerSends, SendFloor, PressButton, RunOperation, shmVars, carVars, doorVars,
        processVars
  <2>2. QED
    BY <2>1, ShaftKept
<1>6. ASSUME NEW p \in Panels, InternalStep(p) PROVE ShaftInv'
  <2>1. FloorsKept
    BY <1>1, <1>6, PanelKeeps DEF InternalStep, NoDriver
  <2>2. UNCHANGED <<pc, floordiff, i>>
    BY <1>6 DEF InternalStep, carVars, doorVars, processVars
  <2>3. QED
    BY <2>1, <2>2, ShaftKept DEF FloorsKept
<1>7. CASE Monitor \/ Spurious \/ Sensor
  <2>1. UNCHANGED <<pc, floordiff, i>>
    BY <1>7 DEF Monitor, Spurious, Sensor, carVars, doorVars, processVars
  <2>2. QED
    BY <1>1, <1>7, <2>1, SafetyKeeps, ShaftKept DEF FloorsKept
<1>8. CASE UNCHANGED vars
  BY <1>8, ShaftKept DEF vars, shmVars, carVars, doorVars, processVars
<1>9. QED
  BY <1>2, <1>3, <1>4, <1>5, <1>6, <1>7, <1>8 DEF Next

(* However stale the difference of floors a trip was begun with, the car   *)
(* never leaves the shaft by more than the floor 0 it counted in.          *)
THEOREM ShaftSafe ==
  NotDriven /\ SentInShaft /\ RoomToOvershoot => (Spec => []InShaft)
<1>. SUFFICES ASSUME NotDriven, SentInShaft, RoomToOvershoot
              PROVE  Spec => []InShaft
  OBVIOUS
<1>1. TypeInv /\ NoDriver /\ ShaftInv /\ [Next]_vars => NoDriver' /\ ShaftInv'
  BY NoDriverNext, ShaftNext
<1>2. ShaftInv => InShaft
  BY DEF ShaftInv
<1>3. QED
  BY <1>1, <1>2, NoDriverInit, ShaftInit, TypeInvariant, PTL DEF Spec
=============================================================================
