----------------------------- MODULE CarLemmas ------------------------------
(***************************************************************************)
(* Lemmas about the threads of a car, whatever the car is composed with:   *)
(* what floor arithmetic does, what each step of the door machine, of the  *)
(* process thread and of the link changes and preserves, and why a trip    *)
(* ends in the shaft.                                                      *)
(***************************************************************************)
EXTENDS CarLink, TLAPS

(***************************************************************************)
(* Floors.  A move by one floor leads from a label to a label (off the     *)
(* ends of the scale to a truncated one), and away from the ends it moves  *)
(* the car by exactly one place in the shaft: there is no floor 0.         *)
(***************************************************************************)
LEMMA MoveFloorStep ==
  ASSUME NEW l \in Label, NEW d \in {-1, 1}
  PROVE  MoveFloor(l, d) = IF l + d = 0 THEN l + d + d ELSE l + d
BY DEF MoveFloor, Label

(* floorToString gives a label back; off the ends it loses a digit.        *)
LEMMA LabelOfFloor ==
  ASSUME NEW n \in Int
  PROVE  /\ n \in Label => floorToString(n) = n
         /\ floorToString(-100) = -10
         /\ floorToString(1000) = 100
         /\ floorToString(0) = 1
BY DEF Label, floorToString

(* A move by one floor leads from a label to a label.                      *)
LEMMA MovedLabel ==
  ASSUME NEW l \in Label, NEW d \in {-1, 1}
  PROVE  Moved(l, d) \in Label
<1>1. MoveFloor(l, d) \in Label \union {-100, 1000}
  <2>1. MoveFloor(l, d) = IF l + d = 0 THEN l + d + d ELSE l + d
    BY MoveFloorStep
  <2>2. QED
    BY <2>1 DEF Label
<1>2. \A n \in Label \union {-100, 1000} : floorToString(n) \in Label
  BY LabelOfFloor DEF Label
<1>3. QED
  BY <1>1, <1>2 DEF Moved

(* OP_MOVE_CURRENT and OP_MOVE_DESTINATION, by one floor, move by exactly  *)
(* one place in the shaft.                                                 *)
THEOREM MovedOneFloor ==
  ASSUME NEW l \in Label, NEW d \in {-1, 1}, l + d >= -99, l + d =< 999
  PROVE  Moved(l, d) \in Label /\ Position(Moved(l, d)) = Position(l) + d
<1>1. /\ MoveFloor(l, d) \in Label
      /\ Position(MoveFloor(l, d)) = Position(l) + d
  <2>1. MoveFloor(l, d) = IF l + d = 0 THEN l + d + d ELSE l + d
    BY MoveFloorStep
  <2>2. QED
    BY <2>1 DEF Label, Position
<1>2. Moved(l, d) = MoveFloor(l, d)
  BY <1>1, LabelOfFloor DEF Moved, Label
<1>3. QED
  BY <1>1, <1>2

(***************************************************************************)
(* Every edit keeps the segment well formed, and changes little of it.     *)
(***************************************************************************)
LEMMA EditedTyped ==
  ASSUME shm \in SharedData, NEW op, NEW d \in {-1, 0, 1}, NEW s \in Status
  PROVE  Edited(op, d, s) \in SharedData
<1>1. floorToString(d) \in Label
  BY DEF floorToString, Label
<1>2. d # 0 => Moved(shm.current_floor, d) \in Label
  BY MovedLabel DEF SharedData
<1>3. d # 0 => Moved(shm.destination_floor, d) \in Label
  BY MovedLabel DEF SharedData
<1>4. ASSUME NEW l \in Label PROVE Moved(l, 0) \in Label
  <2>1. MoveFloor(l, 0) = l
    BY DEF MoveFloor, Label
  <2>2. QED
    BY <2>1, LabelOfFloor DEF Moved, Label
<1>5. /\ Moved(shm.current_floor, d) \in Label
      /\ Moved(shm.destination_floor, d) \in Label
  BY <1>2, <1>3, <1>4 DEF SharedData
<1>6. QED
  BY <1>1, <1>5 DEF Edited, SharedData, Bit

(* A call of edit_shared_memory.                                           *)
LEMMA EditTyped ==
  ASSUME SharedTypeOK, NEW op, NEW d \in {-1, 0, 1}, NEW s \in Status,
         edit_shared_memory(op, d, s)
  PROVE  SharedTypeOK'
BY EditedTyped DEF SharedTypeOK, edit_shared_memory, Broadcast

(* A call that sets or clears a flag.                                      *)
LEMMA FlagTyped ==
  ASSUME SharedTypeOK, NEW op, edit_flag(op)
  PROVE  SharedTypeOK'
BY EditTyped DEF edit_flag, Status

(* A call that sets the status, and nothing else.                          *)
LEMMA StatusTyped ==
  ASSUME SharedTypeOK, NEW s \in Status, set_status(s)
  PROVE  SharedTypeOK' /\ shm' = [shm EXCEPT !.status = s]
<1>1. SharedTypeOK'
  BY EditTyped DEF set_status
<1>2. QED
  BY <1>1 DEF set_status, edit_shared_memory, Edited

FlagOp == {"OP_SET_OPEN", "OP_CLEAR_OPEN", "OP_SET_CLOSE", "OP_CLEAR_CLOSE",
           "OP_SET_OVERLOAD", "OP_CLEAR_OVERLOAD", "OP_SET_DOOR_OBSTRUCTION",
           "OP_CLEAR_DOOR_OBSTRUCTION", "OP_SET_EMERGENCY", "OP_CLEAR_EMERGENCY",
           "OP_SET_SERVICE", "OP_CLEAR_SERVICE", "OP_SET_EMERGENCY_STOP",
           "OP_CLEAR_EMERGENCY_STOP"}

FloorsKept == /\ shm'.current_floor = shm.current_floor
              /\ shm'.destination_floor = shm.destination_floor

(* An edit of a flag leaves floors and status alone.                       *)
LEMMA FlagKeeps ==
  ASSUME SharedTypeOK, NEW op \in FlagOp, edit_flag(op)
  PROVE  FloorsKept /\ shm'.status = shm.status
BY DEF SharedTypeOK, SharedData, FlagOp, FloorsKept, edit_flag, edit_shared_memory, Edited

(* set_status leaves the floors alone.                                     *)
LEMMA StatusKeeps ==
  ASSUME SharedTypeOK, NEW s \in Status, set_status(s)
  PROVE  FloorsKept /\ shm'.status = s
BY StatusTyped DEF SharedTypeOK, SharedData, FloorsKept

(* The two moves change one floor each, and no status.                     *)
LEMMA MoveKeeps ==
  ASSUME SharedTypeOK, NEW d \in {-1, 1}
  PROVE  /\ edit_shared_memory("OP_MOVE_CURRENT", d, "Opening") =>
              /\ shm'.current_floor = Moved(shm.current_floor, d)
              /\ shm'.destination_floor = shm.destination_floor
              /\ shm'.status = shm.status
         /\ edit_shared_memory("OP_MOVE_DESTINATION", d, "Opening") =>
              /\ shm'.current_floor = shm.current_floor
              /\ shm'.status = shm.status
BY DEF SharedTypeOK, SharedData, edit_shared_memory, Edited

(***************************************************************************)
(* The door machine, in either thread.                                     *)
(***************************************************************************)
LEMMA GotoTyped ==
  ASSUME PcTypeOK, NEW t \in Thread, NEW label, Goto(t, label),
         t = "doorcontrol" => label \in DoorPC \union {"poll"},
         t = "process" => label \in DoorPC \union ProcessPC,
         t = "tcp" => label \in LinkPC
  PROVE  PcTypeOK' /\ pc'[t] = label /\ \A u \in Thread \ {t} : pc'[u] = pc[u]
BY DEF PcTypeOK, Goto, Thread

(* A step of the door machine keeps the types and moves one thread.        *)
LEMMA DoorStepTyped ==
  ASSUME SharedTypeOK, PcTypeOK, current_status \in [DoorThread -> DoorPhase],
         NEW t \in DoorThread, NEW return,
         t = "doorcontrol" => return = "poll",
         t = "process" => return \in ProcessPC,
         DoorStep(t, return)
  PROVE  /\ SharedTypeOK' /\ PcTypeOK'
         /\ current_status' \in [DoorThread -> DoorPhase]
         /\ \A u \in Thread \ {t} : pc'[u] = pc[u]
<1>. USE DEF DoorThread, Thread
<1>1. ASSUME NEW phase \in DoorPhase, Become(t, phase)
      PROVE  current_status' \in [DoorThread -> DoorPhase]
  BY <1>1 DEF Become
<1>2. current_status[t] \in DoorPhase /\ current_status[t] \in Status
  BY DEF DoorPhase
<1>3. {"Opening", "Open", "Closing", "Closed"} \subseteq DoorPhase
  BY DEF DoorPhase, Status
<1>4. CASE CheckStatus(t)
  <2>1. Goto(t, "readopen") \/ Goto(t, "correct")
    BY <1>4 DEF CheckStatus
  <2>2. QED
    BY <1>4, <2>1, GotoTyped DEF CheckStatus, DoorPC, SharedTypeOK, shmVars
<1>5. CASE CorrectStatus(t)
  BY <1>2, <1>5, GotoTyped, StatusTyped DEF CorrectStatus, DoorPC
<1>6. CASE ReadOpen(t)
  <2>1. Goto(t, "readclose") \/ Goto(t, "clear_twice") \/ Goto(t, "clear")
    BY <1>6 DEF ReadOpen
  <2>2. UNCHANGED current_status \/ Become(t, "Opening") \/ Become(t, "Closing")
    BY <1>6 DEF ReadOpen
  <2>3. UNCHANGED shmVars
    BY <1>6 DEF ReadOpen
  <2>4. QED
    BY <1>1, <1>3, <2>1, <2>2, <2>3, GotoTyped DEF DoorPC, SharedTypeOK, shmVars
<1>7. CASE ClearOpenTwice(t)
  BY <1>7, GotoTyped, FlagTyped DEF ClearOpenTwice, DoorPC
<1>8. CASE ClearOpen(t)
  BY <1>8, GotoTyped, FlagTyped DEF ClearOpen, DoorPC
<1>9. CASE ReadClose(t)
  <2>1. Goto(t, "clear_close") \/ Goto(t, "enter")
    BY <1>9 DEF ReadClose
  <2>2. UNCHANGED current_status \/ Become(t, "Closing")
    BY <1>9 DEF ReadClose
  <2>3. UNCHANGED shmVars
    BY <1>9 DEF ReadClose
  <2>4. QED
    BY <1>1, <1>3, <2>1, <2>2, <2>3, GotoTyped DEF DoorPC, SharedTypeOK, shmVars
<1>10. CASE ClearClose(t)
  BY <1>10, GotoTyped, FlagTyped DEF ClearClose, DoorPC
<1>11. CASE EnterStatus(t, return)
  <2>1. SharedTypeOK'
    BY <1>2, <1>11, StatusTyped DEF EnterStatus
  <2>2. Goto(t, return) \/ Goto(t, "check")
    BY <1>11 DEF EnterStatus
  <2>3. PcTypeOK' /\ \A u \in Thread \ {t} : pc'[u] = pc[u]
    BY <2>2, GotoTyped DEF DoorPC
  <2>4. CASE LoopEnds(t)
    BY <1>1, <1>3, <1>11, <2>1, <2>3, <2>4 DEF EnterStatus
  <2>5. CASE ~LoopEnds(t)
    <3>1. current_status[t] \in {"Opening", "Open", "Closing"}
      BY <1>2, <2>5 DEF LoopEnds, DoorPhase, Status
    <3>2. NextStatus[current_status[t]] \in DoorPhase
      BY <1>3, <3>1 DEF NextStatus
    <3>3. Become(t, NextStatus[current_status[t]])
      BY <1>11, <2>5 DEF EnterStatus
    <3>4. QED
      BY <1>1, <2>1, <2>3, <3>2, <3>3
  <2>6. QED
    BY <2>4, <2>5
<1>12. QED
  BY <1>4, <1>5, <1>6, <1>7, <1>8, <1>9, <1>10, <1>11 DEF DoorStep

(* A door machine that returns leaves the doors Closed behind.             *)
LEMMA DoorStepKeeps ==
  ASSUME SharedTypeOK, PcTypeOK, current_status \in [DoorThread -> DoorPhase],
         NEW t \in DoorThread, NEW return, DoorStep(t, return)
  PROVE  /\ FloorsKept
         /\ pc[t] \in DoorPC
         /\ pc'[t] \in DoorPC \/ (pc'[t] = return /\ shm'.status = "Closed")
         /\ \A u \in Thread \ {t} : pc'[u] = pc[u]
<1>. USE DEF DoorThread, Thread
<1>1. /\ \A label : Goto(t, label) => pc'[t] = label /\ \A u \in Thread \ {t} : pc'[u] = pc[u]
      /\ current_status[t] \in Status
  BY DEF PcTypeOK, Goto, DoorPhase
<1>2. {"OP_CLEAR_OPEN", "OP_CLEAR_CLOSE"} \subseteq FlagOp
  BY DEF FlagOp
<1>3. CASE CheckStatus(t)
  <2>1. Goto(t, "readopen") \/ Goto(t, "correct")
    BY <1>3 DEF CheckStatus
  <2>2. QED
    BY <1>1, <1>3, <2>1 DEF CheckStatus, DoorPC, FloorsKept, shmVars
<1>4. CASE CorrectStatus(t)
  BY <1>1, <1>4, StatusKeeps DEF CorrectStatus, DoorPC
<1>5. CASE ReadOpen(t)
  <2>1. Goto(t, "readclose") \/ Goto(t, "clear_twice") \/ Goto(t, "clear")
    BY <1>5 DEF ReadOpen
  <2>2. QED
    BY <1>1, <1>5, <2>1 DEF ReadOpen, DoorPC, FloorsKept, shmVars
<1>6. CASE ClearOpenTwice(t)
  BY <1>1, <1>2, <1>6, FlagKeeps DEF ClearOpenTwice, DoorPC
<1>7. CASE ClearOpen(t)
  BY <1>1, <1>2, <1>7, FlagKeeps DEF ClearOpen, DoorPC
<1>8. CASE ReadClose(t)
  <2>1. Goto(t, "clear_close") \/ Goto(t, "enter")
    BY <1>8 DEF ReadClose
  <2>2. QED
    BY <1>1, <1>8, <2>1 DEF ReadClose, DoorPC, FloorsKept, shmVars
<1>9. CASE ClearClose(t)
  BY <1>1, <1>2, <1>9, FlagKeeps DEF ClearClose, DoorPC
<1>10. CASE EnterStatus(t, return)
  <2>1. FloorsKept /\ shm'.status = current_status[t] /\ pc[t] = "enter"
    BY <1>1, <1>10, StatusKeeps DEF EnterStatus
  <2>2. CASE LoopEnds(t)
    BY <1>1, <1>10, <2>1, <2>2 DEF EnterStatus, LoopEnds, DoorPC
  <2>3. CASE ~LoopEnds(t)
    BY <1>1, <1>10, <2>1, <2>3 DEF EnterStatus, DoorPC
  <2>4. QED
    BY <2>2, <2>3
<1>11. QED
  BY <1>3, <1>4, <1>5, <1>6, <1>7, <1>8, <1>9, <1>10 DEF DoorStep

(* A step of the process thread keeps the types.                           *)
LEMMA ProcessTyped ==
  ASSUME SharedTypeOK, PcTypeOK, CarTypeOK, ProcessStep
  PROVE  SharedTypeOK' /\ PcTypeOK' /\ CarTypeOK' /\ pc'["tcp"] = pc["tcp"]
<1>. USE DEF Thread, DoorThread
<1>1. \A label \in DoorPC \union ProcessPC :
        Goto("process", label) => PcTypeOK' /\ pc'["tcp"] = pc["tcp"]
  BY GotoTyped
<1>2. DoorPC \union ProcessPC = {"check", "correct", "readopen", "clear_twice",
        "clear", "readclose", "clear_close", "enter", "start", "loop",
        "check_send", "unsend", "check_move", "between", "flag0", "move",
        "set_closed", "flag1"}
  BY DEF DoorPC, ProcessPC
<1>3. shm.current_floor \in Int /\ shm.destination_floor \in Int
  BY DEF SharedTypeOK, SharedData, Label
<1>4. CASE StartProcess
  BY <1>1, <1>2, <1>4 DEF StartProcess, CarTypeOK, SharedTypeOK, shmVars, Bit
<1>5. CASE ReadFloors
  <2>1. shm' \in SharedData
    BY <1>5 DEF ReadFloors, SharedTypeOK, SharedData
  <2>2. floordiff' \in Int
    BY <1>3, <1>5 DEF ReadFloors
  <2>3. QED
    BY <1>1, <1>2, <1>5, <2>1, <2>2 DEF ReadFloors, CarTypeOK, SharedTypeOK
<1>6. CASE CheckSend
  <2>1. Goto("process", "check") \/ Goto("process", "check_move")
    BY <1>6 DEF CheckSend, operate_door
  <2>2. QED
    BY <1>1, <1>2, <1>6, <2>1 DEF CheckSend, CarTypeOK, SharedTypeOK, shmVars, processVars
<1>7. CASE ClearSend
  BY <1>1, <1>2, <1>7 DEF ClearSend, SendServed, CarTypeOK, SharedTypeOK, shmVars, Bit
<1>8. CASE CheckMove
  <2>1. Goto("process", "between") \/ Goto("process", "loop")
    BY <1>8 DEF CheckMove
  <2>2. QED
    BY <1>1, <1>2, <1>8, <2>1 DEF CheckMove, CarTypeOK, SharedTypeOK, shmVars, processVars
<1>9. CASE SetBetween
  BY <1>1, <1>2, <1>9, StatusTyped DEF SetBetween, CarTypeOK, processVars, Status
<1>10. CASE ClearReadFlag
  BY <1>1, <1>2, <1>10 DEF ClearReadFlag, CarTypeOK, SharedTypeOK, shmVars, Bit
<1>11. CASE MoveCurrent
  <2>1. \E d \in {-1, 1} : edit_shared_memory("OP_MOVE_CURRENT", d, "Opening")
    BY <1>11 DEF MoveCurrent
  <2>2. SharedTypeOK'
    BY <2>1, EditTyped DEF Status
  <2>3. QED
    BY <1>1, <1>2, <1>11, <2>2 DEF MoveCurrent, CarTypeOK, processVars
<1>12. CASE SetClosed
  BY <1>1, <1>2, <1>12, StatusTyped DEF SetClosed, CarTypeOK, processVars, Status
<1>13. CASE SetReadFlag
  <2>1. Goto("process", "between") \/ Goto("process", "check")
    BY <1>13 DEF SetReadFlag, Arrive, operate_door
  <2>2. i' \in Nat /\ read_flag' \in Bit
    BY <1>13 DEF SetReadFlag, CarTypeOK, Bit
  <2>3. QED
    BY <1>1, <1>2, <1>13, <2>1, <2>2 DEF SetReadFlag, CarTypeOK, SharedTypeOK, shmVars
<1>14. CASE DoorStep("process", ProcessReturn) /\ UNCHANGED processVars
  <2>1. ProcessReturn \in ProcessPC
    BY DEF ProcessReturn, ProcessPC
  <2>2. QED
    BY <1>14, <2>1, DoorStepTyped DEF CarTypeOK, processVars
<1>15. QED
  BY <1>4, <1>5, <1>6, <1>7, <1>8, <1>9, <1>10, <1>11, <1>12, <1>13, <1>14 DEF ProcessStep

(* What a step of the process thread does to its pc, one label at a time.  *)
LEMMA ProcessGoto ==
  ASSUME PcTypeOK, NEW label, Goto("process", label)
  PROVE  pc'["process"] = label
BY DEF PcTypeOK, Goto, Thread

(* A FLOOR is received: dropped, or heeded by a thread that found before   *)
(* that it may be.                                                         *)
TakesFloor ==
  /\ inbox # <<>> /\ inbox' = Tail(inbox) /\ shm_send' = 1
  /\ \/ pc["tcp"] # "heed" /\ read_flag # 1 /\ UNCHANGED shm
     \/ pc["tcp"] = "heed" /\ shm' = [shm EXCEPT !.destination_floor = Head(inbox)]

(***************************************************************************)
(* The link to the controller touches no more of the car than where it is  *)
(* to go and shm_send, and that only when a FLOOR is received; it stops    *)
(* all threads when it finds no descriptor, and takes the lock to heed a   *)
(* FLOOR only while read_flag is 1.                                        *)
(***************************************************************************)
LEMMA LinkMoves ==
  ASSUME PcTypeOK, LinkStep
  PROVE  /\ PcTypeOK'
         /\ \/ pc' = [t \in Thread |-> "exited"]
            \/ \A t \in DoorThread : pc'[t] = pc[t]
         /\ UNCHANGED <<waiting, current_status, floordiff, i, read_flag>>
         /\ \/ UNCHANGED <<shm, shm_send>> /\ inbox' \in {inbox, <<>>}
            \/ TakesFloor /\ pc'["tcp"] = "top"
         /\ pc'["tcp"] = "heed" => read_flag = 1 /\ inbox' # <<>>
<1>. USE DEF DoorThread, Thread
<1>1. \A label \in LinkPC :
        Goto("tcp", label) => /\ PcTypeOK' /\ pc'["tcp"] = label
                              /\ \A t \in DoorThread : pc'[t] = pc[t]
  BY GotoTyped
<1>2. LinkPC = {"connect", "register", "top", "wait", "wait_closed", "heed"}
  BY DEF LinkPC
<1>3. Hangup => /\ PcTypeOK' /\ \A t \in DoorThread : pc'[t] = pc[t]
                /\ inbox' \in {inbox, <<>>} /\ pc'["tcp"] # "heed"
  BY <1>1, <1>2 DEF Hangup
<1>4. CASE Connect
  <2>1. UNCHANGED <<shmVars, current_status, processVars, inbox>>
    BY <1>4 DEF Connect
  <2>2. Goto("tcp", "register") \/ pc' = [t \in Thread |-> "exited"]
    BY <1>4 DEF Connect
  <2>3. pc' = [t \in Thread |-> "exited"] => PcTypeOK'
    BY DEF PcTypeOK
  <2>4. QED
    BY <1>1, <1>2, <2>1, <2>2, <2>3 DEF shmVars, processVars
<1>5. CASE Register
  <2>1. UNCHANGED <<shmVars, current_status, processVars>>
    BY <1>5 DEF Register
  <2>2. \/ Hangup
        \/ UNCHANGED inbox /\ (Goto("tcp", "connect") \/ Goto("tcp", "top"))
    BY <1>5 DEF Register
  <2>3. QED
    BY <1>1, <1>2, <1>3, <2>1, <2>2 DEF shmVars, processVars
<1>6. ASSUME Report, pc["tcp"] # "heed"
      PROVE  /\ PcTypeOK' /\ \A t \in DoorThread : pc'[t] = pc[t]
             /\ \/ UNCHANGED <<shm, shm_send>> /\ inbox' \in {inbox, <<>>}
                \/ TakesFloor /\ pc'["tcp"] = "top"
             /\ pc'["tcp"] = "heed" => read_flag = 1 /\ inbox' # <<>>
  <2>1. CASE UNCHANGED <<shm, shm_send, inbox>> /\ Goto("tcp", "top")
    BY <1>1, <1>2, <2>1
  <2>2. CASE UNCHANGED <<shm, shm_send>> /\ Hangup
    BY <1>3, <2>2
  <2>3. CASE inbox # <<>> /\ ReceiveFloor /\ UNCHANGED shm
    <3>1. CASE read_flag = 1
      <4>1. Goto("tcp", "heed") /\ UNCHANGED <<shm_send, inbox>>
        BY <2>3, <3>1 DEF ReceiveFloor, HeedsFloor
      <4> QED BY <1>1, <1>2, <2>3, <3>1, <4>1
    <3>2. CASE read_flag # 1
      <4>1. Goto("tcp", "top") /\ shm_send' = 1 /\ inbox' = Tail(inbox)
        BY <2>3, <3>2 DEF ReceiveFloor, HeedsFloor
      <4> QED BY <1>1, <1>2, <1>6, <2>3, <3>2, <4>1 DEF TakesFloor
    <3> QED BY <3>1, <3>2
  <2>4. QED
    BY <1>6, <2>1, <2>2, <2>3 DEF Report
<1>7. CASE Top
  <2>1. UNCHANGED <<waiting, current_status, floordiff, i, read_flag>>
    BY <1>7 DEF Top
  <2>2. CASE Withdraw
    <3>1. Goto("tcp", "connect") \/ Goto("tcp", "wait_closed")
      BY <2>2 DEF Withdraw
    <3>2. QED
      BY <1>1, <1>2, <2>1, <2>2, <3>1 DEF Withdraw
  <2>3. CASE Hangup /\ UNCHANGED <<shm, shm_send>>
    BY <1>3, <2>1, <2>3
  <2>4. CASE Goto("tcp", "wait") /\ UNCHANGED <<shm, shm_send, inbox>>
    BY <1>1, <1>2, <2>1, <2>4
  <2>5. CASE Report
    BY <1>6, <1>7, <2>1, <2>5 DEF Top
  <2>6. QED
    BY <1>7, <2>2, <2>3, <2>4, <2>5 DEF Top
<1>8. CASE TimeoutReport
  BY <1>6, <1>8 DEF TimeoutReport
<1>9. CASE TimeoutClosed
  BY <1>1, <1>2, <1>9 DEF TimeoutClosed, shmVars, processVars, linkVars
<1>10. CASE HeedFloor
  BY <1>1, <1>2, <1>10 DEF HeedFloor, TakesFloor
<1>11. QED
  BY <1>4, <1>5, <1>7, <1>8, <1>9, <1>10 DEF LinkStep

(* A FLOOR changes the destination at most, and only to the floor it names.*)
LEMMA FloorReceived ==
  ASSUME SharedTypeOK, TakesFloor
  PROVE  /\ shm'.current_floor = shm.current_floor /\ shm'.status = shm.status
         /\ shm'.destination_floor =
              IF pc["tcp"] = "heed" THEN Head(inbox) ELSE shm.destination_floor
         /\ Head(inbox) \in Label => shm' \in SharedData
BY DEF SharedTypeOK, SharedData, TakesFloor

(***************************************************************************)
(* The shaft.  A shaft that crosses the ground leaves a label free at both *)
(* ends of the scale for the floor too many.                               *)
(***************************************************************************)
RoomToOvershoot == Overshoot = 1 => LowestFloor > -99 /\ HighestFloor < 999

Driving == {"between", "flag0", "move", "set_closed", "flag1"}

(* Where the car ends up after n more floors in the direction of floordiff.*)
TripEnd(n) == Position(shm.current_floor) + (IF floordiff > 0 THEN n ELSE -n)

DestinationInShaft ==
  LowestFloor =< shm.destination_floor /\ shm.destination_floor =< HighestFloor

(* The inductive invariant: floordiff may be stale, but wherever the loop  *)
(* stands, the rest of the trip it was read for ends within the bounds.    *)
TripInBounds ==
  /\ pc["process"] \notin Driving \union {"exited"} => i = 0
  /\ pc["process"] \in Driving => i < Abs(floordiff)
  /\ pc["process"] = "unsend" => floordiff = 0
  /\ pc["process"] \in {"check_send", "check_move", "between", "flag0", "move"} =>
       InBounds(TripEnd(Abs(floordiff) - i))
  /\ pc["process"] \in {"set_closed", "flag1"} =>
       InBounds(TripEnd(Abs(floordiff) - i - 1))

ShaftInv == InShaft /\ DestinationInShaft /\ TripInBounds

(* A trip to a floor of the shaft ends at most one floor beyond it, and    *)
(* that only when it crosses the ground.                                   *)
LEMMA TripBounded ==
  ASSUME NEW c \in Label, NEW d \in Label, InBounds(Position(c)),
         LowestFloor =< d, d =< HighestFloor
  PROVE  InBounds(Position(c) + (d - c))
<1>1. LowestFloor \in Label /\ HighestFloor \in Label
  BY ShaftAssumption DEF ShaftAssumption
<1>2. CASE c > 0 /\ d > 0
  BY <1>1, <1>2 DEF InBounds, Overshoot, Position, Label
<1>3. CASE c < 0 /\ d < 0
  BY <1>1, <1>3 DEF InBounds, Overshoot, Position, Label
<1>4. CASE c > 0 /\ d < 0
  <2>1. HighestFloor > 0 /\ LowestFloor < 0
    BY <1>1, <1>4 DEF InBounds, Overshoot, Position, Label
  <2>2. QED
    BY <1>1, <1>4, <2>1 DEF InBounds, Overshoot, Position, Label
<1>5. CASE c < 0 /\ d > 0
  <2>1. HighestFloor > 0 /\ LowestFloor < 0
    BY <1>1, <1>5 DEF InBounds, Overshoot, Position, Label
  <2>2. QED
    BY <1>1, <1>5, <2>1 DEF InBounds, Overshoot, Position, Label
<1>6. QED
  BY <1>2, <1>3, <1>4, <1>5 DEF Label

(* A floor of the trip lies between two places within the bounds.          *)
LEMMA OneFloorOn ==
  ASSUME RoomToOvershoot, NEW c \in Label, NEW d \in {-1, 1},
         NEW n \in Nat, n >= 1,
         InBounds(Position(c)), InBounds(Position(c) + (IF d = 1 THEN n ELSE -n))
  PROVE  /\ Moved(c, d) \in Label
         /\ Position(Moved(c, d)) = Position(c) + d
         /\ InBounds(Position(Moved(c, d)))
<1>1. LowestFloor \in Label /\ HighestFloor \in Label
  BY ShaftAssumption DEF ShaftAssumption
<1>2. Position(c) \in Int /\ Overshoot \in {0, 1}
  BY DEF Position, Overshoot, Label
<1>3. InBounds(Position(c) + d)
  <2>1. Position(LowestFloor) \in Int /\ Position(HighestFloor) \in Int
    BY <1>1 DEF Position, Label
  <2>2. CASE d = 1
    BY <1>2, <2>1, <2>2 DEF InBounds
  <2>3. CASE d = -1
    BY <1>2, <2>1, <2>3 DEF InBounds
  <2>4. QED
    BY <2>2, <2>3
<1>4. c + d >= -99 /\ c + d =< 999
  BY <1>1, <1>2, <1>3 DEF RoomToOvershoot, InBounds, Position, Label
<1>5. Moved(c, d) \in Label /\ Position(Moved(c, d)) = Position(c) + d
  BY <1>4, MovedOneFloor
<1>6. QED
  BY <1>3, <1>5

(***************************************************************************)
(* The shaft.  Only the process thread moves the car, so the steps of all  *)
(* the others preserve ShaftInv by what they leave alone.                  *)
(***************************************************************************)
LEMMA ShaftKept ==
  ASSUME ShaftInv, UNCHANGED <<floordiff, i>>,
         shm'.current_floor = shm.current_floor,
         \/ shm'.destination_floor = shm.destination_floor
         \/ shm'.destination_floor \in LowestFloor .. HighestFloor,
         pc'["process"] \in {pc["process"], "exited"}
  PROVE  ShaftInv'
<1>1. InShaft'
  BY DEF ShaftInv, InShaft, InBounds
<1>2. DestinationInShaft'
  <2>1. LowestFloor \in Int /\ HighestFloor \in Int
    BY ShaftAssumption DEF ShaftAssumption, Label
  <2>2. QED
    BY <2>1 DEF ShaftInv, DestinationInShaft
<1>3. TripInBounds'
  BY DEF ShaftInv, TripInBounds, InBounds, TripEnd, Driving
<1>4. QED
  BY <1>1, <1>2, <1>3 DEF ShaftInv

(* The steps of the process thread, in the order of its loop.              *)
LEMMA ShaftProcess ==
  ASSUME RoomToOvershoot, SharedTypeOK, PcTypeOK, CarTypeOK, ShaftInv, ProcessStep
  PROVE  ShaftInv'
<1>. USE DEF DoorThread, Thread
<1>1. /\ SharedTypeOK /\ PcTypeOK /\ CarTypeOK
      /\ current_status \in [DoorThread -> DoorPhase]
      /\ floordiff \in Int /\ i \in Nat
      /\ shm.current_floor \in Label /\ shm.destination_floor \in Label
  BY DEF CarTypeOK, SharedTypeOK, SharedData
<1>2. InShaft /\ DestinationInShaft /\ TripInBounds
  BY DEF ShaftInv
<1>3. Position(shm.current_floor) \in Int /\ Abs(floordiff) \in Nat
  <2>1. \A label \in Label : Position(label) \in Int
    BY DEF Position, Label
  <2>2. \A n \in Int : Abs(n) \in Nat
    BY DEF Abs
  <2>3. QED
    BY <1>1, <2>1, <2>2
<1>4. ASSUME FloorsKept PROVE InShaft' /\ DestinationInShaft'
  BY <1>2, <1>4 DEF FloorsKept, InShaft, InBounds, DestinationInShaft
<1>5. ASSUME FloorsKept, TripInBounds' PROVE ShaftInv'
  BY <1>4, <1>5 DEF ShaftInv
<1>6. ASSUME FloorsKept, UNCHANGED floordiff, NEW n \in Int
      PROVE  TripEnd(n)' = TripEnd(n) /\ InBounds(TripEnd(n))' = InBounds(TripEnd(n))
  BY <1>6 DEF FloorsKept, TripEnd, InBounds
<1>7. CASE DoorStep("process", ProcessReturn) /\ UNCHANGED processVars
  <2>1. FloorsKept /\ pc["process"] \in DoorPC /\ UNCHANGED <<floordiff, i>>
    BY <1>1, <1>7, DoorStepKeeps DEF processVars
  <2>2. pc'["process"] \in DoorPC \/ pc'["process"] = ProcessReturn
    BY <1>1, <1>7, DoorStepKeeps
  <2>3. i = 0
    BY <1>2, <2>1 DEF TripInBounds, DoorPC, Driving
  <2>4. TripInBounds'
    BY <2>1, <2>2, <2>3 DEF TripInBounds, DoorPC, Driving, ProcessReturn
  <2>5. QED
    BY <1>5, <2>1, <2>4
<1>8. CASE StartProcess
  <2>1. FloorsKept /\ UNCHANGED <<floordiff, i>> /\ pc'["process"] = "loop" /\ pc["process"] = "start"
    BY <1>1, <1>8, ProcessGoto DEF StartProcess, shmVars, FloorsKept
  <2>2. QED
    BY <1>2, <1>5, <2>1 DEF TripInBounds, Driving
<1>9. CASE ReadFloors
  <2>1. shm'.current_floor = shm.current_floor
    BY <1>1, <1>9 DEF ReadFloors, SharedTypeOK, SharedData
  <2>2. shm'.destination_floor = shm.destination_floor
    <3>1. ~(shm.destination_floor > HighestFloor \/ shm.destination_floor < LowestFloor)
      <4>1. \A m, n \in Label : m =< n => ~(m > n)
        BY DEF Label
      <4>2. QED
        BY <1>1, <1>2, <4>1, ShaftAssumption DEF ShaftAssumption, DestinationInShaft
    <3>2. QED
      BY <1>1, <1>9, <3>1 DEF ReadFloors, SharedTypeOK, SharedData
  <2>3. /\ floordiff' = shm.destination_floor - shm.current_floor
        /\ i' = 0 /\ pc'["process"] = "check_send"
    <3>1. i = 0
      BY <1>2, <1>9 DEF ReadFloors, TripInBounds, Driving
    <3>2. QED
      BY <1>1, <1>9, <3>1, ProcessGoto DEF ReadFloors
  <2>4. InBounds(Position(shm.current_floor) + (shm.destination_floor - shm.current_floor))
    BY <1>1, <1>2, TripBounded DEF InShaft, DestinationInShaft
  <2>5. TripEnd(Abs(floordiff) - i)' =
          Position(shm.current_floor) + (shm.destination_floor - shm.current_floor)
    BY <1>1, <1>3, <2>1, <2>3 DEF TripEnd, Abs, Label
  <2>6. TripInBounds'
    BY <2>3, <2>4, <2>5 DEF TripInBounds, InBounds, Driving
  <2>7. QED
    BY <1>5, <2>1, <2>2, <2>6 DEF FloorsKept
<1>10. CASE CheckSend
  <2>1. FloorsKept /\ UNCHANGED <<floordiff, i>> /\ pc["process"] = "check_send"
    BY <1>10 DEF CheckSend, shmVars, processVars, FloorsKept
  <2>2. pc'["process"] \in {"check", "check_move"}
    <3>1. Goto("process", "check") \/ Goto("process", "check_move")
      BY <1>10 DEF CheckSend, operate_door
    <3>2. QED
      BY <1>1, <3>1, ProcessGoto
  <2>3. TripInBounds'
    BY <1>1, <1>2, <1>3, <1>6, <2>1, <2>2 DEF TripInBounds, Driving
  <2>4. QED
    BY <1>5, <2>1, <2>3
<1>11. CASE ClearSend
  <2>1. /\ FloorsKept /\ UNCHANGED <<floordiff, i>> /\ pc["process"] = "unsend"
        /\ pc'["process"] = "check_move"
    BY <1>1, <1>11, ProcessGoto DEF ClearSend, shmVars, FloorsKept
  <2>2. floordiff = 0 /\ i = 0
    BY <1>2, <2>1 DEF TripInBounds, Driving
  <2>3. TripEnd(Abs(floordiff) - i)' = Position(shm.current_floor)
    BY <1>3, <2>1, <2>2 DEF TripEnd, Abs, FloorsKept
  <2>4. TripInBounds'
    BY <1>2, <2>1, <2>2, <2>3 DEF TripInBounds, Driving, InShaft, InBounds
  <2>5. QED
    BY <1>5, <2>1, <2>4
<1>12. CASE CheckMove
  <2>1. FloorsKept /\ UNCHANGED <<floordiff, i>> /\ pc["process"] = "check_move"
    BY <1>12 DEF CheckMove, shmVars, processVars, FloorsKept
  <2>2. pc'["process"] = "loop" \/ (pc'["process"] = "between" /\ floordiff # 0)
    <3>1. Goto("process", "loop") \/ (Goto("process", "between") /\ floordiff # 0)
      BY <1>12 DEF CheckMove
    <3>2. QED
      BY <1>1, <3>1, ProcessGoto
  <2>3. i = 0 /\ (floordiff # 0 => i < Abs(floordiff))
    BY <1>1, <1>2, <2>1 DEF TripInBounds, Driving, Abs
  <2>4. TripInBounds'
    BY <1>1, <1>2, <1>3, <1>6, <2>1, <2>2, <2>3 DEF TripInBounds, Driving
  <2>5. QED
    BY <1>5, <2>1, <2>4
<1>13. CASE SetBetween \/ ClearReadFlag
  <2>1. FloorsKept /\ UNCHANGED <<floordiff, i>>
    BY <1>1, <1>13, StatusKeeps
    DEF SetBetween, ClearReadFlag, shmVars, processVars, FloorsKept, Status
  <2>2. pc["process"] \in {"between", "flag0"} /\ pc'["process"] \in {"flag0", "move"}
    BY <1>1, <1>13, ProcessGoto DEF SetBetween, ClearReadFlag
  <2>3. TripInBounds'
    BY <1>1, <1>2, <1>3, <1>6, <2>1, <2>2 DEF TripInBounds, Driving
  <2>4. QED
    BY <1>5, <2>1, <2>3
<1>14. CASE MoveCurrent
  <2> DEFINE d == IF floordiff > 0 THEN 1 ELSE -1
             n == Abs(floordiff) - i
  <2>1. pc["process"] = "move" /\ pc'["process"] = "set_closed" /\ UNCHANGED <<floordiff, i>>
    BY <1>1, <1>14, ProcessGoto DEF MoveCurrent, processVars
  <2>2. i < Abs(floordiff) /\ InBounds(TripEnd(n))
    BY <1>2, <2>1 DEF TripInBounds, Driving
  <2>3. n \in Nat /\ n >= 1 /\ d \in {-1, 1}
    BY <1>1, <1>3, <2>2
  <2>4. TripEnd(n) = Position(shm.current_floor) + (IF d = 1 THEN n ELSE -n)
    BY DEF TripEnd
  <2>5. /\ shm'.current_floor = Moved(shm.current_floor, d)
        /\ shm'.destination_floor = shm.destination_floor
    BY <1>1, <1>14, <2>3, MoveKeeps DEF MoveCurrent
  <2>6. /\ Position(shm'.current_floor) = Position(shm.current_floor) + d
        /\ InBounds(Position(shm'.current_floor))
    BY <1>1, <1>2, <2>2, <2>3, <2>4, <2>5, OneFloorOn DEF InShaft
  <2>7. InShaft' /\ DestinationInShaft'
    BY <1>2, <2>5, <2>6 DEF InShaft, InBounds, DestinationInShaft
  <2>8. TripEnd(Abs(floordiff) - i - 1)' = TripEnd(n)
    <3>1. Position(shm.current_floor)' = Position(shm.current_floor) + d
      BY <2>6
    <3>2. QED
      BY <1>1, <1>3, <2>1, <2>3, <3>1 DEF TripEnd
  <2>9. TripInBounds'
    BY <2>1, <2>2, <2>8 DEF TripInBounds, Driving, InBounds
  <2>10. QED
    BY <2>7, <2>9 DEF ShaftInv
<1>15. CASE SetClosed
  <2>1. FloorsKept /\ UNCHANGED <<floordiff, i>>
    BY <1>1, <1>15, StatusKeeps DEF SetClosed, processVars, Status
  <2>2. pc["process"] = "set_closed" /\ pc'["process"] = "flag1"
    BY <1>1, <1>15, ProcessGoto DEF SetClosed
  <2>3. TripInBounds'
    BY <1>1, <1>2, <1>3, <1>6, <2>1, <2>2 DEF TripInBounds, Driving
  <2>4. QED
    BY <1>5, <2>1, <2>3
<1>16. CASE SetReadFlag
  <2>1. FloorsKept /\ UNCHANGED floordiff /\ pc["process"] = "flag1"
    BY <1>16 DEF SetReadFlag, shmVars, FloorsKept
  <2>2. \/ MoreFloors /\ i' = i + 1 /\ pc'["process"] = "between"
        \/ i' = 0 /\ pc'["process"] = "check"
    <3>1. \/ MoreFloors /\ i' = i + 1 /\ Goto("process", "between")
          \/ i' = 0 /\ Goto("process", "check")
      BY <1>16 DEF SetReadFlag, Arrive, operate_door
    <3>2. QED
      BY <1>1, <3>1, ProcessGoto
  <2>3. InBounds(TripEnd(Abs(floordiff) - i - 1))
    BY <1>2, <2>1 DEF TripInBounds
  <2>4. CASE i' = i + 1 /\ MoreFloors /\ pc'["process"] = "between"
    <3>1. TripEnd(Abs(floordiff) - i)' = TripEnd(Abs(floordiff) - i - 1)
      BY <1>1, <1>3, <2>1, <2>4 DEF TripEnd, FloorsKept
    <3>2. QED
      BY <2>1, <2>3, <2>4, <1>5, <3>1
      DEF TripInBounds, Driving, InBounds, MoreFloors, FloorsKept
  <2>5. CASE i' = 0 /\ pc'["process"] = "check"
    BY <1>5, <2>1, <2>5 DEF TripInBounds, Driving
  <2>6. QED
    BY <2>2, <2>4, <2>5
<1>17. QED
  BY <1>7, <1>8, <1>9, <1>10, <1>11, <1>12, <1>13, <1>14, <1>15, <1>16
  DEF ProcessStep
=============================================================================
