------------------------ MODULE PsCanController_proofs -----------------------
(* Theorems about the node's CAN controller and its two tasks, for any depth of
   the FIFO, any numbers of retries and any width of the error counter. *)
EXTENDS PsCanController, TLAPS

LEMMA Parameters ==
  /\ FifoDepth \in Nat \ {0} /\ ErrorWord \in Nat \ {0}
  /\ Retries \in Nat /\ ModeRetries \in Nat
  BY ControllerAssumption

(* communicationTask goes through the set-up in one go and first; the clock's
   task comes to run only when it has finished, and finds it done. *)
BeforeHandlers == {"initialize", "selfTest", "config", "waitConfig", "handlers"}

SetUpIsComms ==
  /\ pc["clock"] \in {"initialize", "sleep"} \cup SendPcs
  /\ setUps \in {0, 1} /\ (pc["comm"] = "initialize" => setUps = 0)
  /\ pc["comm"] \notin {"initialize", "dead"} \cup SetUpPcs => initialized
  /\ pc["comm"] \notin {"initialize", "register", "dead"} \cup SetUpPcs => handle = "comm"
  /\ pc["comm"] = "initialize" => ~initialized
  /\ pc["comm"] \in BeforeHandlers => ~irq
  /\ pc["comm"] \in BeforeHandlers \cup {"normal"} => mode = "config" /\ wanted = "config"

(* One task at most is between its take and its give of canMutex. *)
LockIsHeldOnce ==
  /\ \A t, u \in Tasks : pc[t] \in LockedPcs /\ pc[u] \in LockedPcs => t = u
  /\ free => \A t \in Tasks : pc[t] \notin LockedPcs

(* How far its holder has come with the frame. *)
FrameAt(t) ==
  /\ pc[t] \in {"head", "data", "room", "send"} => Len(fifo) < FifoDepth
  /\ pc[t] \in {"data", "room", "send"} => txFrame.head = t
  /\ pc[t] \in {"room", "send"} => txFrame.data = t
  /\ pc[t] \in LockedPcs \ {"unlock"} => ~queued[t]
  /\ pc[t] = "unlock" => queued[t]
  /\ pc[t] \notin LockedPcs => result[t] = queued[t]

(* The clock's task is awake only for a message of its round. *)
ClockHasToSend == pc["clock"] # "sleep" => roundLeft # 0

FifoIsWhole == \A k \in DOMAIN fifo : fifo[k].head = fifo[k].data

IInv ==
  /\ TypeOK /\ SetUpIsComms /\ ClockHasToSend /\ LockIsHeldOnce /\ FifoIsWhole
  /\ \A t \in Tasks : FrameAt(t)

-----------------------------------------------------------------------------
(* Scheduling: the clock's task runs only while communicationTask waits. *)
LEMMA ClockRunsAfterComm ==
  ASSUME TypeOK, Runs("clock")
  PROVE  pc["comm"] \in {"delay", "sleep", "take", "lock"}
<1>1. ~Ready("comm")
  BY DEF Runs, Priority, Tasks
<1> QED BY <1>1 DEF Ready, TypeOK, Tasks

(* The clock's task never sets anything up. *)
LEMMA ClockFindsItSetUp ==
  ASSUME TypeOK, SetUpIsComms, Initialize("clock")
  PROVE  /\ pc["clock"] = "initialize" /\ pc' = [pc EXCEPT !["clock"] = "lock"]
         /\ UNCHANGED <<tries, result, queued, roundLeft, setUpVars, rxVars, txVars, modeVars,
                        online, up>>
<1>1. pc["clock"] \notin SetUpPcs
  BY DEF SetUpIsComms, SetUpPcs, SendPcs, LockedPcs
<1>2. CheckInitialized("clock")
  BY <1>1 DEF Initialize, SelfTest, ConfigureTransceiver, EnterMode, WaitForMode,
              ConnectHandlers, SetInitialized, At, SetUpPcs
<1>3. initialized
  <2>1. pc["comm"] \in {"delay", "sleep", "take", "lock"}
    BY <1>2, ClockRunsAfterComm DEF CheckInitialized, At
  <2> QED BY <2>1 DEF SetUpIsComms, SetUpPcs
<1> QED BY <1>2, <1>3 DEF CheckInitialized, Initialized, At, Goto, setUpVars

(* What communicationTask does outside transmitMsg leaves the transmit side alone. *)
CommOutside == Initialize("comm") \/ Register \/ Take \/ DelayOver

LEMMA CommOutsideMoves ==
  ASSUME TypeOK, CommOutside
  PROVE  /\ pc["comm"] \notin LockedPcs /\ pc'["comm"] \in Pcs \ LockedPcs
         /\ pc' = [pc EXCEPT !["comm"] = pc'["comm"]]
         /\ UNCHANGED <<result, queued, roundLeft, txVars>>
  BY DEF TypeOK, Tasks, Pcs, SendPcs, LockedPcs, SetUpPcs, CommOutside, Initialize,
     CheckInitialized, SelfTest, ConfigureTransceiver, EnterMode, WaitForMode, ConnectHandlers,
     SetInitialized, Register, Take, DelayOver, Initialized, At, Goto

-----------------------------------------------------------------------------
(* Types. *)

LEMMA CommOutsideType ==
  ASSUME TypeOK, CommOutside
  PROVE  TypeOK'
<1> USE Parameters DEF TypeOK, At, Goto, setUpVars, rxVars, txVars, modeVars, taskVars
<1>1. pc' \in [Tasks -> Pcs]
  <2>1. pc' = [pc EXCEPT !["comm"] = pc'["comm"]] /\ pc'["comm"] \in Pcs
    BY CommOutsideMoves
  <2> QED BY <2>1
<1>2. CASE CheckInitialized("comm") BY <1>1, <1>2 DEF CheckInitialized
<1>3. CASE SelfTest("comm") BY <1>1, <1>3 DEF SelfTest
<1>4. CASE ConfigureTransceiver("comm")
  <2>1. ASSUME NEW l, NEW m \in {"config", "normal"}, NEW x, EnterMode("comm", l, m, x)
        PROVE  TypeOK'
    BY <1>1, <2>1 DEF EnterMode
  <2>2. ASSUME NEW l, NEW x, WaitForMode("comm", l, x) PROVE TypeOK'
    <3>1. tries' \in [Tasks -> Nat]
      BY <2>2 DEF WaitForMode
    <3> QED BY <1>1, <2>2, <3>1 DEF WaitForMode
  <2> QED BY <1>4, <2>1, <2>2 DEF ConfigureTransceiver
<1>5. CASE ConnectHandlers("comm") BY <1>1, <1>5 DEF ConnectHandlers
<1>6. CASE SetInitialized("comm") BY <1>1, <1>6 DEF SetInitialized
<1>7. CASE Register BY <1>1, <1>7 DEF Register
<1>8. CASE Take BY <1>1, <1>8 DEF Take
<1>9. CASE DelayOver BY <1>1, <1>9 DEF DelayOver
<1> QED BY <1>2, <1>3, <1>4, <1>5, <1>6, <1>7, <1>8, <1>9 DEF CommOutside, Initialize

LEMMA FilledFrame ==
  ASSUME NEW S, NEW x, NEW f \in [head : S \cup {x}, data : S \cup {x}],
         f.head \in S, f.data \in S
  PROVE  f \in [head : S, data : S]
  OBVIOUS

LEMMA OneMore ==
  ASSUME NEW S, NEW q \in Seq(S), NEW e \in S, NEW n \in Nat, Len(q) < n
  PROVE  Append(q, e) \in Seq(S) /\ Len(Append(q, e)) <= n
  OBVIOUS

LEMMA FrameToSend ==
  ASSUME IInv, NEW t \in Tasks, pc[t] = "send"
  PROVE  /\ Append(fifo, txFrame) \in Seq([head : Tasks, data : Tasks])
         /\ Len(Append(fifo, txFrame)) <= FifoDepth
<1>1. txFrame.head = t /\ txFrame.data = t /\ Len(fifo) < FifoDepth
  BY DEF IInv, FrameAt
<1>2. txFrame \in [head : Tasks \cup {"none"}, data : Tasks \cup {"none"}]
  BY DEF IInv, TypeOK
<1>3. txFrame.head \in Tasks /\ txFrame.data \in Tasks
  BY <1>1
<1>4. fifo \in Seq([head : Tasks, data : Tasks]) /\ FifoDepth \in Nat
  BY Parameters DEF IInv, TypeOK
<1>5. txFrame \in [head : Tasks, data : Tasks]
  BY <1>2, <1>3, FilledFrame
<1> QED BY <1>1, <1>4, <1>5, OneMore

LEMMA TransmitType ==
  ASSUME IInv, NEW t \in Tasks, Transmit(t)
  PROVE  TypeOK'
<1>0. pc[t] = "send" => /\ Append(fifo, txFrame) \in Seq([head : Tasks, data : Tasks])
                         /\ Len(Append(fifo, txFrame)) <= FifoDepth
  BY FrameToSend
<1> USE Parameters DEF IInv, TypeOK, At, Goto, setUpVars, rxVars, txVars, modeVars, Pcs, SendPcs,
                       LockedPcs
<1>1. CASE Lock(t) BY <1>1 DEF Lock
<1>2. CASE WaitForRoom(t)
  <2>1. pc' \in [Tasks -> Pcs]
    BY <1>2 DEF WaitForRoom
  <2>2. tries' \in [Tasks -> Nat]
    <3>1. tries[t] + 1 \in Nat
      OBVIOUS
    <3> QED BY <1>2, <3>1 DEF WaitForRoom
  <2> QED BY <1>2, <2>1, <2>2 DEF WaitForRoom
<1>3. CASE FillHead(t) BY <1>3 DEF FillHead
<1>4. CASE FillData(t) BY <1>4 DEF FillData
<1>5. CASE SpinForRoom(t) BY <1>5 DEF SpinForRoom
<1>6. CASE Send(t)
  <2>1. fifo' \in Seq([head : Tasks, data : Tasks]) /\ Len(fifo') <= FifoDepth
    BY <1>0, <1>6 DEF Send
  <2>2. pc' \in [Tasks -> Pcs] /\ queued' \in [Tasks -> BOOLEAN]
    BY <1>6 DEF Send
  <2> QED BY <1>6, <2>1, <2>2 DEF Send
<1>7. ASSUME NEW label \in {"unlock", "refuse"}, NEW v \in BOOLEAN, Return(t, label, v)
      PROVE  TypeOK'
  <2>1. pc' \in [Tasks -> Pcs]
    BY <1>7 DEF Return
  <2>2. roundLeft' \in 0 .. 2
    <3>1. t = "clock" => roundLeft # 0
      BY <1>7 DEF Return, ClockHasToSend, Tasks
    <3> QED BY <1>7, <3>1 DEF Return, Tasks
  <2> QED BY <1>7, <2>1, <2>2 DEF Return
<1> QED BY <1>1, <1>2, <1>3, <1>4, <1>5, <1>6, <1>7 DEF Transmit

LEMMA DeviceType ==
  ASSUME TypeOK, Device
  PROVE  TypeOK'
<1> USE Parameters DEF TypeOK, taskVars, setUpVars, rxVars, txVars, modeVars
<1>1. CASE RecvHandler BY <1>1 DEF RecvHandler
<1>2. CASE SendHandler
  <2>1. fifo' \in Seq([head : Tasks, data : Tasks]) /\ Len(fifo') <= FifoDepth
    BY <1>2 DEF SendHandler
  <2> QED BY <1>2, <2>1 DEF SendHandler
<1>3. CASE ErrorHandler
  <2>1. errors' \in 0 .. ErrorWord - 1
    BY <1>3 DEF ErrorHandler
  <2> QED BY <1>3, <2>1 DEF ErrorHandler
<1>4. CASE EventHandler BY <1>4 DEF EventHandler
<1>5. CASE TakeMode BY <1>5 DEF TakeMode
<1> QED BY <1>1, <1>2, <1>3, <1>4, <1>5 DEF Device

(* The kinds of steps the proofs distinguish. *)
LEMMA Steps ==
  ASSUME [Next]_vars
  PROVE  \/ CommOutside \/ Initialize("clock") \/ \E t \in Tasks : Transmit(t)
         \/ Device \/ UNCHANGED vars
  BY DEF Next, CommStep, ClockStep, CommOutside, Tasks

LEMMA TypeStep == IInv /\ [Next]_vars => TypeOK'
<1> SUFFICES ASSUME IInv, [Next]_vars PROVE TypeOK'
  OBVIOUS
<1>1. CASE CommOutside BY <1>1, CommOutsideType DEF IInv
<1>2. CASE Initialize("clock")
  BY <1>2, ClockFindsItSetUp
     DEF IInv, TypeOK, Pcs, SendPcs, Tasks, setUpVars, rxVars, txVars, modeVars
<1>3. CASE \E t \in Tasks : Transmit(t) BY <1>3, TransmitType
<1>4. CASE Device BY <1>4, DeviceType DEF IInv
<1>5. CASE UNCHANGED vars
  BY <1>5 DEF IInv, TypeOK, vars, taskVars, setUpVars, rxVars, txVars, modeVars
<1> QED BY <1>1, <1>2, <1>3, <1>4, <1>5, Steps

-----------------------------------------------------------------------------
(* The set-up. *)

LEMMA SetUpStep == IInv /\ [Next]_vars => SetUpIsComms' /\ ClockHasToSend'
<1> SUFFICES ASSUME IInv, [Next]_vars PROVE SetUpIsComms' /\ ClockHasToSend'
  OBVIOUS
<1> USE DEF IInv, TypeOK, SetUpIsComms, ClockHasToSend, Tasks, BeforeHandlers, SetUpPcs,
            At, Goto, setUpVars, rxVars, txVars, modeVars
<1>1. CASE CommOutside
  <2>1. /\ pc' = [pc EXCEPT !["comm"] = pc'["comm"]]
        /\ UNCHANGED roundLeft
    BY <1>1, CommOutsideMoves
  <2>2. CASE CheckInitialized("comm") BY <2>1, <2>2 DEF CheckInitialized
  <2>3. CASE SelfTest("comm") BY <2>1, <2>3 DEF SelfTest
  <2>4. CASE EnterMode("comm", "config", "config", "waitConfig") BY <2>1, <2>4 DEF EnterMode
  <2>5. CASE WaitForMode("comm", "waitConfig", "handlers") BY <2>1, <2>5 DEF WaitForMode
  <2>6. CASE EnterMode("comm", "normal", "normal", "waitNormal") BY <2>1, <2>6 DEF EnterMode
  <2>7. CASE WaitForMode("comm", "waitNormal", "setUp") BY <2>1, <2>7 DEF WaitForMode
  <2>8. CASE ConnectHandlers("comm") BY <2>1, <2>8 DEF ConnectHandlers
  <2>9. CASE SetInitialized("comm") BY <2>1, <2>9 DEF SetInitialized, Initialized
  <2>10. CASE Register BY <2>1, <2>10 DEF Register
  <2>11. CASE Take BY <2>1, <2>11 DEF Take
  <2>12. CASE DelayOver BY <2>1, <2>12 DEF DelayOver
  <2> QED BY <1>1, <2>2, <2>3, <2>4, <2>5, <2>6, <2>7, <2>8, <2>9, <2>10, <2>11, <2>12
          DEF CommOutside, Initialize, ConfigureTransceiver
<1>2. CASE Initialize("clock")
  BY <1>2, ClockFindsItSetUp DEF SendPcs
<1>3. CASE \E t \in Tasks : Transmit(t)
  <2>1. PICK t \in Tasks : Transmit(t)
    BY <1>3
  <2>2. /\ pc[t] \in SendPcs /\ pc'[t] \in SendPcs \cup {"delay", "sleep"}
        /\ pc' = [pc EXCEPT ![t] = pc'[t]]
        /\ UNCHANGED <<setUpVars, modeVars>>
    BY <2>1 DEF Transmit, Lock, WaitForRoom, FillHead, FillData, SpinForRoom, Send, Return,
                SendPcs, LockedPcs
  <2>3. /\ t = "comm" => pc'[t] # "sleep" /\ roundLeft' = roundLeft
        /\ t = "clock" => pc'[t] # "delay"
        /\ t = "clock" /\ pc'[t] # "sleep" => roundLeft' # 0
    BY <2>1 DEF Transmit, Lock, WaitForRoom, FillHead, FillData, SpinForRoom, Send, Return
  <2>4. CASE t = "comm"
    <3>1. pc'["clock"] = pc["clock"]
      BY <2>2, <2>4
    <3>2. pc["comm"] \in SendPcs /\ pc'["comm"] \in SendPcs \cup {"delay"}
      BY <2>2, <2>3, <2>4
    <3> QED BY <2>2, <2>3, <2>4, <3>1, <3>2 DEF SendPcs, LockedPcs
  <2>5. CASE t = "clock"
    <3>1. pc'["comm"] = pc["comm"]
      BY <2>2, <2>5
    <3>2. pc'["clock"] \in SendPcs \cup {"sleep"}
      BY <2>2, <2>3, <2>5
    <3> QED BY <2>2, <2>3, <2>5, <3>1, <3>2
  <2> QED BY <2>4, <2>5
<1>4. CASE Device
  BY <1>4 DEF Device, RecvHandler, SendHandler, ErrorHandler, EventHandler, TakeMode, taskVars
<1>5. CASE UNCHANGED vars BY <1>5 DEF vars, taskVars
<1> QED BY <1>1, <1>2, <1>3, <1>4, <1>5, Steps

-----------------------------------------------------------------------------
(* The lock. *)

LEMMA TransmitMoves ==
  ASSUME TypeOK, NEW t \in Tasks, Transmit(t)
  PROVE  /\ \A u \in Tasks \ {t} : pc'[u] = pc[u] /\ result'[u] = result[u] /\ queued'[u] = queued[u]
         /\ \/ pc[t] \in LockedPcs /\ (free' = free \/ pc'[t] \notin LockedPcs)
            \/ pc[t] \notin LockedPcs /\ free /\ ~free'
  BY DEF TypeOK, Transmit, Lock, WaitForRoom, FillHead, FillData, SpinForRoom, Send, Return,
     At, Goto, LockedPcs, txVars

LEMMA LockStep == IInv /\ [Next]_vars => LockIsHeldOnce'
<1> SUFFICES ASSUME IInv, [Next]_vars PROVE LockIsHeldOnce'
  OBVIOUS
<1>0. TypeOK /\ SetUpIsComms /\ LockIsHeldOnce
  BY DEF IInv
<1>1. CASE CommOutside
  <2>1. \A u \in Tasks : pc'[u] \in LockedPcs => pc[u] \in LockedPcs
    BY <1>0, <1>1, CommOutsideMoves DEF TypeOK
  <2>2. free' = free
    BY <1>0, <1>1, CommOutsideMoves DEF txVars
  <2> QED BY <1>0, <2>1, <2>2 DEF LockIsHeldOnce
<1>2. CASE Initialize("clock")
  <2>1. \A u \in Tasks : pc'[u] \in LockedPcs => pc[u] \in LockedPcs
    BY <1>0, <1>2, ClockFindsItSetUp DEF TypeOK, LockedPcs
  <2>2. free' = free
    BY <1>0, <1>2, ClockFindsItSetUp DEF txVars
  <2> QED BY <1>0, <2>1, <2>2 DEF LockIsHeldOnce
<1>3. CASE \E t \in Tasks : Transmit(t)
  BY <1>0, <1>3, TransmitMoves DEF LockIsHeldOnce
<1>4. CASE Device
  BY <1>0, <1>4 DEF Device, RecvHandler, SendHandler, ErrorHandler, EventHandler, TakeMode,
                    taskVars, txVars, LockIsHeldOnce
<1>5. CASE UNCHANGED vars BY <1>0, <1>5 DEF vars, taskVars, txVars, LockIsHeldOnce
<1> QED BY <1>1, <1>2, <1>3, <1>4, <1>5, Steps

-----------------------------------------------------------------------------
(* The frame. *)

(* The lock's holder is the only one with a frame on the way. *)
LEMMA FrameStepOfHolder ==
  ASSUME IInv, NEW t \in Tasks, Transmit(t)
  PROVE  FrameAt(t)'
<1>0. TypeOK /\ FrameAt(t) /\ FifoDepth \in Nat
  BY Parameters DEF IInv
<1> USE DEF TypeOK, FrameAt, At, Goto, LockedPcs, txVars, IsTxFifoFull
<1>1. CASE Lock(t) BY <1>0, <1>1 DEF Lock
<1>2. CASE WaitForRoom(t)
  <2>1. Len(fifo) <= FifoDepth /\ Len(fifo) \in Nat
    BY <1>0
  <2> QED BY <1>0, <1>2, <2>1 DEF WaitForRoom
<1>3. CASE FillHead(t) BY <1>0, <1>3 DEF FillHead
<1>4. CASE FillData(t) BY <1>0, <1>4 DEF FillData
<1>5. CASE SpinForRoom(t) BY <1>0, <1>5 DEF SpinForRoom
<1>6. CASE Send(t) BY <1>0, <1>6 DEF Send
<1>7. CASE Return(t, "unlock", TRUE) BY <1>0, <1>7 DEF Return
<1>8. CASE Return(t, "refuse", FALSE) BY <1>0, <1>8 DEF Return
<1> QED BY <1>1, <1>2, <1>3, <1>4, <1>5, <1>6, <1>7, <1>8 DEF Transmit

LEMMA FrameStepOfOther ==
  ASSUME IInv, NEW t \in Tasks, Transmit(t), NEW u \in Tasks, u # t
  PROVE  FrameAt(u)'
<1>1. pc'[u] = pc[u] /\ result'[u] = result[u] /\ queued'[u] = queued[u] /\ FrameAt(u)
  BY TransmitMoves DEF IInv
<1>2. CASE pc[u] \notin LockedPcs
  BY <1>1, <1>2 DEF FrameAt, LockedPcs
<1>3. CASE pc[u] \in LockedPcs
  <2>1. pc[t] \notin LockedPcs /\ ~free
    BY <1>3 DEF IInv, LockIsHeldOnce
  <2> QED BY <2>1, TransmitMoves DEF IInv
<1> QED BY <1>2, <1>3

LEMMA FrameStep == IInv /\ [Next]_vars => \A t \in Tasks : FrameAt(t)'
<1> SUFFICES ASSUME IInv, [Next]_vars, NEW t \in Tasks PROVE FrameAt(t)'
  OBVIOUS
<1>0. TypeOK /\ FrameAt(t) /\ SetUpIsComms
  BY DEF IInv
<1>1. CASE CommOutside
  <2>1. pc'[t] = pc[t] \/ (pc[t] \notin LockedPcs /\ pc'[t] \notin LockedPcs)
    BY <1>0, <1>1, CommOutsideMoves DEF TypeOK
  <2> QED BY <1>0, <1>1, <2>1, CommOutsideMoves DEF FrameAt, txVars, LockedPcs
<1>2. CASE Initialize("clock")
  <2>1. pc'[t] = pc[t] \/ (pc[t] \notin LockedPcs /\ pc'[t] \notin LockedPcs)
    BY <1>0, <1>2, ClockFindsItSetUp DEF TypeOK, LockedPcs
  <2> QED BY <1>0, <1>2, <2>1, ClockFindsItSetUp DEF FrameAt, txVars, LockedPcs
<1>3. CASE \E u \in Tasks : Transmit(u)
  BY <1>3, FrameStepOfHolder, FrameStepOfOther
<1>4. CASE SendHandler
  <2>1. Len(fifo') <= Len(fifo) /\ Len(fifo) \in Nat /\ Len(fifo') \in Nat /\ FifoDepth \in Nat
    BY <1>0, <1>4, Parameters DEF SendHandler, TypeOK
  <2> QED BY <1>0, <1>4, <2>1 DEF SendHandler, FrameAt, taskVars
<1>5. CASE Device /\ ~SendHandler
  BY <1>0, <1>5 DEF Device, RecvHandler, ErrorHandler, EventHandler, TakeMode, FrameAt,
                    taskVars, txVars
<1>6. CASE UNCHANGED vars BY <1>0, <1>6 DEF vars, taskVars, txVars, FrameAt
<1> QED BY <1>1, <1>2, <1>3, <1>4, <1>5, <1>6, Steps

LEMMA FifoStep == IInv /\ [Next]_vars => FifoIsWhole'
<1> SUFFICES ASSUME IInv, [Next]_vars PROVE FifoIsWhole'
  OBVIOUS
<1>0. TypeOK /\ FifoIsWhole /\ SetUpIsComms
  BY DEF IInv
<1>1. CASE fifo' = fifo
  BY <1>0, <1>1 DEF FifoIsWhole
<1>2. CASE SendHandler
  <2>1. \A k \in DOMAIN Tail(fifo) : k + 1 \in DOMAIN fifo /\ Tail(fifo)[k] = fifo[k + 1]
    BY <1>0, <1>2 DEF TypeOK, SendHandler
  <2> QED BY <1>0, <1>2, <2>1 DEF SendHandler, FifoIsWhole
<1>3. ASSUME NEW t \in Tasks, Send(t) PROVE FifoIsWhole'
  <2>1. txFrame.head = t /\ txFrame.data = t
    BY <1>3 DEF IInv, FrameAt, Send, At
  <2>2. fifo' = fifo \/ fifo' = Append(fifo, txFrame)
    BY <1>3 DEF Send
  <2>3. \A k \in DOMAIN Append(fifo, txFrame) :
          \/ k \in DOMAIN fifo /\ Append(fifo, txFrame)[k] = fifo[k]
          \/ Append(fifo, txFrame)[k] = txFrame
    BY <1>0 DEF TypeOK
  <2> QED BY <1>0, <2>1, <2>2, <2>3 DEF FifoIsWhole
<1>4. fifo' = fifo \/ SendHandler \/ \E t \in Tasks : Send(t)
  <2>1. CASE CommOutside BY <1>0, <2>1, CommOutsideMoves DEF txVars
  <2>2. CASE Initialize("clock") BY <1>0, <2>2, ClockFindsItSetUp DEF txVars
  <2>3. CASE \E t \in Tasks : Transmit(t)
    BY <2>3 DEF Transmit, Lock, WaitForRoom, FillHead, FillData, SpinForRoom, Return, txVars
  <2>4. CASE Device
    BY <2>4 DEF Device, RecvHandler, ErrorHandler, EventHandler, TakeMode, txVars
  <2>5. CASE UNCHANGED vars BY <2>5 DEF vars, txVars
  <2> QED BY <2>1, <2>2, <2>3, <2>4, <2>5, Steps
<1> QED BY <1>1, <1>2, <1>3, <1>4

-----------------------------------------------------------------------------
(* The inductive invariant. *)

LEMMA InitInv == Init => IInv
<1> SUFFICES ASSUME Init PROVE IInv
  OBVIOUS
<1>1. TypeOK
  <2>1. fifo \in Seq([head : Tasks, data : Tasks]) /\ Len(fifo) <= FifoDepth
    BY Parameters DEF Init
  <2>2. errors \in 0 .. ErrorWord - 1
    BY Parameters DEF Init
  <2>3. /\ pc \in [Tasks -> Pcs] /\ tries \in [Tasks -> Nat]
        /\ result \in [Tasks -> BOOLEAN] /\ queued \in [Tasks -> BOOLEAN]
    BY DEF Init, Pcs
  <2>4. txFrame \in [head : Tasks \cup {"none"}, data : Tasks \cup {"none"}]
    BY DEF Init
  <2>5. roundLeft \in 0 .. 2 /\ setUps \in Nat
    BY DEF Init
  <2>6. /\ handle \in {"none", "comm"} /\ initialized \in BOOLEAN /\ recvDone \in BOOLEAN /\ notified \in BOOLEAN
        /\ free \in BOOLEAN /\ irq \in BOOLEAN /\ online \in BOOLEAN /\ up \in BOOLEAN
        /\ mode \in {"config", "normal"} /\ wanted \in {"config", "normal"}
    BY DEF Init
  <2> QED BY <2>1, <2>2, <2>3, <2>4, <2>5, <2>6 DEF TypeOK
<1>2. SetUpIsComms /\ ClockHasToSend
  BY DEF Init, SetUpIsComms, ClockHasToSend, BeforeHandlers, Tasks
<1>3. \A t \in Tasks : pc[t] \notin LockedPcs /\ FrameAt(t)
  BY DEF Init, LockedPcs, FrameAt
<1>4. FifoIsWhole
  BY DEF Init, FifoIsWhole
<1> QED BY <1>1, <1>2, <1>3, <1>4 DEF IInv, LockIsHeldOnce

LEMMA StepInv == IInv /\ [Next]_vars => IInv'
  BY TypeStep, SetUpStep, LockStep, FrameStep, FifoStep DEF IInv

LEMMA Inv == Spec => []IInv
  BY InitInv, StepInv, PTL DEF Spec

(* Types, for every depth, number of retries and counter width. *)
THEOREM ControllerTypeCorrect == Spec => []TypeOK
<1>1. IInv => TypeOK
  BY DEF IInv
<1> QED BY <1>1, Inv, PTL

(* The set-up is never begun a second time. *)
THEOREM ControllerSetUpOnce == Spec => []SetUpOnce
<1>1. IInv => SetUpOnce
  BY DEF IInv, SetUpIsComms, SetUpOnce
<1> QED BY <1>1, Inv, PTL

(* Nobody keeps communicationTask from registering once frames can arrive. *)
THEOREM ControllerDeafWindow == Spec => []DeafWindowIsShort
<1>1. IInv => DeafWindowIsShort
  BY DEF IInv, TypeOK, SetUpIsComms, BeforeHandlers, SetUpPcs, DeafWindowIsShort, Tasks
<1> QED BY <1>1, Inv, PTL

(* Frames are whole and results are right. *)
THEOREM ControllerFramesWhole == Spec => []FramesAreTheirCalls
<1>1. IInv => FramesAreTheirCalls
  BY DEF IInv, FifoIsWhole, FrameAt, LockedPcs, FramesAreTheirCalls
<1> QED BY <1>1, Inv, PTL
=============================================================================
