-------------------------- MODULE PsCanController ---------------------------
(***************************************************************************)
(* PsCanController as its two users share it: communicationTask and        *)
(* globalClockSyncronization both set it up and both send through it.      *)
(*                                                                         *)
(* m_initialized is read and written without a lock, m_txFrame is one      *)
(* buffer for all callers, and the interrupt is on before the task it      *)
(* wakes is known.  What the receive interrupt collects is the subject of  *)
(* CanReception; here a frame is a marker or not.                          *)
(***************************************************************************)
EXTENDS Naturals, Sequences

CONSTANTS
  FifoDepth,    \* frames the controller's transmit FIFO holds
  Retries,      \* READ_STATUS_REG_RETRIES
  ModeRetries,  \* configureTransceiver looks once more than this
  ErrorWord     \* 256: m_errorCounter is a uint8_t

ASSUME ControllerAssumption ==
  /\ FifoDepth \in Nat \ {0} /\ ErrorWord \in Nat \ {0}
  /\ Retries \in Nat /\ ModeRetries \in Nat

Tasks == {"comm", "clock"}   \* communicationTask, globalClockSyncronization

VARIABLES
  pc, tries,     \* of each task: where it is, and its retry counter
  result,        \* what a task's last transmitMsg returned
  queued,        \* history: that call's frame went into the FIFO
  roundLeft,     \* messages of the clock's round still to be sent
  initialized,   \* m_initialized
  setUps,        \* history: how often the set-up was begun
  handle,        \* m_receiveTaskToNotify
  recvDone, notified,   \* m_recvDone; communicationTask's notification
  errors,        \* m_errorCounter
  free,          \* canMutex can be taken
  txFrame,       \* m_txFrame: whose identifier and whose bytes it holds
  fifo, mode, wanted, irq, online,  \* the device
  up             \* the node still runs

taskVars == <<pc, tries, result, queued, roundLeft>>
setUpVars == <<initialized, setUps, handle>>
rxVars == <<recvDone, notified, errors>>
txVars == <<free, txFrame, fifo>>
modeVars == <<mode, wanted, irq>>
vars == <<taskVars, setUpVars, rxVars, txVars, modeVars, online, up>>

SetUpPcs == {"selfTest", "config", "waitConfig", "handlers", "normal", "waitNormal", "setUp"}
LockedPcs == {"fifo", "head", "data", "room", "send", "unlock", "refuse"}
SendPcs == {"lock"} \cup LockedPcs
Pcs == {"initialize", "register", "take", "delay", "sleep", "dead"} \cup SetUpPcs \cup SendPcs

Init ==
  /\ pc = [t \in Tasks |-> "initialize"] /\ tries = [t \in Tasks |-> 0]
  /\ result = [t \in Tasks |-> FALSE] /\ queued = [t \in Tasks |-> FALSE]
  /\ roundLeft = 2
  /\ initialized = FALSE /\ setUps = 0 /\ handle = "none"
  /\ recvDone = FALSE /\ notified = FALSE /\ errors = 0
  /\ free = TRUE /\ txFrame = [head |-> "none", data |-> "none"] /\ fifo = <<>>
  /\ mode = "config" /\ wanted = "config" /\ irq = FALSE
  /\ online = TRUE /\ up = TRUE

-----------------------------------------------------------------------------
(* FreeRTOS runs the ready task of the highest priority.  A task whose      *)
(* exception nobody caught spins in abort and stays ready for ever.         *)
Priority == [t \in Tasks |-> IF t = "comm" THEN 1 ELSE 0]
Ready(t) ==
  /\ pc[t] \notin {"delay", "sleep"}
  /\ pc[t] = "take" => notified
  /\ pc[t] = "lock" => free

\* Mutant: time slices, as between tasks of equal priority.
RunsInTurn(t) == up

Runs(t) == up /\ \A u \in Tasks : Priority[u] > Priority[t] => ~Ready(u)

At(t, label) == pc[t] = label /\ Runs(t)
Goto(t, label) == pc' = [pc EXCEPT ![t] = label]

(* Where initialize returns to. *)
Initialized(t) == IF t = "comm" THEN "register" ELSE "lock"

CheckInitialized(t) ==
  /\ At(t, "initialize")
  /\ IF initialized
     THEN Goto(t, Initialized(t)) /\ UNCHANGED setUps
     ELSE Goto(t, "selfTest") /\ setUps' = setUps + 1
  /\ UNCHANGED <<tries, result, queued, roundLeft, initialized, handle, rxVars, txVars,
                 modeVars, online, up>>

(* The device may fail its self-test. *)
SelfTest(t) ==
  /\ At(t, "selfTest")
  /\ \E label \in {"config", "dead"} : Goto(t, label)
  /\ UNCHANGED <<tries, result, queued, roundLeft, setUpVars, rxVars, txVars, modeVars, online, up>>

(* configureTransceiver: ask for a mode, then look at most ModeRetries + 2  *)
(* times whether the device has taken it.                                   *)
EnterMode(t, label, newMode, next) ==
  /\ At(t, label) /\ Goto(t, next)
  /\ wanted' = newMode /\ tries' = [tries EXCEPT ![t] = 0]
  /\ UNCHANGED <<result, queued, roundLeft, setUpVars, rxVars, txVars, mode, irq, online, up>>

WaitForMode(t, label, next) ==
  /\ At(t, label)
  /\ \/ mode = wanted /\ Goto(t, next) /\ UNCHANGED tries
     \/ mode # wanted /\ tries[t] > ModeRetries /\ Goto(t, "dead") /\ UNCHANGED tries
     \/ mode # wanted /\ tries[t] <= ModeRetries
        /\ tries' = [tries EXCEPT ![t] = @ + 1] /\ UNCHANGED pc
  /\ UNCHANGED <<result, queued, roundLeft, setUpVars, rxVars, txVars, modeVars, online, up>>

ConfigureTransceiver(t) ==
  \/ EnterMode(t, "config", "config", "waitConfig")
  \/ WaitForMode(t, "waitConfig", "handlers")
  \/ EnterMode(t, "normal", "normal", "waitNormal")
  \/ WaitForMode(t, "waitNormal", "setUp")

(* That the handlers could not be connected to the interrupt controller is  *)
(* logged; the node goes on without them.                                   *)
ConnectHandlers(t) ==
  /\ At(t, "handlers") /\ Goto(t, "normal")
  /\ irq' \in BOOLEAN /\ recvDone' = FALSE
  /\ UNCHANGED <<tries, result, queued, roundLeft, setUpVars, notified, errors, txVars,
                 mode, wanted, online, up>>

SetInitialized(t) ==
  /\ At(t, "setUp") /\ Goto(t, Initialized(t))
  /\ initialized' = TRUE
  /\ UNCHANGED <<tries, result, queued, roundLeft, setUps, handle, rxVars, txVars, modeVars,
                 online, up>>

Register ==
  /\ At("comm", "register") /\ Goto("comm", "take")
  /\ handle' = "comm"
  /\ UNCHANGED <<tries, result, queued, roundLeft, initialized, setUps, rxVars, txVars,
                 modeVars, online, up>>

-----------------------------------------------------------------------------
(* transmitMsg and transmit. *)

\* Mutant: the semaphore is not waited for.
LockAtOnce(t) ==
  /\ At(t, "lock") /\ Goto(t, "fifo")
  /\ free' = FALSE /\ tries' = [tries EXCEPT ![t] = 0] /\ queued' = [queued EXCEPT ![t] = FALSE]
  /\ UNCHANGED <<result, roundLeft, setUpVars, rxVars, txFrame, fifo, modeVars, online, up>>

Lock(t) ==
  /\ At(t, "lock") /\ free /\ Goto(t, "fifo")
  /\ free' = FALSE /\ tries' = [tries EXCEPT ![t] = 0] /\ queued' = [queued EXCEPT ![t] = FALSE]
  /\ UNCHANGED <<result, roundLeft, setUpVars, rxVars, txFrame, fifo, modeVars, online, up>>

IsTxFifoFull == Len(fifo) = FifoDepth

\* Mutant: the loop waits for as long as the FIFO is full.
WaitForRoomForEver(t) ==
  /\ At(t, "fifo")
  /\ \/ ~IsTxFifoFull /\ Goto(t, "head")
     \/ IsTxFifoFull /\ UNCHANGED pc
  /\ UNCHANGED <<tries, result, queued, roundLeft, setUpVars, rxVars, txVars, modeVars, online, up>>

WaitForRoom(t) ==
  /\ At(t, "fifo")
  /\ \/ ~IsTxFifoFull /\ Goto(t, "head") /\ UNCHANGED tries
     \/ IsTxFifoFull /\ tries[t] + 1 > Retries /\ Goto(t, "refuse") /\ UNCHANGED tries
     \/ IsTxFifoFull /\ tries[t] + 1 <= Retries
        /\ tries' = [tries EXCEPT ![t] = @ + 1] /\ UNCHANGED pc
  /\ UNCHANGED <<result, queued, roundLeft, setUpVars, rxVars, txVars, modeVars, online, up>>

FillHead(t) ==
  /\ At(t, "head") /\ Goto(t, "data")
  /\ txFrame' = [txFrame EXCEPT !.head = t]
  /\ UNCHANGED <<tries, result, queued, roundLeft, setUpVars, rxVars, free, fifo, modeVars, online, up>>

FillData(t) ==
  /\ At(t, "data") /\ Goto(t, "room")
  /\ txFrame' = [txFrame EXCEPT !.data = t]
  /\ UNCHANGED <<tries, result, queued, roundLeft, setUpVars, rxVars, free, fifo, modeVars, online, up>>

(* The second loop has no limit. *)
SpinForRoom(t) ==
  /\ At(t, "room") /\ ~IsTxFifoFull /\ Goto(t, "send")
  /\ UNCHANGED <<tries, result, queued, roundLeft, setUpVars, rxVars, txVars, modeVars, online, up>>

(* XCanPs_Send refuses a frame when the FIFO is full; nobody looks. *)
Send(t) ==
  /\ At(t, "send") /\ Goto(t, "unlock")
  /\ IF IsTxFifoFull
     THEN UNCHANGED <<fifo, queued>>
     ELSE fifo' = Append(fifo, txFrame) /\ queued' = [queued EXCEPT ![t] = TRUE]
  /\ UNCHANGED <<tries, result, roundLeft, setUpVars, rxVars, free, txFrame, modeVars, online, up>>

(* communicationTask sleeps after a confirmation; the clock's task sends a  *)
(* SYNC and a FUP, once, and has nothing to send from then on.              *)
Return(t, label, value) ==
  /\ At(t, label)
  /\ free' = TRUE /\ result' = [result EXCEPT ![t] = value]
  /\ IF t = "comm"
     THEN Goto(t, "delay") /\ UNCHANGED roundLeft
     ELSE /\ roundLeft' = roundLeft - 1
          /\ Goto(t, IF roundLeft > 1 THEN "lock" ELSE "sleep")
  /\ UNCHANGED <<tries, queued, setUpVars, rxVars, txFrame, fifo, modeVars, online, up>>

Transmit(t) ==
  \/ Lock(t) \/ WaitForRoom(t) \/ FillHead(t) \/ FillData(t) \/ SpinForRoom(t) \/ Send(t)
  \/ Return(t, "unlock", TRUE) \/ Return(t, "refuse", FALSE)

-----------------------------------------------------------------------------
(* communicationTask waits for a marker and confirms it; in between it      *)
(* does what CanReception models.                                           *)
Take ==
  /\ At("comm", "take") /\ notified /\ Goto("comm", "lock")
  /\ notified' = FALSE /\ recvDone' = FALSE
  /\ UNCHANGED <<tries, result, queued, roundLeft, setUpVars, errors, txVars, modeVars, online, up>>

DelayOver ==
  /\ up /\ pc["comm"] = "delay" /\ Goto("comm", "take")
  /\ UNCHANGED <<tries, result, queued, roundLeft, setUpVars, rxVars, txVars, modeVars, online, up>>

(* The four interrupt handlers run when the device raises them.             *)
Interrupts == up /\ irq

(* A marker that comes before registerTaskToNotify notifies a null handle:  *)
(* the wake-up is lost, and what the kernel then does is not defined.       *)
RecvHandler ==
  /\ Interrupts /\ mode = "normal" /\ online
  /\ errors' = 0
  /\ \E marker \in BOOLEAN :
       /\ recvDone' = (recvDone \/ marker)
       /\ notified' = (notified \/ (marker /\ handle = "comm"))
       /\ IF marker /\ handle = "none" THEN up' \in BOOLEAN ELSE UNCHANGED up
  /\ UNCHANGED <<taskVars, setUpVars, txVars, modeVars, online>>

(* A frame leaves the FIFO. *)
SendHandler ==
  /\ Interrupts /\ mode = "normal" /\ online /\ fifo # <<>>
  /\ fifo' = Tail(fifo) /\ errors' = 0
  /\ UNCHANGED <<taskVars, setUpVars, recvDone, notified, free, txFrame, modeVars, online, up>>

\* Mutant: the counter is no byte.
ErrorHandlerCountsOn ==
  /\ Interrupts
  /\ errors' = errors + 1
  /\ UNCHANGED <<taskVars, setUpVars, recvDone, notified, txVars, modeVars, online, up>>

(* Errors are counted and printed; the reset is commented out. *)
ErrorHandler ==
  /\ Interrupts
  /\ errors' = (errors + 1) % ErrorWord
  /\ UNCHANGED <<taskVars, setUpVars, recvDone, notified, txVars, modeVars, online, up>>

(* Bus-off: the device sends and receives nothing until it is reset, and    *)
(* the handler only prints.                                                 *)
EventHandler ==
  /\ Interrupts /\ mode = "normal" /\ online
  /\ online' = FALSE
  /\ UNCHANGED <<taskVars, setUpVars, rxVars, txVars, modeVars, up>>

TakeMode ==
  /\ mode # wanted /\ mode' = wanted
  /\ UNCHANGED <<taskVars, setUpVars, rxVars, txVars, wanted, irq, online, up>>

-----------------------------------------------------------------------------
Initialize(t) ==
  \/ CheckInitialized(t) \/ SelfTest(t) \/ ConfigureTransceiver(t)
  \/ ConnectHandlers(t) \/ SetInitialized(t)
CommStep == Initialize("comm") \/ Register \/ Take \/ Transmit("comm")
ClockStep == Initialize("clock") \/ Transmit("clock")
Device == RecvHandler \/ SendHandler \/ ErrorHandler \/ EventHandler \/ TakeMode
Next == CommStep \/ ClockStep \/ DelayOver \/ Device

Spec == Init /\ [][Next]_vars

(* Fairness: communicationTask runs whenever it is ready, for the clock's   *)
(* task has a lower priority; the 100 ms it sleeps leave the processor to   *)
(* the clock's task again and again.  Nothing is asked of the bus.          *)
FairSpec ==
  /\ Spec /\ WF_vars(CommStep) /\ WF_vars(DelayOver) /\ SF_vars(ClockStep)

-----------------------------------------------------------------------------
(* Types of the controller's, the tasks' and the device's state. *)
TypeOK ==
  /\ pc \in [Tasks -> Pcs] /\ tries \in [Tasks -> Nat]
  /\ result \in [Tasks -> BOOLEAN] /\ queued \in [Tasks -> BOOLEAN] /\ roundLeft \in 0 .. 2
  /\ initialized \in BOOLEAN /\ setUps \in Nat /\ handle \in {"none", "comm"}
  /\ recvDone \in BOOLEAN /\ notified \in BOOLEAN /\ errors \in 0 .. ErrorWord - 1
  /\ free \in BOOLEAN
  /\ txFrame \in [head : Tasks \cup {"none"}, data : Tasks \cup {"none"}]
  /\ fifo \in Seq([head : Tasks, data : Tasks]) /\ Len(fifo) <= FifoDepth
  /\ mode \in {"config", "normal"} /\ wanted \in {"config", "normal"}
  /\ irq \in BOOLEAN /\ online \in BOOLEAN /\ up \in BOOLEAN

(* The controller is set up once, although both tasks look at m_initialized *)
(* and nothing locks it between the look and the assignment: a second       *)
(* set-up would reset the device under the first user's frames              *)
(* (PsCanController.cpp:36-103).                                            *)
SetUpOnce == setUps <= 1

(* Frames can arrive while nobody is there to be woken only until           *)
(* communicationTask's next two steps, not for as long as some other task   *)
(* that did the set-up keeps it waiting; or the set-up has failed           *)
(* (CommunicationManager.cpp:38-40).                                        *)
DeafWindowIsShort ==
  mode = "normal" /\ irq /\ handle = "none"
    => pc["comm"] \in {"waitNormal", "setUp", "register", "dead"}

(* The transmit buffer is shared: still every frame on its way to the bus   *)
(* was composed by one call, and transmitMsg says TRUE exactly of frames it *)
(* handed over, although it ignores what XCanPs_Send answers                *)
(* (PsCanController.cpp:175-229).                                           *)
FramesAreTheirCalls ==
  /\ \A k \in DOMAIN fifo : fifo[k].head = fifo[k].data
  /\ \A t \in Tasks : pc[t] \in {"delay", "take", "sleep"} => result[t] = queued[t]

(* transmitMsg comes back, full FIFO and bus-off included: the loop without *)
(* a limit is entered only when there is room, and the mutex is given back  *)
(* on both ways out (PsCanController.cpp:175-217).                          *)
TransmitReturns ==
  \A t \in Tasks : pc[t] \in SendPcs ~> (pc[t] \notin SendPcs \/ ~up)
=============================================================================
