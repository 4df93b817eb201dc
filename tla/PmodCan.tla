------------------------------- MODULE PmodCan ------------------------------
(***************************************************************************)
(* CanController, the driver of the CAN module on the PMOD connector: any  *)
(* number of tasks send through it and one, SharedClockSlaveManager's,     *)
(* receives.  It polls the module over SPI under a mutex that is a binary  *)
(* semaphore, which anyone may give.                                       *)
(*                                                                         *)
(* A step is one SPI transfer or one semaphore operation.  The module has  *)
(* been set up.                                                            *)
(***************************************************************************)
EXTENDS Naturals

CONSTANTS
  Senders,    \* tasks that call transmitMsg
  Receiver,   \* the task that calls receiveMsg
  Retries     \* READ_STATUS_REG_RETRIES

ASSUME PmodAssumption == Retries \in Nat /\ Receiver \notin Senders

Tasks == Senders \cup {Receiver}
Buffers == {"RX0IF", "RX1IF"}   \* the receive buffers' flags

VARIABLES
  pc, tries,     \* of each task: where it is, and its retry counter
  free,          \* canMutex can be taken
  result,        \* what a sender's last transmitMsg returned
  fate,          \* history: what became of that call's frame
  txReq, tx0if,  \* module: a transmission is requested; one is over
  txBuf,         \* module: whose frame the transmit buffer holds
  requester,     \* history: who asked for the last transmission
  rxif,          \* module: the full receive buffers
  status,        \* receiveMsg's local: the flags it read
  gaveUp         \* history: a receiveMsg has given up

taskVars == <<pc, tries, free>>
txVars == <<result, fate, txReq, tx0if, txBuf, requester>>
rxVars == <<rxif, status, gaveUp>>
vars == <<taskVars, txVars, rxVars>>

TransmitPcs == {"waitReq", "clear", "load", "request", "clearAgain", "waitIf", "sent", "refuse"}
ReceivePcs == {"waitRx", "giveUp", "select", "read", "clearRx", "return"}
Inside == TransmitPcs \cup ReceivePcs
Pcs == {"idle", "lock"} \cup Inside
Fates == {"none", "requested", "gone"}

Init ==
  /\ pc = [t \in Tasks |-> "idle"] /\ tries = [t \in Tasks |-> 0] /\ free = TRUE
  /\ result = [s \in Senders |-> FALSE] /\ fate = [s \in Senders |-> "none"]
  /\ txReq = FALSE /\ tx0if = FALSE /\ txBuf = Receiver /\ requester = Receiver
  /\ rxif = {} /\ status = {} /\ gaveUp = FALSE

Goto(t, from, to) == pc[t] = from /\ pc' = [pc EXCEPT ![t] = to]

\* Mutant: the counter is compared before it is increased.
PollOnceMore(t, label, ready, next, failed) ==
  \/ ready /\ Goto(t, label, next) /\ UNCHANGED tries
  \/ ~ready /\ tries[t] > Retries /\ Goto(t, label, failed) /\ UNCHANGED tries
  \/ /\ ~ready /\ tries[t] <= Retries /\ pc[t] = label
     /\ tries' = [tries EXCEPT ![t] = @ + 1] /\ UNCHANGED pc

(* A status register is read until it is as wanted, Retries + 1 times at most. *)
Poll(t, label, ready, next, failed) ==
  \/ ready /\ Goto(t, label, next) /\ UNCHANGED tries
  \/ ~ready /\ tries[t] + 1 > Retries /\ Goto(t, label, failed) /\ UNCHANGED tries
  \/ /\ ~ready /\ tries[t] + 1 <= Retries /\ pc[t] = label
     /\ tries' = [tries EXCEPT ![t] = @ + 1] /\ UNCHANGED pc

-----------------------------------------------------------------------------
(* transmitMsg *)

CallTransmit(s) == Goto(s, "idle", "lock") /\ UNCHANGED <<tries, free, txVars, rxVars>>

\* Mutant: the semaphore is not waited for.
LockToSendAtOnce(s) ==
  /\ Goto(s, "lock", "waitReq") /\ free' = FALSE
  /\ tries' = [tries EXCEPT ![s] = 0] /\ fate' = [fate EXCEPT ![s] = "none"]
  /\ UNCHANGED <<result, txReq, tx0if, txBuf, requester, rxVars>>

LockToSend(s) ==
  /\ Goto(s, "lock", "waitReq") /\ free /\ free' = FALSE
  /\ tries' = [tries EXCEPT ![s] = 0] /\ fate' = [fate EXCEPT ![s] = "none"]
  /\ UNCHANGED <<result, txReq, tx0if, txBuf, requester, rxVars>>

\* Mutant: when the retries are used up the buffer is loaded all the same.
WaitForBufferThenLoad(s) ==
  /\ Poll(s, "waitReq", ~txReq, "clear", "clear")
  /\ UNCHANGED <<free, txVars, rxVars>>

WaitForBuffer(s) ==
  /\ Poll(s, "waitReq", ~txReq, "clear", "refuse")
  /\ UNCHANGED <<free, txVars, rxVars>>

ClearTx0If(s) ==
  /\ Goto(s, "clear", "load") /\ tx0if' = FALSE
  /\ UNCHANGED <<tries, free, result, fate, txReq, txBuf, requester, rxVars>>

LoadTxBuffer(s) ==
  /\ Goto(s, "load", "request") /\ txBuf' = s
  /\ UNCHANGED <<tries, free, result, fate, txReq, tx0if, requester, rxVars>>

RequestToSend(s) ==
  /\ Goto(s, "request", "clearAgain")
  /\ txReq' = TRUE /\ requester' = s /\ fate' = [fate EXCEPT ![s] = "requested"]
  /\ UNCHANGED <<tries, free, result, tx0if, txBuf, rxVars>>

(* The flag is cleared again.  The loop that follows waits for it to be     *)
(* clear, and nothing clears it from then on.                               *)
ClearAgain(s) ==
  /\ Goto(s, "clearAgain", "waitIf") /\ tx0if' = FALSE /\ tries' = [tries EXCEPT ![s] = 0]
  /\ UNCHANGED <<free, result, fate, txReq, txBuf, requester, rxVars>>

\* Mutant: the loop waits for the end of the transmission.
WaitForTransmission(s) ==
  /\ Poll(s, "waitIf", tx0if, "sent", "refuse")
  /\ UNCHANGED <<free, txVars, rxVars>>

WaitForFlag(s) ==
  /\ Poll(s, "waitIf", ~tx0if, "sent", "refuse")
  /\ UNCHANGED <<free, txVars, rxVars>>

ReturnFromTransmit(s, label, value) ==
  /\ Goto(s, label, "idle") /\ free' = TRUE
  /\ result' = [result EXCEPT ![s] = value]
  /\ UNCHANGED <<tries, fate, txReq, tx0if, txBuf, requester, rxVars>>

TransmitMsg(s) ==
  \/ CallTransmit(s) \/ LockToSend(s) \/ WaitForBuffer(s)
  \/ ClearTx0If(s) \/ LoadTxBuffer(s) \/ RequestToSend(s)
  \/ ClearAgain(s) \/ WaitForFlag(s)
  \/ ReturnFromTransmit(s, "sent", TRUE) \/ ReturnFromTransmit(s, "refuse", FALSE)

-----------------------------------------------------------------------------
(* receiveMsg *)

CallReceive == Goto(Receiver, "idle", "lock") /\ UNCHANGED <<tries, free, txVars, rxVars>>

LockToReceive ==
  /\ Goto(Receiver, "lock", "waitRx") /\ free /\ free' = FALSE
  /\ tries' = [tries EXCEPT ![Receiver] = 0]
  /\ UNCHANGED <<txVars, rxVars>>

(* The flags are read, again and again while both are set. *)
ReadFlags ==
  /\ Poll(Receiver, "waitRx", rxif # Buffers, "select", "giveUp")
  /\ status' = rxif
  /\ UNCHANGED <<free, txVars, rxif, gaveUp>>

\* Mutant: the retries are up, and the buffers are read after all.
GiveUpAndRead ==
  /\ Goto(Receiver, "giveUp", "select") /\ free' = TRUE
  /\ gaveUp' = TRUE
  /\ UNCHANGED <<tries, txVars, rxif, status>>

(* The mutex is given here, and once more at the end. *)
GiveUp ==
  /\ Goto(Receiver, "giveUp", "select") /\ free' = TRUE
  /\ status' = {} /\ gaveUp' = TRUE
  /\ UNCHANGED <<tries, txVars, rxif>>

(* RXB0 goes first. *)
Selected == IF "RX0IF" \in status THEN "RX0IF" ELSE "RX1IF"

Select ==
  /\ Goto(Receiver, "select", IF status = {} THEN "return" ELSE "read")
  /\ UNCHANGED <<tries, free, txVars, rxVars>>

ReadRxBuffer == Goto(Receiver, "read", "clearRx") /\ UNCHANGED <<tries, free, txVars, rxVars>>

ClearRxIf ==
  /\ Goto(Receiver, "clearRx", "return") /\ rxif' = rxif \ {Selected}
  /\ UNCHANGED <<tries, free, txVars, status, gaveUp>>

ReturnFromReceive ==
  /\ Goto(Receiver, "return", "idle") /\ free' = TRUE
  /\ UNCHANGED <<tries, txVars, rxVars>>

ReceiveMsg ==
  \/ CallReceive \/ LockToReceive \/ ReadFlags \/ GiveUp \/ Select
  \/ ReadRxBuffer \/ ClearRxIf \/ ReturnFromReceive

-----------------------------------------------------------------------------
(* The module. *)
Transmitted ==
  /\ txReq /\ txReq' = FALSE /\ tx0if' = TRUE
  /\ fate' = [s \in Senders |->
                IF s = requester /\ fate[s] = "requested" THEN "gone" ELSE fate[s]]
  /\ UNCHANGED <<taskVars, result, txBuf, requester, rxVars>>

(* Which empty buffer takes a frame is up to the filters, and clearRegister *)
(* has filled those from an uninitialised array.                            *)
FrameArrives ==
  /\ \E b \in Buffers \ rxif : rxif' = rxif \cup {b}
  /\ UNCHANGED <<taskVars, txVars, status, gaveUp>>

Next ==
  \/ \E s \in Senders : TransmitMsg(s)
  \/ ReceiveMsg \/ Transmitted \/ FrameArrives

Spec == Init /\ [][Next]_vars

-----------------------------------------------------------------------------
(* Types of the tasks', the semaphore's and the module's state. *)
TypeOK ==
  /\ pc \in [Tasks -> Pcs] /\ tries \in [Tasks -> 0 .. Retries]
  /\ \A s \in Senders : pc[s] \notin ReceivePcs
  /\ pc[Receiver] \notin TransmitPcs
  /\ free \in BOOLEAN
  /\ result \in [Senders -> BOOLEAN] /\ fate \in [Senders -> Fates]
  /\ txReq \in BOOLEAN /\ tx0if \in BOOLEAN
  /\ txBuf \in Tasks /\ requester \in Tasks
  /\ rxif \subseteq Buffers /\ status \subseteq Buffers /\ gaveUp \in BOOLEAN

(* The mutex excludes until a receiveMsg gives up: its second give          *)
(* (CanController.cpp:290 after 260) frees a semaphore that another task    *)
(* may have taken in between, and two tasks are then on the SPI bus.        *)
ExclusionUntilGiveUp ==
  gaveUp \/ \A t, u \in Tasks : pc[t] \in Inside /\ pc[u] \in Inside => t = u

(* What the module is asked to send is the asker's own frame: nobody loads  *)
(* the only transmit buffer while a request is pending, although a task may *)
(* return long before its frame is on the bus (CanController.cpp:111-144).  *)
PendingFrameIsAskers == gaveUp \/ (txReq => txBuf = requester)

(* A transmitMsg that returns TRUE has had its frame requested.  One that   *)
(* returns FALSE has sent nothing, or the frame has gone out already: the   *)
(* second loop's failure is no failure (CanController.cpp:129-140), and a   *)
(* caller that repeated the message would send it twice.                    *)
ResultsTellFates ==
  gaveUp \/ \A s \in Senders : pc[s] = "idle" =>
    IF result[s] THEN fate[s] \in {"requested", "gone"} ELSE fate[s] \in {"none", "gone"}

(* A receiveMsg gives up only when both receive buffers are full, and since *)
(* it then reads neither, they stay full: after one failure the driver      *)
(* never receives again (CanController.cpp:254-282).                        *)
GiveUpIsForEver == gaveUp => rxif = Buffers
=============================================================================
