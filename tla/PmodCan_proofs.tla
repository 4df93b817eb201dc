---------------------------- MODULE PmodCan_proofs ---------------------------
(* Theorems about the PMOD CAN driver, for any senders and any number of
   retries: what its mutex guarantees, and until when. *)
EXTENDS PmodCan, TLAPS

(* As long as no reception has given up: one task at most is inside, and none
   while the semaphore can be taken. *)
Exclusive ==
  /\ \A t, u \in Tasks : pc[t] \in Inside /\ pc[u] \in Inside => t = u
  /\ free => \A t \in Tasks : pc[t] \notin Inside

(* From the moment the transmit buffer is seen empty to the request for it,
   nothing is pending; what is requested is what was loaded. *)
BufferIsOwn ==
  /\ txReq => txBuf = requester
  /\ \A s \in Senders :
       /\ pc[s] \in {"clear", "load", "request"} => ~txReq
       /\ pc[s] = "request" => txBuf = s

(* What has become of a sender's frame, by the sender's place in transmitMsg. *)
FateAt(s) ==
  /\ pc[s] \in {"idle", "lock"} =>
       IF result[s] THEN fate[s] \in {"requested", "gone"} ELSE fate[s] \in {"none", "gone"}
  /\ pc[s] \in {"waitReq", "clear", "load", "request"} => fate[s] = "none"
  /\ pc[s] \in {"clearAgain", "waitIf", "sent"} => fate[s] \in {"requested", "gone"}
  /\ pc[s] \in {"clearAgain", "waitIf"} => requester = s
  /\ pc[s] = "waitIf" /\ tx0if => fate[s] = "gone"
  /\ pc[s] = "refuse" => fate[s] \in {"none", "gone"}

Orderly == Exclusive /\ BufferIsOwn /\ \A s \in Senders : FateAt(s)

(* Both receive buffers are full when a reception gives up, and from then on
   it comes to no place where it would empty one. *)
StaysFull ==
  /\ pc[Receiver] = "giveUp" \/ gaveUp => rxif = Buffers
  /\ gaveUp => pc[Receiver] \notin {"read", "clearRx"}
  /\ gaveUp /\ pc[Receiver] = "select" => status = {}

IInv == TypeOK /\ StaysFull /\ (gaveUp \/ Orderly)

LEMMA Distinct == Receiver \notin Senders /\ Retries \in Nat /\ 0 \in 0 .. Retries
  BY PmodAssumption

-----------------------------------------------------------------------------
(* Type correctness. *)

LEMMA PollType ==
  ASSUME TypeOK, NEW t \in Tasks, NEW label \in Pcs, NEW ready \in BOOLEAN,
         NEW next \in Pcs, NEW failed \in Pcs, Poll(t, label, ready, next, failed)
  PROVE  tries' \in [Tasks -> 0 .. Retries] /\ pc' \in [Tasks -> Pcs]
<1> USE Distinct DEF TypeOK
<1>1. CASE tries' = tries /\ (pc' = [pc EXCEPT ![t] = next] \/ pc' = [pc EXCEPT ![t] = failed])
  BY <1>1
<1>2. CASE tries[t] + 1 <= Retries /\ tries' = [tries EXCEPT ![t] = @ + 1] /\ pc' = pc
  <2>1. tries[t] \in 0 .. Retries
    OBVIOUS
  <2>2. tries[t] + 1 \in 0 .. Retries
    BY <1>2, <2>1
  <2> QED BY <1>2, <2>2
<1> QED BY <1>1, <1>2 DEF Poll, Goto

LEMMA TransmitType ==
  ASSUME TypeOK, NEW s \in Senders, TransmitMsg(s)
  PROVE  TypeOK'
<1> USE Distinct DEF TypeOK, Tasks, Pcs, Inside, TransmitPcs, ReceivePcs, Fates, Goto,
                     txVars, rxVars
<1>1. CASE CallTransmit(s) BY <1>1 DEF CallTransmit
<1>2. CASE LockToSend(s) BY <1>2 DEF LockToSend
<1>3. CASE WaitForBuffer(s)
  <2>1. tries' \in [Tasks -> 0 .. Retries] /\ pc' \in [Tasks -> Pcs]
    BY <1>3, PollType DEF WaitForBuffer
  <2>2. pc'[s] \notin ReceivePcs /\ \A t \in Tasks \ {s} : pc'[t] = pc[t]
    BY <1>3 DEF WaitForBuffer, Poll
  <2> QED BY <1>3, <2>1, <2>2 DEF WaitForBuffer
<1>4. CASE ClearTx0If(s) BY <1>4 DEF ClearTx0If
<1>5. CASE LoadTxBuffer(s) BY <1>5 DEF LoadTxBuffer
<1>6. CASE RequestToSend(s) BY <1>6 DEF RequestToSend
<1>7. CASE ClearAgain(s) BY <1>7 DEF ClearAgain
<1>8. CASE WaitForFlag(s)
  <2>1. tries' \in [Tasks -> 0 .. Retries] /\ pc' \in [Tasks -> Pcs]
    BY <1>8, PollType DEF WaitForFlag
  <2>2. pc'[s] \notin ReceivePcs /\ \A t \in Tasks \ {s} : pc'[t] = pc[t]
    BY <1>8 DEF WaitForFlag, Poll
  <2> QED BY <1>8, <2>1, <2>2 DEF WaitForFlag
<1>9. ASSUME NEW label \in {"sent", "refuse"}, NEW v \in BOOLEAN, ReturnFromTransmit(s, label, v)
      PROVE TypeOK'
  BY <1>9 DEF ReturnFromTransmit
<1> QED BY <1>1, <1>2, <1>3, <1>4, <1>5, <1>6, <1>7, <1>8, <1>9 DEF TransmitMsg

LEMMA ReceiveType ==
  ASSUME TypeOK, ReceiveMsg
  PROVE  TypeOK'
<1> USE Distinct DEF TypeOK, Tasks, Pcs, Inside, TransmitPcs, ReceivePcs, Fates, Goto,
                     txVars, rxVars
<1>1. CASE CallReceive BY <1>1 DEF CallReceive
<1>2. CASE LockToReceive BY <1>2 DEF LockToReceive
<1>3. CASE ReadFlags
  <2>1. tries' \in [Tasks -> 0 .. Retries] /\ pc' \in [Tasks -> Pcs]
    BY <1>3, PollType DEF ReadFlags
  <2>2. pc'[Receiver] \notin TransmitPcs /\ \A t \in Tasks \ {Receiver} : pc'[t] = pc[t]
    BY <1>3 DEF ReadFlags, Poll
  <2> QED BY <1>3, <2>1, <2>2 DEF ReadFlags
<1>4. CASE GiveUp BY <1>4 DEF GiveUp
<1>5. CASE Select BY <1>5 DEF Select
<1>6. CASE ReadRxBuffer BY <1>6 DEF ReadRxBuffer
<1>7. CASE ClearRxIf BY <1>7 DEF ClearRxIf
<1>8. CASE ReturnFromReceive BY <1>8 DEF ReturnFromReceive
<1> QED BY <1>1, <1>2, <1>3, <1>4, <1>5, <1>6, <1>7, <1>8 DEF ReceiveMsg

LEMMA TypeStep == TypeOK /\ [Next]_vars => TypeOK'
<1> SUFFICES ASSUME TypeOK, [Next]_vars PROVE TypeOK'
  OBVIOUS
<1>1. CASE \E s \in Senders : TransmitMsg(s) BY <1>1, TransmitType
<1>2. CASE ReceiveMsg BY <1>2, ReceiveType
<1>3. CASE Transmitted BY <1>3 DEF Transmitted, TypeOK, Fates, taskVars, rxVars
<1>4. CASE FrameArrives BY <1>4 DEF FrameArrives, TypeOK, Buffers, taskVars, txVars
<1>5. CASE UNCHANGED vars BY <1>5 DEF TypeOK, vars, taskVars, txVars, rxVars
<1> QED BY <1>1, <1>2, <1>3, <1>4, <1>5 DEF Next

-----------------------------------------------------------------------------
(* A reception that gives up finds both buffers full and leaves them so. *)

LEMMA StaysFullStep == TypeOK /\ StaysFull /\ [Next]_vars => StaysFull'
<1> SUFFICES ASSUME TypeOK, StaysFull, [Next]_vars PROVE StaysFull'
  OBVIOUS
<1> USE Distinct DEF TypeOK, StaysFull, Tasks, Goto, taskVars, txVars, rxVars
<1>1. ASSUME NEW s \in Senders, TransmitMsg(s) PROVE StaysFull'
  <2>1. rxVars' = rxVars
    BY <1>1 DEF TransmitMsg, CallTransmit, LockToSend, WaitForBuffer, ClearTx0If,
                LoadTxBuffer, RequestToSend, ClearAgain, WaitForFlag, ReturnFromTransmit
  <2>2. pc'[Receiver] = pc[Receiver]
    BY <1>1 DEF TransmitMsg, CallTransmit, LockToSend, WaitForBuffer, ClearTx0If, LoadTxBuffer,
                RequestToSend, ClearAgain, WaitForFlag, ReturnFromTransmit, Poll
  <2> QED BY <2>1, <2>2
<1>2. CASE CallReceive BY <1>2 DEF CallReceive
<1>3. CASE LockToReceive BY <1>3 DEF LockToReceive
<1>4. CASE ReadFlags BY <1>4 DEF ReadFlags, Poll
<1>5. CASE GiveUp BY <1>5 DEF GiveUp
<1>6. CASE Select BY <1>6 DEF Select
<1>7. CASE ReadRxBuffer BY <1>7 DEF ReadRxBuffer
<1>8. CASE ClearRxIf BY <1>8 DEF ClearRxIf
<1>9. CASE ReturnFromReceive BY <1>9 DEF ReturnFromReceive
<1>10. CASE Transmitted BY <1>10 DEF Transmitted
<1>11. CASE FrameArrives BY <1>11 DEF FrameArrives
<1>12. CASE UNCHANGED vars BY <1>12 DEF vars
<1> QED BY <1>1, <1>2, <1>3, <1>4, <1>5, <1>6, <1>7, <1>8, <1>9, <1>10, <1>11, <1>12
        DEF Next, ReceiveMsg

-----------------------------------------------------------------------------
(* Whoever moves inside stays the only one there; whoever enters found the
   semaphore free; whoever leaves gives it back. *)

LEMMA ExclusiveStays ==
  ASSUME TypeOK, Exclusive, NEW t \in Tasks, pc[t] \in Inside,
         \A u \in Tasks \ {t} : pc'[u] = pc[u],
         free' = free \/ pc'[t] \notin Inside
  PROVE  Exclusive'
  BY DEF TypeOK, Exclusive

LEMMA ExclusiveEnters ==
  ASSUME TypeOK, Exclusive, NEW t \in Tasks, pc[t] \notin Inside,
         \A u \in Tasks \ {t} : pc'[u] = pc[u],
         (free' = free /\ pc'[t] \notin Inside) \/ (free /\ ~free')
  PROVE  Exclusive'
  BY DEF TypeOK, Exclusive

(* Every step of a task is one of the two, and moves no other task; a
   reception that has given up is the exception. *)
LEMMA SenderMoves ==
  ASSUME TypeOK, NEW s \in Senders, TransmitMsg(s)
  PROVE  /\ \A u \in Tasks \ {s} : pc'[u] = pc[u]
         /\ \/ pc[s] \in Inside /\ (free' = free \/ pc'[s] \notin Inside)
            \/ /\ pc[s] \notin Inside
               /\ (free' = free /\ pc'[s] \notin Inside) \/ (free /\ ~free')
  BY Distinct DEF TypeOK, Tasks, Inside, TransmitPcs, ReceivePcs, Goto, Poll, TransmitMsg,
     CallTransmit, LockToSend, WaitForBuffer, ClearTx0If, LoadTxBuffer, RequestToSend,
     ClearAgain, WaitForFlag, ReturnFromTransmit

LEMMA ReceiverMoves ==
  ASSUME TypeOK, ReceiveMsg, ~gaveUp'
  PROVE  /\ \A u \in Tasks \ {Receiver} : pc'[u] = pc[u]
         /\ \/ pc[Receiver] \in Inside /\ (free' = free \/ pc'[Receiver] \notin Inside)
            \/ /\ pc[Receiver] \notin Inside
               /\ (free' = free /\ pc'[Receiver] \notin Inside) \/ (free /\ ~free')
         /\ txVars' = txVars
  BY Distinct DEF TypeOK, Tasks, Inside, TransmitPcs, ReceivePcs, Goto, Poll, ReceiveMsg,
     CallReceive, LockToReceive, ReadFlags, GiveUp, Select, ReadRxBuffer, ClearRxIf,
     ReturnFromReceive

LEMMA ExclusiveStep ==
  ASSUME TypeOK, Exclusive, [Next]_vars, ~gaveUp'
  PROVE  Exclusive'
<1>1. ASSUME NEW s \in Senders, TransmitMsg(s) PROVE Exclusive'
  <2>1. s \in Tasks
    BY DEF Tasks
  <2> QED BY <1>1, <2>1, SenderMoves, ExclusiveStays, ExclusiveEnters
<1>2. CASE ReceiveMsg
  <2>1. Receiver \in Tasks
    BY DEF Tasks
  <2> QED BY <1>2, <2>1, ReceiverMoves, ExclusiveStays, ExclusiveEnters
<1>3. CASE Transmitted BY <1>3 DEF Transmitted, taskVars, Exclusive
<1>4. CASE FrameArrives BY <1>4 DEF FrameArrives, taskVars, Exclusive
<1>5. CASE UNCHANGED vars BY <1>5 DEF vars, taskVars, Exclusive
<1> QED BY <1>1, <1>2, <1>3, <1>4, <1>5 DEF Next

-----------------------------------------------------------------------------
(* The transmit buffer and the frames' fates. *)

LEMMA OthersOutside ==
  ASSUME Exclusive, NEW s \in Senders, pc[s] \in Inside
  PROVE  \A o \in Senders \ {s} : pc[o] \notin Inside
  BY DEF Exclusive, Tasks

(* A sender that loads or asks is alone inside, so nobody else relies on the
   buffer's being empty. *)
LEMMA BufferStep ==
  ASSUME TypeOK, Orderly, [Next]_vars, ~gaveUp'
  PROVE  BufferIsOwn'
<1> USE Distinct DEF TypeOK, BufferIsOwn, Tasks, Goto, taskVars, txVars, rxVars
<1>1. ASSUME NEW s \in Senders, TransmitMsg(s) PROVE BufferIsOwn'
  <2> DEFINE Busy == {"clear", "load", "request"}
  <2>1. \A o \in Senders \ {s} : pc'[o] = pc[o]
    BY <1>1, SenderMoves
  <2>2. pc[s] \in Inside => \A o \in Senders \ {s} : pc'[o] \notin Busy
    BY <2>1, OthersOutside DEF Orderly, Inside, TransmitPcs
  <2>3. BufferIsOwn
    BY DEF Orderly
  <2> HIDE DEF Busy
  <2>4. CASE CallTransmit(s) BY <2>1, <2>3, <2>4 DEF CallTransmit
  <2>5. CASE LockToSend(s) BY <2>1, <2>3, <2>5 DEF LockToSend
  <2>6. CASE WaitForBuffer(s) BY <2>1, <2>3, <2>6 DEF WaitForBuffer, Poll
  <2>7. CASE ClearTx0If(s) BY <2>1, <2>3, <2>7 DEF ClearTx0If
  <2>8. CASE LoadTxBuffer(s)
    BY <2>1, <2>2, <2>3, <2>8 DEF LoadTxBuffer, Busy, Inside, TransmitPcs
  <2>9. CASE RequestToSend(s)
    BY <2>1, <2>2, <2>3, <2>9 DEF RequestToSend, Busy, Inside, TransmitPcs
  <2>10. CASE ClearAgain(s) BY <2>1, <2>3, <2>10 DEF ClearAgain
  <2>11. CASE WaitForFlag(s) BY <2>1, <2>3, <2>11 DEF WaitForFlag, Poll
  <2>12. ASSUME NEW label \in {"sent", "refuse"}, NEW v \in BOOLEAN,
                ReturnFromTransmit(s, label, v)
         PROVE  BufferIsOwn'
    BY <2>1, <2>3, <2>12 DEF ReturnFromTransmit
  <2> QED BY <1>1, <2>4, <2>5, <2>6, <2>7, <2>8, <2>9, <2>10, <2>11, <2>12 DEF TransmitMsg
<1>2. CASE ReceiveMsg
  BY <1>2, ReceiverMoves DEF Orderly
<1>3. CASE Transmitted BY <1>3 DEF Transmitted, Orderly
<1>4. CASE FrameArrives BY <1>4 DEF FrameArrives, Orderly
<1>5. CASE UNCHANGED vars BY <1>5 DEF vars, Orderly
<1> QED BY <1>1, <1>2, <1>3, <1>4, <1>5 DEF Next

LEMMA FateStep ==
  ASSUME TypeOK, Orderly, [Next]_vars, ~gaveUp', NEW o \in Senders
  PROVE  FateAt(o)'
<1> USE Distinct DEF TypeOK, Tasks, Goto, taskVars, txVars, rxVars
<1>0. FateAt(o)
  BY DEF Orderly
<1>1. ASSUME NEW s \in Senders, TransmitMsg(s), s # o PROVE FateAt(o)'
  <2>1. pc'[o] = pc[o]
    BY <1>1, SenderMoves
  <2>2. result'[o] = result[o] /\ fate'[o] = fate[o]
    BY <1>1 DEF TransmitMsg, CallTransmit, LockToSend, WaitForBuffer, ClearTx0If, LoadTxBuffer,
                RequestToSend, ClearAgain, WaitForFlag, ReturnFromTransmit
  <2>3. (tx0if' = tx0if \/ ~tx0if') /\ (requester' = requester \/ pc[s] \in Inside)
    BY <1>1 DEF TransmitMsg, CallTransmit, LockToSend, WaitForBuffer, ClearTx0If, LoadTxBuffer,
                RequestToSend, ClearAgain, WaitForFlag, ReturnFromTransmit, Inside, TransmitPcs
  <2>4. pc[s] \in Inside => pc[o] \notin {"clearAgain", "waitIf"}
    BY <1>1, OthersOutside DEF Orderly, Inside, TransmitPcs
  <2> QED BY <1>0, <2>1, <2>2, <2>3, <2>4 DEF FateAt
<1>2. CASE TransmitMsg(o)
  <2>1. CASE CallTransmit(o) BY <1>0, <2>1 DEF FateAt, CallTransmit
  <2>2. CASE LockToSend(o) BY <1>0, <2>2 DEF FateAt, LockToSend
  <2>3. CASE WaitForBuffer(o) BY <1>0, <2>3 DEF FateAt, WaitForBuffer, Poll
  <2>4. CASE ClearTx0If(o) BY <1>0, <2>4 DEF FateAt, ClearTx0If
  <2>5. CASE LoadTxBuffer(o) BY <1>0, <2>5 DEF FateAt, LoadTxBuffer
  <2>6. CASE RequestToSend(o) BY <1>0, <2>6 DEF FateAt, RequestToSend
  <2>7. CASE ClearAgain(o) BY <1>0, <2>7 DEF FateAt, ClearAgain
  <2>8. CASE WaitForFlag(o) BY <1>0, <2>8 DEF FateAt, WaitForFlag, Poll
  <2>9. CASE ReturnFromTransmit(o, "sent", TRUE) BY <1>0, <2>9 DEF FateAt, ReturnFromTransmit
  <2>10. CASE ReturnFromTransmit(o, "refuse", FALSE) BY <1>0, <2>10 DEF FateAt, ReturnFromTransmit
  <2> QED BY <1>2, <2>1, <2>2, <2>3, <2>4, <2>5, <2>6, <2>7, <2>8, <2>9, <2>10 DEF TransmitMsg
<1>3. CASE ReceiveMsg
  BY <1>0, <1>3, ReceiverMoves DEF FateAt
<1>4. CASE Transmitted BY <1>0, <1>4 DEF Transmitted, FateAt, Fates
<1>5. CASE FrameArrives BY <1>0, <1>5 DEF FrameArrives, FateAt
<1>6. CASE UNCHANGED vars BY <1>0, <1>6 DEF vars, FateAt
<1> QED BY <1>1, <1>2, <1>3, <1>4, <1>5, <1>6 DEF Next

-----------------------------------------------------------------------------
(* The inductive invariant. *)

LEMMA InitInv == Init => IInv
  BY Distinct DEF Init, IInv, TypeOK, StaysFull, Orderly, Exclusive, BufferIsOwn, FateAt,
     Tasks, Pcs, Inside, TransmitPcs, ReceivePcs, Fates, Buffers

LEMMA StepInv == IInv /\ [Next]_vars => IInv'
<1> SUFFICES ASSUME IInv, [Next]_vars PROVE IInv'
  OBVIOUS
<1>1. TypeOK' /\ StaysFull'
  BY TypeStep, StaysFullStep DEF IInv
<1>2. gaveUp => gaveUp'
  BY DEF Next, vars, taskVars, txVars, rxVars, TransmitMsg, CallTransmit, LockToSend,
     WaitForBuffer, ClearTx0If, LoadTxBuffer, RequestToSend, ClearAgain, WaitForFlag,
     ReturnFromTransmit, ReceiveMsg, CallReceive, LockToReceive, ReadFlags, GiveUp, Select,
     ReadRxBuffer, ClearRxIf, ReturnFromReceive, Transmitted, FrameArrives
<1>3. CASE gaveUp' BY <1>1, <1>3 DEF IInv
<1>4. CASE ~gaveUp'
  <2>1. TypeOK /\ Orderly /\ Exclusive
    BY <1>2, <1>4 DEF IInv, Orderly
  <2>2. Exclusive' /\ BufferIsOwn' /\ \A s \in Senders : FateAt(s)'
    BY <1>4, <2>1, ExclusiveStep, BufferStep, FateStep
  <2> QED BY <1>1, <2>2 DEF IInv, Orderly
<1> QED BY <1>3, <1>4

LEMMA Inv == Spec => []IInv
  BY InitInv, StepInv, PTL DEF Spec

(* Types, for every set of senders and every number of retries. *)
THEOREM PmodTypeCorrect == Spec => []TypeOK
<1>1. IInv => TypeOK
  BY DEF IInv
<1> QED BY <1>1, Inv, PTL

(* One task at a time uses the SPI bus until a reception has given up. *)
THEOREM PmodExclusion == Spec => []ExclusionUntilGiveUp
<1>1. IInv => ExclusionUntilGiveUp
  BY DEF IInv, Orderly, Exclusive, ExclusionUntilGiveUp
<1> QED BY <1>1, Inv, PTL

(* The pending frame is its requester's. *)
THEOREM PmodPending == Spec => []PendingFrameIsAskers
<1>1. IInv => PendingFrameIsAskers
  BY DEF IInv, Orderly, BufferIsOwn, PendingFrameIsAskers
<1> QED BY <1>1, Inv, PTL

(* What transmitMsg returns and what became of the frame. *)
THEOREM PmodResults == Spec => []ResultsTellFates
<1>1. IInv => ResultsTellFates
  BY DEF IInv, Orderly, FateAt, ResultsTellFates
<1> QED BY <1>1, Inv, PTL

(* After one reception has given up the receive buffers stay full for ever. *)
THEOREM PmodGiveUp == Spec => []GiveUpIsForEver
<1>1. IInv => GiveUpIsForEver
  BY DEF IInv, StaysFull, GiveUpIsForEver
<1> QED BY <1>1, Inv, PTL
=============================================================================
