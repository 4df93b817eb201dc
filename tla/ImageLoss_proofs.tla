--------------------------- MODULE ImageLoss_proofs ---------------------------
(***************************************************************************)
(* The pipeline when frames, markers and confirmations are lost and other  *)
(* nodes send on the same bus: what is published is still in order, a loss *)
(* or a foreign frame costs the image it hits and at most the one after    *)
(* it, the pipeline implements LossyDelivery, and communicationTask is not *)
(* killed by a full queue.                                                 *)
(***************************************************************************)
EXTENDS ImagePipeline_proofs, FiniteSetTheorems

\* Anything may be lost and texts may end in 0xFF, but no data frame is taken for
\* a marker, and the camera waits as long as its answer may still come.
Lossy == FaultKinds \subseteq {"loss", "trailingFF"} /\ "short" \notin ForeignIds

-------------------------------------------------------------------------------
(* The handshake under loss.  A camera that waits in vain has met a fault;  *)
(* otherwise it stands still while communicationTask works on its chunk.    *)

\* f, if it is the camera's, is of the chunk the camera is at, or of an image
\* some fault touched.
Excused(f) == f.id = "camera" => (f.img = camImg /\ f.chunk = camChunk) \/ f.img \in damaged

AllExcused(s) == \A k \in 1..Len(s) : Excused(s[k])

LossyInv ==
  /\ AllExcused(rxMsgVector)
  /\ commPc \in {"delay10", "confirm"} => \A k \in 1..Len(rxMsgVector) : rxMsgVector[k].id # "camera"
  /\ (rxNotified \/ CommBusy) /\ endOfImage => IsLast
  /\ CommBusy => camWait /\ ~rxNotified
  /\ rxNotified => camWait /\ recvDone
  /\ commPc = "readDone" => recvDone
  /\ CommBusy /\ commPc # "readDone" => assembleCbor
  /\ camWait /\ Unanswered => camImg \in damaged
  /\ commPc \in {"resetDone", "copy", "copying", "store", "complete"} /\ isEndOfImage => IsLast
  /\ commPc \in {"copying", "store", "complete"} => AllExcused(batch) /\ Excused(lastFrame)

LEMMA LossyInit == Init => LossyInv
  <1> SUFFICES ASSUME Init PROVE LossyInv
    OBVIOUS
  <1>1. rxMsgVector = <<>> /\ commPc = "take" /\ ~rxNotified /\ ~camWait
    BY DEF Init, LinkInit, ReceptionInit
  <1>2. QED
    BY <1>1 DEF LossyInv, AllExcused, CommBusy

LEMMA LossyElsewhere == LossyInv /\ UNCHANGED <<linkVars, rxVars, commVars>> => LossyInv'
  BY DEF LossyInv, AllExcused, Excused, IsLast, LastChunk, CommBusy, Unanswered, linkVars, rxVars, commVars

LEMMA AppendExcused ==
  ASSUME TypeOK, AllExcused(rxMsgVector), NEW f \in Frame, Excused(f), RecvData(f),
         UNCHANGED <<camImg, camChunk>>, damaged \subseteq damaged'
  PROVE  AllExcused(rxMsgVector)'
  <1>1. rxMsgVector \in Seq(Frame) /\ rxMsgVector' = Append(rxMsgVector, f)
    BY DEF TypeOK, ReceptionTypeOK, RecvData
  <1>2. ASSUME NEW k \in 1..Len(rxMsgVector')
        PROVE  rxMsgVector'[k] = f \/ (k \in 1..Len(rxMsgVector) /\ rxMsgVector'[k] = rxMsgVector[k])
    BY <1>1
  <1>3. QED
    BY <1>2 DEF AllExcused, Excused

LEMMA DamageGrows == ASSUME NoFault \/ Fault PROVE damaged \subseteq damaged'
  BY DEF NoFault, Fault

LEMMA LossyBus == ASSUME Lossy, TypeOK, LossyInv, Bus PROVE LossyInv'
  <1>0. UNCHANGED taskVars
    BY DEF Bus, CameraData, CameraEndOfFrame, LoseFrame, OtherNode, CameraTimeout
  <1>1. CASE CameraData
    <2>1. PICK f \in CameraFrame : SendFrame(f) /\ RecvData(f) /\ (NoFault \/ Fault)
      BY <1>1 DEF CameraData, MayFault, Lossy
    <2>2. /\ Excused(f) /\ f \in Frame /\ ~camWait /\ UNCHANGED <<camImg, camChunk, camWait>>
          /\ damaged \subseteq damaged'
      BY <2>1, DamageGrows DEF SendFrame, Excused, Frame
    <2>3. AllExcused(rxMsgVector)'
      BY <2>1, <2>2, AppendExcused DEF LossyInv
    <2>4. ~CommBusy /\ UNCHANGED <<commPc, recvDone, rxNotified>>
      BY <1>0, <2>1, <2>2 DEF LossyInv, taskVars, commVars, RecvData
    <2>5. QED
      BY <2>2, <2>3, <2>4 DEF LossyInv, CommBusy, Unanswered
  <1>2. CASE CameraEndOfFrame
    <2>1. ~camWait /\ camWait' /\ UNCHANGED <<camImg, camChunk, damaged>>
      BY <1>2 DEF CameraEndOfFrame, SendEndOfFrame, NoFault
    <2>2. recvDone' /\ rxNotified' /\ endOfImage' = IsLast /\ UNCHANGED rxMsgVector
      BY <1>2 DEF CameraEndOfFrame, RecvEndOfFrame
    <2>3. ~CommBusy /\ UNCHANGED commPc
      BY <1>0, <2>1 DEF LossyInv, taskVars, commVars
    <2>4. endOfImage' => IsLast'
      BY <2>1, <2>2 DEF IsLast, LastChunk
    <2>5. QED
      BY <2>1, <2>2, <2>3, <2>4 DEF LossyInv, CommBusy, Unanswered, AllExcused, Excused
  <1>3. CASE LoseFrame
    <2>1. ~camWait /\ UNCHANGED <<camImg, camChunk, rxVars, commVars>> /\ camImg \in damaged'
          /\ damaged \subseteq damaged'
      BY <1>0, <1>3 DEF LoseFrame, SendFrame, SendEndOfFrame, Fault, taskVars
    <2>2. ~CommBusy /\ ~rxNotified
      BY <2>1 DEF LossyInv
    <2>3. AllExcused(rxMsgVector)'
      BY <2>1 DEF LossyInv, AllExcused, Excused, rxVars
    <2>4. QED
      BY <2>1, <2>2, <2>3 DEF LossyInv, CommBusy, Unanswered, rxVars, commVars
  <1>4. CASE OtherNode
    <2>1. PICK id \in ForeignIds : RecvData([id |-> id])
      BY <1>4 DEF OtherNode, Lossy
    <2>2. [id |-> id] \in Frame /\ id # "camera" /\ Excused([id |-> id])
      BY <2>1, LinkAssumption DEF Lossy, Frame, ForeignFrame, Excused
    <2>3. UNCHANGED <<camImg, camChunk, camWait, damaged, recvDone, rxNotified, commVars>>
      BY <1>4, <2>1 DEF OtherNode, taskVars, RecvData
    <2>4. AllExcused(rxMsgVector)'
      BY <2>1, <2>2, <2>3, AppendExcused DEF LossyInv
    <2>5. (\A k \in 1..Len(rxMsgVector) : rxMsgVector[k].id # "camera")
             => \A k \in 1..Len(rxMsgVector') : rxMsgVector'[k].id # "camera"
      <3>1. rxMsgVector \in Seq(Frame) /\ rxMsgVector' = Append(rxMsgVector, [id |-> id])
        BY <2>1 DEF TypeOK, ReceptionTypeOK, RecvData
      <3>2. ASSUME NEW k \in 1..Len(rxMsgVector')
            PROVE  \/ rxMsgVector'[k] = [id |-> id]
                   \/ k \in 1..Len(rxMsgVector) /\ rxMsgVector'[k] = rxMsgVector[k]
        BY <3>1, <2>2
      <3>3. QED
        BY <2>2, <3>2
    <2>6. ~endOfImage'
      BY <2>1 DEF RecvData
    <2>7. QED
      BY <2>3, <2>4, <2>5, <2>6
      DEF LossyInv, AllExcused, Excused, IsLast, LastChunk, CommBusy, Unanswered, commVars
  <1>5. CASE CameraTimeout
    <2>1. /\ camWait /\ Unanswered /\ NoFault /\ (Resend \/ Advance)
          /\ UNCHANGED <<rxVars, commVars>>
      BY <1>0, <1>5 DEF CameraTimeout, MayFault, Lossy, taskVars
    <2>2. ~camWait' /\ ~CommBusy /\ ~rxNotified /\ commPc \in {"take", "delay100"} /\ UNCHANGED damaged
      BY <2>1 DEF Resend, Advance, Unanswered, LossyInv, CommBusy, NoFault
    <2>3. AllExcused(rxMsgVector)'
      <3>1. camImg \in damaged
        BY <2>1 DEF LossyInv
      <3>2. QED
        BY <2>1, <2>2, <3>1 DEF LossyInv, AllExcused, Excused, rxVars
    <2>4. QED
      BY <2>1, <2>2, <2>3 DEF LossyInv, CommBusy, rxVars, commVars
  <1>6. QED
    BY <1>1, <1>2, <1>3, <1>4, <1>5 DEF Bus

LEMMA CopyExcused ==
  ASSUME TypeOK, AllExcused(batch), AllExcused(rxMsgVector), CopyEnd, UNCHANGED <<camImg, camChunk, damaged>>
  PROVE  AllExcused(batch)'
  <1> DEFINE moved == [k \in DOMAIN batch |-> IF k = 1 THEN [id |-> "other"] ELSE batch[k]]
  <1>1. batch' \in {batch, rxMsgVector, moved}
    BY DEF CopyEnd, Copies
  <1>2. DOMAIN batch = 1..Len(batch) /\ Len(batch) \in Nat
    BY DEF TypeOK, ReceptionTypeOK
  <1>3. /\ Len(moved) = Len(batch)
        /\ \A k \in 1..Len(batch) : moved[k].id = "other" \/ moved[k] = batch[k]
    BY <1>2
  <1>4. CASE batch' = moved
    <2> HIDE DEF moved
    <2>1. ASSUME NEW k \in 1..Len(batch') PROVE Excused(batch[k])'
      BY <1>3, <1>4, <2>1 DEF AllExcused, Excused
    <2>2. QED
      BY <2>1 DEF AllExcused
  <1>5. CASE batch' \in {batch, rxMsgVector}
    BY <1>5 DEF AllExcused, Excused
  <1>6. QED
    BY <1>1, <1>4, <1>5

LEMMA LossyCommStep ==
  ASSUME TypeOK, LossyInv, CommStep, UNCHANGED linkVars PROVE LossyInv'
  <1> UNCHANGED <<camImg, camChunk, camWait, damaged>> /\ (IsLast' <=> IsLast)
    BY DEF linkVars, IsLast, LastChunk
  <1> USE DEF LossyInv, CommBusy, Unanswered, CommGoto
  <1>1. CASE ReadDone
    BY <1>1 DEF ReadDone, rxVars, AllExcused, Excused
  <1>2. CASE ReadEoi
    BY <1>2 DEF ReadEoi, rxVars, AllExcused, Excused
  <1>3. CASE ResetDone
    BY <1>3 DEF ResetDone, AllExcused, Excused
  <1>4. CASE CopyBegin
    BY <1>4 DEF CopyBegin, rxVars, AllExcused, Excused, NoFrame
  <1>5. CASE CopyEnd
    <2>1. AllExcused(batch)'
      BY <1>5, CopyExcused DEF CopyEnd
    <2>2. commPc' = "store" /\ UNCHANGED <<rxVars, assembleCbor, isEndOfImage, lastFrame>>
      BY <1>5 DEF CopyEnd
    <2>3. QED
      BY <1>5, <2>1, <2>2 DEF CopyEnd, rxVars, AllExcused, Excused
  <1>6. CASE Store
    <2>1. commPc = "store" /\ commPc' \in {"store", "dead"}
      BY <1>6 DEF Store, StoreMsg
    <2>2. stored + 1 \in 1..Len(batch)
      BY <1>6 DEF Store, TypeOK, ReceptionTypeOK
    <2>3. Excused(lastFrame)'
      BY <1>6, <2>1, <2>2 DEF Store, AllExcused, Excused
    <2>4. UNCHANGED <<rxMsgVector, recvDone, endOfImage, rxNotified, assembleCbor, isEndOfImage, batch>>
      BY <1>6 DEF Store, rxVars
    <2>5. AllExcused(rxMsgVector)' /\ AllExcused(batch)'
      BY <2>1, <2>4 DEF AllExcused, Excused
    <2>6. QED
      BY <2>1, <2>3, <2>4, <2>5
  <1>7. CASE StoreEnd
    BY <1>7 DEF StoreEnd, rxVars, AllExcused, Excused
  <1>8. CASE CompletedFrame
    BY <1>8 DEF CompletedFrame, rxVars, AllExcused, Excused
  <1>9. CASE ClearBuffer
    BY <1>9 DEF ClearBuffer, AllExcused, Excused
  <1>10. QED
    BY <1>1, <1>2, <1>3, <1>4, <1>5, <1>6, <1>7, <1>8, <1>9 DEF CommStep

LEMMA LossyComm == ASSUME Lossy, TypeOK, LossyInv, Comm PROVE LossyInv'
  <1>1. CASE CommTake
    BY <1>1 DEF CommTake, Take, CommGoto, LossyInv, CommBusy, Unanswered,
                AllExcused, Excused, IsLast, LastChunk, linkVars
  <1>2. CASE CommRun
    BY <1>2, LossyCommStep DEF CommRun
  <1>3. CASE CommTick
    BY <1>3 DEF CommTick, DelayOver, CommGoto, LossyInv, CommBusy, Unanswered,
                AllExcused, Excused, IsLast, LastChunk, linkVars, rxVars
  <1>4. CASE CommConfirm
    <2>1. /\ commPc = "confirm" /\ commPc' = "delay100" /\ UNCHANGED rxVars
          /\ camWait /\ ~rxNotified
      BY <1>4 DEF CommConfirm, Confirm, CommGoto, LossyInv, CommBusy
    <2>2. ~camWait' \/ (camImg \in damaged' /\ UNCHANGED camImg)
      BY <1>4, <2>1 DEF CommConfirm, Confirmed, Advance, Fault
    <2>3. AllExcused(rxMsgVector)'
      BY <2>1 DEF LossyInv, AllExcused, Excused, rxVars
    <2>4. QED
      BY <2>1, <2>2, <2>3 DEF LossyInv, CommBusy, Unanswered, rxVars
  <1>5. QED
    BY <1>1, <1>2, <1>3, <1>4 DEF Comm

LEMMA LossyStep == ASSUME Lossy, TypeOK, LossyInv, [Next]_vars PROVE LossyInv'
  <1>1. CASE Bus
    BY <1>1, LossyBus
  <1>2. CASE Comm
    BY <1>2, LossyComm
  <1>3. CASE Asm \/ ClsRun \/ UNCHANGED vars
    BY <1>3, LossyElsewhere DEF Asm, AsmTakes, AsmFrame, AsmImage, AsmPublish, ClsRun, vars
  <1>4. QED
    BY <1>1, <1>2, <1>3 DEF Next

LEMMA LossyAlways == ASSUME Lossy PROVE Spec => []LossyInv
  <1>1. TypeOK /\ LossyInv /\ [Next]_vars => LossyInv'
    BY LossyStep
  <1>2. QED
    BY <1>1, LossyInit, TypeCorrect, PTL DEF Spec

-------------------------------------------------------------------------------
(* When the assembler works, images of any size allowed: one that does not  *)
(* fit leaves the mutex taken, and the next publication waits for ever.     *)

Stuck == asmPc = "publish" /\ imgMutex /\ clsPc # "dims"

AnsweringInv ==
  /\ commPc = "confirm" => clsPc # "dims"
  /\ asmNotify.pending \/ asmPc # "wait" => commPc \in Answering \/ Stuck

LEMMA AnsweringInit == Init => AnsweringInv
  BY DEF Init, ReceptionInit, AssemblerInit, AnsweringInv

\* Outside Answering the assembler waits, or is stuck in a publication.
LEMMA NotAnswering ==
  ASSUME AnsweringInv, commPc \notin Answering
  PROVE  asmPc = "publish" \/ (asmPc = "wait" /\ ~asmNotify.pending)
  BY DEF AnsweringInv, Stuck

LEMMA AnsweringCommStep ==
  ASSUME AnsweringInv, CommStep, UNCHANGED <<sharedVars, clsVars, asmVars>>
  PROVE  AnsweringInv'
  <1>0. UNCHANGED <<imgMutex, clsPc, asmPc>>
    BY DEF sharedVars, clsVars, asmVars
  <1>1. CASE ReadDone \/ ReadEoi \/ ResetDone \/ CopyBegin \/ CopyEnd \/ Store \/ StoreEnd
    <2>1. /\ commPc \in {"readDone", "readEoi", "resetDone", "copy", "copying", "store"}
          /\ UNCHANGED asmNotify
      BY <1>1 DEF ReadDone, ReadEoi, ResetDone, CopyBegin, CopyEnd, Store, StoreEnd, CommGoto, queueVars
    <2>2. commPc' # "confirm"
      BY <1>1 DEF ReadDone, ReadEoi, ResetDone, CopyBegin, CopyEnd, Store, StoreMsg, StoreEnd, CommGoto
    <2>3. QED
      BY <1>0, <2>1, <2>2 DEF AnsweringInv, Answering, Stuck
  <1>2. CASE CompletedFrame \/ ClearBuffer
    <2>1. commPc' \in {"clear", "delay10"}
      BY <1>2 DEF CompletedFrame, ClearBuffer, CommGoto
    <2>2. QED
      BY <1>0, <2>1 DEF AnsweringInv, Answering
  <1>3. QED
    BY <1>1, <1>2 DEF CommStep

LEMMA AnsweringStep == ASSUME TypeOK, AnsweringInv, [Next]_vars PROVE AnsweringInv'
  <1>1. CASE Bus
    <2>1. UNCHANGED taskVars
      BY <1>1 DEF Bus, CameraData, CameraEndOfFrame, LoseFrame, OtherNode, CameraTimeout
    <2>2. QED
      BY <2>1 DEF taskVars, commVars, queueVars, sharedVars, clsVars, asmVars, AnsweringInv, Answering, Stuck
  <1>2. CASE CommTake
    BY <1>2 DEF CommTake, Take, CommGoto, queueVars, sharedVars, clsVars, asmVars, AnsweringInv, Answering, Stuck
  <1>3. CASE CommRun
    BY <1>3, AnsweringCommStep DEF CommRun
  <1>4. CASE CommTick
    BY <1>4 DEF CommTick, DelayOver, CommGoto, queueVars, sharedVars, clsVars, asmVars, AnsweringInv,
                Answering, Stuck
  <1>5. CASE CommConfirm
    <2>1. /\ commPc = "confirm" /\ commPc' = "delay100" /\ ~AsmReady
          /\ UNCHANGED <<asmNotify, asmPc, imgMutex, clsPc>>
      BY <1>5 DEF CommConfirm, Confirm, CommGoto, queueVars, sharedVars, clsVars, asmVars
    <2>2. asmPc \in {"wait", "frame", "image", "publish"}
      BY DEF TypeOK, AssemblerTypeOK
    <2>3. asmNotify.pending \/ asmPc # "wait" => Stuck
      BY <2>1, <2>2 DEF AsmReady, AnsweringInv, Stuck
    <2>4. QED
      BY <2>1, <2>3 DEF AnsweringInv, Stuck
  <1>6. CASE AsmTakes \/ AsmFrame \/ AsmImage
    <2>1. asmPc # "publish" /\ commPc \in Answering
      BY <1>6 DEF AsmTakes, AsmWait, AsmFrame, AssembleFrame, AsmImage, AssembleImage, AsmGoto,
                  AnsweringInv, Stuck
    <2>2. UNCHANGED <<commPc, clsPc>>
      BY <1>6 DEF AsmTakes, AsmFrame, AsmImage, commVars, clsVars
    <2>3. QED
      BY <2>1, <2>2 DEF AnsweringInv, Answering
  <1>7. CASE AsmPublish
    <2>1. asmPc = "publish" /\ ~imgMutex
      BY <1>7 DEF AsmPublish, Publish, AsmGoto, SetImage
    <2>2. commPc \in Answering /\ UNCHANGED <<commPc, clsPc>>
      BY <1>7, <2>1 DEF AnsweringInv, Stuck, AsmPublish, commVars
    <2>3. QED
      BY <2>2 DEF AnsweringInv, Answering
  <1>8. CASE ClsRun
    <2>1. UNCHANGED <<commPc, asmNotify, asmPc>> /\ commPc # "confirm"
      BY <1>8 DEF ClsRun, CommReady, commVars, queueVars, asmVars
    <2>2. Stuck => Stuck'
      BY <1>8, <2>1 DEF Stuck, ClsRun, ClsStep, ClsTake, ClsLock, ClsDims, ClsTop, ClsBottom, ClsGoto, sharedVars
    <2>3. QED
      BY <2>1, <2>2 DEF AnsweringInv, Answering
  <1>9. CASE UNCHANGED vars
    BY <1>9 DEF vars, commVars, queueVars, sharedVars, clsVars, asmVars, AnsweringInv, Answering, Stuck
  <1>10. QED
    BY <1>1, <1>2, <1>3, <1>4, <1>5, <1>6, <1>7, <1>8, <1>9 DEF Next, Comm, Asm

-------------------------------------------------------------------------------
(* What is published under loss: an image, or the beginning of a damaged    *)
(* one.  The end of an image can be told with an earlier chunk of it only   *)
(* if that chunk was left over from a marker that got lost.                 *)

EndsOrDamaged(f) == f.chunk = LastChunk \/ f.img \in damaged

\* If e says that the image ends with the chunk of byte 0 b, a frame of that
\* chunk waits for the assembler, and it is the last one's or a damaged image's.
Waits(b, e) ==
  e => \E k \in 1..Len(cameraFramesQueue) :
         Byte0(cameraFramesQueue[k]) = b /\ EndsOrDamaged(cameraFramesQueue[k])

InOrder(i) ==
  /\ asmPic = SubSeq(WholeImage(i), 1, Len(asmPic))
  /\ asmPic = WholeImage(i) \/ i \in damaged

PrefixInv ==
  /\ commPc = "copying" => lastFrame = NoFrame
  /\ commPc \in {"store", "complete"} /\ lastFrame.id = "camera" =>
       \E k \in 1..Len(cameraFramesQueue) : cameraFramesQueue[k] = lastFrame
  /\ asmPc \in {"frame", "image"} => ~asmNotify.pending
  /\ asmNotify.pending => Waits(asmNotify.msgIndex, asmNotify.eoi)
  /\ asmPc = "frame" => Waits(asmMsg, asmEoi)
  /\ asmPc = "image" => /\ Len(snapshots) # 0
                        /\ \/ Len(snapshots) = SnapshotQueueLen
                           \/ snapshots[Len(snapshots)].chunk = LastChunk
                           \/ asmImageId \in damaged
  /\ asmPc = "publish" => asmImageId \in 1..Images /\ InOrder(asmImageId)

LEMMA PrefixInit == Init => PrefixInv
  BY DEF Init, ReceptionInit, AssemblerInit, PrefixInv

\* A touched image stays one.
LEMMA DamagedStays == [Next]_vars => damaged \subseteq damaged'
  <1>1. CASE CameraData \/ CameraEndOfFrame \/ LoseFrame \/ CameraTimeout \/ CommConfirm
    BY <1>1, DamageGrows DEF CameraData, CameraEndOfFrame, LoseFrame, CameraTimeout, CommConfirm
  <1>2. CASE OtherNode
    BY <1>2 DEF OtherNode
  <1>3. CASE CommTake \/ CommRun \/ CommTick \/ Asm \/ ClsRun \/ UNCHANGED vars
    BY <1>3 DEF CommTake, CommRun, CommTick, Asm, AsmTakes, AsmFrame, AsmImage, AsmPublish, ClsRun, vars, linkVars
  <1>4. QED
    BY <1>1, <1>2, <1>3 DEF Next, Bus, Comm

\* The invariant survives what leaves the assembler and its queues alone.
LEMMA PrefixElsewhere ==
  ASSUME PrefixInv, UNCHANGED <<cameraFramesQueue, asmNotify, asmVars>>, damaged \subseteq damaged',
         commPc' = "copying" => lastFrame' = NoFrame,
         commPc' \in {"store", "complete"} =>
           UNCHANGED lastFrame /\ (commPc \in {"store", "complete"} \/ lastFrame.id # "camera")
  PROVE  PrefixInv'
  <1>1. UNCHANGED <<asmPc, asmMsg, asmEoi, snapshots, asmImageId, asmPic>>
    BY DEF asmVars
  <1>2. \A b, e : Waits(b, e) => Waits(b, e)'
    BY DEF Waits, EndsOrDamaged, LastChunk, Byte0
  <1>3. \A i : InOrder(i) => InOrder(i)'
    BY <1>1 DEF InOrder, WholeImage
  <1>4. asmNotify'.pending => Waits(asmNotify.msgIndex, asmNotify.eoi)'
    BY <1>2 DEF PrefixInv
  <1>5. asmPc' = "frame" => Waits(asmMsg, asmEoi)'
    BY <1>1, <1>2 DEF PrefixInv
  <1>6. asmPc' = "publish" => asmImageId' \in 1..Images /\ InOrder(asmImageId)'
    BY <1>1, <1>3 DEF PrefixInv, InOrder, WholeImage
  <1>7. QED
    BY <1>1, <1>4, <1>5, <1>6 DEF PrefixInv, Waits, EndsOrDamaged, Byte0, InOrder, WholeImage, LastChunk

LEMMA PrefixStore ==
  ASSUME TypeOK, AnsweringInv, PrefixInv, Store, UNCHANGED <<damaged, asmVars>>
  PROVE  PrefixInv'
  <1> DEFINE f == batch[stored + 1]
             q == cameraFramesQueue
  <1>1. commPc = "store" /\ commPc' \in {"store", "dead"} /\ UNCHANGED asmNotify
    BY DEF Store, StoreMsg
  <1>2. f \in Frame /\ q \in Seq(CameraFrame) /\ Len(q) \in Nat
    BY DEF Store, TypeOK, ReceptionTypeOK
  <1>3. /\ Len(q') >= Len(q)
        /\ \A k \in 1..Len(q) : k \in 1..Len(q') /\ q'[k] = q[k]
    <2>1. CASE q' = q
      BY <1>2, <2>1
    <2>2. CASE q' = Append(q, f)
      BY <1>2, <2>2
    <2>3. QED
      BY <2>1, <2>2 DEF Store, StoreMsg
  <1>4. ASSUME NEW b, NEW e, Waits(b, e) PROVE Waits(b, e)'
    <2>1. CASE ~e
      BY <2>1 DEF Waits
    <2>2. CASE e
      <3>1. PICK k \in 1..Len(q) : Byte0(q[k]) = b /\ EndsOrDamaged(q[k])
        BY <1>4, <2>2 DEF Waits
      <3>2. k \in 1..Len(q') /\ q'[k] = q[k]
        BY <1>3
      <3>3. Byte0(q'[k]) = b
        BY <3>1, <3>2
      <3>4. q'[k].chunk = LastChunk \/ q'[k].img \in damaged'
        BY <3>1, <3>2 DEF EndsOrDamaged
      <3>5. QED
        BY <3>2, <3>3, <3>4 DEF Waits, EndsOrDamaged, LastChunk, Byte0
    <2>3. QED
      BY <2>1, <2>2
  <1>5. commPc' = "store" /\ lastFrame'.id = "camera" => \E k \in 1..Len(q') : q'[k] = lastFrame'
    <2> SUFFICES ASSUME commPc' = "store", lastFrame'.id = "camera"
                 PROVE  \E k \in 1..Len(q') : q'[k] = lastFrame'
      OBVIOUS
    <2>1. CASE f.id = "camera"
      <3>1. lastFrame' = f /\ q' = Append(q, f)
        BY <1>1, <2>1 DEF Store, StoreMsg
      <3>2. Len(q) + 1 \in 1..Len(q') /\ q'[Len(q) + 1] = f
        BY <1>2, <3>1
      <3>3. QED
        BY <3>1, <3>2
    <2>2. CASE f.id # "camera"
      <3>1. lastFrame' = lastFrame
        BY <2>2 DEF Store
      <3>2. PICK k \in 1..Len(q) : q[k] = lastFrame
        BY <1>1, <3>1 DEF PrefixInv
      <3>3. k \in 1..Len(q') /\ q'[k] = q[k]
        BY <1>3
      <3>4. QED
        BY <3>1, <3>2, <3>3
    <2>3. QED
      BY <2>1, <2>2
  <1>6. UNCHANGED <<asmPc, asmMsg, asmEoi, snapshots, asmImageId, asmPic>>
    BY DEF asmVars
  <1>7. asmNotify'.pending => Waits(asmNotify.msgIndex, asmNotify.eoi)'
    BY <1>1, <1>4 DEF PrefixInv
  <1>8. asmPc' = "frame" => Waits(asmMsg, asmEoi)'
    BY <1>4, <1>6 DEF PrefixInv
  <1> HIDE DEF q, f
  <1>9. QED
    BY <1>1, <1>5, <1>6, <1>7, <1>8 DEF PrefixInv, InOrder, WholeImage, LastChunk, q

LEMMA PrefixCompletedFrame ==
  ASSUME TypeOK, LossyInv, AnsweringInv, PrefixInv, CompletedFrame, UNCHANGED <<linkVars, asmVars>>
  PROVE  PrefixInv'
  <1>1. /\ commPc = "complete" /\ commPc' = "clear"
        /\ UNCHANGED <<cameraFramesQueue, damaged, asmPc, asmMsg, asmEoi, snapshots, asmImageId, asmPic>>
    BY DEF CompletedFrame, CommGoto, linkVars, asmVars
  <1>2. CASE lastFrame.id # "camera"
    BY <1>1, <1>2, PrefixElsewhere DEF CompletedFrame
  <1>3. CASE lastFrame.id = "camera"
    <2>1. asmNotify' = [pending |-> TRUE, msgIndex |-> Byte0(lastFrame), eoi |-> isEndOfImage]
      BY <1>3 DEF CompletedFrame
    <2>2. PICK k \in 1..Len(cameraFramesQueue) : cameraFramesQueue[k] = lastFrame
      BY <1>1, <1>3 DEF PrefixInv
    <2>3. isEndOfImage => EndsOrDamaged(lastFrame)
      BY <1>1, <1>3 DEF LossyInv, Excused, EndsOrDamaged, IsLast
    <2>4. Waits(asmNotify.msgIndex, asmNotify.eoi)'
      BY <1>1, <2>1, <2>2, <2>3 DEF Waits, EndsOrDamaged, Byte0, LastChunk
    <2>5. asmPc # "frame" /\ asmPc # "image"
      BY <1>1, NotAnswering DEF Answering
    <2>6. QED
      BY <1>1, <2>4, <2>5 DEF PrefixInv, InOrder, WholeImage
  <1>4. QED
    BY <1>2, <1>3

LEMMA PrefixCommStep ==
  ASSUME TypeOK, LossyInv, AnsweringInv, PrefixInv, CommStep, UNCHANGED <<linkVars, asmVars>>
  PROVE  PrefixInv'
  <1>0. UNCHANGED damaged
    BY DEF linkVars
  <1>1. CASE Store
    BY <1>0, <1>1, PrefixStore
  <1>2. CASE CompletedFrame
    BY <1>2, PrefixCompletedFrame
  <1>3. CASE ReadDone \/ ReadEoi \/ ResetDone \/ CopyBegin \/ CopyEnd \/ StoreEnd \/ ClearBuffer
    <2>1. UNCHANGED <<cameraFramesQueue, asmNotify>>
      BY <1>3 DEF ReadDone, ReadEoi, ResetDone, CopyBegin, CopyEnd, StoreEnd, ClearBuffer, queueVars
    <2>2. commPc' = "copying" => lastFrame' = NoFrame
      BY <1>3 DEF ReadDone, ReadEoi, ResetDone, CopyBegin, CopyEnd, StoreEnd, ClearBuffer, CommGoto
    <2>3. commPc' \in {"store", "complete"} =>
            UNCHANGED lastFrame /\ (commPc \in {"store", "complete"} \/ lastFrame.id # "camera")
      BY <1>3 DEF ReadDone, ReadEoi, ResetDone, CopyBegin, CopyEnd, StoreEnd, ClearBuffer, CommGoto,
                  PrefixInv, NoFrame
    <2>4. QED
      BY <1>0, <2>1, <2>2, <2>3, PrefixElsewhere
  <1>4. QED
    BY <1>1, <1>2, <1>3 DEF CommStep

-------------------------------------------------------------------------------
(* What assembleFrame keeps.                                                *)

\* Elements of a finite set of numbers differ in how many others are below them.
LEMMA RanksApart ==
  ASSUME NEW P, IsFiniteSet(P), P \subseteq Nat, NEW x \in P, NEW y \in P, x < y
  PROVE  Cardinality({j \in P : j < x}) < Cardinality({j \in P : j < y})
  <1> DEFINE A == {j \in P : j < x}
             B == {j \in P : j < y}
  <1>1. A \subseteq B /\ x \in B /\ x \notin A
    <2>1. x \in Nat /\ y \in Nat
      OBVIOUS
    <2>2. ASSUME NEW j \in P, j < x PROVE j < y
      <3>1. j \in Nat
        OBVIOUS
      <3>2. QED
        BY <2>1, <2>2, <3>1
    <2>3. A \subseteq B
      BY <2>2
    <2>4. ~(x < x)
      BY <2>1
    <2>5. QED
      BY <2>3, <2>4
  <1>2. IsFiniteSet(B)
    BY FS_Subset
  <1> HIDE DEF A, B
  <1>3. Cardinality(A) < Cardinality(B)
    <2>1. Cardinality(A) <= Cardinality(B) /\ (Cardinality(A) = Cardinality(B) => A = B)
      BY <1>1, <1>2, FS_Subset
    <2>2. IsFiniteSet(A)
      BY <1>1, <1>2, FS_Subset
    <2>3. Cardinality(A) \in Nat /\ Cardinality(B) \in Nat
      BY <1>2, <2>2, FS_CardinalityType
    <2>4. QED
      BY <1>1, <2>1, <2>3
  <1>4. QED
    BY <1>3 DEF A, B

\* No frame with the notified byte is left out.
LEMMA KeptHasAll ==
  ASSUME TypeOK, NEW k \in 1..Len(cameraFramesQueue), Byte0(cameraFramesQueue[k]) = asmMsg
  PROVE  \E n \in DOMAIN KeptFrames : KeptFrames[n] = cameraFramesQueue[k]
  <1> DEFINE P == {i \in 1..Len(cameraFramesQueue) : Byte0(cameraFramesQueue[i]) = asmMsg}
             Rank(i) == Cardinality({j \in P : j < i})
             Nth(n) == CHOOSE i \in P : Rank(i) = n - 1
             n == Rank(k) + 1
  <1>1. Len(cameraFramesQueue) \in Nat
    BY DEF TypeOK, ReceptionTypeOK
  <1>2. P \subseteq Nat /\ k \in P
    BY <1>1
  <1>3. IsFiniteSet(P)
    <2>1. IsFiniteSet(1..Len(cameraFramesQueue))
      BY <1>1, FS_Interval
    <2>2. QED
      BY <2>1, FS_Subset
  <1>4. Rank(k) \in Nat /\ Rank(k) < Cardinality(P)
    <2> DEFINE A == {j \in P : j < k}
    <2>1. A \subseteq P /\ k \notin A
      BY <1>2
    <2> HIDE DEF P, A
    <2>2. IsFiniteSet(A) /\ Cardinality(A) <= Cardinality(P) /\ (Cardinality(A) = Cardinality(P) => A = P)
      BY <1>3, <2>1, FS_Subset
    <2>3. Cardinality(A) \in Nat /\ Cardinality(P) \in Nat
      BY <1>3, <2>2, FS_CardinalityType
    <2>4. Cardinality(A) < Cardinality(P)
      BY <1>2, <2>1, <2>2, <2>3
    <2>5. QED
      BY <2>3, <2>4 DEF A
  <1>5. ASSUME NEW i \in P, Rank(i) = Rank(k) PROVE i = k
    <2>1. \A x, y \in P : x < y => Rank(x) < Rank(y)
      BY <1>2, <1>3, RanksApart
    <2>2. i \in Nat /\ k \in Nat
      BY <1>2
    <2> HIDE DEF P, Rank
    <2>3. QED
      BY <1>2, <1>4, <1>5, <2>1, <2>2
  <1> HIDE DEF P, Rank
  <1>6. Nth(n) = k
    <2>1. Rank(k) = n - 1
      BY <1>4
    <2>2. \A i \in P : Rank(i) = n - 1 => i = k
      BY <1>5, <2>1
    <2> HIDE DEF n
    <2>3. QED
      BY <1>2, <2>1, <2>2
  <1>7. n \in 1..Cardinality(P)
    <2>1. Cardinality(P) \in Nat
      BY <1>3, FS_CardinalityType
    <2>2. QED
      BY <1>4, <2>1
  <1>8. KeptFrames = [m \in 1..Cardinality(P) |-> cameraFramesQueue[Nth(m)]]
    BY DEF KeptFrames, P, Rank
  <1> HIDE DEF n, Nth
  <1>9. QED
    BY <1>6, <1>7, <1>8

\* If every frame in the queue has the notified byte, all are kept.
LEMMA KeptIsAll ==
  ASSUME TypeOK, \A k \in 1..Len(cameraFramesQueue) : Byte0(cameraFramesQueue[k]) = asmMsg
  PROVE  KeptFrames = cameraFramesQueue
  <1> DEFINE P == {i \in 1..Len(cameraFramesQueue) : Byte0(cameraFramesQueue[i]) = asmMsg}
             N == Len(cameraFramesQueue)
             Nth(n) == CHOOSE i \in P : Cardinality({j \in P : j < i}) = n - 1
  <1>1. N \in Nat /\ cameraFramesQueue \in Seq(CameraFrame)
    BY DEF TypeOK, ReceptionTypeOK
  <1>2. P = 1..N
    OBVIOUS
  <1>3. ASSUME NEW i \in 1..N PROVE Cardinality({j \in P : j < i}) = i - 1
    <2>1. {j \in P : j < i} = 1..i - 1
      BY <1>1, <1>2
    <2>2. 1 \in Int /\ i - 1 \in Int
      BY <1>1
    <2>3. Cardinality(1..i - 1) = IF 1 > i - 1 THEN 0 ELSE i - 1 - 1 + 1
      BY <2>2, FS_Interval
    <2>4. Cardinality(1..i - 1) = i - 1
      BY <1>1, <2>3
    <2>5. QED
      BY <2>1, <2>4
  <1>4. Cardinality(P) = N
    <2> HIDE DEF N, P
    <2>1. 1 \in Int /\ N \in Int
      BY <1>1
    <2>2. Cardinality(1..N) = IF 1 > N THEN 0 ELSE N - 1 + 1
      BY <2>1, FS_Interval
    <2>3. QED
      BY <1>1, <1>2, <2>2
  <1>5. KeptFrames = [n \in 1..Cardinality(P) |-> cameraFramesQueue[Nth(n)]]
    BY DEF KeptFrames
  <1>6. ASSUME NEW n \in 1..N PROVE Nth(n) = n
    <2> DEFINE Rank(i) == Cardinality({j \in P : j < i})
    <2>1. \A i \in 1..N : Rank(i) = i - 1
      BY <1>3
    <2>2. n \in P /\ Rank(n) = n - 1
      BY <1>2, <2>1
    <2>3. \A i \in P : Rank(i) = n - 1 => i = n
      BY <1>1, <1>2, <2>1
    <2> HIDE DEF P, Rank
    <2>4. (CHOOSE i \in P : Rank(i) = n - 1) = n
      BY <2>2, <2>3
    <2>5. QED
      BY <2>4 DEF Rank
  <1>7. cameraFramesQueue = [n \in 1..N |-> cameraFramesQueue[n]]
    BY <1>1
  <1> HIDE DEF P, N, Nth
  <1>8. QED
    BY <1>4, <1>5, <1>6, <1>7

\* Snapshots in sequence are the beginning of their image.
LEMMA InSequencePrefix ==
  ASSUME TypeOK, InSequence, asmImageId \in 1..Images
  PROVE  snapshots = SubSeq(WholeImage(asmImageId), 1, Len(snapshots))
  <1> DEFINE n == Len(snapshots)
             w == WholeImage(asmImageId)
  <1>1. snapshots \in Seq(Chunk) /\ n \in Nat /\ DOMAIN snapshots = 1..n
    BY DEF TypeOK, AssemblerTypeOK
  <1>2. \A k \in 1..n : snapshots[k] \in Chunk
    BY <1>1
  <1>3. \A k \in 1..n : snapshots[k] = [img |-> asmImageId, chunk |-> k - 1] /\ k - 1 \in 0..LastChunk
    BY <1>2 DEF InSequence, Chunk, LastChunk
  <1>4. n <= ChunksPerImage
    <2>1. CASE n = 0
      BY <2>1, Constants
    <2>2. CASE n # 0
      <3>1. n \in 1..n
        BY <1>1, <2>2
      <3>2. n - 1 \in 0..LastChunk
        BY <1>3, <3>1
      <3>3. QED
        BY <1>1, <3>2, Constants
    <2>3. QED
      BY <2>1, <2>2
  <1>5. ChunksPerImage \in Nat
    BY Constants
  <1>6. /\ DOMAIN SubSeq(w, 1, n) = 1..n
        /\ \A k \in 1..n : SubSeq(w, 1, n)[k] = [img |-> asmImageId, chunk |-> k - 1]
    BY <1>1, <1>4, <1>5 DEF WholeImage
  <1>7. SubSeq(w, 1, n) = [k \in 1..n |-> SubSeq(w, 1, n)[k]] /\ snapshots = [k \in 1..n |-> snapshots[k]]
    BY <1>1, <1>4, <1>5 DEF WholeImage
  <1> HIDE DEF n, w
  <1>8. QED
    BY <1>3, <1>6, <1>7 DEF n, w

LEMMA PrefixFrame == ASSUME TypeOK, AnsweringInv, PrefixInv, AsmFrame PROVE PrefixInv'
  <1>1. /\ asmPc = "frame" /\ asmPc' \in {"image", "wait"} /\ commPc' = commPc /\ lastFrame' = lastFrame
        /\ UNCHANGED <<damaged, asmNotify, asmMsg, asmEoi, asmPic>>
    BY DEF AsmFrame, AssembleFrame, commVars, linkVars
  <1>2. ~asmNotify'.pending
    BY <1>1 DEF PrefixInv
  <1>3. asmPc' = "image" =>
          /\ Len(snapshots') # 0
          /\ \/ Len(snapshots') = SnapshotQueueLen
             \/ snapshots'[Len(snapshots')].chunk = LastChunk
             \/ asmImageId' \in damaged'
    <2> SUFFICES ASSUME asmPc' = "image"
                 PROVE  /\ Len(snapshots') # 0
                        /\ \/ Len(snapshots') = SnapshotQueueLen
                           \/ snapshots'[Len(snapshots')].chunk = LastChunk
                           \/ asmImageId' \in damaged'
      OBVIOUS
    <2>1. PICK c \in Queued :
            /\ DecodesTo(c) /\ asmEoi /\ asmImageId' = c.img
            /\ snapshots' = IF Len(snapshots) < SnapshotQueueLen THEN Append(snapshots, c) ELSE snapshots
      BY DEF AsmFrame, AssembleFrame
    <2>2. c \in Chunk
      BY <2>1, QueuedType
    <2>3. PICK k \in 1..Len(cameraFramesQueue) :
            Byte0(cameraFramesQueue[k]) = asmMsg /\ EndsOrDamaged(cameraFramesQueue[k])
      BY <1>1, <2>1 DEF PrefixInv, Waits
    <2>4. cameraFramesQueue[k].img = c.img /\ cameraFramesQueue[k].chunk = c.chunk
      <3>1. PICK n \in DOMAIN KeptFrames : KeptFrames[n] = cameraFramesQueue[k]
        BY <2>3, KeptHasAll
      <3>2. KeptFrames = TextOf(c, FALSE)
        BY <2>1 DEF DecodesTo
      <3>3. QED
        BY <3>1, <3>2 DEF TextOf
    <2>5. c.chunk = LastChunk \/ c.img \in damaged
      BY <2>3, <2>4 DEF EndsOrDamaged
    <2>6. snapshots \in Seq(Chunk) /\ Len(snapshots) \in Nat /\ Len(snapshots) <= SnapshotQueueLen
      BY DEF TypeOK, AssemblerTypeOK
    <2>7. CASE Len(snapshots) < SnapshotQueueLen
      BY <1>1, <2>1, <2>2, <2>5, <2>6, <2>7
    <2>8. CASE ~(Len(snapshots) < SnapshotQueueLen)
      BY <2>1, <2>6, <2>8, SnapshotAssumption, Constants
    <2>9. QED
      BY <2>7, <2>8
  <1>4. commPc \in Answering
    BY <1>1 DEF AnsweringInv, Stuck
  <1>5. QED
    BY <1>1, <1>2, <1>3, <1>4 DEF PrefixInv, LastChunk, Answering

LEMMA PrefixAsm == ASSUME TypeOK, AnsweringInv, PrefixInv, Asm PROVE PrefixInv'
  <1>1. UNCHANGED <<damaged, commPc, lastFrame>>
    BY DEF Asm, AsmTakes, AsmFrame, AsmImage, AsmPublish, linkVars, commVars
  <1>2. CASE AsmTakes
    <2>1. /\ asmPc' = "frame" /\ asmNotify.pending /\ asmMsg' = asmNotify.msgIndex
          /\ asmEoi' = asmNotify.eoi /\ UNCHANGED cameraFramesQueue
      BY <1>2 DEF AsmTakes, AsmWait, AsmGoto
    <2>2. ~asmNotify'.pending
      BY <1>2 DEF AsmTakes, AsmWait, TypeOK, ReceptionTypeOK
    <2>3. Waits(asmMsg, asmEoi)'
      BY <1>1, <2>1 DEF PrefixInv, Waits, EndsOrDamaged, Byte0, LastChunk
    <2>4. QED
      BY <1>1, <2>1, <2>2, <2>3 DEF PrefixInv
  <1>3. CASE AsmFrame
    BY <1>3, PrefixFrame
  <1>4. CASE AsmImage
    <2>1. /\ asmPc = "image" /\ asmPc' \in {"wait", "publish"}
          /\ UNCHANGED <<cameraFramesQueue, asmNotify, asmMsg, asmEoi, asmImageId>>
      BY <1>4 DEF AsmImage, AssembleImage, queueVars
    <2>2. ~asmNotify.pending
      BY <2>1 DEF PrefixInv
    <2>3. asmImageId \in 1..Images
      BY <2>1 DEF TypeOK, AssemblerTypeOK
    <2>4. asmPc' = "publish" => asmPic' = snapshots /\ InSequence
      BY <1>4 DEF AsmImage, AssembleImage
    <2>5. asmPc' = "publish" => InOrder(asmImageId)'
      <3> SUFFICES ASSUME asmPc' = "publish" PROVE InOrder(asmImageId)'
        OBVIOUS
      <3>1. asmPic' = SubSeq(WholeImage(asmImageId), 1, Len(asmPic'))
        BY <2>3, <2>4, InSequencePrefix
      <3>2. asmPic' = WholeImage(asmImageId) \/ asmImageId \in damaged
        BY <2>1, <2>3, <2>4, InSequenceWhole DEF PrefixInv
      <3>3. QED
        BY <1>1, <2>1, <3>1, <3>2 DEF InOrder, WholeImage
    <2>6. QED
      BY <1>1, <2>1, <2>2, <2>3, <2>5 DEF PrefixInv, Waits
  <1>5. CASE AsmPublish
    <2>1. /\ asmPc' = "wait" /\ UNCHANGED <<cameraFramesQueue, asmNotify, asmMsg, asmEoi>>
      BY <1>5 DEF AsmPublish, Publish, AsmGoto, queueVars
    <2>2. asmNotify'.pending => Waits(asmNotify.msgIndex, asmNotify.eoi)'
      BY <1>1, <2>1 DEF PrefixInv, Waits, EndsOrDamaged, Byte0, LastChunk
    <2>3. QED
      BY <1>1, <2>1, <2>2 DEF PrefixInv
  <1>6. QED
    BY <1>2, <1>3, <1>4, <1>5 DEF Asm

LEMMA PrefixStep ==
  ASSUME TypeOK, LossyInv, AnsweringInv, PrefixInv, [Next]_vars PROVE PrefixInv'
  <1>0. damaged \subseteq damaged'
    BY DamagedStays
  <1>1. CASE Asm
    BY <1>1, PrefixAsm
  <1>2. CASE CommRun
    BY <1>2, PrefixCommStep DEF CommRun
  <1>3. CASE CommTake \/ CommTick \/ CommConfirm
    <2>1. UNCHANGED <<cameraFramesQueue, asmNotify, asmVars>>
      BY <1>3 DEF CommTake, Take, CommTick, DelayOver, CommConfirm, Confirm, queueVars
    <2>2. commPc' \notin {"copying", "store", "complete"}
      BY <1>3 DEF CommTake, Take, CommTick, DelayOver, CommConfirm, Confirm, CommGoto
    <2>3. QED
      BY <1>0, <2>1, <2>2, PrefixElsewhere
  <1>4. CASE Bus \/ ClsRun \/ UNCHANGED vars
    <2>1. UNCHANGED <<cameraFramesQueue, asmNotify, asmVars, commPc, lastFrame>>
      BY <1>4 DEF Bus, CameraData, CameraEndOfFrame, LoseFrame, OtherNode, CameraTimeout, ClsRun, taskVars,
                  vars, commVars, queueVars
    <2>2. commPc' = "copying" => lastFrame' = NoFrame
      BY <2>1 DEF PrefixInv
    <2>3. QED
      BY <1>0, <2>1, <2>2, PrefixElsewhere
  <1>5. QED
    BY <1>1, <1>2, <1>3, <1>4 DEF Next, Comm

\* Whatever is lost, whatever the other nodes send and whatever the camera's
\* images turn out to be, the chunks published are of one image, from its first
\* on and in order, and one that lacks its end is an image some fault touched.
THEOREM LossyImagesInOrder == ASSUME Lossy PROVE Spec => []PublishedInOrder
  <1>1. TypeOK /\ AnsweringInv /\ [Next]_vars => AnsweringInv'
    BY AnsweringStep
  <1>2. TypeOK /\ LossyInv /\ AnsweringInv /\ PrefixInv /\ [Next]_vars => PrefixInv'
    BY PrefixStep
  <1>3. Spec => []PrefixInv
    BY <1>1, <1>2, LossyAlways, AnsweringInit, PrefixInit, TypeCorrect, PTL DEF Spec
  <1>4. PrefixInv => PublishedInOrder
    BY DEF PrefixInv, InOrder, PublishedInOrder
  <1>5. QED
    BY <1>3, <1>4, PTL

-------------------------------------------------------------------------------
(* What a loss or another node's frame costs.  The image the camera is at,  *)
(* if nothing touched it nor the one before, is followed through the        *)
(* vector, the frame queue, the snapshots and the publication, chunk by     *)
(* chunk.                                                                   *)

\* Every image of the camera can be decoded and fits the shared buffer.
Loads == ImageKinds \subseteq {"expected", "small"}

\* An image is more than one chunk, or no node sends an empty frame.  An image of
\* one chunk is not told from its end when an empty frame, which clears
\* m_endOfImage and leaves lastFrame alone, comes in behind its marker; its
\* snapshot then spoils a later image nothing touched.
EndIsTold == ChunksPerImage > 1 \/ "empty" \notin ForeignIds

Touched == damaged \cup Crossed

Intact == camImg \notin Touched

Follows == Intact /\ camImg - 1 \notin Touched

\* Nothing of an earlier chunk can be among the frames of this one.
Whole == Intact /\ (camChunk > 0 \/ Follows)

Current == [img |-> camImg, chunk |-> camChunk]

CurrentText == TextOf(Current, FALSE)

\* s is the first n frames of the chunk the camera is at.
Begins(s, n) == Len(s) = n /\ \A k \in 1..n : s[k] = CurrentText[k]

\* The snapshots are the first n of the image the camera is at.
Snapped(n) ==
  Len(snapshots) = n /\ \A k \in 1..n : snapshots[k] = [img |-> camImg, chunk |-> k - 1]

\* The assembler is done with the chunk communicationTask is about to confirm.
Handled == commPc \in Answering /\ ~asmNotify.pending /\ asmPc = "wait"

\* The frame queue was emptied for it.
Drained == commPc \in Answering /\ ~asmNotify.pending /\ asmPc # "frame"

EndsWith(s, ids) == Len(s) > 0 /\ s[Len(s)].id \in ids

\* While nothing touches the image, communicationTask has the vector to itself
\* and the last frame it finds there is the camera's.
CleanInv ==
  /\ camWait => camPos = FramesPerChunk
  /\ commPc = "complete" => stored = Len(batch)
  /\ asmPc # "wait" => ~asmNotify.pending
  /\ Intact /\ camPos > 0 /\ commPc \notin {"delay10", "confirm"} => EndsWith(rxMsgVector, {"camera"})
  /\ Intact /\ commPc \in {"copying", "store", "complete", "clear"} => batch = rxMsgVector
  /\ Intact /\ commPc \in {"delay10", "confirm"} => rxMsgVector = <<>>
  /\ Intact /\ commPc \in {"store", "complete"} /\ stored = Len(batch) => lastFrame.id = "camera"
  /\ Intact /\ Drained => cameraFramesQueue = <<>>
  /\ Whole /\ commPc \notin Answering \cup {"store", "complete", "dead"} => cameraFramesQueue = <<>>

\* In an image of one chunk the assembler is told the end with every chunk: a
\* frame that cleared the flag is the last one stored, and not the camera's.
EndInv ==
  LastChunk = 0 =>
    /\ (rxNotified \/ commPc \in {"readDone", "readEoi"}) /\ ~endOfImage =>
         EndsWith(rxMsgVector, {"lidar", "other"})
    /\ commPc \in {"resetDone", "copy", "copying"} /\ ~isEndOfImage =>
         EndsWith(rxMsgVector, {"lidar", "other"})
    /\ commPc \in {"copying", "store"} /\ ~isEndOfImage => EndsWith(batch, {"lidar", "other"})
    /\ commPc \in {"store", "complete"} /\ ~isEndOfImage /\ stored = Len(batch) =>
         lastFrame.id # "camera"
    /\ asmNotify.pending => asmNotify.eoi
    /\ asmPc = "frame" => asmEoi

\* While nothing touches the image, the mark that ends it stays with the chunk
\* it came with.
MarkInv ==
  /\ Intact /\ (rxNotified \/ commPc \in {"readDone", "readEoi"}) => (endOfImage <=> IsLast)
  /\ Intact /\ commPc \in {"resetDone", "copy", "copying", "store", "complete"} =>
       (isEndOfImage <=> IsLast)
  /\ Intact /\ asmNotify.pending => (asmNotify.eoi <=> IsLast)
  /\ Intact /\ asmPc = "frame" => (asmEoi <=> IsLast)
  /\ Intact /\ asmPc \in {"image", "publish"} => IsLast

\* The frames of the chunk, on their way to the assembler.
TextInv ==
  /\ Whole /\ commPc \notin {"delay10", "confirm"} => Begins(rxMsgVector, camPos)
  /\ Whole /\ commPc \in {"store", "complete"} =>
       Begins(cameraFramesQueue, stored) /\ (stored > 0 => lastFrame = CurrentText[stored])
  /\ Whole /\ asmNotify.pending =>
       asmNotify.msgIndex = Byte0(Current) /\ Begins(cameraFramesQueue, FramesPerChunk)
  /\ Whole /\ asmPc = "frame" => asmMsg = Byte0(Current) /\ Begins(cameraFramesQueue, FramesPerChunk)

\* The chunks of the image, until it is published.
SnapInv ==
  /\ LastChunk = 0 /\ asmPc \in {"wait", "frame"} => snapshots = <<>>
  /\ Follows /\ (commPc \notin Answering \/ asmNotify.pending \/ asmPc = "frame") => Snapped(camChunk)
  /\ Follows /\ asmPc = "image" => asmImageId = camImg /\ Snapped(ChunksPerImage)
  /\ Follows /\ asmPc = "publish" => asmImageId = camImg
  /\ asmPc = "publish" => snapshots = <<>>
  /\ Follows /\ Handled => IF IsLast THEN camImg \in everShown ELSE Snapped(camChunk + 1)
  /\ Intact /\ IsLast /\ Handled => snapshots = <<>>

\* No image is touched before the camera is at it.
ContainInv == Touched \subseteq 1..camImg /\ LossIsContained

-------------------------------------------------------------------------------
LEMMA TouchedStays == ASSUME TypeOK, [Next]_vars PROVE Touched \subseteq Touched'
  <1>1. damaged \subseteq damaged'
    BY DamagedStays
  <1>2. CASE OtherNode
    <2>1. foreign \in Seq(1..Images + 1) /\ foreign' = Append(foreign, camImg) /\ camImg \in 1..Images + 1
      BY <1>2 DEF OtherNode, TypeOK, LinkTypeOK
    <2>2. Len(foreign) \in Nat /\ Len(foreign') = Len(foreign) + 1
          /\ \A k \in 1..Len(foreign) : foreign'[k] = foreign[k]
      BY <2>1
    <2>3. \A k \in 1..Len(foreign) : k \in 1..Len(foreign') /\ foreign'[k] = foreign[k]
      BY <2>2
    <2>4. QED
      BY <1>1, <2>3 DEF Touched, Crossed
  <1>3. CASE ~OtherNode
    <2>1. UNCHANGED foreign
      BY <1>3 DEF Next, Bus, CameraData, SendFrame, CameraEndOfFrame, LoseFrame, SendEndOfFrame, CameraTimeout,
                  Resend, Advance, Comm, CommTake, CommRun, CommTick, CommConfirm, Confirmed, Asm, AsmTakes,
                  AsmFrame, AsmImage, AsmPublish, ClsRun, vars, linkVars
    <2>2. QED
      BY <1>1, <2>1 DEF Touched, Crossed
  <1>4. QED
    BY <1>2, <1>3

\* Another node's frame leaves nothing to follow in the image it crosses.
LEMMA CrossedNow ==
  ASSUME TypeOK, OtherNode PROVE ~Intact' /\ ~Follows' /\ ~Whole' /\ UNCHANGED <<camImg, camChunk, camPos, camWait>>
  <1>1. foreign' = Append(foreign, camImg) /\ UNCHANGED <<camImg, camChunk, camPos, camWait>>
    BY DEF OtherNode
  <1>2. foreign \in Seq(1..Images + 1) /\ camImg \in 1..Images + 1
    BY DEF TypeOK, LinkTypeOK
  <1>3. Len(foreign) + 1 \in 1..Len(foreign') /\ foreign'[Len(foreign) + 1] = camImg
    BY <1>1, <1>2
  <1>4. camImg' \in Crossed'
    BY <1>1, <1>3 DEF Crossed
  <1>5. QED
    BY <1>1, <1>4 DEF Intact, Follows, Whole, Touched

\* Nor does a fault.
LEMMA DamagedNow == ASSUME Fault, UNCHANGED camImg PROVE ~Intact' /\ ~Follows' /\ ~Whole'
  BY DEF Fault, Intact, Follows, Whole, Touched

\* Within a chunk, what is still whole was whole.
LEMMA SameChunk ==
  ASSUME UNCHANGED <<camImg, camChunk>>, Touched \subseteq Touched'
  PROVE  /\ Intact' => Intact
         /\ Follows' => Follows
         /\ Whole' => Whole
         /\ IsLast' <=> IsLast
         /\ Current' = Current
         /\ CurrentText' = CurrentText
  BY DEF Intact, Follows, Whole, IsLast, LastChunk, Current, CurrentText, TextOf

\* A step that leaves the bus alone leaves it all as it was.
LEMMA SameLink ==
  ASSUME UNCHANGED linkVars
  PROVE  /\ UNCHANGED <<camImg, camChunk, camPos, camWait, Touched>>
         /\ Intact' <=> Intact
         /\ Follows' <=> Follows
         /\ Whole' <=> Whole
         /\ IsLast' <=> IsLast
         /\ Current' = Current
         /\ CurrentText' = CurrentText
  BY DEF linkVars, Touched, Crossed, Intact, Follows, Whole, IsLast, LastChunk, Current, CurrentText, TextOf

\* What the camera moves on to after a confirmation was worth following before.
LEMMA AfterConfirm ==
  ASSUME TypeOK, LossyInv, CommConfirm
  PROVE  /\ camWait
         /\ Intact' \/ Whole' \/ Follows' => Advance /\ UNCHANGED Touched
         /\ Whole' => Intact
         /\ Follows' => Intact
         /\ Intact' /\ camChunk' > 0 => Intact
  <1>1. camWait /\ UNCHANGED foreign
    BY DEF CommConfirm, Confirm, Confirmed, Advance, CommGoto, LossyInv, CommBusy
  <1>2. CASE Fault /\ UNCHANGED camImg
    BY <1>1, <1>2, DamagedNow
  <1>3. CASE Confirmed /\ NoFault
    <2>1. Advance /\ UNCHANGED Touched
      BY <1>1, <1>3 DEF Confirmed, NoFault, Touched, Crossed
    <2>2. camImg \in Nat /\ camChunk \in Nat
      BY Constants DEF TypeOK, LinkTypeOK
    <2>3. CASE IsLast
      <3>1. camImg' = camImg + 1 /\ camChunk' = 0 /\ camImg' - 1 = camImg
        BY <2>1, <2>2, <2>3 DEF Advance
      <3>2. QED
        BY <1>1, <2>1, <3>1 DEF Intact, Follows, Whole
    <2>4. CASE ~IsLast
      <3>1. camImg' = camImg
        BY <2>1, <2>4 DEF Advance
      <3>2. QED
        BY <1>1, <2>1, <3>1 DEF Intact, Follows, Whole
    <2>5. QED
      BY <2>3, <2>4
  <1>4. QED
    BY <1>2, <1>3 DEF CommConfirm

\* Nor is anything to be followed after a time-out.
LEMMA AfterTimeout ==
  ASSUME Lossy, TypeOK, LossyInv, CameraTimeout
  PROVE  ~Follows' /\ ~Whole' /\ camPos' = 0 /\ ~camWait' /\ UNCHANGED Touched
  <1>1. camImg \in damaged /\ NoFault /\ (Resend \/ Advance) /\ UNCHANGED foreign
    BY DEF CameraTimeout, MayFault, Lossy, LossyInv, Resend, Advance
  <1>2. UNCHANGED Touched /\ camImg \in Touched
    BY <1>1 DEF Touched, Crossed, NoFault
  <1>3. camPos' = 0 /\ ~camWait'
    BY <1>1 DEF Resend, Advance
  <1>4. camImg \in Nat
    BY Constants DEF TypeOK, LinkTypeOK
  <1>5. CASE camImg' = camImg
    BY <1>2, <1>3, <1>5 DEF Intact, Follows, Whole
  <1>6. CASE camImg' # camImg
    <2>1. camImg' = camImg + 1 /\ camChunk' = 0 /\ camImg' - 1 = camImg
      BY <1>1, <1>4, <1>6 DEF Resend, Advance
    <2>2. QED
      BY <1>2, <1>3, <2>1 DEF Follows, Whole
  <1>7. QED
    BY <1>5, <1>6

\* Outside Answering, the assembler waits; a camera that sends, or whose marker
\* is still to be taken, finds communicationTask outside Answering.
LEMMA QuietTasks ==
  ASSUME HandledInv, ~CommBusy PROVE ~asmNotify.pending /\ asmPc = "wait"
  BY AssemblerWaits DEF CommBusy, Answering

\* A step of the bus that is not another node's finds communicationTask idle.
LEMMA IdleBus ==
  ASSUME Lossy, LossyInv, HandledInv, Bus, ~OtherNode
  PROVE  /\ ~CommBusy /\ ~asmNotify.pending /\ asmPc = "wait"
         /\ commPc \in {"take", "delay100", "dead"}
  <1>1. ~CommBusy
    BY DEF Bus, CameraData, SendFrame, LoseFrame, CameraEndOfFrame, SendEndOfFrame, CameraTimeout, Unanswered,
           MayFault, Lossy, LossyInv, CommBusy
  <1>2. QED
    BY <1>1, QuietTasks DEF CommBusy

-------------------------------------------------------------------------------
LEMMA CleanInit == Init => CleanInv
  BY DEF Init, LinkInit, ReceptionInit, AssemblerInit, CleanInv, Drained, Answering

\* communicationTask has nothing in its hands.
LEMMA CleanQuiet ==
  ASSUME commPc' \in {"take", "delay100", "dead"}, asmPc' = "wait",
         camWait' => camPos' = FramesPerChunk,
         Intact' /\ camPos' > 0 => EndsWith(rxMsgVector', {"camera"}),
         Whole' /\ commPc' # "dead" => cameraFramesQueue' = <<>>
  PROVE  CleanInv'
  BY DEF CleanInv, Drained, Answering, EndsWith

LEMMA CleanBus ==
  ASSUME Lossy, TypeOK, LossyInv, HandledInv, CleanInv, Bus PROVE CleanInv'
  <1>0. UNCHANGED taskVars
    BY DEF Bus, CameraData, CameraEndOfFrame, LoseFrame, OtherNode, CameraTimeout
  <1>1. UNCHANGED <<commPc, batch, stored, lastFrame, asmNotify, asmPc, cameraFramesQueue>>
    BY <1>0 DEF taskVars, commVars, queueVars, asmVars
  <1>2. CASE OtherNode
    BY <1>1, <1>2, CrossedNow DEF CleanInv
  <1>3. CASE ~OtherNode
    <2>1. commPc \in {"take", "delay100", "dead"} /\ asmPc = "wait" /\ ~asmNotify.pending
      BY <1>3, IdleBus
    <2>2. Whole /\ commPc # "dead" => cameraFramesQueue = <<>>
      BY <2>1 DEF CleanInv, Answering
    <2>3. CASE CameraData
      <3>1. PICK f \in CameraFrame : SendFrame(f) /\ RecvData(f) /\ (NoFault \/ Fault)
        BY <2>3 DEF CameraData, MayFault, Lossy
      <3>2. UNCHANGED <<camImg, camChunk, camWait>> /\ ~camWait
        BY <3>1 DEF SendFrame
      <3>3. Whole' => Whole
        BY <2>3, <3>2, TouchedStays, SameChunk DEF Next, Bus
      <3>4. rxMsgVector \in Seq(Frame) /\ rxMsgVector' = Append(rxMsgVector, f) /\ f.id = "camera"
        BY <3>1 DEF RecvData, SendFrame, TypeOK, ReceptionTypeOK
      <3>5. EndsWith(rxMsgVector', {"camera"})
        BY <3>4 DEF EndsWith
      <3>6. QED
        BY <1>1, <2>1, <2>2, <3>2, <3>3, <3>5, CleanQuiet
    <2>4. CASE CameraEndOfFrame
      <3>1. UNCHANGED <<camImg, camChunk, camPos, rxMsgVector>> /\ camPos = FramesPerChunk
        BY <2>4 DEF CameraEndOfFrame, SendEndOfFrame, RecvEndOfFrame
      <3>2. (Whole' => Whole) /\ (Intact' => Intact)
        BY <2>4, <3>1, TouchedStays, SameChunk DEF Next, Bus
      <3>3. Intact' /\ camPos' > 0 => EndsWith(rxMsgVector', {"camera"})
        BY <2>1, <3>1, <3>2 DEF CleanInv
      <3>4. QED
        BY <1>1, <2>1, <2>2, <3>1, <3>2, <3>3, CleanQuiet
    <2>5. CASE LoseFrame
      <3>1. Fault /\ UNCHANGED camImg /\ (camWait' => camPos' = FramesPerChunk)
        BY <2>5 DEF LoseFrame, SendFrame, SendEndOfFrame
      <3>2. QED
        BY <1>1, <2>1, <3>1, DamagedNow, CleanQuiet
    <2>6. CASE CameraTimeout
      BY <1>1, <2>1, <2>6, AfterTimeout, CleanQuiet
    <2>7. QED
      BY <1>3, <2>3, <2>4, <2>5, <2>6 DEF Bus
  <1>4. QED
    BY <1>2, <1>3

LEMMA CleanStore ==
  ASSUME TypeOK, LossyInv, HandledInv, CleanInv, Store, UNCHANGED <<linkVars, asmVars>> PROVE CleanInv'
  <1>1. /\ commPc = "store" /\ commPc' \in {"store", "dead"} /\ stored' = stored + 1 /\ stored < Len(batch)
        /\ UNCHANGED <<batch, asmNotify, rxMsgVector, asmPc>>
    BY DEF Store, StoreMsg, rxVars, asmVars
  <1>2. UNCHANGED <<camPos, camWait>> /\ (Intact' <=> Intact) /\ (Whole' <=> Whole)
    BY SameLink
  <1>3. Intact' /\ commPc' = "store" /\ stored' = Len(batch') => lastFrame'.id = "camera"
    <2> SUFFICES ASSUME Intact, stored + 1 = Len(batch) PROVE lastFrame'.id = "camera"
      BY <1>1, <1>2
    <2>1. camWait /\ camPos = FramesPerChunk /\ camPos > 0
      BY <1>1, Constants DEF LossyInv, CommBusy, CleanInv
    <2>2. batch[stored + 1].id = "camera"
      BY <1>1, <2>1 DEF CleanInv, EndsWith
    <2>3. QED
      BY <2>2 DEF Store
  <1>4. QED
    BY <1>1, <1>2, <1>3 DEF CleanInv, Drained, Answering

LEMMA CleanCommStep ==
  ASSUME TypeOK, LossyInv, HandledInv, CleanInv, CommStep, UNCHANGED <<linkVars, asmVars>> PROVE CleanInv'
  <1>1. UNCHANGED <<camPos, camWait>> /\ (Intact' <=> Intact) /\ (Whole' <=> Whole) /\ UNCHANGED asmPc
    BY SameLink DEF asmVars
  <1>2. CASE ReadDone \/ ReadEoi \/ ResetDone
    <2>1. /\ commPc \in {"readDone", "readEoi", "resetDone"} /\ commPc' \in {"readEoi", "resetDone", "copy"}
          /\ UNCHANGED <<rxMsgVector, cameraFramesQueue, asmNotify>>
      BY <1>2 DEF ReadDone, ReadEoi, ResetDone, CommGoto, rxVars, queueVars
    <2>2. QED
      BY <1>1, <2>1 DEF CleanInv, Drained, Answering
  <1>3. CASE CopyBegin
    BY <1>1, <1>3 DEF CopyBegin, CommGoto, rxVars, queueVars, CleanInv, Drained, Answering
  <1>4. CASE CopyEnd
    <2>1. /\ commPc = "copying" /\ commPc' = "store" /\ stored' = 0
          /\ UNCHANGED <<rxMsgVector, cameraFramesQueue, asmNotify>>
      BY <1>4 DEF CopyEnd, CommGoto, rxVars, queueVars, LossyInv, CommBusy
    <2>2. Intact => batch' = rxMsgVector
      BY <1>4, <2>1 DEF CopyEnd, Copies, CleanInv
    <2>3. Intact => Len(batch') > 0
      <3>1. camWait /\ camPos > 0
        BY <2>1, Constants DEF LossyInv, CommBusy, CleanInv
      <3>2. QED
        BY <2>1, <2>2, <3>1 DEF CleanInv, EndsWith
    <2>4. QED
      BY <1>1, <2>1, <2>2, <2>3 DEF CleanInv, Drained, Answering
  <1>5. CASE Store
    BY <1>5, CleanStore
  <1>6. CASE StoreEnd
    BY <1>1, <1>6 DEF StoreEnd, CommGoto, rxVars, queueVars, CleanInv, Drained, Answering
  <1>7. CASE CompletedFrame
    <2>1. /\ commPc = "complete" /\ commPc' = "clear"
          /\ UNCHANGED <<rxMsgVector, batch, stored, cameraFramesQueue>>
      BY <1>7 DEF CompletedFrame, CommGoto, rxVars
    <2>2. asmPc = "wait"
      BY <2>1, AssemblerWaits DEF Answering
    <2>3. Intact => asmNotify'.pending
      <3>1. Intact => lastFrame.id = "camera"
        BY <2>1 DEF CleanInv
      <3>2. QED
        BY <1>7, <3>1 DEF CompletedFrame
    <2>4. QED
      BY <1>1, <2>1, <2>2, <2>3 DEF CleanInv, Drained, Answering
  <1>8. CASE ClearBuffer
    BY <1>1, <1>8 DEF ClearBuffer, CommGoto, queueVars, CleanInv, Drained, Answering
  <1>9. QED
    BY <1>2, <1>3, <1>4, <1>5, <1>6, <1>7, <1>8 DEF CommStep

LEMMA CleanAsm == ASSUME TypeOK, HandledInv, CleanInv, Asm PROVE CleanInv'
  <1>1. UNCHANGED <<rxMsgVector, commPc, batch, stored, lastFrame, camPos, camWait>>
    BY DEF Asm, AsmTakes, AsmFrame, AsmImage, AsmPublish, linkVars, rxVars, commVars
  <1>2. (Intact' <=> Intact) /\ (Whole' <=> Whole)
    BY SameLink DEF Asm, AsmTakes, AsmFrame, AsmImage, AsmPublish
  <1>3. commPc \in Answering
    BY DEF Asm, AsmTakes, AsmWait, AsmFrame, AssembleFrame, AsmImage, AssembleImage, AsmPublish, Publish, AsmGoto,
           HandledInv
  <1>4. CASE AsmTakes
    <2>1. asmPc' = "frame" /\ ~asmNotify'.pending /\ UNCHANGED cameraFramesQueue
      BY <1>4 DEF AsmTakes, AsmWait, AsmGoto, TypeOK, ReceptionTypeOK
    <2>2. QED
      BY <1>1, <1>2, <1>3, <2>1 DEF CleanInv, Drained
  <1>5. CASE AsmFrame
    <2>1. cameraFramesQueue' = <<>> /\ UNCHANGED asmNotify /\ asmPc = "frame"
      BY <1>5 DEF AsmFrame, AssembleFrame
    <2>2. QED
      BY <1>1, <1>2, <1>3, <2>1 DEF CleanInv, Drained
  <1>6. CASE AsmImage \/ AsmPublish
    <2>1. /\ asmPc \in {"image", "publish"} /\ asmPc' \in {"publish", "wait"}
          /\ UNCHANGED <<asmNotify, cameraFramesQueue>>
      BY <1>6 DEF AsmImage, AssembleImage, AsmPublish, Publish, AsmGoto, queueVars
    <2>2. QED
      BY <1>1, <1>2, <1>3, <2>1 DEF CleanInv, Drained
  <1>7. QED
    BY <1>4, <1>5, <1>6 DEF Asm

LEMMA CleanStep ==
  ASSUME Lossy, TypeOK, LossyInv, HandledInv, CleanInv, [Next]_vars PROVE CleanInv'
  <1>1. CASE Bus
    BY <1>1, CleanBus
  <1>2. CASE CommRun
    BY <1>2, CleanCommStep DEF CommRun
  <1>3. CASE CommTake \/ CommTick
    <2>1. UNCHANGED <<linkVars, rxMsgVector, batch, stored, lastFrame, cameraFramesQueue, asmNotify, asmPc>>
      BY <1>3 DEF CommTake, Take, CommTick, DelayOver, rxVars, queueVars, asmVars
    <2>2. \/ commPc = "take" /\ commPc' = "readDone"
          \/ commPc = "delay10" /\ commPc' = "confirm"
          \/ commPc = "delay100" /\ commPc' = "take"
      BY <1>3 DEF CommTake, Take, CommTick, DelayOver, CommGoto
    <2>3. UNCHANGED <<camPos, camWait>> /\ (Intact' <=> Intact) /\ (Whole' <=> Whole)
      BY <2>1, SameLink
    <2>4. QED
      BY <2>1, <2>2, <2>3 DEF CleanInv, Drained, Answering
  <1>4. CASE CommConfirm
    <2>1. commPc = "confirm" /\ ~asmNotify.pending /\ asmPc = "wait"
      BY <1>4, AssemblerIsDone
    <2>2. commPc' = "delay100" /\ UNCHANGED <<asmPc, rxMsgVector, cameraFramesQueue>>
      BY <1>4 DEF CommConfirm, Confirm, CommGoto, rxVars, queueVars, asmVars
    <2>3. camWait' => camPos' = FramesPerChunk
      BY <1>4 DEF CommConfirm, Confirmed, Advance, CleanInv
    <2>4. ~(Intact' /\ camPos' > 0)
      <3>1. Intact' => Advance
        BY <1>4, AfterConfirm
      <3>2. QED
        BY <3>1 DEF Advance
    <2>5. Whole' => cameraFramesQueue' = <<>>
      BY <1>4, <2>1, <2>2, AfterConfirm DEF CleanInv, Drained, Answering
    <2>6. QED
      BY <2>1, <2>2, <2>3, <2>4, <2>5, CleanQuiet
  <1>5. CASE Asm
    BY <1>5, CleanAsm
  <1>6. CASE ClsRun \/ UNCHANGED vars
    <2>1. UNCHANGED <<linkVars, rxMsgVector, commPc, batch, stored, lastFrame, cameraFramesQueue, asmNotify, asmPc>>
      BY <1>6 DEF ClsRun, vars, rxVars, commVars, queueVars, asmVars
    <2>2. UNCHANGED <<camPos, camWait>> /\ (Intact' <=> Intact) /\ (Whole' <=> Whole)
      BY <2>1, SameLink
    <2>3. QED
      BY <2>1, <2>2 DEF CleanInv, Drained
  <1>7. QED
    BY <1>1, <1>2, <1>3, <1>4, <1>5, <1>6 DEF Next, Comm

-------------------------------------------------------------------------------
LEMMA EndInit == Init => EndInv
  BY DEF Init, ReceptionInit, AssemblerInit, EndInv

\* communicationTask is idle and the assembler waits.
LEMMA EndQuiet ==
  ASSUME commPc' \in {"take", "delay10", "confirm", "delay100", "dead"}, ~rxNotified',
         asmPc' = "wait", ~asmNotify'.pending
  PROVE  EndInv'
  BY DEF EndInv

LEMMA EndBus ==
  ASSUME Lossy, EndIsTold, TypeOK, LossyInv, HandledInv, EndInv, Bus PROVE EndInv'
  <1>0. UNCHANGED taskVars
    BY DEF Bus, CameraData, CameraEndOfFrame, LoseFrame, OtherNode, CameraTimeout
  <1>1. UNCHANGED <<commPc, isEndOfImage, batch, stored, lastFrame, asmNotify, asmPc, asmEoi>>
    BY <1>0 DEF taskVars, commVars, queueVars, asmVars
  <1>2. CASE OtherNode
    <2> SUFFICES ASSUME LastChunk = 0 PROVE EndInv'
      BY DEF EndInv, LastChunk
    <2>1. PICK id \in ForeignIds : RecvData([id |-> id])
      BY <1>2 DEF OtherNode, Lossy
    <2>2. id \in {"lidar", "other"} /\ [id |-> id] \in Frame
      BY <2>1, Constants, LinkAssumption DEF Lossy, EndIsTold, Frame, ForeignFrame
    <2>3. rxMsgVector \in Seq(Frame) /\ rxMsgVector' = Append(rxMsgVector, [id |-> id]) /\ UNCHANGED rxNotified
      BY <2>1 DEF RecvData, TypeOK, ReceptionTypeOK
    <2>4. EndsWith(rxMsgVector', {"lidar", "other"})
      BY <2>2, <2>3 DEF EndsWith
    <2>5. QED
      BY <1>1, <2>3, <2>4 DEF EndInv, EndsWith
  <1>3. CASE CameraEndOfFrame
    <2>1. commPc \in {"take", "delay100", "dead"} /\ asmPc = "wait" /\ ~asmNotify.pending
      BY <1>3, IdleBus DEF CameraEndOfFrame, SendEndOfFrame, OtherNode
    <2>2. LastChunk = 0 => endOfImage'
      <3>1. LastChunk = 0 => IsLast
        BY DEF IsLast, TypeOK, LinkTypeOK
      <3>2. endOfImage' = IsLast
        BY <1>3 DEF CameraEndOfFrame, RecvEndOfFrame
      <3>3. QED
        BY <3>1, <3>2
    <2>3. QED
      BY <1>1, <2>1, <2>2 DEF EndInv
  <1>4. CASE ~OtherNode /\ ~CameraEndOfFrame
    <2>1. commPc \in {"take", "delay100", "dead"} /\ asmPc = "wait" /\ ~asmNotify.pending
      BY <1>4, IdleBus
    <2>2. ~rxNotified'
      BY <1>4 DEF Bus, CameraData, SendFrame, RecvData, LoseFrame, SendEndOfFrame, CameraTimeout, Unanswered,
                  MayFault, Lossy, LossyInv, rxVars
    <2>3. QED
      BY <1>1, <2>1, <2>2, EndQuiet
  <1>5. QED
    BY <1>2, <1>3, <1>4

LEMMA EndCopy ==
  ASSUME TypeOK, CopyEnd, EndsWith(batch, {"lidar", "other"}), EndsWith(rxMsgVector, {"lidar", "other"})
  PROVE  EndsWith(batch, {"lidar", "other"})'
  <1> DEFINE moved == [k \in DOMAIN batch |-> IF k = 1 THEN [id |-> "other"] ELSE batch[k]]
  <1>1. batch' \in {batch, rxMsgVector, moved}
    BY DEF CopyEnd, Copies
  <1>2. DOMAIN batch = 1..Len(batch) /\ Len(batch) \in Nat
    BY DEF TypeOK, ReceptionTypeOK
  <1>3. Len(moved) = Len(batch)
    BY <1>2
  <1>4. Len(batch) \in 1..Len(batch)
    BY <1>2 DEF EndsWith
  <1>5. moved[Len(batch)].id \in {"lidar", "other"}
    BY <1>2, <1>4 DEF EndsWith
  <1> HIDE DEF moved
  <1>6. QED
    BY <1>1, <1>3, <1>5 DEF EndsWith

LEMMA EndCommStep ==
  ASSUME TypeOK, LossyInv, HandledInv, CleanInv, EndInv, CommStep, UNCHANGED asmVars PROVE EndInv'
  <1> SUFFICES ASSUME LastChunk = 0 PROVE EndInv'
    BY DEF EndInv, LastChunk
  <1>0. UNCHANGED <<asmPc, asmEoi>>
    BY DEF asmVars
  <1>1. CASE ReadDone
    BY <1>0, <1>1 DEF ReadDone, CommGoto, rxVars, queueVars, EndInv, EndsWith
  <1>2. CASE ReadEoi
    BY <1>0, <1>2 DEF ReadEoi, CommGoto, rxVars, queueVars, EndInv, EndsWith, LossyInv, CommBusy
  <1>3. CASE ResetDone
    BY <1>0, <1>3 DEF ResetDone, CommGoto, queueVars, EndInv, EndsWith, LossyInv, CommBusy
  <1>4. CASE CopyBegin
    BY <1>0, <1>4 DEF CopyBegin, CommGoto, rxVars, queueVars, EndInv, EndsWith, LossyInv, CommBusy
  <1>5. CASE CopyEnd
    <2>1. /\ commPc = "copying" /\ commPc' = "store" /\ stored' = 0
          /\ UNCHANGED <<rxNotified, isEndOfImage, asmNotify>> /\ ~rxNotified
      BY <1>5 DEF CopyEnd, CommGoto, rxVars, queueVars, LossyInv, CommBusy
    <2>2. ~isEndOfImage => EndsWith(batch, {"lidar", "other"})'
      BY <1>5, <2>1, EndCopy DEF EndInv
    <2>3. ~isEndOfImage' => stored' # Len(batch')
      BY <2>1, <2>2 DEF EndsWith
    <2>4. QED
      BY <1>0, <2>1, <2>2, <2>3 DEF EndInv
  <1>6. CASE Store
    <2>1. /\ commPc = "store" /\ commPc' \in {"store", "dead"} /\ stored' = stored + 1
          /\ UNCHANGED <<rxNotified, isEndOfImage, batch, asmNotify>> /\ ~rxNotified
      BY <1>6 DEF Store, StoreMsg, rxVars, LossyInv, CommBusy
    <2>2. ~isEndOfImage /\ stored' = Len(batch) => lastFrame'.id # "camera"
      <3> SUFFICES ASSUME ~isEndOfImage, stored + 1 = Len(batch) PROVE lastFrame'.id # "camera"
        BY <2>1
      <3>1. batch[stored + 1].id \in {"lidar", "other"}
        BY <2>1 DEF EndInv, EndsWith
      <3>2. QED
        BY <1>6, <3>1 DEF Store
    <2>3. QED
      BY <1>0, <2>1, <2>2 DEF EndInv, EndsWith
  <1>7. CASE StoreEnd
    BY <1>0, <1>7 DEF StoreEnd, CommGoto, rxVars, queueVars, EndInv, LossyInv, CommBusy
  <1>8. CASE CompletedFrame
    <2>1. /\ commPc = "complete" /\ commPc' = "clear" /\ ~rxNotified'
      BY <1>8 DEF CompletedFrame, CommGoto, rxVars, LossyInv, CommBusy
    <2>2. asmPc = "wait" /\ ~asmNotify.pending
      BY <2>1, AssemblerWaits DEF Answering
    <2>3. asmNotify'.pending => asmNotify'.eoi = isEndOfImage /\ lastFrame.id = "camera"
      BY <1>8, <2>2 DEF CompletedFrame
    <2>4. stored = Len(batch)
      BY <2>1 DEF CleanInv
    <2>5. QED
      BY <1>0, <2>1, <2>2, <2>3, <2>4 DEF EndInv
  <1>9. CASE ClearBuffer
    BY <1>0, <1>9 DEF ClearBuffer, CommGoto, queueVars, EndInv, LossyInv, CommBusy
  <1>10. QED
    BY <1>1, <1>2, <1>3, <1>4, <1>5, <1>6, <1>7, <1>8, <1>9 DEF CommStep

LEMMA EndStep ==
  ASSUME Lossy, EndIsTold, TypeOK, LossyInv, HandledInv, CleanInv, EndInv, [Next]_vars PROVE EndInv'
  <1>1. CASE Bus
    BY <1>1, EndBus
  <1>2. CASE CommRun
    BY <1>2, EndCommStep DEF CommRun
  <1>3. CASE CommTake
    BY <1>3 DEF CommTake, Take, CommGoto, queueVars, asmVars, EndInv, EndsWith
  <1>4. CASE CommTick
    BY <1>4 DEF CommTick, DelayOver, CommGoto, rxVars, queueVars, asmVars, EndInv, EndsWith
  <1>5. CASE CommConfirm
    <2>1. commPc = "confirm" /\ ~asmNotify.pending /\ asmPc = "wait"
      BY <1>5, AssemblerIsDone
    <2>2. commPc' = "delay100" /\ UNCHANGED <<rxNotified, asmPc, asmNotify>>
      BY <1>5 DEF CommConfirm, Confirm, CommGoto, rxVars, queueVars, asmVars
    <2>3. QED
      BY <2>1, <2>2, EndQuiet DEF LossyInv, CommBusy
  <1>6. CASE Asm
    <2>1. UNCHANGED <<rxVars, commVars>>
      BY <1>6 DEF Asm, AsmTakes, AsmFrame, AsmImage, AsmPublish
    <2>2. CASE AsmTakes
      <3>1. asmPc' = "frame" /\ asmNotify.pending /\ asmEoi' = asmNotify.eoi /\ ~asmNotify'.pending
        BY <2>2 DEF AsmTakes, AsmWait, AsmGoto, TypeOK, ReceptionTypeOK
      <3>2. QED
        BY <2>1, <3>1 DEF EndInv, EndsWith, rxVars, commVars
    <2>3. CASE AsmFrame \/ AsmImage \/ AsmPublish
      <3>1. asmPc' # "frame" /\ UNCHANGED asmNotify
        BY <2>3 DEF AsmFrame, AssembleFrame, AsmImage, AssembleImage, AsmPublish, Publish, AsmGoto, queueVars
      <3>2. QED
        BY <2>1, <3>1 DEF EndInv, EndsWith, rxVars, commVars
    <2>4. QED
      BY <1>6, <2>2, <2>3 DEF Asm
  <1>7. CASE ClsRun \/ UNCHANGED vars
    BY <1>7 DEF ClsRun, vars, rxVars, commVars, queueVars, asmVars, EndInv, EndsWith
  <1>8. QED
    BY <1>1, <1>2, <1>3, <1>4, <1>5, <1>6, <1>7 DEF Next, Comm

-------------------------------------------------------------------------------
LEMMA MarkInit == Init => MarkInv
  BY DEF Init, ReceptionInit, AssemblerInit, MarkInv

LEMMA MarkQuiet ==
  ASSUME ~rxNotified', commPc' \in {"take", "delay100", "dead"}, asmPc' = "wait", ~asmNotify'.pending
  PROVE  MarkInv'
  BY DEF MarkInv

LEMMA MarkBus ==
  ASSUME Lossy, TypeOK, LossyInv, HandledInv, MarkInv, Bus PROVE MarkInv'
  <1>0. UNCHANGED taskVars
    BY DEF Bus, CameraData, CameraEndOfFrame, LoseFrame, OtherNode, CameraTimeout
  <1>1. UNCHANGED <<commPc, isEndOfImage, asmNotify, asmPc, asmEoi>>
    BY <1>0 DEF taskVars, commVars, queueVars, asmVars
  <1>2. CASE OtherNode
    BY <1>2, CrossedNow DEF MarkInv
  <1>3. CASE CameraEndOfFrame
    <2>1. commPc \in {"take", "delay100", "dead"} /\ asmPc = "wait" /\ ~asmNotify.pending
      BY <1>3, IdleBus DEF CameraEndOfFrame, SendEndOfFrame, OtherNode
    <2>2. (IsLast' <=> IsLast) /\ endOfImage' = IsLast
      BY <1>3 DEF CameraEndOfFrame, SendEndOfFrame, RecvEndOfFrame, IsLast, LastChunk
    <2>3. QED
      BY <1>1, <2>1, <2>2 DEF MarkInv
  <1>4. CASE ~OtherNode /\ ~CameraEndOfFrame
    <2>1. commPc \in {"take", "delay100", "dead"} /\ asmPc = "wait" /\ ~asmNotify.pending
      BY <1>4, IdleBus
    <2>2. ~rxNotified'
      BY <1>4 DEF Bus, CameraData, SendFrame, RecvData, LoseFrame, SendEndOfFrame, CameraTimeout, Unanswered,
                  MayFault, Lossy, LossyInv, rxVars
    <2>3. QED
      BY <1>1, <2>1, <2>2, MarkQuiet
  <1>5. QED
    BY <1>2, <1>3, <1>4

LEMMA MarkCommStep ==
  ASSUME LossyInv, HandledInv, MarkInv, CommStep, UNCHANGED <<linkVars, asmVars>> PROVE MarkInv'
  <1>0. UNCHANGED <<asmPc, asmEoi>> /\ (IsLast' <=> IsLast) /\ (Intact' <=> Intact)
    BY SameLink DEF asmVars
  <1> USE DEF MarkInv, CommGoto, LossyInv, CommBusy
  <1>1. CASE ReadDone
    BY <1>0, <1>1 DEF ReadDone, rxVars, queueVars
  <1>2. CASE ReadEoi
    BY <1>0, <1>2 DEF ReadEoi, rxVars, queueVars
  <1>3. CASE ResetDone
    BY <1>0, <1>3 DEF ResetDone, queueVars
  <1>4. CASE CopyBegin
    BY <1>0, <1>4 DEF CopyBegin, rxVars, queueVars
  <1>5. CASE CopyEnd
    BY <1>0, <1>5 DEF CopyEnd, rxVars, queueVars
  <1>6. CASE Store
    <2>1. commPc = "store" /\ commPc' \in {"store", "dead"} /\ UNCHANGED <<rxVars, isEndOfImage, asmNotify>>
      BY <1>6 DEF Store, StoreMsg
    <2>2. QED
      BY <1>0, <2>1 DEF rxVars
  <1>7. CASE StoreEnd
    BY <1>0, <1>7 DEF StoreEnd, rxVars, queueVars
  <1>8. CASE CompletedFrame
    <2>1. commPc = "complete" /\ commPc' = "clear" /\ ~rxNotified'
      BY <1>8 DEF CompletedFrame, rxVars
    <2>2. ~asmNotify.pending /\ asmPc = "wait"
      BY <2>1, AssemblerWaits DEF Answering
    <2>3. asmNotify'.pending => asmNotify'.eoi = isEndOfImage
      BY <1>8, <2>2 DEF CompletedFrame
    <2>4. QED
      BY <1>0, <2>1, <2>2, <2>3
  <1>9. CASE ClearBuffer
    BY <1>0, <1>9 DEF ClearBuffer, queueVars
  <1>10. QED
    BY <1>1, <1>2, <1>3, <1>4, <1>5, <1>6, <1>7, <1>8, <1>9 DEF CommStep

LEMMA MarkStep ==
  ASSUME Lossy, TypeOK, LossyInv, HandledInv, CleanInv, MarkInv, [Next]_vars PROVE MarkInv'
  <1>1. CASE Bus
    BY <1>1, MarkBus
  <1>2. CASE CommRun
    BY <1>2, MarkCommStep DEF CommRun
  <1>3. CASE CommTake \/ CommTick
    <2>1. /\ UNCHANGED <<linkVars, endOfImage, isEndOfImage, asmNotify, asmPc, asmEoi>>
          /\ rxNotified' => rxNotified
      BY <1>3 DEF CommTake, Take, CommTick, DelayOver, rxVars, queueVars, asmVars
    <2>2. \/ commPc = "take" /\ commPc' = "readDone" /\ rxNotified
          \/ commPc = "delay10" /\ commPc' = "confirm"
          \/ commPc = "delay100" /\ commPc' = "take"
      BY <1>3 DEF CommTake, Take, CommTick, DelayOver, CommGoto
    <2>3. (Intact' <=> Intact) /\ (IsLast' <=> IsLast)
      BY <2>1, SameLink
    <2>4. QED
      BY <2>1, <2>2, <2>3 DEF MarkInv
  <1>4. CASE CommConfirm
    <2>1. commPc = "confirm" /\ ~asmNotify.pending /\ asmPc = "wait"
      BY <1>4, AssemblerIsDone
    <2>2. commPc' = "delay100" /\ UNCHANGED <<rxNotified, asmNotify, asmPc>>
      BY <1>4 DEF CommConfirm, Confirm, CommGoto, rxVars, queueVars, asmVars
    <2>3. ~rxNotified
      BY <2>1 DEF LossyInv, CommBusy
    <2>4. QED
      BY <2>1, <2>2, <2>3, MarkQuiet
  <1>5. CASE Asm
    <2>1. UNCHANGED <<linkVars, rxVars, commVars>>
      BY <1>5 DEF Asm, AsmTakes, AsmFrame, AsmImage, AsmPublish
    <2>2. /\ UNCHANGED <<rxNotified, endOfImage, commPc, isEndOfImage>>
          /\ (IsLast' <=> IsLast) /\ (Intact' <=> Intact)
      BY <2>1, SameLink DEF rxVars, commVars
    <2>3. CASE AsmTakes
      <3>1. asmPc' = "frame" /\ asmNotify.pending /\ asmEoi' = asmNotify.eoi /\ ~asmNotify'.pending
        BY <2>3 DEF AsmTakes, AsmWait, AsmGoto, TypeOK, ReceptionTypeOK
      <3>2. QED
        BY <2>2, <3>1 DEF MarkInv
    <2>4. CASE AsmFrame
      <3>1. /\ asmPc = "frame" /\ asmPc' \in {"image", "wait"} /\ (asmPc' = "image" => asmEoi)
            /\ UNCHANGED <<asmNotify, asmEoi>>
        BY <2>4 DEF AsmFrame, AssembleFrame
      <3>2. QED
        BY <2>2, <3>1 DEF MarkInv
    <2>5. CASE AsmImage \/ AsmPublish
      <3>1. /\ asmPc \in {"image", "publish"} /\ asmPc' \in {"publish", "wait"}
            /\ UNCHANGED <<asmNotify, asmEoi>>
        BY <2>5 DEF AsmImage, AssembleImage, AsmPublish, Publish, AsmGoto, queueVars
      <3>2. QED
        BY <2>2, <3>1 DEF MarkInv
    <2>6. QED
      BY <1>5, <2>3, <2>4, <2>5 DEF Asm
  <1>6. CASE ClsRun \/ UNCHANGED vars
    <2>1. UNCHANGED <<linkVars, rxNotified, endOfImage, commPc, isEndOfImage, asmNotify, asmPc, asmEoi>>
      BY <1>6 DEF ClsRun, vars, rxVars, commVars, queueVars, asmVars
    <2>2. (Intact' <=> Intact) /\ (IsLast' <=> IsLast)
      BY <2>1, SameLink
    <2>3. QED
      BY <2>1, <2>2 DEF MarkInv
  <1>7. QED
    BY <1>1, <1>2, <1>3, <1>4, <1>5, <1>6 DEF Next, Comm

-------------------------------------------------------------------------------
LEMMA TextInit == Init => TextInv
  <1> SUFFICES ASSUME Init PROVE TextInv
    OBVIOUS
  <1>1. rxMsgVector = <<>> /\ camPos = 0 /\ commPc = "take" /\ ~asmNotify.pending /\ asmPc = "wait"
    BY DEF Init, LinkInit, ReceptionInit, AssemblerInit
  <1>2. Begins(<<>>, 0)
    BY DEF Begins
  <1>3. QED
    BY <1>1, <1>2 DEF TextInv

\* Nothing is on its way to the assembler, and the vector holds what it should.
LEMMA TextQuiet ==
  ASSUME commPc' \notin {"store", "complete"}, asmPc' = "wait", ~asmNotify'.pending,
         Whole' => Begins(rxMsgVector, camPos)'
  PROVE  TextInv'
  BY DEF TextInv

\* Another step, which does not touch what TextInv speaks of.
LEMMA TextElsewhere ==
  ASSUME TextInv, UNCHANGED <<linkVars, rxMsgVector, cameraFramesQueue, batch, stored, lastFrame, asmMsg>>,
         commPc' \in {"delay10", "confirm"} \/ commPc \notin {"delay10", "confirm"},
         commPc' \in {"store", "complete"} => commPc' = commPc,
         asmNotify'.pending => asmNotify' = asmNotify,
         asmPc' = "frame" => asmPc = "frame"
  PROVE  TextInv'
  <1>1. UNCHANGED <<camImg, camChunk, camPos>>
    BY DEF linkVars
  <1>2. (Whole' => Whole) /\ Current' = Current /\ CurrentText' = CurrentText
    BY SameLink
  <1>3. Byte0(Current)' = Byte0(Current)
    BY <1>2 DEF Byte0
  <1>4. UNCHANGED <<Begins(rxMsgVector, camPos), Begins(cameraFramesQueue, stored),
                    Begins(cameraFramesQueue, FramesPerChunk)>>
    BY <1>1, <1>2 DEF Begins
  <1>5. UNCHANGED <<batch, stored, lastFrame, asmMsg>>
    OBVIOUS
  <1>6. stored > 0 => CurrentText'[stored'] = CurrentText[stored]
    BY <1>2
  <1>7. QED
    BY <1>2, <1>3, <1>4, <1>5, <1>6 DEF TextInv

LEMMA TextBus ==
  ASSUME Lossy, TypeOK, LossyInv, HandledInv, TextInv, Bus PROVE TextInv'
  <1>0. UNCHANGED taskVars
    BY DEF Bus, CameraData, CameraEndOfFrame, LoseFrame, OtherNode, CameraTimeout
  <1>1. UNCHANGED <<commPc, batch, stored, lastFrame, asmNotify, asmPc, asmMsg, cameraFramesQueue>>
    BY <1>0 DEF taskVars, commVars, queueVars, asmVars
  <1>2. CASE OtherNode
    BY <1>1, <1>2, CrossedNow DEF TextInv
  <1>3. ~OtherNode =>
          ~asmNotify.pending /\ asmPc = "wait" /\ commPc \notin {"store", "complete", "delay10", "confirm"}
    BY IdleBus
  <1>4. CASE CameraData /\ ~OtherNode
    <2>1. PICK f \in CameraFrame :
            SendFrame(f) /\ RecvData(f) /\ ((~f.ff /\ NoFault) \/ Fault)
      BY <1>4 DEF CameraData, MayFault, Lossy
    <2>2. UNCHANGED <<camImg, camChunk>> /\ Touched \subseteq Touched'
      BY <1>4, <2>1, TouchedStays DEF SendFrame, Next, Bus
    <2>3. (Whole' => Whole) /\ CurrentText' = CurrentText
      BY <2>2, SameChunk
    <2>4. Whole' => Begins(rxMsgVector, camPos)'
      <3> SUFFICES ASSUME Whole' PROVE Begins(rxMsgVector, camPos)'
        OBVIOUS
      <3>1. Begins(rxMsgVector, camPos)
        BY <1>3, <1>4, <2>3 DEF TextInv
      <3>2. ~f.ff
        BY <2>1, <2>2, DamagedNow
      <3>3. /\ rxMsgVector \in Seq(Frame) /\ rxMsgVector' = Append(rxMsgVector, f)
            /\ camPos' = camPos + 1 /\ camPos \in Nat /\ camPos < FramesPerChunk /\ FramesPerChunk \in Nat
            /\ f \in Frame
        BY <2>1, Constants DEF SendFrame, RecvData, TypeOK, LinkTypeOK, ReceptionTypeOK, Frame
      <3>4. f = CurrentText[camPos + 1]
        <4>1. camPos + 1 \in 1..FramesPerChunk /\ (camPos + 1) - 1 = camPos
          BY <3>3
        <4>2. CurrentText[camPos + 1] = [id |-> "camera", img |-> camImg, chunk |-> camChunk, pos |-> camPos,
                                         ff |-> FALSE]
          BY <4>1 DEF CurrentText, TextOf, Current
        <4>3. f = [id |-> "camera", img |-> camImg, chunk |-> camChunk, pos |-> camPos, ff |-> FALSE]
          BY <2>1, <3>2 DEF SendFrame, CameraFrame
        <4>4. QED
          BY <4>2, <4>3
      <3>5. Len(rxMsgVector') = camPos'
        BY <3>1, <3>3 DEF Begins
      <3>6. ASSUME NEW k \in 1..camPos' PROVE rxMsgVector'[k] = CurrentText[k]
        <4>1. CASE k = camPos + 1
          BY <3>1, <3>3, <3>4, <4>1 DEF Begins
        <4>2. CASE k # camPos + 1
          <5>1. k \in 1..camPos
            BY <3>3, <4>2
          <5>2. QED
            BY <3>1, <3>3, <5>1 DEF Begins
        <4>3. QED
          BY <4>1, <4>2
      <3>7. QED
        BY <2>3, <3>5, <3>6 DEF Begins
    <2>5. QED
      BY <1>1, <1>3, <1>4, <2>4, TextQuiet
  <1>5. CASE CameraEndOfFrame /\ ~OtherNode
    <2>1. UNCHANGED <<camImg, camChunk, camPos, rxMsgVector>>
      BY <1>5 DEF CameraEndOfFrame, SendEndOfFrame, RecvEndOfFrame
    <2>2. (Whole' => Whole) /\ CurrentText' = CurrentText
      BY <1>5, <2>1, TouchedStays, SameChunk DEF Next, Bus
    <2>3. Whole' => Begins(rxMsgVector, camPos)'
      BY <1>3, <1>5, <2>1, <2>2 DEF TextInv, Begins
    <2>4. QED
      BY <1>1, <1>3, <1>5, <2>3, TextQuiet
  <1>6. CASE (LoseFrame \/ CameraTimeout) /\ ~OtherNode
    <2>1. ~Whole'
      <3>1. LoseFrame => Fault /\ UNCHANGED camImg
        BY DEF LoseFrame, SendFrame, SendEndOfFrame
      <3>2. QED
        BY <1>6, <3>1, DamagedNow, AfterTimeout
    <2>2. QED
      BY <1>1, <1>3, <1>6, <2>1, TextQuiet
  <1>7. QED
    BY <1>2, <1>4, <1>5, <1>6 DEF Bus

LEMMA TextStore ==
  ASSUME TypeOK, LossyInv, HandledInv, CleanInv, TextInv, Store, UNCHANGED <<linkVars, asmVars>>
  PROVE  TextInv'
  <1>1. /\ commPc = "store" /\ commPc' \in {"store", "dead"} /\ stored' = stored + 1 /\ stored < Len(batch)
        /\ UNCHANGED <<batch, asmNotify, rxMsgVector, asmPc, camImg, camChunk, camPos>>
    BY DEF Store, StoreMsg, rxVars, asmVars, linkVars
  <1>2. ~asmNotify.pending /\ asmPc = "wait"
    BY <1>1, AssemblerWaits DEF Answering
  <1>3. (Whole' => Whole) /\ CurrentText' = CurrentText
    BY SameLink
  <1>4. Whole => batch = rxMsgVector /\ camPos = FramesPerChunk
    BY <1>1 DEF CleanInv, Whole, LossyInv, CommBusy
  <1>5. Whole' => Begins(rxMsgVector, camPos)'
    BY <1>1, <1>3 DEF TextInv, Begins
  <1>6. Whole' /\ commPc' = "store" =>
          Begins(cameraFramesQueue, stored)' /\ lastFrame' = CurrentText'[stored']
    <2> SUFFICES ASSUME Whole', commPc' = "store"
                 PROVE  Begins(cameraFramesQueue, stored)' /\ lastFrame' = CurrentText'[stored']
      OBVIOUS
    <2>1. stored \in Nat /\ stored + 1 \in 1..Len(batch)
      BY <1>1 DEF TypeOK, ReceptionTypeOK
    <2>2. Begins(cameraFramesQueue, stored) /\ Begins(rxMsgVector, camPos)
      BY <1>1, <1>3 DEF TextInv
    <2>3. batch[stored + 1] = CurrentText[stored + 1] /\ stored + 1 \in 1..FramesPerChunk
      BY <1>3, <1>4, <2>1, <2>2 DEF Begins
    <2>4. batch[stored + 1].id = "camera"
      BY <2>3 DEF CurrentText, TextOf
    <2>5. cameraFramesQueue' = Append(cameraFramesQueue, batch[stored + 1]) /\ lastFrame' = batch[stored + 1]
      BY <1>1, <2>4 DEF Store, StoreMsg
    <2>6. cameraFramesQueue \in Seq(CameraFrame)
      BY DEF TypeOK, ReceptionTypeOK
    <2>7. Len(cameraFramesQueue') = stored'
      BY <1>1, <2>2, <2>5, <2>6 DEF Begins
    <2>8. ASSUME NEW k \in 1..stored' PROVE cameraFramesQueue'[k] = CurrentText[k]
      <3>1. CASE k = stored + 1
        BY <2>2, <2>3, <2>5, <2>6, <3>1 DEF Begins
      <3>2. CASE k # stored + 1
        <4>1. k \in 1..stored
          BY <1>1, <2>1, <3>2
        <4>2. QED
          BY <2>2, <2>5, <2>6, <4>1 DEF Begins
      <3>3. QED
        BY <3>1, <3>2
    <2>9. QED
      BY <1>1, <1>3, <2>3, <2>5, <2>7, <2>8 DEF Begins
  <1>7. QED
    BY <1>1, <1>2, <1>5, <1>6 DEF TextInv

\* The last frame stored is the last of the chunk, and has its number.
LEMMA TextCompletedFrame ==
  ASSUME TypeOK, LossyInv, HandledInv, CleanInv, TextInv, CompletedFrame, UNCHANGED <<linkVars, asmVars>>
  PROVE  TextInv' /\ (Whole => asmNotify'.pending)
  <1>1. /\ commPc = "complete" /\ commPc' = "clear"
        /\ UNCHANGED <<rxMsgVector, batch, stored, cameraFramesQueue, asmPc, camImg, camChunk, camPos>>
    BY DEF CompletedFrame, CommGoto, rxVars, asmVars, linkVars
  <1>2. asmPc = "wait" /\ ~asmNotify.pending
    BY <1>1, AssemblerWaits DEF Answering
  <1>3. (Whole' => Whole) /\ CurrentText' = CurrentText /\ Current' = Current
    BY SameLink
  <1>4. Whole' => Begins(rxMsgVector, camPos)'
    BY <1>1, <1>3 DEF TextInv, Begins
  <1>5. ASSUME Whole
        PROVE  asmNotify'.pending /\ asmNotify'.msgIndex = Byte0(Current)
               /\ Begins(cameraFramesQueue, FramesPerChunk)
    <2>1. camPos = FramesPerChunk /\ batch = rxMsgVector /\ stored = Len(batch)
      BY <1>1, <1>5 DEF LossyInv, CommBusy, CleanInv, Whole
    <2>2. stored = FramesPerChunk
      BY <1>1, <1>5, <2>1 DEF TextInv, Begins
    <2>3. FramesPerChunk \in Nat /\ FramesPerChunk >= 1
      BY Constants
    <2>4. Begins(cameraFramesQueue, FramesPerChunk) /\ lastFrame = CurrentText[FramesPerChunk]
      BY <1>1, <1>5, <2>2, <2>3 DEF TextInv
    <2>5. lastFrame.id = "camera" /\ Byte0(lastFrame) = Byte0(Current)
      BY <2>3, <2>4 DEF CurrentText, TextOf, Byte0
    <2>6. QED
      BY <2>4, <2>5 DEF CompletedFrame
  <1>6. Whole' => asmNotify'.msgIndex = Byte0(Current)' /\ Begins(cameraFramesQueue, FramesPerChunk)'
    BY <1>1, <1>3, <1>5 DEF Begins, Byte0
  <1>7. QED
    BY <1>1, <1>2, <1>4, <1>5, <1>6 DEF TextInv

LEMMA TextCommStep ==
  ASSUME TypeOK, LossyInv, HandledInv, CleanInv, TextInv, CommStep, UNCHANGED <<linkVars, asmVars>>
  PROVE  TextInv'
  <1>0. UNCHANGED <<asmPc, asmMsg>>
    BY DEF asmVars
  <1>1. CASE ReadDone \/ ReadEoi \/ ResetDone
    <2>1. UNCHANGED <<rxMsgVector, cameraFramesQueue, batch, stored, lastFrame, asmNotify>>
      BY <1>1 DEF ReadDone, ReadEoi, ResetDone, rxVars, queueVars
    <2>2. commPc \in {"readDone", "readEoi", "resetDone"} /\ commPc' \in {"readEoi", "resetDone", "copy"}
      BY <1>1 DEF ReadDone, ReadEoi, ResetDone, CommGoto
    <2>3. QED
      BY <1>0, <2>1, <2>2, TextElsewhere
  <1>2. CASE CopyBegin \/ CopyEnd
    <2>1. commPc \in {"copy", "copying"} /\ commPc' \in {"copying", "store", "delay100"}
      BY <1>2 DEF CopyBegin, CopyEnd, CommGoto
    <2>2. UNCHANGED <<rxMsgVector, cameraFramesQueue, asmNotify, camImg, camChunk, camPos>>
      BY <1>2 DEF CopyBegin, CopyEnd, rxVars, queueVars, linkVars
    <2>3. ~asmNotify.pending /\ asmPc = "wait"
      BY <2>1, AssemblerWaits DEF Answering
    <2>4. (Whole' => Whole) /\ CurrentText' = CurrentText
      BY SameLink
    <2>5. Whole' => Begins(rxMsgVector, camPos)'
      BY <2>1, <2>2, <2>4 DEF TextInv, Begins
    <2>6. Whole => cameraFramesQueue = <<>>
      BY <2>1 DEF CleanInv, Answering
    <2>7. Whole' /\ commPc' = "store" => stored' = 0 /\ Begins(cameraFramesQueue, stored)'
      <3>1. commPc' = "store" => stored' = 0
        BY <1>2 DEF CopyBegin, CopyEnd, CommGoto
      <3>2. QED
        BY <2>2, <2>4, <2>6, <3>1 DEF Begins
    <2>8. QED
      BY <1>0, <2>1, <2>2, <2>3, <2>5, <2>7 DEF TextInv
  <1>3. CASE Store
    BY <1>3, TextStore
  <1>4. CASE StoreEnd
    <2>1. /\ commPc = "store" /\ commPc' = "complete" /\ stored' = Len(batch')
          /\ UNCHANGED <<rxMsgVector, cameraFramesQueue, asmNotify, stored, lastFrame, camImg, camChunk, camPos>>
      BY <1>4 DEF StoreEnd, CommGoto, rxVars, queueVars, linkVars
    <2>2. ~asmNotify.pending /\ asmPc = "wait"
      BY <2>1, AssemblerWaits DEF Answering
    <2>3. (Whole' => Whole) /\ CurrentText' = CurrentText
      BY SameLink
    <2>4. Whole' => Begins(rxMsgVector, camPos)' /\ Begins(cameraFramesQueue, stored)'
                    /\ (stored' > 0 => lastFrame' = CurrentText'[stored'])
      BY <2>1, <2>3 DEF TextInv, Begins
    <2>5. QED
      BY <1>0, <2>1, <2>2, <2>4 DEF TextInv
  <1>5. CASE CompletedFrame
    BY <1>5, TextCompletedFrame
  <1>6. CASE ClearBuffer
    <2>1. /\ commPc = "clear" /\ commPc' = "delay10"
          /\ UNCHANGED <<cameraFramesQueue, asmNotify, camImg, camChunk, camPos>>
      BY <1>6 DEF ClearBuffer, CommGoto, queueVars, linkVars
    <2>2. (Whole' => Whole) /\ CurrentText' = CurrentText /\ Current' = Current
      BY SameLink
    <2>3. Byte0(Current)' = Byte0(Current)
      BY <2>2 DEF Byte0
    <2>4. Begins(cameraFramesQueue, FramesPerChunk)' <=> Begins(cameraFramesQueue, FramesPerChunk)
      BY <2>1, <2>2 DEF Begins
    <2>5. QED
      BY <1>0, <2>1, <2>2, <2>3, <2>4 DEF TextInv
  <1>7. QED
    BY <1>1, <1>2, <1>3, <1>4, <1>5, <1>6 DEF CommStep

\* A confirmation that arrives finds the vector empty.
LEMMA TextConfirm ==
  ASSUME TypeOK, LossyInv, HandledInv, CleanInv, TextInv, CommConfirm PROVE TextInv'
  <1>1. commPc = "confirm" /\ ~asmNotify.pending /\ asmPc = "wait"
    BY AssemblerIsDone
  <1>2. commPc' = "delay100" /\ UNCHANGED <<asmNotify, asmPc, rxMsgVector>>
    BY DEF CommConfirm, Confirm, CommGoto, rxVars, queueVars, asmVars
  <1>3. Whole' => camPos' = 0 /\ Intact
    BY AfterConfirm DEF Advance
  <1>4. Intact => rxMsgVector = <<>>
    BY <1>1 DEF CleanInv
  <1>5. Whole' => Begins(rxMsgVector, camPos)'
    BY <1>2, <1>3, <1>4 DEF Begins
  <1>6. QED
    BY <1>1, <1>2, <1>5, TextQuiet

LEMMA TextAsm == ASSUME TypeOK, HandledInv, CleanInv, TextInv, Asm PROVE TextInv'
  <1>1. UNCHANGED <<camImg, camChunk, camPos, commPc, rxMsgVector, batch, stored, lastFrame>>
    BY DEF Asm, AsmTakes, AsmFrame, AsmImage, AsmPublish, linkVars, rxVars, commVars
  <1>2. (Whole' => Whole) /\ CurrentText' = CurrentText /\ Current' = Current
    BY SameLink DEF Asm, AsmTakes, AsmFrame, AsmImage, AsmPublish
  <1>3. Byte0(Current)' = Byte0(Current)
    BY <1>2 DEF Byte0
  <1>4. commPc \in Answering
    BY DEF Asm, AsmTakes, AsmWait, AsmFrame, AssembleFrame, AsmImage, AssembleImage, AsmPublish, Publish, AsmGoto,
           HandledInv
  <1>5. Whole' /\ commPc' \notin {"delay10", "confirm"} => Begins(rxMsgVector, camPos)'
    BY <1>1, <1>2 DEF TextInv, Begins
  <1>6. CASE AsmTakes
    <2>1. /\ asmPc' = "frame" /\ asmNotify.pending /\ asmMsg' = asmNotify.msgIndex
          /\ asmNotify' = [asmNotify EXCEPT !.pending = FALSE] /\ UNCHANGED cameraFramesQueue
      BY <1>6 DEF AsmTakes, AsmWait, AsmGoto
    <2>2. ~asmNotify'.pending
      BY <2>1 DEF TypeOK, ReceptionTypeOK
    <2>3. Whole' => asmMsg' = Byte0(Current)' /\ Begins(cameraFramesQueue, FramesPerChunk)'
      BY <1>2, <1>3, <2>1 DEF TextInv, Begins
    <2>4. QED
      BY <1>1, <1>4, <1>5, <2>2, <2>3 DEF TextInv, Answering
  <1>7. CASE AsmFrame \/ AsmImage \/ AsmPublish
    <2>1. asmPc # "wait" /\ asmPc' # "frame" /\ UNCHANGED asmNotify
      BY <1>7 DEF AsmFrame, AssembleFrame, AsmImage, AssembleImage, AsmPublish, Publish, AsmGoto, queueVars
    <2>2. ~asmNotify'.pending
      BY <2>1 DEF CleanInv
    <2>3. QED
      BY <1>1, <1>4, <1>5, <2>1, <2>2 DEF TextInv, Answering
  <1>8. QED
    BY <1>6, <1>7 DEF Asm

LEMMA TextStep ==
  ASSUME Lossy, TypeOK, LossyInv, HandledInv, CleanInv, TextInv, [Next]_vars PROVE TextInv'
  <1>1. CASE Bus
    BY <1>1, TextBus
  <1>2. CASE CommRun
    BY <1>2, TextCommStep DEF CommRun
  <1>3. CASE CommTake \/ CommTick
    <2>1. UNCHANGED <<linkVars, rxMsgVector, cameraFramesQueue, batch, stored, lastFrame, asmMsg, asmNotify, asmPc>>
      BY <1>3 DEF CommTake, Take, CommTick, DelayOver, rxVars, queueVars, asmVars
    <2>2. \/ commPc = "take" /\ commPc' = "readDone"
          \/ commPc = "delay10" /\ commPc' = "confirm"
          \/ commPc = "delay100" /\ commPc' = "take"
      BY <1>3 DEF CommTake, Take, CommTick, DelayOver, CommGoto
    <2>3. QED
      BY <2>1, <2>2, TextElsewhere
  <1>4. CASE CommConfirm
    BY <1>4, TextConfirm
  <1>5. CASE Asm
    BY <1>5, TextAsm
  <1>6. CASE ClsRun \/ UNCHANGED vars
    <2>1. UNCHANGED <<linkVars, rxMsgVector, cameraFramesQueue, batch, stored, lastFrame, asmMsg, asmNotify, asmPc,
                      commPc>>
      BY <1>6 DEF ClsRun, vars, rxVars, commVars, queueVars, asmVars
    <2>2. QED
      BY <2>1, TextElsewhere
  <1>7. QED
    BY <1>1, <1>2, <1>3, <1>4, <1>5, <1>6 DEF Next, Comm

-------------------------------------------------------------------------------
LEMMA SnapInit == Init => SnapInv
  <1> SUFFICES ASSUME Init PROVE SnapInv
    OBVIOUS
  <1>1. snapshots = <<>> /\ camChunk = 0 /\ commPc = "take" /\ ~asmNotify.pending /\ asmPc = "wait"
    BY DEF Init, LinkInit, ReceptionInit, AssemblerInit
  <1>2. Snapped(0) /\ commPc \notin Answering
    BY <1>1 DEF Snapped, Answering
  <1>3. QED
    BY <1>1, <1>2 DEF SnapInv, Handled

\* Outside Answering, only the snapshots of the image so far are spoken of.
LEMMA SnapQuiet ==
  ASSUME SnapInv, commPc' \notin Answering, asmPc' = "wait", asmPc = "wait", UNCHANGED snapshots,
         Follows' => Snapped(camChunk)'
  PROVE  SnapInv'
  BY DEF SnapInv, Handled

\* Another step that leaves the assembler alone.
LEMMA SnapElsewhere ==
  ASSUME SnapInv, UNCHANGED <<linkVars, asmNotify, asmPc, asmImageId, snapshots, everShown>>,
         commPc' \in Answering <=> commPc \in Answering
  PROVE  SnapInv'
  <1>1. UNCHANGED <<camImg, camChunk>>
    BY DEF linkVars
  <1>2. (Follows' => Follows) /\ (Intact' => Intact) /\ (IsLast' <=> IsLast)
    BY SameLink
  <1>3. /\ Snapped(camChunk)' <=> Snapped(camChunk)
        /\ Snapped(camChunk + 1)' <=> Snapped(camChunk + 1)
        /\ Snapped(ChunksPerImage)' <=> Snapped(ChunksPerImage)
    BY <1>1 DEF Snapped
  <1>4. Handled' <=> Handled
    BY DEF Handled
  <1>5. QED
    BY <1>1, <1>2, <1>3, <1>4 DEF SnapInv, LastChunk

LEMMA SnapBus ==
  ASSUME Lossy, TypeOK, LossyInv, HandledInv, SnapInv, Bus PROVE SnapInv'
  <1>0. UNCHANGED taskVars
    BY DEF Bus, CameraData, CameraEndOfFrame, LoseFrame, OtherNode, CameraTimeout
  <1>1. UNCHANGED <<commPc, asmPc, snapshots>>
    BY <1>0 DEF taskVars, commVars, asmVars
  <1>2. CASE OtherNode
    BY <1>1, <1>2, CrossedNow DEF SnapInv, LastChunk
  <1>3. CASE ~OtherNode
    <2>1. asmPc = "wait" /\ commPc \notin Answering
      BY <1>3, IdleBus DEF Answering
    <2>2. Follows' => Snapped(camChunk)'
      <3>1. CASE CameraData \/ CameraEndOfFrame
        <4>1. UNCHANGED <<camImg, camChunk>>
          BY <3>1 DEF CameraData, SendFrame, CameraEndOfFrame, SendEndOfFrame
        <4>2. Follows' => Follows
          BY <3>1, <4>1, TouchedStays, SameChunk DEF Next, Bus
        <4>3. QED
          BY <1>1, <2>1, <4>1, <4>2 DEF SnapInv, Snapped
      <3>2. CASE LoseFrame
        BY <3>2, DamagedNow DEF LoseFrame, SendFrame, SendEndOfFrame
      <3>3. CASE CameraTimeout
        BY <3>3, AfterTimeout
      <3>4. QED
        BY <1>3, <3>1, <3>2, <3>3 DEF Bus
    <2>3. QED
      BY <1>1, <2>1, <2>2, SnapQuiet
  <1>4. QED
    BY <1>2, <1>3

\* Once the chunk is stored whole, it is going to be decoded; what is not whole
\* is of an image that is not followed, or that is all in this chunk.
LEMMA SnapCompletedFrame ==
  ASSUME TypeOK, LossyInv, HandledInv, CleanInv, TextInv, SnapInv, CompletedFrame,
         UNCHANGED <<linkVars, asmVars, everShown>>
  PROVE  SnapInv'
  <1>1. /\ commPc = "complete" /\ commPc' = "clear"
        /\ UNCHANGED <<asmPc, asmImageId, snapshots, camImg, camChunk>>
    BY DEF CompletedFrame, CommGoto, asmVars, linkVars
  <1>2. asmPc = "wait" /\ commPc \notin Answering
    BY <1>1, AssemblerWaits DEF Answering
  <1>3. (Follows' => Follows) /\ (Intact' => Intact) /\ (IsLast' <=> IsLast)
    BY SameLink
  <1>4. Whole => asmNotify'.pending
    BY TextCompletedFrame
  <1>5. Follows' => Snapped(camChunk)' /\ asmNotify'.pending
    BY <1>1, <1>2, <1>3, <1>4 DEF SnapInv, Snapped, Whole, Follows
  <1>6. Intact' /\ IsLast' /\ ~asmNotify'.pending => snapshots' = <<>>
    <2>1. CASE camChunk > 0
      BY <1>3, <1>4, <2>1 DEF Whole
    <2>2. CASE ~(camChunk > 0)
      <3>1. IsLast => LastChunk = 0
        BY <2>2, Constants DEF IsLast, TypeOK, LinkTypeOK
      <3>2. QED
        BY <1>1, <1>2, <1>3, <3>1 DEF SnapInv
    <2>3. QED
      BY <2>1, <2>2
  <1>7. QED
    BY <1>1, <1>2, <1>5, <1>6 DEF SnapInv, Handled, LastChunk

LEMMA SnapCommStep ==
  ASSUME TypeOK, LossyInv, HandledInv, CleanInv, TextInv, SnapInv, CommStep,
         UNCHANGED <<linkVars, asmVars, everShown>>
  PROVE  SnapInv'
  <1>1. CASE CompletedFrame
    BY <1>1, SnapCompletedFrame
  <1>2. CASE ReadDone \/ ReadEoi \/ ResetDone \/ CopyBegin \/ CopyEnd \/ Store \/ StoreEnd \/ ClearBuffer
    <2>1. UNCHANGED asmNotify
      BY <1>2 DEF ReadDone, ReadEoi, ResetDone, CopyBegin, CopyEnd, Store, StoreEnd, ClearBuffer, queueVars
    <2>2. commPc' \in Answering <=> commPc \in Answering
      BY <1>2 DEF ReadDone, ReadEoi, ResetDone, CopyBegin, CopyEnd, Store, StoreMsg, StoreEnd, ClearBuffer,
                  CommGoto, Answering
    <2>3. QED
      BY <2>1, <2>2, SnapElsewhere DEF asmVars
  <1>3. QED
    BY <1>1, <1>2 DEF CommStep

\* The next chunk finds the snapshots of those before it, the next image none.
LEMMA SnapConfirm ==
  ASSUME TypeOK, LossyInv, HandledInv, SnapInv, CommConfirm PROVE SnapInv'
  <1>1. commPc = "confirm" /\ ~asmNotify.pending /\ asmPc = "wait"
    BY AssemblerIsDone
  <1>2. commPc' = "delay100" /\ UNCHANGED <<asmPc, snapshots>>
    BY DEF CommConfirm, Confirm, CommGoto, asmVars
  <1>3. Handled
    BY <1>1 DEF Handled, Answering
  <1>4. Follows' => Snapped(camChunk)'
    <2> SUFFICES ASSUME Follows' PROVE Snapped(camChunk)'
      OBVIOUS
    <2>1. Advance /\ UNCHANGED Touched /\ Intact
      BY AfterConfirm
    <2>2. camImg \in Nat /\ camChunk \in Nat
      BY Constants DEF TypeOK, LinkTypeOK
    <2>3. CASE IsLast
      <3>1. camImg' - 1 = camImg /\ camChunk' = 0
        BY <2>1, <2>2, <2>3 DEF Advance
      <3>2. snapshots' = <<>>
        BY <1>2, <1>3, <2>1, <2>3 DEF SnapInv
      <3>3. QED
        BY <3>1, <3>2 DEF Snapped
    <2>4. CASE ~IsLast
      <3>1. camImg' = camImg /\ camChunk' = camChunk + 1
        BY <2>1, <2>4 DEF Advance
      <3>2. Follows
        BY <2>1, <3>1 DEF Follows, Intact
      <3>3. Snapped(camChunk + 1)
        BY <1>3, <2>4, <3>2 DEF SnapInv
      <3>4. QED
        BY <1>2, <3>1, <3>3 DEF Snapped
    <2>5. QED
      BY <2>3, <2>4
  <1>5. QED
    BY <1>1, <1>2, <1>4, SnapQuiet DEF Answering

\* What is in the frame queue decodes to the chunk the camera is at.
LEMMA WholeDecodes ==
  ASSUME TypeOK, TextInv, Whole, asmPc = "frame"
  PROVE  Current \in Queued /\ \A c \in Queued : DecodesTo(c) <=> c = Current
  <1>1. /\ asmMsg = Byte0(Current) /\ Len(cameraFramesQueue) = FramesPerChunk
        /\ \A k \in 1..FramesPerChunk : cameraFramesQueue[k] = CurrentText[k]
    BY DEF TextInv, Begins
  <1>2. FramesPerChunk \in Nat /\ 1 \in 1..FramesPerChunk /\ cameraFramesQueue \in Seq(CameraFrame)
    BY Constants DEF TypeOK, ReceptionTypeOK
  <1>3. \A k \in 1..FramesPerChunk :
          /\ cameraFramesQueue[k].img = camImg /\ cameraFramesQueue[k].chunk = camChunk
          /\ Byte0(cameraFramesQueue[k]) = asmMsg
    BY <1>1 DEF CurrentText, TextOf, Current, Byte0
  <1>4. KeptFrames = cameraFramesQueue
    BY <1>1, <1>3, KeptIsAll
  <1>5. cameraFramesQueue = CurrentText
    <2>1. cameraFramesQueue = [k \in 1..FramesPerChunk |-> cameraFramesQueue[k]]
      BY <1>1, <1>2
    <2>2. CurrentText = [k \in 1..FramesPerChunk |-> CurrentText[k]]
      BY DEF CurrentText, TextOf
    <2>3. QED
      BY <1>1, <2>1, <2>2
  <1>6. Queued = {Current}
    <2>1. ASSUME NEW c \in Queued PROVE c = Current
      BY <1>1, <1>3 DEF Queued, Current
    <2>2. Current \in Queued
      BY <1>1, <1>2, <1>3 DEF Queued, Current
    <2>3. QED
      BY <2>1, <2>2
  <1>7. DecodesTo(Current)
    BY <1>1, <1>4, <1>5 DEF DecodesTo, CurrentText
  <1>8. QED
    BY <1>6, <1>7

LEMMA SnapFrame ==
  ASSUME TypeOK, HandledInv, CleanInv, EndInv, MarkInv, TextInv, SnapInv, AsmFrame PROVE SnapInv'
  <1>1. /\ asmPc = "frame" /\ asmPc' \in {"image", "wait"}
        /\ UNCHANGED <<camImg, camChunk, commPc, asmNotify, asmEoi, everShown>>
    BY DEF AsmFrame, AssembleFrame, linkVars, commVars
  <1>2. ~asmNotify.pending /\ commPc \in Answering /\ (Intact => (asmEoi <=> IsLast))
    BY <1>1 DEF CleanInv, MarkInv, HandledInv
  <1>3. (Follows' => Follows) /\ (Intact' => Intact) /\ (IsLast' <=> IsLast) /\ (Whole' => Whole)
    BY SameLink DEF AsmFrame
  <1>4. camChunk \in 0..LastChunk /\ LastChunk \in Nat /\ ChunksPerImage = LastChunk + 1
        /\ snapshots \in Seq(Chunk) /\ SnapshotQueueLen \in Nat /\ SnapshotQueueLen >= ChunksPerImage
    BY Constants, SnapshotAssumption DEF TypeOK, LinkTypeOK, AssemblerTypeOK
  <1>5. ASSUME Whole
        PROVE  /\ asmImageId' = camImg /\ asmPc' = IF IsLast THEN "image" ELSE "wait"
               /\ snapshots' = IF Len(snapshots) < SnapshotQueueLen THEN Append(snapshots, Current)
                                                                    ELSE snapshots
    <2>1. Current \in Queued /\ \A c \in Queued : DecodesTo(c) <=> c = Current
      BY <1>1, <1>5, WholeDecodes
    <2>2. /\ snapshots' = IF Len(snapshots) < SnapshotQueueLen THEN Append(snapshots, Current) ELSE snapshots
          /\ asmImageId' = Current.img
          /\ asmPc' = IF asmEoi THEN "image" ELSE "wait"
      BY <2>1 DEF AsmFrame, AssembleFrame
    <2>3. QED
      BY <1>2, <1>5, <2>2 DEF Current, Whole
  <1>6. Follows' => asmImageId' = camImg /\ Snapped(camChunk + 1)' /\ asmPc' = IF IsLast THEN "image" ELSE "wait"
    <2> SUFFICES ASSUME Follows
                 PROVE  /\ asmImageId' = camImg /\ asmPc' = IF IsLast THEN "image" ELSE "wait"
                        /\ Snapped(camChunk + 1)'
      BY <1>3
    <2>1. Whole /\ Snapped(camChunk)
      BY <1>1 DEF Whole, Follows, SnapInv
    <2>2. Len(snapshots) = camChunk /\ Len(snapshots) < SnapshotQueueLen
      BY <1>4, <2>1 DEF Snapped
    <2>3. snapshots' = Append(snapshots, Current)
      BY <1>5, <2>1, <2>2
    <2>4. Len(snapshots') = camChunk + 1
      BY <1>4, <2>2, <2>3
    <2>5. ASSUME NEW k \in 1..camChunk + 1 PROVE snapshots'[k] = [img |-> camImg, chunk |-> k - 1]
      <3>1. CASE k = camChunk + 1
        <4>1. k - 1 = camChunk /\ snapshots'[k] = Current
          BY <1>4, <2>2, <2>3, <3>1
        <4>2. QED
          BY <4>1 DEF Current
      <3>2. CASE k # camChunk + 1
        <4>1. k \in 1..camChunk
          BY <1>4, <3>2
        <4>2. snapshots'[k] = snapshots[k]
          BY <1>4, <2>2, <2>3, <4>1
        <4>3. QED
          BY <2>1, <4>1, <4>2 DEF Snapped
      <3>3. QED
        BY <3>1, <3>2
    <2>6. QED
      BY <1>1, <1>5, <2>1, <2>4, <2>5 DEF Snapped
  <1>7. LastChunk = 0 /\ asmPc' = "wait" => snapshots' = <<>>
    <2> SUFFICES ASSUME LastChunk = 0, asmPc' = "wait" PROVE snapshots' = <<>>
      OBVIOUS
    <2>1. asmEoi
      BY <1>1 DEF EndInv
    <2>2. snapshots' = snapshots
      BY <2>1 DEF AsmFrame, AssembleFrame
    <2>3. QED
      BY <1>1, <2>2 DEF SnapInv
  <1>8. Intact' /\ IsLast' /\ asmPc' = "wait" => snapshots' = <<>>
    <2>1. CASE LastChunk = 0
      BY <1>7, <2>1
    <2>2. CASE LastChunk # 0
      <3>1. IsLast => camChunk > 0
        BY <1>4, <2>2 DEF IsLast
      <3>2. QED
        BY <1>3, <1>5, <3>1 DEF Whole
    <2>3. QED
      BY <2>1, <2>2
  <1>9. Follows' /\ asmPc' = "image" => Snapped(ChunksPerImage)'
    <2>1. Follows' /\ asmPc' = "image" => camChunk + 1 = ChunksPerImage
      BY <1>4, <1>6 DEF IsLast
    <2>2. QED
      <3> SUFFICES ASSUME Follows', asmPc' = "image" PROVE Snapped(ChunksPerImage)'
        OBVIOUS
      <3>1. Snapped(camChunk + 1)' /\ camChunk' + 1 = ChunksPerImage
        BY <1>1, <1>6, <2>1
      <3>2. QED
        BY <3>1 DEF Snapped
  <1>10. QED
    BY <1>1, <1>2, <1>3, <1>6, <1>7, <1>8, <1>9 DEF SnapInv, Handled, LastChunk, Snapped

LEMMA SnapAsm ==
  ASSUME Loads, TypeOK, HandledInv, CleanInv, EndInv, MarkInv, TextInv, SnapInv, Asm PROVE SnapInv'
  <1>1. UNCHANGED <<camImg, camChunk, commPc>>
    BY DEF Asm, AsmTakes, AsmFrame, AsmImage, AsmPublish, linkVars, commVars
  <1>2. (Follows' => Follows) /\ (Intact' => Intact) /\ (IsLast' <=> IsLast)
    BY SameLink DEF Asm, AsmTakes, AsmFrame, AsmImage, AsmPublish
  <1>3. CASE AsmTakes
    <2>1. /\ asmPc = "wait" /\ asmPc' = "frame" /\ asmNotify.pending
          /\ UNCHANGED <<snapshots, asmImageId, everShown>>
      BY <1>3 DEF AsmTakes, AsmWait, AsmGoto
    <2>2. Follows' => Snapped(camChunk)'
      BY <1>1, <1>2, <2>1 DEF SnapInv, Snapped
    <2>3. QED
      BY <2>1, <2>2 DEF SnapInv, Handled, LastChunk
  <1>4. CASE AsmFrame
    BY <1>4, SnapFrame
  <1>5. CASE AsmImage
    <2>1. /\ asmPc = "image" /\ asmPc' \in {"wait", "publish"} /\ snapshots' = <<>>
          /\ UNCHANGED <<asmImageId, asmNotify, everShown>>
      BY <1>5 DEF AsmImage, AssembleImage, queueVars
    <2>2. ~asmNotify.pending /\ commPc \in Answering /\ (Intact => IsLast)
      BY <2>1 DEF CleanInv, MarkInv, HandledInv
    <2>3. Follows => asmImageId = camImg /\ asmPc' = "publish"
      <3> SUFFICES ASSUME Follows PROVE asmImageId = camImg /\ asmPc' = "publish"
        OBVIOUS
      <3>1. asmImageId = camImg /\ Snapped(ChunksPerImage)
        BY <2>1 DEF SnapInv
      <3>2. InSequence
        BY <3>1 DEF InSequence, Snapped
      <3>3. QED
        BY <1>5, <3>1, <3>2 DEF AsmImage, AssembleImage, Loads
    <2>4. QED
      BY <1>1, <1>2, <2>1, <2>2, <2>3 DEF SnapInv, Handled, LastChunk, Follows
  <1>6. CASE AsmPublish
    <2>1. /\ asmPc = "publish" /\ asmPc' = "wait" /\ UNCHANGED <<snapshots, asmImageId, asmNotify>>
      BY <1>6 DEF AsmPublish, Publish, AsmGoto, queueVars
    <2>2. ~asmNotify.pending /\ commPc \in Answering /\ (Intact => IsLast) /\ asmKind # "oversize"
      BY <2>1 DEF CleanInv, MarkInv, HandledInv
    <2>3. asmImageId \in everShown'
      BY <1>6, <2>2 DEF AsmPublish
    <2>4. snapshots' = <<>> /\ (Follows => asmImageId = camImg)
      BY <2>1 DEF SnapInv
    <2>5. QED
      BY <1>1, <1>2, <2>1, <2>2, <2>3, <2>4 DEF SnapInv, Handled, LastChunk, Follows
  <1>7. QED
    BY <1>3, <1>4, <1>5, <1>6 DEF Asm

LEMMA SnapStep ==
  ASSUME Lossy, Loads, TypeOK, LossyInv, HandledInv, CleanInv, EndInv, MarkInv, TextInv, SnapInv, [Next]_vars
  PROVE  SnapInv'
  <1>1. CASE Bus
    BY <1>1, SnapBus
  <1>2. CASE CommRun
    BY <1>2, SnapCommStep DEF CommRun
  <1>3. CASE CommTake \/ CommTick
    <2>1. UNCHANGED <<linkVars, asmNotify, asmPc, asmImageId, snapshots, everShown>>
      BY <1>3 DEF CommTake, Take, CommTick, DelayOver, queueVars, asmVars
    <2>2. commPc' \in Answering <=> commPc \in Answering
      BY <1>3 DEF CommTake, Take, CommTick, DelayOver, CommGoto, Answering
    <2>3. QED
      BY <2>1, <2>2, SnapElsewhere
  <1>4. CASE CommConfirm
    BY <1>4, SnapConfirm
  <1>5. CASE Asm
    BY <1>5, SnapAsm
  <1>6. CASE ClsRun \/ UNCHANGED vars
    <2>1. UNCHANGED <<linkVars, asmNotify, asmPc, asmImageId, snapshots, everShown, commPc>>
      BY <1>6 DEF ClsRun, vars, commVars, queueVars, asmVars
    <2>2. QED
      BY <2>1, SnapElsewhere
  <1>7. QED
    BY <1>1, <1>2, <1>3, <1>4, <1>5, <1>6 DEF Next, Comm

\* The camera leaves an image that was published, or that is excused.
LEMMA ContainStep ==
  ASSUME Lossy, TypeOK, LossyInv, HandledInv, SnapInv, ContainInv, [Next]_vars
  PROVE  ContainInv'
  <1> DEFINE Excuse(i) == i \in everShown \/ {i - 1, i} \cap Touched # {}
  <1>1. Touched \subseteq Touched' /\ everShown \subseteq everShown'
    <2>1. everShown \subseteq everShown'
      BY DEF Next, Bus, CameraData, CameraEndOfFrame, LoseFrame, OtherNode, CameraTimeout, Comm, CommTake, CommRun,
             CommTick, CommConfirm, Asm, AsmTakes, AsmFrame, AsmImage, AsmPublish, ClsRun, taskVars, vars
    <2>2. QED
      BY <2>1, TouchedStays
  <1>2. camImg \in Nat /\ camChunk \in Nat
    BY Constants DEF TypeOK, LinkTypeOK
  <1>3. CASE UNCHANGED camImg /\ Touched' \subseteq Touched \cup {camImg}
    <2>1. Touched' \subseteq 1..camImg'
      <3>1. camImg \in 1..camImg
        BY <1>2 DEF TypeOK, LinkTypeOK
      <3>2. QED
        BY <1>3, <3>1 DEF ContainInv
    <2>2. LossIsContained'
      BY <1>1, <1>3 DEF ContainInv, LossIsContained, Touched
    <2>3. QED
      BY <2>1, <2>2 DEF ContainInv
  <1>4. CASE Advance /\ UNCHANGED Touched /\ (IsLast => Excuse(camImg))
    <2>1. camImg' \in Nat /\ camImg' >= camImg /\ camImg' <= camImg + 1 /\ (camImg' # camImg => IsLast)
      BY <1>2, <1>4 DEF Advance
    <2>2. Touched' \subseteq 1..camImg'
      BY <1>2, <1>4, <2>1 DEF ContainInv
    <2>3. ASSUME NEW i \in 1..Images, camImg' > i
          PROVE  i \in everShown' \/ {i - 1, i} \cap Touched' # {}
      <3>1. camImg > i \/ (i = camImg /\ IsLast)
        BY <1>2, <2>1, <2>3
      <3>2. Excuse(i)
        BY <1>4, <3>1 DEF ContainInv, LossIsContained, Touched
      <3>3. QED
        BY <1>1, <3>2
    <2>4. QED
      BY <2>2, <2>3 DEF ContainInv, LossIsContained, Touched
  <1>5. CASE CameraTimeout
    <2>1. camImg \in Touched /\ UNCHANGED Touched /\ (Resend \/ Advance)
      BY <1>5, AfterTimeout DEF CameraTimeout, MayFault, Lossy, LossyInv, Touched
    <2>2. QED
      BY <1>3, <1>4, <2>1 DEF Resend
  <1>6. CASE CommConfirm
    <2>1. commPc = "confirm" /\ Handled
      BY <1>6, AssemblerIsDone DEF Handled, Answering
    <2>2. IsLast => Excuse(camImg)
      BY <2>1 DEF SnapInv, Follows, Intact
    <2>3. UNCHANGED foreign
      BY <1>6 DEF CommConfirm, Confirmed, Advance
    <2>4. CASE Confirmed /\ NoFault
      <3>1. UNCHANGED Touched
        BY <2>3, <2>4 DEF NoFault, Touched, Crossed
      <3>2. QED
        BY <1>3, <1>4, <2>2, <2>4, <3>1 DEF Confirmed
    <2>5. CASE Fault /\ UNCHANGED camImg
      BY <1>3, <2>3, <2>5 DEF Fault, Touched, Crossed
    <2>6. QED
      BY <1>6, <2>4, <2>5 DEF CommConfirm
  <1>7. CASE CameraData \/ CameraEndOfFrame \/ LoseFrame
    <2>1. UNCHANGED <<camImg, foreign>> /\ (NoFault \/ Fault)
      BY <1>7 DEF CameraData, CameraEndOfFrame, LoseFrame, SendFrame, SendEndOfFrame
    <2>2. QED
      BY <1>3, <2>1 DEF NoFault, Fault, Touched, Crossed
  <1>8. CASE OtherNode
    <2>1. UNCHANGED <<camImg, damaged>> /\ foreign' = Append(foreign, camImg)
      BY <1>8 DEF OtherNode
    <2>2. foreign \in Seq(1..Images + 1) /\ camImg \in 1..Images + 1
      BY DEF TypeOK, LinkTypeOK
    <2>3. ASSUME NEW k \in 1..Len(foreign')
          PROVE  foreign'[k] = camImg \/ (k \in 1..Len(foreign) /\ foreign'[k] = foreign[k])
      BY <2>1, <2>2
    <2>4. QED
      BY <1>3, <2>1, <2>3 DEF Touched, Crossed
  <1>9. CASE CommTake \/ CommRun \/ CommTick \/ Asm \/ ClsRun \/ UNCHANGED vars
    <2>1. UNCHANGED linkVars
      BY <1>9 DEF CommTake, CommRun, CommTick, Asm, AsmTakes, AsmFrame, AsmImage, AsmPublish, ClsRun, vars
    <2>2. QED
      BY <1>3, <2>1, SameLink
  <1>10. QED
    BY <1>5, <1>6, <1>7, <1>8, <1>9 DEF Next, Bus, Comm

LEMMA ContainAlways ==
  ASSUME Lossy, Loads, EndIsTold PROVE Spec => [](HandledInv /\ SnapInv /\ ContainInv)
  <1>1. Fits
    BY DEF Loads, Fits
  <1>2. TypeOK /\ LossyInv /\ HandledInv /\ CleanInv /\ [Next]_vars => CleanInv'
    BY CleanStep
  <1>3. TypeOK /\ LossyInv /\ HandledInv /\ CleanInv /\ EndInv /\ [Next]_vars => EndInv'
    BY EndStep
  <1>4. TypeOK /\ LossyInv /\ HandledInv /\ CleanInv /\ MarkInv /\ [Next]_vars => MarkInv'
    BY MarkStep
  <1>5. TypeOK /\ LossyInv /\ HandledInv /\ CleanInv /\ TextInv /\ [Next]_vars => TextInv'
    BY TextStep
  <1>6. TypeOK /\ LossyInv /\ HandledInv /\ CleanInv /\ EndInv /\ MarkInv /\ TextInv /\ SnapInv /\ [Next]_vars
          => SnapInv'
    BY SnapStep
  <1>7. TypeOK /\ LossyInv /\ HandledInv /\ SnapInv /\ ContainInv /\ [Next]_vars => ContainInv'
    BY ContainStep
  <1>8. Init => ContainInv
    BY DEF Init, LinkInit, ContainInv, LossIsContained, Touched, Crossed
  <1>9. Spec => [](TypeOK /\ LossyInv /\ HandledInv)
    BY <1>1, TypeCorrect, LossyAlways, HandledAlways, PTL
  <1>10. Spec => []CleanInv
    BY <1>2, <1>9, CleanInit, PTL DEF Spec
  <1>11. Spec => [](EndInv /\ MarkInv /\ TextInv)
    BY <1>3, <1>4, <1>5, <1>9, <1>10, EndInit, MarkInit, TextInit, PTL DEF Spec
  <1>12. Spec => []SnapInv
    BY <1>6, <1>9, <1>10, <1>11, SnapInit, PTL DEF Spec
  <1>13. Spec => []ContainInv
    BY <1>7, <1>8, <1>9, <1>12, PTL DEF Spec
  <1>14. QED
    BY <1>9, <1>12, <1>13, PTL

\* With images that load, a loss or a frame of another node costs the image it
\* hits and at most the one after it: every other image the camera leaves was
\* published, although the camera repeats chunks, confirmations are lost, and the
\* vector, the frame queue and the snapshot queue keep what was left in them.
THEOREM LossesStayContained == ASSUME Lossy, Loads, EndIsTold PROVE Spec => []LossIsContained
  <1>1. ContainInv => LossIsContained
    BY DEF ContainInv
  <1>2. QED
    BY <1>1, ContainAlways, PTL

-------------------------------------------------------------------------------
(* Under loss the pipeline implements LossyDelivery.  A frame left over in  *)
(* the vector or the frame queue may be of an older image than the camera   *)
(* is at, but not of an older one than the image on show.                   *)

\* i is on show, or comes after the image on show, and the camera has begun it.
Newest(i) == ShownImage <= i /\ i <= camImg

\* The same after a step.
NewestThen(i) == ShownImage' <= i /\ i <= camImg'

AllNewest(s) == \A k \in 1..Len(s) : s[k].id = "camera" => Newest(s[k].img)

NewestInv ==
  /\ ShownImage \in 0..Images /\ ShownImage <= camImg
  /\ everShown \subseteq 1..ShownImage
  /\ commPc # "clear" => AllNewest(rxMsgVector)
  /\ commPc \in {"copying", "store"} => AllNewest(batch)
  /\ AllNewest(cameraFramesQueue)
  /\ asmPc \in {"image", "publish"} => cameraFramesQueue = <<>> /\ Newest(asmImageId)
  /\ asmPc = "publish" => asmPic # NoImage /\ asmPic[1].img = asmImageId

LEMMA NewestInit == Init => NewestInv
  BY Constants DEF Init, LinkInit, ReceptionInit, SharedInit, AssemblerInit, NewestInv, ShownImage, AllNewest

\* As long as no image goes on show, what was the newest stays so.
LEMMA StillNewest ==
  ASSUME TypeOK, TypeOK', UNCHANGED sharedTop, camImg' >= camImg, NewestInv
  PROVE  /\ ShownImage' = ShownImage /\ ShownImage' \in 0..Images /\ ShownImage' <= camImg'
         /\ \A i \in Nat : Newest(i) => NewestThen(i)
  <1>1. ShownImage' = ShownImage
    BY DEF ShownImage, NoImage
  <1>2. camImg \in Nat /\ camImg' \in Nat /\ ShownImage \in Nat /\ Images \in Nat
    BY Constants DEF TypeOK, LinkTypeOK, NewestInv
  <1>3. QED
    BY <1>1, <1>2 DEF NewestInv, Newest, NewestThen

\* The frames of s stay the newest, in s' too if it adds but the camera's newest.
LEMMA StillAllNewest ==
  ASSUME NEW s \in Seq(Frame), AllNewest(s), \A i \in Nat : Newest(i) => NewestThen(i)
  PROVE  \A k \in 1..Len(s) : s[k].id = "camera" => NewestThen(s[k].img)
  <1>1. ASSUME NEW k \in 1..Len(s), s[k].id = "camera" PROVE s[k].img \in Nat
    <2>1. s[k] \in Frame
      OBVIOUS
    <2>2. s[k] \in CameraFrame
      BY <1>1, <2>1 DEF Frame, ForeignFrame
    <2>3. QED
      BY <2>2, Constants DEF CameraFrame
  <1>2. QED
    BY <1>1 DEF AllNewest

\* The invariant survives what leaves the tasks' half of it alone.
LEMMA NewestElsewhere ==
  ASSUME TypeOK, TypeOK', NewestInv, camImg' >= camImg,
         UNCHANGED <<sharedTop, everShown, cameraFramesQueue, asmPc, asmImageId, asmPic>>,
         commPc' # "clear" => AllNewest(rxMsgVector)',
         commPc' \in {"copying", "store"} => AllNewest(batch)'
  PROVE  NewestInv'
  <1>1. /\ ShownImage' = ShownImage /\ ShownImage' \in 0..Images /\ ShownImage' <= camImg'
        /\ \A i \in Nat : Newest(i) => NewestThen(i)
    BY StillNewest
  <1>2. cameraFramesQueue \in Seq(Frame)
    BY DEF TypeOK, ReceptionTypeOK, Frame
  <1>3. AllNewest(cameraFramesQueue)'
    BY <1>1, <1>2, StillAllNewest DEF NewestInv, AllNewest, Newest, NewestThen
  <1>4. asmImageId \in Nat
    BY Constants DEF TypeOK, AssemblerTypeOK
  <1>5. QED
    BY <1>1, <1>3, <1>4 DEF NewestInv, Newest, NewestThen

LEMMA NewestBus == ASSUME Lossy, TypeOK, TypeOK', NewestInv, Bus PROVE NewestInv'
  <1>0. UNCHANGED taskVars
    BY DEF Bus, CameraData, CameraEndOfFrame, LoseFrame, OtherNode, CameraTimeout
  <1>1. UNCHANGED <<commPc, batch, sharedTop, everShown, cameraFramesQueue, asmPc, asmImageId, asmPic>>
    BY <1>0 DEF taskVars, commVars, queueVars, sharedVars, asmVars
  <1>2. camImg' >= camImg /\ camImg \in Nat
    <2>1. camImg \in Nat
      BY Constants DEF TypeOK, LinkTypeOK
    <2>2. camImg' = camImg \/ camImg' = camImg + 1
      BY DEF Bus, CameraData, SendFrame, CameraEndOfFrame, LoseFrame, SendEndOfFrame, OtherNode, CameraTimeout,
             Resend, Advance
    <2>3. QED
      BY <2>1, <2>2
  <1>3. \A i \in Nat : Newest(i) => NewestThen(i)
    BY <1>1, <1>2, StillNewest
  <1>4. rxMsgVector \in Seq(Frame) /\ batch \in Seq(Frame)
    BY DEF TypeOK, ReceptionTypeOK
  <1>5. commPc' \in {"copying", "store"} => AllNewest(batch)'
    BY <1>1, <1>3, <1>4, StillAllNewest DEF NewestInv, AllNewest, Newest, NewestThen
  <1>6. CASE CameraData
    <2>1. PICK f \in CameraFrame : SendFrame(f) /\ RecvData(f)
      BY <1>6 DEF CameraData, MayFault, Lossy
    <2>2. Newest(f.img) /\ camImg' = camImg
      <3>1. f.img = camImg /\ ShownImage <= camImg
        BY <2>1 DEF SendFrame, NewestInv
      <3>2. QED
        BY <1>2, <2>1, <3>1 DEF Newest, SendFrame
    <2>3. rxMsgVector' = Append(rxMsgVector, f) /\ f \in Frame /\ f.img \in Nat
      BY <1>2, <2>1 DEF RecvData, Frame, SendFrame
    <2>4. NewestThen(f.img)
      BY <1>3, <2>2, <2>3
    <2>5. commPc # "clear" => AllNewest(rxMsgVector)'
      <3> SUFFICES ASSUME commPc # "clear", NEW k \in 1..Len(rxMsgVector'), rxMsgVector'[k].id = "camera"
                   PROVE  NewestThen(rxMsgVector'[k].img)
        BY DEF AllNewest, Newest, NewestThen
      <3>1. rxMsgVector'[k] = f \/ (k \in 1..Len(rxMsgVector) /\ rxMsgVector'[k] = rxMsgVector[k])
        BY <1>4, <2>3
      <3>2. AllNewest(rxMsgVector)
        BY DEF NewestInv
      <3>3. QED
        BY <1>3, <1>4, <2>4, <3>1, <3>2, StillAllNewest
    <2>6. QED
      BY <1>1, <1>2, <1>5, <2>5, NewestElsewhere
  <1>7. CASE OtherNode
    <2>1. PICK id \in ForeignIds : RecvData([id |-> id])
      BY <1>7 DEF OtherNode, Lossy
    <2>2. rxMsgVector' = Append(rxMsgVector, [id |-> id]) /\ id # "camera"
      BY <2>1, LinkAssumption DEF RecvData
    <2>3. commPc # "clear" => AllNewest(rxMsgVector)'
      <3> SUFFICES ASSUME commPc # "clear", NEW k \in 1..Len(rxMsgVector'), rxMsgVector'[k].id = "camera"
                   PROVE  NewestThen(rxMsgVector'[k].img)
        BY DEF AllNewest, Newest, NewestThen
      <3>1. rxMsgVector'[k] = [id |-> id] \/ (k \in 1..Len(rxMsgVector) /\ rxMsgVector'[k] = rxMsgVector[k])
        BY <1>4, <2>2
      <3>2. AllNewest(rxMsgVector)
        BY DEF NewestInv
      <3>3. QED
        BY <1>3, <1>4, <2>2, <3>1, <3>2, StillAllNewest
    <2>4. QED
      BY <1>1, <1>2, <1>5, <2>3, NewestElsewhere
  <1>8. CASE CameraEndOfFrame \/ LoseFrame \/ CameraTimeout
    <2>1. UNCHANGED rxMsgVector
      BY <1>8 DEF CameraEndOfFrame, RecvEndOfFrame, LoseFrame, CameraTimeout, rxVars
    <2>2. commPc # "clear" => AllNewest(rxMsgVector)'
      BY <1>3, <1>4, <2>1, StillAllNewest DEF NewestInv, AllNewest, Newest, NewestThen
    <2>3. QED
      BY <1>1, <1>2, <1>5, <2>2, NewestElsewhere
  <1>9. QED
    BY <1>6, <1>7, <1>8 DEF Bus

LEMMA CopyNewest ==
  ASSUME TypeOK, AllNewest(batch), AllNewest(rxMsgVector), CopyEnd
  PROVE  \A k \in 1..Len(batch') : batch'[k].id = "camera" => Newest(batch'[k].img)
  <1> DEFINE moved == [k \in DOMAIN batch |-> IF k = 1 THEN [id |-> "other"] ELSE batch[k]]
  <1>1. batch' \in {batch, rxMsgVector, moved}
    BY DEF CopyEnd, Copies
  <1>2. DOMAIN batch = 1..Len(batch) /\ Len(batch) \in Nat
    BY DEF TypeOK, ReceptionTypeOK
  <1>3. /\ Len(moved) = Len(batch)
        /\ \A k \in 1..Len(batch) : moved[k].id = "other" \/ moved[k] = batch[k]
    BY <1>2
  <1>4. CASE batch' = moved
    <2> HIDE DEF moved
    <2>1. QED
      BY <1>3, <1>4 DEF AllNewest
  <1>5. CASE batch' \in {batch, rxMsgVector}
    BY <1>5 DEF AllNewest
  <1>6. QED
    BY <1>1, <1>4, <1>5

LEMMA NewestCommStep ==
  ASSUME TypeOK, TypeOK', HandledInv, NewestInv, CommStep, UNCHANGED <<linkVars, sharedVars, asmVars, everShown>>
  PROVE  NewestInv'
  <1>0. /\ UNCHANGED <<camImg, sharedTop, asmPc, asmImageId, asmPic>>
        /\ rxMsgVector \in Seq(Frame) /\ batch \in Seq(Frame) /\ camImg \in Nat
    BY Constants DEF linkVars, sharedVars, asmVars, TypeOK, ReceptionTypeOK, LinkTypeOK
  <1>1. /\ camImg' >= camImg
        /\ \A i : NewestThen(i) <=> Newest(i)
    BY <1>0 DEF Newest, NewestThen, ShownImage, NoImage
  <1>2. CASE ReadDone \/ ReadEoi \/ ResetDone \/ CopyBegin
    <2>1. /\ commPc \in {"readDone", "readEoi", "resetDone", "copy"}
          /\ commPc' \in {"readEoi", "resetDone", "copy", "copying"}
          /\ UNCHANGED <<rxMsgVector, cameraFramesQueue>>
          /\ commPc' = "copying" => batch' = rxMsgVector
      BY <1>2 DEF ReadDone, ReadEoi, ResetDone, CopyBegin, CommGoto, rxVars, queueVars
    <2>2. AllNewest(rxMsgVector) /\ AllNewest(rxMsgVector)'
      BY <1>1, <2>1 DEF NewestInv, AllNewest, Newest, NewestThen
    <2>3. commPc' \in {"copying", "store"} => AllNewest(batch)'
      BY <2>1, <2>2 DEF AllNewest
    <2>4. QED
      BY <1>0, <1>1, <2>1, <2>2, <2>3, NewestElsewhere
  <1>3. CASE CopyEnd
    <2>1. commPc = "copying" /\ UNCHANGED <<rxMsgVector, cameraFramesQueue>>
      BY <1>3 DEF CopyEnd, CommGoto, rxVars, queueVars
    <2>2. AllNewest(rxMsgVector) /\ AllNewest(batch)
      BY <2>1 DEF NewestInv
    <2>3. AllNewest(batch)' /\ AllNewest(rxMsgVector)'
      BY <1>1, <1>3, <2>1, <2>2, CopyNewest DEF AllNewest, Newest, NewestThen
    <2>4. QED
      BY <1>0, <1>1, <2>1, <2>3, NewestElsewhere
  <1>4. CASE Store
    <2> DEFINE f == batch[stored + 1]
    <2>1. /\ commPc = "store" /\ UNCHANGED <<rxMsgVector, batch>>
          /\ stored + 1 \in 1..Len(batch) /\ f \in Frame
      BY <1>4 DEF Store, rxVars, TypeOK, ReceptionTypeOK
    <2>2. asmPc = "wait"
      BY <2>1, AssemblerWaits DEF Answering
    <2>3. f.id = "camera" => Newest(f.img)
      BY <2>1 DEF NewestInv, AllNewest, Newest, NewestThen
    <2>4. cameraFramesQueue \in Seq(CameraFrame)
      BY DEF TypeOK, ReceptionTypeOK
    <2>5. \/ cameraFramesQueue' = cameraFramesQueue
          \/ cameraFramesQueue' = Append(cameraFramesQueue, f) /\ f.id = "camera"
      BY <1>4 DEF Store, StoreMsg
    <2>6. ASSUME NEW k \in 1..Len(cameraFramesQueue')
          PROVE  \/ cameraFramesQueue'[k] = f /\ f.id = "camera"
                 \/ k \in 1..Len(cameraFramesQueue) /\ cameraFramesQueue'[k] = cameraFramesQueue[k]
      BY <2>4, <2>5
    <2> HIDE DEF f
    <2>7. AllNewest(cameraFramesQueue)'
      BY <1>1, <2>3, <2>6 DEF NewestInv, AllNewest, Newest, NewestThen
    <2>8. AllNewest(rxMsgVector)' /\ AllNewest(batch)'
      BY <1>1, <2>1 DEF NewestInv, AllNewest, Newest, NewestThen
    <2>9. QED
      BY <1>0, <2>1, <2>2, <2>7, <2>8 DEF NewestInv, ShownImage, NoImage
  <1>5. CASE StoreEnd \/ CompletedFrame
    <2>1. /\ commPc \in {"store", "complete"} /\ commPc' \in {"complete", "clear"}
          /\ UNCHANGED <<rxMsgVector, cameraFramesQueue>>
      BY <1>5 DEF StoreEnd, CompletedFrame, CommGoto, rxVars, queueVars
    <2>2. AllNewest(rxMsgVector)'
      BY <1>1, <2>1 DEF NewestInv, AllNewest, Newest, NewestThen
    <2>3. QED
      BY <1>0, <1>1, <2>1, <2>2, NewestElsewhere
  <1>6. CASE ClearBuffer
    <2>1. commPc' = "delay10" /\ rxMsgVector' = <<>> /\ UNCHANGED cameraFramesQueue
      BY <1>6 DEF ClearBuffer, CommGoto, queueVars
    <2>2. AllNewest(rxMsgVector)'
      BY <2>1 DEF AllNewest
    <2>3. QED
      BY <1>0, <1>1, <2>1, <2>2, NewestElsewhere
  <1>7. QED
    BY <1>2, <1>3, <1>4, <1>5, <1>6 DEF CommStep

\* Only an image of a queued frame is decoded.
LEMMA NewestFrame == ASSUME TypeOK, NewestInv, AsmFrame PROVE NewestInv'
  <1>1. /\ asmPc = "frame" /\ asmPc' \in {"image", "wait"} /\ cameraFramesQueue' = <<>>
        /\ UNCHANGED <<camImg, rxMsgVector, commPc, batch, sharedTop, everShown>>
    BY DEF AsmFrame, AssembleFrame, linkVars, rxVars, commVars, sharedVars
  <1>2. ASSUME asmPc' = "image" PROVE Newest(asmImageId')
    <2>1. PICK c \in Queued : asmImageId' = c.img
      BY <1>2 DEF AsmFrame, AssembleFrame
    <2>2. PICK k \in 1..Len(cameraFramesQueue) : c.img = cameraFramesQueue[k].img
      BY DEF Queued
    <2>3. cameraFramesQueue[k].id = "camera"
      <3>1. cameraFramesQueue[k] \in CameraFrame
        BY DEF TypeOK, ReceptionTypeOK
      <3>2. QED
        BY <3>1 DEF CameraFrame
    <2>4. QED
      BY <2>1, <2>2, <2>3 DEF NewestInv, AllNewest, Newest, NewestThen
  <1>3. \A i : NewestThen(i) <=> Newest(i)
    BY <1>1 DEF Newest, NewestThen, ShownImage, NoImage
  <1>4. asmPc' = "image" => Newest(asmImageId)'
    BY <1>1, <1>2 DEF Newest, ShownImage, NoImage
  <1>5. QED
    BY <1>1, <1>3, <1>4 DEF NewestInv, AllNewest, Newest, NewestThen, ShownImage, NoImage

LEMMA NewestImage == ASSUME TypeOK, HandledInv, PrefixInv, NewestInv, AsmImage PROVE NewestInv'
  <1>1. /\ asmPc = "image" /\ asmPc' \in {"wait", "publish"}
        /\ UNCHANGED <<camImg, rxMsgVector, commPc, batch, sharedTop, everShown, cameraFramesQueue, asmImageId>>
    BY DEF AsmImage, AssembleImage, linkVars, rxVars, commVars, sharedVars, queueVars
  <1>2. ASSUME asmPc' = "publish" PROVE asmPic' # NoImage /\ asmPic'[1].img = asmImageId
    <2>1. asmPic' = snapshots /\ InSequence
      BY <1>2 DEF AsmImage, AssembleImage
    <2>2. Len(snapshots) # 0 /\ snapshots \in Seq(Chunk)
      BY <1>1 DEF PrefixInv, TypeOK, AssemblerTypeOK
    <2>3. 1 \in 1..Len(snapshots)
      BY <2>2
    <2>4. snapshots # <<>>
      <3>1. Len(<<>>) = 0
        OBVIOUS
      <3>2. QED
        BY <2>2, <3>1
    <2>5. QED
      BY <2>1, <2>3, <2>4 DEF InSequence, NoImage
  <1>3. \A i : NewestThen(i) <=> Newest(i)
    BY <1>1 DEF Newest, NewestThen, ShownImage, NoImage
  <1>4. QED
    BY <1>1, <1>2, <1>3 DEF NewestInv, AllNewest, Newest, NewestThen, ShownImage, NoImage

\* The image that goes on show is the one before, or a newer one; no frame of an
\* older one is left.
LEMMA NewestPublish ==
  ASSUME TypeOK, LossyInv, HandledInv, PrefixInv, NewestInv, AsmPublish
  PROVE  NewestInv' /\ ShownImage' = asmImageId /\ Newest(asmImageId) /\ asmImageId \in 1..Images
  <1>1. /\ asmPc = "publish" /\ asmPc' = "wait" /\ asmKind # "oversize" /\ sharedTop' = asmPic
        /\ everShown' = everShown \cup {asmImageId}
        /\ UNCHANGED <<camImg, rxMsgVector, commPc, batch, cameraFramesQueue>>
    BY DEF AsmPublish, Publish, AsmGoto, SetImage, HandledInv, linkVars, rxVars, commVars, queueVars
  <1>2. ShownImage' = asmImageId /\ Newest(asmImageId) /\ asmImageId \in 1..Images /\ cameraFramesQueue = <<>>
    BY <1>1 DEF NewestInv, PrefixInv, ShownImage, NoImage
  <1>3. commPc \in Answering
    BY <1>1 DEF HandledInv
  <1>4. commPc' # "clear" => AllNewest(rxMsgVector)'
    BY <1>1, <1>3 DEF Answering, LossyInv, AllNewest
  <1>5. AllNewest(cameraFramesQueue)'
    BY <1>1, <1>2 DEF AllNewest
  <1>6. everShown' \subseteq 1..asmImageId
    <2>1. ShownImage \in Nat /\ asmImageId \in Nat /\ ShownImage <= asmImageId
      BY <1>2, Constants DEF NewestInv, Newest
    <2>2. everShown \subseteq 1..ShownImage /\ asmImageId \in 1..asmImageId
      BY <1>2, Constants DEF NewestInv
    <2>3. QED
      BY <1>1, <2>1, <2>2
  <1>7. asmImageId \in 0..Images /\ asmImageId <= camImg
    BY <1>2, Constants DEF Newest
  <1>8. QED
    BY <1>1, <1>2, <1>3, <1>4, <1>5, <1>6, <1>7 DEF NewestInv, Answering

LEMMA NewestStep ==
  ASSUME Lossy, TypeOK, TypeOK', LossyInv, HandledInv, PrefixInv, NewestInv, [Next]_vars
  PROVE  NewestInv'
  <1>0. camImg \in Nat
    BY Constants DEF TypeOK, LinkTypeOK
  <1>1. CASE Bus
    BY <1>1, NewestBus
  <1>2. CASE CommRun
    BY <1>2, NewestCommStep DEF CommRun
  <1>3. CASE CommTake \/ CommTick \/ CommConfirm
    <2>1. /\ commPc # "clear" /\ commPc' \notin {"clear", "copying", "store"}
          /\ UNCHANGED <<rxMsgVector, sharedTop, everShown, cameraFramesQueue, asmPc, asmImageId, asmPic>>
      BY <1>3 DEF CommTake, Take, CommTick, DelayOver, CommConfirm, Confirm, CommGoto, rxVars, queueVars,
                  sharedVars, asmVars
    <2>2. camImg' >= camImg
      BY <1>0, <1>3 DEF CommTake, CommTick, CommConfirm, Confirmed, Advance, linkVars
    <2>3. rxMsgVector \in Seq(Frame)
      BY DEF TypeOK, ReceptionTypeOK
    <2>4. AllNewest(rxMsgVector)'
      BY <2>1, <2>2, <2>3, StillNewest, StillAllNewest DEF NewestInv, AllNewest, Newest, NewestThen
    <2>5. QED
      BY <2>1, <2>2, <2>4, NewestElsewhere
  <1>4. CASE AsmTakes
    <2>1. /\ asmPc' = "frame"
          /\ UNCHANGED <<camImg, rxMsgVector, commPc, batch, sharedTop, everShown, cameraFramesQueue>>
      BY <1>4 DEF AsmTakes, AsmWait, AsmGoto, linkVars, rxVars, commVars, sharedVars
    <2>2. QED
      BY <2>1 DEF NewestInv, AllNewest, Newest, ShownImage, NoImage
  <1>5. CASE AsmFrame
    BY <1>5, NewestFrame
  <1>6. CASE AsmImage
    BY <1>6, NewestImage
  <1>7. CASE AsmPublish
    BY <1>7, NewestPublish
  <1>8. CASE ClsRun \/ UNCHANGED vars
    <2>1. ClsRun => UNCHANGED sharedTop
      BY DEF ClsRun, ClsStep, ClsTake, ClsLock, ClsDims, ClsTop, ClsBottom, sharedVars
    <2>2. UNCHANGED <<camImg, rxMsgVector, commPc, batch, sharedTop, everShown, cameraFramesQueue, asmPc,
                      asmImageId, asmPic>>
      BY <1>8, <2>1 DEF ClsRun, vars, linkVars, rxVars, commVars, queueVars, sharedVars, asmVars
    <2>3. QED
      BY <2>2 DEF NewestInv, AllNewest, Newest, ShownImage, NoImage
  <1>9. QED
    BY <1>1, <1>2, <1>3, <1>4, <1>5, <1>6, <1>7, <1>8 DEF Next, Comm, Asm

-------------------------------------------------------------------------------
(* Every step of the pipeline is one of LossyDelivery's, or a stutter.      *)

\* All of the image on show is there.
ShownWhole == sharedTop = NoImage \/ sharedTop = WholeImage(sharedTop[1].img)

\* Only of a damaged image is a part on show.
PartInv == ShownWhole \/ ShownImage \in damaged

LEMMA SameShown == ASSUME UNCHANGED sharedTop PROVE UNCHANGED <<ShownImage, ShownWhole>>
  BY DEF ShownImage, ShownWhole, NoImage, WholeImage

LEMMA PartInit == Init => PartInv
  BY DEF Init, SharedInit, PartInv, ShownWhole

LEMMA PartPublish ==
  ASSUME TypeOK, LossyInv, HandledInv, PrefixInv, NewestInv, AsmPublish
  PROVE  ShownWhole' \/ ShownImage' \in damaged
  <1>1. asmPc = "publish" /\ asmKind # "oversize" /\ sharedTop' = asmPic
    BY DEF AsmPublish, Publish, AsmGoto, SetImage, HandledInv
  <1>2. asmPic # NoImage /\ asmPic[1].img = asmImageId /\ InOrder(asmImageId)
    BY <1>1 DEF NewestInv, PrefixInv
  <1>3. ShownImage' = asmImageId
    BY NewestPublish
  <1>4. CASE asmPic = WholeImage(asmImageId)
    BY <1>1, <1>2, <1>4 DEF ShownWhole, WholeImage
  <1>5. QED
    BY <1>2, <1>3, <1>4 DEF InOrder

LEMMA PartStep ==
  ASSUME TypeOK, LossyInv, HandledInv, PrefixInv, NewestInv, PartInv, [Next]_vars
  PROVE  PartInv'
  <1>1. damaged \subseteq damaged'
    BY DamagedStays
  <1>2. CASE AsmPublish
    BY <1>1, <1>2, PartPublish DEF PartInv
  <1>3. CASE ~AsmPublish
    <2>1. UNCHANGED sharedTop
      BY <1>3 DEF Next, Bus, CameraData, CameraEndOfFrame, LoseFrame, OtherNode, CameraTimeout, taskVars, Comm, CommTake,
         CommRun, CommTick, CommConfirm, Asm, AsmTakes, AsmFrame, AsmImage, ClsRun, ClsStep, ClsTake, ClsLock, ClsDims,
         ClsTop, ClsBottom, sharedVars, vars
    <2>2. QED
      BY <1>1, <2>1, SameShown DEF PartInv
  <1>4. QED
    BY <1>2, <1>3

lossyVars == <<camImg - 1, ShownImage, ShownWhole, Touched>>

LEMMA LossyShowVars ==
  /\ LossyShow!Touch <=> /\ Touched' = Touched \cup {camImg - 1 + 1}
                         /\ UNCHANGED <<camImg - 1, ShownImage, ShownWhole>>
  /\ LossyShow!Show <=> /\ ShownImage' \in ShownImage .. Images /\ ShownImage' <= camImg - 1 + 1
                        /\ ShownWhole' \in BOOLEAN
                        /\ (ShownImage' > ShownImage /\ ShownWhole') \/ ShownImage' \in Touched
                        /\ UNCHANGED <<camImg - 1, Touched>>
  /\ LossyShow!Send <=> /\ camImg - 1 < Images
                        /\ \/ ShownImage = camImg - 1 + 1 /\ ShownWhole
                           \/ {camImg - 1, camImg - 1 + 1} \cap Touched # {}
                        /\ camImg' - 1 = camImg - 1 + 1 /\ UNCHANGED <<ShownImage, ShownWhole, Touched>>
  BY DEF LossyShow!Touch, LossyShow!Show, LossyShow!Send, Touched, ShownImage, ShownWhole

LEMMA SimulatesTouch ==
  ASSUME TypeOK, UNCHANGED <<camImg, sharedTop>>, Touched' = Touched \cup {camImg}
  PROVE  LossyShow!Touch
  <1>1. camImg - 1 + 1 = camImg
    BY Constants DEF TypeOK, LinkTypeOK
  <1>2. UNCHANGED <<ShownImage, ShownWhole>>
    BY SameShown
  <1>3. QED
    BY <1>1, <1>2, LossyShowVars

\* The camera leaves an image only if it is on show, or excused.
LEMMA SimulatesAdvance ==
  ASSUME TypeOK, NewestInv, PartInv, ContainInv', camWait, Advance, UNCHANGED <<everShown, sharedTop, Touched>>
  PROVE  LossyShow!Send \/ UNCHANGED lossyVars
  <1>1. camImg \in 1..Images /\ UNCHANGED <<ShownImage, ShownWhole>>
    BY Constants, SameShown DEF TypeOK, LinkTypeOK, CameraDone
  <1>2. CASE ~IsLast
    BY <1>1, <1>2 DEF Advance, lossyVars
  <1>3. CASE IsLast
    <2>1. camImg' = camImg + 1 /\ camImg - 1 + 1 = camImg /\ camImg' - 1 = camImg /\ camImg' > camImg
      BY <1>1, <1>3, Constants DEF Advance
    <2>2. camImg \in everShown \/ {camImg - 1, camImg} \cap Touched # {}
      BY <1>1, <2>1 DEF ContainInv, LossIsContained, Touched
    <2>3. camImg \in everShown => ShownImage = camImg
      <3>1. ShownImage \in Nat /\ camImg \in Nat
        BY <1>1, Constants DEF NewestInv
      <3>2. QED
        BY <3>1 DEF NewestInv
    <2>4. camImg - 1 < Images
      BY <1>1, Constants
    <2>5. ShownImage = camImg => ShownWhole \/ camImg \in Touched
      BY DEF PartInv, Touched
    <2>6. QED
      BY <1>1, <2>1, <2>2, <2>3, <2>4, <2>5, LossyShowVars
  <1>4. QED
    BY <1>2, <1>3

LEMMA SimulatesLossyBus ==
  ASSUME Lossy, TypeOK, LossyInv, NewestInv, PartInv, ContainInv', Bus
  PROVE  LossyShow!Touch \/ LossyShow!Send \/ UNCHANGED lossyVars
  <1>0. UNCHANGED <<sharedTop, everShown, ShownImage, ShownWhole>>
    BY SameShown DEF Bus, CameraData, CameraEndOfFrame, LoseFrame, OtherNode, CameraTimeout, taskVars, sharedVars
  <1>1. CASE CameraData \/ CameraEndOfFrame \/ LoseFrame
    <2>1. UNCHANGED <<camImg, foreign>> /\ (NoFault \/ Fault)
      BY <1>1 DEF CameraData, CameraEndOfFrame, LoseFrame, SendFrame, SendEndOfFrame
    <2>2. CASE NoFault
      BY <1>0, <2>1, <2>2 DEF NoFault, lossyVars, Touched, Crossed
    <2>3. CASE Fault
      <3>1. Touched' = Touched \cup {camImg}
        BY <2>1, <2>3 DEF Fault, Touched, Crossed
      <3>2. QED
        BY <1>0, <2>1, <3>1, SimulatesTouch
    <2>4. QED
      BY <2>1, <2>2, <2>3
  <1>2. CASE OtherNode
    <2>1. UNCHANGED <<camImg, damaged>> /\ foreign' = Append(foreign, camImg)
      BY <1>2 DEF OtherNode
    <2>2. foreign \in Seq(1..Images + 1) /\ camImg \in 1..Images + 1
      BY DEF TypeOK, LinkTypeOK
    <2>3. Crossed' = Crossed \cup {camImg}
      <3>1. Len(foreign) \in Nat /\ Len(foreign') = Len(foreign) + 1
        BY <2>1, <2>2
      <3>2. foreign'[Len(foreign) + 1] = camImg /\ \A k \in 1..Len(foreign) : foreign'[k] = foreign[k]
        BY <2>1, <2>2
      <3>3. 1..Len(foreign') = 1..Len(foreign) \cup {Len(foreign) + 1}
        BY <3>1
      <3>4. QED
        BY <3>2, <3>3 DEF Crossed
    <2>4. Touched' = Touched \cup {camImg}
      BY <2>1, <2>3 DEF Touched
    <2>5. QED
      BY <1>0, <2>1, <2>4, SimulatesTouch
  <1>3. CASE CameraTimeout
    <2>1. camWait /\ UNCHANGED Touched /\ (Resend \/ Advance)
      BY <1>3, AfterTimeout DEF CameraTimeout
    <2>2. CASE Advance
      BY <1>0, <2>1, <2>2, SimulatesAdvance
    <2>3. CASE Resend
      BY <1>0, <2>1, <2>3 DEF Resend, lossyVars
    <2>4. QED
      BY <2>1, <2>2, <2>3
  <1>4. QED
    BY <1>1, <1>2, <1>3 DEF Bus

LEMMA SimulatesConfirm ==
  ASSUME TypeOK, NewestInv, PartInv, ContainInv', CommConfirm
  PROVE  LossyShow!Touch \/ LossyShow!Send \/ UNCHANGED lossyVars
  <1>0. UNCHANGED <<sharedTop, everShown, ShownImage, ShownWhole, foreign>>
    BY SameShown DEF CommConfirm, Confirmed, Advance, sharedVars
  <1>1. CASE Confirmed /\ NoFault
    <2>1. UNCHANGED Touched
      BY <1>0, <1>1 DEF NoFault, Touched, Crossed
    <2>2. CASE camWait
      BY <1>0, <1>1, <2>1, <2>2, SimulatesAdvance DEF Confirmed
    <2>3. CASE ~camWait
      BY <1>0, <1>1, <2>1, <2>3 DEF Confirmed, lossyVars
    <2>4. QED
      BY <2>2, <2>3
  <1>2. CASE Fault /\ UNCHANGED camImg
    <2>1. Touched' = Touched \cup {camImg}
      BY <1>0, <1>2 DEF Fault, Touched, Crossed
    <2>2. QED
      BY <1>0, <1>2, <2>1, SimulatesTouch
  <1>3. QED
    BY <1>1, <1>2 DEF CommConfirm

LEMMA SimulatesLossyPublish ==
  ASSUME TypeOK, LossyInv, HandledInv, PrefixInv, NewestInv, PartInv, AsmPublish
  PROVE  LossyShow!Show \/ UNCHANGED lossyVars
  <1>1. ShownImage' = asmImageId /\ Newest(asmImageId) /\ asmImageId \in 1..Images
    BY NewestPublish
  <1>2. UNCHANGED linkVars
    BY DEF AsmPublish
  <1>3. UNCHANGED <<camImg, Touched>>
    BY <1>2, SameLink
  <1>4. camImg \in Nat /\ camImg - 1 + 1 = camImg /\ ShownImage \in Nat /\ Images \in Nat
    BY Constants DEF TypeOK, LinkTypeOK, NewestInv
  <1>5. asmImageId \in ShownImage .. Images /\ asmImageId <= camImg
    BY <1>1, <1>4 DEF Newest
  <1>6. ShownWhole' \in BOOLEAN
    BY DEF ShownWhole
  <1>7. ShownWhole' \/ asmImageId \in Touched
    BY <1>1, PartPublish DEF Touched
  <1>8. CASE asmImageId \in Touched \/ ShownImage # asmImageId
    <2>1. ShownImage # asmImageId => asmImageId > ShownImage
      BY <1>4, <1>5
    <2>2. QED
      BY <1>1, <1>3, <1>4, <1>5, <1>6, <1>7, <1>8, <2>1, LossyShowVars
  <1>9. CASE asmImageId \notin Touched /\ ShownImage = asmImageId
    <2>1. ShownWhole /\ ShownWhole'
      BY <1>7, <1>9 DEF PartInv, Touched
    <2>2. UNCHANGED ShownWhole
      BY <1>6, <2>1 DEF ShownWhole
    <2>3. QED
      BY <1>1, <1>3, <1>9, <2>2 DEF lossyVars
  <1>10. QED
    BY <1>8, <1>9

\* With images that load, on a bus that loses frames and is shared with other
\* nodes, images go on show in the order the camera sent them, in part or twice
\* only if touched, and the camera leaves one that was not shown only if a fault or
\* another node's frame met it or the one before: the pipeline implements
\* LossyDelivery.
THEOREM PipelineDeliversUnderLoss == ASSUME Lossy, Loads, EndIsTold PROVE Spec => LossyDeliverySpec
  <1> Fits
    BY DEF Loads, Fits
  <1>1. TypeOK /\ AnsweringInv /\ [Next]_vars => AnsweringInv'
    BY AnsweringStep
  <1>2. TypeOK /\ LossyInv /\ AnsweringInv /\ PrefixInv /\ [Next]_vars => PrefixInv'
    BY PrefixStep
  <1>3. TypeOK /\ TypeOK' /\ LossyInv /\ HandledInv /\ PrefixInv /\ NewestInv /\ [Next]_vars => NewestInv'
    BY NewestStep
  <1>4. Spec => [](TypeOK /\ LossyInv /\ HandledInv /\ ContainInv)
    BY TypeCorrect, LossyAlways, ContainAlways, PTL
  <1>5. Spec => []PrefixInv
    BY <1>1, <1>2, <1>4, AnsweringInit, PrefixInit, PTL DEF Spec
  <1>6. Spec => []NewestInv
    BY <1>3, <1>4, <1>5, NewestInit, PTL DEF Spec
  <1>7. TypeOK /\ LossyInv /\ HandledInv /\ PrefixInv /\ NewestInv /\ PartInv /\ [Next]_vars => PartInv'
    BY PartStep
  <1>8. Spec => []PartInv
    BY <1>7, <1>4, <1>5, <1>6, PartInit, PTL DEF Spec
  <1>9. Init => LossyShow!Init
    BY DEF Init, LinkInit, SharedInit, LossyShow!Init, Crossed
  <1>10. ASSUME TypeOK, LossyInv, HandledInv, PrefixInv, NewestInv, PartInv, ContainInv', [Next]_vars
        PROVE  LossyShow!Next \/ UNCHANGED lossyVars
    <2>1. CASE Bus
      BY <1>10, <2>1, SimulatesLossyBus DEF LossyShow!Next
    <2>2. CASE CommConfirm
      BY <1>10, <2>2, SimulatesConfirm DEF LossyShow!Next
    <2>3. CASE AsmPublish
      BY <1>10, <2>3, SimulatesLossyPublish DEF LossyShow!Next
    <2>4. CASE CommTake \/ CommRun \/ CommTick \/ AsmTakes \/ AsmFrame \/ AsmImage \/ ClsRun \/ UNCHANGED vars
      <3>1. ClsRun => UNCHANGED sharedTop
        BY DEF ClsRun, ClsStep, ClsTake, ClsLock, ClsDims, ClsTop, ClsBottom, sharedVars
      <3>2. UNCHANGED linkVars /\ UNCHANGED sharedTop
        BY <2>4, <3>1 DEF CommTake, CommRun, CommTick, AsmTakes, AsmFrame, AsmImage, ClsRun, vars, sharedVars
      <3>3. QED
        BY <3>2, SameLink, SameShown DEF lossyVars
    <2>5. QED
      BY <1>10, <2>1, <2>2, <2>3, <2>4 DEF Next, Comm, Asm
  <1>11. TypeOK /\ LossyInv /\ HandledInv /\ PrefixInv /\ NewestInv /\ PartInv /\ ContainInv' /\ [Next]_vars
          => [LossyShow!Next]_lossyVars
    BY <1>10
  <1>12. QED
    BY <1>4, <1>5, <1>6, <1>8, <1>9, <1>11, PTL
    DEF Spec, LossyDeliverySpec, LossyShow!Spec, lossyVars, Touched, ShownImage, ShownWhole

-------------------------------------------------------------------------------
(* How many frames pile up.  Each try of a chunk that was not answered cost *)
(* a fault, and each chunk that stayed in the frame queue because another   *)
(* node's frame came last cost that frame, which clearBuffer discarded.     *)

\* How many frames of s behind the first n have their id in ids.
Among(s, n, ids) == Cardinality({k \in n + 1..Len(s) : s[k].id \in ids})

Cameras(s, n) == Among(s, n, {"camera"})
Lidars(s, n) == Among(s, n, {"lidar"})

Strange == {"lidar", "other", "empty"}

\* The other nodes' frames in the vector, and those that are no longer in it.
Strangers == Among(rxMsgVector, 0, Strange)
Discarded == Len(foreign) - Strangers

\* What n tries of a chunk can send.
Room(n) == n * FramesPerChunk

\* The frames of this try that may be in the vector.
Underway == IF ~camWait THEN camPos ELSE IF Unanswered THEN 0 ELSE FramesPerChunk

Storing == commPc \in {"store", "complete"}

\* The camera's frames in the frame queue and on their way to it.
Piled == Len(cameraFramesQueue) + IF Storing THEN Cameras(batch, stored) ELSE Cameras(rxMsgVector, 0)

\* The assembler has emptied the frame queue, or was not notified.
Settled == ~asmNotify.pending /\ asmPc # "frame"

PileInv ==
  /\ Strangers <= Len(foreign)
  /\ commPc \notin Answering => Piled <= Room(faults + Discarded) + Underway
  /\ commPc \notin Answering /\ rxMsgVector = <<>> => Len(cameraFramesQueue) <= Room(faults + Discarded)
  /\ commPc = "copying" => Cameras(batch, 0) <= Cameras(rxMsgVector, 0)
  /\ (Storing \/ commPc = "copying") /\ Strangers = 0 => batch = rxMsgVector
  /\ Storing /\ Strangers = 0 /\ stored > 0 => lastFrame.id = "camera"
  /\ commPc = "complete" => stored = Len(batch)
  /\ commPc = "clear" /\ Settled => Len(cameraFramesQueue) <= Room(faults + Len(foreign))
  /\ commPc \in {"delay10", "confirm"} /\ Settled => Len(cameraFramesQueue) <= Room(faults + Discarded)
  /\ commPc # "dead"

\* Nothing leaves the lidar queue, and it holds no more than was sent.
LidarInv ==
  /\ lidarFramesQueue <= Len(foreign)
  /\ ~Storing /\ commPc # "clear" => lidarFramesQueue + Lidars(rxMsgVector, 0) <= Len(foreign)
  /\ commPc = "copying" => Lidars(batch, 0) <= Lidars(rxMsgVector, 0)
  /\ Storing => lidarFramesQueue + Lidars(batch, stored) <= Len(foreign)

\* The frame queue takes one text more than there can be faults and frames of
\* other nodes, and the lidar queue all of those.
RoomForAll ==
  FrameQueueLen >= Room(MaxFaults + MaxForeign + 1) /\ LidarQueueLen >= MaxForeign

-------------------------------------------------------------------------------
(* Counting frames.                                                         *)

LEMMA AmongType ==
  ASSUME NEW s \in Seq(Frame), NEW n \in Nat, NEW ids
  PROVE  Among(s, n, ids) \in Nat /\ IsFiniteSet({k \in n + 1..Len(s) : s[k].id \in ids})
  <1>1. IsFiniteSet(n + 1..Len(s))
    <2>1. n + 1 \in Int /\ Len(s) \in Int
      OBVIOUS
    <2>2. QED
      BY <2>1, FS_Interval
  <1>2. IsFiniteSet({k \in n + 1..Len(s) : s[k].id \in ids})
    BY <1>1, FS_Subset
  <1>3. QED
    BY <1>2, FS_CardinalityType DEF Among

LEMMA AmongNone ==
  ASSUME NEW s \in Seq(Frame), NEW n \in Nat, NEW ids, n >= Len(s)
  PROVE  Among(s, n, ids) = 0
  <1>1. {k \in n + 1..Len(s) : s[k].id \in ids} = {}
    <2>1. Len(s) \in Nat
      OBVIOUS
    <2>2. QED
      BY <2>1
  <1>2. QED
    BY <1>1, FS_EmptySet DEF Among

LEMMA AmongAppend ==
  ASSUME NEW s \in Seq(Frame), NEW f \in Frame, NEW ids
  PROVE  Among(Append(s, f), 0, ids) = Among(s, 0, ids) + IF f.id \in ids THEN 1 ELSE 0
  <1> DEFINE t == Append(s, f)
             m == Len(s) + 1
             A == {k \in 0 + 1..Len(s) : s[k].id \in ids}
             B == {k \in 0 + 1..Len(t) : t[k].id \in ids}
  <1>1. Len(s) \in Nat /\ Len(t) = m /\ t[m] = f /\ \A k \in 1..Len(s) : t[k] = s[k]
    OBVIOUS
  <1>2. IsFiniteSet(A) /\ Cardinality(A) \in Nat
    BY AmongType DEF Among
  <1>3. m \notin A
    BY <1>1
  <1>4. CASE f.id \in ids
    <2>1. B = A \cup {m}
      BY <1>1, <1>4
    <2> HIDE DEF A, B, m
    <2>2. Cardinality(B) = Cardinality(A) + 1
      BY <1>2, <1>3, <2>1, FS_AddElement
    <2>3. QED
      BY <1>4, <2>2 DEF Among, A, B
  <1>5. CASE f.id \notin ids
    <2>1. B = A
      BY <1>1, <1>5
    <2> HIDE DEF A, B, m
    <2>2. Cardinality(B) = Cardinality(A) + 0
      BY <1>2, <2>1
    <2>3. QED
      BY <1>5, <2>2 DEF Among, A, B
  <1>6. QED
    BY <1>4, <1>5

LEMMA AmongNext ==
  ASSUME NEW s \in Seq(Frame), NEW n \in Nat, n < Len(s), NEW ids
  PROVE  Among(s, n, ids) = Among(s, n + 1, ids) + IF s[n + 1].id \in ids THEN 1 ELSE 0
  <1> DEFINE m == n + 1
             A == {k \in m + 1..Len(s) : s[k].id \in ids}
             B == {k \in n + 1..Len(s) : s[k].id \in ids}
  <1>1. Len(s) \in Nat /\ m \in n + 1..Len(s) /\ m \in Nat
    OBVIOUS
  <1>2. IsFiniteSet(A) /\ Cardinality(A) \in Nat
    BY <1>1, AmongType DEF Among
  <1>3. m \notin A
    BY <1>1
  <1>4. CASE s[m].id \in ids
    <2>1. B = A \cup {m}
      BY <1>1, <1>4
    <2> HIDE DEF A, B, m
    <2>2. Cardinality(B) = Cardinality(A) + 1
      BY <1>2, <1>3, <2>1, FS_AddElement
    <2>3. QED
      BY <1>4, <2>2 DEF Among, A, B, m
  <1>5. CASE s[m].id \notin ids
    <2>1. B = A
      BY <1>1, <1>5
    <2> HIDE DEF A, B, m
    <2>2. Cardinality(B) = Cardinality(A) + 0
      BY <1>2, <2>1
    <2>3. QED
      BY <1>5, <2>2 DEF Among, A, B, m
  <1>6. QED
    BY <1>4, <1>5

\* None is counted, and none is there.
LEMMA AmongAbsent ==
  ASSUME NEW s \in Seq(Frame), NEW ids
  PROVE  Among(s, 0, ids) = 0 <=> \A k \in 1..Len(s) : s[k].id \notin ids
  <1> DEFINE A == {k \in 0 + 1..Len(s) : s[k].id \in ids}
  <1>1. IsFiniteSet(A)
    BY AmongType
  <1>2. Cardinality(A) = 0 <=> A = {}
    BY <1>1, FS_EmptySet
  <1>3. QED
    BY <1>2 DEF Among

\* A torn copy counts no more of them than the vector does.
LEMMA AmongCopy ==
  ASSUME TypeOK, CopyEnd, NEW ids, "other" \notin ids,
         Among(batch, 0, ids) <= Among(rxMsgVector, 0, ids)
  PROVE  Among(batch', 0, ids) <= Among(rxMsgVector, 0, ids)
  <1> DEFINE moved == [k \in DOMAIN batch |-> IF k = 1 THEN [id |-> "other"] ELSE batch[k]]
             A == {k \in 0 + 1..Len(moved) : moved[k].id \in ids}
             B == {k \in 0 + 1..Len(batch) : batch[k].id \in ids}
  <1>0. batch \in Seq(Frame) /\ rxMsgVector \in Seq(Frame)
    BY DEF TypeOK, ReceptionTypeOK
  <1>1. batch' \in {batch, rxMsgVector, moved}
    BY DEF CopyEnd, Copies
  <1>2. DOMAIN batch = 1..Len(batch) /\ Len(batch) \in Nat
    BY <1>0
  <1>3. /\ Len(moved) = Len(batch)
        /\ \A k \in 1..Len(batch) : moved[k].id = "other" \/ moved[k] = batch[k]
    BY <1>2
  <1>4. IsFiniteSet(B) /\ Cardinality(B) \in Nat /\ Among(rxMsgVector, 0, ids) \in Nat
    BY <1>0, AmongType DEF Among
  <1>5. CASE batch' = moved
    <2>1. A \subseteq B
      <3> HIDE DEF moved
      <3>1. QED
        BY <1>3
    <2> HIDE DEF A, B, moved
    <2>2. IsFiniteSet(A) /\ Cardinality(A) <= Cardinality(B)
      BY <1>4, <2>1, FS_Subset
    <2>3. Cardinality(A) \in Nat
      BY <2>2, FS_CardinalityType
    <2>4. QED
      BY <1>4, <1>5, <2>2, <2>3 DEF Among, A, B
  <1>6. CASE batch' \in {batch, rxMsgVector}
    BY <1>4, <1>6
  <1>7. QED
    BY <1>1, <1>5, <1>6

-------------------------------------------------------------------------------
LEMMA RoomGrows ==
  ASSUME NEW n \in Nat
  PROVE  Room(n) \in Nat /\ Room(n + 1) = Room(n) + FramesPerChunk
  <1>1. FramesPerChunk \in Nat
    BY Constants
  <1>2. n * FramesPerChunk \in Nat
    BY <1>1
  <1>3. (n + 1) * FramesPerChunk = n * FramesPerChunk + FramesPerChunk
    BY <1>1
  <1>4. QED
    BY <1>2, <1>3 DEF Room

LEMMA RoomMonotone ==
  ASSUME NEW n \in Nat, NEW m \in Nat, n <= m
  PROVE  Room(n) <= Room(m)
  <1>1. FramesPerChunk \in Nat /\ m - n \in Nat
    BY Constants
  <1>2. (m - n) * FramesPerChunk \in Nat
    BY <1>1
  <1>3. m * FramesPerChunk = n * FramesPerChunk + (m - n) * FramesPerChunk
    BY <1>1
  <1>4. n * FramesPerChunk \in Nat
    BY <1>1
  <1>5. QED
    BY <1>2, <1>3, <1>4 DEF Room

\* The numbers the invariant is about.
LEMMA PileTypes ==
  ASSUME TypeOK, Strangers <= Len(foreign)
  PROVE  /\ rxMsgVector \in Seq(Frame) /\ batch \in Seq(Frame) /\ stored \in 0..Len(batch)
         /\ Len(rxMsgVector) \in Nat /\ Len(batch) \in Nat
         /\ cameraFramesQueue \in Seq(CameraFrame) /\ Len(cameraFramesQueue) \in Nat
         /\ lidarFramesQueue \in Nat
         /\ Len(foreign) \in 0..MaxForeign /\ faults \in 0..MaxFaults /\ MaxFaults \in Nat /\ MaxForeign \in Nat
         /\ Strangers \in Nat /\ Discarded \in 0..Len(foreign)
         /\ Cameras(rxMsgVector, 0) \in Nat /\ Cameras(batch, stored) \in Nat
         /\ Lidars(rxMsgVector, 0) \in Nat /\ Lidars(batch, stored) \in Nat
         /\ FramesPerChunk \in Nat /\ camPos \in 0..FramesPerChunk /\ Underway \in 0..FramesPerChunk
         /\ faults + Discarded \in Nat
         /\ Room(faults + Discarded) \in Nat
         /\ Room(faults + Discarded + 1) = Room(faults + Discarded) + FramesPerChunk
  <1>1. /\ rxMsgVector \in Seq(Frame) /\ batch \in Seq(Frame) /\ stored \in 0..Len(batch)
        /\ cameraFramesQueue \in Seq(CameraFrame) /\ lidarFramesQueue \in Nat
        /\ foreign \in Seq(1..Images + 1) /\ Len(foreign) <= MaxForeign /\ faults \in 0..MaxFaults
        /\ camPos \in 0..FramesPerChunk /\ camWait \in BOOLEAN
    BY QueueAssumption DEF TypeOK, LinkTypeOK, ReceptionTypeOK
  <1>2. MaxFaults \in Nat /\ MaxForeign \in Nat /\ FramesPerChunk \in Nat
    BY Constants, LinkAssumption
  <1>3. /\ Strangers \in Nat /\ Cameras(rxMsgVector, 0) \in Nat /\ Cameras(batch, stored) \in Nat
        /\ Lidars(rxMsgVector, 0) \in Nat /\ Lidars(batch, stored) \in Nat
    <2>1. stored \in Nat
      BY <1>1
    <2>2. QED
      BY <1>1, <2>1, AmongType DEF Strangers, Cameras, Lidars
  <1>4. /\ Len(foreign) \in 0..MaxForeign
        /\ Len(rxMsgVector) \in Nat /\ Len(batch) \in Nat /\ Len(cameraFramesQueue) \in Nat
    BY <1>1, <1>2
  <1>5. Discarded \in 0..Len(foreign)
    BY <1>3, <1>4 DEF Discarded
  <1>6. Underway \in 0..FramesPerChunk
    BY <1>1, <1>2 DEF Underway
  <1>7. faults + Discarded \in Nat
    BY <1>1, <1>2, <1>4, <1>5
  <1>8. Room(faults + Discarded) \in Nat /\ Room(faults + Discarded + 1) = Room(faults + Discarded) + FramesPerChunk
    BY <1>7, RoomGrows
  <1>9. QED
    BY <1>1, <1>2, <1>3, <1>4, <1>5, <1>6, <1>7, <1>8

LEMMA PileInit == Init => PileInv /\ LidarInv
  <1> SUFFICES ASSUME Init PROVE PileInv /\ LidarInv
    OBVIOUS
  <1>1. /\ rxMsgVector = <<>> /\ camPos = 0 /\ ~camWait /\ commPc = "take" /\ faults = 0 /\ foreign = <<>>
        /\ cameraFramesQueue = <<>> /\ lidarFramesQueue = 0
    BY DEF Init, LinkInit, ReceptionInit
  <1>2. Strangers = 0 /\ Cameras(rxMsgVector, 0) = 0 /\ Lidars(rxMsgVector, 0) = 0
    <2>1. <<>> \in Seq(Frame) /\ 0 \in Nat /\ 0 >= Len(<<>>)
      OBVIOUS
    <2>2. QED
      BY <1>1, <2>1, AmongNone DEF Strangers, Cameras, Lidars
  <1>3. Room(0) \in Nat
    BY RoomGrows
  <1>4. Discarded = 0 /\ Underway = 0 /\ Piled = 0 /\ Len(foreign) = 0
    BY <1>1, <1>2 DEF Discarded, Underway, Piled, Storing
  <1>5. QED
    BY <1>1, <1>2, <1>3, <1>4 DEF PileInv, LidarInv, Storing, Answering

\* While communicationTask is idle, only what is under way matters.
LEMMA PileIdle ==
  ASSUME commPc' \in {"take", "delay100"},
         Strangers' <= Len(foreign'),
         Len(cameraFramesQueue') + Cameras(rxMsgVector, 0)' <= Room(faults + Discarded)' + Underway',
         rxMsgVector' = <<>> => Len(cameraFramesQueue') <= Room(faults + Discarded)'
  PROVE  PileInv'
  BY DEF PileInv, Piled, Storing, Answering

\* A fault leaves room for one try more.
LEMMA RoomAfter ==
  ASSUME TypeOK, Strangers <= Len(foreign), NoFault \/ Fault, UNCHANGED Discarded
  PROVE  /\ Room(faults + Discarded)' \in Nat
         /\ NoFault => Room(faults + Discarded)' = Room(faults + Discarded)
         /\ Fault => Room(faults + Discarded)' = Room(faults + Discarded) + FramesPerChunk
  <1>1. /\ faults \in Nat /\ Discarded \in Nat /\ faults + Discarded \in Nat /\ Room(faults + Discarded) \in Nat
        /\ Room(faults + Discarded + 1) = Room(faults + Discarded) + FramesPerChunk /\ FramesPerChunk \in Nat
    BY PileTypes
  <1>2. CASE NoFault
    BY <1>1, <1>2 DEF NoFault, Room, Fault
  <1>3. CASE Fault
    <2>1. faults' + Discarded' = faults + Discarded + 1
      BY <1>1, <1>3 DEF Fault
    <2>2. ~NoFault
      BY <1>1, <1>3 DEF Fault, NoFault
    <2>3. Room(faults + Discarded)' = Room(faults + Discarded + 1)
      BY <2>1 DEF Room
    <2>4. QED
      BY <1>1, <1>3, <2>2, <2>3
  <1>4. QED
    BY <1>2, <1>3

LEMMA PileData ==
  ASSUME Lossy, TypeOK, PileInv, CameraData, commPc \in {"take", "delay100"}, UNCHANGED taskVars
  PROVE  PileInv'
  <1>1. PICK f \in CameraFrame : SendFrame(f) /\ RecvData(f) /\ (NoFault \/ Fault)
    BY DEF CameraData, MayFault, Lossy
  <1>2. /\ ~camWait /\ ~camWait' /\ camPos' = camPos + 1 /\ f \in Frame /\ f.id = "camera"
        /\ rxMsgVector' = Append(rxMsgVector, f) /\ UNCHANGED <<foreign, commPc, cameraFramesQueue>>
    BY <1>1 DEF SendFrame, RecvData, Frame, taskVars, commVars, queueVars
  <1>3. Strangers <= Len(foreign) /\ Piled <= Room(faults + Discarded) + Underway
    BY DEF PileInv, Answering
  <1>4. /\ rxMsgVector \in Seq(Frame) /\ Strangers \in Nat /\ Cameras(rxMsgVector, 0) \in Nat
        /\ Room(faults + Discarded) \in Nat /\ camPos \in Nat /\ FramesPerChunk \in Nat /\ Len(rxMsgVector) \in Nat
        /\ Len(cameraFramesQueue) \in Nat
    BY <1>3, PileTypes
  <1>5. Strangers' = Strangers + 0 /\ Cameras(rxMsgVector, 0)' = Cameras(rxMsgVector, 0) + 1
    <2>1. /\ Among(Append(rxMsgVector, f), 0, Strange) = Among(rxMsgVector, 0, Strange) + 0
          /\ Among(Append(rxMsgVector, f), 0, {"camera"}) = Among(rxMsgVector, 0, {"camera"}) + 1
      BY <1>2, <1>4, AmongAppend DEF Strange
    <2>2. QED
      BY <1>2, <2>1 DEF Strangers, Cameras
  <1>6. UNCHANGED <<Strangers, Discarded>>
    BY <1>2, <1>4, <1>5 DEF Discarded
  <1>7. Room(faults + Discarded)' \in Nat /\ Room(faults + Discarded)' >= Room(faults + Discarded)
    BY <1>1, <1>3, <1>4, <1>6, RoomAfter
  <1>8. Underway = camPos /\ Underway' = camPos + 1 /\ Piled = Len(cameraFramesQueue) + Cameras(rxMsgVector, 0)
    BY <1>2 DEF Underway, Piled, Storing
  <1>9. Len(cameraFramesQueue') + Cameras(rxMsgVector, 0)' <= Room(faults + Discarded)' + Underway'
    BY <1>2, <1>3, <1>4, <1>5, <1>7, <1>8
  <1>10. rxMsgVector' # <<>>
    <2>1. Len(rxMsgVector') = Len(rxMsgVector) + 1 /\ Len(<<>>) = 0
      BY <1>2, <1>4
    <2>2. QED
      BY <1>4, <2>1
  <1>11. QED
    BY <1>2, <1>3, <1>6, <1>9, <1>10, PileIdle

\* A marker, lost or not, and a frame that is lost.
LEMMA PileQuiet ==
  ASSUME TypeOK, PileInv, commPc \in {"take", "delay100"}, UNCHANGED taskVars,
         UNCHANGED <<foreign, rxMsgVector>>,
         (NoFault /\ Underway' >= Underway) \/ Fault, Underway' \in Nat
  PROVE  PileInv'
  <1>1. UNCHANGED <<commPc, cameraFramesQueue>>
    BY DEF taskVars, commVars, queueVars
  <1>2. /\ Strangers <= Len(foreign) /\ Piled <= Room(faults + Discarded) + Underway
        /\ rxMsgVector = <<>> => Len(cameraFramesQueue) <= Room(faults + Discarded)
    BY DEF PileInv, Answering
  <1>3. UNCHANGED <<Strangers, Discarded, Cameras(rxMsgVector, 0)>>
    BY DEF Discarded, Strangers, Cameras, Among
  <1>4. /\ Room(faults + Discarded) \in Nat /\ FramesPerChunk \in Nat /\ Underway \in 0..FramesPerChunk
        /\ Len(cameraFramesQueue) \in Nat /\ Cameras(rxMsgVector, 0) \in Nat
    BY <1>2, PileTypes
  <1>5. /\ Room(faults + Discarded)' \in Nat
        /\ NoFault => Room(faults + Discarded)' = Room(faults + Discarded)
        /\ Fault => Room(faults + Discarded)' = Room(faults + Discarded) + FramesPerChunk
    BY <1>2, <1>3, RoomAfter
  <1>6. Piled = Len(cameraFramesQueue) + Cameras(rxMsgVector, 0)
    BY DEF Piled, Storing
  <1>7. Len(cameraFramesQueue') + Cameras(rxMsgVector, 0)' <= Room(faults + Discarded)' + Underway'
    BY <1>1, <1>2, <1>3, <1>4, <1>5, <1>6
  <1>8. rxMsgVector' = <<>> => Len(cameraFramesQueue') <= Room(faults + Discarded)'
    BY <1>1, <1>2, <1>4, <1>5
  <1>9. QED
    BY <1>1, <1>2, <1>3, <1>7, <1>8, PileIdle

\* Another node's frame comes with the room it needs.
LEMMA PileOther ==
  ASSUME Lossy, TypeOK, PileInv, OtherNode PROVE PileInv'
  <1>1. PICK id \in ForeignIds : RecvData([id |-> id])
    BY DEF OtherNode, Lossy
  <1>2. id \in Strange /\ [id |-> id] \in Frame
    BY <1>1, LinkAssumption DEF Lossy, Strange, Frame, ForeignFrame
  <1>3. /\ foreign' = Append(foreign, camImg) /\ rxMsgVector' = Append(rxMsgVector, [id |-> id])
        /\ UNCHANGED <<camPos, camWait, faults, rxNotified, commPc, batch, stored, lastFrame, cameraFramesQueue,
                       asmNotify, asmPc>>
    BY <1>1 DEF OtherNode, RecvData, taskVars, commVars, queueVars, asmVars
  <1>4. Strangers <= Len(foreign)
    BY DEF PileInv
  <1>5. /\ rxMsgVector \in Seq(Frame) /\ Strangers \in Nat /\ Cameras(rxMsgVector, 0) \in Nat
        /\ Len(rxMsgVector) \in Nat /\ Len(foreign) \in Nat
        /\ faults \in Nat /\ Discarded \in Nat /\ Room(faults + Discarded) \in Nat /\ Len(cameraFramesQueue) \in Nat
    BY <1>4, PileTypes
  <1>6. Strangers' = Strangers + 1 /\ Cameras(rxMsgVector, 0)' = Cameras(rxMsgVector, 0) + 0
    <2>1. [id |-> id].id \in Strange /\ [id |-> id].id \notin {"camera"}
      BY <1>2 DEF Strange
    <2>2. Among(Append(rxMsgVector, [id |-> id]), 0, Strange) = Among(rxMsgVector, 0, Strange) + 1
      BY <1>2, <1>5, <2>1, AmongAppend
    <2>3. Among(Append(rxMsgVector, [id |-> id]), 0, {"camera"}) = Among(rxMsgVector, 0, {"camera"}) + 0
      BY <1>2, <1>5, <2>1, AmongAppend
    <2>4. QED
      BY <1>3, <2>2, <2>3 DEF Strangers, Cameras
  <1>7. Len(foreign') = Len(foreign) + 1
    <2>1. foreign \in Seq(1..Images + 1)
      BY DEF TypeOK, LinkTypeOK
    <2>2. QED
      BY <1>3, <2>1
  <1>8. UNCHANGED <<Discarded, Room(faults + Discarded), Underway, Storing, Settled, Cameras(batch, stored)>>
    BY <1>3, <1>5, <1>6, <1>7 DEF Discarded, Room, Underway, Unanswered, Storing, Settled, Cameras, Among
  <1>9. UNCHANGED Piled /\ Cameras(rxMsgVector, 0)' = Cameras(rxMsgVector, 0)
    BY <1>3, <1>5, <1>6, <1>8 DEF Piled
  <1>10. UNCHANGED Cameras(batch, 0)
    BY <1>3 DEF Cameras, Among
  <1>11. rxMsgVector' # <<>> /\ Strangers' # 0 /\ Strangers' <= Len(foreign')
    <2>1. Len(rxMsgVector') = Len(rxMsgVector) + 1 /\ Len(<<>>) = 0
      BY <1>3, <1>5
    <2>2. rxMsgVector' # <<>>
      BY <1>5, <2>1
    <2>3. QED
      BY <1>4, <1>5, <1>6, <1>7, <2>2
  <1>12. Room(faults + Len(foreign))' >= Room(faults + Len(foreign)) /\ Room(faults + Len(foreign)) \in Nat
         /\ Room(faults + Len(foreign))' \in Nat
    <2>1. faults + Len(foreign) \in Nat /\ (faults + Len(foreign))' = faults + Len(foreign) + 1
      BY <1>3, <1>5, <1>7
    <2>2. FramesPerChunk \in Nat
      BY Constants
    <2>3. Room(faults + Len(foreign))' = Room(faults + Len(foreign) + 1)
      BY <2>1 DEF Room
    <2>4. /\ Room(faults + Len(foreign)) \in Nat
          /\ Room(faults + Len(foreign) + 1) = Room(faults + Len(foreign)) + FramesPerChunk
      BY <2>1, RoomGrows
    <2>5. QED
      BY <2>2, <2>3, <2>4
  <1>13. commPc' = "clear" /\ Settled' => Len(cameraFramesQueue') <= Room(faults + Len(foreign))'
    BY <1>3, <1>5, <1>8, <1>12 DEF PileInv
  <1>14. QED
    BY <1>3, <1>8, <1>9, <1>10, <1>11, <1>13 DEF PileInv

LEMMA PileBus ==
  ASSUME Lossy, TypeOK, TypeOK', LossyInv, HandledInv, PileInv, Bus PROVE PileInv'
  <1>0. UNCHANGED taskVars
    BY DEF Bus, CameraData, CameraEndOfFrame, LoseFrame, OtherNode, CameraTimeout
  <1>1. CASE OtherNode
    BY <1>1, PileOther
  <1>2. CASE ~OtherNode
    <2>1. commPc \in {"take", "delay100"}
      BY <1>2, IdleBus DEF PileInv
    <2>2. commPc' = commPc
      BY <1>0 DEF taskVars, commVars
    <2>3. /\ camPos \in Nat /\ camPos <= FramesPerChunk /\ FramesPerChunk \in Nat
          /\ Underway' \in Nat
      <3>1. camPos' \in 0..FramesPerChunk /\ camWait' \in BOOLEAN
        BY DEF TypeOK, LinkTypeOK
      <3>2. QED
        BY <3>1, Constants DEF TypeOK, LinkTypeOK, Underway
    <2>4. CASE CameraData
      BY <1>0, <2>1, <2>4, PileData
    <2>5. CASE CameraEndOfFrame
      <3>1. /\ ~camWait /\ camWait' /\ camPos = FramesPerChunk /\ rxNotified' /\ NoFault
            /\ UNCHANGED <<foreign, rxMsgVector>>
        BY <2>5 DEF CameraEndOfFrame, SendEndOfFrame, RecvEndOfFrame
      <3>2. Underway' >= Underway
        BY <2>3, <3>1 DEF Underway, Unanswered
      <3>3. QED
        BY <1>0, <2>1, <2>3, <3>1, <3>2, PileQuiet
    <2>6. CASE LoseFrame
      <3>1. Fault /\ UNCHANGED <<foreign, rxMsgVector>>
        BY <2>6 DEF LoseFrame, SendFrame, SendEndOfFrame, rxVars
      <3>2. QED
        BY <1>0, <2>1, <2>3, <3>1, PileQuiet
    <2>7. CASE CameraTimeout
      <3>1. /\ camWait /\ Unanswered /\ ~camWait' /\ camPos' = 0 /\ NoFault
            /\ UNCHANGED <<foreign, rxMsgVector>>
        BY <2>7 DEF CameraTimeout, Resend, Advance, MayFault, Lossy, rxVars
      <3>2. Underway' >= Underway
        BY <3>1 DEF Underway
      <3>3. QED
        BY <1>0, <2>1, <2>3, <3>1, <3>2, PileQuiet
    <2>8. QED
      BY <1>2, <2>4, <2>5, <2>6, <2>7 DEF Bus
  <1>3. QED
    BY <1>1, <1>2

\* A step of communicationTask leaves the vector and the bus as they are.
LEMMA PileSame ==
  ASSUME UNCHANGED <<linkVars, rxMsgVector>>
  PROVE  UNCHANGED <<Strangers, Discarded, Room(faults + Discarded), Room(faults + Len(foreign)),
                     Cameras(rxMsgVector, 0), Lidars(rxMsgVector, 0), Len(foreign), faults, camPos, camWait>>
  BY DEF linkVars, Strangers, Discarded, Room, Cameras, Lidars, Among

\* There is room for the next frame of the batch.
LEMMA PileStore ==
  ASSUME RoomForAll, TypeOK, LossyInv, HandledInv, PileInv, LidarInv, Store, UNCHANGED <<linkVars, asmVars>>
  PROVE  PileInv' /\ LidarInv'
  <1> DEFINE f == batch[stored + 1]
             q == cameraFramesQueue
             cams == Cameras(batch, stored + 1)
             lids == Lidars(batch, stored + 1)
  <1>1. /\ commPc = "store" /\ stored < Len(batch) /\ stored' = stored + 1 /\ commPc' \in {"store", "dead"}
        /\ UNCHANGED <<rxMsgVector, rxNotified, batch, asmNotify>>
    BY DEF Store, StoreMsg, rxVars
  <1>2. Strangers <= Len(foreign) /\ Piled <= Room(faults + Discarded) + Underway
    BY <1>1 DEF PileInv, Answering
  <1>3. /\ rxMsgVector \in Seq(Frame) /\ batch \in Seq(Frame) /\ stored \in Nat /\ Len(batch) \in Nat
        /\ q \in Seq(CameraFrame) /\ Len(q) \in Nat /\ lidarFramesQueue \in Nat
        /\ Len(foreign) \in 0..MaxForeign /\ faults \in 0..MaxFaults /\ MaxFaults \in Nat /\ MaxForeign \in Nat
        /\ Discarded \in 0..Len(foreign) /\ FramesPerChunk \in Nat
        /\ Room(faults + Discarded) \in Nat
        /\ Room(faults + Discarded + 1) = Room(faults + Discarded) + FramesPerChunk
    BY <1>2, PileTypes
  <1>4. f \in Frame /\ stored + 1 \in 1..Len(batch)
    BY <1>1, <1>3
  <1>5. /\ Cameras(batch, stored) = cams + IF f.id \in {"camera"} THEN 1 ELSE 0
        /\ Lidars(batch, stored) = lids + IF f.id \in {"lidar"} THEN 1 ELSE 0
        /\ cams \in Nat /\ lids \in Nat
    <2>1. stored + 1 \in Nat
      BY <1>3
    <2>2. /\ Among(batch, stored, {"camera"})
               = Among(batch, stored + 1, {"camera"}) + IF f.id \in {"camera"} THEN 1 ELSE 0
          /\ Among(batch, stored, {"lidar"})
               = Among(batch, stored + 1, {"lidar"}) + IF f.id \in {"lidar"} THEN 1 ELSE 0
      BY <1>1, <1>3, AmongNext
    <2>3. Among(batch, stored + 1, {"camera"}) \in Nat /\ Among(batch, stored + 1, {"lidar"}) \in Nat
      BY <1>3, <2>1, AmongType
    <2>4. QED
      BY <2>2, <2>3 DEF Cameras, Lidars
  <1>6. Cameras(batch, stored)' = cams /\ Lidars(batch, stored)' = lids
    BY <1>1 DEF Cameras, Lidars, Among
  <1>7. camWait /\ Underway = FramesPerChunk
    BY <1>1 DEF LossyInv, CommBusy, Underway, Unanswered
  <1>8. Len(q) + Cameras(batch, stored) <= Room(faults + Discarded) + FramesPerChunk
    BY <1>1, <1>2, <1>7 DEF Piled, Storing
  <1>9. Room(faults + Discarded) + FramesPerChunk <= FrameQueueLen
    <2>1. /\ faults + Discarded + 1 \in Nat /\ MaxFaults + MaxForeign + 1 \in Nat
          /\ faults + Discarded + 1 <= MaxFaults + MaxForeign + 1
      BY <1>3
    <2>2. Room(faults + Discarded + 1) <= Room(MaxFaults + MaxForeign + 1)
      BY <2>1, RoomMonotone
    <2>3. Room(MaxFaults + MaxForeign + 1) \in Nat
      BY <2>1, RoomGrows
    <2>4. QED
      BY <1>3, <2>2, <2>3, QueueAssumption DEF RoomForAll
  <1>10. lidarFramesQueue + Lidars(batch, stored) <= Len(foreign)
    BY <1>1 DEF LidarInv, Storing
  <1>11. UNCHANGED <<Strangers, Discarded, Room(faults + Discarded), Len(foreign), faults, camPos, camWait>>
    BY <1>1, PileSame
  <1>12. UNCHANGED Underway \/ commPc' = "dead"
    BY <1>1, <1>11 DEF Underway, Unanswered
  <1>13. /\ commPc' = "store"
         /\ Len(q') + cams <= Room(faults + Discarded) + FramesPerChunk
         /\ rxMsgVector = <<>> /\ Strangers = 0 => FALSE
         /\ lidarFramesQueue' + lids <= Len(foreign)
         /\ lidarFramesQueue' \in Nat
    <2>0. ~(rxMsgVector = <<>> /\ Strangers = 0)
      <3>1. Strangers = 0 => batch = rxMsgVector
        BY <1>1 DEF PileInv, Storing
      <3>2. Len(<<>>) = 0
        OBVIOUS
      <3>3. QED
        BY <1>1, <1>3, <3>1, <3>2
    <2>1. CASE f.id = "camera"
      <3>1. Len(q) < FrameQueueLen
        BY <1>3, <1>5, <1>8, <1>9, <2>1, QueueAssumption
      <3>2. q' = Append(q, f) /\ commPc' = "store" /\ UNCHANGED lidarFramesQueue
        BY <1>1, <1>3, <2>1, <3>1 DEF Store, StoreMsg
      <3>3. Len(q') = Len(q) + 1
        BY <1>3, <3>2
      <3>4. QED
        BY <1>3, <1>5, <1>8, <1>10, <2>0, <2>1, <3>2, <3>3
    <2>2. CASE f.id = "lidar"
      <3>1. lidarFramesQueue < LidarQueueLen
        <4>1. lidarFramesQueue + 1 <= MaxForeign
          BY <1>3, <1>5, <1>10, <2>2
        <4>2. QED
          BY <1>3, <4>1, QueueAssumption DEF RoomForAll
      <3>2. UNCHANGED q /\ commPc' = "store" /\ lidarFramesQueue' = lidarFramesQueue + 1
        BY <1>1, <1>3, <2>2, <3>1 DEF Store, StoreMsg
      <3>3. QED
        BY <1>3, <1>5, <1>8, <1>10, <2>0, <2>2, <3>2
    <2>3. CASE f.id \in {"other", "empty"}
      <3>1. UNCHANGED <<q, lidarFramesQueue, commPc>>
        BY <2>3 DEF Store, StoreMsg
      <3>2. QED
        BY <1>1, <1>3, <1>5, <1>8, <1>10, <2>0, <2>3, <3>1
    <2>4. QED
      BY <1>4, <2>1, <2>2, <2>3 DEF Frame, CameraFrame, ForeignFrame
  <1>14. Strangers = 0 => lastFrame'.id = "camera"
    <2> SUFFICES ASSUME Strangers = 0 PROVE lastFrame'.id = "camera"
      OBVIOUS
    <2>1. batch = rxMsgVector
      BY <1>1 DEF PileInv, Storing
    <2>2. \A k \in 1..Len(batch) : batch[k].id \notin Strange
      BY <1>3, <2>1, AmongAbsent DEF Strangers
    <2>3. f.id \notin Strange
      BY <1>4, <2>2
    <2>4. f.id = "camera"
      BY <1>4, <2>3 DEF Strange, Frame, CameraFrame, ForeignFrame
    <2>5. QED
      BY <2>4 DEF Store
  <1>15. rxMsgVector' = <<>> => Strangers = 0
    <2>1. <<>> \in Seq(Frame) /\ 0 \in Nat /\ 0 >= Len(<<>>)
      OBVIOUS
    <2>2. QED
      BY <1>1, <2>1, AmongNone DEF Strangers
  <1>16. Underway' = FramesPerChunk
    BY <1>7, <1>12, <1>13
  <1>17. Piled' = Len(q') + cams
    BY <1>6, <1>13 DEF Piled, Storing
  <1>18. Storing => (Strangers = 0 => batch = rxMsgVector)
    BY DEF PileInv
  <1> HIDE DEF f, q, cams, lids
  <1>19. PileInv'
    <2>1. Piled' <= Room(faults + Discarded)' + Underway'
      BY <1>11, <1>13, <1>16, <1>17
    <2>2. (Strangers = 0 => batch = rxMsgVector)'
      BY <1>1, <1>11, <1>18 DEF Storing
    <2>3. QED
      BY <1>1, <1>2, <1>11, <1>13, <1>14, <1>15, <2>1, <2>2 DEF PileInv, Storing, Answering
  <1>20. LidarInv'
    <2>1. lidarFramesQueue' <= Len(foreign')
      BY <1>3, <1>5, <1>11, <1>13
    <2>2. QED
      BY <1>6, <1>11, <1>13, <2>1 DEF LidarInv, Storing
  <1>21. QED
    BY <1>19, <1>20

LEMMA PileCommStep ==
  ASSUME RoomForAll, TypeOK, LossyInv, HandledInv, PileInv, LidarInv, CommStep, UNCHANGED <<linkVars, asmVars>>
  PROVE  PileInv' /\ LidarInv'
  <1>0. UNCHANGED asmPc
    BY DEF asmVars
  <1>1. CASE Store
    BY <1>1, PileStore
  <1>2. ASSUME ~Store, ~ClearBuffer
        PROVE  /\ UNCHANGED <<rxMsgVector, rxNotified, cameraFramesQueue, lidarFramesQueue>>
               /\ UNCHANGED <<Strangers, Discarded, Room(faults + Discarded), Room(faults + Len(foreign)),
                              Cameras(rxMsgVector, 0), Lidars(rxMsgVector, 0), Len(foreign), camPos, camWait>>
    <2>1. UNCHANGED <<rxMsgVector, rxNotified, cameraFramesQueue, lidarFramesQueue>>
      BY <1>2 DEF CommStep, ReadDone, ReadEoi, ResetDone, CopyBegin, CopyEnd, StoreEnd, CompletedFrame,
                  rxVars, queueVars
    <2>2. QED
      BY <2>1, PileSame
  <1>3. /\ Strangers <= Len(foreign) /\ Strangers \in Nat /\ Len(foreign) \in Nat /\ FramesPerChunk \in Nat
        /\ rxMsgVector \in Seq(Frame) /\ batch \in Seq(Frame) /\ stored \in Nat /\ Len(batch) \in Nat
        /\ Len(cameraFramesQueue) \in Nat /\ lidarFramesQueue \in Nat
        /\ Cameras(rxMsgVector, 0) \in Nat /\ Lidars(rxMsgVector, 0) \in Nat /\ Lidars(batch, stored) \in Nat
        /\ faults \in Nat /\ Discarded \in Nat /\ Room(faults + Discarded) \in Nat
        /\ Room(faults + Discarded + 1) = Room(faults + Discarded) + FramesPerChunk
    <2>1. Strangers <= Len(foreign)
      BY DEF PileInv
    <2>2. QED
      BY <2>1, PileTypes
  <1>4. CASE ReadDone \/ ReadEoi \/ ResetDone \/ CopyBegin
    <2>1. /\ commPc \in {"readDone", "readEoi", "resetDone", "copy"}
          /\ commPc' \in {"readEoi", "resetDone", "copy", "copying"}
          /\ commPc' = "copying" => batch' = rxMsgVector
      BY <1>4 DEF ReadDone, ReadEoi, ResetDone, CopyBegin, CommGoto
    <2>2. ~Store /\ ~ClearBuffer
      BY <2>1 DEF Store, ClearBuffer, CommGoto
    <2>3. UNCHANGED <<Underway, Piled, Storing>> /\ ~Storing
      BY <1>2, <2>1, <2>2 DEF Underway, Unanswered, Piled, Storing
    <2>4. commPc' = "copying" => /\ Cameras(batch, 0)' <= Cameras(rxMsgVector, 0)
                                 /\ Lidars(batch, 0)' <= Lidars(rxMsgVector, 0)
      BY <1>3, <2>1 DEF Cameras, Lidars, Among
    <2>5. PileInv'
      BY <1>2, <2>1, <2>2, <2>3, <2>4 DEF PileInv, Storing, Answering
    <2>6. LidarInv'
      BY <1>2, <2>1, <2>2, <2>3, <2>4 DEF LidarInv, Storing
    <2>7. QED
      BY <2>5, <2>6
  <1>5. CASE CopyEnd
    <2>1. commPc = "copying" /\ commPc' = "store" /\ stored' = 0 /\ batch' \in Copies(batch, rxMsgVector)
      BY <1>5 DEF CopyEnd, CommGoto, LossyInv, CommBusy
    <2>2. ~Store /\ ~ClearBuffer
      BY <2>1 DEF Store, ClearBuffer, CommGoto
    <2>3. Cameras(batch, stored)' <= Cameras(rxMsgVector, 0) /\ Lidars(batch, stored)' <= Lidars(rxMsgVector, 0)
      <3>1. /\ Among(batch, 0, {"camera"}) <= Among(rxMsgVector, 0, {"camera"})
            /\ Among(batch, 0, {"lidar"}) <= Among(rxMsgVector, 0, {"lidar"})
        BY <2>1 DEF PileInv, LidarInv, Cameras, Lidars
      <3>2. /\ Among(batch', 0, {"camera"}) <= Among(rxMsgVector, 0, {"camera"})
            /\ Among(batch', 0, {"lidar"}) <= Among(rxMsgVector, 0, {"lidar"})
        BY <1>5, <3>1, AmongCopy
      <3>3. QED
        BY <2>1, <3>2 DEF Cameras, Lidars, Among
    <2>4. Cameras(batch, stored)' \in Nat /\ Lidars(batch, stored)' \in Nat
      <3>1. batch' \in Seq(Frame)
        <4>1. ReceptionTypeOK'
          BY TypeCommStep DEF TypeOK
        <4>2. QED
          BY <4>1 DEF ReceptionTypeOK
      <3>2. Among(batch', 0, {"camera"}) \in Nat /\ Among(batch', 0, {"lidar"}) \in Nat
        BY <3>1, AmongType
      <3>3. QED
        BY <2>1, <3>2 DEF Cameras, Lidars, Among
    <2>5. Strangers = 0 => batch' = rxMsgVector
      BY <2>1 DEF PileInv, Copies
    <2>6. UNCHANGED Underway /\ Storing' /\ ~Storing
      BY <1>2, <2>1, <2>2 DEF Underway, Unanswered, Storing
    <2>7. Piled = Len(cameraFramesQueue) + Cameras(rxMsgVector, 0)
          /\ Piled' = Len(cameraFramesQueue) + Cameras(batch, stored)'
      BY <1>2, <2>2, <2>6 DEF Piled
    <2>8. Underway \in Nat
      BY <1>3, PileTypes
    <2>9. Piled' <= Room(faults + Discarded) + Underway
      <3>1. Piled <= Room(faults + Discarded) + Underway
        BY <2>1 DEF PileInv, Answering
      <3>2. /\ Len(cameraFramesQueue) \in Nat /\ Cameras(rxMsgVector, 0) \in Nat
            /\ Room(faults + Discarded) + Underway \in Nat
        BY <1>3, <2>8
      <3>3. Len(cameraFramesQueue) + Cameras(rxMsgVector, 0) <= Room(faults + Discarded) + Underway
        BY <2>7, <3>1
      <3>4. Len(cameraFramesQueue) + Cameras(batch, stored)' <= Room(faults + Discarded) + Underway
        BY <2>3, <2>4, <3>2, <3>3
      <3>5. QED
        BY <2>7, <3>4
    <2>10. lidarFramesQueue + Lidars(batch, stored)' <= Len(foreign)
      <3>1. lidarFramesQueue + Lidars(rxMsgVector, 0) <= Len(foreign)
        BY <2>1, <2>6 DEF LidarInv
      <3>2. QED
        BY <1>3, <2>3, <2>4, <3>1
    <2>11. PileInv'
      BY <1>2, <2>1, <2>2, <2>5, <2>6, <2>9 DEF PileInv, Answering
    <2>12. LidarInv'
      BY <1>2, <2>1, <2>2, <2>6, <2>10 DEF LidarInv
    <2>13. QED
      BY <2>11, <2>12
  <1>6. CASE StoreEnd
    <2>1. /\ commPc = "store" /\ commPc' = "complete" /\ stored = Len(batch)
          /\ UNCHANGED <<batch, stored, lastFrame>>
      BY <1>6 DEF StoreEnd, CommGoto
    <2>2. ~Store /\ ~ClearBuffer
      BY <1>3, <2>1 DEF Store, ClearBuffer, CommGoto
    <2>3. UNCHANGED <<Underway, Piled, Cameras(batch, stored), Lidars(batch, stored)>> /\ Storing /\ Storing'
      BY <1>2, <2>1, <2>2 DEF Underway, Unanswered, Piled, Storing, Cameras, Lidars, Among
    <2>4. PileInv'
      BY <1>2, <2>1, <2>2, <2>3 DEF PileInv, Answering
    <2>5. LidarInv'
      BY <1>2, <2>1, <2>2, <2>3 DEF LidarInv
    <2>6. QED
      BY <2>4, <2>5
  <1>7. CASE CompletedFrame
    <2>1. /\ commPc = "complete" /\ commPc' = "clear" /\ Storing
          /\ lastFrame.id = "camera" => asmNotify'.pending
      BY <1>7 DEF CompletedFrame, CommGoto, Storing
    <2>2. ~Store /\ ~ClearBuffer
      BY <2>1 DEF Store, ClearBuffer, CommGoto
    <2>3. camWait /\ Underway = FramesPerChunk
      BY <2>1 DEF LossyInv, CommBusy, Underway, Unanswered
    <2>4. Len(cameraFramesQueue) <= Room(faults + Discarded) + FramesPerChunk
      <3>1. Piled <= Room(faults + Discarded) + Underway /\ Cameras(batch, stored) \in Nat
        BY <1>3, <2>1, PileTypes DEF PileInv, Answering
      <3>2. QED
        BY <1>3, <2>1, <2>3, <3>1 DEF Piled
    <2>5. ASSUME lastFrame.id # "camera" PROVE Len(cameraFramesQueue) <= Room(faults + Len(foreign))
      <3>1. CASE Strangers = 0
        <4>1. batch = rxMsgVector /\ stored = Len(batch) /\ stored = 0
          BY <1>3, <2>1, <2>5, <3>1 DEF PileInv
        <4>2. rxMsgVector = <<>>
          <5>1. rxMsgVector \in Seq(Frame) /\ Len(rxMsgVector) = 0
            BY <1>3, <4>1
          <5>2. QED
            BY <5>1
        <4>3. Discarded = Len(foreign)
          BY <1>3, <3>1 DEF Discarded
        <4>4. QED
          BY <2>1, <4>2, <4>3 DEF PileInv, Answering
      <3>2. CASE Strangers # 0
        <4>1. /\ faults + Discarded + 1 \in Nat /\ faults + Len(foreign) \in Nat
              /\ faults + Discarded + 1 <= faults + Len(foreign)
          BY <1>3, <3>2 DEF Discarded
        <4>2. Room(faults + Discarded + 1) <= Room(faults + Len(foreign))
          BY <4>1, RoomMonotone
        <4>3. Room(faults + Len(foreign)) \in Nat
          BY <4>1, RoomGrows
        <4>4. QED
          BY <1>3, <2>4, <4>2, <4>3
      <3>3. QED
        BY <3>1, <3>2
    <2>6. Settled' => Len(cameraFramesQueue) <= Room(faults + Len(foreign))
      BY <2>1, <2>5 DEF Settled
    <2>7. PileInv'
      BY <1>2, <2>1, <2>2, <2>6 DEF PileInv, Answering, Storing
    <2>8. LidarInv'
      BY <1>2, <2>1, <2>2 DEF LidarInv, Storing
    <2>9. QED
      BY <2>7, <2>8
  <1>8. CASE ClearBuffer
    <2>1. /\ commPc = "clear" /\ commPc' = "delay10" /\ rxMsgVector' = <<>>
          /\ UNCHANGED <<cameraFramesQueue, lidarFramesQueue, asmNotify, faults, foreign>>
      BY <1>8 DEF ClearBuffer, CommGoto, queueVars, linkVars
    <2>2. Strangers' = 0 /\ Lidars(rxMsgVector, 0)' = 0
      <3>1. <<>> \in Seq(Frame) /\ 0 \in Nat /\ 0 >= Len(<<>>)
        OBVIOUS
      <3>2. Among(<<>>, 0, Strange) = 0 /\ Among(<<>>, 0, {"lidar"}) = 0
        BY <3>1, AmongNone
      <3>3. QED
        BY <2>1, <3>2 DEF Strangers, Lidars
    <2>3. Discarded' = Len(foreign)
      BY <1>3, <2>1, <2>2 DEF Discarded
    <2>4. Room(faults + Discarded)' = Room(faults + Len(foreign))
      BY <2>1, <2>3 DEF Room
    <2>5. PileInv'
      BY <1>0, <1>3, <2>1, <2>2, <2>4 DEF PileInv, Answering, Storing, Settled
    <2>6. LidarInv'
      BY <1>3, <2>1, <2>2 DEF LidarInv, Storing
    <2>7. QED
      BY <2>5, <2>6
  <1>9. QED
    BY <1>1, <1>4, <1>5, <1>6, <1>7, <1>8 DEF CommStep

LEMMA PileConfirm ==
  ASSUME TypeOK, TypeOK', LossyInv, HandledInv, PileInv, CommConfirm PROVE PileInv'
  <1>1. /\ commPc = "confirm" /\ commPc' = "delay100" /\ ~asmNotify.pending /\ asmPc = "wait"
        /\ UNCHANGED <<rxMsgVector, cameraFramesQueue, foreign>>
    BY AssemblerIsDone DEF CommConfirm, Confirm, Confirmed, Advance, CommGoto, rxVars, queueVars
  <1>2. NoFault \/ Fault
    BY DEF CommConfirm
  <1>3. Strangers <= Len(foreign) /\ Len(cameraFramesQueue) <= Room(faults + Discarded)
    BY <1>1 DEF PileInv, Settled
  <1>4. UNCHANGED <<Strangers, Discarded, Cameras(rxMsgVector, 0)>>
    BY <1>1 DEF Strangers, Discarded, Cameras, Among
  <1>5. Cameras(rxMsgVector, 0) = 0
    <2>1. rxMsgVector \in Seq(Frame) /\ \A k \in 1..Len(rxMsgVector) : rxMsgVector[k].id \notin {"camera"}
      BY <1>1 DEF LossyInv, TypeOK, ReceptionTypeOK
    <2>2. QED
      BY <2>1, AmongAbsent DEF Cameras
  <1>6. /\ Room(faults + Discarded) \in Nat /\ FramesPerChunk \in Nat /\ Len(cameraFramesQueue) \in Nat
    BY <1>3, PileTypes
  <1>7. Room(faults + Discarded)' \in Nat /\ Room(faults + Discarded)' >= Room(faults + Discarded)
    BY <1>2, <1>3, <1>4, <1>6, RoomAfter
  <1>8. Underway' \in Nat
    <2>1. camPos' \in 0..FramesPerChunk
      BY DEF TypeOK, LinkTypeOK
    <2>2. QED
      BY <1>6, <2>1 DEF Underway
  <1>9. Len(cameraFramesQueue') + Cameras(rxMsgVector, 0)' <= Room(faults + Discarded)' + Underway'
    BY <1>1, <1>3, <1>4, <1>5, <1>6, <1>7, <1>8
  <1>10. Len(cameraFramesQueue') <= Room(faults + Discarded)'
    BY <1>1, <1>3, <1>6, <1>7
  <1>11. QED
    BY <1>1, <1>3, <1>4, <1>9, <1>10, PileIdle

LEMMA PileAsm == ASSUME TypeOK, HandledInv, PileInv, Asm PROVE PileInv'
  <1>1. /\ UNCHANGED <<rxMsgVector, rxNotified, camWait, camPos, faults, foreign, commPc, batch, stored, lastFrame>>
        /\ UNCHANGED linkVars
    BY DEF Asm, AsmTakes, AsmFrame, AsmImage, AsmPublish, linkVars, rxVars, commVars
  <1>2. commPc \in Answering
    <2>1. asmNotify.pending \/ asmPc # "wait"
      BY DEF Asm, AsmTakes, AsmWait, AsmFrame, AssembleFrame, AsmImage, AssembleImage, AsmPublish, Publish, AsmGoto
    <2>2. QED
      BY <2>1 DEF HandledInv
  <1>3. UNCHANGED <<Strangers, Discarded, Room(faults + Discarded), Room(faults + Len(foreign)), Len(foreign)>>
    BY <1>1, PileSame
  <1>4. Settled' => (Settled /\ UNCHANGED cameraFramesQueue) \/ cameraFramesQueue' = <<>>
    BY DEF Settled, Asm, AsmTakes, AsmWait, AsmFrame, AssembleFrame, AsmImage, AssembleImage, AsmPublish, Publish,
           AsmGoto, queueVars
  <1>5. Room(faults + Discarded) \in Nat /\ Room(faults + Len(foreign)) \in Nat
    <2>1. Strangers <= Len(foreign)
      BY DEF PileInv
    <2>2. faults \in Nat /\ Len(foreign) \in Nat /\ Room(faults + Discarded) \in Nat
      BY <2>1, PileTypes
    <2>3. faults + Len(foreign) \in Nat
      BY <2>2
    <2>4. QED
      BY <2>2, <2>3, RoomGrows
  <1>6. Settled' => \/ Settled /\ UNCHANGED cameraFramesQueue
                    \/ /\ Len(cameraFramesQueue') <= Room(faults + Discarded)
                       /\ Len(cameraFramesQueue') <= Room(faults + Len(foreign))
    BY <1>4, <1>5
  <1>7. QED
    BY <1>1, <1>2, <1>3, <1>6 DEF PileInv, Answering, Storing

\* A task that leaves the reception alone.
LEMMA PileElsewhere ==
  ASSUME PileInv,
         UNCHANGED <<linkVars, rxMsgVector, batch, stored, lastFrame, cameraFramesQueue, asmNotify, asmPc>>,
         \/ UNCHANGED <<commPc, rxNotified>>
         \/ commPc = "delay10" /\ commPc' = "confirm" /\ UNCHANGED rxNotified
         \/ commPc = "delay100" /\ commPc' = "take" /\ UNCHANGED rxNotified
         \/ commPc = "take" /\ commPc' = "readDone" /\ rxNotified
  PROVE  PileInv'
  <1>1. UNCHANGED <<Strangers, Discarded, Room(faults + Discarded), Room(faults + Len(foreign)),
                    Cameras(rxMsgVector, 0), Len(foreign), camPos, camWait>>
    BY PileSame
  <1>2. UNCHANGED <<Underway, Piled, Storing, Settled>>
    BY <1>1 DEF Underway, Unanswered, Piled, Storing, Settled, Cameras, Among
  <1>3. UNCHANGED Cameras(batch, 0)
    BY DEF Cameras, Among
  <1>4. QED
    BY <1>1, <1>2, <1>3 DEF PileInv, Answering, Storing

LEMMA LidarElsewhere ==
  ASSUME LidarInv, UNCHANGED <<foreign, rxMsgVector, batch, stored, lidarFramesQueue>>,
         UNCHANGED commPc \/ (~Storing /\ ~Storing' /\ commPc # "clear" /\ commPc # "copying"
                              /\ commPc' # "copying")
  PROVE  LidarInv'
  <1>1. UNCHANGED <<Lidars(rxMsgVector, 0), Lidars(batch, 0), Lidars(batch, stored), Len(foreign)>>
    BY DEF Lidars, Among
  <1>2. QED
    BY <1>1 DEF LidarInv, Storing

LEMMA LidarBus == ASSUME Lossy, TypeOK, PileInv, LidarInv, Bus PROVE LidarInv'
  <1>0. UNCHANGED <<commPc, batch, stored, lidarFramesQueue>>
    BY DEF Bus, CameraData, CameraEndOfFrame, LoseFrame, OtherNode, CameraTimeout, taskVars, commVars, queueVars
  <1>1. /\ UNCHANGED <<Lidars(batch, 0), Lidars(batch, stored), Storing>>
    BY <1>0 DEF Lidars, Among, Storing
  <1>2. /\ rxMsgVector \in Seq(Frame) /\ Lidars(rxMsgVector, 0) \in Nat /\ Lidars(batch, stored) \in Nat
        /\ Len(foreign) \in Nat /\ lidarFramesQueue \in Nat
    <2>1. Strangers <= Len(foreign)
      BY DEF PileInv
    <2>2. QED
      BY <2>1, PileTypes
  <1>3. commPc = "copying" => Lidars(batch, 0) \in Nat
    <2>1. batch \in Seq(Frame)
      BY DEF TypeOK, ReceptionTypeOK
    <2>2. QED
      BY <2>1, AmongType DEF Lidars
  <1>4. CASE CameraData
    <2>1. PICK f \in CameraFrame : SendFrame(f) /\ RecvData(f)
      BY <1>4 DEF CameraData, MayFault, Lossy
    <2>2. f.id \notin {"lidar"} /\ f \in Frame /\ rxMsgVector' = Append(rxMsgVector, f) /\ UNCHANGED foreign
      BY <2>1 DEF SendFrame, RecvData, Frame
    <2>3. Among(Append(rxMsgVector, f), 0, {"lidar"}) = Among(rxMsgVector, 0, {"lidar"}) + 0
      BY <1>2, <2>2, AmongAppend
    <2>4. Lidars(rxMsgVector, 0)' = Lidars(rxMsgVector, 0)
      BY <1>2, <2>2, <2>3 DEF Lidars
    <2>5. QED
      BY <1>0, <1>1, <2>2, <2>4 DEF LidarInv
  <1>5. CASE OtherNode
    <2>1. PICK id \in ForeignIds : RecvData([id |-> id])
      BY <1>5 DEF OtherNode, Lossy
    <2>2. /\ [id |-> id] \in Frame /\ rxMsgVector' = Append(rxMsgVector, [id |-> id])
          /\ foreign' = Append(foreign, camImg) /\ foreign \in Seq(1..Images + 1)
      BY <1>5, <2>1, LinkAssumption
      DEF Lossy, Frame, ForeignFrame, RecvData, OtherNode, TypeOK, LinkTypeOK
    <2>3. Len(foreign') = Len(foreign) + 1
      BY <2>2
    <2>4. Lidars(rxMsgVector, 0)' = Lidars(rxMsgVector, 0)
          \/ Lidars(rxMsgVector, 0)' = Lidars(rxMsgVector, 0) + 1
      <3>1. Among(Append(rxMsgVector, [id |-> id]), 0, {"lidar"})
              = Among(rxMsgVector, 0, {"lidar"}) + IF [id |-> id].id \in {"lidar"} THEN 1 ELSE 0
        BY <1>2, <2>2, AmongAppend
      <3>2. QED
        BY <1>2, <2>2, <3>1 DEF Lidars
    <2>5. QED
      BY <1>0, <1>1, <1>2, <1>3, <2>3, <2>4 DEF LidarInv
  <1>6. CASE CameraEndOfFrame \/ LoseFrame \/ CameraTimeout
    <2>1. UNCHANGED <<rxMsgVector, foreign>>
      BY <1>6 DEF CameraEndOfFrame, RecvEndOfFrame, SendEndOfFrame, LoseFrame, SendFrame, CameraTimeout, Resend,
                  Advance, rxVars
    <2>2. QED
      BY <1>0, <2>1, LidarElsewhere
  <1>7. QED
    BY <1>4, <1>5, <1>6 DEF Bus

LEMMA PileStep ==
  ASSUME Lossy, RoomForAll, TypeOK, TypeOK', LossyInv, HandledInv, PileInv, LidarInv, [Next]_vars
  PROVE  PileInv' /\ LidarInv'
  <1>1. CASE Bus
    BY <1>1, PileBus, LidarBus
  <1>2. CASE CommRun
    BY <1>2, PileCommStep DEF CommRun
  <1>3. CASE CommTake \/ CommTick
    <2>1. /\ UNCHANGED <<linkVars, rxMsgVector, batch, stored, lastFrame, cameraFramesQueue, lidarFramesQueue,
                         asmNotify, asmPc>>
          /\ \/ commPc = "delay10" /\ commPc' = "confirm" /\ UNCHANGED rxNotified
             \/ commPc = "delay100" /\ commPc' = "take" /\ UNCHANGED rxNotified
             \/ commPc = "take" /\ commPc' = "readDone" /\ rxNotified
      BY <1>3 DEF CommTake, Take, CommTick, DelayOver, CommGoto, rxVars, queueVars, asmVars
    <2>2. QED
      BY <2>1, PileElsewhere, LidarElsewhere DEF Storing, linkVars
  <1>4. CASE CommConfirm
    <2>1. /\ commPc = "confirm" /\ commPc' = "delay100"
          /\ UNCHANGED <<foreign, rxMsgVector, batch, stored, lidarFramesQueue>>
      BY <1>4 DEF CommConfirm, Confirm, Confirmed, Advance, CommGoto, rxVars, queueVars
    <2>2. QED
      BY <1>4, <2>1, PileConfirm, LidarElsewhere DEF Storing
  <1>5. CASE Asm
    <2>1. UNCHANGED <<foreign, rxMsgVector, batch, stored, commPc, lidarFramesQueue>>
      BY <1>5 DEF Asm, AsmTakes, AsmWait, AsmFrame, AssembleFrame, AsmImage, AssembleImage, AsmPublish, Publish,
                  linkVars, rxVars, commVars, queueVars
    <2>2. QED
      BY <1>5, <2>1, PileAsm, LidarElsewhere
  <1>6. CASE ClsRun \/ UNCHANGED vars
    <2>1. UNCHANGED <<linkVars, rxMsgVector, rxNotified, batch, stored, lastFrame, cameraFramesQueue,
                      lidarFramesQueue, asmNotify, asmPc, commPc, foreign>>
      BY <1>6 DEF ClsRun, vars, linkVars, rxVars, commVars, queueVars, asmVars
    <2>2. QED
      BY <2>1, PileElsewhere, LidarElsewhere
  <1>7. QED
    BY <1>1, <1>2, <1>3, <1>4, <1>5, <1>6 DEF Next, Comm

\* With images that fit, a frame queue with room for one text more than there
\* are faults and frames of other nodes, and a lidar queue with room for the
\* latter, are never found full: frames of tries whose marker was lost, and of
\* chunks the assembler was not told of, pile up, but communicationTask lives.
THEOREM CommunicationSurvives == ASSUME Lossy, Fits, RoomForAll PROVE Spec => []CommSurvives
  <1>1. TypeOK /\ TypeOK' /\ LossyInv /\ HandledInv /\ PileInv /\ LidarInv /\ [Next]_vars
          => PileInv' /\ LidarInv'
    BY PileStep
  <1>2. Spec => [](PileInv /\ LidarInv)
    BY <1>1, PileInit, LossyAlways, HandledAlways, TypeCorrect, PTL DEF Spec
  <1>3. PileInv => CommSurvives
    BY DEF PileInv, CommSurvives
  <1>4. QED
    BY <1>2, <1>3, PTL
===============================================================================
