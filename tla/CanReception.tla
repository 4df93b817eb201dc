----------------------------- MODULE CanReception -----------------------------
(***************************************************************************)
(* The receive path of the fusion node: PsCanController's receive          *)
(* interrupt, and communicationTask, which takes what the interrupt has    *)
(* collected, sorts it into MsgGateway's queues, wakes the assembler task  *)
(* and confirms the chunk to the camera.                                   *)
(*                                                                         *)
(* The interrupt may run between any two steps of the task: nothing masks  *)
(* it, and the mutex around receiveMsg is commented out.                   *)
(***************************************************************************)
EXTENDS CameraLink

CONSTANTS FrameQueueLen, LidarQueueLen   \* both 200 in the code

ASSUME QueueAssumption == FrameQueueLen \in Nat \ {0} /\ LidarQueueLen \in Nat \ {0}

VARIABLES
  rxMsgVector,       \* m_rxMsgVector
  recvDone,          \* m_recvDone
  endOfImage,        \* m_endOfImage
  rxNotified,        \* communicationTask's notification count is not zero
  commPc,            \* where communicationTask is
  assembleCbor, isEndOfImage, \* its locals in receiveData
  batch, stored,     \* its copy of the vector, and how much of it is stored
  lastFrame,         \* the last frame it stored: msgId and lastFrameIndex
  cameraFramesQueue, \* frames waiting for the assembler
  lidarFramesQueue,  \* length of the queue nobody receives from
  asmNotify          \* the assembler task's notification

rxVars == <<rxMsgVector, recvDone, endOfImage, rxNotified>>
commVars == <<commPc, assembleCbor, isEndOfImage, batch, stored, lastFrame>>
queueVars == <<cameraFramesQueue, lidarFramesQueue, asmNotify>>

NoFrame == [id |-> "none"]

CommPcs == {"take", "readDone", "readEoi", "resetDone", "copy", "copying", "store",
            "complete", "clear", "delay10", "confirm", "delay100", "dead"}

ReceptionInit ==
  /\ rxMsgVector = <<>> /\ recvDone = FALSE /\ endOfImage = FALSE /\ rxNotified = FALSE
  /\ commPc = "take" /\ assembleCbor = FALSE /\ isEndOfImage = FALSE
  /\ batch = <<>> /\ stored = 0 /\ lastFrame = NoFrame
  /\ cameraFramesQueue = <<>> /\ lidarFramesQueue = 0
  /\ asmNotify = [pending |-> FALSE, msgIndex |-> 0, eoi |-> FALSE]

-------------------------------------------------------------------------------
\* recvHandler on a data frame: whatever its id, it clears m_endOfImage.
RecvData(f) ==
  /\ rxMsgVector' = Append(rxMsgVector, f)
  /\ endOfImage' = FALSE
  /\ UNCHANGED <<recvDone, rxNotified>>

\* Mutant: data[7] is not looked at.
RecvEndOfFrameAlwaysLast(eoi) ==
  endOfImage' = TRUE /\ recvDone' = TRUE /\ rxNotified' = TRUE /\ UNCHANGED rxMsgVector

\* recvHandler on what it takes for an end-of-frame marker; eoi is its data[7].
RecvEndOfFrame(eoi) ==
  /\ endOfImage' = eoi /\ recvDone' = TRUE /\ rxNotified' = TRUE
  /\ UNCHANGED rxMsgVector

-------------------------------------------------------------------------------
CommGoto(from, to) == commPc = from /\ commPc' = to

\* Mutant: receiveMsg does not wait for the notification.
TakeAtOnce ==
  /\ CommGoto("take", "readDone") /\ rxNotified' = FALSE
  /\ UNCHANGED <<rxMsgVector, recvDone, endOfImage, assembleCbor, isEndOfImage,
                 batch, stored, lastFrame, queueVars>>

\* Mutant: m_recvDone is reset before it is read.
TakeThenReset ==
  /\ CommGoto("take", "readDone") /\ rxNotified /\ rxNotified' = FALSE /\ recvDone' = FALSE
  /\ UNCHANGED <<rxMsgVector, endOfImage, assembleCbor, isEndOfImage, batch, stored, lastFrame, queueVars>>

\* receiveMsg: ulTaskNotifyTake(pdTRUE) empties the notification count.
Take ==
  /\ CommGoto("take", "readDone") /\ rxNotified /\ rxNotified' = FALSE
  /\ UNCHANGED <<rxMsgVector, recvDone, endOfImage, assembleCbor, isEndOfImage,
                 batch, stored, lastFrame, queueVars>>

\* assembleFrame = m_recvDone
ReadDone ==
  /\ CommGoto("readDone", "readEoi") /\ assembleCbor' = recvDone
  /\ UNCHANGED <<rxVars, isEndOfImage, batch, stored, lastFrame, queueVars>>

\* Mutant: the local flag keeps what an earlier call left in it.
ReadEoiSticky ==
  /\ CommGoto("readEoi", "resetDone") /\ isEndOfImage' = (isEndOfImage \/ endOfImage)
  /\ UNCHANGED <<rxVars, assembleCbor, batch, stored, lastFrame, queueVars>>

\* endOfImage = m_endOfImage
ReadEoi ==
  /\ CommGoto("readEoi", "resetDone") /\ isEndOfImage' = endOfImage
  /\ UNCHANGED <<rxVars, assembleCbor, batch, stored, lastFrame, queueVars>>

\* m_recvDone = false
ResetDone ==
  /\ CommGoto("resetDone", "copy") /\ recvDone' = FALSE
  /\ UNCHANGED <<rxMsgVector, endOfImage, rxNotified, assembleCbor, isEndOfImage,
                 batch, stored, lastFrame, queueVars>>

\* return m_rxMsgVector: the copy constructor starts reading the vector ...
CopyBegin ==
  /\ CommGoto("copy", "copying") /\ batch' = rxMsgVector /\ stored' = 0 /\ lastFrame' = NoFrame
  /\ UNCHANGED <<rxVars, assembleCbor, isEndOfImage, queueVars>>

\* ... and if the interrupt appended meanwhile, the copy may hold the old
\* contents, the new ones, or, when the append moved the array, old contents
\* whose first element was overwritten by the allocator.
Copies(old, new) ==
  IF old = new THEN {old} ELSE {old, new, [k \in DOMAIN old |-> IF k = 1 THEN [id |-> "other"] ELSE old[k]]}

CopyEnd ==
  /\ CommGoto("copying", IF assembleCbor THEN "store" ELSE "delay100")
  /\ batch' \in Copies(batch, rxMsgVector) /\ stored' = 0
  /\ UNCHANGED <<rxVars, assembleCbor, isEndOfImage, lastFrame, queueVars>>

\* storeMsg puts f into the queue of its CAN id; a full queue throws, nothing
\* catches it, and communicationTask ends in std::terminate.
StoreMsg(f) ==
  \/ /\ f.id = "camera" /\ Len(cameraFramesQueue) < FrameQueueLen
     /\ cameraFramesQueue' = Append(cameraFramesQueue, f)
     /\ UNCHANGED <<lidarFramesQueue, commPc>>
  \/ /\ f.id = "lidar" /\ lidarFramesQueue < LidarQueueLen
     /\ lidarFramesQueue' = lidarFramesQueue + 1
     /\ UNCHANGED <<cameraFramesQueue, commPc>>
  \/ /\ f.id \in {"other", "empty"}
     /\ UNCHANGED <<cameraFramesQueue, lidarFramesQueue, commPc>>
  \/ /\ \/ f.id = "camera" /\ Len(cameraFramesQueue) = FrameQueueLen
        \/ f.id = "lidar" /\ lidarFramesQueue = LidarQueueLen
     /\ commPc' = "dead"
     /\ UNCHANGED <<cameraFramesQueue, lidarFramesQueue>>

\* One turn of the loop over the copied frames.
Store ==
  /\ commPc = "store" /\ stored < Len(batch)
  /\ StoreMsg(batch[stored + 1])
  /\ stored' = stored + 1
  /\ lastFrame' = IF batch[stored + 1].id = "empty" THEN lastFrame ELSE batch[stored + 1]
  /\ UNCHANGED <<rxVars, assembleCbor, isEndOfImage, batch, asmNotify>>

StoreEnd ==
  /\ stored = Len(batch) /\ CommGoto("store", "complete")
  /\ UNCHANGED <<rxVars, assembleCbor, isEndOfImage, batch, stored, lastFrame, queueVars>>

\* Mutant: the assembler is notified only when the image ends.
CompletedFrameLastOnly ==
  /\ CommGoto("complete", "clear")
  /\ asmNotify' = IF lastFrame.id = "camera" /\ isEndOfImage
                  THEN [pending |-> TRUE, msgIndex |-> Byte0(lastFrame), eoi |-> TRUE]
                  ELSE asmNotify
  /\ UNCHANGED <<rxVars, assembleCbor, isEndOfImage, batch, stored, lastFrame,
                 cameraFramesQueue, lidarFramesQueue>>

\* completedFrame: only if the last frame stored is the camera's is the
\* assembler notified, overwriting a value it has not taken yet.
CompletedFrame ==
  /\ CommGoto("complete", "clear")
  /\ asmNotify' = IF lastFrame.id = "camera"
                  THEN [pending |-> TRUE, msgIndex |-> Byte0(lastFrame), eoi |-> isEndOfImage]
                  ELSE asmNotify
  /\ UNCHANGED <<rxVars, assembleCbor, isEndOfImage, batch, stored, lastFrame,
                 cameraFramesQueue, lidarFramesQueue>>

\* Mutant: the vector is not cleared.
ClearBufferForgotten ==
  /\ CommGoto("clear", "delay10") /\ batch' = <<>> /\ stored' = 0
  /\ UNCHANGED <<rxVars, assembleCbor, isEndOfImage, lastFrame, queueVars>>

\* clearBuffer empties the vector, whatever arrived since it was copied.
ClearBuffer ==
  /\ CommGoto("clear", "delay10") /\ rxMsgVector' = <<>> /\ batch' = <<>> /\ stored' = 0
  /\ UNCHANGED <<recvDone, endOfImage, rxNotified, assembleCbor, isEndOfImage,
                 lastFrame, queueVars>>

\* A vTaskDelay is over.
DelayOver ==
  /\ CommGoto("delay10", "confirm") \/ CommGoto("delay100", "take")
  /\ UNCHANGED <<rxVars, assembleCbor, isEndOfImage, batch, stored, lastFrame, queueVars>>

\* Mutant: the vector is cleared once more after the confirmation.
ConfirmThenClear ==
  /\ CommGoto("confirm", "clear")
  /\ UNCHANGED <<rxVars, assembleCbor, isEndOfImage, batch, stored, lastFrame, queueVars>>

\* transmitMsg(FRAME_CONFIRMATION), its result ignored; the loop starts over.
Confirm ==
  /\ CommGoto("confirm", "delay100")
  /\ UNCHANGED <<rxVars, assembleCbor, isEndOfImage, batch, stored, lastFrame, queueVars>>

\* The steps between two blocking calls.
CommStep ==
  \/ ReadDone \/ ReadEoi \/ ResetDone \/ CopyBegin \/ CopyEnd
  \/ Store \/ StoreEnd \/ CompletedFrame \/ ClearBuffer

\* communicationTask could run if no task of higher priority wanted to.  After
\* an uncaught exception it spins in abort() at its priority.
CommReady == commPc \notin {"take", "delay10", "delay100"} \/ (commPc = "take" /\ rxNotified)

\* communicationTask is between a taken notification and the confirmation.
CommBusy == commPc \notin {"take", "delay100", "dead"}

ReceptionTypeOK ==
  /\ rxMsgVector \in Seq(Frame)
  /\ recvDone \in BOOLEAN /\ endOfImage \in BOOLEAN /\ rxNotified \in BOOLEAN
  /\ commPc \in CommPcs
  /\ assembleCbor \in BOOLEAN /\ isEndOfImage \in BOOLEAN
  /\ batch \in Seq(Frame) /\ stored \in 0..Len(batch)
  /\ lastFrame \in Frame \cup {NoFrame}
  /\ cameraFramesQueue \in Seq(CameraFrame) /\ Len(cameraFramesQueue) <= FrameQueueLen
  /\ lidarFramesQueue \in 0..LidarQueueLen
  /\ asmNotify \in [pending : BOOLEAN, msgIndex : 0..255, eoi : BOOLEAN]
===============================================================================
