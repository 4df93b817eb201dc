------------------------- MODULE ImagePipeline_proofs -------------------------
(***************************************************************************)
(* Theorems about ImagePipeline, for every value of its constants.         *)
(***************************************************************************)
EXTENDS ImagePipeline, TLAPS

-------------------------------------------------------------------------------
(* Type correctness: one lemma per action.                                 *)

LEMMA Constants ==
    /\ Images \in Nat /\ Images >= 1 /\ Images <= 255
    /\ LastChunk \in Nat /\ LastChunk <= 63 /\ ChunksPerImage = LastChunk + 1
    /\ FramesPerChunk \in Nat /\ FramesPerChunk >= 1
    /\ MaxFaults \in Nat /\ MaxForeign \in Nat
  BY LinkAssumption DEF LastChunk

LEMMA TypeInit == Init => TypeOK
  <1> SUFFICES ASSUME Init PROVE TypeOK
    OBVIOUS
  <1>1. LinkInit => LinkTypeOK
    <2> SUFFICES ASSUME LinkInit PROVE LinkTypeOK
      OBVIOUS
    <2>1. /\ camImg = 1 /\ camChunk = 0 /\ camPos = 0 /\ faults = 0 /\ foreign = <<>>
          /\ damaged = {}
      BY DEF LinkInit
    <2>2. camWait \in BOOLEAN /\ ~camWait
      BY DEF LinkInit
    <2>3. QED
      BY <2>1, <2>2, Constants DEF LinkTypeOK
  <1>2. ReceptionInit => ReceptionTypeOK
    <2> SUFFICES ASSUME ReceptionInit PROVE ReceptionTypeOK
      OBVIOUS
    <2>1. /\ recvDone \in BOOLEAN /\ endOfImage \in BOOLEAN /\ rxNotified \in BOOLEAN
          /\ assembleCbor \in BOOLEAN /\ isEndOfImage \in BOOLEAN
      BY DEF ReceptionInit
    <2>2. asmNotify \in [pending : BOOLEAN, msgIndex : 0..255, eoi : BOOLEAN]
      BY DEF ReceptionInit
    <2>3. QED
      BY <2>1, <2>2, QueueAssumption DEF ReceptionInit, ReceptionTypeOK, CommPcs
  <1>3. SharedInit => SharedTypeOK
    <2> SUFFICES ASSUME SharedInit PROVE SharedTypeOK
      OBVIOUS
    <2>1. imgMutex \in BOOLEAN /\ clsNotified \in BOOLEAN
      BY DEF SharedInit
    <2>2. /\ sharedTop = <<>> /\ sharedBottom = <<>> /\ clsTop = <<>> /\ clsInput = <<<<>>, <<>>>>
          /\ sharedDims = "none" /\ clsPc = "wait"
      BY DEF SharedInit, NoImage
    <2>3. <<>> \in Picture
      BY DEF Picture
    <2>4. QED
      BY <2>1, <2>2, <2>3 DEF SharedTypeOK
  <1>4. AssemblerInit => AssemblerTypeOK
    <2> SUFFICES ASSUME AssemblerInit PROVE AssemblerTypeOK
      OBVIOUS
    <2>1. asmEoi \in BOOLEAN
      BY DEF AssemblerInit
    <2>2. /\ asmPc = "wait" /\ asmMsg = 0 /\ snapshots = <<>> /\ asmImageId = 0
          /\ asmPic = <<>> /\ asmKind = "unloadable"
      BY DEF AssemblerInit, NoImage
    <2>3. <<>> \in Picture /\ <<>> \in Seq(Chunk) /\ Len(<<>>) = 0
      BY DEF Picture
    <2>4. QED
      BY <2>1, <2>2, <2>3, Constants, SnapshotAssumption DEF AssemblerTypeOK
  <1>5. QED
    BY <1>1, <1>2, <1>3, <1>4 DEF Init, TypeOK

\* A bus step that leaves the tasks alone disturbs the receive variables at most.
LEMMA TypeTasks == TypeOK /\ UNCHANGED taskVars =>
    /\ SharedTypeOK' /\ AssemblerTypeOK' /\ everShown' \subseteq 1..Images
    /\ rxMsgVector' \in Seq(Frame) /\ recvDone' \in BOOLEAN /\ endOfImage' \in BOOLEAN
       /\ rxNotified' \in BOOLEAN => ReceptionTypeOK'
  BY DEF TypeOK, ReceptionTypeOK, SharedTypeOK, AssemblerTypeOK, taskVars, commVars, queueVars,
         sharedVars, clsVars, asmVars

LEMMA TypeFault == LinkTypeOK /\ ~CameraDone /\ (\E k \in FaultKinds : MayFault(k)) /\ Fault =>
    faults' \in 0..MaxFaults /\ damaged' \subseteq 1..Images
  BY LinkAssumption DEF LinkTypeOK, MayFault, Fault, CameraDone

LEMMA TypeSendFrame == ASSUME LinkTypeOK, NEW f \in CameraFrame, SendFrame(f)
  PROVE /\ camImg' \in 1..Images + 1 /\ camChunk' \in 0..LastChunk /\ camPos' \in 0..FramesPerChunk
        /\ camWait' \in BOOLEAN /\ (camWait' => ~CameraDone')
        /\ foreign' \in Seq(1..Images + 1) /\ Len(foreign') <= MaxForeign
  BY LinkAssumption DEF LinkTypeOK, SendFrame, CameraDone

LEMMA TypeRecvData == ASSUME ReceptionTypeOK, NEW f \in Frame, RecvData(f)
  PROVE /\ rxMsgVector' \in Seq(Frame)
        /\ recvDone' \in BOOLEAN /\ endOfImage' \in BOOLEAN /\ rxNotified' \in BOOLEAN
  <1>1. rxMsgVector' = Append(rxMsgVector, f) /\ rxMsgVector \in Seq(Frame)
    BY DEF RecvData, ReceptionTypeOK
  <1>2. rxMsgVector' \in Seq(Frame)
    BY <1>1
  <1>3. QED
    BY <1>2 DEF RecvData, ReceptionTypeOK

LEMMA TypeRecvEndOfFrame == ASSUME ReceptionTypeOK, NEW eoi \in BOOLEAN, RecvEndOfFrame(eoi)
  PROVE /\ rxMsgVector' \in Seq(Frame)
        /\ recvDone' \in BOOLEAN /\ endOfImage' \in BOOLEAN /\ rxNotified' \in BOOLEAN
  BY DEF ReceptionTypeOK, RecvEndOfFrame

LEMMA TypeCameraData == TypeOK /\ CameraData => TypeOK'
  <1> SUFFICES ASSUME TypeOK, CameraData PROVE TypeOK'
    OBVIOUS
  <1>1. PICK f \in CameraFrame :
          /\ SendFrame(f) /\ UNCHANGED taskVars
          /\ \/ ~f.ff /\ RecvData(f) /\ NoFault
             \/ f.ff /\ RecvData(f) /\ MayFault("trailingFF") /\ Fault
             \/ ~f.ff /\ (\E eoi \in BOOLEAN : RecvEndOfFrame(eoi)) /\ MayFault("marker") /\ Fault
    BY DEF CameraData
  <1>2. ~CameraDone /\ LinkTypeOK /\ ReceptionTypeOK /\ f \in Frame
    BY <1>1 DEF SendFrame, TypeOK, Frame
  <1>3. faults' \in 0..MaxFaults /\ damaged' \subseteq 1..Images
    <2>1. CASE NoFault
      BY <1>2, <2>1 DEF NoFault, LinkTypeOK
    <2>2. CASE (MayFault("trailingFF") \/ MayFault("marker")) /\ Fault
      BY <1>2, <2>2, TypeFault DEF MayFault
    <2>3. QED
      BY <1>1, <2>1, <2>2
  <1>4. LinkTypeOK'
    BY <1>1, <1>2, <1>3, TypeSendFrame DEF LinkTypeOK, LastChunk
  <1>5. ReceptionTypeOK' /\ SharedTypeOK' /\ AssemblerTypeOK' /\ everShown' \subseteq 1..Images
    BY <1>1, <1>2, TypeRecvData, TypeRecvEndOfFrame, TypeTasks
  <1>6. QED
    BY <1>4, <1>5 DEF TypeOK

LEMMA TypeSendEndOfFrame == LinkTypeOK /\ SendEndOfFrame =>
    /\ camImg' \in 1..Images + 1 /\ camChunk' \in 0..LastChunk /\ camPos' \in 0..FramesPerChunk
    /\ camWait' \in BOOLEAN /\ (camWait' => ~CameraDone')
    /\ foreign' \in Seq(1..Images + 1) /\ Len(foreign') <= MaxForeign
  BY DEF LinkTypeOK, SendEndOfFrame, CameraDone

LEMMA TypeCameraEndOfFrame == TypeOK /\ CameraEndOfFrame => TypeOK'
  <1> SUFFICES ASSUME TypeOK, CameraEndOfFrame PROVE TypeOK'
    OBVIOUS
  <1>1. LinkTypeOK'
    BY TypeSendEndOfFrame DEF CameraEndOfFrame, TypeOK, LinkTypeOK, NoFault, LastChunk
  <1>2. /\ rxMsgVector' \in Seq(Frame)
        /\ recvDone' \in BOOLEAN /\ endOfImage' \in BOOLEAN /\ rxNotified' \in BOOLEAN
    BY DEF CameraEndOfFrame, TypeOK, ReceptionTypeOK, RecvEndOfFrame, IsLast
  <1>3. QED
    BY <1>1, <1>2, TypeTasks DEF TypeOK, CameraEndOfFrame

LEMMA TypeLoseFrame == TypeOK /\ LoseFrame => TypeOK'
  <1> SUFFICES ASSUME TypeOK, LoseFrame PROVE TypeOK'
    OBVIOUS
  <1>1. ~CameraDone /\ LinkTypeOK
    BY DEF LoseFrame, SendEndOfFrame, SendFrame, TypeOK
  <1>2. faults' \in 0..MaxFaults /\ damaged' \subseteq 1..Images
    BY <1>1, TypeFault DEF LoseFrame, MayFault
  <1>3. LinkTypeOK'
    <2>1. CASE SendEndOfFrame
      BY <1>1, <1>2, <2>1, TypeSendEndOfFrame DEF LinkTypeOK, LastChunk
    <2>2. CASE \E f \in CameraFrame : ~f.ff /\ SendFrame(f)
      BY <1>1, <1>2, <2>2, TypeSendFrame DEF LinkTypeOK, LastChunk
    <2>3. QED
      BY <2>1, <2>2 DEF LoseFrame
  <1>4. /\ rxMsgVector' \in Seq(Frame)
        /\ recvDone' \in BOOLEAN /\ endOfImage' \in BOOLEAN /\ rxNotified' \in BOOLEAN
    BY DEF LoseFrame, TypeOK, ReceptionTypeOK, rxVars
  <1>5. QED
    BY <1>3, <1>4, TypeTasks DEF TypeOK, LoseFrame

LEMMA TypeOtherNode == TypeOK /\ OtherNode => TypeOK'
  <1> SUFFICES ASSUME TypeOK, OtherNode PROVE TypeOK'
    OBVIOUS
  <1>1. PICK id \in ForeignIds :
          /\ Len(foreign) < MaxForeign /\ foreign' = Append(foreign, camImg)
          /\ IF id = "short" THEN \E eoi \in BOOLEAN : RecvEndOfFrame(eoi) ELSE RecvData([id |-> id])
          /\ UNCHANGED <<camImg, camChunk, camPos, camWait, faults, damaged, taskVars>>
    BY DEF OtherNode
  <1>2. LinkTypeOK'
    <2>1. foreign \in Seq(1..Images + 1) /\ camImg \in 1..Images + 1
      BY DEF TypeOK, LinkTypeOK
    <2>2. foreign' \in Seq(1..Images + 1) /\ Len(foreign') = Len(foreign) + 1
      BY <1>1, <2>1
    <2>3. Len(foreign') <= MaxForeign
      BY <1>1, <2>1, <2>2, Constants
    <2>4. QED
      BY <1>1, <2>2, <2>3 DEF TypeOK, LinkTypeOK, CameraDone, LastChunk
  <1>3. id # "short" => [id |-> id] \in Frame
    BY LinkAssumption DEF Frame, ForeignFrame
  <1>4. ReceptionTypeOK
    BY DEF TypeOK
  <1>5. /\ rxMsgVector' \in Seq(Frame)
        /\ recvDone' \in BOOLEAN /\ endOfImage' \in BOOLEAN /\ rxNotified' \in BOOLEAN
    BY <1>1, <1>3, <1>4, TypeRecvData, TypeRecvEndOfFrame
  <1>6. QED
    BY <1>1, <1>2, <1>5, TypeTasks DEF TypeOK

\* Where the camera may stand once a chunk is done with, or sent again.
LEMMA AdvanceType == LinkTypeOK /\ camWait /\ (Advance \/ Resend) =>
    /\ camImg' \in 1..Images + 1 /\ camChunk' \in 0..LastChunk /\ camPos' \in 0..FramesPerChunk
    /\ camWait' \in BOOLEAN /\ (camWait' => ~CameraDone')
    /\ foreign' \in Seq(1..Images + 1) /\ Len(foreign') <= MaxForeign
  <1> SUFFICES ASSUME LinkTypeOK, camWait, Advance \/ Resend
               PROVE  /\ camImg' \in 1..Images + 1 /\ camChunk' \in 0..LastChunk
                      /\ camPos' \in 0..FramesPerChunk
                      /\ camWait' = FALSE
                      /\ foreign' \in Seq(1..Images + 1) /\ Len(foreign') <= MaxForeign
    OBVIOUS
  <1>1. /\ Images \in Nat /\ LastChunk \in Nat /\ FramesPerChunk \in Nat
        /\ camImg \in 1..Images /\ camChunk \in 0..LastChunk
    BY LinkAssumption DEF LinkTypeOK, CameraDone, LastChunk
  <1>2. CASE Resend
    BY <1>1, <1>2 DEF Resend, LinkTypeOK
  <1>3. CASE Advance
    BY <1>1, <1>3 DEF Advance, LinkTypeOK, IsLast
  <1>4. QED
    BY <1>2, <1>3

\* A part whose variables a step leaves alone keeps its type.
LEMMA TypeUnchanged == TypeOK =>
    /\ UNCHANGED linkVars => LinkTypeOK'
    /\ UNCHANGED <<rxVars, commVars, queueVars>> => ReceptionTypeOK'
    /\ UNCHANGED <<sharedVars, clsVars>> => SharedTypeOK'
    /\ UNCHANGED asmVars => AssemblerTypeOK'
  <1> SUFFICES ASSUME TypeOK PROVE
        /\ UNCHANGED linkVars => LinkTypeOK'
        /\ UNCHANGED <<rxVars, commVars, queueVars>> => ReceptionTypeOK'
        /\ UNCHANGED <<sharedVars, clsVars>> => SharedTypeOK'
        /\ UNCHANGED asmVars => AssemblerTypeOK'
    OBVIOUS
  <1>1. UNCHANGED linkVars => LinkTypeOK'
    BY DEF TypeOK, LinkTypeOK, linkVars, CameraDone, LastChunk
  <1>2. UNCHANGED <<rxVars, commVars, queueVars>> => ReceptionTypeOK'
    BY DEF TypeOK, ReceptionTypeOK, rxVars, commVars, queueVars
  <1>3. UNCHANGED <<sharedVars, clsVars>> => SharedTypeOK'
    BY DEF TypeOK, SharedTypeOK, sharedVars, clsVars
  <1>4. UNCHANGED asmVars => AssemblerTypeOK'
    BY DEF TypeOK, AssemblerTypeOK, asmVars
  <1>5. QED
    BY <1>1, <1>2, <1>3, <1>4

LEMMA TypeCameraTimeout == TypeOK /\ CameraTimeout => TypeOK'
  <1> SUFFICES ASSUME TypeOK, CameraTimeout PROVE TypeOK'
    OBVIOUS
  <1>1. LinkTypeOK /\ ~CameraDone
    BY DEF TypeOK, CameraTimeout, LinkTypeOK
  <1>2. faults' \in 0..MaxFaults /\ damaged' \subseteq 1..Images
    <2>1. CASE NoFault
      BY <1>1, <2>1 DEF NoFault, LinkTypeOK
    <2>2. CASE MayFault("impatient") /\ Fault
      BY <1>1, <2>2, TypeFault DEF MayFault
    <2>3. QED
      BY <2>1, <2>2 DEF CameraTimeout
  <1>3. LinkTypeOK'
    BY <1>1, <1>2, AdvanceType DEF CameraTimeout, LinkTypeOK
  <1>4. /\ rxMsgVector' \in Seq(Frame)
        /\ recvDone' \in BOOLEAN /\ endOfImage' \in BOOLEAN /\ rxNotified' \in BOOLEAN
    BY DEF CameraTimeout, TypeOK, ReceptionTypeOK, rxVars
  <1>5. QED
    BY <1>3, <1>4, TypeTasks DEF TypeOK, CameraTimeout

LEMMA TypeTake == ReceptionTypeOK /\ Take => ReceptionTypeOK'
  <1> SUFFICES ASSUME ReceptionTypeOK, Take PROVE ReceptionTypeOK'
    OBVIOUS
  <1>1. rxNotified' \in BOOLEAN
    BY DEF Take
  <1>2. QED
    BY <1>1 DEF Take, CommGoto, ReceptionTypeOK, CommPcs, queueVars

\* storeMsg keeps both queues within their lengths.
LEMMA TypeStoreMsg == ASSUME ReceptionTypeOK, NEW f \in Frame, StoreMsg(f), commPc = "store"
  PROVE /\ cameraFramesQueue' \in Seq(CameraFrame) /\ Len(cameraFramesQueue') <= FrameQueueLen
        /\ lidarFramesQueue' \in 0..LidarQueueLen
        /\ commPc' \in CommPcs
  <1>1. /\ FrameQueueLen \in Nat /\ LidarQueueLen \in Nat
        /\ cameraFramesQueue \in Seq(CameraFrame) /\ Len(cameraFramesQueue) <= FrameQueueLen
        /\ lidarFramesQueue \in 0..LidarQueueLen
    BY QueueAssumption DEF ReceptionTypeOK
  <1>2. CASE /\ f.id = "camera" /\ Len(cameraFramesQueue) < FrameQueueLen
             /\ cameraFramesQueue' = Append(cameraFramesQueue, f)
             /\ UNCHANGED <<lidarFramesQueue, commPc>>
    <2>1. f \in CameraFrame
      BY <1>2 DEF Frame, ForeignFrame
    <2>2. cameraFramesQueue' \in Seq(CameraFrame) /\ Len(cameraFramesQueue') = Len(cameraFramesQueue) + 1
      BY <1>1, <1>2, <2>1
    <2>3. QED
      BY <1>1, <1>2, <2>2 DEF CommPcs
  <1>3. CASE /\ f.id = "lidar" /\ lidarFramesQueue < LidarQueueLen
             /\ lidarFramesQueue' = lidarFramesQueue + 1
             /\ UNCHANGED <<cameraFramesQueue, commPc>>
    BY <1>1, <1>3 DEF CommPcs
  <1>4. CASE UNCHANGED <<cameraFramesQueue, lidarFramesQueue>> /\ commPc' \in {commPc, "dead"}
    BY <1>1, <1>4 DEF CommPcs
  <1>5. QED
    BY <1>2, <1>3, <1>4 DEF StoreMsg

LEMMA TypeCommStep == ReceptionTypeOK /\ CommStep => ReceptionTypeOK'
  <1> SUFFICES ASSUME ReceptionTypeOK, CommStep PROVE ReceptionTypeOK'
    OBVIOUS
  <1>1. CASE ReadDone
    BY <1>1 DEF ReadDone, CommGoto, ReceptionTypeOK, CommPcs, rxVars, queueVars
  <1>2. CASE ReadEoi
    BY <1>2 DEF ReadEoi, CommGoto, ReceptionTypeOK, CommPcs, rxVars, queueVars
  <1>3. CASE ResetDone
    <2>1. recvDone' \in BOOLEAN
      BY <1>3 DEF ResetDone
    <2>2. QED
      BY <1>3, <2>1 DEF ResetDone, CommGoto, ReceptionTypeOK, CommPcs, queueVars
  <1>4. CASE CopyBegin
    BY <1>4 DEF CopyBegin, CommGoto, ReceptionTypeOK, CommPcs, rxVars, queueVars
  <1>5. CASE CopyEnd
    <2> DEFINE moved == [k \in DOMAIN batch |-> IF k = 1 THEN [id |-> "other"] ELSE batch[k]]
    <2>1. moved \in Seq(Frame)
      <3>1. batch \in Seq(Frame) /\ Len(batch) \in Nat /\ DOMAIN batch = 1..Len(batch)
        BY DEF ReceptionTypeOK
      <3>2. [id |-> "other"] \in Frame
        BY DEF Frame, ForeignFrame
      <3>3. \A k \in 1..Len(batch) : moved[k] \in Frame
        BY <3>1, <3>2
      <3>4. QED
        BY <3>1, <3>3
    <2>2. batch' \in {batch, rxMsgVector, moved} /\ stored' = 0
      BY <1>5 DEF CopyEnd, Copies
    <2> HIDE DEF moved
    <2>3. batch' \in Seq(Frame) /\ stored' \in 0..Len(batch')
      BY <2>1, <2>2 DEF ReceptionTypeOK
    <2>4. QED
      BY <1>5, <2>3 DEF CopyEnd, CommGoto, ReceptionTypeOK, CommPcs, rxVars, queueVars
  <1>6. CASE Store
    <2>1. batch[stored + 1] \in Frame /\ commPc = "store"
      BY <1>6 DEF Store, ReceptionTypeOK
    <2>2. /\ cameraFramesQueue' \in Seq(CameraFrame) /\ Len(cameraFramesQueue') <= FrameQueueLen
          /\ lidarFramesQueue' \in 0..LidarQueueLen /\ commPc' \in CommPcs
      BY <1>6, <2>1, TypeStoreMsg DEF Store
    <2>3. lastFrame' \in Frame \cup {NoFrame} /\ stored' \in 0..Len(batch)
      BY <1>6, <2>1 DEF Store, ReceptionTypeOK
    <2>4. QED
      BY <1>6, <2>2, <2>3 DEF Store, ReceptionTypeOK, rxVars
  <1>7. CASE StoreEnd
    BY <1>7 DEF StoreEnd, CommGoto, ReceptionTypeOK, CommPcs, rxVars, queueVars
  <1>8. CASE CompletedFrame
    <2>1. lastFrame.id = "camera" => Byte0(lastFrame) \in 0..255
      <3>1. lastFrame.id = "camera" => lastFrame \in CameraFrame
        BY DEF ReceptionTypeOK, Frame, ForeignFrame, NoFrame
      <3>2. QED
        BY <3>1, Constants DEF CameraFrame, Byte0, LastChunk
    <2>2. asmNotify' \in [pending : BOOLEAN, msgIndex : 0..255, eoi : BOOLEAN]
      BY <1>8, <2>1 DEF CompletedFrame, ReceptionTypeOK
    <2>3. QED
      BY <1>8, <2>2 DEF CompletedFrame, CommGoto, ReceptionTypeOK, CommPcs, rxVars
  <1>9. CASE ClearBuffer
    BY <1>9 DEF ClearBuffer, CommGoto, ReceptionTypeOK, CommPcs, queueVars
  <1>10. QED
    BY <1>1, <1>2, <1>3, <1>4, <1>5, <1>6, <1>7, <1>8, <1>9 DEF CommStep

LEMMA TypeComm == TypeOK /\ Comm => TypeOK'
  <1> SUFFICES ASSUME TypeOK, Comm PROVE TypeOK'
    OBVIOUS
  <1>1. LinkTypeOK /\ ReceptionTypeOK
    BY DEF TypeOK
  <1>2. UNCHANGED <<sharedVars, clsVars, asmVars, everShown>>
    BY DEF Comm, CommTake, CommRun, CommTick, CommConfirm
  <1>3. ReceptionTypeOK'
    <2>1. CASE CommTake
      BY <1>1, <2>1, TypeTake DEF CommTake
    <2>2. CASE CommRun
      BY <1>1, <2>2, TypeCommStep DEF CommRun
    <2>3. CASE CommTick
      BY <2>3 DEF TypeOK, CommTick, DelayOver, CommGoto, ReceptionTypeOK, CommPcs, rxVars, queueVars
    <2>4. CASE CommConfirm
      BY <2>4 DEF TypeOK, CommConfirm, Confirm, CommGoto, ReceptionTypeOK, CommPcs, rxVars, queueVars
    <2>5. QED
      BY <2>1, <2>2, <2>3, <2>4 DEF Comm
  <1>4. LinkTypeOK'
    <2>1. CASE UNCHANGED linkVars
      BY <2>1, TypeUnchanged
    <2>2. CASE CommConfirm /\ camWait /\ Confirmed /\ NoFault
      BY <1>1, <2>2, AdvanceType DEF Confirmed, NoFault, LinkTypeOK
    <2>3. CASE CommConfirm /\ ~camWait /\ Confirmed /\ NoFault
      BY <2>3, TypeUnchanged DEF Confirmed, NoFault, linkVars
    <2>4. CASE CommConfirm /\ MayFault("loss") /\ camWait /\ Fault
               /\ UNCHANGED <<camImg, camChunk, camPos, camWait, foreign>>
      <3>1. ~CameraDone
        BY <1>1, <2>4 DEF LinkTypeOK
      <3>2. faults' \in 0..MaxFaults /\ damaged' \subseteq 1..Images
        BY <1>1, <2>4, <3>1, TypeFault DEF MayFault
      <3>3. QED
        BY <1>1, <2>4, <3>2 DEF LinkTypeOK, CameraDone, LastChunk
    <2>5. QED
      BY <2>1, <2>2, <2>3, <2>4 DEF Comm, CommTake, CommRun, CommTick, CommConfirm
  <1>5. QED
    BY <1>2, <1>3, <1>4, TypeUnchanged DEF TypeOK

LEMMA QueuedType == TypeOK => Queued \subseteq Chunk
  <1> SUFFICES ASSUME TypeOK, NEW k \in 1..Len(cameraFramesQueue)
               PROVE  [img |-> cameraFramesQueue[k].img, chunk |-> cameraFramesQueue[k].chunk] \in Chunk
    BY DEF Queued
  <1>1. cameraFramesQueue[k] \in CameraFrame
    BY DEF TypeOK, ReceptionTypeOK
  <1>2. QED
    BY <1>1 DEF CameraFrame, Chunk

LEMMA TypeAsm == TypeOK /\ Asm => TypeOK'
  <1> SUFFICES ASSUME TypeOK, Asm PROVE TypeOK'
    OBVIOUS
  <1>1. LinkTypeOK'
    BY TypeUnchanged DEF Asm, AsmTakes, AsmFrame, AsmImage, AsmPublish
  <1>2. ReceptionTypeOK /\ SharedTypeOK /\ AssemblerTypeOK
    BY DEF TypeOK
  <1>3. CASE AsmTakes
    <2>1. asmNotify' \in [pending : BOOLEAN, msgIndex : 0..255, eoi : BOOLEAN]
      BY <1>2, <1>3 DEF AsmTakes, AsmWait, ReceptionTypeOK
    <2>2. ReceptionTypeOK'
      BY <1>3, <2>1 DEF TypeOK, AsmTakes, AsmWait, ReceptionTypeOK, rxVars, commVars
    <2>3. AssemblerTypeOK'
      BY <1>2, <1>3 DEF AsmTakes, AsmWait, AsmGoto, AssemblerTypeOK, ReceptionTypeOK
    <2>4. QED
      BY <1>1, <1>3, <2>2, <2>3, TypeUnchanged DEF TypeOK, AsmTakes
  <1>4. CASE AsmFrame
    <2>1. ReceptionTypeOK'
      BY <1>4, QueueAssumption DEF TypeOK, AsmFrame, AssembleFrame, ReceptionTypeOK, rxVars, commVars
    <2>2. AssemblerTypeOK'
      <3>1. CASE \E c \in Chunk :
              /\ snapshots' = IF Len(snapshots) < SnapshotQueueLen THEN Append(snapshots, c) ELSE snapshots
              /\ asmImageId' = c.img
              /\ asmPc' = IF asmEoi THEN "image" ELSE "wait"
        <4>1. PICK c \in Chunk :
                /\ snapshots' = IF Len(snapshots) < SnapshotQueueLen THEN Append(snapshots, c) ELSE snapshots
                /\ asmImageId' = c.img
                /\ asmPc' = IF asmEoi THEN "image" ELSE "wait"
          BY <3>1
        <4>2. snapshots' \in Seq(Chunk) /\ Len(snapshots') <= SnapshotQueueLen
          BY <1>2, <4>1, SnapshotAssumption DEF AssemblerTypeOK
        <4>3. asmImageId' \in 1..Images /\ asmPc' \in {"image", "wait"}
          BY <4>1 DEF Chunk
        <4>4. QED
          BY <1>2, <1>4, <4>2, <4>3, Constants DEF AsmFrame, AssembleFrame, AssemblerTypeOK
      <3>2. CASE asmPc' = "wait" /\ UNCHANGED <<snapshots, asmImageId>>
        BY <1>2, <1>4, <3>2 DEF AsmFrame, AssembleFrame, AssemblerTypeOK
      <3>3. QED
        BY <1>4, <3>1, <3>2, QueuedType DEF AsmFrame, AssembleFrame
    <2>3. QED
      BY <1>1, <1>4, <2>1, <2>2, TypeUnchanged DEF TypeOK, AsmFrame
  <1>5. CASE AsmImage
    <2>1. snapshots' \in Seq(Chunk) /\ Len(snapshots') <= SnapshotQueueLen
      BY <1>5, SnapshotAssumption DEF AsmImage, AssembleImage
    <2>2. /\ asmPc' \in {"wait", "publish"} /\ asmPic' \in Picture
          /\ asmKind' \in {"expected", "small", "oversize", "unloadable"}
          /\ asmPc' = "publish" => asmKind' # "unloadable" /\ asmImageId # 0
      BY <1>2, <1>5, KindAssumption DEF AsmImage, AssembleImage, AssemblerTypeOK, Picture
    <2>3. AssemblerTypeOK'
      BY <1>2, <1>5, <2>1, <2>2 DEF AsmImage, AssembleImage, AssemblerTypeOK
    <2>4. QED
      BY <1>1, <1>5, <2>3, TypeUnchanged DEF TypeOK, AsmImage, AssembleImage
  <1>6. CASE AsmPublish
    <2>1. clsNotified' \in BOOLEAN
      BY <1>6 DEF AsmPublish, Publish
    <2>2. imgMutex' \in BOOLEAN
      BY <1>2, <1>6 DEF AsmPublish, Publish, SetImage, SharedTypeOK
    <2>3. /\ sharedDims' \in {"none", "expected", "small"}
          /\ sharedTop' \in Picture /\ sharedBottom' \in Picture
      BY <1>2, <1>6 DEF AsmPublish, Publish, AsmGoto, SetImage, SharedTypeOK, AssemblerTypeOK
    <2>4. SharedTypeOK'
      BY <1>2, <1>6, <2>1, <2>2, <2>3 DEF AsmPublish, SharedTypeOK
    <2>5. AssemblerTypeOK'
      BY <1>2, <1>6 DEF AsmPublish, Publish, AsmGoto, AssemblerTypeOK
    <2>6. everShown' \subseteq 1..Images
      BY <1>2, <1>6 DEF AsmPublish, Publish, AsmGoto, AssemblerTypeOK, TypeOK
    <2>7. QED
      BY <1>1, <1>6, <2>4, <2>5, <2>6, TypeUnchanged DEF TypeOK, AsmPublish, Publish
  <1>7. QED
    BY <1>3, <1>4, <1>5, <1>6 DEF Asm

LEMMA TypeClsRun == TypeOK /\ ClsRun => TypeOK'
  <1> SUFFICES ASSUME TypeOK, ClsRun PROVE TypeOK'
    OBVIOUS
  <1>1. LinkTypeOK' /\ ReceptionTypeOK' /\ AssemblerTypeOK' /\ everShown' \subseteq 1..Images
    BY TypeUnchanged DEF ClsRun, TypeOK
  <1>2. SharedTypeOK /\ ClsStep
    BY DEF TypeOK, ClsRun
  <1>3. clsNotified' \in BOOLEAN /\ imgMutex' \in BOOLEAN
    BY <1>2 DEF SharedTypeOK, ClsStep, ClsTake, ClsLock, ClsDims, ClsTop, ClsBottom, sharedVars
  <1>4. /\ sharedDims' = sharedDims /\ sharedTop' = sharedTop /\ sharedBottom' = sharedBottom
        /\ clsTop' \in Picture /\ clsInput' \in Picture \X Picture
        /\ clsPc' \in {"wait", "lock", "dims", "top", "bottom"}
    BY <1>2 DEF SharedTypeOK, ClsStep, ClsTake, ClsLock, ClsDims, ClsTop, ClsBottom, ClsGoto, sharedVars
  <1>5. QED
    BY <1>1, <1>2, <1>3, <1>4 DEF TypeOK, SharedTypeOK

LEMMA TypeStep == TypeOK /\ [Next]_vars => TypeOK'
  <1> SUFFICES ASSUME TypeOK, [Next]_vars PROVE TypeOK'
    OBVIOUS
  <1>1. CASE Bus
    BY <1>1, TypeCameraData, TypeCameraEndOfFrame, TypeLoseFrame, TypeOtherNode, TypeCameraTimeout DEF Bus
  <1>2. CASE Comm
    BY <1>2, TypeComm
  <1>3. CASE Asm
    BY <1>3, TypeAsm
  <1>4. CASE ClsRun
    BY <1>4, TypeClsRun
  <1>5. CASE UNCHANGED vars
    BY <1>5, TypeUnchanged DEF vars, TypeOK
  <1>6. QED
    BY <1>1, <1>2, <1>3, <1>4, <1>5 DEF Next

\* Every reachable state has the declared shape, and no queue ever holds more
\* than its length: storeMsg and assembleFrame never write past a full queue.
THEOREM TypeCorrect == Spec => []TypeOK
  <1>1. QED
    BY TypeInit, TypeStep, PTL DEF Spec

-------------------------------------------------------------------------------
(* The classifier.  IdleIsCurrent is not inductive: a classifier that goes  *)
(* to sleep must not have missed a publication, which the notification      *)
(* given after every one tells it.                                          *)

ClassifierInv ==
  /\ sharedTop = sharedBottom
  /\ clsPc = "bottom" /\ ~clsNotified => clsTop = sharedTop
  /\ IdleIsCurrent

LEMMA ClassifierInvInit == Init => ClassifierInv
  BY DEF Init, SharedInit, ClassifierInv, IdleIsCurrent

LEMMA ClassifierInvElsewhere == ClassifierInv /\ UNCHANGED <<sharedVars, clsVars>> => ClassifierInv'
  BY DEF ClassifierInv, IdleIsCurrent, sharedVars, clsVars

LEMMA ClassifierInvStep == TypeOK /\ ClassifierInv /\ [Next]_vars => ClassifierInv'
  <1> SUFFICES ASSUME TypeOK, ClassifierInv, [Next]_vars PROVE ClassifierInv'
    OBVIOUS
  <1>1. CASE Bus
    BY <1>1, ClassifierInvElsewhere
    DEF Bus, CameraData, CameraEndOfFrame, LoseFrame, OtherNode, CameraTimeout, taskVars
  <1>2. CASE Comm
    BY <1>2, ClassifierInvElsewhere DEF Comm, CommTake, CommRun, CommTick, CommConfirm
  <1>3. CASE AsmTakes \/ AsmFrame \/ AsmImage
    BY <1>3, ClassifierInvElsewhere DEF AsmTakes, AsmFrame, AsmImage
  <1>4. CASE AsmPublish
    <2>1. CASE asmKind = "oversize"
      <3>1. UNCHANGED <<sharedDims, sharedTop, sharedBottom, clsPc, clsTop, clsInput>>
        BY <1>4, <2>1 DEF AsmPublish, Publish, SetImage
      <3>2. clsNotified' = clsNotified
        BY <1>4, <2>1 DEF AsmPublish, Publish, TypeOK, SharedTypeOK
      <3>3. QED
        BY <3>1, <3>2 DEF ClassifierInv, IdleIsCurrent
    <2>2. CASE asmKind # "oversize"
      <3>1. sharedTop' = sharedBottom'
        BY <1>4, <2>2 DEF AsmPublish, Publish, SetImage
      <3>2. clsNotified'
        BY <1>4, <2>2 DEF AsmPublish, Publish
      <3>3. QED
        BY <3>1, <3>2 DEF ClassifierInv, IdleIsCurrent
    <2>3. QED
      BY <2>1, <2>2
  <1>5. CASE ClsRun
    <2>1. UNCHANGED <<sharedDims, sharedTop, sharedBottom>>
      BY <1>5 DEF ClsRun, ClsStep, ClsTake, ClsLock, ClsDims, ClsTop, ClsBottom, sharedVars
    <2>2. CASE ClsTake \/ ClsLock
      BY <2>1, <2>2 DEF ClsTake, ClsLock, ClsGoto, ClassifierInv, IdleIsCurrent
    <2>3. CASE ClsDims
      BY <2>1, <2>3 DEF ClsDims, ClsGoto, ClassifierInv, IdleIsCurrent
    <2>4. CASE ClsTop
      BY <2>1, <2>4 DEF ClsTop, ClsGoto, ClassifierInv, IdleIsCurrent
    <2>5. CASE ClsBottom
      BY <2>1, <2>5 DEF ClsBottom, ClsGoto, ClassifierInv, IdleIsCurrent
    <2>6. QED
      BY <1>5, <2>2, <2>3, <2>4, <2>5 DEF ClsRun, ClsStep
  <1>6. CASE UNCHANGED vars
    BY <1>6, ClassifierInvElsewhere DEF vars
  <1>7. QED
    BY <1>1, <1>2, <1>3, <1>4, <1>5, <1>6 DEF Next, Asm

\* Whatever the bus, the camera and the other nodes do, a classifier that sleeps
\* has classified the image on show, and pixels it read while a new image was
\* written over them are read again.
THEOREM ClassifierIsCurrent == Spec => []IdleIsCurrent
  <1>1. Spec => []ClassifierInv
    BY ClassifierInvInit, ClassifierInvStep, TypeCorrect, PTL DEF Spec
  <1>2. ClassifierInv => IdleIsCurrent
    BY DEF ClassifierInv
  <1>3. QED
    BY <1>1, <1>2, PTL

-------------------------------------------------------------------------------
(* The handshake between camera and communicationTask, and the whole image. *)

\* Nothing is lost or misread, and the camera waits for its answer; texts may
\* end in 0xFF, and other nodes may send at any time.
Orderly == FaultKinds \subseteq {"trailingFF"} /\ "short" \notin ForeignIds

\* f, if it is the camera's, belongs to the chunk the camera is at.
OfCurrent(f) == f.id = "camera" => f.img = camImg /\ f.chunk = camChunk

AllOfCurrent(s) == \A k \in 1..Len(s) : OfCurrent(s[k])

\* While communicationTask works on a chunk the camera stands still, so what it
\* reads without a lock, piece by piece, is all of that chunk.
HandshakeInv ==
  /\ AllOfCurrent(rxMsgVector)
  /\ commPc \in {"delay10", "confirm"} => \A k \in 1..Len(rxMsgVector) : rxMsgVector[k].id # "camera"
  /\ camWait /\ endOfImage => IsLast
  /\ CommBusy => camWait /\ ~rxNotified
  /\ rxNotified => camWait /\ recvDone
  /\ commPc = "readDone" => recvDone
  /\ CommBusy /\ commPc # "readDone" => assembleCbor
  /\ WaitingIsAnswered
  /\ commPc \in {"resetDone", "copy", "copying", "store", "complete"} /\ isEndOfImage => IsLast
  /\ commPc \in {"copying", "store", "complete"} => AllOfCurrent(batch) /\ OfCurrent(lastFrame)

LEMMA HandshakeInit == Init => HandshakeInv
  <1> SUFFICES ASSUME Init PROVE HandshakeInv
    OBVIOUS
  <1>1. /\ rxMsgVector = <<>> /\ commPc = "take" /\ ~rxNotified /\ ~camWait /\ ~endOfImage
    BY DEF Init, LinkInit, ReceptionInit
  <1>2. QED
    BY <1>1 DEF HandshakeInv, AllOfCurrent, CommBusy, WaitingIsAnswered

LEMMA HandshakeElsewhere == HandshakeInv /\ UNCHANGED <<linkVars, rxVars, commVars>> => HandshakeInv'
  BY DEF HandshakeInv, AllOfCurrent, OfCurrent, IsLast, LastChunk, CommBusy, WaitingIsAnswered, Unanswered,
         linkVars, rxVars, commVars

\* Appending a frame of the current chunk, or another node's, keeps the vector current.
LEMMA AppendOfCurrent ==
  ASSUME TypeOK, AllOfCurrent(rxMsgVector), NEW f \in Frame, OfCurrent(f), RecvData(f),
         UNCHANGED <<camImg, camChunk>>
  PROVE  AllOfCurrent(rxMsgVector)'
  <1>1. rxMsgVector \in Seq(Frame) /\ rxMsgVector' = Append(rxMsgVector, f)
    BY DEF TypeOK, ReceptionTypeOK, RecvData
  <1>2. ASSUME NEW k \in 1..Len(rxMsgVector')
        PROVE  rxMsgVector'[k] = f \/ (k \in 1..Len(rxMsgVector) /\ rxMsgVector'[k] = rxMsgVector[k])
    BY <1>1
  <1>3. QED
    BY <1>2 DEF AllOfCurrent, OfCurrent

LEMMA HandshakeBus == ASSUME Orderly, TypeOK, HandshakeInv, Bus PROVE HandshakeInv'
  <1>1. CASE CameraData
    <2>1. PICK f \in CameraFrame : SendFrame(f) /\ RecvData(f) /\ UNCHANGED taskVars
      BY <1>1 DEF CameraData, MayFault, Orderly
    <2>2. OfCurrent(f) /\ f \in Frame /\ ~camWait /\ UNCHANGED <<camImg, camChunk, camWait>>
      BY <2>1 DEF SendFrame, OfCurrent, Frame
    <2>3. AllOfCurrent(rxMsgVector)'
      BY <2>1, <2>2, AppendOfCurrent DEF HandshakeInv
    <2>4. ~CommBusy /\ UNCHANGED <<commPc, recvDone, rxNotified>>
      BY <2>1, <2>2 DEF HandshakeInv, taskVars, commVars, RecvData
    <2>5. QED
      BY <2>2, <2>3, <2>4 DEF HandshakeInv, CommBusy, WaitingIsAnswered, Unanswered
  <1>2. CASE CameraEndOfFrame
    <2>1. ~camWait /\ camWait' /\ UNCHANGED <<camImg, camChunk>> /\ UNCHANGED taskVars
      BY <1>2 DEF CameraEndOfFrame, SendEndOfFrame
    <2>2. recvDone' /\ rxNotified' /\ endOfImage' = IsLast /\ UNCHANGED rxMsgVector
      BY <1>2 DEF CameraEndOfFrame, RecvEndOfFrame
    <2>3. ~CommBusy /\ UNCHANGED commPc
      BY <2>1 DEF HandshakeInv, taskVars, commVars
    <2>4. endOfImage' => IsLast'
      BY <2>1, <2>2 DEF IsLast, LastChunk
    <2>5. QED
      BY <2>1, <2>2, <2>3, <2>4
      DEF HandshakeInv, CommBusy, WaitingIsAnswered, Unanswered, AllOfCurrent, OfCurrent
  <1>3. CASE OtherNode
    <2>1. PICK id \in ForeignIds : RecvData([id |-> id])
      BY <1>3 DEF OtherNode, Orderly
    <2>2. [id |-> id] \in Frame /\ id # "camera" /\ OfCurrent([id |-> id])
      BY <2>1, LinkAssumption DEF Orderly, Frame, ForeignFrame, OfCurrent
    <2>3. UNCHANGED <<camImg, camChunk, camWait, recvDone, rxNotified, commVars>>
      BY <1>3, <2>1 DEF OtherNode, taskVars, RecvData
    <2>4. AllOfCurrent(rxMsgVector)'
      BY <2>1, <2>2, <2>3, AppendOfCurrent DEF HandshakeInv
    <2>5. (\A k \in 1..Len(rxMsgVector) : rxMsgVector[k].id # "camera")
             => \A k \in 1..Len(rxMsgVector') : rxMsgVector'[k].id # "camera"
      <3>1. rxMsgVector \in Seq(Frame) /\ rxMsgVector' = Append(rxMsgVector, [id |-> id])
        BY <2>1 DEF TypeOK, ReceptionTypeOK, RecvData
      <3>2. ASSUME NEW k \in 1..Len(rxMsgVector')
            PROVE  \/ rxMsgVector'[k] = [id |-> id]
                   \/ k \in 1..Len(rxMsgVector) /\ rxMsgVector'[k] = rxMsgVector[k]
        BY <3>1, <2>2
      <3>3. QED
        BY <2>2, <3>2
    <2>6. ~endOfImage'
      BY <2>1 DEF RecvData
    <2>7. QED
      BY <2>3, <2>4, <2>5, <2>6
      DEF HandshakeInv, AllOfCurrent, OfCurrent, IsLast, LastChunk, CommBusy, WaitingIsAnswered,
          Unanswered, commVars
  <1>4. ~LoseFrame
    BY DEF Orderly, LoseFrame, MayFault
  <1>5. ~CameraTimeout
    BY DEF Orderly, CameraTimeout, MayFault, HandshakeInv, WaitingIsAnswered, Unanswered
  <1>6. QED
    BY <1>1, <1>2, <1>3, <1>4, <1>5 DEF Bus

\* What communicationTask copied is current, even if the vector moved meanwhile.
LEMMA CopyOfCurrent ==
  ASSUME TypeOK, AllOfCurrent(batch), AllOfCurrent(rxMsgVector), CopyEnd, UNCHANGED <<camImg, camChunk>>
  PROVE  AllOfCurrent(batch)'
  <1> DEFINE moved == [k \in DOMAIN batch |-> IF k = 1 THEN [id |-> "other"] ELSE batch[k]]
  <1>1. batch' \in {batch, rxMsgVector, moved}
    BY DEF CopyEnd, Copies
  <1>2. DOMAIN batch = 1..Len(batch) /\ Len(batch) \in Nat
    BY DEF TypeOK, ReceptionTypeOK
  <1>3. /\ Len(moved) = Len(batch)
        /\ \A k \in 1..Len(batch) : moved[k].id = "other" \/ moved[k] = batch[k]
    BY <1>2
  <1>4. CASE batch' = moved
    <2> HIDE DEF moved
    <2>1. ASSUME NEW k \in 1..Len(batch') PROVE OfCurrent(batch[k])' 
      BY <1>3, <1>4, <2>1 DEF AllOfCurrent, OfCurrent
    <2>2. QED
      BY <2>1 DEF AllOfCurrent
  <1>5. CASE batch' \in {batch, rxMsgVector}
    BY <1>5 DEF AllOfCurrent, OfCurrent
  <1>6. QED
    BY <1>1, <1>4, <1>5

LEMMA HandshakeCommStep ==
  ASSUME TypeOK, HandshakeInv, CommStep, UNCHANGED linkVars PROVE HandshakeInv'
  <1> UNCHANGED <<camImg, camChunk, camWait>> /\ (IsLast' <=> IsLast)
    BY DEF linkVars, IsLast, LastChunk
  <1> USE DEF HandshakeInv, CommBusy, WaitingIsAnswered, Unanswered, CommGoto
  <1>1. CASE ReadDone
    BY <1>1 DEF ReadDone, rxVars, AllOfCurrent, OfCurrent
  <1>2. CASE ReadEoi
    BY <1>2 DEF ReadEoi, rxVars, AllOfCurrent, OfCurrent
  <1>3. CASE ResetDone
    BY <1>3 DEF ResetDone, AllOfCurrent, OfCurrent
  <1>4. CASE CopyBegin
    BY <1>4 DEF CopyBegin, rxVars, AllOfCurrent, OfCurrent, NoFrame
  <1>5. CASE CopyEnd
    <2>1. AllOfCurrent(batch)'
      BY <1>5, CopyOfCurrent DEF CopyEnd
    <2>2. commPc' = "store" /\ UNCHANGED <<rxVars, assembleCbor, isEndOfImage, lastFrame>>
      BY <1>5 DEF CopyEnd
    <2>3. QED
      BY <1>5, <2>1, <2>2 DEF CopyEnd, rxVars, AllOfCurrent, OfCurrent
  <1>6. CASE Store
    <2>1. commPc = "store" /\ commPc' \in {"store", "dead"}
      BY <1>6 DEF Store, StoreMsg
    <2>2. stored + 1 \in 1..Len(batch)
      BY <1>6 DEF Store, TypeOK, ReceptionTypeOK
    <2>3. OfCurrent(lastFrame)'
      BY <1>6, <2>1, <2>2 DEF Store, AllOfCurrent, OfCurrent
    <2>4. UNCHANGED <<rxMsgVector, recvDone, endOfImage, rxNotified, assembleCbor, isEndOfImage, batch>>
      BY <1>6 DEF Store, rxVars
    <2>5. AllOfCurrent(rxMsgVector)' /\ AllOfCurrent(batch)'
      BY <2>1, <2>4 DEF AllOfCurrent, OfCurrent
    <2>6. QED
      BY <2>1, <2>3, <2>4, <2>5
  <1>7. CASE StoreEnd
    BY <1>7 DEF StoreEnd, rxVars, AllOfCurrent, OfCurrent
  <1>8. CASE CompletedFrame
    BY <1>8 DEF CompletedFrame, rxVars, AllOfCurrent, OfCurrent
  <1>9. CASE ClearBuffer
    BY <1>9 DEF ClearBuffer, AllOfCurrent, OfCurrent
  <1>10. QED
    BY <1>1, <1>2, <1>3, <1>4, <1>5, <1>6, <1>7, <1>8, <1>9 DEF CommStep

LEMMA HandshakeComm == ASSUME Orderly, TypeOK, HandshakeInv, Comm PROVE HandshakeInv'
  <1>1. CASE CommTake
    BY <1>1 DEF CommTake, Take, CommGoto, HandshakeInv, CommBusy, WaitingIsAnswered, Unanswered,
                AllOfCurrent, OfCurrent, IsLast, LastChunk, linkVars
  <1>2. CASE CommRun
    BY <1>2, HandshakeCommStep DEF CommRun
  <1>3. CASE CommTick
    BY <1>3 DEF CommTick, DelayOver, CommGoto, HandshakeInv, CommBusy, WaitingIsAnswered, Unanswered,
                AllOfCurrent, OfCurrent, IsLast, LastChunk, linkVars, rxVars
  <1>4. CASE CommConfirm
    <2>1. /\ commPc = "confirm" /\ commPc' = "delay100" /\ UNCHANGED rxVars
          /\ camWait /\ ~rxNotified
      BY <1>4 DEF CommConfirm, Confirm, CommGoto, HandshakeInv, CommBusy
    <2>2. ~camWait'
      BY <1>4, <2>1 DEF CommConfirm, Confirmed, Advance, Orderly, MayFault
    <2>3. AllOfCurrent(rxMsgVector)'
      BY <2>1 DEF HandshakeInv, AllOfCurrent, OfCurrent, rxVars
    <2>4. QED
      BY <2>1, <2>2, <2>3 DEF HandshakeInv, CommBusy, WaitingIsAnswered, rxVars
  <1>5. QED
    BY <1>1, <1>2, <1>3, <1>4 DEF Comm

LEMMA HandshakeStep == ASSUME Orderly, TypeOK, HandshakeInv, [Next]_vars PROVE HandshakeInv'
  <1>1. CASE Bus
    BY <1>1, HandshakeBus
  <1>2. CASE Comm
    BY <1>2, HandshakeComm
  <1>3. CASE Asm \/ ClsRun \/ UNCHANGED vars
    BY <1>3, HandshakeElsewhere DEF Asm, AsmTakes, AsmFrame, AsmImage, AsmPublish, ClsRun, vars
  <1>4. QED
    BY <1>1, <1>2, <1>3 DEF Next

\* As long as nothing is lost, misread or cut short, a camera that waits is
\* answered: no wake-up falls between the interrupt and the task's unlocked
\* reads and resets, whatever the other nodes send.
THEOREM CameraIsAnswered == ASSUME Orderly PROVE Spec => []WaitingIsAnswered
  <1>1. TypeOK /\ HandshakeInv /\ [Next]_vars => HandshakeInv'
    BY HandshakeStep
  <1>2. Spec => []HandshakeInv
    BY <1>1, HandshakeInit, TypeCorrect, PTL DEF Spec
  <1>3. HandshakeInv => WaitingIsAnswered
    BY DEF HandshakeInv
  <1>4. QED
    BY <1>2, <1>3, PTL

-------------------------------------------------------------------------------
(* What the end-of-image flag is true of, from the notification to the      *)
(* image handed to the classifier.                                          *)

\* Byte 0 b can only be the last chunk's.
OnlyLast(b) == \A c \in Chunk : Byte0(c) = b => c.chunk = LastChunk

WholeImageInv ==
  /\ asmNotify.pending /\ asmNotify.eoi => OnlyLast(asmNotify.msgIndex)
  /\ asmPc = "frame" /\ asmEoi => OnlyLast(asmMsg)
  /\ asmPc = "image" => /\ Len(snapshots) # 0
                        /\ \/ Len(snapshots) = SnapshotQueueLen
                           \/ snapshots[Len(snapshots)].chunk = LastChunk
  /\ PublishedWhole

\* Byte 0 tells the chunks of any two images apart.
LEMMA Byte0Chunk == ASSUME NEW i \in 1..Images, NEW j \in 1..Images,
                           NEW c \in 0..LastChunk, NEW d \in 0..LastChunk,
                           (i % 4) * 64 + c = (j % 4) * 64 + d
                    PROVE  c = d
  <1>1. i % 4 \in 0..3 /\ j % 4 \in 0..3 /\ c \in 0..63 /\ d \in 0..63
    BY Constants
  <1>2. ASSUME NEW a \in 0..3, NEW b \in 0..3, a * 64 + c = b * 64 + d PROVE c = d
    BY <1>1, <1>2
  <1>3. QED
    BY <1>1, <1>2

LEMMA WholeImageElsewhere ==
  WholeImageInv /\ UNCHANGED <<asmNotify, asmVars>> => WholeImageInv'
  BY DEF WholeImageInv, OnlyLast, LastChunk, Chunk, Byte0, PublishedWhole, WholeImage, asmVars

LEMMA WholeImageInit == Init => WholeImageInv
  BY DEF Init, ReceptionInit, AssemblerInit, WholeImageInv, PublishedWhole

\* The notification of an image's end is that of its last chunk.
LEMMA WholeImageCompletedFrame ==
  ASSUME TypeOK, HandshakeInv, WholeImageInv, CompletedFrame, UNCHANGED asmVars
  PROVE  WholeImageInv'
  <1>1. CASE lastFrame.id # "camera"
    BY <1>1, WholeImageElsewhere DEF CompletedFrame
  <1>2. CASE lastFrame.id = "camera"
    <2>1. lastFrame \in CameraFrame
      BY <1>2 DEF TypeOK, ReceptionTypeOK, Frame, ForeignFrame, NoFrame
    <2>2. lastFrame.img \in 1..Images /\ lastFrame.chunk \in 0..LastChunk
      BY <2>1 DEF CameraFrame, LastChunk
    <2>3. asmNotify' = [pending |-> TRUE, msgIndex |-> Byte0(lastFrame), eoi |-> isEndOfImage]
      BY <1>2 DEF CompletedFrame
    <2>4. isEndOfImage => lastFrame.chunk = LastChunk
      BY <1>2 DEF CompletedFrame, CommGoto, HandshakeInv, OfCurrent, IsLast
    <2>5. isEndOfImage => OnlyLast(Byte0(lastFrame))
      <3> SUFFICES ASSUME isEndOfImage, NEW c \in Chunk, Byte0(c) = Byte0(lastFrame)
                   PROVE  c.chunk = LastChunk
        BY DEF OnlyLast
      <3>1. c.img \in 1..Images /\ c.chunk \in 0..LastChunk
        BY DEF Chunk, LastChunk
      <3>2. QED
        BY <2>2, <2>4, <3>1, Byte0Chunk DEF Byte0
    <2>6. asmNotify'.eoi => OnlyLast(asmNotify'.msgIndex)
      BY <2>3, <2>5
    <2>7. QED
      BY <2>6 DEF WholeImageInv, OnlyLast, LastChunk, Chunk, Byte0, PublishedWhole, WholeImage, asmVars
  <1>3. QED
    BY <1>1, <1>2

\* Snapshots in sequence that end with the last chunk are the whole image.
LEMMA InSequenceWhole ==
  ASSUME TypeOK, InSequence, asmImageId \in 1..Images, Len(snapshots) # 0,
         \/ Len(snapshots) = SnapshotQueueLen
         \/ snapshots[Len(snapshots)].chunk = LastChunk
  PROVE  snapshots = WholeImage(asmImageId)
  <1>1. snapshots \in Seq(Chunk) /\ Len(snapshots) \in Nat /\ DOMAIN snapshots = 1..Len(snapshots)
    BY DEF TypeOK, AssemblerTypeOK
  <1>2. \A k \in 1..Len(snapshots) : snapshots[k] \in Chunk
    BY <1>1
  <1>3. \A k \in 1..Len(snapshots) : snapshots[k] = [img |-> asmImageId, chunk |-> k - 1]
    BY <1>2 DEF InSequence, Chunk
  <1>4. \A k \in 1..Len(snapshots) : k - 1 \in 0..LastChunk
    <2> TAKE k \in 1..Len(snapshots)
    <2>1. snapshots[k].chunk \in 0..LastChunk
      BY <1>2 DEF Chunk, LastChunk
    <2>2. snapshots[k].chunk = k - 1
      BY DEF InSequence
    <2>3. QED
      BY <2>1, <2>2
  <1>5. Len(snapshots) = ChunksPerImage
    <2>1. Len(snapshots) \in 1..Len(snapshots) /\ Len(snapshots) - 1 \in 0..LastChunk
      BY <1>1, <1>4
    <2>2. CASE snapshots[Len(snapshots)].chunk = LastChunk
      <3>1. snapshots[Len(snapshots)].chunk = Len(snapshots) - 1
        BY <2>1 DEF InSequence
      <3>2. LastChunk = Len(snapshots) - 1 /\ Len(snapshots) \in Nat
        BY <1>1, <2>2, <3>1
      <3>3. ChunksPerImage = LastChunk + 1
        BY Constants
      <3>4. QED
        BY <3>2, <3>3
    <2>3. CASE Len(snapshots) = SnapshotQueueLen
      BY <1>1, <2>1, <2>3, Constants, SnapshotAssumption
    <2>4. QED
      BY <2>2, <2>3
  <1>6. QED
    BY <1>1, <1>3, <1>5 DEF WholeImage

LEMMA WholeImageAsm == ASSUME TypeOK, WholeImageInv, Asm PROVE WholeImageInv'
  <1> USE DEF OnlyLast, LastChunk, Chunk, Byte0
  <1>1. CASE AsmTakes
    <2>1. ~asmNotify'.pending /\ asmPc' = "frame" /\ UNCHANGED snapshots
      BY <1>1 DEF AsmTakes, AsmWait, AsmGoto, TypeOK, ReceptionTypeOK
    <2>2. asmEoi' => OnlyLast(asmMsg)'
      BY <1>1 DEF AsmTakes, AsmWait, WholeImageInv
    <2>3. QED
      BY <2>1, <2>2 DEF WholeImageInv, PublishedWhole
  <1>2. CASE AsmFrame
    <2>1. UNCHANGED <<asmNotify, asmMsg, asmEoi, asmPic>> /\ asmPc = "frame" /\ asmPc' \in {"image", "wait"}
      BY <1>2 DEF AsmFrame, AssembleFrame
    <2>2. asmPc' = "image" => /\ Len(snapshots') # 0
                              /\ \/ Len(snapshots') = SnapshotQueueLen
                                 \/ snapshots'[Len(snapshots')].chunk = LastChunk
      <3> SUFFICES ASSUME asmPc' = "image"
                   PROVE  /\ Len(snapshots') # 0
                          /\ \/ Len(snapshots') = SnapshotQueueLen
                             \/ snapshots'[Len(snapshots')].chunk = LastChunk
        OBVIOUS
      <3>1. PICK c \in Chunk :
              /\ Byte0(c) = asmMsg /\ asmEoi
              /\ snapshots' = IF Len(snapshots) < SnapshotQueueLen THEN Append(snapshots, c) ELSE snapshots
        BY <1>2, QueuedType DEF AsmFrame, AssembleFrame, DecodesTo
      <3>2. c.chunk = LastChunk
        BY <2>1, <3>1 DEF WholeImageInv
      <3>3. snapshots \in Seq(Chunk) /\ Len(snapshots) \in Nat /\ Len(snapshots) <= SnapshotQueueLen
        BY DEF TypeOK, AssemblerTypeOK
      <3>4. CASE Len(snapshots) < SnapshotQueueLen
        BY <3>1, <3>2, <3>3, <3>4
      <3>5. CASE ~(Len(snapshots) < SnapshotQueueLen)
        BY <3>1, <3>3, <3>5, SnapshotAssumption, Constants
      <3>6. QED
        BY <3>4, <3>5
    <2>3. QED
      BY <2>1, <2>2 DEF WholeImageInv, PublishedWhole
  <1>3. CASE AsmImage
    <2>1. UNCHANGED asmNotify /\ asmPc = "image" /\ asmPc' \in {"wait", "publish"}
      BY <1>3 DEF AsmImage, AssembleImage, queueVars
    <2>2. asmPc' = "publish" => InSequence /\ asmPic' = snapshots
      BY <1>3 DEF AsmImage, AssembleImage
    <2>3. asmImageId \in 1..Images
      BY <2>1 DEF TypeOK, AssemblerTypeOK
    <2>4. asmPc' = "publish" => asmPic' = WholeImage(asmImageId)
      BY <2>1, <2>2, <2>3, InSequenceWhole DEF WholeImageInv
    <2>5. PublishedWhole'
      BY <2>3, <2>4 DEF PublishedWhole, WholeImage
    <2>6. QED
      BY <2>1, <2>5 DEF WholeImageInv
  <1>4. CASE AsmPublish
    BY <1>4 DEF AsmPublish, Publish, AsmGoto, queueVars, WholeImageInv, PublishedWhole
  <1>5. QED
    BY <1>1, <1>2, <1>3, <1>4 DEF Asm

LEMMA WholeImageStep == ASSUME TypeOK, HandshakeInv, WholeImageInv, [Next]_vars PROVE WholeImageInv'
  <1>1. CASE Asm
    BY <1>1, WholeImageAsm
  <1>2. CASE CommRun /\ CompletedFrame
    BY <1>2, WholeImageCompletedFrame DEF CommRun
  <1>3. CASE UNCHANGED <<asmNotify, asmVars>>
    BY <1>3, WholeImageElsewhere
  <1>4. CASE CommRun /\ ~CompletedFrame
    BY <1>4, WholeImageElsewhere
    DEF CommRun, CommStep, ReadDone, ReadEoi, ResetDone, CopyBegin, CopyEnd, Store, StoreEnd,
        ClearBuffer, queueVars
  <1>5. CASE Bus
    BY <1>5, <1>3
    DEF Bus, CameraData, CameraEndOfFrame, LoseFrame, OtherNode, CameraTimeout, taskVars, queueVars
  <1>6. CASE CommTake \/ CommTick \/ CommConfirm
    BY <1>6, <1>3 DEF CommTake, Take, CommTick, DelayOver, CommConfirm, Confirm, queueVars
  <1>7. CASE ClsRun \/ UNCHANGED vars
    BY <1>7, <1>3 DEF ClsRun, vars, queueVars
  <1>8. QED
    BY <1>1, <1>2, <1>4, <1>5, <1>6, <1>7 DEF Next, Comm

\* As long as nothing is lost, misread or cut short, whatever the other nodes
\* send, only whole images are published, although the end-of-image flag
\* travels apart from the chunk it belongs to and no chunk count is checked.
THEOREM OnlyWholeImages == ASSUME Orderly PROVE Spec => []PublishedWhole
  <1>1. TypeOK /\ HandshakeInv /\ [Next]_vars => HandshakeInv'
    BY HandshakeStep
  <1>2. TypeOK /\ HandshakeInv /\ WholeImageInv /\ [Next]_vars => WholeImageInv'
    BY WholeImageStep
  <1>3. Spec => []WholeImageInv
    BY <1>1, <1>2, HandshakeInit, WholeImageInit, TypeCorrect, PTL DEF Spec
  <1>4. WholeImageInv => PublishedWhole
    BY DEF WholeImageInv
  <1>5. QED
    BY <1>3, <1>4, PTL

-------------------------------------------------------------------------------
(* What the scheduler and the confirmation give the pipeline: the assembler *)
(* is done with a chunk before the next one begins.  With the camera alone  *)
(* on the bus nothing is lost on the unlocked receive path, and the         *)
(* pipeline implements ImageDelivery.                                       *)

\* No other node sends on the bus.
Alone == Orderly /\ ForeignIds = {}

\* No image is larger than the shared buffer, so setImage never throws.
Fits == "oversize" \notin ImageKinds

-------------------------------------------------------------------------------
(* The assembler works, or is about to, only while communicationTask is     *)
(* between completedFrame and the confirmation.                             *)

Answering == {"clear", "delay10", "confirm"}

HandledInv ==
  /\ imgMutex => clsPc = "dims"
  /\ asmPc = "publish" => asmKind # "oversize"
  /\ commPc = "confirm" => clsPc # "dims"
  /\ asmNotify.pending \/ asmPc # "wait" => commPc \in Answering

LEMMA HandledInit == Init => HandledInv
  BY DEF Init, ReceptionInit, SharedInit, AssemblerInit, HandledInv

\* What communicationTask finds outside Answering.
LEMMA AssemblerWaits ==
  ASSUME HandledInv, commPc \notin Answering
  PROVE  ~asmNotify.pending /\ asmPc = "wait"
  BY DEF HandledInv

\* When the confirmation is sent the assembler is done.
LEMMA AssemblerIsDone ==
  ASSUME TypeOK, HandledInv, CommConfirm
  PROVE  commPc = "confirm" /\ ~asmNotify.pending /\ asmPc = "wait"
  <1>1. commPc = "confirm" /\ ~AsmReady
    BY DEF CommConfirm, Confirm, CommGoto
  <1>2. asmPc # "publish"
    BY <1>1 DEF HandledInv, AsmReady
  <1>3. asmPc \in {"wait", "frame", "image", "publish"}
    BY DEF TypeOK, AssemblerTypeOK
  <1>4. QED
    BY <1>1, <1>2, <1>3 DEF AsmReady

LEMMA HandledCommStep ==
  ASSUME HandledInv, CommStep, UNCHANGED <<sharedVars, clsVars, asmVars>>
  PROVE  HandledInv'
  <1>0. UNCHANGED <<imgMutex, clsPc, asmPc, asmKind>>
    BY DEF sharedVars, clsVars, asmVars
  <1>1. CASE ReadDone \/ ReadEoi \/ ResetDone \/ CopyBegin \/ CopyEnd \/ Store \/ StoreEnd
    <2>1. /\ commPc \in {"readDone", "readEoi", "resetDone", "copy", "copying", "store"}
          /\ UNCHANGED asmNotify
      BY <1>1 DEF ReadDone, ReadEoi, ResetDone, CopyBegin, CopyEnd, Store, StoreEnd, CommGoto, queueVars
    <2>2. commPc' # "confirm"
      BY <1>1 DEF ReadDone, ReadEoi, ResetDone, CopyBegin, CopyEnd, Store, StoreMsg, StoreEnd, CommGoto
    <2>3. QED
      BY <1>0, <2>1, <2>2 DEF HandledInv, Answering
  <1>2. CASE CompletedFrame \/ ClearBuffer
    <2>1. commPc' \in {"clear", "delay10"}
      BY <1>2 DEF CompletedFrame, ClearBuffer, CommGoto
    <2>2. QED
      BY <1>0, <2>1 DEF HandledInv, Answering
  <1>3. QED
    BY <1>1, <1>2 DEF CommStep

LEMMA HandledStep == ASSUME Fits, TypeOK, HandledInv, [Next]_vars PROVE HandledInv'
  <1>1. CASE Bus
    <2>1. UNCHANGED taskVars
      BY <1>1 DEF Bus, CameraData, CameraEndOfFrame, LoseFrame, OtherNode, CameraTimeout
    <2>2. QED
      BY <2>1 DEF taskVars, commVars, queueVars, sharedVars, clsVars, asmVars, HandledInv, Answering
  <1>2. CASE CommTake
    BY <1>2 DEF CommTake, Take, CommGoto, queueVars, sharedVars, clsVars, asmVars, HandledInv, Answering
  <1>3. CASE CommRun
    BY <1>3, HandledCommStep DEF CommRun
  <1>4. CASE CommTick
    BY <1>4 DEF CommTick, DelayOver, CommGoto, queueVars, sharedVars, clsVars, asmVars, HandledInv, Answering
  <1>5. CASE CommConfirm
    BY <1>5, AssemblerIsDone
    DEF CommConfirm, Confirm, CommGoto, queueVars, sharedVars, clsVars, asmVars, HandledInv, Answering
  <1>6. CASE AsmTakes \/ AsmFrame
    BY <1>6 DEF AsmTakes, AsmWait, AsmFrame, AssembleFrame, AsmGoto, commVars, sharedVars, clsVars,
                HandledInv, Answering
  <1>7. CASE AsmImage
    BY <1>7 DEF AsmImage, AssembleImage, queueVars, commVars, sharedVars, clsVars, HandledInv, Answering, Fits
  <1>8. CASE AsmPublish
    <2>1. asmPc = "publish" /\ asmKind # "oversize" /\ asmPc' = "wait"
      BY <1>8 DEF AsmPublish, Publish, AsmGoto, HandledInv
    <2>2. UNCHANGED <<imgMutex, clsPc, commPc, asmNotify, asmKind>>
      BY <1>8, <2>1 DEF AsmPublish, Publish, SetImage, commVars, queueVars
    <2>3. QED
      BY <2>1, <2>2 DEF HandledInv
  <1>9. CASE ClsRun
    <2>1. UNCHANGED <<commPc, asmNotify, asmPc, asmKind>> /\ commPc # "confirm"
      BY <1>9 DEF ClsRun, CommReady, commVars, queueVars, asmVars
    <2>2. imgMutex' => clsPc' = "dims"
      BY <1>9 DEF ClsRun, ClsStep, ClsTake, ClsLock, ClsDims, ClsTop, ClsBottom, ClsGoto, sharedVars, HandledInv
    <2>3. QED
      BY <2>1, <2>2 DEF HandledInv
  <1>10. CASE UNCHANGED vars
    BY <1>10 DEF vars, commVars, queueVars, sharedVars, clsVars, asmVars, HandledInv, Answering
  <1>11. QED
    BY <1>1, <1>2, <1>3, <1>4, <1>5, <1>6, <1>7, <1>8, <1>9, <1>10 DEF Next, Comm, Asm

LEMMA HandledAlways == ASSUME Fits PROVE Spec => []HandledInv
  <1>1. TypeOK /\ HandledInv /\ [Next]_vars => HandledInv'
    BY HandledStep
  <1>2. QED
    BY <1>1, HandledInit, TypeCorrect, PTL DEF Spec

\* Whatever is on the bus, a notification of the assembler is taken before the
\* next one is sent.
THEOREM NotificationsTaken == ASSUME Fits PROVE Spec => NotificationTaken
  <1>1. ASSUME HandledInv, [Next]_vars, asmNotify.pending, asmNotify'.pending
        PROVE  asmNotify' = asmNotify
    <2>1. commPc \in Answering
      BY <1>1 DEF HandledInv
    <2>2. CASE Bus \/ ClsRun \/ UNCHANGED vars
      BY <2>2 DEF Bus, CameraData, CameraEndOfFrame, LoseFrame, OtherNode, CameraTimeout, taskVars,
                  ClsRun, vars, queueVars
    <2>3. CASE Comm
      BY <2>1, <2>3 DEF Comm, CommTake, Take, CommTick, DelayOver, CommConfirm, Confirm, CommRun, CommStep,
                        ReadDone, ReadEoi, ResetDone, CopyBegin, CopyEnd, Store, StoreEnd, CompletedFrame,
                        ClearBuffer, CommGoto, queueVars, Answering
    <2>4. CASE AsmTakes
      <3>1. asmNotify' = [asmNotify EXCEPT !.pending = FALSE]
        BY <2>4 DEF AsmTakes, AsmWait
      <3>2. QED
        BY <1>1, <3>1
    <2>5. CASE AsmFrame \/ AsmImage \/ AsmPublish
      BY <2>5 DEF AsmFrame, AssembleFrame, AsmImage, AssembleImage, AsmPublish, Publish, queueVars
    <2>6. QED
      BY <1>1, <2>2, <2>3, <2>4, <2>5 DEF Next, Asm
  <1>2. HandledInv /\ [Next]_vars => [asmNotify.pending /\ asmNotify'.pending => asmNotify' = asmNotify]_vars
    BY <1>1
  <1>3. QED
    BY <1>2, HandledAlways, PTL DEF Spec, NotificationTaken

-------------------------------------------------------------------------------
(* The camera alone on the bus: what communicationTask copied is what it    *)
(* clears, and the frames it stored are on their way to the assembler.      *)

AllCameras(s) == \A k \in 1..Len(s) : s[k].id = "camera"

\* Some task is going to take the frames out of the queue.
Expected ==
  \/ commPc \in {"store", "complete"} /\ lastFrame.id = "camera"
  \/ asmNotify.pending \/ asmPc = "frame" \/ commPc = "dead"

AloneInv ==
  /\ AllCameras(rxMsgVector)
  /\ commPc \in {"copying", "store", "complete", "clear"} => batch = rxMsgVector
  /\ cameraFramesQueue # <<>> => Expected

LEMMA AloneInit == Init => AloneInv
  BY DEF Init, ReceptionInit, AloneInv, AllCameras

LEMMA AloneBus == ASSUME ForeignIds = {}, TypeOK, CommBusy => camWait, AloneInv, Bus PROVE AloneInv'
  <1>1. UNCHANGED taskVars
    BY DEF Bus, CameraData, CameraEndOfFrame, LoseFrame, OtherNode, CameraTimeout
  <1>2. UNCHANGED <<commVars, cameraFramesQueue, asmNotify, asmPc>>
    BY <1>1 DEF taskVars, queueVars, asmVars
  <1>3. CASE UNCHANGED rxMsgVector
    BY <1>2, <1>3 DEF AloneInv, AllCameras, Expected, commVars
  <1>4. CASE ~UNCHANGED rxMsgVector
    <2>1. CameraData
      BY <1>4 DEF Bus, CameraEndOfFrame, RecvEndOfFrame, LoseFrame, OtherNode, CameraTimeout, rxVars
    <2>2. PICK f \in CameraFrame : SendFrame(f) /\ RecvData(f)
      BY <1>4, <2>1 DEF CameraData, RecvEndOfFrame
    <2>3. ~CommBusy
      BY <2>2 DEF SendFrame
    <2>4. AllCameras(rxMsgVector)'
      <3>1. rxMsgVector \in Seq(Frame) /\ rxMsgVector' = Append(rxMsgVector, f) /\ f \in Frame
        BY <2>2 DEF TypeOK, ReceptionTypeOK, RecvData, Frame
      <3>2. ASSUME NEW k \in 1..Len(rxMsgVector')
            PROVE  rxMsgVector'[k] = f \/ (k \in 1..Len(rxMsgVector) /\ rxMsgVector'[k] = rxMsgVector[k])
        BY <3>1
      <3>3. f.id = "camera"
        BY <2>2 DEF SendFrame
      <3>4. QED
        BY <3>2, <3>3 DEF AloneInv, AllCameras
    <2>5. commPc' \notin {"copying", "store", "complete", "clear"}
      BY <1>2, <2>3 DEF CommBusy, commVars
    <2>6. QED
      BY <1>2, <2>4, <2>5 DEF AloneInv, Expected, commVars
  <1>5. QED
    BY <1>3, <1>4

LEMMA AloneCommStep ==
  ASSUME TypeOK, AloneInv, CommStep, UNCHANGED asmVars
  PROVE  AloneInv'
  <1>0. UNCHANGED asmPc
    BY DEF asmVars
  <1>1. CASE ReadDone \/ ReadEoi \/ ResetDone
    BY <1>0, <1>1 DEF ReadDone, ReadEoi, ResetDone, CommGoto, rxVars, queueVars, AloneInv, AllCameras, Expected
  <1>2. CASE CopyBegin
    BY <1>0, <1>2 DEF CopyBegin, CommGoto, rxVars, queueVars, AloneInv, AllCameras, Expected
  <1>3. CASE CopyEnd
    <2>1. commPc = "copying" /\ commPc' \in {"store", "delay100"}
      BY <1>3 DEF CopyEnd, CommGoto
    <2>2. batch' = batch /\ batch = rxMsgVector
      BY <1>3, <2>1 DEF CopyEnd, Copies, AloneInv
    <2>3. UNCHANGED <<rxMsgVector, cameraFramesQueue, asmNotify>>
      BY <1>3 DEF CopyEnd, rxVars, queueVars
    <2>4. QED
      BY <1>0, <2>1, <2>2, <2>3 DEF AloneInv, AllCameras, Expected
  <1>4. CASE Store
    <2>1. commPc = "store" /\ commPc' \in {"store", "dead"} /\ stored + 1 \in 1..Len(batch)
      BY <1>4 DEF Store, StoreMsg, TypeOK, ReceptionTypeOK
    <2>2. batch[stored + 1].id = "camera"
      BY <2>1 DEF AloneInv, AllCameras
    <2>3. lastFrame'.id = "camera"
      BY <1>4, <2>2 DEF Store
    <2>4. UNCHANGED <<rxMsgVector, batch>>
      BY <1>4 DEF Store, rxVars
    <2>5. QED
      BY <2>1, <2>3, <2>4 DEF AloneInv, AllCameras, Expected
  <1>5. CASE StoreEnd
    BY <1>0, <1>5 DEF StoreEnd, CommGoto, rxVars, queueVars, AloneInv, AllCameras, Expected
  <1>6. CASE CompletedFrame
    <2>1. commPc = "complete" /\ commPc' = "clear" /\ UNCHANGED <<rxMsgVector, batch, cameraFramesQueue>>
      BY <1>6 DEF CompletedFrame, CommGoto, rxVars
    <2>2. asmNotify'.pending \/ (lastFrame.id # "camera" /\ UNCHANGED asmNotify)
      BY <1>6 DEF CompletedFrame
    <2>3. QED
      BY <1>0, <2>1, <2>2 DEF AloneInv, AllCameras, Expected
  <1>7. CASE ClearBuffer
    BY <1>0, <1>7 DEF ClearBuffer, CommGoto, queueVars, AloneInv, AllCameras, Expected
  <1>8. QED
    BY <1>1, <1>2, <1>3, <1>4, <1>5, <1>6, <1>7 DEF CommStep

LEMMA AloneAsm == ASSUME AloneInv, Asm PROVE AloneInv'
  <1>1. UNCHANGED <<rxVars, commVars>>
    BY DEF Asm, AsmTakes, AsmFrame, AsmImage, AsmPublish
  <1>2. CASE AsmTakes
    BY <1>1, <1>2 DEF AsmTakes, AsmWait, AsmGoto, rxVars, commVars, AloneInv, AllCameras, Expected
  <1>3. CASE AsmFrame
    BY <1>1, <1>3 DEF AsmFrame, AssembleFrame, rxVars, commVars, AloneInv, AllCameras, Expected
  <1>4. CASE AsmImage \/ AsmPublish
    <2>1. UNCHANGED <<cameraFramesQueue, asmNotify>> /\ asmPc # "frame"
      BY <1>4 DEF AsmImage, AssembleImage, AsmPublish, Publish, AsmGoto, queueVars
    <2>2. QED
      BY <1>1, <2>1 DEF rxVars, commVars, AloneInv, AllCameras, Expected
  <1>5. QED
    BY <1>2, <1>3, <1>4 DEF Asm

LEMMA AloneStep == ASSUME ForeignIds = {}, TypeOK, CommBusy => camWait, AloneInv, [Next]_vars PROVE AloneInv'
  <1>1. CASE Bus
    BY <1>1, AloneBus
  <1>2. CASE CommRun
    BY <1>2, AloneCommStep DEF CommRun
  <1>3. CASE CommTake \/ CommTick \/ CommConfirm
    <2>1. UNCHANGED <<rxMsgVector, batch, lastFrame, cameraFramesQueue, asmNotify, asmPc>>
      BY <1>3 DEF CommTake, Take, CommTick, DelayOver, CommConfirm, Confirm, rxVars, queueVars, asmVars
    <2>2. /\ commPc \notin {"store", "complete", "dead"}
          /\ commPc' \notin {"copying", "store", "complete", "clear"}
      BY <1>3 DEF CommTake, Take, CommTick, DelayOver, CommConfirm, Confirm, CommGoto
    <2>3. QED
      BY <2>1, <2>2 DEF AloneInv, AllCameras, Expected
  <1>4. CASE Asm
    BY <1>4, AloneAsm
  <1>5. CASE ClsRun \/ UNCHANGED vars
    <2>1. UNCHANGED <<rxMsgVector, commVars, cameraFramesQueue, asmNotify, asmPc>>
      BY <1>5 DEF ClsRun, vars, rxVars, queueVars, asmVars
    <2>2. QED
      BY <2>1 DEF commVars, AloneInv, AllCameras, Expected
  <1>6. QED
    BY <1>1, <1>2, <1>3, <1>4, <1>5 DEF Next, Comm

LEMMA AloneAlways == ASSUME Alone PROVE Spec => [](HandshakeInv /\ AloneInv)
  <1> Orderly
    BY DEF Alone
  <1>1. TypeOK /\ HandshakeInv /\ [Next]_vars => HandshakeInv'
    BY HandshakeStep
  <1>2. TypeOK /\ HandshakeInv /\ AloneInv /\ [Next]_vars => AloneInv'
    BY AloneStep DEF Alone, HandshakeInv
  <1>3. QED
    BY <1>1, <1>2, HandshakeInit, AloneInit, TypeCorrect, PTL DEF Spec

\* With the camera alone on the bus, clearBuffer, which empties a vector the
\* interrupt fills without a lock, discards nothing but what was stored.
THEOREM NothingCleared == ASSUME Alone PROVE Spec => []ClearLosesNothing
  <1>1. AloneInv => ClearLosesNothing
    BY DEF AloneInv, ClearLosesNothing
  <1>2. QED
    BY <1>1, AloneAlways, PTL

\* With the camera alone on the bus, the interrupt never appends to the vector
\* during the unlocked copy.
THEOREM CopyUndisturbed == ASSUME Alone PROVE Spec => CopyIsUndisturbed
  <1>1. ASSUME HandshakeInv, [Next]_vars, commPc = "copying" PROVE UNCHANGED rxMsgVector
    <2>1. camWait
      BY <1>1 DEF HandshakeInv, CommBusy
    <2>2. CASE Bus
      BY <2>1, <2>2
      DEF Bus, CameraData, SendFrame, CameraEndOfFrame, RecvEndOfFrame, LoseFrame, OtherNode, CameraTimeout,
          rxVars, Alone
    <2>3. CASE CommRun
      BY <1>1, <2>3
      DEF CommRun, CommStep, ReadDone, ReadEoi, ResetDone, CopyBegin, CopyEnd, Store, StoreEnd,
          CompletedFrame, ClearBuffer, CommGoto, rxVars
    <2>4. CASE CommTake \/ CommTick \/ CommConfirm
      BY <2>4 DEF CommTake, Take, CommTick, DelayOver, CommConfirm, Confirm, rxVars
    <2>5. CASE Asm \/ ClsRun \/ UNCHANGED vars
      BY <2>5 DEF Asm, AsmTakes, AsmFrame, AsmImage, AsmPublish, ClsRun, vars, rxVars
    <2>6. QED
      BY <1>1, <2>2, <2>3, <2>4, <2>5 DEF Next, Comm
  <1>2. HandshakeInv /\ [Next]_vars => [commPc = "copying" => UNCHANGED rxMsgVector]_vars
    BY <1>1
  <1>3. QED
    BY <1>2, AloneAlways, PTL DEF Spec, CopyIsUndisturbed

\* With the camera alone on the bus and images that fit, a confirmation tells
\* the camera the truth: the assembler is done with the chunk.
THEOREM ConfirmationIsTrue == ASSUME Alone, Fits PROVE Spec => ConfirmedIsAssembled
  <1>1. ASSUME TypeOK, HandledInv, AloneInv, [Next]_vars, commPc = "confirm", commPc' = "delay100"
        PROVE  cameraFramesQueue = <<>> /\ ~asmNotify.pending /\ asmPc = "wait"
    <2>1. CommConfirm
      <3>1. ~UNCHANGED commPc
        BY <1>1
      <3>2. Comm
        BY <1>1, <3>1
        DEF Next, Bus, CameraData, CameraEndOfFrame, LoseFrame, OtherNode, CameraTimeout, taskVars, commVars,
            Asm, AsmTakes, AsmFrame, AsmImage, AsmPublish, ClsRun, vars
      <3>3. ~(CommTake \/ CommTick)
        BY <1>1 DEF CommTake, Take, CommTick, DelayOver, CommGoto
      <3>4. ~CommRun
        BY <1>1
        DEF CommRun, CommStep, ReadDone, ReadEoi, ResetDone, CopyBegin, CopyEnd, Store, StoreEnd,
            CompletedFrame, ClearBuffer, CommGoto
      <3>5. QED
        BY <3>2, <3>3, <3>4 DEF Comm
    <2>2. ~asmNotify.pending /\ asmPc = "wait"
      BY <1>1, <2>1, AssemblerIsDone
    <2>3. QED
      BY <1>1, <2>2 DEF AloneInv, Expected
  <1>2. TypeOK /\ HandledInv /\ AloneInv /\ [Next]_vars =>
          [commPc = "confirm" /\ commPc' = "delay100" =>
             cameraFramesQueue = <<>> /\ ~asmNotify.pending /\ asmPc = "wait"]_vars
    BY <1>1
  <1>3. QED
    BY <1>2, AloneAlways, HandledAlways, TypeCorrect, PTL DEF Spec, ConfirmedIsAssembled

-------------------------------------------------------------------------------
(* The image that is decoded is the one the camera has just sent.           *)

\* The image on show is older than the camera's, or the camera is waiting for
\* the confirmation of its end and the assembler is done with it.
ShownEarlier ==
  sharedTop # <<>> =>
    \/ sharedTop[1].img < camImg
    \/ /\ sharedTop[1].img = camImg /\ IsLast
       /\ commPc \in Answering /\ ~asmNotify.pending /\ asmPc = "wait"

DeliveryInv ==
  /\ commPc # "dead" => AllOfCurrent(cameraFramesQueue)
  /\ asmPc # "wait" => ~asmNotify.pending
  /\ asmNotify.pending /\ asmNotify.eoi => IsLast
  /\ asmPc = "frame" /\ asmEoi => IsLast
  /\ asmPc \in {"image", "publish"} => IsLast /\ asmImageId = camImg
  /\ asmPc = "publish" => asmPic = WholeImage(camImg)
  /\ ShownEarlier

LEMMA DeliveryInit == Init => DeliveryInv
  BY DEF Init, ReceptionInit, AssemblerInit, SharedInit, NoImage, DeliveryInv, ShownEarlier, AllOfCurrent

\* What the invariant is about.
deliveryVars == <<camImg, camChunk, commPc, cameraFramesQueue, asmNotify, asmVars, sharedTop>>

LEMMA DeliveryElsewhere == DeliveryInv /\ UNCHANGED deliveryVars => DeliveryInv'
  BY DEF DeliveryInv, ShownEarlier, AllOfCurrent, OfCurrent, IsLast, LastChunk, WholeImage, asmVars, deliveryVars

LEMMA DeliveryBus == ASSUME Alone, HandshakeInv, Bus PROVE UNCHANGED deliveryVars
  <1>1. UNCHANGED taskVars
    BY DEF Bus, CameraData, CameraEndOfFrame, LoseFrame, OtherNode, CameraTimeout
  <1>2. ~LoseFrame /\ ~CameraTimeout
    BY DEF Alone, Orderly, LoseFrame, CameraTimeout, MayFault, HandshakeInv, WaitingIsAnswered, Unanswered
  <1>3. UNCHANGED <<camImg, camChunk>>
    BY <1>2 DEF Bus, CameraData, SendFrame, CameraEndOfFrame, SendEndOfFrame, OtherNode
  <1>4. QED
    BY <1>1, <1>3 DEF taskVars, commVars, queueVars, sharedVars, deliveryVars

\* communicationTask stores frames of the chunk the camera is at.
LEMMA StoreOfCurrent ==
  ASSUME TypeOK, HandshakeInv, Store, AllOfCurrent(cameraFramesQueue), UNCHANGED <<camImg, camChunk>>
  PROVE  AllOfCurrent(cameraFramesQueue)'
  <1> DEFINE f == batch[stored + 1]
  <1>1. stored + 1 \in 1..Len(batch) /\ commPc = "store"
    BY DEF Store, TypeOK, ReceptionTypeOK
  <1>2. OfCurrent(f) /\ f \in Frame
    BY <1>1 DEF HandshakeInv, AllOfCurrent, TypeOK, ReceptionTypeOK
  <1>3. CASE UNCHANGED cameraFramesQueue
    BY <1>3 DEF AllOfCurrent, OfCurrent
  <1>4. CASE cameraFramesQueue' = Append(cameraFramesQueue, f)
    <2>1. cameraFramesQueue \in Seq(CameraFrame)
      BY DEF TypeOK, ReceptionTypeOK
    <2>2. ASSUME NEW k \in 1..Len(cameraFramesQueue')
          PROVE  \/ cameraFramesQueue'[k] = f
                 \/ k \in 1..Len(cameraFramesQueue) /\ cameraFramesQueue'[k] = cameraFramesQueue[k]
      BY <1>4, <2>1
    <2>3. QED
      BY <1>2, <2>2 DEF AllOfCurrent, OfCurrent
  <1>5. QED
    BY <1>3, <1>4 DEF Store, StoreMsg

LEMMA DeliveryCommStep ==
  ASSUME TypeOK, HandshakeInv, HandledInv, DeliveryInv, CommStep,
         UNCHANGED <<linkVars, sharedVars, asmVars>>
  PROVE  DeliveryInv'
  <1>0. UNCHANGED <<camImg, camChunk, sharedTop, asmPc, asmEoi, asmImageId, asmPic>>
    BY DEF linkVars, sharedVars, asmVars
  <1> USE DEF IsLast, LastChunk
  <1>1. CASE Store
    <2>1. commPc = "store" /\ commPc' \in {"store", "dead"} /\ UNCHANGED asmNotify
      BY <1>1 DEF Store, StoreMsg
    <2>2. ~asmNotify.pending /\ asmPc = "wait"
      BY <2>1, AssemblerWaits DEF Answering
    <2>3. AllOfCurrent(cameraFramesQueue)'
      BY <1>0, <1>1, <2>1, StoreOfCurrent DEF DeliveryInv
    <2>4. ShownEarlier'
      BY <1>0, <2>1 DEF DeliveryInv, ShownEarlier, Answering
    <2>5. QED
      BY <1>0, <2>1, <2>2, <2>3, <2>4 DEF DeliveryInv
  <1>2. CASE CompletedFrame
    <2>1. commPc = "complete" /\ commPc' = "clear" /\ UNCHANGED cameraFramesQueue
      BY <1>2 DEF CompletedFrame, CommGoto
    <2>2. ~asmNotify.pending /\ asmPc = "wait"
      BY <2>1, AssemblerWaits DEF Answering
    <2>3. asmNotify'.pending /\ asmNotify'.eoi => IsLast'
      <3>1. isEndOfImage => IsLast
        BY <2>1 DEF HandshakeInv
      <3>2. asmNotify'.pending => asmNotify'.eoi = isEndOfImage
        BY <1>2, <2>2 DEF CompletedFrame
      <3>3. QED
        BY <1>0, <3>1, <3>2
    <2>4. ShownEarlier' /\ AllOfCurrent(cameraFramesQueue)'
      BY <1>0, <2>1 DEF DeliveryInv, ShownEarlier, Answering, AllOfCurrent, OfCurrent
    <2>5. QED
      BY <1>0, <2>2, <2>3, <2>4 DEF DeliveryInv
  <1>3. CASE ReadDone \/ ReadEoi \/ ResetDone \/ CopyBegin \/ CopyEnd \/ StoreEnd \/ ClearBuffer
    <2>1. UNCHANGED <<cameraFramesQueue, asmNotify>>
      BY <1>3 DEF ReadDone, ReadEoi, ResetDone, CopyBegin, CopyEnd, StoreEnd, ClearBuffer, queueVars
    <2>2. commPc # "dead" /\ (commPc \in Answering => commPc' \in Answering)
      BY <1>3 DEF ReadDone, ReadEoi, ResetDone, CopyBegin, CopyEnd, StoreEnd, ClearBuffer, CommGoto, Answering
    <2>3. ShownEarlier'
      BY <1>0, <2>1, <2>2 DEF DeliveryInv, ShownEarlier
    <2>4. QED
      BY <1>0, <2>1, <2>2, <2>3 DEF DeliveryInv, AllOfCurrent, OfCurrent, WholeImage
  <1>4. QED
    BY <1>1, <1>2, <1>3 DEF CommStep

\* When the camera moves on, the assembler and its queue are empty-handed.
LEMMA DeliveryConfirm ==
  ASSUME Alone, TypeOK, HandshakeInv, HandledInv, AloneInv, DeliveryInv, CommConfirm
  PROVE  DeliveryInv'
  <1>1. commPc = "confirm" /\ ~asmNotify.pending /\ asmPc = "wait" /\ commPc' = "delay100"
    BY AssemblerIsDone DEF CommConfirm, Confirm, CommGoto
  <1>2. cameraFramesQueue = <<>>
    BY <1>1 DEF AloneInv, Expected
  <1>3. UNCHANGED <<cameraFramesQueue, asmNotify, asmVars, sharedTop>>
    BY DEF CommConfirm, Confirm, queueVars, sharedVars
  <1>4. camWait /\ Advance
    BY <1>1 DEF HandshakeInv, CommBusy, CommConfirm, Confirmed, MayFault, Alone, Orderly
  <1>5. ShownEarlier'
    <2>1. sharedTop \in Seq(Chunk) /\ camImg \in Nat
      BY Constants DEF TypeOK, SharedTypeOK, Picture, LinkTypeOK
    <2>2. sharedTop # <<>> => sharedTop[1].img \in Nat
      <3>1. sharedTop # <<>> => sharedTop[1] \in Chunk
        BY <2>1
      <3>2. QED
        BY <3>1, Constants DEF Chunk
    <2>3. IF IsLast THEN camImg' = camImg + 1 ELSE camImg' = camImg
      BY <1>4 DEF Advance
    <2>4. QED
      BY <1>3, <2>1, <2>2, <2>3 DEF DeliveryInv, ShownEarlier
  <1>6. QED
    BY <1>1, <1>2, <1>3, <1>5 DEF DeliveryInv, AllOfCurrent, asmVars

\* The assembler decodes the chunk the camera is at.
LEMMA DecodesCurrent ==
  ASSUME TypeOK, AllOfCurrent(cameraFramesQueue), NEW c \in Queued
  PROVE  c.img = camImg
  <1>1. PICK k \in 1..Len(cameraFramesQueue) : c.img = cameraFramesQueue[k].img
    BY DEF Queued
  <1>2. cameraFramesQueue[k].id = "camera"
    <2>1. cameraFramesQueue \in Seq(CameraFrame)
      BY DEF TypeOK, ReceptionTypeOK
    <2>2. cameraFramesQueue[k] \in CameraFrame
      BY <2>1
    <2>3. QED
      BY <2>2 DEF CameraFrame
  <1>3. QED
    BY <1>1, <1>2 DEF AllOfCurrent, OfCurrent

LEMMA DeliveryAsm ==
  ASSUME Fits, TypeOK, WholeImageInv, HandledInv, DeliveryInv, Asm
  PROVE  DeliveryInv'
  <1>1. UNCHANGED <<camImg, camChunk, commPc>>
    BY DEF Asm, AsmTakes, AsmFrame, AsmImage, AsmPublish, linkVars, commVars
  <1> USE DEF IsLast, LastChunk
  <1>2. CASE AsmTakes
    <2>1. /\ asmPc = "wait" /\ asmPc' = "frame" /\ asmNotify.pending /\ asmEoi' = asmNotify.eoi
          /\ UNCHANGED <<cameraFramesQueue, sharedTop>>
      BY <1>2 DEF AsmTakes, AsmWait, AsmGoto, sharedVars
    <2>2. ~asmNotify'.pending
      BY <1>2 DEF AsmTakes, AsmWait, TypeOK, ReceptionTypeOK
    <2>3. ShownEarlier' /\ (commPc' # "dead" => AllOfCurrent(cameraFramesQueue)')
      BY <1>1, <2>1 DEF DeliveryInv, ShownEarlier, AllOfCurrent, OfCurrent
    <2>4. QED
      BY <1>1, <2>1, <2>2, <2>3 DEF DeliveryInv
  <1>3. CASE AsmFrame
    <2>1. /\ asmPc = "frame" /\ asmPc' \in {"image", "wait"} /\ cameraFramesQueue' = <<>>
          /\ UNCHANGED <<asmNotify, sharedTop>>
      BY <1>3 DEF AsmFrame, AssembleFrame, sharedVars
    <2>2. commPc # "dead" /\ ~asmNotify.pending
      BY <2>1 DEF HandledInv, Answering, DeliveryInv
    <2>3. asmPc' = "image" => IsLast' /\ asmImageId' = camImg'
      <3>1. ASSUME asmPc' = "image" PROVE asmEoi /\ \E c \in Queued : asmImageId' = c.img
        BY <1>3, <3>1 DEF AsmFrame, AssembleFrame
      <3>2. \A c \in Queued : c.img = camImg
        BY <2>2, DecodesCurrent DEF DeliveryInv
      <3>3. QED
        BY <1>1, <2>1, <3>1, <3>2 DEF DeliveryInv
    <2>4. ShownEarlier' /\ AllOfCurrent(cameraFramesQueue)'
      BY <1>1, <2>1 DEF DeliveryInv, ShownEarlier, AllOfCurrent
    <2>5. QED
      BY <2>1, <2>2, <2>3, <2>4 DEF DeliveryInv
  <1>4. CASE AsmImage
    <2>1. /\ asmPc = "image" /\ asmPc' \in {"wait", "publish"}
          /\ UNCHANGED <<cameraFramesQueue, asmNotify, asmImageId, sharedTop>>
      BY <1>4 DEF AsmImage, AssembleImage, queueVars, sharedVars
    <2>2. asmPc' = "publish" => asmPic' = WholeImage(camImg')
      <3>1. asmPc' = "publish" => InSequence /\ asmPic' = snapshots
        BY <1>4 DEF AsmImage, AssembleImage
      <3>2. asmImageId \in 1..Images
        BY <2>1 DEF TypeOK, AssemblerTypeOK
      <3>3. InSequence => snapshots = WholeImage(asmImageId)
        BY <2>1, <3>2, InSequenceWhole DEF WholeImageInv
      <3>4. QED
        BY <1>1, <2>1, <3>1, <3>3 DEF DeliveryInv
    <2>3. ShownEarlier' /\ (commPc' # "dead" => AllOfCurrent(cameraFramesQueue)')
      BY <1>1, <2>1 DEF DeliveryInv, ShownEarlier, AllOfCurrent, OfCurrent
    <2>4. WholeImage(camImg)' = WholeImage(camImg')
      BY DEF WholeImage
    <2>5. QED
      BY <1>1, <2>1, <2>2, <2>3, <2>4 DEF DeliveryInv
  <1>5. CASE AsmPublish
    <2>1. /\ asmPc = "publish" /\ asmPc' = "wait" /\ sharedTop' = asmPic
          /\ UNCHANGED <<cameraFramesQueue, asmNotify>>
      BY <1>5 DEF AsmPublish, Publish, AsmGoto, SetImage, HandledInv, queueVars
    <2>2. sharedTop'[1].img = camImg
      <3>1. asmPic = WholeImage(camImg) /\ 1 \in 1..ChunksPerImage
        BY <2>1, Constants DEF DeliveryInv
      <3>2. QED
        BY <2>1, <3>1 DEF WholeImage
    <2>3. IsLast /\ commPc \in Answering /\ ~asmNotify.pending
      BY <2>1 DEF DeliveryInv, HandledInv
    <2>4. ShownEarlier'
      BY <1>1, <2>1, <2>2, <2>3 DEF ShownEarlier
    <2>5. QED
      BY <1>1, <2>1, <2>3, <2>4 DEF DeliveryInv, AllOfCurrent, OfCurrent
  <1>6. QED
    BY <1>2, <1>3, <1>4, <1>5 DEF Asm

LEMMA DeliveryStep ==
  ASSUME Alone, Fits, TypeOK, HandshakeInv, WholeImageInv, HandledInv, AloneInv, DeliveryInv, [Next]_vars
  PROVE  DeliveryInv'
  <1>1. CASE Bus \/ ClsRun \/ UNCHANGED vars
    <2>1. ClsRun => UNCHANGED sharedTop
      BY DEF ClsRun, ClsStep, ClsTake, ClsLock, ClsDims, ClsTop, ClsBottom, sharedVars
    <2>2. UNCHANGED deliveryVars
      BY <1>1, <2>1, DeliveryBus DEF ClsRun, vars, linkVars, commVars, queueVars, sharedVars, deliveryVars
    <2>3. QED
      BY <2>2, DeliveryElsewhere
  <1>2. CASE CommRun
    BY <1>2, DeliveryCommStep DEF CommRun
  <1>3. CASE CommConfirm
    BY <1>3, DeliveryConfirm
  <1>4. CASE CommTake \/ CommTick
    <2>1. UNCHANGED <<camImg, camChunk, cameraFramesQueue, asmNotify, asmVars, sharedTop>>
      BY <1>4 DEF CommTake, Take, CommTick, DelayOver, linkVars, queueVars, sharedVars
    <2>2. commPc # "dead" /\ (commPc \in Answering => commPc' \in Answering)
      BY <1>4, HandshakeInv DEF CommTake, Take, CommTick, DelayOver, CommGoto, Answering
    <2>3. ShownEarlier'
      BY <2>1, <2>2 DEF DeliveryInv, ShownEarlier, IsLast, LastChunk, asmVars
    <2>4. QED
      BY <2>1, <2>2, <2>3 DEF DeliveryInv, AllOfCurrent, OfCurrent, IsLast, LastChunk, WholeImage, asmVars
  <1>5. CASE Asm
    BY <1>5, DeliveryAsm
  <1>6. QED
    BY <1>1, <1>2, <1>3, <1>4, <1>5 DEF Next, Comm

-------------------------------------------------------------------------------
(* Every step of the pipeline is one of ImageDelivery's, or changes neither *)
(* what was sent nor what is shown.                                         *)

SentImages == IF camWait /\ IsLast THEN camImg ELSE camImg - 1

ShownImage == IF sharedTop = NoImage THEN 0 ELSE sharedTop[1].img

\* The confirmation of an image's end does not change which images were sent.
LEMMA ConfirmKeepsSent == ASSUME Alone, TypeOK, HandshakeInv, CommConfirm PROVE UNCHANGED SentImages
  <1>1. camWait /\ Advance
    BY DEF CommConfirm, Confirm, Confirmed, CommGoto, HandshakeInv, CommBusy, MayFault, Alone, Orderly
  <1>2. camImg \in Nat
    BY Constants DEF TypeOK, LinkTypeOK
  <1>3. QED
    BY <1>1, <1>2 DEF Advance, SentImages

LEMMA SimulatesBus == ASSUME Alone, TypeOK, HandshakeInv, Bus
                      PROVE  Delivery!Send \/ UNCHANGED <<SentImages, ShownImage>>
  <1>1. UNCHANGED <<camImg, camChunk, sharedTop>>
    BY DeliveryBus DEF deliveryVars
  <1>2. UNCHANGED ShownImage
    BY <1>1 DEF ShownImage, NoImage
  <1>3. CASE UNCHANGED camWait
    BY <1>1, <1>2, <1>3 DEF SentImages, IsLast, LastChunk
  <1>4. CASE CameraEndOfFrame
    <2>1. ~camWait /\ camWait' /\ camImg \in 1..Images
      BY <1>4, Constants DEF CameraEndOfFrame, SendEndOfFrame, CameraDone, TypeOK, LinkTypeOK
    <2>2. CASE ~IsLast
      BY <1>1, <1>2, <2>1, <2>2 DEF SentImages, IsLast, LastChunk
    <2>3. CASE IsLast
      BY <1>1, <2>1, <2>3, Constants DEF Delivery!Send, IsLast, LastChunk
    <2>4. QED
      BY <2>2, <2>3
  <1>5. ~LoseFrame /\ ~CameraTimeout
    BY DEF Alone, Orderly, LoseFrame, CameraTimeout, MayFault, HandshakeInv, WaitingIsAnswered, Unanswered
  <1>6. QED
    BY <1>3, <1>4, <1>5 DEF Bus, CameraData, SendFrame, OtherNode

LEMMA SimulatesPublish == ASSUME TypeOK, HandshakeInv, HandledInv, DeliveryInv, AsmPublish
                          PROVE  Delivery!Show
  <1>1. /\ asmPc = "publish" /\ sharedTop' = WholeImage(camImg)
        /\ UNCHANGED <<camImg, camChunk, camWait>>
    BY DEF AsmPublish, Publish, AsmGoto, SetImage, HandledInv, DeliveryInv, linkVars
  <1>2. camWait /\ IsLast
    BY <1>1 DEF HandledInv, Answering, HandshakeInv, CommBusy, DeliveryInv
  <1>3. sharedTop' # <<>> /\ sharedTop'[1].img = camImg
    <2>1. ChunksPerImage \in Nat /\ 1 \in 1..ChunksPerImage
      BY Constants
    <2>2. sharedTop' = [k \in 1..ChunksPerImage |-> [img |-> camImg, chunk |-> k - 1]]
      BY <1>1 DEF WholeImage
    <2>3. Len(sharedTop') = ChunksPerImage
      BY <2>1, <2>2
    <2>4. sharedTop'[1].img = camImg
      BY <2>1, <2>2
    <2>5. sharedTop' # <<>>
      <3>1. Len(<<>>) = 0 /\ Len(sharedTop') # 0
        BY <2>1, <2>3
      <3>2. QED
        BY <3>1
    <2>6. QED
      BY <2>4, <2>5
  <1>4. camImg \in 1..Images
    BY <1>2, Constants DEF TypeOK, LinkTypeOK, CameraDone
  <1>5. sharedTop # <<>> => sharedTop[1].img < camImg
    BY <1>1 DEF DeliveryInv, ShownEarlier
  <1>6. QED
    BY <1>1, <1>2, <1>3, <1>4, <1>5, Constants DEF Delivery!Show, NoImage, IsLast, LastChunk

\* With the camera alone on the bus and images that fit, the image on show is
\* the newest one completely sent, and no image is shown twice or after a newer
\* one: the pipeline implements ImageDelivery.
THEOREM PipelineDelivers == ASSUME Alone, Fits PROVE Spec => DeliverySpec
  <1> Orderly
    BY DEF Alone
  <1>1. TypeOK /\ HandshakeInv /\ WholeImageInv /\ [Next]_vars => WholeImageInv'
    BY WholeImageStep
  <1>2. TypeOK /\ HandshakeInv /\ WholeImageInv /\ HandledInv /\ AloneInv /\ DeliveryInv /\ [Next]_vars
          => DeliveryInv'
    BY DeliveryStep
  <1>3. Spec => [](TypeOK /\ HandshakeInv /\ HandledInv /\ AloneInv /\ DeliveryInv)
    BY <1>1, <1>2, WholeImageInit, DeliveryInit, AloneAlways, HandledAlways, TypeCorrect, PTL DEF Spec
  <1>4. Init => Delivery!Init
    BY DEF Init, LinkInit, SharedInit, Delivery!Init
  <1>5. ASSUME TypeOK, HandshakeInv, HandledInv, DeliveryInv, [Next]_vars
        PROVE  Delivery!Next \/ UNCHANGED <<SentImages, ShownImage>>
    <2>1. CASE Bus
      BY <1>5, <2>1, SimulatesBus DEF Delivery!Next
    <2>2. CASE AsmPublish
      BY <1>5, <2>2, SimulatesPublish DEF Delivery!Next
    <2>3. CASE CommConfirm
      BY <1>5, <2>3, ConfirmKeepsSent DEF CommConfirm, sharedVars, ShownImage, NoImage
    <2>4. CASE CommTake \/ CommRun \/ CommTick \/ AsmTakes \/ AsmFrame \/ AsmImage \/ ClsRun \/ UNCHANGED vars
      <3>1. ClsRun => UNCHANGED sharedTop
        BY DEF ClsRun, ClsStep, ClsTake, ClsLock, ClsDims, ClsTop, ClsBottom, sharedVars
      <3>2. UNCHANGED <<camImg, camChunk, camWait, sharedTop>>
        BY <2>4, <3>1 DEF CommTake, CommRun, CommTick, AsmTakes, AsmFrame, AsmImage, ClsRun, vars, linkVars, sharedVars
      <3>3. QED
        BY <3>2 DEF SentImages, ShownImage, NoImage, IsLast, LastChunk
    <2>5. QED
      BY <1>5, <2>1, <2>2, <2>3, <2>4 DEF Next, Comm, Asm
  <1>6. TypeOK /\ HandshakeInv /\ HandledInv /\ DeliveryInv /\ [Next]_vars
          => [Delivery!Next]_<<SentImages, ShownImage>>
    BY <1>5
  <1>7. QED
    BY <1>3, <1>4, <1>6, PTL DEF Spec, DeliverySpec, Delivery!Spec, SentImages, ShownImage
===============================================================================
