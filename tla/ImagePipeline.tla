---------------------------- MODULE ImagePipeline -----------------------------
(***************************************************************************)
(* The image pipeline of the classifier node: the camera and other nodes   *)
(* on the bus, the receive interrupt, and the three tasks it feeds, under  *)
(* FreeRTOS's preemptive fixed-priority scheduler on one core:             *)
(*                                                                         *)
(*   interrupt > imageAssemblerTask (2) > communicationTask (1)            *)
(*             > imageClassificationTask (0)                               *)
(*                                                                         *)
(* A task takes a step only when no task above it is ready; the interrupt  *)
(* takes one between any two.                                              *)
(***************************************************************************)
EXTENDS ImageAssembler

VARIABLES everShown   \* history: the images that were published

vars == <<linkVars, rxVars, commVars, queueVars, sharedVars, clsVars, asmVars, everShown>>

Init ==
  LinkInit /\ ReceptionInit /\ SharedInit /\ AssemblerInit /\ everShown = {}

taskVars == <<commVars, queueVars, sharedVars, clsVars, asmVars, everShown>>

-------------------------------------------------------------------------------
(* The bus.  A frame reaches the interrupt as soon as it is sent.          *)

\* A data frame of the camera is received.  Frame 30 of a text starts with
\* 0x1E, and five more such bytes make a marker of it.
CameraData ==
  \E f \in CameraFrame :
    /\ SendFrame(f) /\ UNCHANGED taskVars
    /\ \/ ~f.ff /\ RecvData(f) /\ NoFault
       \/ f.ff /\ RecvData(f) /\ MayFault("trailingFF") /\ Fault
       \/ ~f.ff /\ (\E eoi \in BOOLEAN : RecvEndOfFrame(eoi)) /\ MayFault("marker") /\ Fault

\* Its end-of-frame marker is received.
CameraEndOfFrame ==
  SendEndOfFrame /\ RecvEndOfFrame(IsLast) /\ NoFault /\ UNCHANGED taskVars

\* A frame of the camera is lost: the controller's receive FIFO overran.
LoseFrame ==
  /\ MayFault("loss") /\ Fault
  /\ SendEndOfFrame \/ \E f \in CameraFrame : ~f.ff /\ SendFrame(f)
  /\ UNCHANGED <<rxVars, taskVars>>

\* Another node sends a frame.  The interrupt copies only the bytes a frame
\* has and looks at all eight: the rest of a short one is what the stack holds,
\* which may be an earlier marker.
OtherNode ==
  \E id \in ForeignIds :
    /\ Len(foreign) < MaxForeign /\ foreign' = Append(foreign, camImg)
    /\ IF id = "short" THEN \E eoi \in BOOLEAN : RecvEndOfFrame(eoi) ELSE RecvData([id |-> id])
    /\ UNCHANGED <<camImg, camChunk, camPos, camWait, faults, damaged, taskVars>>

\* Nothing on the fusion node is going to answer the camera.
Unanswered == commPc \in {"take", "delay100"} /\ ~rxNotified

\* The camera gives up waiting, and repeats the chunk or goes on.  It waits
\* longer than the fusion node takes to answer, unless it is impatient.
CameraTimeout ==
  /\ camWait /\ (Resend \/ Advance)
  /\ \/ Unanswered /\ NoFault
     \/ ~Unanswered /\ MayFault("impatient") /\ Fault
  /\ UNCHANGED <<rxVars, taskVars>>

-------------------------------------------------------------------------------
(* The tasks.                                                              *)

CommTake ==
  Take /\ ~AsmReady /\ UNCHANGED <<linkVars, sharedVars, clsVars, asmVars, everShown>>

\* The assembler may be held up by the log mutex, if the classifier was
\* preempted in the middle of a log line; communicationTask, whose own lines are
\* below the log level, then goes on to its delay, which outlasts that line.
CommRun ==
  /\ CommStep /\ (AsmReady => commPc = "clear")
  /\ UNCHANGED <<linkVars, sharedVars, clsVars, asmVars, everShown>>

\* The tick interrupt ends a delay.  The delays (10 ms and more) outlast the
\* few instructions for which the classifier holds the image mutex.
CommTick ==
  DelayOver /\ clsPc # "dims" /\ UNCHANGED <<linkVars, sharedVars, clsVars, asmVars, everShown>>

\* The confirmation is sent, or its transmission fails.
CommConfirm ==
  /\ Confirm /\ ~AsmReady
  /\ \/ Confirmed /\ NoFault
     \/ MayFault("loss") /\ camWait /\ Fault /\ UNCHANGED <<camImg, camChunk, camPos, camWait, foreign>>
  /\ UNCHANGED <<sharedVars, clsVars, asmVars, everShown>>

AsmTakes ==
  AsmWait /\ UNCHANGED <<linkVars, rxVars, commVars, sharedVars, clsVars, everShown>>

AsmFrame ==
  AssembleFrame /\ UNCHANGED <<linkVars, rxVars, commVars, sharedVars, clsVars, everShown>>

AsmImage ==
  AssembleImage /\ UNCHANGED <<linkVars, rxVars, commVars, sharedVars, clsVars, everShown>>

AsmPublish ==
  /\ Publish
  /\ everShown' = IF asmKind = "oversize" THEN everShown ELSE everShown \cup {asmImageId}
  /\ UNCHANGED <<linkVars, rxVars, commVars, clsPc, clsTop, clsInput>>

ClsRun ==
  /\ ClsStep /\ ~AsmReady /\ ~CommReady
  /\ UNCHANGED <<linkVars, rxVars, commVars, queueVars, asmVars, everShown>>

Bus == CameraData \/ CameraEndOfFrame \/ LoseFrame \/ OtherNode \/ CameraTimeout
Comm == CommTake \/ CommRun \/ CommTick \/ CommConfirm
Asm == AsmTakes \/ AsmFrame \/ AsmImage \/ AsmPublish

Next == Bus \/ Comm \/ Asm \/ ClsRun

Spec == Init /\ [][Next]_vars

\* The scheduler runs a ready task, and the camera goes on sending; nobody
\* owes a fault, a timeout or another node's frame.
Fairness ==
  /\ WF_vars(CameraData \/ CameraEndOfFrame)
  /\ WF_vars(Comm) /\ WF_vars(Asm) /\ WF_vars(ClsRun)

FairSpec == Spec /\ Fairness

-------------------------------------------------------------------------------
\* Every variable has the shape its code declares, and no queue exceeds its length.
TypeOK ==
  /\ LinkTypeOK /\ ReceptionTypeOK /\ SharedTypeOK /\ AssemblerTypeOK
  /\ everShown \subseteq 1..Images

\* All the chunks of image i, in order.
WholeImage(i) == [k \in 1..ChunksPerImage |-> [img |-> i, chunk |-> k - 1]]

\* What is published is a whole image: every chunk of one image, in order,
\* although the end-of-image mark travels apart from the chunk it belongs to,
\* through a flag any frame resets, and the chunk count is never checked.
PublishedWhole ==
  asmPc = "publish" => \E i \in 1..Images : asmPic = WholeImage(i)

\* A waiting camera is going to be answered: its marker is still to be taken
\* by communicationTask, or is being handled (no wake-up is lost between the
\* interrupt and the task's unlocked reads and resets).
WaitingIsAnswered == camWait /\ commPc # "dead" => ~Unanswered

\* clearBuffer discards nothing that was not stored first.
ClearLosesNothing == commPc = "clear" => rxMsgVector = batch

\* The interrupt never appends to the vector while the task copies it.
CopyIsUndisturbed == [][commPc = "copying" => UNCHANGED rxMsgVector]_vars

\* communicationTask never overwrites a notification the assembler has not taken.
NotificationTaken == [][asmNotify.pending /\ asmNotify'.pending => asmNotify' = asmNotify]_vars

\* When the confirmation is sent ("Sending confirmation to complete assembled
\* frame", CommunicationManager.cpp:131), the chunk has left the frame queue
\* and the assembler is done with it.
ConfirmedIsAssembled ==
  [][commPc = "confirm" /\ commPc' = "delay100" =>
       cameraFramesQueue = <<>> /\ ~asmNotify.pending /\ asmPc = "wait"]_vars

\* An idle classifier has seen the image on show, and all of it: pixels torn
\* by a publication during its read are always read again.
IdleIsCurrent ==
  clsPc = "wait" /\ ~clsNotified /\ sharedDims = "expected" => clsInput = <<sharedTop, sharedBottom>>

\* Whatever is lost, the chunks published are of one image, from its first on
\* and in order; one that lacks its end is an image some fault touched.
PublishedInOrder ==
  asmPc = "publish" =>
    \E i \in 1..Images :
      /\ asmPic = SubSeq(WholeImage(i), 1, Len(asmPic))
      /\ asmPic = WholeImage(i) \/ i \in damaged

\* A fault, or a frame of another node, costs the image it hits and at most the
\* one after it.
LossIsContained ==
  \A i \in 1..Images :
    camImg > i => i \in everShown \/ {i - 1, i} \cap (damaged \cup Crossed) # {}

\* communicationTask is never killed by a full queue, although a lost marker
\* lets the frames of a repeated chunk pile up on those of its first try.
CommSurvives == commPc # "dead"

\* Every image is published in the end, unless a fault hit it or the one before.
ImagesArrive ==
  \A i \in 1..Images : <>(i \in everShown \/ {i - 1, i} \cap damaged # {})

\* An image on show is classified, both halves of it, or replaced.
ShownIsClassified ==
  \A i \in 1..Images :
    sharedTop = WholeImage(i) /\ sharedDims = "expected" ~>
      clsInput = <<WholeImage(i), WholeImage(i)>> \/ sharedTop # WholeImage(i)

-------------------------------------------------------------------------------
\* The pipeline implements ImageDelivery: an image counts as sent when its last
\* end-of-frame marker is, and the image on show is the shared one.
Delivery == INSTANCE ImageDelivery WITH
  sent  <- IF camWait /\ IsLast THEN camImg ELSE camImg - 1,
  shown <- IF sharedTop = NoImage THEN 0 ELSE sharedTop[1].img

DeliverySpec == Delivery!Spec

\* On a bus that loses frames and is shared with other nodes it implements
\* LossyDelivery: whatever piles up in the vector and the queues, no image comes
\* back after a newer one, none is shown in part and the camera leaves none behind
\* unless something excuses it.
LossyShow == INSTANCE LossyDelivery WITH
  sent    <- camImg - 1,
  shown   <- IF sharedTop = NoImage THEN 0 ELSE sharedTop[1].img,
  whole   <- sharedTop = NoImage \/ sharedTop = WholeImage(sharedTop[1].img),
  touched <- damaged \cup Crossed

LossyDeliverySpec == LossyShow!Spec
===============================================================================
