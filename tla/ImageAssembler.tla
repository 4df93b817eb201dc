---------------------------- MODULE ImageAssembler ----------------------------
(***************************************************************************)
(* imageAssemblerTask and ImageAssembler: woken by communicationTask, it   *)
(* drains the frames of one chunk, decodes them into a snapshot and, at    *)
(* the end of an image, drains the snapshots, decodes the image, hands it  *)
(* to SharedImage and notifies the classifier.                             *)
(*                                                                         *)
(* The task has the highest priority and its queues are only written by    *)
(* tasks it preempts, so each drain, sized before it starts, is one step.  *)
(***************************************************************************)
EXTENDS SharedImage, FiniteSets

CONSTANT SnapshotQueueLen   \* 200 in the code

\* A chunk's number has six bits, so the queue holds any image.
ASSUME SnapshotAssumption == SnapshotQueueLen \in Nat /\ SnapshotQueueLen >= ChunksPerImage

VARIABLES
  asmPc,       \* where imageAssemblerTask is
  asmMsg, asmEoi,    \* msgIndex and isEndOfImage of the notification it handles
  snapshots,   \* m_cameraSnapshotsQueue
  asmImageId,  \* imageId: the image of the chunk just decoded
  asmPic, asmKind    \* the decoded image it hands to setImage

asmVars == <<asmPc, asmMsg, asmEoi, snapshots, asmImageId, asmPic, asmKind>>

AssemblerInit ==
  /\ asmPc = "wait" /\ asmMsg = 0 /\ asmEoi = FALSE
  /\ snapshots = <<>> /\ asmImageId = 0 /\ asmPic = NoImage /\ asmKind = "unloadable"

AsmGoto(from, to) == asmPc = from /\ asmPc' = to

\* xTaskNotifyWait, and the fields of the value unpacked.
AsmWait ==
  /\ AsmGoto("wait", "frame") /\ asmNotify.pending
  /\ asmNotify' = [asmNotify EXCEPT !.pending = FALSE]
  /\ asmMsg' = asmNotify.msgIndex /\ asmEoi' = asmNotify.eoi
  /\ UNCHANGED <<cameraFramesQueue, lidarFramesQueue, snapshots, asmImageId, asmPic, asmKind>>

\* The frames assembleFrame keeps: those whose byte 0 is the notified one.
KeptFrames ==
  LET kept == {k \in 1..Len(cameraFramesQueue) : Byte0(cameraFramesQueue[k]) = asmMsg}
      Nth(n) == CHOOSE k \in kept : Cardinality({j \in kept : j < k}) = n - 1
  IN  [n \in 1..Cardinality(kept) |-> cameraFramesQueue[Nth(n)]]

\* The kept bytes decode to chunk c: all of its frames in order and nothing
\* else.  A genuine 0xFF at the end is stripped with the padding, and from_cbor
\* then runs out of bytes; so it does when a frame is missing.
DecodesTo(c) == Byte0(c) = asmMsg /\ KeptFrames = TextOf(c, FALSE)

\* The chunks that frames in the queue belong to.
Queued ==
  {[img |-> cameraFramesQueue[k].img, chunk |-> cameraFramesQueue[k].chunk] :
     k \in 1..Len(cameraFramesQueue)}

\* assembleFrame: the snapshot is queued, or silently dropped if the queue is full.
AssembleFrame ==
  /\ asmPc = "frame"
  /\ cameraFramesQueue' = <<>>
  /\ \/ \E c \in Queued :
          /\ DecodesTo(c)
          /\ snapshots' = IF Len(snapshots) < SnapshotQueueLen THEN Append(snapshots, c) ELSE snapshots
          /\ asmImageId' = c.img
          /\ asmPc' = IF asmEoi THEN "image" ELSE "wait"
     \/ /\ \A c \in Queued : ~DecodesTo(c)
        /\ asmPc' = "wait"
        /\ UNCHANGED <<snapshots, asmImageId>>
  /\ UNCHANGED <<lidarFramesQueue, asmNotify, asmMsg, asmEoi, asmPic, asmKind>>

\* Mutants: a snapshot's index, or its image, is not compared.
InSequenceImageOnly == \A k \in 1..Len(snapshots) : snapshots[k].img = asmImageId
InSequenceIndexOnly == \A k \in 1..Len(snapshots) : snapshots[k].chunk = k - 1

\* No snapshot is rejected: each is of this image and at the place its index says.
InSequence ==
  \A k \in 1..Len(snapshots) : snapshots[k].img = asmImageId /\ snapshots[k].chunk = k - 1

\* Mutant: a rejected image stays in the queue.
AssembleImageKeeping ==
  /\ asmPc = "image"
  /\ \/ ~InSequence /\ asmPc' = "wait" /\ UNCHANGED <<snapshots, asmPic, asmKind>>
     \/ /\ InSequence
        /\ snapshots' = <<>> /\ asmPic' = snapshots
        /\ asmKind' \in ImageKinds
        /\ asmPc' = IF asmKind' = "unloadable" THEN "wait" ELSE "publish"
  /\ UNCHANGED <<queueVars, asmMsg, asmEoi, asmImageId>>

\* Mutant: the result of stb_image is not checked.
AssembleImageUnchecked ==
  /\ asmPc = "image" /\ snapshots' = <<>>
  /\ \/ ~InSequence /\ asmPc' = "wait" /\ UNCHANGED <<asmPic, asmKind>>
     \/ InSequence /\ asmPic' = snapshots /\ asmKind' \in ImageKinds /\ asmPc' = "publish"
  /\ UNCHANGED <<queueVars, asmMsg, asmEoi, asmImageId>>

\* assembleImage up to loadImage: the queue is emptied whatever it held; what
\* was in sequence is decoded, and is loaded unless stb_image refuses it.
AssembleImage ==
  /\ asmPc = "image"
  /\ snapshots' = <<>>
  /\ \/ ~InSequence /\ asmPc' = "wait" /\ UNCHANGED <<asmPic, asmKind>>
     \/ /\ InSequence
        /\ asmPic' = snapshots
        /\ asmKind' \in ImageKinds
        /\ asmPc' = IF asmKind' = "unloadable" THEN "wait" ELSE "publish"
  /\ UNCHANGED <<queueVars, asmMsg, asmEoi, asmImageId>>

\* Mutant: the classifier is not told.
PublishWithoutNotice ==
  /\ AsmGoto("publish", "wait") /\ SetImage(asmPic, asmKind)
  /\ UNCHANGED <<clsNotified, queueVars, asmMsg, asmEoi, snapshots, asmImageId, asmPic, asmKind>>

\* loadImage and xTaskNotifyGive.  The throw on an oversize image skips the
\* notification and ends in assembleFrame's catch.
Publish ==
  /\ AsmGoto("publish", "wait")
  /\ SetImage(asmPic, asmKind)
  /\ clsNotified' = (clsNotified \/ asmKind # "oversize")
  /\ UNCHANGED <<queueVars, asmMsg, asmEoi, snapshots, asmImageId, asmPic, asmKind>>

\* Mutant: the assembler has the lowest priority.
AsmReadyNever == FALSE

\* imageAssemblerTask can run: it is neither waiting for a notification nor
\* blocked on the mutex.
AsmReady ==
  \/ asmPc \in {"frame", "image"}
  \/ asmPc = "wait" /\ asmNotify.pending
  \/ asmPc = "publish" /\ ~imgMutex

AssemblerTypeOK ==
  /\ asmPc \in {"wait", "frame", "image", "publish"}
  /\ asmMsg \in 0..255 /\ asmEoi \in BOOLEAN
  /\ snapshots \in Seq(Chunk) /\ Len(snapshots) <= SnapshotQueueLen
  /\ asmImageId \in 0..Images
  /\ asmPc \in {"image", "publish"} => asmImageId # 0
  /\ asmPic \in Picture
  /\ asmKind \in {"expected", "small", "oversize", "unloadable"}
  /\ asmPc = "publish" => asmKind # "unloadable"
===============================================================================
