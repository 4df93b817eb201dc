------------------------------ MODULE CameraLink ------------------------------
(***************************************************************************)
(* The CAN bus as the fusion node sees it, and the camera node at its other *)
(* end.  The camera node is not part of this repository: it is modelled    *)
(* from what the receiving code relies on (CommunicationManager.cpp,       *)
(* MsgGateway.cpp, ImageAssembler.cpp).                                    *)
(*                                                                         *)
(* An image is cut into chunks, a chunk is one CBOR text, and a text       *)
(* travels as CAN data frames followed by one end-of-frame marker          *)
(* (data[1..6] = 0x1E) whose data[7] says whether the image ends there.    *)
(* The camera then waits for FRAME_CONFIRMATION.                           *)
(***************************************************************************)
EXTENDS Naturals, Sequences

CONSTANTS
  Images,          \* how many images the camera sends (bounds the run)
  ChunksPerImage,  \* CBOR texts per image
  FramesPerChunk,  \* CAN data frames per text
  FaultKinds,      \* subset of {"loss", "trailingFF", "marker", "impatient"}
  MaxFaults,       \* how many faults the environment may commit
  ForeignIds,      \* kinds of frames the other nodes send
  MaxForeign       \* how many frames the other nodes may send

\* 8-bit image ids, 6 bits of chunk number in byte 0, 8 bits of frame number.
ASSUME LinkAssumption ==
  /\ Images \in 1..255
  /\ ChunksPerImage \in 1..64
  /\ FramesPerChunk \in 1..256
  /\ FaultKinds \subseteq {"loss", "trailingFF", "marker", "impatient"}
  /\ MaxFaults \in Nat
  /\ ForeignIds \subseteq {"lidar", "other", "empty", "short"}
  /\ MaxForeign \in Nat

VARIABLES
  camImg, camChunk, \* what the camera is sending
  camPos,           \* data frames of that chunk already sent
  camWait,          \* the marker is sent, no confirmation seen yet
  faults,           \* how many faults the environment committed
  foreign,          \* the images the camera was at when other nodes' frames came
  damaged           \* history: images some fault touched

linkVars == <<camImg, camChunk, camPos, camWait, faults, foreign, damaged>>

Chunk == [img : 1..Images, chunk : 0..ChunksPerImage - 1]

LastChunk == ChunksPerImage - 1

\* Byte 0 of every frame of a chunk: two bits of image id, six of chunk.
Byte0(c) == (c.img % 4) * 64 + c.chunk

\* ff: the frame ends with a 0xFF that belongs to the CBOR text.
CameraFrame == [id : {"camera"}, img : 1..Images, chunk : 0..ChunksPerImage - 1,
                pos : 0..FramesPerChunk - 1, ff : BOOLEAN]

\* "lidar": CAN id 0x19.  "other": an id no queue is kept for.  "empty": dlc 0.
ForeignFrame == [id : {"lidar", "other", "empty"}]

Frame == CameraFrame \cup ForeignFrame

\* The data frames of chunk c; the last one may end in a genuine 0xFF.
TextOf(c, ff) ==
  [p \in 1..FramesPerChunk |->
     [id |-> "camera", img |-> c.img, chunk |-> c.chunk, pos |-> p - 1,
      ff |-> ff /\ p = FramesPerChunk]]

CameraDone == camImg > Images

\* The images another node's frame came in between.
Crossed == {foreign[k] : k \in 1..Len(foreign)}

LinkInit ==
  /\ camImg = 1 /\ camChunk = 0 /\ camPos = 0 /\ camWait = FALSE
  /\ faults = 0 /\ foreign = <<>> /\ damaged = {}

\* The environment may commit one more fault of kind k.
MayFault(k) == k \in FaultKinds /\ faults < MaxFaults

Fault == faults' = faults + 1 /\ damaged' = damaged \cup {camImg}

NoFault == UNCHANGED <<faults, damaged>>

\* The camera puts data frame f on the bus.
SendFrame(f) ==
  /\ ~CameraDone /\ ~camWait /\ camPos < FramesPerChunk
  /\ f.id = "camera" /\ f.img = camImg /\ f.chunk = camChunk /\ f.pos = camPos
  /\ f.ff => camPos = FramesPerChunk - 1
  /\ camPos' = camPos + 1
  /\ UNCHANGED <<camImg, camChunk, camWait, foreign>>

\* The camera puts the end-of-frame marker on the bus and starts to wait.
SendEndOfFrame ==
  /\ ~CameraDone /\ ~camWait /\ camPos = FramesPerChunk
  /\ camWait' = TRUE
  /\ UNCHANGED <<camImg, camChunk, camPos, foreign>>

IsLast == camChunk = LastChunk

\* The chunk is done with: the next one, of this image or of the next.
Advance ==
  /\ camWait' = FALSE /\ camPos' = 0
  /\ camChunk' = IF IsLast THEN 0 ELSE camChunk + 1
  /\ camImg' = IF IsLast THEN camImg + 1 ELSE camImg
  /\ UNCHANGED foreign

\* FRAME_CONFIRMATION reaches the camera; one it did not wait for is ignored.
Confirmed == IF camWait THEN Advance ELSE UNCHANGED <<camImg, camChunk, camPos, camWait, foreign>>

\* No confirmation came: send the chunk again.
Resend ==
  /\ camWait /\ camWait' = FALSE /\ camPos' = 0
  /\ UNCHANGED <<camImg, camChunk, foreign>>

LinkTypeOK ==
  /\ camImg \in 1..Images + 1
  /\ camChunk \in 0..LastChunk
  /\ camPos \in 0..FramesPerChunk
  /\ camWait \in BOOLEAN /\ (camWait => ~CameraDone)
  /\ faults \in 0..MaxFaults
  /\ foreign \in Seq(1..Images + 1) /\ Len(foreign) <= MaxForeign
  /\ damaged \subseteq 1..Images
===============================================================================
