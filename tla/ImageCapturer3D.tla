-------------------------- MODULE ImageCapturer3D ---------------------------
(***************************************************************************)
(* ImageCapturer3D and image3dCapturerTask: the head sweeps its field of   *)
(* view line by line, right to left and back, takes a distance at every    *)
(* angle and writes it into the next point of m_3DImage.                   *)
(*                                                                         *)
(* In the build of the repository FAKE_VALUES leaves the lidar out of the  *)
(* sweep ("fake"); the other builds are the same source without it.        *)
(***************************************************************************)
EXTENDS GarminV3LiteCtrl, FiniteSets

CONSTANTS
  MinH, MaxH, ResH,     \* horizontal angles and their resolution
  MinV, MaxV, ResV,     \* vertical angles
  OffsetH, OffsetV,     \* what is subtracted from the angles of a point
  ImageSize             \* IMAGE3D_SIZE: points in m_3DImage

Columns == (MaxH - MinH) \div ResH + 1
Turns == (MaxV - MinV) \div (2 * ResV) + 1
Lines == 2 * Turns

ASSUME ScanAssumption ==
  /\ {MinH, MaxH, MinV, MaxV, OffsetH, OffsetV, ImageSize} \subseteq Nat
  /\ ResH \in Nat \ {0} /\ ResV \in Nat \ {0}
  /\ MinH <= MaxH /\ MinV <= MaxV
  /\ MaxH <= MaxAngle /\ MaxV + 2 * ResV <= MaxAngle
  /\ Lines * Columns <= ImageSize

VARIABLES
  pc,          \* where the task is
  hAngle, vAngle,
  back,        \* the second line of a turn, swept from minHorizontalAngle
  size,        \* image3dSize
  written,     \* the angles of the points written in this capture
  point        \* the point last written

scanVars == <<hAngle, vAngle, back, size, written, point>>
vars == <<pc, scanVars, lidar, i2cVars, headVars>>

Pcs == {"initialize", "lidar", "start", "wait", "aimV", "waitV", "aim", "measure", "store",
        "settle", "turn", "waitTurn", "report"}

(* A point keeps its angles as int8_t, cut down from what is subtracted.    *)
Int8(x) == IF x % 256 < 128 THEN x % 256 ELSE (x % 256) - 256
AnglesOf(h, v) == <<Int8(h - OffsetH), Int8(v - OffsetV)>>

Init ==
  /\ HeadInit /\ I2CInit /\ LidarInit
  /\ pc = "initialize" /\ hAngle = MaxH /\ vAngle = MinV /\ back = FALSE
  /\ size = 0 /\ written = {} /\ point = [h |-> MaxH, v |-> MinV, distance |-> Nowhere]

Goto(from, to) == pc = from /\ pc' = to
Idle == UNCHANGED <<lidar, i2cVars>>

(* initialize: without FAKE_VALUES the lidar is tried until it answers      *)
(* with the expected serial number, without a pause.                        *)
Initialize ==
  /\ IF build = "fake"
     THEN Goto("initialize", "start") /\ UNCHANGED <<lidar, i2c, touched>>
     ELSE Goto("initialize", "lidar") /\ BeginInitialization
  /\ UNCHANGED <<scanVars, NotUsed>>

\* Mutant: the exception of the self-test ends the task.
LidarInitializedOnce ==
  /\ lidar.pc = "done" /\ Goto("lidar", "start")
  /\ UNCHANGED <<lidar, i2c, touched, scanVars, NotUsed>>

LidarInitialized ==
  /\ \/ lidar.pc = "done" /\ Goto("lidar", "start") /\ UNCHANGED <<lidar, i2c, touched>>
     \/ lidar.pc = "failed" /\ pc = "lidar" /\ BeginInitialization /\ UNCHANGED pc
  /\ UNCHANGED <<scanVars, NotUsed>>

-----------------------------------------------------------------------------
(* captureImage *)

(* The pulses come whatever the task does. *)
Delaying == pc \in {"wait", "waitV", "settle", "waitTurn"}
HorPulse == KeepsUp(hor, ResH) /\ hor' = Pulse(hor, Delaying) /\ UNCHANGED <<ver, slave>>
VerPulse == KeepsUp(ver, ResV) /\ ver' = Pulse(ver, Delaying) /\ UNCHANGED <<hor, slave>>

(* preciseDelayUs(10000) *)
DelayEnds ==
  /\ ~PulseIsDue(hor) /\ ~PulseIsDue(ver)
  /\ hor' = Later(hor) /\ ver' = Later(ver) /\ UNCHANGED slave
DelayOver(from, to) == Goto(from, to) /\ DelayEnds /\ Idle /\ UNCHANGED scanVars

\* Mutant: the index is not reset.
StartWithLastSize ==
  /\ Goto("start", "wait")
  /\ hor' = SetAngle(hor, MaxH) /\ written' = {}
  /\ hAngle' = MaxH /\ vAngle' = MinV /\ back' = FALSE
  /\ Idle /\ UNCHANGED <<size, point, ver, slave>>

Start ==
  /\ Goto("start", "wait")
  /\ hor' = SetAngle(hor, MaxH) /\ size' = 0 /\ written' = {}
  /\ hAngle' = MaxH /\ vAngle' = MinV /\ back' = FALSE
  /\ Idle /\ UNCHANGED <<point, ver, slave>>

AimV ==
  /\ Goto("aimV", "waitV") /\ ver' = SetAngle(ver, MinV)
  /\ Idle /\ UNCHANGED <<scanVars, hor, slave>>

(* The servo is told the angle and the lidar measures at once; the delay    *)
(* comes after.                                                             *)
Aim ==
  /\ hor' = SetAngle(hor, hAngle)
  /\ IF build = "fake"
     THEN Goto("aim", "store") /\ UNCHANGED <<lidar, i2c, touched>>
     ELSE Goto("aim", "measure") /\ BeginReadDistance
  /\ UNCHANGED <<scanVars, build, transfer, flags, faults, ver, slave>>

Measure ==
  /\ Goto("measure", "store") /\ lidar.pc = "done"
  /\ Idle /\ UNCHANGED <<scanVars, headVars>>

(* Nothing compares the index with the size of m_3DImage. *)
Store ==
  /\ Goto("store", "settle")
  /\ size' = size + 1 /\ written' = written \cup {AnglesOf(hAngle, vAngle)}
  /\ point' = [h |-> hAngle, v |-> vAngle, distance |-> lidar.distance]
  /\ Idle /\ UNCHANGED <<hAngle, vAngle, back, headVars>>

NextH == IF back THEN hAngle + ResH ELSE hAngle - ResH
InLine(h) == IF back THEN h <= MaxH ELSE h >= MinH

\* Mutant: the last angle of a line is left out.
SettleShort ==
  /\ DelayEnds
  /\ IF InLine(NextH) /\ NextH # (IF back THEN MaxH ELSE MinH)
     THEN Goto("settle", "aim") /\ hAngle' = NextH
     ELSE Goto("settle", "turn") /\ UNCHANGED hAngle
  /\ Idle /\ UNCHANGED <<vAngle, back, size, written, point>>

\* Mutant: the angle is compared before the step, not after.
SettleBeyond ==
  /\ DelayEnds
  /\ IF InLine(hAngle)
     THEN Goto("settle", "aim") /\ hAngle' = NextH
     ELSE Goto("settle", "turn") /\ UNCHANGED hAngle
  /\ Idle /\ UNCHANGED <<vAngle, back, size, written, point>>

Settle ==
  /\ DelayEnds
  /\ IF InLine(NextH)
     THEN Goto("settle", "aim") /\ hAngle' = NextH
     ELSE Goto("settle", "turn") /\ UNCHANGED hAngle
  /\ Idle /\ UNCHANGED <<vAngle, back, size, written, point>>

(* A line outlasts any longer move: the vertical servo has returned, the    *)
(* horizontal one is with the sweep.                                        *)
Turn ==
  /\ Goto("turn", "waitTurn") /\ Gap(hor.at, hor.pulse) <= 2 * ResH /\ Arrived(ver)
  /\ vAngle' = vAngle + ResV /\ ver' = SetAngle(ver, vAngle')
  /\ Idle /\ UNCHANGED <<hAngle, back, size, written, point, hor, slave>>

(* The way back is swept whatever its angle; only then is it compared.      *)
NextLine ==
  /\ pc = "waitTurn" /\ DelayEnds
  /\ IF back /\ vAngle > MaxV
     THEN pc' = "report" /\ UNCHANGED <<hAngle, back>>
     ELSE pc' = "aim" /\ back' = ~back /\ hAngle' = (IF back THEN MaxH ELSE MinH)
  /\ Idle /\ UNCHANGED <<vAngle, size, written, point>>

(* The task logs the points and sleeps for five seconds. *)
Report ==
  /\ Goto("report", "start") /\ Arrived(hor) /\ Arrived(ver)
  /\ Idle /\ UNCHANGED <<scanVars, headVars>>

-----------------------------------------------------------------------------
Below(step) == step /\ UNCHANGED <<pc, scanVars>>

TaskStep ==
  \/ Initialize \/ LidarInitialized \/ Start \/ AimV \/ Aim \/ Measure \/ Store \/ Settle
  \/ Turn \/ NextLine \/ Report
  \/ DelayOver("wait", "aimV") \/ DelayOver("waitV", "aim")
  \/ Below(LidarStep) \/ Below(I2CStep /\ UNCHANGED lidar)

Interrupt == IrqHandler /\ UNCHANGED <<pc, scanVars, lidar>>
HeadStep(step) == step /\ UNCHANGED <<pc, scanVars, lidar, i2cVars>>

Next ==
  \/ TaskStep \/ Interrupt
  \/ HeadStep(HorPulse) \/ HeadStep(VerPulse) \/ HeadStep(HorMoves) \/ HeadStep(VerMoves)
  \/ HeadStep(Measured)

Spec == Init /\ [][Next]_vars

(* The task is the only one of this build; pulses come, servos move, and    *)
(* the lidar completes a measurement.                                       *)
FairSpec ==
  /\ Spec /\ WF_vars(TaskStep) /\ WF_vars(Interrupt)
  /\ WF_vars(HeadStep(HorPulse)) /\ WF_vars(HeadStep(VerPulse))
  /\ WF_vars(HeadStep(HorMoves)) /\ WF_vars(HeadStep(VerMoves)) /\ WF_vars(HeadStep(Measured))

-----------------------------------------------------------------------------
(* Types of the sweep's, the driver's and the head's state. *)
TypeOK ==
  /\ I2CTypeOK /\ LidarTypeOK
  /\ pc \in Pcs /\ hAngle \in MinH .. MaxH /\ vAngle \in MinV .. MaxV + 2 * ResV
  /\ back \in BOOLEAN /\ size \in Nat
  /\ \A p \in written : p[1] \in -128 .. 127 /\ p[2] \in -128 .. 127
  /\ point \in [h : Angles, v : Angles, distance : Places]

(* captureImage writes inside m_3DImage, though it compares the index with  *)
(* nothing: the sweep ends in time, the line beyond maxVerticalAngle that   *)
(* the way back may add included (ImageCapturer3D.cpp:101-143).             *)
IndexInBounds == pc = "store" => size < ImageSize

(* A finished capture has each angle of every line once, and the lines are  *)
(* as many as the angles ask for, up to one more                            *)
(* (ImageCapturer3D.cpp:101-144).                                           *)
Grid ==
  {AnglesOf(MinH + c * ResH, MinV + l * ResV) : c \in 0 .. Columns - 1, l \in 0 .. Lines - 1}
CaptureIsComplete == pc = "report" => written = Grid /\ size = Cardinality(Grid)

(* A distance was measured near the angles it is stored with, though the    *)
(* sweep waits for neither the pulse nor the servo: within four steps of    *)
(* the horizontal angle, and in the line meant, except that the first three *)
(* points of a line may still belong to the line before it.  Not so in the  *)
(* first line, which is swept while the vertical servo returns, nor if a    *)
(* transfer failed, which nobody is told of                                 *)
(* (ImageCapturer3D.cpp:92-142, GarminV3LiteCtrl.cpp:139-167,               *)
(* PWMController.cpp:43-60).                                                *)
Near(a, b, distance) == Gap(a, b) <= distance
Into(h) == IF back THEN h - MinH ELSE MaxH - h
PointIsNear ==
  pc = "settle" /\ build # "fake" /\ slave.kind = "garmin" /\ ~touched /\ point.v # MinV =>
    /\ Near(point.distance.h, point.h, 4 * ResH)
    /\ Near(point.distance.v, point.v, IF Into(point.h) < 3 * ResH THEN ResV ELSE 0)

(* With polled transfers the captures go on whatever fails on the I2C bus   *)
(* for a while; with interrupts one lost event stops the task for ever      *)
(* (I2CController.cpp:126-254).                                             *)
CapturesGoOn ==
  build = "fake" \/ (build = "polling" /\ slave.kind = "garmin") ~> pc = "report"
=============================================================================
