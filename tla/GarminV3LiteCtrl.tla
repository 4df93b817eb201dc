-------------------------- MODULE GarminV3LiteCtrl --------------------------
(***************************************************************************)
(* GarminV3LiteCtrl: initialization (serial number, four registers) and    *)
(* readDistance (command, status until ready, distance).  None of them     *)
(* hears of an I2C error.                                                  *)
(***************************************************************************)
EXTENDS I2CController

VARIABLES
  lidar    \* where the driver is, settings still to be sent, the distance read

NotUsed == <<build, transfer, flags, faults, headVars>>

Settings == 3    \* configuration: registers set after ACQ_COMMAND

LidarPcs == {"idle", "i2c", "serial", "configure", "command", "status", "distance", "failed", "done"}

LidarInit == lidar = [pc |-> "idle", left |-> 0, distance |-> Nowhere]

LidarGoto(to) == lidar' = [lidar EXCEPT !.pc = to]

(* initialization and readDistance are called. *)
BeginInitialization == LidarGoto("i2c") /\ UNCHANGED <<i2c, touched>>
BeginReadDistance ==
  LidarGoto("command") /\ SendData("ACQ_COMMAND") /\ touched' = FALSE

Initialization ==
  /\ lidar.pc = "i2c"
  /\ \/ I2CInitialize(TRUE) /\ LidarGoto("serial") /\ ReadData("UNIT_ID")
     \/ I2CInitialize(FALSE) /\ LidarGoto("failed") /\ UNCHANGED i2c
  /\ UNCHANGED <<build, transfer, flags, headVars>>

SelfTest ==
  /\ lidar.pc = "serial" /\ I2CDone
  /\ IF i2c.reply.known
     THEN /\ lidar' = [lidar EXCEPT !.pc = "configure", !.left = Settings]
          /\ SendData("ACQ_COMMAND")
     ELSE LidarGoto("failed") /\ UNCHANGED i2c
  /\ UNCHANGED <<touched, NotUsed>>

Configuration ==
  /\ lidar.pc = "configure" /\ I2CDone
  /\ IF lidar.left > 0
     THEN lidar' = [lidar EXCEPT !.left = @ - 1] /\ SendData("SETTING")
     ELSE LidarGoto("done") /\ UNCHANGED i2c
  /\ UNCHANGED <<touched, NotUsed>>

ReadStatus ==
  /\ lidar.pc = "command" /\ I2CDone
  /\ LidarGoto("status") /\ ReadData("STATUS")
  /\ UNCHANGED <<touched, NotUsed>>

\* Mutant: the distance is read without waiting for the measurement.
CheckStatusOnce ==
  /\ lidar.pc = "status" /\ I2CDone
  /\ LidarGoto("distance") /\ ReadData("DISTANCE")
  /\ UNCHANGED <<touched, NotUsed>>

CheckStatus ==
  /\ lidar.pc = "status" /\ I2CDone
  /\ IF i2c.reply.busy
     THEN ReadData("STATUS") /\ UNCHANGED lidar
     ELSE LidarGoto("distance") /\ ReadData("DISTANCE")
  /\ UNCHANGED <<touched, NotUsed>>

ReadDistance ==
  /\ lidar.pc = "distance" /\ I2CDone
  /\ lidar' = [lidar EXCEPT !.pc = "done", !.distance = i2c.reply.place]
  /\ UNCHANGED <<i2c, touched, NotUsed>>

LidarStep == Initialization \/ SelfTest \/ Configuration \/ ReadStatus \/ CheckStatus \/ ReadDistance

LidarTypeOK == lidar \in [pc : LidarPcs, left : 0 .. Settings, distance : Places]
=============================================================================
