------------------------ MODULE ImageCapturer3D_proofs -----------------------
(* The sweep for all angles, resolutions and buffer sizes that satisfy
   ScanAssumption, in every build, with or without failing transfers: types,
   captureImage never writes behind m_3DImage, a finished capture holds each
   point once, and a distance was measured near the angles it is stored with. *)
EXTENDS ImageCapturer3D, FiniteSetTheorems, TLAPS

LEMMA DivMod ==
  ASSUME NEW a \in Nat, NEW d \in Nat \ {0}
  PROVE  /\ a \div d \in Nat /\ a % d \in 0 .. d - 1
         /\ (a \div d) * d + (a % d) = a
  OBVIOUS

LEMMA MultipleBelow ==
  ASSUME NEW a \in Nat, NEW d \in Nat \ {0}, NEW m \in Nat, m * d <= a
  PROVE  m <= a \div d
<1> DEFINE q == a \div d
<1>1. q \in Nat /\ a % d \in 0 .. d - 1 /\ q * d + (a % d) = a
  BY DivMod
<1> SUFFICES ASSUME m >= q + 1 PROVE FALSE
  BY <1>1
<1>2. m * d >= (q + 1) * d
  BY <1>1
<1>3. (q + 1) * d = q * d + d
  BY <1>1
<1> QED BY <1>1, <1>2, <1>3

LEMMA MultipleWithin ==
  ASSUME NEW a \in Nat, NEW d \in Nat \ {0}, NEW m \in Nat, m <= a \div d
  PROVE  m * d <= a
<1> DEFINE q == a \div d
<1>1. q \in Nat /\ a % d \in 0 .. d - 1 /\ q * d + (a % d) = a
  BY DivMod
<1>2. m * d <= q * d /\ m * d \in Nat /\ q * d \in Nat
  BY <1>1
<1> HIDE DEF q
<1> QED BY <1>1, <1>2

LEMMA LessTimes ==
  ASSUME NEW a \in Nat, NEW b \in Nat, NEW d \in Nat \ {0}
  PROVE  a < b <=> a * d < b * d
<1>1. a * d \in Nat /\ b * d \in Nat
  OBVIOUS
<1>2. CASE a < b
  <2>1. a + 1 <= b
    BY <1>2
  <2>2. (a + 1) * d <= b * d /\ (a + 1) * d = a * d + d
    BY <2>1
  <2> QED BY <1>1, <1>2, <2>2
<1>3. CASE b <= a
  <2>1. b * d <= a * d
    BY <1>3
  <2> QED BY <1>1, <1>3, <2>1
<1> QED BY <1>2, <1>3

LEMMA Parameters ==
  /\ MinH \in Nat /\ MaxH \in Nat /\ MinV \in Nat /\ MaxV \in Nat
  /\ ResH \in Nat \ {0} /\ ResV \in Nat \ {0} /\ ImageSize \in Nat
  /\ MinH <= MaxH /\ MinV <= MaxV
  /\ Columns \in Nat \ {0} /\ Turns \in Nat \ {0}
<1>1. /\ MinH \in Nat /\ MaxH \in Nat /\ MinV \in Nat /\ MaxV \in Nat
      /\ ResH \in Nat \ {0} /\ ResV \in Nat \ {0} /\ ImageSize \in Nat
      /\ MinH <= MaxH /\ MinV <= MaxV
  BY ScanAssumption
<1>2. MaxH - MinH \in Nat /\ MaxV - MinV \in Nat /\ 2 * ResV \in Nat \ {0}
  BY <1>1
<1>3. (MaxH - MinH) \div ResH \in Nat /\ (MaxV - MinV) \div (2 * ResV) \in Nat
  BY <1>1, <1>2, DivMod
<1> QED BY <1>1, <1>3 DEF Columns, Turns

(* A further angle of the same line, or a further turn, is one of those the
   angles have room for. *)
LEMMA NextColumn ==
  ASSUME NEW c \in Nat, (c + 1) * ResH <= MaxH - MinH
  PROVE  c + 1 <= Columns - 1
<1>1. MaxH - MinH \in Nat /\ ResH \in Nat \ {0} /\ c + 1 \in Nat
  BY Parameters
<1>2. c + 1 <= (MaxH - MinH) \div ResH /\ (MaxH - MinH) \div ResH \in Nat
  BY <1>1, MultipleBelow, DivMod
<1> QED BY <1>1, <1>2 DEF Columns

LEMMA NextTurn ==
  ASSUME NEW k \in Nat, (k + 1) * (2 * ResV) <= MaxV - MinV
  PROVE  k + 1 <= Turns - 1
<1>1. MaxV - MinV \in Nat /\ 2 * ResV \in Nat \ {0} /\ k + 1 \in Nat
  BY Parameters
<1>2. k + 1 <= (MaxV - MinV) \div (2 * ResV) /\ (MaxV - MinV) \div (2 * ResV) \in Nat
  BY <1>1, MultipleBelow, DivMod
<1> QED BY <1>1, <1>2 DEF Turns

-----------------------------------------------------------------------------
(* Where the sweep is: in turn k, on its way there or back, at column c; what
   has been written is at most the lines and columns before. *)
Scanning == {"wait", "aimV", "waitV", "aim", "measure", "store", "settle", "turn", "waitTurn"}

Line(k) == IF back THEN 2 * k + 1 ELSE 2 * k

SweepAt(k, c) ==
  /\ k <= Turns - 1 /\ c <= Columns - 1
  /\ hAngle = IF back THEN MinH + c * ResH ELSE MaxH - c * ResH
  /\ vAngle = MinV + (IF pc = "waitTurn" THEN Line(k) + 1 ELSE Line(k)) * ResV
  /\ size <= IF pc \in {"turn", "waitTurn"} THEN (Line(k) + 1) * Columns
             ELSE IF pc = "settle" THEN Line(k) * Columns + c + 1
             ELSE Line(k) * Columns + c

ScanInv ==
  /\ size \in Nat /\ back \in BOOLEAN
  /\ pc \in Scanning => \E k, c \in Nat : SweepAt(k, c)

LEMMA StepsOfScan ==
  ASSUME [Next]_vars
  PROVE  \/ Initialize \/ LidarInitialized \/ Start \/ AimV \/ Aim \/ Measure \/ Store
         \/ Settle \/ Turn \/ NextLine \/ Report
         \/ DelayOver("wait", "aimV") \/ DelayOver("waitV", "aim")
         \/ UNCHANGED <<pc, scanVars>>
<1>1. CASE TaskStep BY <1>1 DEF TaskStep, Below
<1>2. CASE ~TaskStep BY <1>2 DEF Next, Interrupt, HeadStep, vars
<1> QED BY <1>1, <1>2

LEMMA ScanInit == Init => ScanInv
<1> SUFFICES ASSUME Init PROVE ScanInv
  OBVIOUS
<1>1. size = 0 /\ back = FALSE /\ pc \notin Scanning
  BY DEF Init, Scanning
<1> QED BY <1>1 DEF ScanInv

LEMMA StoreFits == ScanInv => IndexInBounds
<1> SUFFICES ASSUME ScanInv, pc = "store" PROVE size < ImageSize
  BY DEF IndexInBounds
<1>1. PICK k \in Nat, c \in Nat : SweepAt(k, c)
  BY DEF ScanInv, Scanning
<1>2. size <= Line(k) * Columns + c /\ c <= Columns - 1 /\ Line(k) <= Lines - 1
  BY <1>1, Parameters DEF SweepAt, Line, Lines
<1>3. Line(k) \in Nat /\ Lines \in Nat /\ Columns \in Nat \ {0}
  BY <1>1, Parameters DEF Line, Lines
<1>4. (Line(k) + 1) * Columns <= Lines * Columns
  BY <1>2, <1>3
<1>5. (Line(k) + 1) * Columns = Line(k) * Columns + Columns
  BY <1>3
<1>6. Lines * Columns <= ImageSize
  BY ScanAssumption
<1>7. Line(k) * Columns \in Nat /\ Lines * Columns \in Nat /\ size \in Nat /\ ImageSize \in Nat
  BY <1>3, Parameters DEF ScanInv
<1> QED BY <1>2, <1>3, <1>4, <1>5, <1>6, <1>7

(* Steps that move neither the angles nor the index, from one place of the
   sweep to another of the same kind. *)
LEMMA SamePlace ==
  ASSUME ScanInv, UNCHANGED <<hAngle, vAngle, back, size>>,
         pc' \notin Scanning \/ (/\ pc \in Scanning \ {"turn", "settle", "waitTurn"}
                                /\ pc' \in Scanning \ {"turn", "settle", "waitTurn"})
                             \/ pc' = pc
  PROVE  ScanInv'
<1>1. CASE pc' \notin Scanning
  BY <1>1 DEF ScanInv
<1>2. CASE pc' \in Scanning
  <2>1. PICK k \in Nat, c \in Nat : SweepAt(k, c)
    BY <1>2 DEF ScanInv
  <2>2. SweepAt(k, c)'
    BY <1>2, <2>1 DEF SweepAt, Line
  <2> QED BY <2>2 DEF ScanInv
<1> QED BY <1>1, <1>2

LEMMA StoreStep == ScanInv /\ Store => ScanInv'
<1> SUFFICES ASSUME ScanInv, Store PROVE ScanInv'
  OBVIOUS
<1>1. PICK k \in Nat, c \in Nat : SweepAt(k, c)
  BY DEF ScanInv, Store, Goto, Scanning
<1>2. Line(k)' = Line(k) /\ Line(k) * Columns \in Nat /\ size' = size + 1 /\ size \in Nat
  BY Parameters DEF Store, Line, ScanInv
<1>3. pc = "store" /\ pc' = "settle"
  BY DEF Store, Goto
<1>4. SweepAt(k, c)'
  BY <1>1, <1>2, <1>3 DEF SweepAt, Store
<1> QED BY <1>2, <1>4 DEF ScanInv, Store

LEMMA SettleStep == ScanInv /\ Settle => ScanInv'
<1> SUFFICES ASSUME ScanInv, Settle PROVE ScanInv'
  OBVIOUS
<1> USE Parameters DEF ScanInv
<1>1. pc = "settle" /\ UNCHANGED <<vAngle, back, size>>
  BY DEF Settle, Goto
<1>2. PICK k \in Nat, c \in Nat : SweepAt(k, c)
  BY <1>1 DEF Scanning
<1>3. /\ Line(k)' = Line(k) /\ Line(k) \in Nat /\ Line(k) * Columns \in Nat
      /\ (Line(k) + 1) * Columns = Line(k) * Columns + Columns
  BY <1>1 DEF Line
<1>4. CASE InLine(NextH)
  <2>1. (c + 1) * ResH = c * ResH + ResH
    OBVIOUS
  <2>2. (c + 1) * ResH <= MaxH - MinH
    BY <1>1, <1>2, <1>4, <2>1 DEF SweepAt, InLine, NextH
  <2>3. c + 1 <= Columns - 1
    BY <2>2, NextColumn
  <2>4. hAngle' = IF back THEN MinH + (c + 1) * ResH ELSE MaxH - (c + 1) * ResH
    BY <1>2, <1>4, <2>1 DEF SweepAt, Settle, NextH
  <2>5. pc' = "aim"
    BY <1>4 DEF Settle, Goto
  <2>6. SweepAt(k, c + 1)'
    BY <1>1, <1>2, <1>3, <2>3, <2>4, <2>5 DEF SweepAt
  <2> QED BY <1>1, <2>6
<1>5. CASE ~InLine(NextH)
  <2>1. pc' = "turn" /\ hAngle' = hAngle
    BY <1>5 DEF Settle, Goto
  <2>2. SweepAt(k, c)'
    BY <1>1, <1>2, <1>3, <2>1 DEF SweepAt
  <2> QED BY <1>1, <2>2
<1> QED BY <1>4, <1>5

LEMMA TurnStep == ScanInv /\ Turn => ScanInv'
<1> SUFFICES ASSUME ScanInv, Turn PROVE ScanInv'
  OBVIOUS
<1> USE Parameters DEF ScanInv
<1>1. /\ pc = "turn" /\ pc' = "waitTurn" /\ vAngle' = vAngle + ResV
      /\ UNCHANGED <<hAngle, back, size>>
  BY DEF Turn, Goto
<1>2. PICK k \in Nat, c \in Nat : SweepAt(k, c)
  BY <1>1 DEF Scanning
<1>3. /\ Line(k)' = Line(k) /\ Line(k) \in Nat
      /\ (Line(k) + 1) * ResV = Line(k) * ResV + ResV
  BY <1>1 DEF Line
<1>4. vAngle' = MinV + (Line(k) + 1) * ResV
  BY <1>1, <1>2, <1>3 DEF SweepAt
<1>5. SweepAt(k, c)'
  BY <1>1, <1>2, <1>3, <1>4 DEF SweepAt
<1> QED BY <1>1, <1>5

LEMMA NextLineStep == ScanInv /\ NextLine => ScanInv'
<1> SUFFICES ASSUME ScanInv, NextLine PROVE ScanInv'
  OBVIOUS
<1> USE Parameters DEF ScanInv
<1>1. pc = "waitTurn" /\ UNCHANGED <<vAngle, size>>
  BY DEF NextLine
<1>2. PICK k \in Nat, c \in Nat : SweepAt(k, c)
  BY <1>1 DEF Scanning
<1>3. CASE back /\ vAngle > MaxV
  BY <1>1, <1>3 DEF NextLine, Scanning
<1>4. CASE ~back
  <2>1. pc' = "aim" /\ back' = TRUE /\ hAngle' = MinH
    BY <1>4 DEF NextLine
  <2>2. Line(k)' = 2 * k + 1 /\ Line(k) + 1 = 2 * k + 1
    BY <1>4, <2>1 DEF Line
  <2>3. vAngle = MinV + (2 * k + 1) * ResV /\ size <= (2 * k + 1) * Columns
    BY <1>1, <1>2, <2>2 DEF SweepAt
  <2>4. 0 * ResH = 0 /\ (2 * k + 1) * Columns + 0 = (2 * k + 1) * Columns
    OBVIOUS
  <2>5. SweepAt(k, 0)'
    BY <1>1, <1>2, <2>1, <2>2, <2>3, <2>4 DEF SweepAt
  <2> QED BY <1>1, <2>1, <2>5
<1>5. CASE back /\ ~(vAngle > MaxV)
  <2>1. pc' = "aim" /\ back' = FALSE /\ hAngle' = MaxH
    BY <1>5 DEF NextLine
  <2>2. Line(k + 1)' = 2 * (k + 1) /\ Line(k) + 1 = 2 * (k + 1)
    BY <1>5, <2>1 DEF Line
  <2>3. vAngle = MinV + (2 * (k + 1)) * ResV /\ size <= (2 * (k + 1)) * Columns
    BY <1>1, <1>2, <2>2 DEF SweepAt
  <2>4. (2 * (k + 1)) * ResV = (k + 1) * (2 * ResV)
    OBVIOUS
  <2>5. k + 1 <= Turns - 1
    BY <1>5, <2>3, <2>4, NextTurn
  <2>6. 0 * ResH = 0 /\ (2 * (k + 1)) * Columns + 0 = (2 * (k + 1)) * Columns
    OBVIOUS
  <2>7. SweepAt(k + 1, 0)'
    BY <1>1, <2>1, <2>2, <2>3, <2>5, <2>6 DEF SweepAt
  <2>8. k + 1 \in Nat /\ 0 \in Nat
    OBVIOUS
  <2> QED BY <1>1, <2>1, <2>7, <2>8
<1> QED BY <1>3, <1>4, <1>5

LEMMA StartStep == ScanInv /\ Start => ScanInv'
<1> SUFFICES ASSUME ScanInv, Start PROVE ScanInv'
  OBVIOUS
<1>1. pc' = "wait" /\ hAngle' = MaxH /\ vAngle' = MinV /\ back' = FALSE /\ size' = 0
  BY DEF Start, Goto
<1>2. Line(0)' = 0 /\ 0 * ResH = 0 /\ 0 * ResV = 0 /\ 0 * Columns = 0
  BY <1>1, Parameters DEF Line
<1>3. SweepAt(0, 0)'
  BY <1>1, <1>2, Parameters DEF SweepAt
<1> QED BY <1>1, <1>3 DEF ScanInv

LEMMA ScanStep == ScanInv /\ [Next]_vars => ScanInv'
<1> SUFFICES ASSUME ScanInv, [Next]_vars PROVE ScanInv'
  OBVIOUS
<1> USE DEF Goto, Scanning, scanVars
<1>1. CASE Initialize BY <1>1, SamePlace DEF Initialize
<1>2. CASE LidarInitialized BY <1>2, SamePlace DEF LidarInitialized
<1>3. CASE Start BY <1>3, StartStep
<1>4. CASE AimV BY <1>4, SamePlace DEF AimV
<1>5. CASE Aim BY <1>5, SamePlace DEF Aim
<1>6. CASE Measure BY <1>6, SamePlace DEF Measure
<1>7. CASE Store BY <1>7, StoreStep
<1>8. CASE Settle BY <1>8, SettleStep
<1>9. CASE Turn BY <1>9, TurnStep
<1>10. CASE NextLine BY <1>10, NextLineStep
<1>11. CASE Report BY <1>11, SamePlace DEF Report
<1>12. CASE DelayOver("wait", "aimV") BY <1>12, SamePlace DEF DelayOver
<1>13. CASE DelayOver("waitV", "aim") BY <1>13, SamePlace DEF DelayOver
<1>14. CASE UNCHANGED <<pc, scanVars>> BY <1>14, SamePlace
<1> QED BY <1>1, <1>2, <1>3, <1>4, <1>5, <1>6, <1>7, <1>8, <1>9, <1>10, <1>11, <1>12, <1>13,
           <1>14, StepsOfScan

(* Every write of captureImage is inside m_3DImage. *)
THEOREM CaptureInBounds == Spec => []IndexInBounds
<1>1. Spec => []ScanInv
  BY ScanInit, ScanStep, PTL DEF Spec
<1> QED BY <1>1, StoreFits, PTL

-----------------------------------------------------------------------------
(* Type correctness of the driver, the controller and the head. *)

LEMMA HeadParameters ==
  /\ MaxAngle \in Nat /\ Parked \subseteq Angles /\ Slaves \subseteq {"garmin", "simulator"}
  /\ Builds \subseteq {"polling", "irq", "fake"} /\ Faults \in Nat
  /\ MaxH <= MaxAngle /\ MaxV + 2 * ResV <= MaxAngle
  BY HeadAssumption, I2CAssumption, ScanAssumption DEF Angles

Replying == [busy : BOOLEAN, known : BOOLEAN, place : Places]

DriverTypeOK ==
  /\ I2CTypeOK /\ LidarTypeOK
  /\ i2c.reads => i2c.register \in Registers

LEMMA ReplyTypes ==
  ASSUME slave \in [kind : Slaves, register : Registers, busy : BOOLEAN, place : Places]
  PROVE  /\ NoReply \in Replying /\ Nowhere \in Places /\ Garbage \subseteq Replying
         /\ \A register : Replies(register) \subseteq Replying
<1>1. NoReply \in Replying /\ Nowhere \in Places /\ Garbage \subseteq Replying
  BY DEF NoReply, Reply, Replying, Places, Garbage
<1>2. LidarReply \in Replying /\ SimulatorReply \in Replying
  BY <1>1 DEF LidarReply, SimulatorReply, Reply, Replying
<1> QED BY <1>1, <1>2 DEF Replies

LEMMA DriverInit == Init => DriverTypeOK
<1> SUFFICES ASSUME Init PROVE DriverTypeOK
  OBVIOUS
<1>1. hor \in Servos /\ ver \in Servos
  BY HeadParameters DEF Init, HeadInit, AtRest, Servos, Ages, PwmPeriod
<1>2. slave \in [kind : Slaves, register : Registers, busy : BOOLEAN, place : Places]
  BY DEF Init, HeadInit, Registers, Places
<1>3. NoReply \in Replying /\ Nowhere \in Places
  BY <1>2, ReplyTypes
<1>4. I2CTypeOK /\ ~i2c.reads
  <2>1. I2CInit
    BY DEF Init
  <2>2. /\ i2c \in [pc : {"idle", "send", "sending", "recv", "receiving", "done"},
                    register : Registers \cup {"ACQ_COMMAND", "SETTING"}, reads : BOOLEAN,
                    reply : [busy : BOOLEAN, known : BOOLEAN, place : Places]]
        /\ ~i2c.reads
    BY <1>3, <2>1 DEF I2CInit, Registers, Replying
  <2>3. faults \in 0 .. Faults
    BY <2>1, HeadParameters DEF I2CInit
  <2> QED BY <1>1, <1>2, <2>1, <2>2, <2>3 DEF I2CInit, I2CTypeOK
<1>5. LidarTypeOK
  BY <1>3 DEF Init, LidarInit, LidarTypeOK, LidarPcs, Settings
<1> QED BY <1>4, <1>5 DEF DriverTypeOK

(* The calls the driver makes of the controller. *)
LEMMA CallTypes ==
  ASSUME DriverTypeOK, NEW r,
         \/ SendData(r) /\ r \in {"ACQ_COMMAND", "SETTING"}
         \/ ReadData(r) /\ r \in Registers
         \/ UNCHANGED i2c
  PROVE  /\ i2c' \in [pc : {"idle", "send", "sending", "recv", "receiving", "done"},
                      register : Registers \cup {"ACQ_COMMAND", "SETTING"}, reads : BOOLEAN,
                      reply : [busy : BOOLEAN, known : BOOLEAN, place : Places]]
         /\ (i2c.reads => i2c.register \in Registers)'
  BY DEF DriverTypeOK, I2CTypeOK, SendData, ReadData

LEMMA FaultTypes ==
  ASSUME faults \in 0 .. Faults, Fails
  PROVE  faults' \in 0 .. Faults /\ touched' \in BOOLEAN
<1>1. Faults \in Nat /\ faults > 0 /\ faults' = faults - 1 /\ touched' = TRUE
  BY HeadParameters DEF Fails
<1> QED BY <1>1

LEMMA LidarStepTypes == DriverTypeOK /\ LidarStep => DriverTypeOK'
<1> SUFFICES ASSUME DriverTypeOK, LidarStep PROVE DriverTypeOK'
  OBVIOUS
<1>1. /\ "ACQ_COMMAND" \in {"ACQ_COMMAND", "SETTING"}
      /\ "SETTING" \in {"ACQ_COMMAND", "SETTING"}
      /\ {"UNIT_ID", "STATUS", "DISTANCE"} \subseteq Registers
  BY DEF Registers
<1>2. /\ i2c' \in [pc : {"idle", "send", "sending", "recv", "receiving", "done"},
                   register : Registers \cup {"ACQ_COMMAND", "SETTING"}, reads : BOOLEAN,
                   reply : [busy : BOOLEAN, known : BOOLEAN, place : Places]]
      /\ (i2c.reads => i2c.register \in Registers)'
  <2>1. CASE Initialization BY <1>1, <2>1, CallTypes DEF Initialization
  <2>2. CASE SelfTest BY <1>1, <2>2, CallTypes DEF SelfTest
  <2>3. CASE Configuration BY <1>1, <2>3, CallTypes DEF Configuration
  <2>4. CASE ReadStatus BY <1>1, <2>4, CallTypes DEF ReadStatus
  <2>5. CASE CheckStatus BY <1>1, <2>5, CallTypes DEF CheckStatus
  <2>6. CASE ReadDistance BY <1>1, <2>6, CallTypes DEF ReadDistance
  <2> QED BY <2>1, <2>2, <2>3, <2>4, <2>5, <2>6 DEF LidarStep
<1>3. lidar' \in [pc : LidarPcs, left : 0 .. Settings, distance : Places]
  <2> USE DEF DriverTypeOK, LidarTypeOK, LidarPcs, Settings, LidarGoto
  <2>1. CASE Initialization BY <2>1 DEF Initialization
  <2>2. CASE SelfTest
    <3>1. lidar \in [pc : LidarPcs, left : 0 .. 3, distance : Places]
      OBVIOUS
    <3>2. CASE lidar' = [lidar EXCEPT !.pc = "configure", !.left = 3]
      <4> HIDE DEF DriverTypeOK, LidarTypeOK, LidarPcs, Settings, LidarGoto
      <4>0. lidar = [pc |-> lidar.pc, left |-> lidar.left, distance |-> lidar.distance]
            /\ lidar.distance \in Places
        BY <3>1
      <4>1. lidar' = [pc |-> "configure", left |-> 3, distance |-> lidar.distance]
        BY <3>2, <4>0
      <4>2. "configure" \in LidarPcs /\ 3 \in 0 .. 3 /\ Settings = 3
        BY DEF LidarPcs, Settings
      <4> QED BY <4>0, <4>1, <4>2
    <3>3. CASE lidar' = [lidar EXCEPT !.pc = "failed"]
      BY <3>1, <3>3
    <3> QED BY <2>2, <3>2, <3>3 DEF SelfTest
  <2>3. CASE Configuration
    <3>1. \/ lidar.left > 0 /\ lidar' = [lidar EXCEPT !.left = lidar.left - 1]
          \/ lidar' = [lidar EXCEPT !.pc = "done"]
      BY <2>3 DEF Configuration
    <3> QED BY <3>1
  <2>4. CASE ReadStatus BY <2>4 DEF ReadStatus
  <2>5. CASE CheckStatus BY <2>5 DEF CheckStatus
  <2>6. CASE ReadDistance
    <3>1. i2c.reply.place \in Places
      BY DEF I2CTypeOK
    <3> QED BY <2>6, <3>1 DEF ReadDistance
  <2> QED BY <2>1, <2>2, <2>3, <2>4, <2>5, <2>6 DEF LidarStep
<1>4. /\ UNCHANGED <<build, transfer, flags, headVars>>
      /\ UNCHANGED <<faults, touched>> \/ Fails
  BY DEF LidarStep, Initialization, SelfTest, Configuration, ReadStatus, CheckStatus,
     ReadDistance, NotUsed, I2CInitialize, Succeeds, headVars
<1>5. faults' \in 0 .. Faults /\ touched' \in BOOLEAN
  BY <1>4, FaultTypes DEF DriverTypeOK, I2CTypeOK
<1> QED BY <1>2, <1>3, <1>4, <1>5 DEF DriverTypeOK, I2CTypeOK, LidarTypeOK, headVars

LEMMA I2CStepTypes ==
  DriverTypeOK /\ UNCHANGED lidar /\ (I2CStep \/ IrqHandler) => DriverTypeOK'
<1> SUFFICES ASSUME DriverTypeOK, UNCHANGED lidar, I2CStep \/ IrqHandler PROVE DriverTypeOK'
  OBVIOUS
<1> USE DEF DriverTypeOK, I2CTypeOK
<1>1. LidarTypeOK' /\ build' = build /\ hor' = hor /\ ver' = ver
  BY DEF I2CStep, PolledSend, PolledRecv, StartSend, AwaitSend, StartRecv, AwaitRecv,
     IrqHandler, headVars, LidarTypeOK
<1>2. faults' \in 0 .. Faults /\ touched' \in BOOLEAN
  <2>1. (faults' = faults /\ touched' = touched) \/ Fails
    BY DEF I2CStep, PolledSend, PolledRecv, StartSend, AwaitSend, StartRecv, AwaitRecv,
       IrqHandler, Succeeds
  <2> QED BY <2>1, FaultTypes
<1>3. slave' \in [kind : Slaves, register : Registers, busy : BOOLEAN, place : Places]
  <2>1. slave' = slave \/ Delivered
    BY DEF I2CStep, PolledSend, PolledRecv, StartSend, AwaitSend, StartRecv, AwaitRecv,
       IrqHandler, Completed, FailedEvent, headVars
  <2>2. CASE slave' = slave BY <2>2
  <2>3. CASE Delivered BY <2>3 DEF Delivered, AskedFor, WrittenTo
  <2> QED BY <2>1, <2>2, <2>3
<1>4. /\ transfer' \in {"none", "send", "recv"}
      /\ flags' \in [sent : BOOLEAN, received : BOOLEAN, error : BOOLEAN, counted : BOOLEAN]
  <2>1. CASE PolledSend \/ PolledRecv BY <2>1 DEF PolledSend, PolledRecv
  <2>2. CASE StartSend BY <2>2 DEF StartSend
  <2>3. CASE AwaitSend BY <2>3 DEF AwaitSend
  <2>4. CASE StartRecv BY <2>4 DEF StartRecv
  <2>5. CASE AwaitRecv BY <2>5 DEF AwaitRecv
  <2>6. CASE IrqHandler
    <3>1. transfer' \in {"none", "send", "recv"}
      BY <2>6 DEF IrqHandler
    <3>2. flags' \in [sent : BOOLEAN, received : BOOLEAN, error : BOOLEAN, counted : BOOLEAN]
      <4>1. CASE Completed BY <4>1 DEF Completed
      <4>2. CASE FailedEvent BY <4>2 DEF FailedEvent
      <4> QED BY <2>6, <4>1, <4>2 DEF IrqHandler
    <3> QED BY <3>1, <3>2
  <2> QED BY <2>1, <2>2, <2>3, <2>4, <2>5, <2>6 DEF I2CStep
<1>5. \/ \E l \in {"sending", "recv", "receiving", "done"} : i2c' = [i2c EXCEPT !.pc = l]
      \/ \E reply \in Replying : \/ i2c' = [i2c EXCEPT !.pc = "done", !.reply = reply]
                                 \/ i2c' = [i2c EXCEPT !.reply = reply]
      \/ i2c' = i2c
  <2>1. Garbage \subseteq Replying /\ Replies(i2c.register) \subseteq Replying
    BY ReplyTypes
  <2>2. CASE PolledSend BY <2>2 DEF PolledSend, I2CGoto, AfterSend
  <2>3. CASE PolledRecv BY <2>1, <2>3 DEF PolledRecv, Receives
  <2>4. CASE StartSend BY <2>4 DEF StartSend, I2CGoto
  <2>5. CASE AwaitSend BY <2>5 DEF AwaitSend, I2CGoto, AfterSend
  <2>6. CASE StartRecv BY <2>6 DEF StartRecv, I2CGoto
  <2>7. CASE AwaitRecv BY <2>7 DEF AwaitRecv, I2CGoto
  <2>8. CASE IrqHandler BY <2>1, <2>8 DEF IrqHandler, Completed, FailedEvent
  <2> QED BY <2>2, <2>3, <2>4, <2>5, <2>6, <2>7, <2>8 DEF I2CStep
<1>6. /\ i2c' \in [pc : {"idle", "send", "sending", "recv", "receiving", "done"},
                   register : Registers \cup {"ACQ_COMMAND", "SETTING"}, reads : BOOLEAN,
                   reply : [busy : BOOLEAN, known : BOOLEAN, place : Places]]
      /\ (i2c.reads => i2c.register \in Registers)'
  BY <1>5 DEF Replying
<1> QED BY <1>1, <1>2, <1>3, <1>4, <1>6

HeadAction == HorPulse \/ VerPulse \/ HorMoves \/ VerMoves \/ Measured

(* Every step there is, one disjunct for each action. *)
LEMMA StepsOfNode ==
  ASSUME [Next]_vars
  PROVE  \/ Initialize \/ LidarInitialized \/ Start \/ AimV \/ Aim \/ Measure \/ Store
         \/ Settle \/ Turn \/ NextLine \/ Report
         \/ DelayOver("wait", "aimV") \/ DelayOver("waitV", "aim")
         \/ LidarStep /\ UNCHANGED <<pc, scanVars>>
         \/ (I2CStep \/ IrqHandler) /\ UNCHANGED <<pc, scanVars, lidar>>
         \/ HeadAction /\ UNCHANGED <<pc, scanVars, lidar, i2cVars>>
         \/ UNCHANGED <<pc, scanVars, lidar, i2cVars, headVars>>
<1>1. CASE TaskStep BY <1>1 DEF TaskStep, Below
<1>2. CASE ~TaskStep BY <1>2 DEF Next, Interrupt, HeadStep, HeadAction, vars
<1> QED BY <1>1, <1>2

LEMMA SetAngleType ==
  ASSUME NEW servo \in Servos, NEW angle \in Nat
  PROVE  SetAngle(servo, angle) \in Servos
  BY HeadParameters DEF SetAngle, Servos, Angles

LEMMA DelayTypes ==
  ASSUME hor \in Servos, ver \in Servos, DelayEnds
  PROVE  hor' \in Servos /\ ver' \in Servos /\ slave' = slave
<1>1. ASSUME NEW servo \in Servos, ~PulseIsDue(servo)
      PROVE  Later(servo) \in Servos
  BY <1>1 DEF PulseIsDue, Later, Servos, Ages, PwmPeriod
<1> QED BY <1>1 DEF DelayEnds

LEMMA PulseTypes ==
  ASSUME NEW servo \in Servos, NEW delaying \in BOOLEAN
  PROVE  Pulse(servo, delaying) \in Servos
<1>1. servo.set \in Angles /\ -1 \in Ages /\ 0 \in Ages
  BY DEF Servos, Ages, PwmPeriod
<1>2. ASSUME NEW angle \in Angles, NEW age \in Ages
      PROVE  [servo EXCEPT !.pulse = angle, !.age = age] \in Servos
  BY <1>2 DEF Servos
<1>3. CASE delaying BY <1>1, <1>2, <1>3 DEF Pulse
<1>4. CASE ~delaying BY <1>1, <1>2, <1>4 DEF Pulse
<1> QED BY <1>3, <1>4

(* The angles of the sweep stay in their ranges, and fit the servos. *)
AnglesOK == hAngle \in MinH .. MaxH /\ vAngle \in MinV .. MaxV + 2 * ResV

LEMMA AnglesInScan == ScanInv /\ pc \in Scanning => AnglesOK
<1> SUFFICES ASSUME ScanInv, pc \in Scanning PROVE AnglesOK
  OBVIOUS
<1>1. PICK k \in Nat, c \in Nat : SweepAt(k, c)
  BY DEF ScanInv
<1>2. hAngle \in MinH .. MaxH
  <2>1. MaxH - MinH \in Nat /\ ResH \in Nat \ {0} /\ MinH \in Nat /\ MaxH \in Nat
    BY Parameters
  <2>2. (MaxH - MinH) \div ResH \in Nat
    BY <2>1, DivMod
  <2>3. c <= (MaxH - MinH) \div ResH
    BY <1>1, <2>2 DEF SweepAt, Columns
  <2>4. c * ResH <= MaxH - MinH /\ c * ResH \in Nat
    BY <2>1, <2>3, MultipleWithin
  <2> QED BY <1>1, <2>1, <2>4 DEF SweepAt, ScanInv
<1>3. vAngle \in MinV .. MaxV + 2 * ResV
  <2> DEFINE a == MaxV - MinV
             d == 2 * ResV
             l == IF pc = "waitTurn" THEN Line(k) + 1 ELSE Line(k)
  <2>1. a \in Nat /\ d \in Nat \ {0} /\ MinV \in Nat /\ MaxV \in Nat /\ ResV \in Nat
    BY Parameters
  <2>2. a \div d \in Nat
    <3> HIDE DEF a, d
    <3> QED BY <2>1, DivMod
  <2>3. k <= a \div d
    BY <1>1, <2>2 DEF SweepAt, Turns
  <2>4. k * d <= a /\ k * d \in Nat
    <3> HIDE DEF a, d
    <3> QED BY <2>1, <2>3, MultipleWithin
  <2>5. l \in Nat /\ l <= 2 * k + 2
    BY DEF Line
  <2>6. l * ResV <= (2 * k + 2) * ResV /\ l * ResV \in Nat
    <3> HIDE DEF l
    <3> QED BY <2>1, <2>5
  <2>7. (2 * k + 2) * ResV = k * (2 * ResV) + 2 * ResV
    BY <2>1
  <2>8. vAngle = MinV + l * ResV
    BY <1>1 DEF SweepAt
  <2> HIDE DEF l
  <2> QED BY <2>1, <2>4, <2>6, <2>7, <2>8
<1> QED BY <1>2, <1>3 DEF AnglesOK

CaptureTypeOK == ScanInv /\ AnglesOK /\ DriverTypeOK /\ TypeOK

LEMMA CaptureTypeInit == Init => CaptureTypeOK
<1> SUFFICES ASSUME Init PROVE CaptureTypeOK
  OBVIOUS
<1>1. ScanInv /\ DriverTypeOK
  BY ScanInit, DriverInit
<1>2. AnglesOK
  BY Parameters DEF Init, AnglesOK
<1>3. point \in [h : Angles, v : Angles, distance : Places]
  BY Parameters, HeadParameters DEF Init, Angles, Places
<1>4. pc \in Pcs /\ back \in BOOLEAN /\ size \in Nat /\ written = {}
  BY DEF Init, Pcs
<1> QED BY <1>1, <1>2, <1>3, <1>4 DEF CaptureTypeOK, TypeOK, DriverTypeOK, AnglesOK

LEMMA DriverStep == CaptureTypeOK /\ [Next]_vars => DriverTypeOK'
<1> SUFFICES ASSUME CaptureTypeOK, [Next]_vars PROVE DriverTypeOK'
  OBVIOUS
<1>1. DriverTypeOK /\ hor \in Servos /\ ver \in Servos
  BY DEF CaptureTypeOK, DriverTypeOK, I2CTypeOK
<1>2. {hAngle, vAngle, vAngle + ResV, MaxH, MinV} \subseteq Nat
  BY Parameters DEF CaptureTypeOK, AnglesOK
<1>3. ASSUME UNCHANGED <<build, transfer, flags, faults, headVars>>,
             BeginInitialization \/ BeginReadDistance \/ UNCHANGED <<lidar, i2c, touched>>
      PROVE  DriverTypeOK'
  <2>1. lidar' \in [pc : LidarPcs, left : 0 .. Settings, distance : Places]
    BY <1>1, <1>3 DEF DriverTypeOK, LidarTypeOK, BeginInitialization, BeginReadDistance,
       LidarGoto, LidarPcs
  <2>2. /\ i2c' \in [pc : {"idle", "send", "sending", "recv", "receiving", "done"},
                     register : Registers \cup {"ACQ_COMMAND", "SETTING"}, reads : BOOLEAN,
                     reply : [busy : BOOLEAN, known : BOOLEAN, place : Places]]
        /\ (i2c.reads => i2c.register \in Registers)'
    BY <1>1, <1>3, CallTypes DEF BeginInitialization, BeginReadDistance
  <2>3. touched' \in BOOLEAN
    BY <1>1, <1>3 DEF DriverTypeOK, I2CTypeOK, BeginInitialization, BeginReadDistance
  <2> QED BY <1>1, <1>3, <2>1, <2>2, <2>3 DEF DriverTypeOK, I2CTypeOK, LidarTypeOK, headVars
<1>4. ASSUME UNCHANGED <<lidar, i2cVars, slave>>, hor' \in Servos, ver' \in Servos
      PROVE  DriverTypeOK'
  BY <1>1, <1>4 DEF DriverTypeOK, I2CTypeOK, LidarTypeOK, i2cVars
<1> USE DEF Idle, headVars, i2cVars
<1>5. CASE Initialize BY <1>3, <1>5 DEF Initialize, NotUsed
<1>6. CASE LidarInitialized BY <1>3, <1>6 DEF LidarInitialized, NotUsed
<1>7. CASE Start BY <1>1, <1>2, <1>4, <1>7, SetAngleType DEF Start
<1>8. CASE AimV BY <1>1, <1>2, <1>4, <1>8, SetAngleType DEF AimV
<1>9. CASE Aim
  <2>1. hor' \in Servos
    BY <1>1, <1>2, <1>9, SetAngleType DEF Aim
  <2>2. lidar' \in [pc : LidarPcs, left : 0 .. Settings, distance : Places]
    BY <1>1, <1>9 DEF Aim, DriverTypeOK, LidarTypeOK, BeginReadDistance, LidarGoto, LidarPcs
  <2>3. /\ i2c' \in [pc : {"idle", "send", "sending", "recv", "receiving", "done"},
                     register : Registers \cup {"ACQ_COMMAND", "SETTING"}, reads : BOOLEAN,
                     reply : [busy : BOOLEAN, known : BOOLEAN, place : Places]]
        /\ (i2c.reads => i2c.register \in Registers)'
    BY <1>1, <1>9, CallTypes DEF Aim, BeginReadDistance
  <2>4. touched' \in BOOLEAN /\ UNCHANGED <<build, transfer, flags, faults, ver, slave>>
    BY <1>1, <1>9 DEF Aim, DriverTypeOK, I2CTypeOK, BeginReadDistance
  <2> QED BY <1>1, <2>1, <2>2, <2>3, <2>4 DEF DriverTypeOK, I2CTypeOK, LidarTypeOK
<1>10. CASE Measure BY <1>1, <1>4, <1>10 DEF Measure
<1>11. CASE Store BY <1>1, <1>4, <1>11 DEF Store
<1>12. CASE Settle BY <1>1, <1>4, <1>12, DelayTypes DEF Settle
<1>13. CASE Turn BY <1>1, <1>2, <1>4, <1>13, SetAngleType DEF Turn
<1>14. CASE NextLine BY <1>1, <1>4, <1>14, DelayTypes DEF NextLine
<1>15. CASE Report BY <1>1, <1>4, <1>15 DEF Report
<1>16. CASE DelayOver("wait", "aimV") \/ DelayOver("waitV", "aim")
  BY <1>1, <1>4, <1>16, DelayTypes DEF DelayOver
<1>17. CASE LidarStep BY <1>1, <1>17, LidarStepTypes
<1>18. CASE (I2CStep \/ IrqHandler) /\ UNCHANGED <<pc, scanVars, lidar>>
  BY <1>1, <1>18, I2CStepTypes
<1>19. CASE HeadAction /\ UNCHANGED <<pc, scanVars, lidar, i2cVars>>
  <2>1. CASE HorPulse \/ VerPulse \/ HorMoves \/ VerMoves
    <3>1. Delaying \in BOOLEAN
      BY DEF Delaying
    <3>2. CASE HorPulse \/ VerPulse
      BY <1>1, <1>4, <1>19, <3>1, <3>2, PulseTypes DEF HorPulse, VerPulse
    <3>3. CASE HorMoves \/ VerMoves
      <4>1. hor' \in Servos /\ ver' \in Servos /\ UNCHANGED slave
        BY <1>1, <3>3 DEF HorMoves, VerMoves, Servos
      <4> QED BY <1>4, <1>19, <4>1
    <3> QED BY <2>1, <3>2, <3>3
  <2>2. CASE Measured
    <3>1. [h |-> hor.at, v |-> ver.at] \in Places
      BY <1>1 DEF Servos, Places
    <3>2. slave' \in [kind : Slaves, register : Registers, busy : BOOLEAN, place : Places]
      BY <1>1, <2>2, <3>1 DEF Measured, DriverTypeOK, I2CTypeOK
    <3>3. UNCHANGED <<lidar, i2cVars, hor, ver>>
      BY <1>19, <2>2 DEF Measured
    <3> QED BY <1>1, <3>2, <3>3 DEF DriverTypeOK, I2CTypeOK, LidarTypeOK
  <2> QED BY <1>19, <2>1, <2>2 DEF HeadAction
<1>20. CASE UNCHANGED <<pc, scanVars, lidar, i2cVars, headVars>> BY <1>1, <1>4, <1>20
<1> QED BY <1>5, <1>6, <1>7, <1>8, <1>9, <1>10, <1>11, <1>12, <1>13, <1>14, <1>15, <1>16,
           <1>17, <1>18, <1>19, <1>20, StepsOfNode

LEMMA Int8Range == \A x \in Int : Int8(x) \in -128 .. 127
<1> SUFFICES ASSUME NEW x \in Int PROVE Int8(x) \in -128 .. 127
  OBVIOUS
<1>1. x % 256 \in 0 .. 255
  OBVIOUS
<1> QED BY <1>1 DEF Int8

LEMMA CaptureTypeStep == CaptureTypeOK /\ [Next]_vars => CaptureTypeOK'
<1> SUFFICES ASSUME CaptureTypeOK, [Next]_vars PROVE CaptureTypeOK'
  OBVIOUS
<1>1. ScanInv' /\ DriverTypeOK'
  BY ScanStep, DriverStep DEF CaptureTypeOK
<1>2. pc' \in Pcs
  BY StepsOfScan DEF CaptureTypeOK, TypeOK, Pcs, Initialize, LidarInitialized, Start, AimV, Aim,
     Measure, Store, Settle, Turn, NextLine, Report, DelayOver, Goto
<1>3. pc' \in Scanning \/ UNCHANGED <<hAngle, vAngle>>
  BY StepsOfScan DEF Initialize, LidarInitialized, Start, AimV, Aim, scanVars, Scanning,
     Measure, Store, Settle, Turn, NextLine, Report, DelayOver, Goto
<1>4. AnglesOK'
  <2>1. (ScanInv /\ pc \in Scanning => AnglesOK)'
    BY AnglesInScan, PTL
  <2> QED BY <1>1, <1>3, <2>1 DEF CaptureTypeOK, AnglesOK
<1>5. UNCHANGED <<written, point>> \/ (written' = {} /\ UNCHANGED point) \/ Store
  BY StepsOfScan DEF Initialize, LidarInitialized, Start, AimV, Aim, scanVars,
     Measure, Settle, Turn, NextLine, Report, DelayOver
<1>6. CASE Store
  <2>1. hAngle \in Angles /\ vAngle \in Angles /\ hAngle \in Nat /\ vAngle \in Nat
    BY Parameters, HeadParameters DEF CaptureTypeOK, AnglesOK, Angles
  <2>2. hAngle - OffsetH \in Int /\ vAngle - OffsetV \in Int
    BY <2>1, ScanAssumption
  <2>3. \A p \in written' : p[1] \in -128 .. 127 /\ p[2] \in -128 .. 127
    BY <1>6, <2>2, Int8Range DEF CaptureTypeOK, TypeOK, Store, AnglesOf
  <2>4. point' \in [h : Angles, v : Angles, distance : Places]
    BY <1>6, <2>1 DEF Store, CaptureTypeOK, DriverTypeOK, LidarTypeOK
  <2> QED BY <1>1, <1>2, <1>4, <2>3, <2>4
          DEF CaptureTypeOK, TypeOK, DriverTypeOK, AnglesOK, ScanInv
<1>7. CASE UNCHANGED <<written, point>> \/ (written' = {} /\ UNCHANGED point)
  <2>1. /\ \A p \in written' : p[1] \in -128 .. 127 /\ p[2] \in -128 .. 127
        /\ point' \in [h : Angles, v : Angles, distance : Places]
    BY <1>7 DEF CaptureTypeOK, TypeOK
  <2> QED BY <1>1, <1>2, <1>4, <2>1
          DEF CaptureTypeOK, TypeOK, DriverTypeOK, AnglesOK, ScanInv
<1> QED BY <1>5, <1>6, <1>7

(* Every reachable state of the sweep, the driver, the controller and the head
   is well formed; in particular no angle of the sweep is beyond the servos. *)
THEOREM CaptureTypeCorrect == Spec => []TypeOK
<1>1. CaptureTypeOK => TypeOK
  BY DEF CaptureTypeOK
<1> QED BY <1>1, CaptureTypeInit, CaptureTypeStep, PTL DEF Spec

-----------------------------------------------------------------------------
(* A finished capture is complete.  The angles of the sweep are passed line by
   line, each line from one end to the other; what has been written are the
   points of the angles passed, and no two angles give the same point. *)

(* The way there and the way back meet the same angles when the resolution
   divides the field of view (it is 1), and a uint8_t angle keeps what
   AnglesOf cuts down distinguishable. *)
EvenScan == (MaxH - MinH) % ResH = 0 /\ MaxAngle < 256

Columned == {MinH + c * ResH : c \in 0 .. Columns - 1}
Lined == {MinV + l * ResV : l \in 0 .. Lines - 1}

Passed(h, v) ==
  \/ v < vAngle
  \/ /\ v = vAngle
     /\ \/ pc = "turn"
        \/ pc = "settle" /\ h = hAngle
        \/ pc # "waitTurn" /\ IF back THEN h < hAngle ELSE h > hAngle

PassedAngles == {q \in Columned \X Lined : Passed(q[1], q[2])}
PointsOf(angles) == {AnglesOf(q[1], q[2]) : q \in angles}

SweptInv ==
  /\ IsFiniteSet(written) /\ size = Cardinality(written)
  /\ pc \in Scanning => written = PointsOf(PassedAngles)
  /\ pc = "report" => written = Grid

CompleteInv == CaptureTypeOK /\ SweptInv

LEMMA GridOfAngles == Grid = PointsOf(Columned \X Lined)
<1>1. ASSUME NEW x \in Grid PROVE x \in PointsOf(Columned \X Lined)
  <2>1. PICK c \in 0 .. Columns - 1, l \in 0 .. Lines - 1 :
          x = AnglesOf(MinH + c * ResH, MinV + l * ResV)
    BY DEF Grid
  <2> DEFINE q == <<MinH + c * ResH, MinV + l * ResV>>
  <2>2. q \in Columned \X Lined /\ x = AnglesOf(q[1], q[2])
    BY <2>1 DEF Columned, Lined
  <2> QED BY <2>2 DEF PointsOf
<1>2. ASSUME NEW x \in PointsOf(Columned \X Lined) PROVE x \in Grid
  <2>1. PICK q \in Columned \X Lined : x = AnglesOf(q[1], q[2])
    BY DEF PointsOf
  <2>2. PICK c \in 0 .. Columns - 1 : q[1] = MinH + c * ResH
    BY DEF Columned
  <2>3. PICK l \in 0 .. Lines - 1 : q[2] = MinV + l * ResV
    BY DEF Lined
  <2> QED BY <2>1, <2>2, <2>3 DEF Grid
<1> QED BY <1>1, <1>2

LEMMA ColumnedLined ==
  /\ \A h \in Columned : h \in Nat /\ \E c \in 0 .. Columns - 1 : h = MinH + c * ResH
  /\ \A v \in Lined : v \in Nat /\ \E l \in 0 .. Lines - 1 : v = MinV + l * ResV
<1>1. Columns \in Nat /\ Lines \in Nat /\ MinH \in Nat /\ MinV \in Nat /\ ResH \in Nat /\ ResV \in Nat
  BY Parameters DEF Lines
<1>2. ASSUME NEW h \in Columned
      PROVE  h \in Nat /\ \E c \in 0 .. Columns - 1 : h = MinH + c * ResH
  <2>1. PICK c \in 0 .. Columns - 1 : h = MinH + c * ResH
    BY DEF Columned
  <2>2. c * ResH \in Nat
    BY <1>1
  <2> QED BY <1>1, <2>1, <2>2
<1>3. ASSUME NEW v \in Lined
      PROVE  v \in Nat /\ \E l \in 0 .. Lines - 1 : v = MinV + l * ResV
  <2>1. PICK l \in 0 .. Lines - 1 : v = MinV + l * ResV
    BY DEF Lined
  <2>2. l * ResV \in Nat
    BY <1>1
  <2> QED BY <1>1, <2>1, <2>2
<1> QED BY <1>2, <1>3

(* Where the sweep stands is one of the angles. *)
LEMMA StandsAt ==
  ASSUME EvenScan, ScanInv, pc \in Scanning
  PROVE  /\ hAngle \in Columned
         /\ pc # "waitTurn" => vAngle \in Lined
         /\ pc = "waitTurn" /\ back /\ vAngle > MaxV => \A v \in Lined : v < vAngle
         /\ pc = "waitTurn" => \E l \in Nat : vAngle = MinV + l * ResV
<1>1. PICK k \in Nat, c \in Nat : SweepAt(k, c)
  BY DEF ScanInv
<1>2. /\ Columns \in Nat \ {0} /\ Turns \in Nat \ {0} /\ Lines = 2 * Turns
      /\ MinH \in Nat /\ MaxH \in Nat /\ MinV \in Nat /\ MaxV \in Nat /\ MinH <= MaxH
      /\ ResH \in Nat \ {0} /\ ResV \in Nat \ {0} /\ back \in BOOLEAN
  BY Parameters DEF Lines, ScanInv
<1>3. hAngle \in Columned
  <2>1. CASE back
    <3>1. hAngle = MinH + c * ResH /\ c \in 0 .. Columns - 1
      BY <1>1, <1>2, <2>1 DEF SweepAt
    <3> QED BY <3>1 DEF Columned
  <2>2. CASE ~back
    <3> DEFINE q == (MaxH - MinH) \div ResH
    <3>1. q \in Nat /\ q * ResH = MaxH - MinH
      <4>1. MaxH - MinH \in Nat
        BY <1>2
      <4>2. q \in Nat /\ q * ResH + ((MaxH - MinH) % ResH) = MaxH - MinH
        BY <1>2, <4>1, DivMod
      <4> HIDE DEF q
      <4>3. q * ResH \in Nat
        BY <1>2, <4>2
      <4> QED BY <1>2, <4>2, <4>3 DEF EvenScan
    <3>2. hAngle = MaxH - c * ResH /\ c <= q /\ c \in Nat
      BY <1>1, <2>2, <3>1 DEF SweepAt, Columns
    <3>3. q - c \in 0 .. Columns - 1
      BY <3>1, <3>2 DEF Columns
    <3>4. hAngle = MinH + (q - c) * ResH
      <4> HIDE DEF q
      <4>1. (q - c) * ResH = q * ResH - c * ResH /\ c * ResH \in Nat
        BY <1>2, <3>1, <3>2
      <4> QED BY <1>2, <3>1, <3>2, <4>1
    <3> QED BY <3>3, <3>4 DEF Columned
  <2> QED BY <1>2, <2>1, <2>2
<1>4. Line(k) \in 0 .. Lines - 1
  BY <1>1, <1>2 DEF SweepAt, Line
<1>5. pc # "waitTurn" => vAngle \in Lined
  BY <1>1, <1>4 DEF SweepAt, Lined
<1>6. pc = "waitTurn" => vAngle = MinV + (Line(k) + 1) * ResV
  BY <1>1 DEF SweepAt
<1>7. ASSUME pc = "waitTurn", back, vAngle > MaxV, NEW v \in Lined
      PROVE  v < vAngle
  <2> DEFINE a == MaxV - MinV
             d == 2 * ResV
  <2>1. a \in Nat /\ d \in Nat \ {0}
    BY <1>2, Parameters
  <2>2. Line(k) + 1 = 2 * (k + 1) /\ vAngle = MinV + (k + 1) * d
    <3>1. Line(k) + 1 = 2 * (k + 1)
      BY <1>7 DEF Line
    <3>2. (2 * (k + 1)) * ResV = (k + 1) * d
      BY <1>2
    <3> QED BY <1>6, <1>7, <3>1, <3>2
  <2>3. ~(k + 1 <= a \div d)
    <3> SUFFICES ASSUME k + 1 <= a \div d PROVE FALSE
      OBVIOUS
    <3>1. (k + 1) * d <= a /\ (k + 1) * d \in Nat
      <4> HIDE DEF a, d
      <4> QED BY <2>1, MultipleWithin
    <3> HIDE DEF d
    <3> QED BY <1>2, <1>7, <2>2, <3>1
  <2>4. a \div d \in Nat
    <3> HIDE DEF a, d
    <3> QED BY <2>1, DivMod
  <2>5. Lines <= Line(k) + 1
    BY <1>2, <2>2, <2>3, <2>4 DEF Turns
  <2>6. PICK l \in 0 .. Lines - 1 : v = MinV + l * ResV
    BY ColumnedLined
  <2>7. l < Line(k) + 1 /\ l \in Nat /\ Line(k) + 1 \in Nat
    BY <1>2, <1>4, <2>5, <2>6
  <2>8. l * ResV < (Line(k) + 1) * ResV /\ l * ResV \in Nat /\ (Line(k) + 1) * ResV \in Nat
    <3> DEFINE m == Line(k) + 1
    <3> HIDE DEF m
    <3> QED BY <1>2, <2>7
  <2> QED BY <1>2, <1>6, <1>7, <2>6, <2>8
<1>8. Line(k) + 1 \in Nat
  BY <1>4
<1> QED BY <1>3, <1>5, <1>6, <1>7, <1>8

(* AnglesOf tells any two angles apart. *)
LEMMA Int8Apart ==
  ASSUME NEW o \in Nat, NEW a \in 0 .. 255, NEW b \in 0 .. 255, Int8(a - o) = Int8(b - o)
  PROVE  a = b
<1> DEFINE r == (a - o) % 256
           s == (b - o) % 256
           m == (a - o) \div 256
           n == (b - o) \div 256
<1>1. /\ r \in 0 .. 255 /\ s \in 0 .. 255 /\ m \in Int /\ n \in Int
      /\ a - o = 256 * m + r /\ b - o = 256 * n + s
  OBVIOUS
<1>2. r = s
  BY <1>1 DEF Int8
<1> HIDE DEF r, s, m, n
<1> QED BY <1>1, <1>2

LEMMA PointsApart ==
  ASSUME EvenScan, NEW g \in Angles, NEW h \in Angles, NEW v \in Angles, NEW w \in Angles,
         AnglesOf(g, v) = AnglesOf(h, w)
  PROVE  g = h /\ v = w
<1>1. /\ g \in 0 .. 255 /\ h \in 0 .. 255 /\ v \in 0 .. 255 /\ w \in 0 .. 255
  BY HeadParameters DEF Angles, EvenScan
<1>2. OffsetH \in Nat /\ OffsetV \in Nat
  BY ScanAssumption
<1>3. Int8(g - OffsetH) = Int8(h - OffsetH) /\ Int8(v - OffsetV) = Int8(w - OffsetV)
  BY DEF AnglesOf
<1> QED BY <1>1, <1>2, <1>3, Int8Apart

LEMMA CellAngles ==
  ASSUME EvenScan
  PROVE  Columned \subseteq Angles /\ Lined \subseteq Angles
<1>1. ASSUME NEW h \in Columned PROVE h \in Angles
  <2> DEFINE a == MaxH - MinH
  <2>1. PICK c \in 0 .. Columns - 1 : h = MinH + c * ResH
    BY ColumnedLined
  <2>2. a \in Nat /\ MinH \in Nat /\ MaxH \in Nat /\ ResH \in Nat \ {0}
    BY Parameters
  <2>3. c \in Nat /\ c <= a \div ResH
    BY <2>2, DivMod DEF Columns
  <2>4. c * ResH <= a /\ c * ResH \in Nat
    BY <2>2, <2>3, MultipleWithin
  <2> QED BY <2>1, <2>2, <2>4, HeadParameters DEF Angles
<1>2. ASSUME NEW v \in Lined PROVE v \in Angles
  <2> DEFINE a == MaxV - MinV
             d == 2 * ResV
             q == a \div d
  <2>1. PICK l \in 0 .. Lines - 1 : v = MinV + l * ResV
    BY ColumnedLined
  <2>2. a \in Nat /\ d \in Nat \ {0} /\ MinV \in Nat /\ MaxV \in Nat /\ ResV \in Nat \ {0}
    BY Parameters
  <2>3. q \in Nat /\ q * d <= a
    <3> HIDE DEF a, d
    <3> QED BY <2>2, DivMod, MultipleWithin
  <2>4. l \in Nat /\ l <= 2 * q + 2
    BY <2>1, <2>3 DEF Lines, Turns
  <2>5. l * ResV <= (2 * q + 2) * ResV /\ l * ResV \in Nat
    <3> HIDE DEF q
    <3> QED BY <2>2, <2>3, <2>4
  <2>6. (2 * q + 2) * ResV = q * d + 2 * ResV /\ q * d \in Nat
    <3> HIDE DEF q
    <3> QED BY <2>2, <2>3
  <2> HIDE DEF q
  <2> QED BY <2>1, <2>2, <2>3, <2>5, <2>6, HeadParameters DEF Angles
<1> QED BY <1>1, <1>2

LEMMA OneMorePoint ==
  ASSUME NEW angles, NEW h, NEW v
  PROVE  PointsOf(angles \cup {<<h, v>>}) = PointsOf(angles) \cup {AnglesOf(h, v)}
<1> DEFINE a == <<h, v>>
<1>1. a[1] = h /\ a[2] = v
  OBVIOUS
<1> HIDE DEF a
<1>2. ASSUME NEW x PROVE x \in PointsOf(angles \cup {a})
                         <=> (x \in PointsOf(angles) \/ x = AnglesOf(a[1], a[2]))
  <2>1. x \in PointsOf(angles \cup {a}) <=> \E q \in angles \cup {a} : x = AnglesOf(q[1], q[2])
    BY DEF PointsOf
  <2>2. x \in PointsOf(angles) <=> \E q \in angles : x = AnglesOf(q[1], q[2])
    BY DEF PointsOf
  <2> QED BY <2>1, <2>2
<1>3. PointsOf(angles \cup {a}) = PointsOf(angles) \cup {AnglesOf(a[1], a[2])}
  BY <1>2
<1> QED BY <1>1, <1>3 DEF a

LEMMA SweptInit == Init => SweptInv
<1> SUFFICES ASSUME Init PROVE SweptInv
  OBVIOUS
<1>1. size = 0 /\ written = {} /\ pc = "initialize"
  BY DEF Init
<1> QED BY <1>1, FS_EmptySet DEF SweptInv, Scanning

(* Steps that pass no angle. *)
LEMMA SamePassed ==
  ASSUME SweptInv, UNCHANGED <<size, written>>, pc \in Scanning, pc' \in Scanning,
         \A h \in Columned, v \in Lined : Passed(h, v)' <=> Passed(h, v)
  PROVE  SweptInv'
<1>1. PassedAngles' = PassedAngles
  BY DEF PassedAngles, Columned, Lined
<1> QED BY <1>1 DEF SweptInv, PointsOf, Scanning

LEMMA SamePassedPlace ==
  ASSUME SweptInv, UNCHANGED scanVars,
         \/ pc' = pc
         \/ pc' \notin Scanning \cup {"report"}
         \/ /\ pc \in Scanning \ {"settle", "turn", "waitTurn"}
            /\ pc' \in Scanning \ {"settle", "turn", "waitTurn"}
  PROVE  SweptInv'
<1>1. CASE pc' = pc \/ (/\ pc \in Scanning \ {"settle", "turn", "waitTurn"}
                        /\ pc' \in Scanning \ {"settle", "turn", "waitTurn"})
  <2>1. \A h \in Columned, v \in Lined : Passed(h, v)' <=> Passed(h, v)
    BY <1>1 DEF Passed, scanVars
  <2>2. CASE pc \in Scanning
    BY <1>1, <2>1, <2>2, SamePassed DEF scanVars
  <2>3. CASE pc \notin Scanning
    <3>1. pc' = pc /\ pc \notin Scanning /\ UNCHANGED <<size, written>>
      BY <1>1, <2>3 DEF scanVars
    <3>2. Grid' = Grid
      BY DEF Grid
    <3> QED BY <3>1, <3>2 DEF SweptInv
  <2> QED BY <2>2, <2>3
<1>2. CASE pc' \notin Scanning \cup {"report"}
  BY <1>2 DEF SweptInv, scanVars
<1> QED BY <1>1, <1>2

LEMMA SweptStart == Start => SweptInv'
<1> SUFFICES ASSUME Start PROVE SweptInv'
  OBVIOUS
<1>1. /\ pc' = "wait" /\ written' = {} /\ size' = 0
      /\ hAngle' = MaxH /\ vAngle' = MinV /\ back' = FALSE
  BY DEF Start, Goto
<1>2. PassedAngles' = {}
  <2> SUFFICES ASSUME NEW h \in Columned, NEW v \in Lined, Passed(h, v)' PROVE FALSE
    BY DEF PassedAngles, Columned, Lined
  <2>1. v < MinV \/ h > MaxH
    BY <1>1 DEF Passed
  <2>2. PICK c \in 0 .. Columns - 1 : h = MinH + c * ResH
    BY ColumnedLined
  <2>3. PICK l \in 0 .. Lines - 1 : v = MinV + l * ResV
    BY ColumnedLined
  <2>4. /\ MaxH - MinH \in Nat /\ MinH \in Nat /\ MaxH \in Nat /\ ResH \in Nat \ {0}
        /\ MinV \in Nat /\ ResV \in Nat
    BY Parameters
  <2>5. c \in Nat /\ c <= (MaxH - MinH) \div ResH
    BY <2>4, DivMod DEF Columns
  <2>6. c * ResH <= MaxH - MinH /\ c * ResH \in Nat /\ l * ResV \in Nat
    BY <2>4, <2>5, MultipleWithin
  <2> QED BY <2>1, <2>2, <2>3, <2>4, <2>6
<1> QED BY <1>1, <1>2, FS_EmptySet DEF SweptInv, PointsOf

LEMMA SweptStore == EvenScan /\ CompleteInv /\ Store => SweptInv'
<1> SUFFICES ASSUME EvenScan, CompleteInv, Store PROVE SweptInv'
  OBVIOUS
<1> DEFINE x == AnglesOf(hAngle, vAngle)
<1>1. /\ pc = "store" /\ pc' = "settle" /\ UNCHANGED <<hAngle, vAngle, back>>
      /\ size' = size + 1 /\ written' = written \cup {x}
  BY DEF Store, Goto
<1>2. hAngle \in Columned /\ vAngle \in Lined
  BY <1>1, StandsAt DEF CompleteInv, CaptureTypeOK, Scanning
<1>3. hAngle \in Nat /\ vAngle \in Nat
  BY <1>2, ColumnedLined
<1>4. /\ IsFiniteSet(written) /\ size = Cardinality(written)
      /\ written = PointsOf(PassedAngles)
  BY <1>1 DEF CompleteInv, SweptInv, Scanning
<1>5. ~Passed(hAngle, vAngle)
  BY <1>1, <1>3 DEF Passed
<1>6. x \notin written
  <2> SUFFICES ASSUME NEW q \in PassedAngles, AnglesOf(q[1], q[2]) = x PROVE FALSE
    BY <1>4 DEF PointsOf
  <2>1. q[1] \in Columned /\ q[2] \in Lined /\ Passed(q[1], q[2])
    BY DEF PassedAngles
  <2>2. {q[1], q[2], hAngle, vAngle} \subseteq Angles
    BY <1>2, <2>1, CellAngles
  <2>3. q[1] = hAngle /\ q[2] = vAngle
    BY <2>2, PointsApart
  <2> QED BY <1>5, <2>1, <2>3
<1>7. \A h, v : Passed(h, v)' <=> Passed(h, v) \/ (h = hAngle /\ v = vAngle)
  BY <1>1 DEF Passed
<1>8. PassedAngles' = PassedAngles \cup {<<hAngle, vAngle>>}
  <2>1. PassedAngles' = {q \in Columned \X Lined : Passed(q[1], q[2])'}
    BY DEF PassedAngles, Columned, Lined
  <2>2. ASSUME NEW q \in Columned \X Lined
        PROVE  (q[1] = hAngle /\ q[2] = vAngle) <=> q = <<hAngle, vAngle>>
    BY <2>2
  <2>3. <<hAngle, vAngle>> \in Columned \X Lined
    BY <1>2
  <2> QED BY <1>7, <2>1, <2>2, <2>3 DEF PassedAngles
<1>9. written' = PointsOf(PassedAngles)'
  <2>1. PointsOf(PassedAngles)' = PointsOf(PassedAngles')
    BY DEF PointsOf
  <2>2. PointsOf(PassedAngles \cup {<<hAngle, vAngle>>}) = PointsOf(PassedAngles) \cup {x}
    BY OneMorePoint
  <2> QED BY <1>1, <1>4, <1>8, <2>1, <2>2
<1>10. IsFiniteSet(written') /\ size' = Cardinality(written')
  BY <1>1, <1>4, <1>6, FS_AddElement
<1> QED BY <1>1, <1>9, <1>10 DEF SweptInv

LEMMA SweptSettle == EvenScan /\ CompleteInv /\ Settle => SweptInv'
<1> SUFFICES ASSUME EvenScan, CompleteInv, Settle PROVE SweptInv'
  OBVIOUS
<1>1. pc = "settle" /\ UNCHANGED <<vAngle, back, size, written>>
  BY DEF Settle, Goto
<1>2. hAngle \in Columned /\ back \in BOOLEAN
  BY <1>1, StandsAt DEF CompleteInv, CaptureTypeOK, ScanInv, Scanning
<1>3. PICK d \in 0 .. Columns - 1 : hAngle = MinH + d * ResH
  BY <1>2, ColumnedLined
<1>4. MinH \in Nat /\ ResH \in Nat \ {0} /\ MaxH \in Nat /\ d \in Nat /\ d * ResH \in Nat
  BY <1>3, Parameters
<1>5. pc' \in Scanning /\ SweptInv
  BY DEF Settle, Goto, Scanning, CompleteInv
<1>6. ASSUME NEW h \in Columned, NEW v \in Lined
      PROVE  Passed(h, v)' <=> Passed(h, v)
  <2>1. PICK c \in 0 .. Columns - 1 : h = MinH + c * ResH
    BY ColumnedLined
  <2>2. c \in Nat /\ c * ResH \in Nat
    BY <1>4, <2>1
  <2>3. CASE InLine(NextH)
    <3>1. pc' = "aim" /\ hAngle' = IF back THEN hAngle + ResH ELSE hAngle - ResH
      BY <2>3 DEF Settle, Goto, NextH
    <3>2. c <= d <=> c * ResH < d * ResH + ResH
      <4>1. (d + 1) * ResH = d * ResH + ResH /\ d + 1 \in Nat
        BY <1>4
      <4>2. c < d + 1 <=> c * ResH < (d + 1) * ResH
        BY <1>4, <2>2, <4>1, LessTimes
      <4> QED BY <1>4, <2>2, <4>1, <4>2
    <3>3. d <= c <=> d * ResH < c * ResH + ResH
      <4>1. (c + 1) * ResH = c * ResH + ResH /\ c + 1 \in Nat
        BY <1>4, <2>2
      <4>2. d < c + 1 <=> d * ResH < (c + 1) * ResH
        BY <1>4, <2>2, <4>1, LessTimes
      <4> QED BY <1>4, <2>2, <4>1, <4>2
    <3>4. /\ h < hAngle <=> c < d
          /\ d < c <=> h > hAngle
          /\ h = hAngle <=> c = d
      <4>1. (c < d <=> c * ResH < d * ResH) /\ (d < c <=> d * ResH < c * ResH)
        BY <1>4, <2>2, LessTimes
      <4> QED BY <1>3, <1>4, <2>1, <2>2, <4>1
    <3>5. CASE back
      <4>1. h < hAngle' <=> c <= d
        BY <1>3, <1>4, <2>1, <2>2, <3>1, <3>2, <3>5
      <4>2. h < hAngle' <=> (h = hAngle \/ h < hAngle)
        BY <1>4, <2>2, <3>4, <4>1
      <4> QED BY <1>1, <3>1, <3>5, <4>2 DEF Passed
    <3>6. CASE ~back
      <4>1. h > hAngle' <=> d <= c
        BY <1>3, <1>4, <2>1, <2>2, <3>1, <3>3, <3>6
      <4>2. h > hAngle' <=> (h = hAngle \/ h > hAngle)
        BY <1>4, <2>2, <3>4, <4>1
      <4> QED BY <1>1, <3>1, <3>6, <4>2 DEF Passed
    <3> QED BY <1>2, <3>5, <3>6
  <2>4. CASE ~InLine(NextH)
    <3>1. pc' = "turn" /\ hAngle' = hAngle
      BY <2>4 DEF Settle, Goto
    <3>2. c * ResH <= MaxH - MinH
      <4>1. MaxH - MinH \in Nat /\ c <= (MaxH - MinH) \div ResH
        BY <2>1, Parameters, DivMod DEF Columns
      <4> QED BY <1>4, <2>2, <4>1, MultipleWithin
    <3>3. CASE back
      <4>1. c * ResH < d * ResH + ResH
        BY <1>3, <1>4, <2>2, <2>4, <3>2, <3>3 DEF InLine, NextH
      <4>2. (d + 1) * ResH = d * ResH + ResH /\ d + 1 \in Nat
        BY <1>4
      <4>3. c < d + 1
        BY <1>4, <2>2, <4>1, <4>2, LessTimes
      <4>4. c = d \/ c * ResH < d * ResH
        BY <1>4, <2>2, <4>3, LessTimes
      <4>5. h = hAngle \/ h < hAngle
        BY <1>3, <1>4, <2>1, <2>2, <4>4
      <4> QED BY <1>1, <3>1, <3>3, <4>5 DEF Passed
    <3>4. CASE ~back
      <4>1. d * ResH < ResH
        BY <1>3, <1>4, <2>4, <3>4 DEF InLine, NextH
      <4>2. 1 * ResH = ResH /\ d < 1
        BY <1>4, <4>1, LessTimes
      <4>3. d = 0 /\ d * ResH = 0
        BY <1>4, <4>2
      <4>4. h = hAngle \/ h > hAngle
        BY <1>3, <1>4, <2>1, <2>2, <4>3
      <4> QED BY <1>1, <3>1, <3>4, <4>4 DEF Passed
    <3> QED BY <1>2, <3>3, <3>4
  <2> QED BY <2>3, <2>4
<1>7. pc \in Scanning
  BY <1>1 DEF Scanning
<1> QED BY <1>1, <1>5, <1>6, <1>7, SamePassed

LEMMA SweptTurn == EvenScan /\ CompleteInv /\ Turn => SweptInv'
<1> SUFFICES ASSUME EvenScan, CompleteInv, Turn PROVE SweptInv'
  OBVIOUS
<1>1. /\ pc = "turn" /\ pc' = "waitTurn" /\ vAngle' = vAngle + ResV
      /\ UNCHANGED <<hAngle, back, size, written>>
  BY DEF Turn, Goto
<1>2. pc \in Scanning /\ pc' \in Scanning /\ SweptInv
  BY <1>1 DEF Scanning, CompleteInv
<1>3. vAngle \in Lined
  BY <1>1, <1>2, StandsAt DEF CompleteInv, CaptureTypeOK
<1>4. PICK m \in 0 .. Lines - 1 : vAngle = MinV + m * ResV
  BY <1>3, ColumnedLined
<1>5. MinV \in Nat /\ ResV \in Nat \ {0} /\ m \in Nat /\ m * ResV \in Nat
  BY <1>4, Parameters
<1>6. ASSUME NEW h \in Columned, NEW v \in Lined
      PROVE  Passed(h, v)' <=> Passed(h, v)
  <2>1. PICK l \in 0 .. Lines - 1 : v = MinV + l * ResV
    BY ColumnedLined
  <2>2. l \in Nat /\ l * ResV \in Nat
    BY <1>5, <2>1
  <2>3. (m + 1) * ResV = m * ResV + ResV /\ m + 1 \in Nat
    BY <1>5
  <2>4. /\ l < m + 1 <=> l * ResV < (m + 1) * ResV
        /\ l < m <=> l * ResV < m * ResV
        /\ m < l <=> m * ResV < l * ResV
    BY <1>5, <2>2, <2>3, LessTimes
  <2>5. v < vAngle' <=> (v < vAngle \/ v = vAngle)
    BY <1>1, <1>4, <1>5, <2>1, <2>2, <2>3, <2>4
  <2>6. Passed(h, v)' <=> v < vAngle'
    <3>1. v = vAngle' => ~(pc' # "waitTurn")
      BY <1>1
    <3> QED BY <1>1, <3>1 DEF Passed
  <2>7. Passed(h, v) <=> (v < vAngle \/ v = vAngle)
    BY <1>1 DEF Passed
  <2> QED BY <2>5, <2>6, <2>7
<1> QED BY <1>1, <1>2, <1>6, SamePassed

LEMMA SweptNextLine == EvenScan /\ CompleteInv /\ NextLine => SweptInv'
<1> SUFFICES ASSUME EvenScan, CompleteInv, NextLine PROVE SweptInv'
  OBVIOUS
<1>1. pc = "waitTurn" /\ UNCHANGED <<vAngle, size, written>>
  BY DEF NextLine
<1>2. pc \in Scanning /\ SweptInv /\ ScanInv /\ back \in BOOLEAN
  BY <1>1 DEF Scanning, CompleteInv, CaptureTypeOK, ScanInv
<1>3. CASE back /\ vAngle > MaxV
  <2>1. pc' = "report" /\ \A v \in Lined : v < vAngle
    BY <1>1, <1>2, <1>3, StandsAt DEF NextLine
  <2>2. PassedAngles = Columned \X Lined
    BY <2>1 DEF PassedAngles, Passed
  <2>3. written = Grid
    BY <1>2, <2>2, GridOfAngles DEF SweptInv
  <2>4. Grid' = Grid
    BY DEF Grid
  <2> QED BY <1>1, <1>2, <2>1, <2>3, <2>4 DEF SweptInv, Scanning
<1>4. CASE ~(back /\ vAngle > MaxV)
  <2>1. pc' = "aim" /\ back' = ~back /\ hAngle' = IF back THEN MaxH ELSE MinH
    BY <1>4 DEF NextLine
  <2>2. ASSUME NEW h \in Columned, NEW v \in Lined
        PROVE  Passed(h, v)' <=> Passed(h, v)
    <3>1. PICK c \in 0 .. Columns - 1 : h = MinH + c * ResH
      BY ColumnedLined
    <3>2. MaxH - MinH \in Nat /\ MinH \in Nat /\ MaxH \in Nat /\ ResH \in Nat \ {0}
      BY Parameters
    <3>3. c \in Nat /\ c <= (MaxH - MinH) \div ResH
      BY <3>1, <3>2, DivMod DEF Columns
    <3>4. c * ResH <= MaxH - MinH /\ c * ResH \in Nat
      BY <3>2, <3>3, MultipleWithin
    <3>5. ~(h < MinH) /\ ~(h > MaxH)
      BY <3>1, <3>2, <3>4
    <3>6. Passed(h, v)' <=> v < vAngle
      <4>1. CASE back BY <1>1, <2>1, <3>5, <4>1 DEF Passed
      <4>2. CASE ~back BY <1>1, <2>1, <3>5, <4>2 DEF Passed
      <4> QED BY <4>1, <4>2
    <3>7. Passed(h, v) <=> v < vAngle
      BY <1>1 DEF Passed
    <3> QED BY <3>6, <3>7
  <2>3. pc' \in Scanning
    BY <2>1 DEF Scanning
  <2> QED BY <1>1, <1>2, <2>2, <2>3, SamePassed
<1> QED BY <1>3, <1>4

LEMMA CompleteStep == EvenScan /\ CompleteInv /\ [Next]_vars => CompleteInv'
<1> SUFFICES ASSUME EvenScan, CompleteInv, [Next]_vars PROVE CompleteInv'
  OBVIOUS
<1>1. CaptureTypeOK' /\ SweptInv
  BY CaptureTypeStep DEF CompleteInv
<1>2. SweptInv'
  <2> USE <1>1 DEF Goto, Scanning
  <2>1. CASE Initialize BY <2>1, SamePassedPlace DEF Initialize
  <2>2. CASE LidarInitialized BY <2>2, SamePassedPlace DEF LidarInitialized
  <2>3. CASE Start BY <2>3, SweptStart
  <2>4. CASE AimV BY <2>4, SamePassedPlace DEF AimV
  <2>5. CASE Aim BY <2>5, SamePassedPlace DEF Aim
  <2>6. CASE Measure BY <2>6, SamePassedPlace DEF Measure
  <2>7. CASE Store BY <2>7, SweptStore
  <2>8. CASE Settle BY <2>8, SweptSettle
  <2>9. CASE Turn BY <2>9, SweptTurn
  <2>10. CASE NextLine BY <2>10, SweptNextLine
  <2>11. CASE Report BY <2>11, SamePassedPlace DEF Report
  <2>12. CASE DelayOver("wait", "aimV") BY <2>12, SamePassedPlace DEF DelayOver
  <2>13. CASE DelayOver("waitV", "aim") BY <2>13, SamePassedPlace DEF DelayOver
  <2>14. CASE UNCHANGED <<pc, scanVars>> BY <2>14, SamePassedPlace
  <2> QED BY <2>1, <2>2, <2>3, <2>4, <2>5, <2>6, <2>7, <2>8, <2>9, <2>10, <2>11, <2>12,
             <2>13, <2>14, StepsOfScan
<1> QED BY <1>1, <1>2 DEF CompleteInv

(* A finished capture holds a point for each angle of every line and nothing
   else, each once: image3dSize is their number. *)
THEOREM CaptureComplete ==
  ASSUME EvenScan
  PROVE  Spec => []CaptureIsComplete
<1>1. Init => CompleteInv
  BY CaptureTypeInit, SweptInit DEF CompleteInv
<1>2. CompleteInv /\ [Next]_vars => CompleteInv'
  BY CompleteStep
<1>3. CompleteInv => CaptureIsComplete
  BY DEF CompleteInv, SweptInv, CaptureIsComplete
<1> QED BY <1>1, <1>2, <1>3, PTL DEF Spec

-----------------------------------------------------------------------------
(* Distances are those of their angles.  First, who is talking to whom: the
   driver calls the controller only while the task waits for the driver, and
   the device does a transfer only while the controller waits for it. *)

TransferInv ==
  /\ i2c.pc \in {"idle", "send", "recv", "done"} => transfer = "none"
  /\ i2c.pc = "sending" => transfer \in {"none", "send"} /\ (flags.sent => transfer = "none")
  /\ i2c.pc = "receiving" => transfer \in {"none", "recv"} /\ (flags.received => transfer = "none")

CallInv ==
  /\ lidar.pc \in {"idle", "i2c", "failed", "done"} => i2c.pc \in {"idle", "done"}
  /\ pc = "lidar" => lidar.pc \in {"i2c", "serial", "configure", "failed", "done"}
  /\ pc = "measure" => lidar.pc \in {"command", "status", "distance", "done"}
  /\ pc \notin {"lidar", "measure"} => lidar.pc \in {"idle", "done"}

ProtocolInv == CaptureTypeOK /\ TransferInv /\ CallInv

LEMMA ProtocolInit == Init => ProtocolInv
  BY CaptureTypeInit DEF ProtocolInv, TransferInv, CallInv, Init, I2CInit, LidarInit

(* The records of the controller and the driver. *)
LEMMA Records ==
  ASSUME CaptureTypeOK
  PROVE  /\ i2c = [pc |-> i2c.pc, register |-> i2c.register, reads |-> i2c.reads,
                   reply |-> i2c.reply]
         /\ i2c.pc \in {"idle", "send", "sending", "recv", "receiving", "done"}
         /\ i2c.reads \in BOOLEAN
         /\ flags = [sent |-> flags.sent, received |-> flags.received, error |-> flags.error,
                     counted |-> flags.counted]
         /\ flags.sent \in BOOLEAN /\ flags.received \in BOOLEAN
         /\ lidar = [pc |-> lidar.pc, left |-> lidar.left, distance |-> lidar.distance]
         /\ transfer \in {"none", "send", "recv"}
         /\ slave = [kind |-> slave.kind, register |-> slave.register, busy |-> slave.busy,
                     place |-> slave.place]
         /\ slave.busy \in BOOLEAN
  BY DEF CaptureTypeOK, DriverTypeOK, I2CTypeOK, LidarTypeOK

LEMMA ProtocolOfLidar == ProtocolInv /\ LidarStep /\ UNCHANGED pc => TransferInv' /\ CallInv'
<1> SUFFICES ASSUME ProtocolInv, LidarStep, UNCHANGED pc PROVE TransferInv' /\ CallInv'
  OBVIOUS
<1> USE Records DEF ProtocolInv, TransferInv, CallInv, LidarGoto, NotUsed
<1>1. CASE Initialization BY <1>1 DEF Initialization, ReadData
<1>2. CASE SelfTest BY <1>2 DEF SelfTest, SendData, I2CDone
<1>3. CASE Configuration BY <1>3 DEF Configuration, SendData, I2CDone
<1>4. CASE ReadStatus BY <1>4 DEF ReadStatus, ReadData, I2CDone
<1>5. CASE CheckStatus BY <1>5 DEF CheckStatus, ReadData, I2CDone
<1>6. CASE ReadDistance BY <1>6 DEF ReadDistance, I2CDone
<1> QED BY <1>1, <1>2, <1>3, <1>4, <1>5, <1>6 DEF LidarStep

LEMMA ProtocolOfI2C ==
  ProtocolInv /\ (I2CStep \/ IrqHandler) /\ UNCHANGED <<pc, lidar>> => TransferInv' /\ CallInv'
<1> SUFFICES ASSUME ProtocolInv, I2CStep \/ IrqHandler, UNCHANGED <<pc, lidar>>
             PROVE  TransferInv' /\ CallInv'
  OBVIOUS
<1> USE Records DEF ProtocolInv, TransferInv, CallInv, I2CGoto, Receives, AfterSend
<1>1. CASE PolledSend BY <1>1 DEF PolledSend
<1>2. CASE PolledRecv BY <1>2 DEF PolledRecv
<1>3. CASE StartSend BY <1>3 DEF StartSend
<1>4. CASE AwaitSend BY <1>4 DEF AwaitSend
<1>5. CASE StartRecv BY <1>5 DEF StartRecv
<1>6. CASE AwaitRecv BY <1>6 DEF AwaitRecv
<1>7. CASE IrqHandler
  <2>1. transfer' = "none" /\ i2c'.pc = i2c.pc
    BY <1>7 DEF IrqHandler, Completed, FailedEvent
  <2> QED BY <2>1
<1> QED BY <1>1, <1>2, <1>3, <1>4, <1>5, <1>6, <1>7 DEF I2CStep

LEMMA ProtocolStep == ProtocolInv /\ [Next]_vars => ProtocolInv'
<1> SUFFICES ASSUME ProtocolInv, [Next]_vars PROVE TransferInv' /\ CallInv'
  BY CaptureTypeStep DEF ProtocolInv
<1>1. ASSUME UNCHANGED <<lidar, i2cVars>>,
             \/ pc' = pc
             \/ pc \notin {"lidar", "measure"} /\ pc' \notin {"lidar", "measure"}
             \/ lidar.pc = "done" /\ pc' # "lidar"
      PROVE  TransferInv' /\ CallInv'
  BY <1>1 DEF ProtocolInv, TransferInv, CallInv, i2cVars
<1>2. ASSUME UNCHANGED <<i2c, transfer, flags>>, lidar.pc \in {"idle", "failed", "done"},
             pc' = "lidar", lidar'.pc = "i2c"
      PROVE  TransferInv' /\ CallInv'
  BY <1>2 DEF ProtocolInv, TransferInv, CallInv
<1> USE DEF Goto, Idle, i2cVars, headVars, NotUsed
<1>3. CASE Initialize
  <2>1. CASE build = "fake" BY <1>1, <1>3, <2>1 DEF Initialize
  <2>2. CASE build # "fake"
    <3>1. lidar.pc \in {"idle", "failed", "done"}
      BY <1>3 DEF Initialize, ProtocolInv, CallInv
    <3>2. lidar'.pc = "i2c"
      BY <1>3, <2>2, Records DEF Initialize, BeginInitialization, LidarGoto, ProtocolInv
    <3> QED BY <1>2, <1>3, <2>2, <3>1, <3>2 DEF Initialize, BeginInitialization
  <2> QED BY <2>1, <2>2
<1>4. CASE LidarInitialized
  <2>1. CASE lidar.pc = "failed"
    <3>1. lidar'.pc = "i2c"
      BY <1>4, <2>1, Records DEF LidarInitialized, BeginInitialization, LidarGoto, ProtocolInv
    <3> QED BY <1>2, <1>4, <2>1, <3>1 DEF LidarInitialized, BeginInitialization
  <2>2. CASE lidar.pc # "failed" BY <1>1, <1>4, <2>2 DEF LidarInitialized
  <2> QED BY <2>1, <2>2
<1>5. CASE Start BY <1>1, <1>5 DEF Start
<1>6. CASE AimV BY <1>1, <1>6 DEF AimV
<1>7. CASE Aim
  <2>1. CASE build = "fake" BY <1>1, <1>7, <2>1 DEF Aim
  <2>2. CASE build # "fake"
    <3>1. /\ pc = "aim" /\ pc' = "measure" /\ i2c'.pc = "send" /\ lidar'.pc = "command"
          /\ UNCHANGED transfer
      BY <1>7, <2>2, Records DEF Aim, BeginReadDistance, SendData, LidarGoto, ProtocolInv
    <3>2. transfer = "none"
      BY <3>1 DEF ProtocolInv, TransferInv, CallInv
    <3> QED BY <3>1, <3>2 DEF TransferInv, CallInv
  <2> QED BY <2>1, <2>2
<1>8. CASE Measure BY <1>1, <1>8 DEF Measure
<1>9. CASE Store BY <1>1, <1>9 DEF Store
<1>10. CASE Settle BY <1>1, <1>10 DEF Settle
<1>11. CASE Turn BY <1>1, <1>11 DEF Turn
<1>12. CASE NextLine BY <1>1, <1>12 DEF NextLine
<1>13. CASE Report BY <1>1, <1>13 DEF Report
<1>14. CASE DelayOver("wait", "aimV") \/ DelayOver("waitV", "aim") BY <1>1, <1>14 DEF DelayOver
<1>15. CASE LidarStep /\ UNCHANGED <<pc, scanVars>> BY <1>15, ProtocolOfLidar
<1>16. CASE (I2CStep \/ IrqHandler) /\ UNCHANGED <<pc, scanVars, lidar>>
  BY <1>16, ProtocolOfI2C
<1>17. CASE \/ HeadAction /\ UNCHANGED <<pc, scanVars, lidar, i2cVars>>
            \/ UNCHANGED <<pc, scanVars, lidar, i2cVars, headVars>>
  BY <1>1, <1>17
<1> QED BY <1>3, <1>4, <1>5, <1>6, <1>7, <1>8, <1>9, <1>10, <1>11, <1>12, <1>13, <1>14, <1>15,
           <1>16, <1>17, StepsOfNode

-----------------------------------------------------------------------------
(* Then, where the head stands.  The duty register holds the angle of the sweep;
   a pulse is as many steps behind it as delays have ended since, and one more
   once the next angle is set; a servo is at most two steps behind its pulse. *)

InLines == {"aim", "measure", "store", "settle", "turn", "waitTurn"}

ServoInv ==
  /\ pc \in {"wait", "aimV", "waitV"} => vAngle = MinV /\ hAngle = MaxH /\ hor.set = MaxH
  /\ pc \in {"measure", "store", "settle", "turn", "waitTurn"} => hor.set = hAngle
  /\ pc \in InLines \cup {"waitV"} => ver.set = vAngle
  /\ pc = "aim" => Gap(hor.set, hAngle) <= ResH
  /\ pc \in {"turn", "waitTurn"} => ~InLine(NextH)
  /\ pc = "settle" => point.h = hAngle /\ point.v = vAngle

(* A pulse inside the delay under way is the latest news. *)
AgeInv ==
  /\ hor.age = -1 => Delaying /\ hor.pulse = hor.set
  /\ ver.age = -1 => Delaying /\ ver.pulse = ver.set

Lag(age) == IF age = 1 THEN 2 * ResH ELSE IF age = 0 THEN ResH ELSE 0
LagBefore(age) == IF age = 1 THEN ResH ELSE 0

HorInv ==
  /\ pc \in {"aimV", "waitV"} => hor.pulse = hor.set \/ hor.age = 1
  /\ pc \in {"aim", "turn"} => Gap(hor.pulse, hor.set) <= LagBefore(hor.age)
  /\ pc \in {"measure", "store", "settle", "waitTurn"} => Gap(hor.pulse, hor.set) <= Lag(hor.age)
  /\ pc \in InLines /\ vAngle # MinV => Gap(hor.at, hor.pulse) <= 2 * ResH

(* The pulse of a turn comes in the first column at the latest, and the servo
   has followed it in the third. *)
VerInv ==
  pc \in InLines /\ vAngle # MinV =>
    /\ Gap(ver.pulse, ver.set) <= ResV /\ Gap(ver.at, ver.set) <= ResV
    /\ ver.at = ver.pulse \/ ver.pulse = ver.set
    /\ ver.pulse # ver.set => \/ pc = "waitTurn"
                              \/ pc # "turn" /\ Into(hAngle) = 0 /\ ver.age = 1
    /\ ver.at # ver.pulse => pc = "waitTurn" \/ Into(hAngle) <= Lag(ver.age)

PlacedInv == ProtocolInv /\ ServoInv /\ AgeInv /\ HorInv /\ VerInv

LEMMA Placing ==
  ASSUME CaptureTypeOK
  PROVE  /\ hor \in Servos /\ ver \in Servos
         /\ {hor.set, hor.pulse, hor.at, ver.set, ver.pulse, ver.at} \subseteq Nat
         /\ hor.age \in {-1, 0, 1} /\ ver.age \in {-1, 0, 1}
         /\ hAngle \in Nat /\ vAngle \in Nat /\ MinV \in Nat /\ MinH \in Nat /\ MaxH \in Nat
         /\ ResH \in Nat \ {0} /\ ResV \in Nat \ {0} /\ back \in BOOLEAN
         /\ hAngle \in MinH .. MaxH /\ MinV <= vAngle
         /\ MaxH <= MaxAngle /\ MinV <= MaxAngle /\ hAngle <= MaxAngle /\ vAngle <= MaxAngle
<1>1. hor \in Servos /\ ver \in Servos
  BY DEF CaptureTypeOK, DriverTypeOK, I2CTypeOK
<1>2. AnglesOK /\ back \in BOOLEAN
  BY DEF CaptureTypeOK, ScanInv
<1>3. MinV <= MaxAngle /\ MaxH <= MaxAngle
  BY Parameters, HeadParameters
<1>4. hAngle <= MaxAngle /\ vAngle <= MaxAngle
  BY <1>2, Parameters, HeadParameters DEF AnglesOK
<1>5. /\ {hor.set, hor.pulse, hor.at, ver.set, ver.pulse, ver.at} \subseteq Nat
      /\ hor.age \in {-1, 0, 1} /\ ver.age \in {-1, 0, 1}
  BY <1>1, HeadParameters DEF Servos, Angles, Ages, PwmPeriod
<1> QED BY <1>1, <1>2, <1>3, <1>4, <1>5, Parameters DEF AnglesOK

(* What becomes of a servo, field by field. *)
LEMMA ServoFields ==
  ASSUME NEW servo \in Servos
  PROVE  /\ \A a \in Nat : a <= MaxAngle =>
              /\ SetAngle(servo, a).set = a /\ SetAngle(servo, a).pulse = servo.pulse
              /\ SetAngle(servo, a).at = servo.at /\ SetAngle(servo, a).age = servo.age
         /\ \A delaying \in BOOLEAN :
              /\ Pulse(servo, delaying).set = servo.set /\ Pulse(servo, delaying).pulse = servo.set
              /\ Pulse(servo, delaying).at = servo.at
              /\ Pulse(servo, delaying).age = IF delaying THEN -1 ELSE 0
         /\ Later(servo).set = servo.set /\ Later(servo).pulse = servo.pulse
         /\ Later(servo).at = servo.at /\ Later(servo).age = servo.age + 1
         /\ LET moved == [servo EXCEPT !.at = servo.pulse] IN
              /\ moved.set = servo.set /\ moved.pulse = servo.pulse
              /\ moved.at = servo.pulse /\ moved.age = servo.age
<1>1. \A a \in Nat : a <= MaxAngle => SetAngle(servo, a) = [servo EXCEPT !.set = a]
  BY HeadParameters DEF SetAngle
<1> QED BY <1>1 DEF Servos, Pulse, Later

LEMMA DelayFields ==
  ASSUME CaptureTypeOK, DelayEnds
  PROVE  /\ hor'.set = hor.set /\ hor'.pulse = hor.pulse /\ hor'.at = hor.at
         /\ ver'.set = ver.set /\ ver'.pulse = ver.pulse /\ ver'.at = ver.at
         /\ hor.age \in {-1, 0} /\ hor'.age = hor.age + 1
         /\ ver.age \in {-1, 0} /\ ver'.age = ver.age + 1
<1>1. hor.age # 1 /\ ver.age # 1
  BY Placing DEF DelayEnds, PulseIsDue, PwmPeriod
<1> QED BY <1>1, Placing, ServoFields DEF DelayEnds

(* Steps that move neither the sweep nor a servo. *)
LEMMA SameServos ==
  ASSUME ServoInv, AgeInv, HorInv, VerInv, UNCHANGED <<scanVars, hor, ver>>,
         \/ pc' = pc
         \/ pc' \in {"start", "lidar", "report", "initialize"} /\ ~Delaying
         \/ pc = "measure" /\ pc' = "store"
  PROVE  ServoInv' /\ AgeInv' /\ HorInv' /\ VerInv'
<1>1. UNCHANGED <<hAngle, vAngle, back, point>>
  BY DEF scanVars
<1>2. /\ InLine(NextH)' <=> InLine(NextH)
      /\ Into(hAngle)' = Into(hAngle)
  BY <1>1 DEF InLine, NextH, Into
<1>3. Delaying => pc' = pc
  BY DEF Delaying
<1>4. ServoInv'
  BY <1>1, <1>2 DEF ServoInv, Gap, InLines
<1>5. AgeInv'
  BY <1>3 DEF AgeInv, Delaying
<1>6. HorInv'
  BY <1>1 DEF HorInv, Gap, InLines, Lag, LagBefore
<1>7. VerInv'
  BY <1>1, <1>2 DEF VerInv, Gap, InLines, Lag
<1> QED BY <1>4, <1>5, <1>6, <1>7

LEMMA ServosOfStart ==
  ASSUME PlacedInv, Start
  PROVE  ServoInv' /\ AgeInv' /\ HorInv' /\ VerInv'
<1>1. /\ pc = "start" /\ pc' = "wait" /\ vAngle' = MinV /\ hAngle' = MaxH
      /\ hor' = SetAngle(hor, MaxH) /\ ver' = ver
  BY DEF Start, Goto
<1>2. hor'.set = MaxH /\ hor'.age = hor.age
  BY <1>1, Placing, ServoFields DEF PlacedInv, ProtocolInv
<1>3. hor.age # -1 /\ ver.age # -1
  BY <1>1 DEF PlacedInv, AgeInv, Delaying
<1> QED BY <1>1, <1>2, <1>3 DEF ServoInv, AgeInv, HorInv, VerInv, InLines

LEMMA ServosOfAimV ==
  ASSUME PlacedInv, AimV
  PROVE  ServoInv' /\ AgeInv' /\ HorInv' /\ VerInv'
<1>1. /\ pc = "aimV" /\ pc' = "waitV" /\ UNCHANGED <<vAngle, hAngle, hor>>
      /\ ver' = SetAngle(ver, MinV)
  BY DEF AimV, Goto, scanVars
<1>2. ver'.set = MinV /\ ver'.age = ver.age
  BY <1>1, Placing, ServoFields DEF PlacedInv, ProtocolInv
<1>3. hor.age # -1 /\ ver.age # -1
  BY <1>1 DEF PlacedInv, AgeInv, Delaying
<1>4. vAngle = MinV /\ hAngle = MaxH /\ hor.set = MaxH /\ (hor.pulse = hor.set \/ hor.age = 1)
  BY <1>1 DEF PlacedInv, ServoInv, HorInv
<1> QED BY <1>1, <1>2, <1>3, <1>4 DEF ServoInv, AgeInv, HorInv, VerInv, InLines

LEMMA ServosOfDelay ==
  ASSUME PlacedInv, DelayOver("wait", "aimV") \/ DelayOver("waitV", "aim")
  PROVE  ServoInv' /\ AgeInv' /\ HorInv' /\ VerInv'
<1>1. /\ \/ pc = "wait" /\ pc' = "aimV"
         \/ pc = "waitV" /\ pc' = "aim"
      /\ UNCHANGED <<vAngle, hAngle, back, point>> /\ DelayEnds /\ CaptureTypeOK
  BY DEF DelayOver, Goto, scanVars, PlacedInv, ProtocolInv
<1>2. /\ vAngle = MinV /\ hAngle = MaxH /\ hor.set = MaxH
      /\ pc = "waitV" => ver.set = vAngle /\ (hor.pulse = hor.set \/ hor.age = 1)
      /\ hor.age = -1 => hor.pulse = hor.set
  BY <1>1 DEF PlacedInv, ServoInv, AgeInv, HorInv, InLines
<1>3. MaxH \in Nat /\ ResH \in Nat \ {0} /\ hor.pulse \in Nat
  BY <1>1, Placing
<1>4. hor'.age \in {0, 1} /\ ver'.age \in {0, 1} /\ (hor.age = 0 => hor'.age = 1)
  BY <1>1, DelayFields
<1>5. ServoInv' /\ AgeInv'
  BY <1>1, <1>2, <1>3, <1>4, DelayFields DEF ServoInv, AgeInv, InLines, Gap
<1>6. HorInv'
  <2>1. pc = "wait" => hor.pulse = hor.set \/ hor'.age = 1
    BY <1>1, <1>2, <1>4, DelayFields
  <2>2. pc = "waitV" => hor.pulse = hor.set
    BY <1>1, <1>2, DelayFields
  <2> QED BY <1>1, <1>2, <1>3, <1>4, <2>1, <2>2, DelayFields DEF HorInv, InLines, Gap, LagBefore
<1> QED BY <1>1, <1>2, <1>5, <1>6 DEF VerInv

LEMMA ServosOfAim ==
  ASSUME PlacedInv, Aim
  PROVE  ServoInv' /\ AgeInv' /\ HorInv' /\ VerInv'
<1>1. /\ pc = "aim" /\ pc' \in {"store", "measure"} /\ UNCHANGED <<hAngle, vAngle, back, ver>>
      /\ hor' = SetAngle(hor, hAngle) /\ CaptureTypeOK
  BY DEF Aim, Goto, scanVars, PlacedInv, ProtocolInv
<1>2. hor'.set = hAngle /\ hor'.pulse = hor.pulse /\ hor'.at = hor.at /\ hor'.age = hor.age
  BY <1>1, Placing, ServoFields
<1>3. hor.age \in {0, 1} /\ ver.age # -1
  BY <1>1, Placing DEF PlacedInv, AgeInv, Delaying
<1>4. /\ ver.set = vAngle /\ Gap(hor.set, hAngle) <= ResH
      /\ Gap(hor.pulse, hor.set) <= LagBefore(hor.age)
  BY <1>1 DEF PlacedInv, ServoInv, HorInv, InLines
<1>5. Gap(hor.pulse, hAngle) <= Lag(hor.age)
  <2>1. /\ hor.pulse \in Nat /\ hor.set \in Nat /\ hAngle \in Nat /\ ResH \in Nat
    BY <1>1, Placing
  <2> QED BY <1>3, <1>4, <2>1 DEF Gap, Lag, LagBefore
<1>6. ServoInv' /\ AgeInv'
  BY <1>1, <1>2, <1>3, <1>4 DEF ServoInv, AgeInv, InLines
<1>7. HorInv'
  BY <1>1, <1>2, <1>5 DEF PlacedInv, HorInv, InLines, Gap, Lag
<1>8. VerInv'
  <2>1. Into(hAngle)' = Into(hAngle)
    BY <1>1 DEF Into
  <2> QED BY <1>1, <2>1 DEF PlacedInv, VerInv, InLines, Gap, Lag
<1> QED BY <1>6, <1>7, <1>8

LEMMA ServosOfStore ==
  ASSUME PlacedInv, Store
  PROVE  ServoInv' /\ AgeInv' /\ HorInv' /\ VerInv'
<1>1. /\ pc = "store" /\ pc' = "settle" /\ UNCHANGED <<hAngle, vAngle, back, hor, ver>>
      /\ point'.h = hAngle /\ point'.v = vAngle
  BY DEF Store, Goto, headVars
<1>2. Into(hAngle)' = Into(hAngle)
  BY <1>1 DEF Into
<1>3. ServoInv' /\ AgeInv'
  BY <1>1 DEF PlacedInv, ServoInv, AgeInv, Delaying, InLines
<1>4. HorInv'
  BY <1>1 DEF PlacedInv, HorInv, InLines, Gap, Lag
<1>5. VerInv'
  BY <1>1, <1>2 DEF PlacedInv, VerInv, InLines, Gap, Lag
<1> QED BY <1>3, <1>4, <1>5

LEMMA ServosOfSettle ==
  ASSUME PlacedInv, Settle
  PROVE  ServoInv' /\ AgeInv' /\ HorInv' /\ VerInv'
<1>1. pc = "settle" /\ UNCHANGED <<vAngle, back>> /\ DelayEnds /\ CaptureTypeOK
  BY DEF Settle, Goto, PlacedInv, ProtocolInv
<1>2. \/ InLine(NextH) /\ pc' = "aim" /\ hAngle' = NextH
      \/ ~InLine(NextH) /\ pc' = "turn" /\ hAngle' = hAngle
  BY DEF Settle, Goto
<1>3. /\ hor.set = hAngle /\ ver.set = vAngle
      /\ Gap(hor.pulse, hor.set) <= Lag(hor.age)
      /\ vAngle # MinV => Gap(hor.at, hor.pulse) <= 2 * ResH
  BY <1>1 DEF PlacedInv, ServoInv, HorInv, InLines
<1>4. /\ {hor.set, hor.pulse, hor.at, ver.set, ver.pulse, ver.at, hAngle, MinH, MaxH} \subseteq Nat
      /\ ResH \in Nat \ {0} /\ back \in BOOLEAN /\ hAngle \in MinH .. MaxH
  BY <1>1, Placing
<1>5. ServoInv'
  <2>1. CASE pc' = "aim"
    <3>1. Gap(hAngle, hAngle') <= ResH
      BY <1>2, <1>4, <2>1 DEF NextH, Gap
    <3> QED BY <1>1, <1>3, <2>1, <3>1, DelayFields DEF ServoInv, InLines, Gap
  <2>2. CASE pc' = "turn"
    <3>1. ~InLine(NextH)' /\ hAngle' = hAngle
      BY <1>1, <1>2, <2>2 DEF InLine, NextH
    <3> QED BY <1>1, <1>3, <2>2, <3>1, DelayFields DEF ServoInv, InLines
  <2> QED BY <1>2, <2>1, <2>2
<1>6. AgeInv'
  BY <1>1, DelayFields DEF AgeInv
<1>7. HorInv'
  <2>1. Lag(hor.age) = LagBefore(hor.age + 1)
    BY <1>1, DelayFields DEF Lag, LagBefore
  <2> QED BY <1>1, <1>2, <1>3, <2>1, DelayFields DEF HorInv, InLines, Gap, LagBefore
<1>8. VerInv'
  <2> SUFFICES ASSUME vAngle # MinV PROVE VerInv'
    BY <1>1 DEF VerInv
  <2>1. /\ Gap(ver.pulse, ver.set) <= ResV /\ Gap(ver.at, ver.set) <= ResV
        /\ ver.pulse = ver.set
        /\ ver.at # ver.pulse => Into(hAngle) <= Lag(ver.age)
    <3>1. ver.age # 1
      BY <1>1, DelayFields
    <3> QED BY <1>1, <3>1 DEF PlacedInv, VerInv, InLines
  <2>2. Into(hAngle)' <= Into(hAngle) + ResH
    BY <1>1, <1>2, <1>4 DEF Into, NextH
  <2>3. Into(hAngle) \in Int /\ Into(hAngle)' \in Int
    BY <1>1, <1>2, <1>4 DEF Into, NextH
  <2>4. Lag(ver.age) + ResH = Lag(ver.age + 1) \/ ver.age = -1
    BY <1>1, <1>4, DelayFields DEF Lag
  <2>5. Lag(-1) + ResH = Lag(0)
    BY <1>4 DEF Lag
  <2>6. Lag(ver.age + 1) = Lag(ver.age) + ResH /\ Lag(ver.age) \in Nat
    BY <1>1, <1>4, DelayFields DEF Lag
  <2>7. ver.at # ver.pulse => Into(hAngle)' <= Lag(ver.age + 1)
    BY <1>4, <2>1, <2>2, <2>3, <2>6
  <2>8. Lag(ver.age)' = Lag(ver.age + 1)
    BY <1>1, DelayFields DEF Lag
  <2>9. Gap(ver.pulse, ver.set)' <= ResV /\ Gap(ver.at, ver.set)' <= ResV
    BY <1>1, <2>1, DelayFields DEF Gap
  <2> QED BY <1>1, <1>2, <2>1, <2>7, <2>8, <2>9, DelayFields DEF VerInv
<1> QED BY <1>5, <1>6, <1>7, <1>8

LEMMA ServosOfTurn ==
  ASSUME PlacedInv, Turn
  PROVE  ServoInv' /\ AgeInv' /\ HorInv' /\ VerInv'
<1>1. /\ pc = "turn" /\ pc' = "waitTurn" /\ UNCHANGED <<hAngle, back, hor>>
      /\ vAngle' = vAngle + ResV /\ ver' = SetAngle(ver, vAngle + ResV)
      /\ Gap(hor.at, hor.pulse) <= 2 * ResH /\ Arrived(ver) /\ CaptureTypeOK
  BY DEF Turn, Goto, PlacedInv, ProtocolInv
<1>2. vAngle + ResV <= MaxAngle /\ vAngle + ResV \in Nat
  <2>1. CaptureTypeOK'
    BY <1>1, CaptureTypeStep DEF Next, TaskStep
  <2> QED BY <1>1, <2>1, Placing, Parameters, HeadParameters DEF CaptureTypeOK, AnglesOK
<1>3. ver'.set = vAngle + ResV /\ ver'.pulse = ver.pulse /\ ver'.at = ver.at /\ ver'.age = ver.age
  BY <1>1, <1>2, Placing, ServoFields
<1>4. /\ hor.set = hAngle /\ ver.set = vAngle /\ ~InLine(NextH)
      /\ Gap(hor.pulse, hor.set) <= LagBefore(hor.age)
  BY <1>1 DEF PlacedInv, ServoInv, HorInv, InLines
<1>5. hor.age \in {0, 1} /\ ver.age \in {0, 1}
  BY <1>1, Placing DEF PlacedInv, AgeInv, Delaying
<1>6. ServoInv'
  <2>1. ~InLine(NextH)'
    BY <1>1, <1>4 DEF InLine, NextH
  <2> QED BY <1>1, <1>3, <1>4, <2>1 DEF ServoInv, InLines
<1>7. AgeInv'
  BY <1>1, <1>3, <1>5 DEF AgeInv
<1>8. HorInv'
  <2>1. LagBefore(hor.age) <= Lag(hor.age) /\ Gap(hor.pulse, hor.set) \in Nat
    BY <1>1, <1>5, Placing DEF Lag, LagBefore, Gap
  <2>2. LagBefore(hor.age) \in Nat /\ Lag(hor.age) \in Nat
    BY <1>1, Placing DEF Lag, LagBefore
  <2>3. Gap(hor.pulse, hor.set) <= Lag(hor.age)
    BY <1>4, <2>1, <2>2
  <2> QED BY <1>1, <2>3 DEF HorInv, InLines, Gap, Lag
<1>9. VerInv'
  <2>1. ver.at = vAngle /\ ver.pulse = vAngle
    BY <1>1, <1>4 DEF Arrived
  <2>2. Gap(vAngle, vAngle + ResV) <= ResV
    BY <1>1, Placing DEF Gap
  <2> QED BY <1>1, <1>3, <2>1, <2>2 DEF VerInv, Gap
<1> QED BY <1>6, <1>7, <1>8, <1>9

LEMMA ServosOfNextLine ==
  ASSUME PlacedInv, NextLine
  PROVE  ServoInv' /\ AgeInv' /\ HorInv' /\ VerInv'
<1>1. pc = "waitTurn" /\ vAngle' = vAngle /\ DelayEnds /\ CaptureTypeOK
  BY DEF NextLine, PlacedInv, ProtocolInv
<1>2. /\ hor.set = hAngle /\ ver.set = vAngle /\ ~InLine(NextH)
      /\ Gap(hor.pulse, hor.set) <= Lag(hor.age)
      /\ vAngle # MinV => Gap(hor.at, hor.pulse) <= 2 * ResH
  BY <1>1 DEF PlacedInv, ServoInv, HorInv, InLines
<1>3. AgeInv'
  BY <1>1, DelayFields DEF AgeInv
<1>4. CASE back /\ vAngle > MaxV
  <2>1. pc' = "report"
    BY <1>4 DEF NextLine
  <2> QED BY <1>3, <2>1 DEF ServoInv, HorInv, VerInv, InLines
<1>5. CASE ~(back /\ vAngle > MaxV)
  <2>1. pc' = "aim" /\ back' = ~back /\ hAngle' = IF back THEN MaxH ELSE MinH
    BY <1>5 DEF NextLine
  <2>2. /\ {hor.set, hor.pulse, hor.at, ver.set, ver.pulse, ver.at, hAngle, MinH, MaxH} \subseteq Nat
        /\ ResH \in Nat \ {0} /\ back \in BOOLEAN /\ hAngle \in MinH .. MaxH
    BY <1>1, Placing
  <2>3. Gap(hAngle, hAngle') <= ResH
    BY <1>2, <2>1, <2>2 DEF Gap, InLine, NextH
  <2>4. ServoInv'
    BY <1>1, <1>2, <2>1, <2>3, DelayFields DEF ServoInv, InLines, Gap
  <2>5. HorInv'
    <3>1. Lag(hor.age) = LagBefore(hor.age + 1)
      BY <1>1, DelayFields DEF Lag, LagBefore
    <3> QED BY <1>1, <1>2, <2>1, <3>1, DelayFields DEF HorInv, InLines, Gap, LagBefore
  <2>6. VerInv'
    <3> SUFFICES ASSUME vAngle # MinV PROVE VerInv'
      BY <1>1 DEF VerInv
    <3>1. /\ Gap(ver.pulse, ver.set) <= ResV /\ Gap(ver.at, ver.set) <= ResV
          /\ ver.at = ver.pulse \/ ver.pulse = ver.set
      BY <1>1 DEF PlacedInv, VerInv, InLines
    <3>2. ver.pulse # ver.set => ver'.age = 1
      BY <1>1, DelayFields DEF PlacedInv, AgeInv
    <3>3. Into(hAngle)' = 0
      <4>1. CASE back
        <5>1. back' = FALSE /\ hAngle' = MaxH
          BY <2>1, <4>1
        <5>2. MaxH - MaxH = 0
          BY <2>2
        <5> QED BY <5>1, <5>2 DEF Into
      <4>2. CASE ~back
        <5>1. back' = TRUE /\ hAngle' = MinH
          BY <2>1, <4>2
        <5>2. MinH - MinH = 0
          BY <2>2
        <5> QED BY <5>1, <5>2 DEF Into
      <4> QED BY <4>1, <4>2
    <3>4. Lag(ver.age)' >= 0
      BY <2>2 DEF Lag
    <3>5. Gap(ver.pulse, ver.set)' <= ResV /\ Gap(ver.at, ver.set)' <= ResV
      BY <1>1, <3>1, DelayFields DEF Gap
    <3> QED BY <1>1, <2>1, <3>1, <3>2, <3>3, <3>4, <3>5, DelayFields DEF VerInv
  <2> QED BY <1>3, <2>4, <2>5, <2>6
<1> QED BY <1>4, <1>5

LEMMA ServosOfHead ==
  ASSUME PlacedInv, HeadAction, UNCHANGED <<pc, scanVars, lidar, i2cVars>>
  PROVE  ServoInv' /\ AgeInv' /\ HorInv' /\ VerInv'
<1>1. UNCHANGED <<pc, hAngle, vAngle, back, point>> /\ CaptureTypeOK
  BY DEF scanVars, PlacedInv, ProtocolInv
<1>2. /\ InLine(NextH)' <=> InLine(NextH)
      /\ Into(hAngle)' = Into(hAngle)
      /\ (Delaying' <=> Delaying) /\ Delaying \in BOOLEAN
  BY <1>1 DEF InLine, NextH, Into, Delaying
<1>3. hor'.set = hor.set /\ ver'.set = ver.set
  <2>1. CASE HorPulse \/ VerPulse
    BY <1>1, <1>2, <2>1, Placing, ServoFields DEF HorPulse, VerPulse
  <2>2. CASE HorMoves BY <1>1, <2>2, Placing, ServoFields DEF HorMoves
  <2>3. CASE VerMoves BY <1>1, <2>3, Placing, ServoFields DEF VerMoves
  <2>4. CASE Measured BY <2>4 DEF Measured
  <2> QED BY <2>1, <2>2, <2>3, <2>4 DEF HeadAction
<1>4. ServoInv'
  BY <1>1, <1>2, <1>3 DEF PlacedInv, ServoInv, InLines, Gap
<1>5. CASE HorPulse
  <2>1. /\ hor'.pulse = hor.set /\ hor'.at = hor.at /\ hor'.age = (IF Delaying THEN -1 ELSE 0)
        /\ ver' = ver
    BY <1>1, <1>2, <1>5, Placing, ServoFields DEF HorPulse
  <2>2. AgeInv'
    BY <1>2, <1>3, <2>1 DEF PlacedInv, AgeInv
  <2>3. HorInv'
    <3>1. /\ Gap(hor.set, hor.set) = 0 /\ ResH \in Nat /\ Lag(hor.age)' >= 0
          /\ LagBefore(hor.age)' >= 0
      BY <1>1, Placing DEF Gap, Lag, LagBefore
    <3>2. ASSUME pc \in InLines, vAngle # MinV
          PROVE  Gap(hor.at, hor.set) <= 2 * ResH
      <4>1. hor.at = hor.pulse
        BY <1>5, <3>2 DEF HorPulse, KeepsUp, PlacedInv, HorInv
      <4>2. Gap(hor.pulse, hor.set) <= 2 * ResH
        BY <1>1, <3>2, Placing DEF PlacedInv, HorInv, InLines, Lag, LagBefore, Gap
      <4> QED BY <4>1, <4>2
    <3> QED BY <1>1, <1>3, <2>1, <3>1, <3>2 DEF HorInv, Gap
  <2>4. VerInv'
    BY <1>1, <1>2, <2>1 DEF PlacedInv, VerInv, Gap, Lag
  <2> QED BY <1>4, <2>2, <2>3, <2>4
<1>6. CASE VerPulse
  <2>1. /\ ver'.pulse = ver.set /\ ver'.at = ver.at /\ ver'.age = (IF Delaying THEN -1 ELSE 0)
        /\ hor' = hor
    BY <1>1, <1>2, <1>6, Placing, ServoFields DEF VerPulse
  <2>2. AgeInv'
    BY <1>2, <1>3, <2>1 DEF PlacedInv, AgeInv
  <2>3. HorInv'
    BY <1>1, <2>1 DEF PlacedInv, HorInv, Gap, Lag, LagBefore
  <2>4. VerInv'
    <3> SUFFICES ASSUME pc \in InLines, vAngle # MinV PROVE VerInv'
      BY <1>1 DEF VerInv
    <3>1. /\ Gap(ver.pulse, ver.set) <= ResV /\ Gap(ver.at, ver.set) <= ResV
          /\ ver.at = ver.pulse \/ ver.pulse = ver.set
          /\ ver.pulse # ver.set => pc = "waitTurn" \/ Into(hAngle) = 0
      BY DEF PlacedInv, VerInv
    <3>2. /\ {ver.set, ver.pulse, ver.at} \subseteq Nat
          /\ ResV \in Nat \ {0} /\ ResH \in Nat \ {0}
      BY <1>1, Placing
    <3>3. ver.at = ver.pulse
      BY <1>6, <3>1, <3>2 DEF VerPulse, KeepsUp, Gap
    <3>4. Gap(ver.set, ver.set) <= ResV /\ Lag(ver.age)' >= 0
      BY <3>2 DEF Gap, Lag
    <3>5. Gap(ver.pulse, ver.set)' <= ResV /\ Gap(ver.at, ver.set)' <= ResV
      BY <1>3, <2>1, <3>1, <3>4 DEF Gap
    <3> QED BY <1>1, <1>2, <1>3, <2>1, <3>1, <3>3, <3>4, <3>5 DEF VerInv
  <2> QED BY <1>4, <2>2, <2>3, <2>4
<1>7. CASE HorMoves
  <2>1. hor'.pulse = hor.pulse /\ hor'.at = hor.pulse /\ hor'.age = hor.age /\ ver' = ver
    BY <1>1, <1>7, Placing, ServoFields DEF HorMoves
  <2>2. Gap(hor.pulse, hor.pulse) <= 2 * ResH
    BY <1>1, Placing DEF Gap
  <2>3. AgeInv' /\ HorInv'
    BY <1>1, <1>2, <1>3, <2>1, <2>2 DEF PlacedInv, AgeInv, HorInv, Gap, Lag, LagBefore
  <2>4. VerInv'
    BY <1>1, <1>2, <2>1 DEF PlacedInv, VerInv, Gap, Lag
  <2> QED BY <1>4, <2>3, <2>4
<1>8. CASE VerMoves
  <2>1. ver'.pulse = ver.pulse /\ ver'.at = ver.pulse /\ ver'.age = ver.age /\ hor' = hor
    BY <1>1, <1>8, Placing, ServoFields DEF VerMoves
  <2>2. AgeInv' /\ HorInv'
    BY <1>1, <1>2, <1>3, <2>1 DEF PlacedInv, AgeInv, HorInv, Gap, Lag, LagBefore
  <2>3. VerInv'
    BY <1>1, <1>2, <1>3, <2>1 DEF PlacedInv, VerInv, Gap, Lag
  <2> QED BY <1>4, <2>2, <2>3
<1>9. CASE Measured
  <2>1. UNCHANGED <<hor, ver, pc, scanVars>>
    BY <1>1, <1>9 DEF Measured
  <2> QED BY <2>1, SameServos DEF PlacedInv
<1> QED BY <1>5, <1>6, <1>7, <1>8, <1>9 DEF HeadAction

LEMMA ServoInit == Init => ServoInv /\ AgeInv /\ HorInv /\ VerInv
<1> SUFFICES ASSUME Init PROVE ServoInv /\ AgeInv /\ HorInv /\ VerInv
  OBVIOUS
<1>1. pc = "initialize" /\ hor.age = 0 /\ ver.age = 0
  BY DEF Init, HeadInit, AtRest
<1> QED BY <1>1 DEF ServoInv, AgeInv, HorInv, VerInv, InLines

LEMMA ServoStep == PlacedInv /\ [Next]_vars => ServoInv' /\ AgeInv' /\ HorInv' /\ VerInv'
<1> SUFFICES ASSUME PlacedInv, [Next]_vars PROVE ServoInv' /\ AgeInv' /\ HorInv' /\ VerInv'
  OBVIOUS
<1>1. ServoInv /\ AgeInv /\ HorInv /\ VerInv
  BY DEF PlacedInv
<1> USE DEF Goto, headVars, NotUsed
<1>2. CASE Initialize BY <1>1, <1>2, SameServos DEF Initialize, Delaying
<1>3. CASE LidarInitialized BY <1>1, <1>3, SameServos DEF LidarInitialized, Delaying
<1>4. CASE Start BY <1>4, ServosOfStart
<1>5. CASE AimV BY <1>5, ServosOfAimV
<1>6. CASE DelayOver("wait", "aimV") \/ DelayOver("waitV", "aim") BY <1>6, ServosOfDelay
<1>7. CASE Aim BY <1>7, ServosOfAim
<1>8. CASE Measure BY <1>1, <1>8, SameServos DEF Measure
<1>9. CASE Store BY <1>9, ServosOfStore
<1>10. CASE Settle BY <1>10, ServosOfSettle
<1>11. CASE Turn BY <1>11, ServosOfTurn
<1>12. CASE NextLine BY <1>12, ServosOfNextLine
<1>13. CASE Report BY <1>1, <1>13, SameServos DEF Report, Delaying
<1>14. CASE LidarStep /\ UNCHANGED <<pc, scanVars>>
  <2>1. UNCHANGED <<hor, ver>>
    BY <1>14 DEF LidarStep, Initialization, SelfTest, Configuration, ReadStatus, CheckStatus,
       ReadDistance
  <2> QED BY <1>1, <1>14, <2>1, SameServos
<1>15. CASE (I2CStep \/ IrqHandler) /\ UNCHANGED <<pc, scanVars, lidar>>
  <2>1. UNCHANGED <<hor, ver>>
    BY <1>15 DEF I2CStep, PolledSend, PolledRecv, StartSend, AwaitSend, StartRecv, AwaitRecv,
       IrqHandler
  <2> QED BY <1>1, <1>15, <2>1, SameServos
<1>16. CASE HeadAction /\ UNCHANGED <<pc, scanVars, lidar, i2cVars>> BY <1>16, ServosOfHead
<1>17. CASE UNCHANGED <<pc, scanVars, lidar, i2cVars, headVars>> BY <1>1, <1>17, SameServos
<1> QED BY <1>2, <1>3, <1>4, <1>5, <1>6, <1>7, <1>8, <1>9, <1>10, <1>11, <1>12, <1>13, <1>14,
           <1>15, <1>16, <1>17, StepsOfNode

-----------------------------------------------------------------------------
(* Last, what the driver has been told.  While no transfer fails, the lidar is
   measuring or has measured near the angle once the command has arrived; it is
   known to have stopped before the distance is asked for, and answers to the
   register it was last asked for. *)

IsNear(place) ==
  /\ Near(place.h, hAngle, 4 * ResH)
  /\ Near(place.v, vAngle, IF Into(hAngle) < 3 * ResH THEN ResV ELSE 0)
Acquired == slave.busy \/ IsNear(slave.place)
IsSent == i2c.pc \in {"recv", "receiving", "done"} \/ (i2c.pc = "sending" /\ flags.sent)
IsReceived == i2c.pc = "done" \/ (i2c.pc = "receiving" /\ flags.received)

Commanded ==
  lidar.pc = "command" =>
    /\ i2c.register = "ACQ_COMMAND" /\ ~i2c.reads /\ i2c.pc \in {"send", "sending", "done"}
    /\ IsSent => Acquired

Asked ==
  lidar.pc \in {"status", "distance"} =>
    /\ i2c.reads /\ Acquired
    /\ IsSent => slave.register = i2c.register

Ready ==
  /\ lidar.pc = "status" =>
       i2c.register = "STATUS" /\ (IsReceived => i2c.reply.busy \/ ~slave.busy)
  /\ lidar.pc = "distance" =>
       /\ i2c.register = "DISTANCE" /\ ~slave.busy
       /\ IsReceived => i2c.reply.place = slave.place

Measuring ==
  /\ i2c.pc = "sending" => flags.sent \/ transfer = "send"
  /\ Commanded /\ Asked /\ Ready
  /\ lidar.pc = "done" => IsNear(lidar.distance)

Undisturbed == build # "fake" /\ slave.kind = "garmin" /\ ~touched /\ vAngle # MinV

MeasureInv ==
  Undisturbed =>
    /\ pc = "measure" => Measuring
    /\ pc = "store" => IsNear(lidar.distance)
    /\ pc = "settle" => IsNear(point.distance)

LEMMA MeasureInit == Init => MeasureInv
<1> SUFFICES ASSUME Init PROVE MeasureInv
  OBVIOUS
<1>1. pc = "initialize"
  BY DEF Init
<1> QED BY <1>1 DEF MeasureInv

(* The kind of the slave and the build never change. *)
LEMMA SameKind == CaptureTypeOK /\ [Next]_vars => slave'.kind = slave.kind /\ build' = build
<1> SUFFICES ASSUME CaptureTypeOK, [Next]_vars PROVE slave'.kind = slave.kind /\ build' = build
  OBVIOUS
<1>1. slave' = slave \/ Delivered \/ Measured
  BY StepsOfNode DEF Initialize, LidarInitialized, Start, AimV, Aim, Measure, Store, Settle,
     Turn, NextLine, Report, DelayOver, NotUsed, headVars, LidarStep, Initialization, SelfTest,
     Configuration, ReadStatus, CheckStatus, ReadDistance, I2CStep, PolledSend, PolledRecv,
     StartSend, AwaitSend, StartRecv, AwaitRecv, IrqHandler, Completed, FailedEvent,
     HeadAction, HorPulse, VerPulse, HorMoves, VerMoves, DelayEnds
<1>2. build' = build
  BY StepsOfNode DEF Initialize, LidarInitialized, Start, AimV, Aim, Measure, Store, Settle,
     Turn, NextLine, Report, DelayOver, NotUsed, Idle, i2cVars, LidarStep, Initialization,
     SelfTest, Configuration, ReadStatus, CheckStatus, ReadDistance, I2CStep, PolledSend,
     PolledRecv, StartSend, AwaitSend, StartRecv, AwaitRecv, IrqHandler
<1>3. slave'.kind = slave.kind
  <2>1. CASE slave' = slave BY <2>1
  <2>2. CASE Delivered BY <2>2, Records DEF Delivered, AskedFor, WrittenTo
  <2>3. CASE Measured BY <2>3, Records DEF Measured
  <2> QED BY <1>1, <2>1, <2>2, <2>3
<1> QED BY <1>2, <1>3

LEMMA MeasureOfLidar ==
  PlacedInv /\ MeasureInv /\ LidarStep /\ UNCHANGED <<pc, scanVars>> => MeasureInv'
<1> SUFFICES ASSUME PlacedInv, MeasureInv, LidarStep, UNCHANGED <<pc, scanVars>>, Undisturbed'
             PROVE  MeasureInv'
  BY DEF MeasureInv
<1>1. UNCHANGED <<build, transfer, flags, headVars, vAngle, hAngle, back>>
  BY DEF LidarStep, Initialization, SelfTest, Configuration, ReadStatus, CheckStatus,
     ReadDistance, NotUsed, headVars, scanVars
<1>2. CASE pc # "measure"
  <2>1. pc # "lidar" => FALSE
    BY <1>2 DEF PlacedInv, ProtocolInv, CallInv, LidarStep, Initialization, SelfTest,
       Configuration, ReadStatus, CheckStatus, ReadDistance
  <2>2. pc' = "lidar"
    BY <2>1
  <2> QED BY <2>2 DEF MeasureInv
<1>3. CASE pc = "measure"
  <2>1. ReadStatus \/ CheckStatus \/ ReadDistance
    BY <1>3 DEF PlacedInv, ProtocolInv, CallInv, LidarStep, Initialization, SelfTest,
       Configuration
  <2>2. UNCHANGED touched /\ i2c.pc = "done" /\ Undisturbed
    BY <1>1, <2>1 DEF ReadStatus, CheckStatus, ReadDistance, I2CDone, Undisturbed, headVars
  <2>3. Measuring /\ IsSent /\ IsReceived
    BY <1>3, <2>2 DEF MeasureInv, IsSent, IsReceived
  <2>4. \A place : IsNear(place)' <=> IsNear(place)
    BY <1>1 DEF IsNear, Into
  <2>5. Acquired' <=> Acquired
    BY <1>1, <2>4 DEF Acquired, headVars, IsNear, Into
  <2> USE Records DEF PlacedInv, ProtocolInv, LidarGoto
  <2>6. CASE ReadStatus
    <3>1. /\ lidar'.pc = "status" /\ i2c'.pc = "send" /\ i2c'.reads /\ i2c'.register = "STATUS"
          /\ lidar.pc = "command"
      BY <2>6 DEF ReadStatus, ReadData
    <3>2. Acquired'
      BY <2>3, <2>5, <3>1 DEF Measuring, Commanded
    <3>3. ~IsSent' /\ ~IsReceived'
      BY <3>1 DEF IsSent, IsReceived
    <3>4. Measuring'
      BY <3>1, <3>2, <3>3 DEF Measuring, Commanded, Asked, Ready
    <3> QED BY <1>3, <3>4 DEF MeasureInv
  <2>7. CASE CheckStatus
    <3>1. /\ i2c'.pc = "send" /\ i2c'.reads /\ lidar.pc = "status"
          /\ IF i2c.reply.busy THEN lidar'.pc = "status" /\ i2c'.register = "STATUS"
                               ELSE lidar'.pc = "distance" /\ i2c'.register = "DISTANCE"
      BY <2>7 DEF CheckStatus, ReadData
    <3>2. Acquired' /\ (i2c.reply.busy \/ ~slave.busy)
      BY <2>3, <2>5, <3>1 DEF Measuring, Asked, Ready
    <3>3. ~IsSent' /\ ~IsReceived' /\ slave' = slave
      BY <1>1, <3>1 DEF IsSent, IsReceived, headVars
    <3>4. Measuring'
      BY <3>1, <3>2, <3>3 DEF Measuring, Commanded, Asked, Ready
    <3> QED BY <1>3, <3>4 DEF MeasureInv
  <2>8. CASE ReadDistance
    <3>1. /\ lidar'.pc = "done" /\ lidar'.distance = i2c.reply.place /\ i2c' = i2c
          /\ lidar.pc = "distance"
      BY <2>8 DEF ReadDistance, NotUsed
    <3>2. IsNear(slave.place) /\ i2c.reply.place = slave.place
      BY <2>3, <3>1 DEF Measuring, Asked, Ready, Acquired
    <3>3. IsNear(lidar.distance)'
      BY <1>1, <3>1, <3>2 DEF IsNear, Into
    <3>4. Measuring'
      BY <2>2, <3>1, <3>3 DEF Measuring, Commanded, Asked, Ready
    <3> QED BY <1>3, <3>4 DEF MeasureInv
  <2> QED BY <2>1, <2>6, <2>7, <2>8
<1> QED BY <1>2, <1>3

(* What a slave that is a lidar answers to the register it was asked for. *)
LEMMA Answers ==
  ASSUME slave.kind = "garmin", NEW register, slave.register = register,
         NEW reply \in Replies(register)
  PROVE  reply.busy = slave.busy /\ reply.place = slave.place
  BY DEF Replies, LidarReply, Reply

LEMMA MeasureOfI2C ==
  PlacedInv /\ MeasureInv /\ (I2CStep \/ IrqHandler) /\ UNCHANGED <<pc, scanVars, lidar>>
  => MeasureInv'
<1> SUFFICES ASSUME PlacedInv, MeasureInv, I2CStep \/ IrqHandler, UNCHANGED <<pc, scanVars, lidar>>,
                    Undisturbed'
             PROVE  MeasureInv'
  BY DEF MeasureInv
<1>1. UNCHANGED <<vAngle, hAngle, back, point, pc, lidar, hor, ver>>
  BY DEF scanVars, I2CStep, PolledSend, PolledRecv, StartSend, AwaitSend, StartRecv, AwaitRecv,
     IrqHandler, headVars
<1>2. ~Fails
  BY DEF Fails, Undisturbed
<1>3. touched' = touched
  BY <1>2 DEF I2CStep, PolledSend, PolledRecv, StartSend, AwaitSend, StartRecv, AwaitRecv,
     IrqHandler, Succeeds
<1>4. CaptureTypeOK /\ TransferInv /\ CallInv
  BY DEF PlacedInv, ProtocolInv
<1>5. Undisturbed
  <2>1. slave'.kind = slave.kind /\ build' = build
    <3>1. [Next]_vars
      BY DEF I2CStep, IrqHandler, Next, TaskStep, Below, Interrupt, vars, scanVars
    <3> QED BY <1>4, <3>1, SameKind
  <2> QED BY <1>1, <1>3, <2>1 DEF Undisturbed
<1>6. \A place : IsNear(place)' <=> IsNear(place)
  BY <1>1 DEF IsNear, Into
<1>7. CASE pc # "measure"
  BY <1>1, <1>5, <1>6, <1>7 DEF MeasureInv, IsNear, Into
<1>8. CASE pc = "measure"
  <2>1. Measuring
    BY <1>5, <1>8 DEF MeasureInv
  <2>2. SUFFICES Measuring'
    BY <1>1, <1>8 DEF MeasureInv
  <2>3. lidar.pc = "done" => IsNear(lidar.distance)'
    BY <1>1, <2>1 DEF Measuring, IsNear, Into
  <2>4. ASSUME UNCHANGED slave PROVE Acquired' <=> Acquired
    BY <1>1, <2>4 DEF Acquired, IsNear, Into
  <2>5. lidar.pc \in {"command", "status", "distance", "done"}
    BY <1>4, <1>8 DEF CallInv
  <2>6. lidar.pc = "done" => i2c.pc \in {"idle", "done"} /\ transfer = "none"
    BY <1>4 DEF CallInv, TransferInv
  <2> USE <1>1, <1>4, <2>1, <2>3, <2>5, <2>6, Records
      DEF Measuring, Commanded, Asked, Ready, IsSent, IsReceived, I2CGoto, Receives, AfterSend
  <2>7. CASE PolledSend
    <3>1. i2c.pc = "send" /\ i2c' = [i2c EXCEPT !.pc = AfterSend] /\ Delivered
      BY <1>2, <2>7 DEF PolledSend
    <3>2. CASE ~i2c.reads
      <4>1. lidar.pc = "command" /\ i2c'.pc = "done" /\ i2c'.register = i2c.register /\ ~i2c'.reads
        BY <3>1, <3>2
      <4>2. slave'.busy
        BY <1>5, <3>1, <3>2, <4>1 DEF Delivered, WrittenTo, Undisturbed
      <4> QED BY <4>1, <4>2 DEF Acquired
    <3>3. CASE i2c.reads
      <4>1. /\ lidar.pc \in {"status", "distance"} /\ i2c'.pc = "recv" /\ i2c'.reads
            /\ i2c'.register = i2c.register
        BY <3>1, <3>3
      <4>2. slave'.register = i2c.register /\ slave'.busy = slave.busy /\ slave'.place = slave.place
        BY <3>1, <3>3 DEF Delivered, AskedFor
      <4>3. Acquired' <=> Acquired
        BY <4>2 DEF Acquired, IsNear, Into
      <4> QED BY <4>1, <4>2, <4>3
    <3> QED BY <3>2, <3>3
  <2>8. CASE PolledRecv
    <3>1. PICK reply \in Replies(i2c.register) :
            i2c.pc = "recv" /\ i2c' = [i2c EXCEPT !.pc = "done", !.reply = reply]
      BY <1>2, <2>8 DEF PolledRecv
    <3>2. slave' = slave /\ lidar.pc \in {"status", "distance"} /\ slave.register = i2c.register
      BY <2>8, <3>1 DEF PolledRecv, headVars
    <3>3. reply.busy = slave.busy /\ reply.place = slave.place
      BY <1>5, <3>2, Answers DEF Undisturbed
    <3>4. /\ i2c'.pc = "done" /\ i2c'.reply = reply /\ i2c'.reads = i2c.reads
          /\ i2c'.register = i2c.register
      BY <3>1
    <3> QED BY <2>4, <3>2, <3>3, <3>4
  <2>9. CASE StartSend
    <3>1. /\ i2c.pc = "send" /\ i2c'.pc = "sending" /\ transfer' = "send" /\ ~flags'.sent
          /\ i2c'.reads = i2c.reads /\ i2c'.register = i2c.register /\ slave' = slave
      BY <2>9 DEF StartSend, headVars
    <3> QED BY <2>4, <3>1
  <2>10. CASE AwaitSend
    <3>1. i2c.pc = "sending" /\ flags.sent /\ i2c' = [i2c EXCEPT !.pc = AfterSend]
      BY <2>10 DEF AwaitSend
    <3>2. UNCHANGED <<slave, flags, transfer>>
      BY <2>10, <3>1 DEF AwaitSend, headVars
    <3>3. i2c'.reads = i2c.reads /\ i2c'.register = i2c.register /\ i2c'.reply = i2c.reply
          /\ i2c'.pc = IF i2c.reads THEN "recv" ELSE "done"
      BY <3>1
    <3>4. lidar.pc # "done"
      BY <3>1
    <3>5. i2c.reads <=> lidar.pc \in {"status", "distance"}
      BY <3>4
    <3> QED BY <2>4, <3>1, <3>2, <3>3, <3>4, <3>5
  <2>11. CASE StartRecv
    <3>1. /\ i2c.pc = "recv" /\ i2c'.pc = "receiving" /\ ~flags'.received
          /\ i2c'.reads = i2c.reads /\ i2c'.register = i2c.register /\ slave' = slave
      BY <2>11 DEF StartRecv, headVars
    <3> QED BY <2>4, <3>1
  <2>12. CASE AwaitRecv
    <3>1. i2c.pc = "receiving" /\ UNCHANGED slave
      BY <2>12 DEF AwaitRecv, headVars
    <3>2. CASE flags.received
      <4>1. /\ i2c'.pc = "done" /\ i2c'.reads = i2c.reads /\ i2c'.register = i2c.register
            /\ i2c'.reply = i2c.reply
        BY <2>12, <3>2 DEF AwaitRecv
      <4> QED BY <2>4, <3>1, <3>2, <4>1
    <3>3. CASE ~flags.received
      <4>1. i2c' = i2c /\ ~flags'.received
        BY <2>12, <3>3 DEF AwaitRecv
      <4> QED BY <2>4, <3>1, <3>3, <4>1
    <3> QED BY <3>2, <3>3
  <2>13. CASE IrqHandler
    <3>1. Completed /\ transfer # "none"
      BY <1>2, <2>13 DEF IrqHandler
    <3>2. CASE transfer = "send"
      <4>1. i2c.pc = "sending" /\ ~flags.sent /\ lidar.pc # "done"
        BY <3>2 DEF TransferInv
      <4>2. Delivered /\ i2c' = i2c /\ flags'.sent /\ flags'.received = flags.received
        BY <3>1, <3>2 DEF Completed
      <4>3. CASE ~i2c.reads
        <5>1. lidar.pc = "command"
          BY <4>3, <4>1
        <5>2. slave'.busy
          BY <1>5, <4>2, <4>3, <5>1 DEF Delivered, WrittenTo, Undisturbed
        <5> QED BY <4>1, <4>2, <5>1, <5>2 DEF Acquired
      <4>4. CASE i2c.reads
        <5>1. lidar.pc \in {"status", "distance"}
          BY <4>4, <4>1
        <5>2. slave'.register = i2c.register /\ slave'.busy = slave.busy /\ slave'.place = slave.place
          BY <4>2, <4>4 DEF Delivered, AskedFor
        <5>3. Acquired' <=> Acquired
          BY <5>2 DEF Acquired, IsNear, Into
        <5> QED BY <4>1, <4>2, <5>1, <5>2, <5>3
      <4> QED BY <4>3, <4>4
    <3>3. CASE transfer = "recv"
      <4>1. i2c.pc = "receiving" /\ ~flags.received
        BY <3>3 DEF TransferInv
      <4>2. PICK reply \in Replies(i2c.register) : i2c' = [i2c EXCEPT !.reply = reply]
        BY <3>1, <3>3 DEF Completed
      <4>3. slave' = slave /\ flags'.received /\ lidar.pc \in {"status", "distance"}
        BY <3>1, <3>3, <4>1 DEF Completed
      <4>4. slave.register = i2c.register
        BY <4>1, <4>3
      <4>5. reply.busy = slave.busy /\ reply.place = slave.place
        BY <1>5, <4>4, Answers DEF Undisturbed
      <4>6. /\ i2c'.pc = "receiving" /\ i2c'.reply = reply /\ i2c'.reads = i2c.reads
            /\ i2c'.register = i2c.register
        BY <4>1, <4>2
      <4> QED BY <2>4, <4>1, <4>3, <4>4, <4>5, <4>6
    <3> QED BY <3>1, <3>2, <3>3
  <2> QED BY <2>7, <2>8, <2>9, <2>10, <2>11, <2>12, <2>13 DEF I2CStep
<1> QED BY <1>7, <1>8

(* Two steps from the angle set to the pulse and two from the pulse to where the
   head stands. *)
LEMMA NearWhenMeasured ==
  ASSUME PlacedInv, pc = "measure", vAngle # MinV
  PROVE  IsNear([h |-> hor.at, v |-> ver.at])
<1>1. CaptureTypeOK /\ pc \in InLines
  BY DEF PlacedInv, ProtocolInv, InLines
<1>2. /\ {hor.pulse, hor.at, ver.pulse, ver.at, ver.set, hAngle, vAngle} \subseteq Nat
      /\ ResH \in Nat \ {0} /\ ResV \in Nat \ {0}
      /\ hor.age \in {-1, 0, 1} /\ ver.age \in {-1, 0, 1}
  BY <1>1, Placing
<1>3. hor.set = hAngle /\ ver.set = vAngle
  BY <1>1 DEF PlacedInv, ServoInv
<1>4. Gap(hor.at, hAngle) <= 4 * ResH
  <2>1. Gap(hor.at, hor.pulse) <= 2 * ResH /\ Gap(hor.pulse, hAngle) <= Lag(hor.age)
    BY <1>1, <1>3 DEF PlacedInv, HorInv
  <2>2. Lag(hor.age) <= 2 * ResH
    BY <1>2 DEF Lag
  <2> QED BY <1>2, <2>1, <2>2 DEF Gap, Lag
<1>5. Gap(ver.at, vAngle) <= IF Into(hAngle) < 3 * ResH THEN ResV ELSE 0
  <2>1. CASE Into(hAngle) < 3 * ResH
    BY <1>1, <1>3, <2>1 DEF PlacedInv, VerInv
  <2>2. CASE ~(Into(hAngle) < 3 * ResH)
    <3>1. Into(hAngle) \in Int
      BY <1>1, Placing DEF Into
    <3>2. Into(hAngle) # 0 /\ ~(Into(hAngle) <= Lag(ver.age))
      BY <1>2, <2>2, <3>1 DEF Lag
    <3>3. ver.pulse = vAngle /\ ver.at = ver.pulse
      BY <1>1, <1>3, <3>2 DEF PlacedInv, VerInv
    <3> QED BY <1>2, <2>2, <3>3 DEF Gap
  <2> QED BY <2>1, <2>2
<1> QED BY <1>4, <1>5 DEF IsNear, Near

LEMMA MeasureOfHead ==
  PlacedInv /\ MeasureInv /\ HeadAction
  /\ UNCHANGED <<pc, scanVars, lidar, i2cVars>> => MeasureInv'
<1> SUFFICES ASSUME PlacedInv, MeasureInv, HeadAction,
                    UNCHANGED <<pc, scanVars, lidar, i2cVars>>, Undisturbed'
             PROVE  MeasureInv'
  BY DEF MeasureInv
<1>1. UNCHANGED <<pc, lidar, hAngle, vAngle, back, point, build, i2c, transfer, flags, touched>>
  BY DEF scanVars, i2cVars
<1>2. CaptureTypeOK /\ CallInv
  BY DEF PlacedInv, ProtocolInv
<1>3. slave' = slave \/ Measured
  BY DEF HeadAction, HorPulse, VerPulse, HorMoves, VerMoves
<1>4. slave'.kind = slave.kind /\ slave'.register = slave.register
  BY <1>2, <1>3, Records DEF Measured
<1>5. Undisturbed
  BY <1>1, <1>4 DEF Undisturbed
<1>6. \A place : IsNear(place)' <=> IsNear(place)
  BY <1>1 DEF IsNear, Into
<1>7. CASE pc # "measure"
  BY <1>1, <1>5, <1>6, <1>7 DEF MeasureInv, IsNear, Into
<1>8. CASE pc = "measure"
  <2>1. Measuring
    BY <1>5, <1>8 DEF MeasureInv
  <2>2. SUFFICES Measuring'
    BY <1>1, <1>8 DEF MeasureInv
  <2>3. (IsSent' <=> IsSent) /\ (IsReceived' <=> IsReceived)
    BY <1>1 DEF IsSent, IsReceived
  <2>4. (IsNear(lidar.distance))' <=> IsNear(lidar.distance)
    BY <1>1 DEF IsNear, Into
  <2>5. CASE slave' = slave
    <3>1. Acquired' <=> Acquired
      BY <1>1, <2>5 DEF Acquired, IsNear, Into
    <3> QED BY <1>1, <2>1, <2>3, <2>4, <2>5, <3>1 DEF Measuring, Commanded, Asked, Ready
  <2>6. CASE Measured
    <3>1. /\ slave.busy /\ ~slave'.busy
          /\ slave'.place = [h |-> hor.at, v |-> ver.at]
      BY <1>2, <2>6, Records DEF Measured
    <3>2. IsNear([h |-> hor.at, v |-> ver.at])
      BY <1>5, <1>8, NearWhenMeasured DEF Undisturbed
    <3>3. IsNear(slave'.place)
      BY <3>1, <3>2
    <3>4. Acquired'
      BY <1>1, <3>1, <3>3 DEF Acquired, IsNear, Into
    <3>5. lidar.pc # "distance"
      BY <2>1, <3>1 DEF Measuring, Ready
    <3> QED BY <1>1, <1>4, <2>1, <2>3, <2>4, <3>1, <3>4, <3>5
            DEF Measuring, Commanded, Asked, Ready
  <2> QED BY <1>3, <2>5, <2>6
<1> QED BY <1>7, <1>8

LEMMA MeasureStep == PlacedInv /\ MeasureInv /\ [Next]_vars => MeasureInv'
<1> SUFFICES ASSUME PlacedInv, MeasureInv, [Next]_vars, Undisturbed' PROVE MeasureInv'
  BY DEF MeasureInv
<1>1. CaptureTypeOK /\ CallInv
  BY DEF PlacedInv, ProtocolInv
<1>2. slave'.kind = slave.kind /\ build' = build
  BY <1>1, SameKind
<1>3. ASSUME pc' \notin {"measure", "store", "settle"} PROVE MeasureInv'
  BY <1>3 DEF MeasureInv
<1> USE DEF Goto
<1>4. CASE Initialize BY <1>3, <1>4 DEF Initialize
<1>5. CASE LidarInitialized BY <1>3, <1>5 DEF LidarInitialized
<1>6. CASE Start BY <1>3, <1>6 DEF Start
<1>7. CASE AimV BY <1>3, <1>7 DEF AimV
<1>8. CASE DelayOver("wait", "aimV") \/ DelayOver("waitV", "aim") BY <1>3, <1>8 DEF DelayOver
<1>9. CASE Settle BY <1>3, <1>9 DEF Settle
<1>10. CASE Turn BY <1>3, <1>10 DEF Turn
<1>11. CASE NextLine BY <1>3, <1>11 DEF NextLine
<1>12. CASE Report BY <1>3, <1>12 DEF Report
<1>13. CASE Aim
  <2>1. build # "fake"
    BY <1>2 DEF Undisturbed
  <2>2. /\ pc' = "measure" /\ i2c'.pc = "send" /\ ~i2c'.reads /\ i2c'.register = "ACQ_COMMAND"
        /\ lidar'.pc = "command"
    BY <1>1, <1>13, <2>1, Records DEF Aim, BeginReadDistance, SendData, LidarGoto
  <2>3. Measuring'
    BY <2>2 DEF Measuring, Commanded, Asked, Ready, IsSent
  <2> QED BY <2>2, <2>3 DEF MeasureInv
<1>14. CASE Measure
  <2>1. /\ pc = "measure" /\ lidar.pc = "done" /\ pc' = "store"
        /\ UNCHANGED <<lidar, touched, vAngle, hAngle, back>>
    BY <1>14 DEF Measure, Idle, i2cVars, scanVars
  <2>2. Undisturbed
    BY <1>2, <2>1 DEF Undisturbed
  <2>3. IsNear(lidar.distance)'
    BY <2>1, <2>2 DEF MeasureInv, Measuring, IsNear, Into
  <2> QED BY <2>1, <2>3 DEF MeasureInv
<1>15. CASE Store
  <2>1. /\ pc = "store" /\ pc' = "settle" /\ UNCHANGED <<touched, vAngle, hAngle, back>>
        /\ point' = [h |-> hAngle, v |-> vAngle, distance |-> lidar.distance]
    BY <1>15 DEF Store, Idle, i2cVars
  <2>2. Undisturbed
    BY <1>2, <2>1 DEF Undisturbed
  <2>3. IsNear(lidar.distance)
    BY <2>1, <2>2 DEF MeasureInv
  <2>4. IsNear(point.distance)'
    BY <2>1, <2>3 DEF IsNear, Into
  <2> QED BY <2>1, <2>4 DEF MeasureInv
<1>16. CASE LidarStep /\ UNCHANGED <<pc, scanVars>> BY <1>16, MeasureOfLidar
<1>17. CASE (I2CStep \/ IrqHandler) /\ UNCHANGED <<pc, scanVars, lidar>> BY <1>17, MeasureOfI2C
<1>18. CASE HeadAction /\ UNCHANGED <<pc, scanVars, lidar, i2cVars>>
  BY <1>18, MeasureOfHead
<1>19. CASE UNCHANGED <<pc, scanVars, lidar, i2cVars, headVars>>
  BY <1>19 DEF MeasureInv, Undisturbed, Measuring, Commanded, Asked, Ready, IsSent, IsReceived,
     Acquired, IsNear, Into, scanVars, i2cVars, headVars
<1> QED BY <1>4, <1>5, <1>6, <1>7, <1>8, <1>9, <1>10, <1>11, <1>12, <1>13, <1>14, <1>15, <1>16,
           <1>17, <1>18, <1>19, StepsOfNode

(* A distance was measured within four steps of the horizontal angle it is
   stored with, and from the fourth point of a line on in that very line, in
   every line but the first and unless a transfer of it failed: two steps are
   what the register gains on the pulse in a period of the PWM, two what the
   pulse gains on the servo. *)
THEOREM DistancesAreNear == Spec => []PointIsNear
<1> DEFINE Inv == PlacedInv /\ MeasureInv
<1>1. Init => Inv
  BY ProtocolInit, ServoInit, MeasureInit DEF PlacedInv
<1>2. Inv /\ [Next]_vars => Inv'
  BY ProtocolStep, ServoStep, MeasureStep DEF PlacedInv
<1>3. Inv => PointIsNear
  BY DEF PlacedInv, ServoInv, MeasureInv, PointIsNear, Undisturbed, IsNear, Into
<1> QED BY <1>1, <1>2, <1>3, PTL DEF Spec
=============================================================================
