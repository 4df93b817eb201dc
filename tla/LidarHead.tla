------------------------------ MODULE LidarHead -----------------------------
(***************************************************************************)
(* What the lidar node turns and reads: two servos, each told its angle by *)
(* the width of a pulse that comes once in a period of the PWM             *)
(* (ServoMotorControl, PWMController), and at I2C address 0x62 a Garmin    *)
(* lidar or the Arduino sketch that stands in for it                       *)
(* (scripts/GarminLiteV3Simulator.ino).                                    *)
(***************************************************************************)
EXTENDS Integers

CONSTANTS
  MaxAngle,   \* m_maxAngle of the servos, 180
  Parked,     \* angles a servo may stand at when the node starts
  Slaves      \* what may be connected: "garmin", "simulator"

ASSUME HeadAssumption ==
  /\ MaxAngle \in Nat /\ Parked \subseteq 0 .. MaxAngle
  /\ Slaves \subseteq {"garmin", "simulator"}

VARIABLES
  hor, ver,   \* the servos: the angle in the duty register, that of the last
              \* pulse, where each stands, and the delays since the pulse
  slave       \* the lidar: register last asked for, whether it measures, and
              \* where the head stood when it last did

headVars == <<hor, ver, slave>>

Angles == 0 .. MaxAngle

(* The pulses come at 50 Hz: a period is two of the 10 ms delays of the     *)
(* sweep.  A delay that is under way when a pulse comes is not counted,     *)
(* which is what an age of -1 says until it ends.                           *)
PwmPeriod == 2
Ages == -1 .. PwmPeriod - 1
Servos == [set : Angles, pulse : Angles, at : Angles, age : Ages]

(* A distance is known by the place it was measured at; Nowhere is a value  *)
(* that is no distance.                                                     *)
Nowhere == [h |-> -1, v |-> -1]
Places == [h : Angles, v : Angles] \cup {Nowhere}
Registers == {"none", "STATUS", "UNIT_ID", "DISTANCE"}

AtRest(angle) == [set |-> angle, pulse |-> angle, at |-> angle, age |-> 0]

HeadInit ==
  /\ \E a, b \in Parked : hor = AtRest(a) /\ ver = AtRest(b)
  /\ \E kind \in Slaves :
       slave = [kind |-> kind, register |-> "none", busy |-> FALSE, place |-> Nowhere]

(* setAngle clamps the angle and writes the duty register; no more.         *)
SetAngle(servo, angle) ==
  [servo EXCEPT !.set = IF angle > MaxAngle THEN MaxAngle ELSE angle]

Gap(a, b) == IF a < b THEN b - a ELSE a - b

(* The next pulse has the width then in the register.  The servo has by     *)
(* then done what the pulse before told it, if that was a move of at most   *)
(* two steps; a longer one takes its time.                                  *)
KeepsUp(servo, step) == Gap(servo.at, servo.pulse) <= 2 * step => servo.at = servo.pulse
Pulse(servo, delaying) ==
  [servo EXCEPT !.pulse = servo.set, !.age = IF delaying THEN -1 ELSE 0]

(* A delay ends.  Two of them without a pulse are longer than the period.   *)
PulseIsDue(servo) == servo.age + 1 = PwmPeriod
Later(servo) == [servo EXCEPT !.age = @ + 1]

(* A move, in one step: underway the servo is off by no more than at one of *)
(* the ends.                                                                *)
Arrived(servo) == servo.at = servo.pulse /\ servo.pulse = servo.set
HorMoves == hor' = [hor EXCEPT !.at = hor.pulse] /\ UNCHANGED <<ver, slave>>
VerMoves == ver' = [ver EXCEPT !.at = ver.pulse] /\ UNCHANGED <<hor, slave>>

(* The lidar is done measuring. *)
Measured ==
  /\ slave.busy
  /\ slave' = [slave EXCEPT !.busy = FALSE, !.place = [h |-> hor.at, v |-> ver.at]]
  /\ UNCHANGED <<hor, ver>>

-----------------------------------------------------------------------------
(* What a write does to the slave: a single byte asks for a register; a     *)
(* pair sets one, and ACQ_COMMAND begins a measurement.  The sketch takes   *)
(* the register and ignores ACQ_COMMAND.                                    *)
AskedFor(register) == [slave EXCEPT !.register = register]
WrittenTo(register) ==
  IF register = "ACQ_COMMAND" /\ slave.kind = "garmin" THEN [slave EXCEPT !.busy = TRUE] ELSE slave

(* What a read yields: the busy flag, whether the serial number is the one  *)
(* expected, a distance - whichever the caller is after.                    *)
Reply(busy, known, place) == [busy |-> busy, known |-> known, place |-> place]
Garbage == {Reply(busy, known, Nowhere) : busy \in BOOLEAN, known \in BOOLEAN}

LidarReply == Reply(slave.busy, TRUE, slave.place)

(* The sketch is never busy, has another serial number and invents distances. *)
SimulatorReply == Reply(FALSE, FALSE, Nowhere)

(* A slave that was not told the register answers with that of an earlier   *)
(* request, which the caller takes for what it is after.                    *)
Replies(register) ==
  IF slave.register # register THEN Garbage
  ELSE IF slave.kind = "garmin" THEN {LidarReply} ELSE {SimulatorReply}
=============================================================================
