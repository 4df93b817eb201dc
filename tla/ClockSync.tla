------------------------------ MODULE ClockSync -----------------------------
(* The shared clock: a master sends the seconds of its time in a SYNC frame and
   the rest in a follow-up (FUP) frame; the slave, SharedClockSlaveManager,
   joins the two and restarts its timer.  There are two masters: the class
   TimeBaseManager, run once by globalClockSyncronization, and the periodic
   master of scripts/CommunicationMasterNodeSimulator.py, which the project
   uses to test a slave.

   Time is counted in ticks, Second of them to a second and Word of them to the
   range of uint32_t: the code has 10^9 and 2^32 nanoseconds. *)
EXTENDS Integers, Sequences

CONSTANTS
  Second, Word,     \* 10^9 and 2^32
  RefSeconds,       \* globalTimeReference: the master's seconds at time 0
  Gap, Period,      \* the simulator's pauses: 0.1 s and updateGlobalClkPeriod
  Jitter,           \* how late a master may do what is due
  MaxDelay,         \* how long a frame may take to reach the slave's code
  MaxTime           \* bound of a run

ASSUME ClockAssumption ==
  /\ Second \in Nat \ {0} /\ Word \in Nat /\ Second < Word
  /\ {RefSeconds, Gap, Period, Jitter, MaxDelay, MaxTime} \subseteq Nat

VARIABLES
  now,      \* ticks since the master's timer started
  master,   \* pc, when it is due, the TimeStamp being sent, the round's number
  bus,      \* frames of id CLOCK_SYNC, in the order sent
  slave     \* seconds last received, the reference and the time it was set at;
            \* round and joined are history: the rounds of the last SYNC and of
            \* the last FUP that followed one

vars == <<now, master, bus, slave>>

(* The master's absolute time, which the slave is to follow. *)
Absolute == RefSeconds * Second + now

(* The slave's seconds are not initialised: Garbage stands for any value. *)
Garbage == 0 .. RefSeconds + 1

Init ==
  /\ now = 0
  /\ master = [pc |-> "sync", due |-> 0, round |-> 1, nanoseconds |-> 0,
               t_0_c |-> 0, tx_stamp |-> 0]
  /\ bus = <<>>
  /\ \E g \in Garbage :
       slave = [seconds |-> g, round |-> 0, joined |-> 0, reference |-> 0, base |-> 0]

Frame(type, value) ==
  [type |-> type, value |-> value, round |-> master.round, sent |-> now]

(* Due and overdue: time does not pass an obligation by more than its slack. *)
IsDue(label) == master.pc = label /\ now >= master.due
Idle == master.pc = "done"
TimePasses ==
  /\ now < MaxTime
  /\ Idle \/ now < master.due + Jitter
  /\ \A k \in DOMAIN bus : now < bus[k].sent + MaxDelay
  /\ now' = now + 1
  /\ UNCHANGED <<master, bus, slave>>

-----------------------------------------------------------------------------
(* The simulator's master. *)

\* Mutant: the seconds are not taken out of the nanoseconds.
SimSyncWhole ==
  /\ IsDue("sync")
  /\ bus' = Append(bus, Frame("SYNC", Absolute \div Second))
  /\ master' = [master EXCEPT !.pc = "followUp", !.due = now + Gap,
                              !.nanoseconds = Absolute]
  /\ UNCHANGED <<now, slave>>

SimSync ==
  /\ IsDue("sync")
  /\ bus' = Append(bus, Frame("SYNC", Absolute \div Second))
  /\ master' = [master EXCEPT !.pc = "followUp", !.due = now + Gap,
                              !.nanoseconds = Absolute % Second]
  /\ UNCHANGED <<now, slave>>

\* Mutant: the follow-up carries the nanoseconds of its own sending.
SimFollowUpLate ==
  /\ IsDue("followUp")
  /\ bus' = Append(bus, Frame("FUP", Absolute % Second))
  /\ master' = [master EXCEPT !.pc = "sync", !.due = now + Period, !.round = @ + 1]
  /\ UNCHANGED <<now, slave>>

SimFollowUp ==
  /\ IsDue("followUp")
  /\ bus' = Append(bus, Frame("FUP", master.nanoseconds))
  /\ master' = [master EXCEPT !.pc = "sync", !.due = now + Period, !.round = @ + 1]
  /\ UNCHANGED <<now, slave>>

(* CanError: the round is given up and the next begins without a pause. *)
SimFails ==
  /\ IsDue("followUp")
  /\ master' = [master EXCEPT !.pc = "sync", !.due = now, !.round = @ + 1]
  /\ UNCHANGED <<now, bus, slave>>

-----------------------------------------------------------------------------
(* TimeBaseManager: sendSyncMessage, sendFollowUpMessage, sentGlobalTime. *)

NodeSync ==
  /\ IsDue("sync")
  /\ master' = [master EXCEPT !.pc = "stamp", !.t_0_c = Absolute,
                              !.nanoseconds = Absolute % Second, !.due = now]
  /\ bus' = Append(bus, Frame("SYNC", Absolute \div Second))
  /\ UNCHANGED <<now, slave>>

(* The SYNC could not be sent: tx_stamp, never assigned, may hold anything. *)
NodeSyncFails ==
  /\ IsDue("sync")
  /\ \E g \in Garbage :
       master' = [master EXCEPT !.pc = "followUp", !.t_0_c = Absolute, !.due = now,
                                !.nanoseconds = Absolute % Second, !.tx_stamp = g]
  /\ UNCHANGED <<now, bus, slave>>

NodeStamp ==
  /\ IsDue("stamp")
  /\ master' = [master EXCEPT !.pc = "followUp", !.tx_stamp = now, !.due = now]
  /\ UNCHANGED <<now, bus, slave>>

Transmission == (master.nanoseconds + (master.tx_stamp - master.t_0_c)) % Word

NodeFollowUp ==
  /\ IsDue("followUp")
  /\ bus' = Append(bus, Frame("FUP", Transmission))
  /\ master' = [master EXCEPT !.pc = "done"]
  /\ UNCHANGED <<now, slave>>

-----------------------------------------------------------------------------
(* The bus keeps the order of frames of one id, and may lose any. *)

Lose ==
  /\ bus # <<>>
  /\ bus' = Tail(bus)
  /\ UNCHANGED <<now, master, slave>>

\* Mutant: the seconds are taken over at once, with the old nanoseconds.
TakeSecondsAtOnce(s, frame) ==
  [s EXCEPT !.seconds = frame.value, !.round = frame.round, !.base = Absolute,
            !.reference = frame.value * Second + (s.reference % Second)]

TakeSeconds(s, frame) == [s EXCEPT !.seconds = frame.value, !.round = frame.round]

\* Mutant: the timer is not restarted.
JoinOnly(s, frame) ==
  [s EXCEPT !.reference = s.seconds * Second + frame.value,
            !.joined = IF s.round = 0 THEN 0 ELSE frame.round]

(* The rest completes whatever seconds there are; setGlobalTimeReference takes
   the sum as the time of this moment, and the timer starts again from zero. *)
Join(s, frame) ==
  [s EXCEPT !.reference = s.seconds * Second + frame.value, !.base = Absolute,
            !.joined = IF s.round = 0 THEN 0 ELSE frame.round]

Receive ==
  /\ bus # <<>>
  /\ LET frame == Head(bus)
     IN  slave' = IF frame.type = "SYNC" THEN TakeSeconds(slave, frame)
                                        ELSE Join(slave, frame)
  /\ bus' = Tail(bus)
  /\ UNCHANGED <<now, master>>

Environment == TimePasses \/ Lose \/ Receive

SimNext == SimSync \/ SimFollowUp \/ SimFails \/ Environment
SimSpec == Init /\ [][SimNext]_vars

NodeNext == NodeSync \/ NodeSyncFails \/ NodeStamp \/ NodeFollowUp \/ Environment
NodeSpec == Init /\ [][NodeNext]_vars

-----------------------------------------------------------------------------
Frames == [type : {"SYNC", "FUP"}, value : Nat, round : Nat, sent : Nat]

TypeOK ==
  /\ now \in 0 .. MaxTime
  /\ master \in [pc : {"sync", "stamp", "followUp", "done"}, due : Nat, round : Nat,
                 nanoseconds : 0 .. Second - 1, t_0_c : Nat, tx_stamp : Nat]
  /\ bus \in Seq(Frames)
  /\ slave \in [seconds : Nat, round : Nat, joined : Nat, reference : Nat, base : Nat]

(* How far the slave's clock is behind the master's; it stays so until the next
   follow-up, since both clocks run on. *)
Lag == slave.base - slave.reference
Slack == Gap + Jitter + MaxDelay

(* The slave compares no counters, so a lost frame makes it join the seconds of
   one round and the nanoseconds of another.  Still its clock never runs ahead
   of the master's. *)
NeverAhead == slave.joined > 0 => Lag >= 0

(* What a lost frame costs is whole seconds: but for these the slave is behind
   by the master's pause between the two frames and the delays. *)
LossCostsWholeSeconds == slave.joined > 0 => Lag % Second \in Gap .. Slack

(* A follow-up joined to the SYNC of its own round makes the slave's clock
   right up to the delays, whatever was lost before.  This is what the release
   notes promise of globalClockSynchronization ("working"). *)
CompleteRoundIsAccurate ==
  slave.joined > 0 /\ slave.joined = slave.round => Lag \in 0 .. Slack
=============================================================================
