-------------------------- MODULE ClockSync_proofs --------------------------
(* Theorems about the simulator's master, a lossy bus and the slave, for every
   length of the second, of the pauses and of the delays. *)
EXTENDS ClockSync, TLAPS

(* Seconds s that have begun by time a, completed by the rest of a, are not
   beyond a; the seconds of a itself give a. *)
LEMMA DivMod ==
  ASSUME NEW a \in Nat, NEW d \in Nat \ {0}
  PROVE  /\ a \div d \in Nat /\ a % d \in 0 .. d - 1
         /\ (a \div d) * d + (a % d) = a
  OBVIOUS

LEMMA SecondsBegun ==
  ASSUME NEW a \in Nat, NEW d \in Nat \ {0}, NEW s \in Nat, s * d <= a
  PROVE  s * d + (a % d) <= a
<1> DEFINE q == a \div d
<1>1. q \in Nat /\ a % d \in 0 .. d - 1 /\ q * d + (a % d) = a
  BY DivMod
<1>2. s <= q
  <2> SUFFICES ASSUME s >= q + 1 PROVE FALSE
    BY <1>1
  <2>1. s * d >= (q + 1) * d
    BY <1>1
  <2>2. (q + 1) * d = q * d + d
    BY <1>1
  <2> QED BY <1>1, <2>1, <2>2
<1>3. s * d <= q * d
  BY <1>1, <1>2
<1> QED BY <1>1, <1>3

-----------------------------------------------------------------------------
(* Type correctness. *)

LEMMA Parameters ==
  /\ Second \in Nat \ {0} /\ RefSeconds \in Nat /\ Gap \in Nat /\ Period \in Nat
  /\ Jitter \in Nat /\ MaxDelay \in Nat /\ MaxTime \in Nat
  BY ClockAssumption

SimTypeOK == TypeOK /\ master.pc \in {"sync", "followUp"}

LEMMA FrameType ==
  ASSUME SimTypeOK, NEW type \in {"SYNC", "FUP"}, NEW v \in Nat
  PROVE  Frame(type, v) \in Frames
  BY DEF SimTypeOK, TypeOK, Frame, Frames

LEMMA AbsoluteType ==
  ASSUME SimTypeOK
  PROVE  /\ Absolute \in Nat /\ Absolute \div Second \in Nat
         /\ Absolute % Second \in 0 .. Second - 1
<1>1. Absolute \in Nat /\ Second \in Nat \ {0}
  BY Parameters DEF SimTypeOK, TypeOK, Absolute
<1> QED BY <1>1, DivMod

MasterRecords ==
  [pc : {"sync", "stamp", "followUp", "done"}, due : Nat, round : Nat,
   nanoseconds : 0 .. Second - 1, t_0_c : Nat, tx_stamp : Nat]

LEMMA TypeInit == Init => SimTypeOK
  BY Parameters DEF Init, SimTypeOK, TypeOK, Garbage, Frames

LEMMA TypeStep == SimTypeOK /\ [SimNext]_vars => SimTypeOK'
<1> SUFFICES ASSUME SimTypeOK, [SimNext]_vars PROVE SimTypeOK'
  OBVIOUS
<1> USE Parameters DEF SimTypeOK, TypeOK
<1>1. CASE SimSync
  <2>1. Frame("SYNC", Absolute \div Second) \in Frames
    BY FrameType, AbsoluteType
  <2>2. bus' \in Seq(Frames)
    BY <1>1, <2>1 DEF SimSync
  <2>3. master' \in MasterRecords /\ master'.pc = "followUp"
    <3>1. Absolute % Second \in 0 .. Second - 1 /\ now + Gap \in Nat
      BY AbsoluteType
    <3> QED BY <1>1, <3>1 DEF SimSync, MasterRecords
  <2> QED BY <1>1, <2>2, <2>3 DEF SimSync, MasterRecords
<1>2. CASE SimFollowUp
  <2>1. Frame("FUP", master.nanoseconds) \in Frames
    BY FrameType
  <2>2. bus' \in Seq(Frames)
    BY <1>2, <2>1 DEF SimFollowUp
  <2>3. master' \in MasterRecords /\ master'.pc = "sync"
    <3>1. now + Period \in Nat /\ master.round + 1 \in Nat
      OBVIOUS
    <3> QED BY <1>2, <3>1 DEF SimFollowUp, MasterRecords
  <2> QED BY <1>2, <2>2, <2>3 DEF SimFollowUp, MasterRecords
<1>3. CASE SimFails
  <2>1. master' \in MasterRecords /\ master'.pc = "sync"
    <3>1. now \in Nat /\ master.round + 1 \in Nat
      OBVIOUS
    <3> QED BY <1>3, <3>1 DEF SimFails, MasterRecords
  <2> QED BY <1>3, <2>1 DEF SimFails, MasterRecords
<1>4. CASE TimePasses
  BY <1>4 DEF TimePasses
<1>5. CASE Lose
  BY <1>5 DEF Lose
<1>6. CASE Receive
  <2>1. Head(bus) \in Frames /\ bus' \in Seq(Frames)
    BY <1>6 DEF Receive
  <2>2. CASE Head(bus).type = "SYNC"
    BY <1>6, <2>1, <2>2 DEF Receive, TakeSeconds, Frames
  <2>3. CASE Head(bus).type # "SYNC"
    <3>1. Absolute \in Nat
      BY AbsoluteType
    <3>2. slave.seconds * Second + Head(bus).value \in Nat
      <4>1. Head(bus).value \in Nat
        BY <2>1 DEF Frames
      <4>2. slave.seconds \in Nat
        OBVIOUS
      <4>3. slave.seconds * Second \in Nat
        BY <4>2
      <4> QED BY <4>1, <4>3
    <3>3. slave' = Join(slave, Head(bus))
      BY <1>6, <2>3 DEF Receive
    <3>4. slave' \in [seconds : Nat, round : Nat, joined : Nat, reference : Nat, base : Nat]
      BY <2>1, <3>1, <3>2, <3>3 DEF Join, Frames
    <3> QED BY <1>6, <2>1, <3>4 DEF Receive
  <2> QED BY <2>2, <2>3
<1>7. CASE UNCHANGED vars
  BY <1>7 DEF vars
<1> QED BY <1>1, <1>2, <1>3, <1>4, <1>5, <1>6, <1>7 DEF SimNext, Environment

(* Every reachable state of the simulator's protocol is well formed. *)
THEOREM SimTypeCorrect == SimSpec => []TypeOK
<1>1. SimTypeOK => TypeOK
  BY DEF SimTypeOK
<1> QED BY <1>1, TypeInit, TypeStep, PTL DEF SimSpec

-----------------------------------------------------------------------------
(* The slave never ahead.  Seconds the slave has or is about to receive, joined
   to nanoseconds that come after them, do not exceed the master's time: the
   nanoseconds complete a time whose seconds began no earlier. *)

Begun(s, v) == s * Second + v <= Absolute

Earlier(s, r, k) ==  \* the slave may hold seconds s, of round r, when it takes frame k
  \/ slave.round > 0 /\ s = slave.seconds /\ r = slave.round
  \/ \E j \in DOMAIN bus :
       j < k /\ bus[j].type = "SYNC" /\ s = bus[j].value /\ r = bus[j].round

SecondsInTime == \A s, r \in Nat : Earlier(s, r, Len(bus) + 1) => Begun(s, 0)

NextFollowUpInTime ==
  master.pc = "followUp" =>
    \A s, r \in Nat : Earlier(s, r, Len(bus) + 1) => Begun(s, master.nanoseconds)

FollowUpsInTime ==
  \A k \in DOMAIN bus : bus[k].type = "FUP" =>
    \A s, r \in Nat : Earlier(s, r, k) => Begun(s, bus[k].value)

InTime == SimTypeOK /\ SecondsInTime /\ NextFollowUpInTime /\ FollowUpsInTime /\ NeverAhead

LEMMA InTimeInit == Init => InTime
  BY TypeInit DEF Init, InTime, SecondsInTime, NextFollowUpInTime, FollowUpsInTime,
     Earlier, NeverAhead

(* Sending a frame adds at most its seconds to what may come before. *)
LEMMA SendEarlier ==
  ASSUME SimTypeOK, NEW f \in Frames, bus' = Append(bus, f), slave' = slave
  PROVE  /\ \A s, r \in Nat, k \in DOMAIN bus \cup {Len(bus) + 1} :
              Earlier(s, r, k)' => Earlier(s, r, k)
         /\ \A s, r \in Nat : Earlier(s, r, Len(bus) + 1)' =>
              Earlier(s, r, Len(bus) + 1) \/ (f.type = "SYNC" /\ s = f.value /\ r = f.round)
<1>1. /\ bus \in Seq(Frames) /\ Len(bus') = Len(bus) + 1
      /\ DOMAIN bus = 1 .. Len(bus) /\ DOMAIN bus' = 1 .. Len(bus) + 1
      /\ \A j \in 1 .. Len(bus) : bus'[j] = bus[j]
      /\ bus'[Len(bus) + 1] = f
  BY DEF SimTypeOK, TypeOK
<1> QED BY <1>1 DEF Earlier

(* Taking the first frame away moves what is behind it up by one place. *)
LEMMA TakeEarlier ==
  ASSUME SimTypeOK, bus # <<>>, bus' = Tail(bus), Lose \/ Receive
  PROVE  /\ \A k \in DOMAIN bus' : k + 1 \in DOMAIN bus /\ bus'[k] = bus[k + 1]
         /\ \A s, r \in Nat, k \in 1 .. Len(bus) :
              Earlier(s, r, k)' => Earlier(s, r, k + 1)
         /\ Len(bus') + 1 \in 1 .. Len(bus) /\ Len(bus') + 2 = Len(bus) + 1
<1>1. /\ bus \in Seq(Frames) /\ Len(bus) \in Nat \ {0} /\ Len(bus') = Len(bus) - 1
      /\ DOMAIN bus = 1 .. Len(bus) /\ DOMAIN bus' = 1 .. Len(bus) - 1
      /\ \A j \in 1 .. Len(bus) - 1 : bus'[j] = bus[j + 1]
      /\ Head(bus) = bus[1]
  BY DEF SimTypeOK, TypeOK
<1>2. \/ slave'.seconds = slave.seconds /\ slave'.round = slave.round
      \/ /\ Head(bus).type = "SYNC" /\ slave'.seconds = Head(bus).value
         /\ slave'.round = Head(bus).round
  BY DEF Lose, Receive, TakeSeconds, Join, SimTypeOK, TypeOK
<1>3. ASSUME NEW s \in Nat, NEW r \in Nat, NEW k \in 1 .. Len(bus), Earlier(s, r, k)'
      PROVE  Earlier(s, r, k + 1)
  <2>1. CASE slave'.round > 0 /\ s = slave'.seconds /\ r = slave'.round
    BY <1>1, <1>2, <2>1 DEF Earlier
  <2>2. CASE \E j \in DOMAIN bus' :
               j < k /\ bus'[j].type = "SYNC" /\ s = bus'[j].value /\ r = bus'[j].round
    <3>1. PICK j \in DOMAIN bus' :
               j < k /\ bus'[j].type = "SYNC" /\ s = bus'[j].value /\ r = bus'[j].round
      BY <2>2
    <3>2. /\ j + 1 \in DOMAIN bus /\ j + 1 < k + 1
          /\ bus[j + 1].type = "SYNC" /\ s = bus[j + 1].value /\ r = bus[j + 1].round
      BY <1>1, <3>1
    <3> QED BY <3>2 DEF Earlier
  <2> QED BY <1>3, <2>1, <2>2 DEF Earlier
<1> QED BY <1>1, <1>3

LEMMA InTimeStep == InTime /\ [SimNext]_vars => InTime'
<1> SUFFICES ASSUME InTime, [SimNext]_vars PROVE InTime'
  OBVIOUS
<1>1. SimTypeOK /\ SimTypeOK'
  BY TypeStep DEF InTime
<1>2. Absolute \in Nat /\ Absolute' \in Nat /\ Second \in Nat \ {0}
  <2>1. RefSeconds * Second \in Nat /\ MaxTime \in Nat /\ Second \in Nat \ {0}
    BY Parameters
  <2>2. now \in Nat /\ now' \in Nat
    BY <1>1, <2>1 DEF SimTypeOK, TypeOK
  <2> QED BY <2>1, <2>2 DEF Absolute
<1>3. bus \in Seq(Frames) /\ Len(bus) \in Nat /\ DOMAIN bus = 1 .. Len(bus)
  BY <1>1 DEF SimTypeOK, TypeOK
<1>4. CASE SimSync
  <2> DEFINE v == Absolute \div Second
             f == Frame("SYNC", v)
  <2>1. f \in Frames /\ f.type = "SYNC" /\ f.value = v
    BY <1>1, FrameType, AbsoluteType DEF Frame
  <2>2. /\ bus' = Append(bus, f) /\ slave' = slave /\ Absolute' = Absolute
        /\ master'.nanoseconds = Absolute % Second
    BY <1>1, <1>4 DEF SimSync, Absolute, SimTypeOK, TypeOK
  <2>3. v \in Nat /\ v * Second + (Absolute % Second) = Absolute
        /\ Absolute % Second \in Nat
    BY <1>2, DivMod
  <2>4. \A s, r \in Nat : Earlier(s, r, Len(bus) + 1)' => Earlier(s, r, Len(bus) + 1) \/ s = v
    BY <1>1, <2>1, <2>2, SendEarlier
  <2>5. \A s, r \in Nat : Earlier(s, r, Len(bus) + 1) => s * Second <= Absolute
    BY <1>2 DEF InTime, SecondsInTime, Begun
  <2>6. \A s, r \in Nat : Earlier(s, r, Len(bus) + 1)' => s * Second + (Absolute % Second) <= Absolute
    <3>1. \A s \in Nat : s * Second <= Absolute => s * Second + (Absolute % Second) <= Absolute
      BY <1>2, SecondsBegun
    <3>2. v * Second + (Absolute % Second) <= Absolute
      BY <1>2, <2>3
    <3> QED BY <2>4, <2>5, <3>1, <3>2
  <2>7. SecondsInTime' /\ NextFollowUpInTime'
    <3>1. \A s, r \in Nat : Earlier(s, r, Len(bus) + 1)' =>
            Begun(s, 0)' /\ Begun(s, master.nanoseconds)'
      <4>1. \A s \in Nat : s * Second \in Nat
        BY <1>2
      <4> QED BY <1>2, <2>2, <2>3, <2>6, <4>1 DEF Begun
    <3> QED BY <3>1 DEF SecondsInTime, NextFollowUpInTime
  <2>8. FollowUpsInTime'
    BY <1>1, <1>3, <2>1, <2>2, SendEarlier DEF InTime, FollowUpsInTime, Begun
  <2>9. NeverAhead'
    BY <2>2 DEF InTime, NeverAhead, Lag
  <2> QED BY <1>1, <2>7, <2>8, <2>9 DEF InTime
<1>5. CASE SimFollowUp
  <2> DEFINE f == Frame("FUP", master.nanoseconds)
  <2>1. f \in Frames /\ f.type = "FUP" /\ f.value = master.nanoseconds
    <3>1. master.nanoseconds \in Nat
      BY <1>1, Parameters DEF SimTypeOK, TypeOK
    <3> QED BY <1>1, <3>1, FrameType DEF Frame
  <2>2. /\ bus' = Append(bus, f) /\ slave' = slave /\ Absolute' = Absolute
        /\ master.pc = "followUp" /\ master'.pc = "sync"
    BY <1>1, <1>5 DEF SimFollowUp, IsDue, Absolute, SimTypeOK, TypeOK
  <2>3. SecondsInTime' /\ NextFollowUpInTime'
    <3>1. \A s, r \in Nat : Earlier(s, r, Len(bus) + 1)' => Earlier(s, r, Len(bus) + 1)
      BY <1>1, <2>1, <2>2, SendEarlier
    <3> QED BY <2>2, <3>1 DEF InTime, SecondsInTime, NextFollowUpInTime, Begun
  <2>4. FollowUpsInTime'
    <3> SUFFICES ASSUME NEW k \in DOMAIN bus', bus'[k].type = "FUP",
                        NEW s \in Nat, NEW r \in Nat, Earlier(s, r, k)'
                 PROVE  s * Second + bus'[k].value <= Absolute
      BY <2>2 DEF FollowUpsInTime, Begun
    <3>1. k \in DOMAIN bus \cup {Len(bus) + 1} /\ Earlier(s, r, k)
      BY <1>1, <1>3, <2>1, <2>2, SendEarlier
    <3>2. CASE k \in DOMAIN bus
      BY <1>3, <2>2, <3>1, <3>2 DEF InTime, FollowUpsInTime, Begun
    <3>3. CASE k = Len(bus) + 1
      BY <1>3, <2>1, <2>2, <3>1, <3>3 DEF InTime, NextFollowUpInTime, Begun
    <3> QED BY <3>1, <3>2, <3>3
  <2>5. NeverAhead'
    BY <2>2 DEF InTime, NeverAhead, Lag
  <2> QED BY <1>1, <2>3, <2>4, <2>5 DEF InTime
<1>6. CASE SimFails
  <2>1. bus' = bus /\ slave' = slave /\ Absolute' = Absolute /\ master'.pc = "sync"
    BY <1>1, <1>6 DEF SimFails, Absolute, SimTypeOK, TypeOK
  <2>2. \A s, r \in Nat, k \in Nat : Earlier(s, r, k)' <=> Earlier(s, r, k)
    BY <2>1 DEF Earlier
  <2>3. SecondsInTime' /\ NextFollowUpInTime'
    BY <1>3, <2>1, <2>2 DEF InTime, SecondsInTime, NextFollowUpInTime, Begun
  <2>4. FollowUpsInTime' /\ NeverAhead'
    BY <1>3, <2>1, <2>2 DEF InTime, FollowUpsInTime, Begun, NeverAhead, Lag
  <2> QED BY <1>1, <2>3, <2>4 DEF InTime
<1>7. CASE TimePasses
  <2>1. bus' = bus /\ slave' = slave /\ master' = master /\ Absolute' = Absolute + 1
    BY <1>1, <1>7, Parameters DEF TimePasses, Absolute, SimTypeOK, TypeOK
  <2>2. \A s, v \in Nat : Begun(s, v) => Begun(s, v)'
    BY <1>2, <2>1 DEF Begun
  <2>3. master.nanoseconds \in Nat /\ \A k \in DOMAIN bus : bus[k].value \in Nat
    <3>1. master.nanoseconds \in Nat
      BY <1>1, Parameters DEF SimTypeOK, TypeOK
    <3>2. \A k \in DOMAIN bus : bus[k] \in Frames
      BY <1>3
    <3> QED BY <3>1, <3>2 DEF Frames
  <2>4. \A s, r \in Nat, k \in Nat : Earlier(s, r, k)' <=> Earlier(s, r, k)
    BY <2>1 DEF Earlier
  <2>5. SecondsInTime' /\ NextFollowUpInTime'
    BY <1>3, <2>1, <2>2, <2>3, <2>4 DEF InTime, SecondsInTime, NextFollowUpInTime
  <2>6. FollowUpsInTime' /\ NeverAhead'
    BY <1>3, <2>1, <2>2, <2>3, <2>4 DEF InTime, FollowUpsInTime, NeverAhead, Lag
  <2> QED BY <1>1, <2>5, <2>6 DEF InTime
<1>8. CASE Lose \/ Receive
  <2>1. bus # <<>> /\ bus' = Tail(bus) /\ master' = master /\ Absolute' = Absolute
    BY <1>8 DEF Lose, Receive, Absolute
  <2>2. \A k \in DOMAIN bus' : k + 1 \in DOMAIN bus /\ bus'[k] = bus[k + 1]
    BY <1>1, <1>8, <2>1, TakeEarlier
  <2>3. \A s, r \in Nat, k \in 1 .. Len(bus) : Earlier(s, r, k)' => Earlier(s, r, k + 1)
    BY <1>1, <1>8, <2>1, TakeEarlier
  <2>4. \A s, r \in Nat : Earlier(s, r, Len(bus) + 1)' => Earlier(s, r, Len(bus) + 1)
    BY <1>1, <1>3, <1>8, <2>1, <2>3
  <2>5. SecondsInTime' /\ NextFollowUpInTime'
    BY <2>1, <2>4 DEF InTime, SecondsInTime, NextFollowUpInTime, Begun
  <2>6. FollowUpsInTime'
    BY <1>3, <2>1, <2>2, <2>3 DEF InTime, FollowUpsInTime, Begun
  <2>7. NeverAhead'
    <3>1. CASE slave' = Join(slave, Head(bus)) /\ Head(bus).type = "FUP" /\ slave.round > 0
      <4>1. /\ slave'.reference = slave.seconds * Second + Head(bus).value
            /\ slave'.base = Absolute
        BY <1>1, <3>1 DEF Join, SimTypeOK, TypeOK
      <4>2. 1 \in DOMAIN bus /\ Head(bus) = bus[1] /\ slave.seconds \in Nat
            /\ slave.round \in Nat /\ bus[1].value \in Nat
        <5>1. 1 \in DOMAIN bus /\ Head(bus) = bus[1] /\ bus[1] \in Frames
          BY <1>3, <2>1
        <5>2. slave.seconds \in Nat /\ slave.round \in Nat
          BY <1>1 DEF SimTypeOK, TypeOK
        <5> QED BY <5>1, <5>2 DEF Frames
      <4>3. Earlier(slave.seconds, slave.round, 1)
        BY <3>1 DEF Earlier
      <4>4. slave.seconds * Second + bus[1].value <= Absolute
        BY <3>1, <4>2, <4>3 DEF InTime, FollowUpsInTime, Begun
      <4>5. slave.seconds * Second \in Nat
        BY <1>2, <4>2
      <4> QED BY <1>2, <4>1, <4>2, <4>4, <4>5 DEF NeverAhead, Lag
    <3>2. CASE slave' = Join(slave, Head(bus)) /\ ~(slave.round > 0)
      <4>1. slave'.joined = 0
        <5>1. slave.round = 0
          <6>1. slave.round \in Nat
            BY <1>1 DEF SimTypeOK, TypeOK
          <6> QED BY <3>2, <6>1
        <5> QED BY <1>1, <3>2, <5>1 DEF Join, SimTypeOK, TypeOK
      <4> QED BY <4>1 DEF NeverAhead
    <3>3. CASE slave' = TakeSeconds(slave, Head(bus)) \/ slave' = slave
      BY <1>1, <3>3 DEF TakeSeconds, InTime, NeverAhead, Lag, SimTypeOK, TypeOK
    <3>4. Head(bus).type \in {"SYNC", "FUP"}
      <4>1. Head(bus) \in Frames
        BY <1>3, <2>1
      <4> QED BY <4>1 DEF Frames
    <3> QED BY <1>8, <3>1, <3>2, <3>3, <3>4 DEF Lose, Receive
  <2> QED BY <1>1, <2>5, <2>6, <2>7 DEF InTime
<1>9. CASE UNCHANGED vars
  BY <1>1, <1>9 DEF vars, InTime, SecondsInTime, NextFollowUpInTime, FollowUpsInTime,
     Earlier, Begun, Absolute, NeverAhead, Lag
<1> QED BY <1>4, <1>5, <1>6, <1>7, <1>8, <1>9 DEF SimNext, Environment

(* Whatever frames are lost, and however the slave joins what it gets, its
   clock does not run ahead of the master's. *)
THEOREM SlaveNeverAhead == SimSpec => []NeverAhead
<1>1. InTime => NeverAhead
  BY DEF InTime
<1> QED BY <1>1, InTimeInit, InTimeStep, PTL DEF SimSpec

-----------------------------------------------------------------------------
(* A complete round is accurate.  The rounds go up along the bus, so what the
   slave joins is of one round only if nothing of it was lost; and from the
   SYNC's sending to the follow-up's arrival at most Slack passes. *)

Base == RefSeconds * Second

RoundsSent ==
  \A s, r \in Nat : Earlier(s, r, Len(bus) + 1) =>
    r <= master.round /\ (master.pc = "sync" => r < master.round)

RoundsInOrder ==
  /\ slave.joined < master.round
  /\ \A k \in DOMAIN bus : bus[k].type = "FUP" => bus[k].round < master.round
  /\ \A j \in DOMAIN bus : bus[j].type = "SYNC" => slave.joined < bus[j].round
  /\ \A k, j \in DOMAIN bus :
       k < j /\ bus[k].type = "FUP" /\ bus[j].type = "SYNC" => bus[k].round < bus[j].round

NextFollowUpOnTime ==
  master.pc = "followUp" =>
    /\ now <= master.due + Jitter
    /\ \A s, r \in Nat : Earlier(s, r, Len(bus) + 1) /\ r = master.round =>
         s * Second + master.nanoseconds + Gap = Base + master.due

FollowUpsOnTime ==
  \A k \in DOMAIN bus : bus[k].type = "FUP" =>
    /\ now <= bus[k].sent + MaxDelay
    /\ \A s, r \in Nat : Earlier(s, r, k) /\ r = bus[k].round =>
         Base + bus[k].sent <= s * Second + bus[k].value + Gap + Jitter

NotFarBehind == slave.joined > 0 /\ slave.joined = slave.round => Lag <= Slack

OnTime ==
  /\ InTime
  /\ RoundsSent /\ RoundsInOrder
  /\ NextFollowUpOnTime /\ FollowUpsOnTime /\ NotFarBehind

LEMMA OnTimeInit == Init => OnTime
<1> SUFFICES ASSUME Init PROVE OnTime
  OBVIOUS
<1>1. InTime
  BY InTimeInit
<1>2. /\ DOMAIN bus = {} /\ slave.round = 0 /\ slave.joined = 0
      /\ master.round = 1 /\ master.pc = "sync"
  BY DEF Init
<1>3. RoundsSent /\ RoundsInOrder /\ NextFollowUpOnTime /\ FollowUpsOnTime /\ NotFarBehind
  BY <1>2 DEF RoundsSent, RoundsInOrder, NextFollowUpOnTime, FollowUpsOnTime,
     NotFarBehind, Earlier
<1> QED BY <1>1, <1>3 DEF OnTime

(* The types the steps below work with. *)
LEMMA Numbers ==
  ASSUME SimTypeOK
  PROVE  /\ now \in Nat /\ Base \in Nat /\ Absolute = Base + now
         /\ master.due \in Nat /\ master.round \in Nat /\ master.nanoseconds \in Nat
         /\ master.pc \in {"sync", "followUp"}
         /\ slave.seconds \in Nat /\ slave.round \in Nat /\ slave.joined \in Nat
         /\ slave.reference \in Nat /\ slave.base \in Nat
         /\ Len(bus) \in Nat /\ DOMAIN bus = 1 .. Len(bus)
         /\ \A k \in DOMAIN bus :
              /\ bus[k] \in Frames /\ bus[k].type \in {"SYNC", "FUP"}
              /\ bus[k].value \in Nat /\ bus[k].round \in Nat /\ bus[k].sent \in Nat
<1>1. now \in Nat /\ master.nanoseconds \in Nat
  BY Parameters DEF SimTypeOK, TypeOK
<1>2. Base \in Nat
  BY Parameters DEF Base
<1>3. \A k \in DOMAIN bus : bus[k] \in Frames
  BY DEF SimTypeOK, TypeOK
<1>4. \A k \in DOMAIN bus :
        /\ bus[k] \in Frames /\ bus[k].type \in {"SYNC", "FUP"}
        /\ bus[k].value \in Nat /\ bus[k].round \in Nat /\ bus[k].sent \in Nat
  BY <1>3 DEF Frames
<1>5. Absolute = Base + now
  BY DEF Base, Absolute
<1>6. Len(bus) \in Nat /\ DOMAIN bus = 1 .. Len(bus)
  BY DEF SimTypeOK, TypeOK
<1>7. /\ master.due \in Nat /\ master.round \in Nat /\ master.pc \in {"sync", "followUp"}
      /\ slave.seconds \in Nat /\ slave.round \in Nat /\ slave.joined \in Nat
      /\ slave.reference \in Nat /\ slave.base \in Nat
  BY DEF SimTypeOK, TypeOK
<1> QED BY <1>1, <1>2, <1>4, <1>5, <1>6, <1>7

(* A frame is sent. *)
LEMMA SendNumbers ==
  ASSUME SimTypeOK, NEW f \in Frames, bus' = Append(bus, f)
  PROVE  /\ DOMAIN bus' = DOMAIN bus \cup {Len(bus) + 1} /\ Len(bus') = Len(bus) + 1
         /\ \A k \in DOMAIN bus : bus'[k] = bus[k] /\ k < Len(bus) + 1
         /\ bus'[Len(bus) + 1] = f
  BY DEF SimTypeOK, TypeOK

LEMMA OnTimeSync == OnTime /\ SimSync => OnTime'
<1> SUFFICES ASSUME OnTime, SimSync PROVE OnTime'
  OBVIOUS
<1> DEFINE v == Absolute \div Second
           f == Frame("SYNC", v)
<1>1. InTime /\ InTime' /\ SimTypeOK /\ SimTypeOK'
  BY InTimeStep DEF OnTime, InTime, SimNext
<1>2. /\ f \in Frames /\ f.type = "SYNC" /\ f.value = v /\ f.round = master.round
      /\ v \in Nat
  BY <1>1, FrameType, AbsoluteType DEF Frame
<1>3. /\ bus' = Append(bus, f) /\ slave' = slave /\ now' = now
      /\ master.pc = "sync" /\ master'.pc = "followUp" /\ master'.round = master.round
      /\ master'.due = now + Gap /\ master'.nanoseconds = Absolute % Second
  BY <1>1 DEF SimSync, IsDue, SimTypeOK, TypeOK
<1>4. /\ DOMAIN bus' = DOMAIN bus \cup {Len(bus) + 1} /\ Len(bus') = Len(bus) + 1
      /\ \A k \in DOMAIN bus : bus'[k] = bus[k] /\ k < Len(bus) + 1
      /\ bus'[Len(bus) + 1] = f
  BY <1>1, <1>2, <1>3, SendNumbers
<1>5. /\ \A s, r \in Nat, k \in DOMAIN bus \cup {Len(bus) + 1} :
           Earlier(s, r, k)' => Earlier(s, r, k)
      /\ \A s, r \in Nat : Earlier(s, r, Len(bus) + 1)' =>
           Earlier(s, r, Len(bus) + 1) \/ (s = v /\ r = master.round)
  BY <1>1, <1>2, <1>3, SendEarlier
<1>6. \A s, r \in Nat : Earlier(s, r, Len(bus) + 1) => r < master.round
  BY <1>3 DEF OnTime, RoundsSent
<1>7. RoundsSent'
  BY <1>1, <1>3, <1>5, <1>6, Numbers DEF RoundsSent
<1>8. RoundsInOrder'
  BY <1>1, <1>2, <1>3, <1>4, Numbers DEF OnTime, RoundsInOrder
<1>9. NextFollowUpOnTime'
  <2>1. v * Second + (Absolute % Second) = Absolute
    BY <1>1, AbsoluteType, Parameters, DivMod
  <2>2. Absolute = Base + now /\ now \in Nat /\ Base \in Nat /\ Gap \in Nat /\ Jitter \in Nat
    BY <1>1, Numbers, Parameters
  <2>3. Base' = Base
    BY DEF Base
  <2>4. \A s, r \in Nat : Earlier(s, r, Len(bus) + 1)' /\ r = master.round => s = v
    BY <1>1, <1>5, <1>6, Numbers
  <2>5. v * Second + (Absolute % Second) + Gap = Base + (now + Gap)
    BY <2>1, <2>2
  <2>6. now <= now + Gap + Jitter
    BY <2>2
  <2> QED BY <1>3, <2>2, <2>3, <2>4, <2>5, <2>6 DEF NextFollowUpOnTime
<1>10. FollowUpsOnTime'
  BY <1>2, <1>3, <1>4, <1>5 DEF OnTime, FollowUpsOnTime, Base
<1>11. NotFarBehind'
  BY <1>3 DEF OnTime, NotFarBehind, Lag, Slack
<1> QED BY <1>1, <1>7, <1>8, <1>9, <1>10, <1>11 DEF OnTime

LEMMA OnTimeFollowUp == OnTime /\ SimFollowUp => OnTime'
<1> SUFFICES ASSUME OnTime, SimFollowUp PROVE OnTime'
  OBVIOUS
<1> DEFINE f == Frame("FUP", master.nanoseconds)
<1>1. InTime /\ InTime' /\ SimTypeOK /\ SimTypeOK'
  BY InTimeStep DEF OnTime, InTime, SimNext
<1>2. /\ f \in Frames /\ f.type = "FUP" /\ f.value = master.nanoseconds
      /\ f.round = master.round /\ f.sent = now
  BY <1>1, FrameType, Numbers DEF Frame
<1>3. /\ bus' = Append(bus, f) /\ slave' = slave /\ now' = now
      /\ master.pc = "followUp" /\ master'.pc = "sync"
      /\ master'.round = master.round + 1
  BY <1>1 DEF SimFollowUp, IsDue, SimTypeOK, TypeOK
<1>4. /\ DOMAIN bus' = DOMAIN bus \cup {Len(bus) + 1} /\ Len(bus') = Len(bus) + 1
      /\ \A k \in DOMAIN bus : bus'[k] = bus[k] /\ k < Len(bus) + 1
      /\ bus'[Len(bus) + 1] = f
  BY <1>1, <1>2, <1>3, SendNumbers
<1>5. /\ \A s, r \in Nat, k \in DOMAIN bus \cup {Len(bus) + 1} :
           Earlier(s, r, k)' => Earlier(s, r, k)
      /\ \A s, r \in Nat : Earlier(s, r, Len(bus) + 1)' => Earlier(s, r, Len(bus) + 1)
  BY <1>1, <1>2, <1>3, SendEarlier
<1>6. RoundsSent'
  BY <1>1, <1>3, <1>5, Numbers DEF OnTime, RoundsSent
<1>7. RoundsInOrder'
  BY <1>1, <1>2, <1>3, <1>4, Numbers DEF OnTime, RoundsInOrder
<1>8. NextFollowUpOnTime'
  BY <1>3 DEF NextFollowUpOnTime
<1>9. FollowUpsOnTime'
  <2>1. ASSUME NEW k \in DOMAIN bus', bus'[k].type = "FUP"
        PROVE  /\ now <= bus'[k].sent + MaxDelay
               /\ \A s, r \in Nat : Earlier(s, r, k)' /\ r = bus'[k].round =>
                    Base + bus'[k].sent <= s * Second + bus'[k].value + Gap + Jitter
    <3>1. CASE k \in DOMAIN bus
      BY <1>4, <1>5, <2>1, <3>1 DEF OnTime, FollowUpsOnTime
    <3>2. CASE k = Len(bus) + 1
      <4>1. bus'[k] = f /\ now <= now + MaxDelay
        BY <1>1, <1>4, <3>2, Numbers, Parameters
      <4>2. ASSUME NEW s \in Nat, NEW r \in Nat, Earlier(s, r, k)', r = master.round
            PROVE  Base + now <= s * Second + master.nanoseconds + Gap + Jitter
        <5>1. Earlier(s, r, Len(bus) + 1)
          BY <1>5, <3>2, <4>2
        <5>2. s * Second + master.nanoseconds + Gap = Base + master.due
              /\ now <= master.due + Jitter
          BY <1>3, <4>2, <5>1 DEF OnTime, NextFollowUpOnTime
        <5>3. s * Second \in Nat
          BY Parameters
        <5>4. /\ now \in Nat /\ Base \in Nat /\ master.due \in Nat
              /\ master.nanoseconds \in Nat /\ Gap \in Nat /\ Jitter \in Nat
          BY <1>1, Numbers, Parameters
        <5> QED BY <5>2, <5>3, <5>4
      <4> QED BY <1>2, <4>1, <4>2
    <3> QED BY <1>4, <3>1, <3>2
  <2> QED BY <1>3, <2>1 DEF FollowUpsOnTime, Base
<1>10. NotFarBehind'
  BY <1>3 DEF OnTime, NotFarBehind, Lag, Slack
<1> QED BY <1>1, <1>6, <1>7, <1>8, <1>9, <1>10 DEF OnTime

LEMMA OnTimeRest ==
  OnTime /\ (SimFails \/ TimePasses \/ UNCHANGED vars) => OnTime'
<1> SUFFICES ASSUME OnTime, SimFails \/ TimePasses \/ UNCHANGED vars PROVE OnTime'
  OBVIOUS
<1>1. InTime /\ InTime' /\ SimTypeOK /\ SimTypeOK'
  BY InTimeStep DEF OnTime, InTime, SimNext, Environment
<1>2. bus' = bus /\ slave' = slave /\ Base' = Base
  BY DEF SimFails, TimePasses, vars, Base
<1>3. \A s, r \in Nat, k \in Nat : Earlier(s, r, k)' <=> Earlier(s, r, k)
  BY <1>2 DEF Earlier
<1>4. \/ /\ now' = now /\ master'.pc = "sync" /\ master'.round = master.round + 1
      \/ /\ master' = master
         /\ now' = now \/ (now' = now + 1 /\ now < master.due + Jitter
                           /\ \A k \in DOMAIN bus : now < bus[k].sent + MaxDelay)
  BY <1>1 DEF SimFails, TimePasses, Idle, vars, SimTypeOK, TypeOK
<1>5. RoundsSent'
  BY <1>1, <1>2, <1>3, <1>4, Numbers DEF OnTime, RoundsSent
<1>6. RoundsInOrder'
  BY <1>1, <1>2, <1>4, Numbers DEF OnTime, RoundsInOrder
<1>7. NextFollowUpOnTime'
  <2>1. CASE master'.pc = "sync"
    BY <2>1 DEF NextFollowUpOnTime
  <2>2. CASE master' = master
    <3>1. master.pc = "followUp" => now' <= master.due + Jitter
      BY <1>1, <1>4, <2>2, Numbers, Parameters DEF OnTime, NextFollowUpOnTime
    <3> QED BY <1>1, <1>2, <1>3, <2>2, <3>1, Numbers DEF OnTime, NextFollowUpOnTime
  <2> QED BY <1>4, <2>1, <2>2
<1>8. FollowUpsOnTime'
  <2>1. ASSUME NEW k \in DOMAIN bus, bus[k].type = "FUP"
        PROVE  now' <= bus[k].sent + MaxDelay
    <3>1. bus[k].sent \in Nat /\ now \in Nat /\ MaxDelay \in Nat
      BY <1>1, Numbers, Parameters
    <3>2. now <= bus[k].sent + MaxDelay
      BY <2>1 DEF OnTime, FollowUpsOnTime
    <3>3. now' = now \/ (now' = now + 1 /\ now < bus[k].sent + MaxDelay)
      BY <1>4
    <3> QED BY <3>1, <3>2, <3>3
  <2> QED BY <1>1, <1>2, <1>3, <2>1, Numbers DEF OnTime, FollowUpsOnTime
<1>9. NotFarBehind'
  BY <1>2 DEF OnTime, NotFarBehind, Lag, Slack
<1> QED BY <1>1, <1>5, <1>6, <1>7, <1>8, <1>9 DEF OnTime

LEMMA OnTimeTake == OnTime /\ (Lose \/ Receive) => OnTime'
<1> SUFFICES ASSUME OnTime, Lose \/ Receive PROVE OnTime'
  OBVIOUS
<1>1. InTime /\ InTime' /\ SimTypeOK /\ SimTypeOK'
  BY InTimeStep DEF OnTime, InTime, SimNext, Environment
<1>2. bus # <<>> /\ bus' = Tail(bus) /\ master' = master /\ now' = now /\ Base' = Base
  BY DEF Lose, Receive, Base
<1>3. /\ \A k \in DOMAIN bus' : k + 1 \in DOMAIN bus /\ bus'[k] = bus[k + 1]
      /\ \A s, r \in Nat, k \in 1 .. Len(bus) : Earlier(s, r, k)' => Earlier(s, r, k + 1)
      /\ Len(bus') + 1 \in 1 .. Len(bus) /\ Len(bus') + 2 = Len(bus) + 1
  BY <1>1, <1>2, TakeEarlier
<1>4. \A s, r \in Nat : Earlier(s, r, Len(bus) + 1)' => Earlier(s, r, Len(bus) + 1)
  BY <1>1, <1>3, Numbers
<1>5. /\ DOMAIN bus = 1 .. Len(bus) /\ DOMAIN bus' = 1 .. Len(bus') /\ Len(bus) \in Nat
      /\ 1 \in DOMAIN bus /\ Head(bus) = bus[1]
      /\ DOMAIN bus' \subseteq 1 .. Len(bus) /\ Len(bus') \in Nat
  BY <1>1, <1>2 DEF SimTypeOK, TypeOK
<1>6. \/ slave' = slave
      \/ bus[1].type = "SYNC" /\ slave' = TakeSeconds(slave, bus[1])
      \/ bus[1].type = "FUP" /\ slave' = Join(slave, bus[1])
  BY <1>1, <1>5, Numbers DEF Lose, Receive
<1>7. /\ bus[1].value \in Nat /\ bus[1].round \in Nat /\ bus[1].sent \in Nat
      /\ slave.round \in Nat /\ slave.joined \in Nat /\ slave.seconds \in Nat
  BY <1>1, <1>5, Numbers
<1>8. RoundsSent'
  BY <1>2, <1>4 DEF OnTime, RoundsSent
<1>9. \/ slave'.joined = slave.joined
      \/ slave'.joined = 0
      \/ bus[1].type = "FUP" /\ slave'.joined = bus[1].round
  BY <1>1, <1>6 DEF TakeSeconds, Join, SimTypeOK, TypeOK
<1>10. RoundsInOrder'
  <2>1. slave'.joined < master.round
    BY <1>1, <1>5, <1>9, Numbers DEF OnTime, RoundsInOrder
  <2>2. \A j \in DOMAIN bus' : bus'[j].type = "SYNC" => slave'.joined < bus'[j].round
    <3> SUFFICES ASSUME NEW j \in DOMAIN bus', bus'[j].type = "SYNC"
                 PROVE  slave'.joined < bus[j + 1].round
      BY <1>3
    <3>1. j + 1 \in DOMAIN bus /\ bus[j + 1].type = "SYNC" /\ 1 < j + 1
      BY <1>3, <1>5
    <3>2. slave.joined < bus[j + 1].round
      BY <3>1 DEF OnTime, RoundsInOrder
    <3>3. bus[1].type = "FUP" => bus[1].round < bus[j + 1].round
      BY <1>5, <3>1 DEF OnTime, RoundsInOrder
    <3>4. bus[j + 1].round \in Nat
      BY <1>1, <3>1, Numbers
    <3> QED BY <1>7, <1>9, <3>2, <3>3, <3>4
  <2>3. \A k, j \in DOMAIN bus' :
          k < j /\ bus'[k].type = "FUP" /\ bus'[j].type = "SYNC" => bus'[k].round < bus'[j].round
    BY <1>3, <1>5 DEF OnTime, RoundsInOrder
  <2>4. \A k \in DOMAIN bus' : bus'[k].type = "FUP" => bus'[k].round < master.round
    BY <1>3 DEF OnTime, RoundsInOrder
  <2> QED BY <1>2, <2>1, <2>2, <2>3, <2>4 DEF RoundsInOrder
<1>11. NextFollowUpOnTime'
  BY <1>2, <1>4 DEF OnTime, NextFollowUpOnTime
<1>12. FollowUpsOnTime'
  BY <1>2, <1>3, <1>5 DEF OnTime, FollowUpsOnTime
<1>13. NotFarBehind'
  <2>1. CASE slave' = slave
    BY <2>1 DEF OnTime, NotFarBehind, Lag, Slack
  <2>2. CASE bus[1].type = "SYNC" /\ slave' = TakeSeconds(slave, bus[1])
    <3>1. slave'.joined = slave.joined /\ slave'.round = bus[1].round
      BY <1>1, <2>2 DEF TakeSeconds, SimTypeOK, TypeOK
    <3>2. slave.joined < bus[1].round
      BY <1>5, <2>2 DEF OnTime, RoundsInOrder
    <3> QED BY <1>7, <3>1, <3>2 DEF NotFarBehind
  <2>3. CASE bus[1].type = "FUP" /\ slave' = Join(slave, bus[1])
    <3> SUFFICES ASSUME slave'.joined > 0, slave'.joined = slave'.round
                 PROVE  (slave.base - slave.reference)' <= Slack
      BY DEF NotFarBehind, Lag, Slack
    <3>1. /\ slave'.reference = slave.seconds * Second + bus[1].value
          /\ slave'.base = Absolute /\ slave'.round = slave.round
          /\ slave'.joined = IF slave.round = 0 THEN 0 ELSE bus[1].round
      BY <1>1, <2>3 DEF Join, SimTypeOK, TypeOK
    <3>2. slave.round > 0 /\ slave.round = bus[1].round
      BY <1>7, <3>1
    <3>3. Earlier(slave.seconds, slave.round, 1)
      BY <3>2 DEF Earlier
    <3>4. /\ now <= bus[1].sent + MaxDelay
          /\ Base + bus[1].sent <= slave.seconds * Second + bus[1].value + Gap + Jitter
      BY <1>5, <1>7, <2>3, <3>2, <3>3 DEF OnTime, FollowUpsOnTime
    <3>5. /\ now \in Nat /\ Base \in Nat /\ Absolute = Base + now
          /\ Gap \in Nat /\ Jitter \in Nat /\ MaxDelay \in Nat
      BY <1>1, Numbers, Parameters
    <3>6. slave.seconds * Second \in Nat
      BY <1>7, Parameters
    <3> QED BY <1>7, <3>1, <3>4, <3>5, <3>6 DEF Slack
  <2> QED BY <1>6, <2>1, <2>2, <2>3
<1> QED BY <1>1, <1>8, <1>10, <1>11, <1>12, <1>13 DEF OnTime

(* A follow-up that the slave joins to the SYNC of its own round makes its
   clock right up to the pause and the delays, whatever was lost before. *)
THEOREM CompleteRoundAccurate == SimSpec => []CompleteRoundIsAccurate
<1>1. OnTime => CompleteRoundIsAccurate
  <2> SUFFICES ASSUME OnTime, slave.joined > 0, slave.joined = slave.round
               PROVE  Lag \in 0 .. Slack
    BY DEF CompleteRoundIsAccurate
  <2>1. Lag >= 0 /\ Lag <= Slack
    BY DEF OnTime, InTime, NeverAhead, NotFarBehind
  <2>2. Lag \in Int /\ Slack \in Int
    <3>1. slave.base \in Nat /\ slave.reference \in Nat
      BY DEF OnTime, InTime, SimTypeOK, TypeOK
    <3>2. Gap \in Nat /\ Jitter \in Nat /\ MaxDelay \in Nat
      BY Parameters
    <3> QED BY <3>1, <3>2 DEF Lag, Slack
  <2> QED BY <2>1, <2>2
<1>2. OnTime /\ [SimNext]_vars => OnTime'
  BY OnTimeSync, OnTimeFollowUp, OnTimeRest, OnTimeTake DEF SimNext, Environment
<1> QED BY <1>1, <1>2, OnTimeInit, PTL DEF SimSpec

-----------------------------------------------------------------------------
(* What a lost frame costs.  Whatever seconds the slave joins them to, the
   nanoseconds of a follow-up are those of a time that lies the pause and the
   delays back, so the slave is out by these and by whole seconds. *)

SecondsApart(a, b) == \E q \in Int : a = b + q * Second

NextFollowUpApart ==
  master.pc = "followUp" =>
    /\ now <= master.due + Jitter
    /\ SecondsApart(Base + master.due, master.nanoseconds + Gap)

FollowUpsApart ==
  \A k \in DOMAIN bus : bus[k].type = "FUP" =>
    /\ bus[k].sent <= now /\ now <= bus[k].sent + MaxDelay
    /\ \E due \in Nat :
         /\ due <= bus[k].sent /\ bus[k].sent <= due + Jitter
         /\ SecondsApart(Base + due, bus[k].value + Gap)

LossIsWholeSeconds ==
  slave.joined > 0 => \E d \in Gap .. Slack : SecondsApart(Lag, d)

Apart == SimTypeOK /\ NextFollowUpApart /\ FollowUpsApart /\ LossIsWholeSeconds

LEMMA ApartInit == Init => Apart
<1> SUFFICES ASSUME Init PROVE Apart
  OBVIOUS
<1>1. SimTypeOK
  BY TypeInit
<1>2. DOMAIN bus = {} /\ slave.joined = 0 /\ master.pc = "sync"
  BY DEF Init
<1> QED BY <1>1, <1>2 DEF Apart, NextFollowUpApart, FollowUpsApart, LossIsWholeSeconds

LEMMA ApartSync == Apart /\ SimSync => Apart'
<1> SUFFICES ASSUME Apart, SimSync PROVE Apart'
  OBVIOUS
<1> DEFINE f == Frame("SYNC", Absolute \div Second)
<1>1. SimTypeOK /\ SimTypeOK'
  BY TypeStep DEF Apart, SimNext
<1>2. f \in Frames /\ f.type = "SYNC"
  BY <1>1, FrameType, AbsoluteType DEF Frame
<1>3. /\ bus' = Append(bus, f) /\ slave' = slave /\ now' = now
      /\ master'.due = now + Gap /\ master'.nanoseconds = Absolute % Second
  BY <1>1 DEF SimSync, SimTypeOK, TypeOK
<1>4. /\ DOMAIN bus' = DOMAIN bus \cup {Len(bus) + 1}
      /\ \A k \in DOMAIN bus : bus'[k] = bus[k]
      /\ bus'[Len(bus) + 1] = f
  BY <1>1, <1>2, <1>3, SendNumbers
<1>5. NextFollowUpApart'
  <2>1. /\ now \in Nat /\ Base \in Nat /\ Absolute = Base + now /\ Absolute \in Nat
        /\ Gap \in Nat /\ Jitter \in Nat /\ Second \in Nat \ {0}
    BY <1>1, Numbers, Parameters, AbsoluteType
  <2> DEFINE q == Absolute \div Second
             r == Absolute % Second
  <2>2. q \in Nat /\ r \in Nat /\ q * Second + r = Absolute
    BY <2>1, DivMod
  <2>3. q * Second \in Nat
    BY <2>1, <2>2
  <2>4. Base + (now + Gap) = (r + Gap) + q * Second
    BY <2>1, <2>2, <2>3
  <2>5. SecondsApart(Base + (now + Gap), r + Gap)
    BY <2>2, <2>4 DEF SecondsApart
  <2>6. now <= now + Gap + Jitter /\ Base' = Base
    BY <2>1 DEF Base
  <2> QED BY <1>3, <2>5, <2>6 DEF NextFollowUpApart, SecondsApart
<1>6. FollowUpsApart'
  BY <1>2, <1>3, <1>4 DEF Apart, FollowUpsApart, Base, SecondsApart
<1>7. LossIsWholeSeconds'
  BY <1>3 DEF Apart, LossIsWholeSeconds, Lag, Slack, SecondsApart
<1> QED BY <1>1, <1>5, <1>6, <1>7 DEF Apart

LEMMA ApartFollowUp == Apart /\ SimFollowUp => Apart'
<1> SUFFICES ASSUME Apart, SimFollowUp PROVE Apart'
  OBVIOUS
<1> DEFINE f == Frame("FUP", master.nanoseconds)
<1>1. SimTypeOK /\ SimTypeOK'
  BY TypeStep DEF Apart, SimNext
<1>2. f \in Frames /\ f.value = master.nanoseconds /\ f.sent = now
  BY <1>1, FrameType, Numbers DEF Frame
<1>3. /\ bus' = Append(bus, f) /\ slave' = slave /\ now' = now
      /\ master.pc = "followUp" /\ master'.pc = "sync" /\ now >= master.due
  BY <1>1 DEF SimFollowUp, IsDue, SimTypeOK, TypeOK
<1>4. /\ DOMAIN bus' = DOMAIN bus \cup {Len(bus) + 1}
      /\ \A k \in DOMAIN bus : bus'[k] = bus[k]
      /\ bus'[Len(bus) + 1] = f
  BY <1>1, <1>2, <1>3, SendNumbers
<1>5. NextFollowUpApart'
  BY <1>3 DEF NextFollowUpApart
<1>6. FollowUpsApart'
  <2>1. /\ now <= now /\ now <= now + MaxDelay
        /\ master.due \in Nat /\ master.due <= now
    BY <1>1, <1>3, Numbers, Parameters
  <2>2. /\ now <= master.due + Jitter
        /\ SecondsApart(Base + master.due, master.nanoseconds + Gap)
    BY <1>3 DEF Apart, NextFollowUpApart
  <2> QED BY <1>2, <1>3, <1>4, <2>1, <2>2 DEF Apart, FollowUpsApart, Base, SecondsApart
<1>7. LossIsWholeSeconds'
  BY <1>3 DEF Apart, LossIsWholeSeconds, Lag, Slack, SecondsApart
<1> QED BY <1>1, <1>5, <1>6, <1>7 DEF Apart

LEMMA ApartRest == Apart /\ (SimFails \/ TimePasses \/ UNCHANGED vars) => Apart'
<1> SUFFICES ASSUME Apart, SimFails \/ TimePasses \/ UNCHANGED vars PROVE Apart'
  OBVIOUS
<1>1. SimTypeOK /\ SimTypeOK'
  BY TypeStep DEF Apart, SimNext, Environment
<1>2. bus' = bus /\ slave' = slave /\ Base' = Base
  BY DEF SimFails, TimePasses, vars, Base
<1>3. \/ now' = now /\ master'.pc = "sync"
      \/ /\ master' = master
         /\ now' = now \/ (now' = now + 1 /\ now < master.due + Jitter
                           /\ \A k \in DOMAIN bus : now < bus[k].sent + MaxDelay)
  BY <1>1 DEF SimFails, TimePasses, Idle, vars, SimTypeOK, TypeOK
<1>4. NextFollowUpApart'
  <2>1. CASE master'.pc = "sync"
    BY <2>1 DEF NextFollowUpApart
  <2>2. CASE master' = master
    <3>1. master.pc = "followUp" => now' <= master.due + Jitter
      BY <1>1, <1>3, <2>2, Numbers, Parameters DEF Apart, NextFollowUpApart
    <3> QED BY <1>2, <2>2, <3>1 DEF Apart, NextFollowUpApart, SecondsApart
  <2> QED BY <1>3, <2>1, <2>2
<1>5. FollowUpsApart'
  <2>1. ASSUME NEW k \in DOMAIN bus, bus[k].type = "FUP"
        PROVE  bus[k].sent <= now' /\ now' <= bus[k].sent + MaxDelay
    <3>1. bus[k].sent \in Nat /\ now \in Nat /\ MaxDelay \in Nat
      BY <1>1, Numbers, Parameters
    <3>2. bus[k].sent <= now /\ now <= bus[k].sent + MaxDelay
      BY <2>1 DEF Apart, FollowUpsApart
    <3>3. now' = now \/ (now' = now + 1 /\ now < bus[k].sent + MaxDelay)
      BY <1>3
    <3> QED BY <3>1, <3>2, <3>3
  <2> QED BY <1>2, <2>1 DEF Apart, FollowUpsApart, SecondsApart
<1>6. LossIsWholeSeconds'
  BY <1>2 DEF Apart, LossIsWholeSeconds, Lag, Slack, SecondsApart
<1> QED BY <1>1, <1>4, <1>5, <1>6 DEF Apart

LEMMA ApartTake == Apart /\ (Lose \/ Receive) => Apart'
<1> SUFFICES ASSUME Apart, Lose \/ Receive PROVE Apart'
  OBVIOUS
<1>1. SimTypeOK /\ SimTypeOK'
  BY TypeStep DEF Apart, SimNext, Environment
<1>2. bus # <<>> /\ bus' = Tail(bus) /\ master' = master /\ now' = now /\ Base' = Base
  BY DEF Lose, Receive, Base
<1>3. \A k \in DOMAIN bus' : k + 1 \in DOMAIN bus /\ bus'[k] = bus[k + 1]
  BY <1>1, <1>2, TakeEarlier
<1>4. 1 \in DOMAIN bus /\ Head(bus) = bus[1]
  BY <1>1, <1>2 DEF SimTypeOK, TypeOK
<1>5. NextFollowUpApart' /\ FollowUpsApart'
  BY <1>2, <1>3 DEF Apart, NextFollowUpApart, FollowUpsApart, SecondsApart
<1>6. \/ slave' = slave
      \/ slave' = TakeSeconds(slave, bus[1])
      \/ bus[1].type = "FUP" /\ slave' = Join(slave, bus[1])
  BY <1>1, <1>4, Numbers DEF Lose, Receive
<1>7. LossIsWholeSeconds'
  <2>1. CASE slave' = slave
    BY <2>1 DEF Apart, LossIsWholeSeconds, Lag, Slack, SecondsApart
  <2>2. CASE slave' = TakeSeconds(slave, bus[1])
    <3>1. /\ slave'.joined = slave.joined /\ slave'.reference = slave.reference
          /\ slave'.base = slave.base
      BY <1>1, <2>2 DEF TakeSeconds, SimTypeOK, TypeOK
    <3> QED BY <3>1 DEF Apart, LossIsWholeSeconds, Lag, Slack, SecondsApart
  <2>3. CASE bus[1].type = "FUP" /\ slave' = Join(slave, bus[1])
    <3> DEFINE v == bus[1].value
               s == slave.seconds
    <3>1. slave'.base = Absolute /\ slave'.reference = s * Second + v
      BY <1>1, <2>3 DEF Join, SimTypeOK, TypeOK
    <3>2. bus[1].sent <= now /\ now <= bus[1].sent + MaxDelay
      BY <1>4, <2>3 DEF Apart, FollowUpsApart
    <3>3. PICK due \in Nat :
            /\ due <= bus[1].sent /\ bus[1].sent <= due + Jitter
            /\ SecondsApart(Base + due, v + Gap)
      BY <1>4, <2>3 DEF Apart, FollowUpsApart
    <3>4. PICK q \in Int : Base + due = v + Gap + q * Second
      BY <3>3 DEF SecondsApart
    <3>5. /\ v \in Nat /\ s \in Nat /\ now \in Nat /\ Base \in Nat
          /\ bus[1].sent \in Nat /\ Absolute = Base + now
          /\ Gap \in Nat /\ Jitter \in Nat /\ MaxDelay \in Nat /\ Second \in Nat
      BY <1>1, <1>4, Numbers, Parameters
    <3> DEFINE d == Gap + (now - due)
    <3>6. d \in Gap .. Slack
      BY <3>2, <3>3, <3>5 DEF Slack
    <3>7. q * Second \in Int /\ s * Second \in Int /\ q - s \in Int
          /\ (q - s) * Second = q * Second - s * Second
      BY <3>4, <3>5
    <3>8. Absolute - (s * Second + v) = d + (q - s) * Second
      <4>1. Absolute = v + Gap + q * Second + (now - due)
        BY <3>4, <3>5, <3>7
      <4> HIDE DEF v, s
      <4> QED BY <3>5, <3>7, <4>1
    <3>9. SecondsApart(Absolute - (s * Second + v), d)
      BY <3>7, <3>8 DEF SecondsApart
    <3> QED BY <3>1, <3>6, <3>9 DEF LossIsWholeSeconds, Lag, Slack, SecondsApart
  <2> QED BY <1>6, <2>1, <2>2, <2>3
<1> QED BY <1>1, <1>5, <1>7 DEF Apart

LEMMA ApartStep == Apart /\ [SimNext]_vars => Apart'
  BY ApartSync, ApartFollowUp, ApartRest, ApartTake DEF SimNext, Environment

(* But for whole seconds, the slave is behind the master by the pause between
   the two frames and the delays, whatever frames were lost. *)
THEOREM LossIsWhole == SimSpec => []LossIsWholeSeconds
<1>1. Apart => LossIsWholeSeconds
  BY DEF Apart
<1> QED BY <1>1, ApartInit, ApartStep, PTL DEF SimSpec

(* The remainder of a number that is whole seconds away from another. *)
LEMMA Remainder ==
  ASSUME NEW a \in Int, NEW d \in Nat, d < Second, SecondsApart(a, d)
  PROVE  a % Second = d
<1>1. PICK q \in Int : a = d + q * Second
  BY DEF SecondsApart
<1>2. Second \in Nat \ {0}
  BY Parameters
<1> DEFINE p == a \div Second
           r == a % Second
<1>3. p \in Int /\ r \in 0 .. Second - 1 /\ a = p * Second + r
  BY <1>2
<1>4. (p - q) * Second = d - r
  <2>1. (p - q) * Second = p * Second - q * Second
    BY <1>1, <1>2, <1>3
  <2>2. p * Second \in Int /\ q * Second \in Int
    BY <1>1, <1>2, <1>3
  <2> QED BY <1>1, <1>3, <2>1, <2>2
<1>5. p = q
  <2>1. ASSUME p >= q + 1 PROVE FALSE
    <3>1. (p - q) * Second >= Second
      BY <1>2, <1>3, <2>1
    <3> QED BY <1>2, <1>3, <1>4, <3>1
  <2>2. ASSUME p <= q - 1 PROVE FALSE
    <3>1. (p - q) * Second <= -Second
      BY <1>2, <1>3, <2>2
    <3> QED BY <1>2, <1>3, <1>4, <3>1
  <2> QED BY <1>3, <2>1, <2>2
<1> QED BY <1>2, <1>3, <1>4, <1>5

(* When the pause and the delays are less than a second, as a pause of a tenth
   of a second leaves room for, this is what the remainder shows. *)
THEOREM LossWholeSeconds ==
  ASSUME Slack < Second
  PROVE  SimSpec => []LossCostsWholeSeconds
<1>1. Apart => LossCostsWholeSeconds
  <2> SUFFICES ASSUME Apart, slave.joined > 0 PROVE Lag % Second \in Gap .. Slack
    BY DEF LossCostsWholeSeconds
  <2>1. PICK d \in Gap .. Slack : SecondsApart(Lag, d)
    BY DEF Apart, LossIsWholeSeconds
  <2>2. Gap \in Nat /\ Slack \in Nat /\ Second \in Nat
    BY Parameters DEF Slack
  <2>3. Lag \in Int
    BY Numbers DEF Apart, Lag
  <2> QED BY <2>1, <2>2, <2>3, Remainder
<1> QED BY <1>1, ApartInit, ApartStep, PTL DEF SimSpec
=============================================================================
