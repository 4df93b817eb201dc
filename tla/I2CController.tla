---------------------------- MODULE I2CController ---------------------------
(***************************************************************************)
(* I2CController: sendData and readData in the two builds the source has,  *)
(* with polled transfers (I2C_POLLING, the one compiled) and with          *)
(* interrupts, which came before it.                                       *)
(*                                                                         *)
(* Errors of a polled transfer are logged and otherwise ignored.           *)
(***************************************************************************)
EXTENDS LidarHead

CONSTANTS
  Builds,   \* builds to consider: "polling", "irq", and "fake" (see ImageCapturer3D)
  Faults    \* bound: transfers that may fail

ASSUME I2CAssumption == Builds \subseteq {"polling", "irq", "fake"} /\ Faults \in Nat

VARIABLES
  build,
  i2c,       \* the call under way: where it is, the register meant, what was read
  transfer,  \* interrupts: the transfer the device is doing
  flags,     \* interrupts: sendComplete, recvComplete, recvError, and whether
             \* totalErrorCount is not zero
  faults,    \* transfers that may still fail
  touched    \* history: one has failed during the measurement under way

i2cVars == <<build, i2c, transfer, flags, faults, touched>>

NoReply == Reply(FALSE, FALSE, Nowhere)

I2CInit ==
  /\ build \in Builds
  /\ i2c = [pc |-> "idle", register |-> "none", reads |-> FALSE, reply |-> NoReply]
  /\ transfer = "none"
  /\ flags = [sent |-> FALSE, received |-> FALSE, error |-> FALSE, counted |-> FALSE]
  /\ faults = Faults /\ touched = FALSE

(* The caller's side: begin sendData or readData, and whether it is over.   *)
SendData(register) ==
  i2c' = [i2c EXCEPT !.pc = "send", !.register = register, !.reads = FALSE]
ReadData(register) ==
  i2c' = [i2c EXCEPT !.pc = "send", !.register = register, !.reads = TRUE]
I2CDone == i2c.pc = "done"

Fails == faults > 0 /\ faults' = faults - 1 /\ touched' = TRUE
Succeeds == UNCHANGED <<faults, touched>>

(* The slave has received what sendData, or readData's first half, sends.   *)
Delivered == slave' = IF i2c.reads THEN AskedFor(i2c.register) ELSE WrittenTo(i2c.register)

AfterSend == IF i2c.reads THEN "recv" ELSE "done"
I2CGoto(from, to) == i2c.pc = from /\ i2c' = [i2c EXCEPT !.pc = to]
Receives(from, reply) == i2c.pc = from /\ i2c' = [i2c EXCEPT !.pc = "done", !.reply = reply]

(* initialize: where the driver is not configured, fails its self-test or   *)
(* gets no interrupts, it throws.                                           *)
I2CInitialize(works) == IF works THEN Succeeds ELSE Fails

-----------------------------------------------------------------------------
(* Polling. *)

PolledSend ==
  /\ build = "polling" /\ I2CGoto("send", AfterSend)
  /\ \/ Delivered /\ Succeeds
     \/ UNCHANGED slave /\ Fails
  /\ UNCHANGED <<build, transfer, flags, hor, ver>>

(* bufferAux is copied out whether or not anything was received into it.    *)
PolledRecv ==
  /\ build = "polling"
  /\ \/ (\E reply \in Replies(i2c.register) : Receives("recv", reply)) /\ Succeeds
     \/ (\E reply \in Garbage : Receives("recv", reply)) /\ Fails
  /\ UNCHANGED <<build, transfer, flags, headVars>>

-----------------------------------------------------------------------------
(* Interrupts. *)

StartSend ==
  /\ build = "irq" /\ I2CGoto("send", "sending")
  /\ flags' = [flags EXCEPT !.sent = FALSE] /\ transfer' = "send"
  /\ UNCHANGED <<build, faults, touched, headVars>>

(* readData sends the register again as long as errors are counted;         *)
(* sendData only logs them and waits on.                                    *)
AwaitSend ==
  /\ build = "irq"
  /\ \/ flags.sent /\ I2CGoto("sending", AfterSend) /\ UNCHANGED transfer
     \/ /\ i2c.pc = "sending" /\ ~flags.sent /\ flags.counted /\ i2c.reads
        /\ transfer = "none" /\ transfer' = "send" /\ UNCHANGED i2c
  /\ UNCHANGED <<build, flags, faults, touched, headVars>>

StartRecv ==
  /\ build = "irq" /\ I2CGoto("recv", "receiving")
  /\ flags' = [flags EXCEPT !.received = FALSE] /\ transfer' = "recv"
  /\ UNCHANGED <<build, faults, touched, headVars>>

AwaitRecv ==
  /\ build = "irq" /\ i2c.pc = "receiving"
  /\ \/ flags.received /\ I2CGoto("receiving", "done") /\ UNCHANGED <<flags, transfer>>
     \/ ~flags.received /\ flags.error
        /\ flags' = [flags EXCEPT !.error = FALSE] /\ transfer' = "recv" /\ UNCHANGED i2c
  /\ UNCHANGED <<build, faults, touched, headVars>>

(* irqHandler.  A completed transfer resets totalErrorCount; an error event *)
(* sets recvError, whatever the transfer was; a lost arbitration or a       *)
(* timeout leaves no trace; anything unknown is counted.                    *)
Completed ==
  \/ /\ transfer = "send" /\ Delivered
     /\ flags' = [flags EXCEPT !.sent = TRUE, !.counted = FALSE] /\ UNCHANGED i2c
  \/ /\ transfer = "recv" /\ UNCHANGED slave
     /\ \E reply \in Replies(i2c.register) : i2c' = [i2c EXCEPT !.reply = reply]
     /\ flags' = [flags EXCEPT !.received = TRUE, !.counted = FALSE]

FailedEvent ==
  /\ \/ flags' = [flags EXCEPT !.error = TRUE]
     \/ flags' = [flags EXCEPT !.counted = TRUE]
     \/ UNCHANGED flags
  /\ UNCHANGED <<i2c, slave>>

IrqHandler ==
  /\ build = "irq" /\ transfer # "none" /\ transfer' = "none"
  /\ \/ Completed /\ Succeeds
     \/ FailedEvent /\ Fails
  /\ UNCHANGED <<build, hor, ver>>

I2CStep == PolledSend \/ PolledRecv \/ StartSend \/ AwaitSend \/ StartRecv \/ AwaitRecv

I2CTypeOK ==
  /\ build \in Builds /\ faults \in 0 .. Faults /\ touched \in BOOLEAN
  /\ i2c \in [pc : {"idle", "send", "sending", "recv", "receiving", "done"},
              register : Registers \cup {"ACQ_COMMAND", "SETTING"}, reads : BOOLEAN,
              reply : [busy : BOOLEAN, known : BOOLEAN, place : Places]]
  /\ transfer \in {"none", "send", "recv"}
  /\ flags \in [sent : BOOLEAN, received : BOOLEAN, error : BOOLEAN, counted : BOOLEAN]
  /\ hor \in Servos /\ ver \in Servos
  /\ slave \in [kind : Slaves, register : Registers, busy : BOOLEAN, place : Places]
=============================================================================
