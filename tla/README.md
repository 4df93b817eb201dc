# TLA+ models of the SensorFusion node

Models, model-checking runs and machine-checked proofs for the firmware in
`SensorFusion/src` (Zynq, FreeRTOS, C++) and the bus partners it relies on.
`CORE` below stands for `src/SensorFusion/src`.

## 1. The system

The build in the repository (`ASSEMBLER_TASK`, `IMAGE_CLASSIFIER_NODE`,
`CANPS_IRQ`) is the classifier node: a camera node sends JPEG images in pieces
over CAN, the node puts them together and runs a person detector on them. The
same tree holds the lidar node (3D capture, its transfer, the lidar's and the
servos' drivers), the driver of a second CAN module on the PMOD connector, and
the clock synchronisation between nodes.

| component | state | operations | talks to |
|---|---|---|---|
| `PsCanController` | `m_initialized`, `m_txFrame` and its mutex, received-frame vector, done and end-of-image flags, task to notify, error counter | `initialize`, `registerTaskToNotify`, `transmitMsg`, `receiveMsg`, `clearBuffer`, the receive, send, error and event handlers | two tasks set it up and send through it; the interrupt appends and notifies, communicationTask reads and clears, no lock |
| `CommunicationManager`, `MsgGateway` | last frame ids, lidar queue | `receiveData` (take, store, complete, clear, confirm), `sendData` | camera queue, notification to the assembler, confirmation to the camera |
| `ImageAssembler` | camera frame queue, snapshot queue, current image id | `assembleFrame`, `assembleImage` | woken by a notification value, writes `SharedImage`, notifies the classifier |
| `SharedImage` | pixels, dimensions, binary semaphore | `setImage`, `getSharedImage` | assembler writes, classifier reads past the lock |
| `ImageProvider`, `ImageClassifierManager` | input tensor | `performInference` | `SharedImage` |
| `SystemTasksManager` | task handles, run-time statistics | creates the tasks, their loops, `splitCborToCanMsgs`, `RunTimeStats_*` | everything |
| `TimeBaseManager`, `SharedClockSlaveManager`, `TimeController` | sequence counter, time stamps, timer | SYNC and FUP messages, slave update | CAN |
| `ImageCapturer3D` | point buffer, angles of the sweep | `initialize`, `captureImage` | servos, lidar |
| `splitCborToCanMsgs`, `sendData`, the master's simulator | messages of an image; frames filed by image id | split, send, file, assemble | CAN |
| `Osal` | queues, semaphores, tasks | wrappers over FreeRTOS | all tasks |
| `CanController` (PMOD, SPI) | mutex, one transmit and two receive buffers of the module | `transmitMsg`, `receiveMsg` with retries | SPI; the clock's slave receives, any task sends |
| `GarminV3LiteCtrl`, `I2CController` | transfer under way, completion and error flags | `initialization`, `configuration`, `readDistance`; `sendData`, `readData`, `irqHandler` | the lidar, or the Arduino sketch that stands in for it |
| servo, PWM, motor, GPIO, SPI, timer drivers | registers | register I/O | hardware |
| `Logger` | log level, UART mutex | `log` | all tasks |

Hard behaviour: the interrupt runs between any two instructions of
`receiveMsg`; flags and vector are shared without a lock; three tasks of
different priority pass work on by notifications that overwrite each other; CAN
frames may be lost, come from other nodes or be mistaken for markers; a
confirmation paces the camera but says nothing about success; a few exceptions
leave a mutex taken or kill a task. Both CAN drivers share one transmit buffer
among their callers, wait for the device in loops with and without a limit, and
ignore some of what the device tells them; the I2C driver only logs its errors, so
that the lidar's driver works on with whatever its buffer held. `PROJECT.json` lists the hazards line by
line with the properties that cover them.

What makes each part correct: the receive path loses no wake-up and no frame
(WaitingIsAnswered, ClearLosesNothing, CopyIsUndisturbed); the assembler
publishes whole images only, recovers from a fault, and never misses a
notification (PublishedWhole, PublishedInOrder, LossIsContained,
NotificationTaken); the classifier ends up with the image on show
(IdleIsCurrent, ShownIsClassified); the node survives (CommSurvives) and makes
progress (ImagesArrive); together they are an in-order, newest-first delivery
service (DeliverySpec), and on a bus that loses frames still one that shows images in
order and excuses each it leaves out (LossyDeliverySpec). The registry of execution
times stays inside its array and in the end has an entry for every task (NoOverrun,
EventuallyRegistered). A
slave's clock never runs ahead, is wrong by whole seconds and the known delays
at most, and is right after one complete round (NeverAhead,
LossCostsWholeSeconds, CompleteRoundIsAccurate). The node's CAN controller is
set up once, is hardly ever deaf, mixes no frames and never hangs a caller
(SetUpOnce, DeafWindowIsShort, FramesAreTheirCalls, TransmitReturns). The PMOD
driver excludes its callers, sends each caller's own frame and answers truly,
until a reception gives up (ExclusionUntilGiveUp, PendingFrameIsAskers,
ResultsTellFates, GiveUpIsForEver). A sweep stays inside its buffer, is complete,
stores a distance with angles near those it was measured at, and sweeps go on
(IndexInBounds, CaptureIsComplete, PointIsNear, CapturesGoOn). The master's file is
the image that was sent, or there is a reason, part of which the sender learns
(FileIsTheImage, SendDataTells).

## 2. Modules

The first five form the image pipeline; each extends the one before it, so the
fifth is the composition. `LidarHead` to `ImageCapturer3D` form the lidar node in
the same way. The others stand alone: they share no state with the pipeline but
the CAN controller's, and `PsCanController` and `CanReception` split that between
them (the former has the set-up and the sending half and of the receiving half only
the wake-up).

* `CameraLink` - the camera and the bus. *External*: the camera's code is
  not in the repository; it is what the receiver relies on. An image is
  `ChunksPerImage` CBOR texts, a text is `FramesPerChunk` frames and a marker;
  the camera waits for the confirmation, and may repeat the chunk or go on when
  none comes. `faults` is the environment's budget, `damaged` (history) the images a
  fault touched, and `foreign` (history, and the other budget) where in the camera's
  sending the frames of other nodes came: `Crossed` are the images they came in.
* `CanReception` - `PsCanController`'s receive half with `receiveData`,
  `storeMsg`, `completedFrame`. `commPc` is communicationTask's program
  counter: `take` .. `copying` are the reads and writes of `receiveMsg` one by
  one (`PsCanController.cpp:234-242`), `store` the loop (`CommunicationManager.
  cpp:101-122`), `complete`, `clear`, `delay10`, `confirm` the rest of
  `receiveData`, `delay100` the task's own delay, `dead` the uncaught
  `QueueIsFull`. `RecvData` and `RecvEndOfFrame` are the two ways through
  `recvHandler`. The copy of the vector has a beginning and an end; if the
  interrupt appended in between, `Copies` says what the copy may hold.
* `SharedImage` - `setImage`, and imageClassificationTask step by step: lock,
  dimensions and unlock, then the two halves of the pixels it reads without the
  lock. A picture is the sequence of chunks it was decoded from.
* `ImageAssembler` - imageAssemblerTask: `AsmWait`, `AssembleFrame` (drain the
  frames, decode, queue the snapshot), `AssembleImage` (drain the snapshots,
  check ids and indices, decode), `Publish` (hand over and notify).
* `ImagePipeline` - the composition under FreeRTOS's fixed-priority preemptive
  scheduler, the specifications `Spec` and `FairSpec`, and the properties.
* `ImageDelivery` - the abstract promise: images are completed one after the
  other, and at any time the newest complete one may go on show.
* `LossyDelivery` - the promise that is left on a bus with losses and other nodes:
  an image that goes on show is never older than the one it replaces, only one that
  was touched may be shown in part or once more, and the camera goes on from an image
  when all of it is on show, or when it or the one before was touched.
* `RunTimeStats` - `RunTimeStats_End` of `SystemTaskManager.cpp:37-72`, called by
  every task without a lock. A step is one access to the array or to the count;
  between two steps any task may run that the fixed priorities allow. An entry
  keeps its name and, instead of its four numbers, the tasks whose times went
  into it. `build` says at which of its five uses the compiled code loads the
  count again: `Debug` at all of them, `Release` (the -O2 of `.cproject:250`) at
  none.
* `ClockSync` - two masters, the bus and the slave. `Sim...` are the steps of the
  periodic master, `scripts/CommunicationMasterNodeSimulator.py:176-207`; `Node...`
  those of `TimeBaseManager`, which `globalClockSyncronization` runs once;
  `Receive` is `SharedClockSlaveManager::getGlobalTime`. The slave class is not
  started by the classifier build: it is the code of the other nodes, in this
  tree. The bus keeps the order of the frames, delays each by up to `MaxDelay`
  and may lose any. `round`, `sent` and `joined` are history.
* `PsCanController` - `initialize` step by step for each of its two callers,
  `transmitMsg` with its two loops, and the four interrupt handlers. The device
  may fail its self-test, stay without its handlers when the interrupt controller
  refuses them (which is only logged), take its time to change mode, raise errors at any moment
  and go bus-off for good. A step of the clock's task needs communicationTask,
  which has the higher priority, to wait; a task that died of an exception spins in
  `abort` and never waits.
* `PmodCan` - `CanController::transmitMsg` and `receiveMsg`, one SPI transfer or
  semaphore operation a step, for any number of senders. `Poll` is the loop that
  both functions have three times; `fate` and `requester` are history.
* `LidarHead` - the two servos, and the PWM between them and `setAngle`
  (`PWMController.cpp:43-60`): the angle in the duty register, the angle of the last
  pulse, the angle where the servo stands, and the age of that pulse, counted in the
  sweep's delays. `setAngle` writes the register only. The
  I2C slave: a Garmin lidar (*external*), or `scripts/GarminLiteV3Simulator.ino`,
  which is never busy and has a serial number the driver does not accept.
* `I2CController` - `sendData` and `readData` polled (`I2C_POLLING`, the one that is
  compiled) and with interrupts, with `irqHandler` and its three flags. A transfer
  may fail at any moment, `Faults` times.
* `GarminV3LiteCtrl` - `initialization` with `selfTest`, `configuration` and
  `readDistance` as the calls of `I2CController` they make.
* `ImageCapturer3D` - the composition: image3dCapturerTask, `initialize` with its
  endless retries, and `captureImage` with the two loops of a turn. A distance is
  known by the place the head pointed to when it was measured. `HorPulse` and
  `VerPulse` come at any moment, whatever the task does, and `DelayEnds` says how
  many delays fit between two of them.
* `CborTransfer` - `splitCborToCanMsgs`, the vector `sendData`, and
  `CBORAssembler` with its receiving thread
  (`scripts/CommunicationMasterNodeSimulator.py:94-174`). A byte of a text is known
  by its image and position, so a file is the image exactly when every byte is in
  its place; any other text may or may not parse.
* `ImagePipeline_proofs` and `ImageLoss_proofs` (which extends it),
  `RunTimeStats_proofs`, `ClockSync_proofs`, `PsCanController_proofs`,
  `PmodCan_proofs`, `ImageCapturer3D_proofs`, `CborTransfer_proofs` - the theorems.
  `MC...` - for TLC.

What the data is reduced to: payloads are not modelled, so a frame is its image,
chunk and position; `Byte0` is the byte the code compares (two bits of image id,
six of chunk). `cborIndex` only appears in a log line and is left out. A chunk
decodes exactly when all of its frames, and nothing else, were kept: the CBOR
texts have definite lengths, so a missing or an extra frame makes `from_cbor`
fail, and so does a genuine trailing 0xFF that was stripped with the padding
(`trailingFF`). stb_image may accept or refuse any picture and may find any size
(`ImageKinds`). Image ids stay below 256.

Clock: `Second` and `Word` stand for 10^9 and 2^32 nanoseconds; the addition that
mixes an absolute time into a timer value (`TimeBaseManager.cpp:81`) wraps at
`Word` as in the code. `slave.base` is the moment the slave's timer was restarted;
since both clocks tick alike afterwards, `base - reference` is the slave's error.

### Scheduling

`AsmReady` and `CommReady` say when a task of higher priority could run, and the
actions of the tasks below carry their negation; the interrupt needs nobody's
leave. Three assumptions of timing remain, each stated at its action:

* the 10 ms and 100 ms delays outlast the few instructions for which the
  classifier holds the image mutex (`CommTick`), and the rest of one log line;
* log mutex: a classifier preempted in a log line holds `uartMutex`, and the
  assembler, which logs above the log level's threshold, waits for it.
  communicationTask, whose lines on this path are below the threshold, may then
  run before the assembler is done; `CommRun` lets it go on to its next delay,
  no further;
* a patient camera waits longer for its confirmation than the node needs to send
  it; one that does not is the fault `impatient`.

Time in the lidar node. The PWM runs at 50 Hz (`PWMConfig.h:12`), so a new angle is put
out up to 20 ms after it was set, twice the 10 ms of a `preciseDelayUs`; the tick
delay that would settle the servo is commented out at all places but one
(`ImageCapturer3D.cpp:93,96,114,134,141`). What the model takes of this is that two
whole delays do not pass without a pulse (`PwmPeriod`); that line 120 also waits
for ticks is not relied on. Of the servos, which are not in the repository, it
assumes that a move of one or two steps is over by the next pulse (`KeepsUp`), that a
longer one (the return of the vertical servo at the start of a capture) is over after a
line (`Turn`) or during the task's five seconds of sleep (`Report`), and that underway a
servo is between the two ends of its move, so that one end or the other bounds the
error.

The drains in `AssembleFrame` and `AssembleImage` are single steps because only
communicationTask fills the frame queue and only the assembler the snapshot
queue, and the assembler has the highest priority.

## 3. Runs

| run | what can happen | checks |
|---|---|---|
| `pipeline_exclusive` | camera alone, `FairSpec`, texts ending in 0xFF, images of two sizes | ClearLosesNothing, ConfirmedIsAssembled, CopyIsUndisturbed, DeliverySpec, ImagesArrive, ShownIsClassified |
| `pipeline_lossy` | up to two lost frames, markers, confirmations or 0xFF endings, with repetition or skipping, and a frame of another node at any moment | PublishedInOrder, LossIsContained, CommSurvives, LossyDeliverySpec |
| `pipeline_foreign` | two frames of other nodes at any moment, a full lidar queue, an oversize or unreadable image | TypeOK, WaitingIsAnswered, PublishedWhole |
| `pipeline_misread` | frames taken for markers, short frames, an impatient camera | IdleIsCurrent, NotificationTaken |
| `stats_overrun` | the node's four tasks, the code's ten entries, both builds | TypeOK, NoOverrun |
| `stats_live` | `FairSpec`, three tasks, two of equal priority, six entries, both builds | EventuallyRegistered |
| `clock_simulator` | periodic master, any frame lost, delayed or not sent, four rounds | TypeOK, NeverAhead, LossCostsWholeSeconds, CompleteRoundIsAccurate |
| `clock_node` | the node's master | CompleteRoundIsAccurate is violated |
| `can_node` | `FairSpec`, set-up by two tasks, a full FIFO, errors, bus-off, markers before anyone waits | TypeOK, SetUpOnce, DeafWindowIsShort, FramesAreTheirCalls, TransmitReturns |
| `pmod_can` | two senders, a receiver, slow transmissions, both receive buffers full | TypeOK, ExclusionUntilGiveUp, PendingFrameIsAskers, ResultsTellFates, GiveUpIsForEver |
| `lidar_node` | `FairSpec`, three builds, lidar or simulator, one failing transfer, servos at one end at the start | TypeOK, IndexInBounds, CaptureIsComplete, PointIsNear, CapturesGoOn |
| `transfer` | three images, two of one id, refused, lost and foreign frames | TypeOK, FileIsTheImage, SendDataTells |

The `pipeline_...` configurations instantiate `MCImagePipeline`. Deadlock is not
checked there: the camera ends after `Images` images, and then everything stops,
as does a pipeline whose mutex was left taken; nor for the clock and the transfer,
whose runs end at `MaxTime` and after `Images`; nor for `can_node`, where a null
handle may stop the node, and `lidar_node`, where one lost interrupt stops the task
for good. It is checked for the statistics and for `pmod_can`.

Why the bounds are enough. Two or three images of two chunks: every way two
images can mix needs the last chunk of one and the first of the next, and the
third image shows that the damage ends. Two frames per chunk distinguish a first,
a last and a missing frame; one suffices where no frame is lost. `FrameQueueLen`
in the lossy run is `(MaxFaults + MaxForeign + 1) * FramesPerChunk`: one less and
CommSurvives fails, so with the code's 200 places a chunk may have up to 200 frames,
or 100 if one marker may be lost or one frame of another node come in between,
although `cborIndex` allows for 256. `LidarQueueLen = 1` makes the queue nobody reads
full in the lossy run and overflow in `pipeline_foreign`.

The statistics run has the code's own numbers, so its bounds are exact. Its
`VIEW` leaves out the times kept in the entries, which no step reads and no
property of that run mentions. The clock run has a second of six ticks, a round
of five or more and jitter and delay of up to one tick each, so that rounds fall
on, before and after a change of second, and 18 ticks give room for losses in
three rounds and a complete fourth.

`can_node`: the code's tasks are two, so their number is exact; a FIFO of two
frames is empty, half full and full, three looks at it come before and after it
drains, and an error counter modulo two wraps. `pmod_can`: two senders are needed
for one to find the other's frame pending, three for nothing more (the theorems
hold for any number). `lidar_node`: lines of five
columns have both directions, room for the horizontal lag of four steps and a
fourth point, from which on the vertical servo has arrived; there is a line beyond the
last angle, and the buffer is exactly full at the end. The lag is exact: with three
steps, with two points instead of three, or with no vertical error at all PointIsNear
fails. One failing transfer reaches every error path, the retry of a failed
`initialization` included. `transfer`: texts of one to four messages, the last one full or
not; a base of two makes an index need both its bytes; with two ids the third
image meets what the first one left.

What the runs show beyond "it holds":

* The unlocked receive path is safe **only** while the camera is alone on the
  bus and waits for each confirmation: then (and this is proved) nothing is appended between the copy
  and the clear. With the frames of `pipeline_foreign`, one is enough for an append
  during the copy (the mutex the release notes announce is commented out) or for a
  chunk that is confirmed and not assembled: CopyIsUndisturbed and
  ConfirmedIsAssembled do not hold there. Partial images are still not published.
* The lost-wake-up hazard around `m_recvDone` is real in shape and harmless: the
  notification count outlives the flag (WaitingIsAnswered; resetting the flag
  one line earlier would break it, see the mutant `TakeThenReset`).
* A frame of another node costs no more than a loss does: the image it comes in and
  at most the next one (LossIsContained), for an empty frame behind the marker puts out
  the end-of-image flag, and one stored last keeps the assembler from being told. There
  is one exception. Where images have a single chunk, an empty frame behind the marker
  leaves the chunk's snapshot in the queue, and no later chunk of the *same* image
  is there to bring the end and empty it. The snapshot of a touched image
  may then wait, through images that end without a notification of their own, and spoil
  one that nothing touched (TLC finds it with seven images of one frame, four faults
  and one empty frame; with frames of an id instead of empty ones, none in 19 million
  states).
* PublishedWhole does not survive losses: the loss of a chunk's marker and of
  every frame of the next chunk can publish an image without its end.
  PublishedInOrder is what does hold then: a prefix, of an image a fault
  touched.
* After one frame taken for a marker the confirmations are out of step with the
  chunks for good; of the properties above only the ones in `pipeline_misread`
  survive.
* After an oversize image `SharedImage`'s mutex stays taken: the classifier, and
  at the next image the assembler, wait for ever.
* The bound check of `RunTimeStats_End` protects nothing by itself: it is one
  read of the count, the writes use later ones. Tasks that register at the same
  time cost each other entries, and four tasks can take ten in a Debug build, so
  the array is exactly long enough (with nine, the run finds a write behind the
  end). This is shown for the two builds of `.cproject`; a compiler that loaded
  the count again at some of its uses only is not covered. For a while two tasks of
  equal priority may share an entry, and in the Debug build an entry may stay
  without a name; EventuallyRegistered says that each task has one of its own in
  the end.
* The slave compares no sequence counters, and still a lost frame costs whole
  seconds only, and the next complete round repairs it. This rests on the
  master: the follow-up carries the rest of the *SYNC's* time, so the two times
  that are joined differ in whole seconds.
* `TimeBaseManager` sends a follow-up that is off by the reference time modulo
  2^32 (`clock_node`): it subtracts an absolute time from a timer value.
* The node's CAN controller owes its soundness to the tasks' priorities:
  `m_initialized` has no lock, and with time slices between the two tasks
  (`RunsInTurn`) it is set up twice and can be deaf for long. A marker in the short
  window that remains is lost, and what the kernel does with the null handle is not
  defined; the confirmation that the camera then misses is the camera's to recover.
* After bus-off nothing brings the controller back: `release-notes.md:8` announces
  "reset automático ante estado bus-off", and the handler has the call commented out
  (`PsCanController.cpp:477`). But `transmitMsg` still returns:
  its loop with a limit refuses, and its loop without one is entered only when there
  is room, which nobody else can take under the mutex.
* The second give in the PMOD driver's `receiveMsg` matters only after it has given
  up, and then also in the worst way: two tasks are on the SPI bus together. By that
  time it has stopped receiving for ever, since it gives up exactly because both
  buffers are full and empties neither (GiveUpIsForEver).
* The FALSE of the PMOD driver's `transmitMsg` means that nothing was sent *or* that
  the frame is out already: its second loop waits for the flag of completion to be
  clear (`CanController.cpp:129-140`). The node's own master sends its messages once
  and does not repeat; a caller that did would send twice.
* A distance is stored with the angles that were set just before it was measured, and
  the head lags behind them: up to four steps of the horizontal angle, two that
  the register is ahead of the pulse and two that the pulse is ahead of the servo; and the first
  three points of a line may be distances of the line before. The settling delays that
  are commented out would remove this. The sweep also begins with the vertical servo still
  returning, so distances of its first line may belong to any vertical angle (PointIsNear
  leaves that line out). The line beyond
  `maxVerticalAngle` on the way back is real; with the configuration's 41 columns it
  makes 42 lines, 1722 points of 2048.
* A lidar driver that hears of no error reads whatever its buffer held. Polled, it
  always comes back and the captures go on; with interrupts an arbitration loss or
  a timeout is an event that leaves no trace and the wait for it is endless. With the
  simulator as lidar `initialize` retries for ever, since 0xABCD is not the serial
  number that `selfTest` expects.
* A file of the master's may be the image, or not: refused and lost frames, frames
  of other senders, and frames of an earlier and longer image under the same 8-bit
  id all leave a hole or a tail that `assemble_data` does not notice. The sender
  learns of the refused ones only.

### Fairness

In the pipeline `FairSpec` asks for weak fairness of the camera's sending (it goes
on until its images are sent) and of each task (FreeRTOS runs the highest-priority
ready task, and in the model a task's steps are enabled only when it is that).
Faults, timeouts and other nodes are never owed. The run with liveness has no
losses: after a loss only the camera's timeout goes on, which the repository does
not promise.

In `RunTimeStats`, `FairSpec` asks for strong fairness of each task: every task
loops for ever and sleeps or waits between two calls, so a task of low priority
is ready to run again and again, though not continuously. In `PsCanController` for
the same reason it is strong fairness of the clock's task and weak of
communicationTask and the end of its delay; the device owes nothing, not even to
send a frame. In `ImageCapturer3D` it is weak fairness of the task, of a transfer's
interrupt, of the pulses, of the servos' moves and of the end of a measurement.

## 4. Proofs

`ImagePipeline_proofs` holds, for all values of the constants:

* `TypeCorrect`: `Spec => []TypeOK`.
* `ClassifierIsCurrent`: `Spec => []IdleIsCurrent`, on any bus. Inductive
  invariant `ClassifierInv`: the assembler sets the notification in the step that
  changes the pixels, so whatever half the classifier has read, either it is the
  current one or a notification is pending.
* `CameraIsAnswered`: `Spec => []WaitingIsAnswered`, given `Orderly`: no
  losses, no misread frames (`FaultKinds \subseteq {"trailingFF"}`, no
  `"short"`), any other traffic. `HandshakeInv` ties the camera's wait to where
  its marker is: in the notification, in the unread flag, or in the task's locals.
* `OnlyWholeImages`: `Spec => []PublishedWhole`, given `Orderly`.
  `WholeImageInv` says of every place a frame can be (vector, batch, queue) which
  image and chunk it may belong to, and that the snapshots are in a sequence that
  the image's end completes only if nothing is missing.

The rest of `ImagePipeline_proofs` is about the whole delivery, under two assumptions.
`Fits`: no image is larger than the shared buffer. Without it `setImage` throws with
the mutex taken, the assembler blocks for ever on the next image, and the
confirmations go on without it. `Alone`: `Orderly`, and no other node sends at all.
One frame of another node is enough to lose what it gives (see "What the runs show").

* `NotificationsTaken`: `Spec => NotificationTaken`, given `Fits`, on any bus.
  `HandledInv`: the assembler is idle and its notification taken except while
  communicationTask is between `completedFrame` and its confirmation
  (`Answering`). Priorities alone do not give this, for the assembler may wait for
  a mutex: it also says that the image mutex is only held across a preemption
  inside `getSharedImage`, and not any more when the confirmation is due.
* `NothingCleared`, `CopyUndisturbed`: `Spec => []ClearLosesNothing`,
  `Spec => CopyIsUndisturbed`, given `Alone`. From `HandshakeInv` (the camera waits
  while the task is busy) and `AloneInv` (the task's copy is the vector until it is
  cleared).
* `ConfirmationIsTrue`: `Spec => ConfirmedIsAssembled`, given `Alone` and `Fits`.
  The rest of `AloneInv`: a frame in the queue has a task that is going to take it.
* `PipelineDelivers`: `Spec => DeliverySpec`, given `Alone` and `Fits`: the
  refinement of `ImageDelivery`. `DeliveryInv` says that what the assembler
  is notified of, decodes and publishes is the camera's image and its end, and
  `ShownEarlier` that the image on show is older, unless the confirmation of its
  end is still due. The camera's last marker is `Send`, `AsmPublish` is `Show`,
  every other step a stutter; that the confirmation of an image's end is one is why
  `sent` is defined by the camera's wait.

`ImageLoss_proofs`, for all values of the constants on a bus that loses, given
`Lossy`: frames, markers and confirmations get lost and texts end in 0xFF, up to
`MaxFaults` times, but no data frame is taken for a marker and the camera waits as
long as an answer may still come. The other two faults put the confirmations out of
step with the chunks for good, and what is left then is in `pipeline_misread`.

* `LossyImagesInOrder`: `Spec => []PublishedInOrder`, with any other node's traffic
  and images of any kind. `LossyInv` is the handshake under loss: what the vector
  and the task's copy hold is of the current chunk or of a damaged image
  (`Excused`), and a camera that waits for an answer nobody owes it is at a damaged
  image. `PrefixInv` follows the end-of-image mark: whenever the assembler is told
  of an end, some frame with the notified byte 0 is of a last chunk or of a damaged
  image, and since `assembleFrame` keeps *every* frame with that byte (`KeptHasAll`,
  by the ranks of a finite set), so is the chunk that decodes. `AnsweringInv` does
  what `HandledInv` does elsewhere, without `Fits`: after an image that did not fit
  the assembler may be stuck in a publication for ever.
* `LossesStayContained`: `Spec => []LossIsContained`, with other nodes on the bus,
  given also `Loads` (every image can be decoded and fits) and `EndIsTold` (images have
  more than one chunk, or no node sends empty frames). The invariant speaks of the image
  the camera is at as long as neither it nor the one before is touched, by a fault or a
  frame of another node (`Touched`, `Follows`), and has three layers. `MarkInv`: the
  end-of-image flag, in the interrupt's flag and in each place it is copied to, tells
  whether the current chunk is the last. `TextInv`: the vector, then the frame queue,
  hold exactly the frames of the chunk so far, from the first frame sent to the drain;
  for a first chunk this needs the image before to be untouched too, whose frames may
  else lie in the vector (`Whole`). `SnapInv`: the snapshots are the chunks before this
  one, and when the last is confirmed the image was published. The damage of one image
  ends with the next because an image whose later chunks are whole empties the snapshot
  queue at its end, whatever was in it. Neither assumption can be dropped: an image that
  does not load is not published, and for `EndIsTold` see "What the runs show".
* `PipelineDeliversUnderLoss`: `Spec => LossyDeliverySpec`, under the same assumptions:
  the refinement of `LossyDelivery`. `NewestInv` says that every frame of the camera's
  that lies anywhere (vector, batch, queue) is of the image on show or a newer one,
  which is why none goes back; `PartInv`, from `PrefixInv`, that only of a damaged
  image a part is on show; and that the camera's `Send` is allowed is LossIsContained
  of the state after it. `AsmPublish` is `Show`, or a stutter for an image published
  again; a fault or another node's frame is `Touch`.
* `CommunicationSurvives`: `Spec => []CommSurvives`, with other nodes on the bus, given
  `Fits` and `RoomForAll`: the frame queue holds one text more than there are faults and
  frames of other nodes, the lidar queue as many frames as other nodes send. `PileInv`
  counts: a try of a chunk that leaves its frames in the vector has cost a fault, and a
  chunk that stays in the frame queue, stored and confirmed, because another node's
  frame lay behind it, has cost that frame, which went out with the batch
  (`Discarded`); `Room` is what both may amount to. `LidarInv` counts the lidar's
  frames among those stored. The bound is exact (section 3, the bounds).

`RunTimeStats_proofs`, for any tasks, priorities and length of the array:

* `CheckedCountStaysInside`, `CheckedCountTypes`: `Spec => [](CheckedIsUsed =>
  NoOverrun)`, and the same of TypeOK. `CheckedIsUsed` says that the build does not load
  the count again between the bound check and the increment, which is true of Release
  and of any build in between that does not. `HoldsAnEntry`, that a task past the check
  holds the index of an entry, makes it inductive: here the check alone is enough.

`ClockSync_proofs`, for the periodic master, every length of a second, pause,
period and delay, and a bus that loses whatever it likes:

* `SimTypeCorrect`: `SimSpec => []TypeOK`.
* `SlaveNeverAhead`: `SimSpec => []NeverAhead`. Invariant `InTime`: whatever seconds
  the slave may hold when a follow-up reaches it (its own or those of a SYNC
  before it on the bus, `Earlier`), that second plus the follow-up's rest had
  begun when the SYNC was sent (`Begun`).
* `CompleteRoundAccurate`: `SimSpec => []CompleteRoundIsAccurate`. Invariant `OnTime`
  adds that rounds on the bus are in order and that the follow-up of a round
  was sent at most `Gap + Jitter` after its SYNC, so that the two together are late
  by no more than that and the delay.
* `LossIsWhole`, `LossWholeSeconds`: `SimSpec => []LossIsWholeSeconds` and
  `[]LossCostsWholeSeconds`. Invariant `Apart`: what a follow-up on the bus carries,
  plus the pause, differs by whole seconds (`SecondsApart`) from the time it was due,
  so whatever seconds the slave joins it to, the error is the pause, the jitter and
  the delay but for whole seconds. The property takes the
  error modulo a second, which says the same only if `Slack < Second`: the
  simulator's pause is a tenth of a second.

`PsCanController_proofs`, for any depth of the FIFO, any number of retries and any
width of the error counter:

* `ControllerTypeCorrect`, `ControllerSetUpOnce`, `ControllerDeafWindow`,
  `ControllerFramesWhole`: `Spec => []` TypeOK, SetUpOnce, DeafWindowIsShort,
  FramesAreTheirCalls. None of the last three is inductive. `SetUpIsComms` says that
  the set-up is communicationTask's alone and how far it has come, which the lemma
  `ClockRunsAfterComm` (the clock's task runs only while communicationTask waits)
  preserves; `LockIsHeldOnce` is what makes `canMutex` exclude; `FrameAt` says of the
  mutex's holder how much of `m_txFrame` is its own, that the room it has seen in the
  FIFO is still there, and what the call has sent.

`PmodCan_proofs`, for any senders and any number of retries:

* `PmodTypeCorrect`, `PmodExclusion`, `PmodPending`, `PmodResults`, `PmodGiveUp`:
  `Spec => []` TypeOK and the four properties of the run. The invariant is `TypeOK`,
  `StaysFull`, and `Orderly` unless a reception has given up. `StaysFull` reaches
  from the last look at the flags, before `gaveUp` is set, to every place where a
  buffer might be emptied afterwards. `Orderly` adds to exclusion that nothing is
  pending between the look at the transmit buffer and the request, and for each
  place in `transmitMsg` what has become of the frame.

`ImageCapturer3D_proofs`, for all angles, resolutions and buffers that satisfy
`ScanAssumption` (`ImageCapturer3DConfig` does: 1722 points of 2048, and 132 degrees
of the servos' 180):

* `CaptureInBounds`: `Spec => []IndexInBounds`. `ScanInv` counts: the index is the
  number of complete lines times the columns plus the columns done of this line, as
  the angles tell them. What is left is arithmetic of quotients (`NextColumn`,
  `NextTurn`), without which a bound on the index is not inductive.
* `CaptureTypeCorrect`: `Spec => []TypeOK`. The width of an angle is what is hard
  here: the line beyond `MaxV` must still be one of the servo's positions
  (`AnglesOK`), which follows from `ScanInv`.
* `CaptureComplete`: `Spec => []CaptureIsComplete`, given `EvenScan`: the resolution
  divides the horizontal field of view (it is 1), without which the way back visits
  other angles than the way there, and angles fit a byte. `SweptInv` says which
  angles are already among the points: those of the lines below this one and, by the
  direction of the sweep, one side of this line (`Passed`).
* `DistancesAreNear`: `Spec => []PointIsNear`. `ProtocolInv` and `MeasureInv` follow
  a measurement through the driver's calls, the controller's transfers and the
  lidar: unless a transfer failed, the lidar is measuring or has measured near the
  angles once the command has arrived, has stopped before the distance is asked for,
  and answers for the register it was last asked for. The head's half counts the delays since
  the last pulse (`AgeInv`): the register is ahead of the pulse by a step for each, and
  the current one (`HorInv`: at most two), and the servo is behind the pulse by at most
  what a pulse adds, two steps, since it keeps up. The vertical angle changes
  once a line: how far into the line a point is bounds the delays since, hence whether
  the pulse of this line has come and the servo has followed it (`VerInv`). `ServoInv`
  ties the registers to the angles of the sweep.

`CborTransfer_proofs`, for every base of a byte, length of message and number of
images:

* `TransferTypeCorrect`, `RefusalIsTold`: `Spec => []TypeOK`, `Spec => []SendDataTells`.
  `SenderInv` says that the frames left are the last ones of the image's messages.
* `WholeImageArrives`: `Spec => []FileIsTheImage`. `MasterInv`: unless the image was
  disturbed, the master has filed every piece that is gone under its place, and under
  an id nobody else used no place beyond the longest image of that id. The rest is
  about data: the places of the pieces sort into the order they were cut in, although
  the last one is filed under 0xFFFF, and the pieces in that order concatenate to the
  text. Concatenation is a recursive function, and the library's induction theorems
  cannot be used; the proof takes the least length at which the claim fails
  (`LeastElement`) instead.

They rest on the ASSUMEs of the modules (`LinkAssumption`, `QueueAssumption`,
`KindAssumption`, `SnapshotAssumption`, `ClockAssumption`, `ControllerAssumption`,
`PmodAssumption`, `HeadAssumption`, `I2CAssumption`, `ScanAssumption`,
`TransferAssumption`), which TLC
evaluates in every run of the module, and on the hypotheses named above, which are
assumptions of the theorems and not of the modules: `Orderly`, `Alone`, `Fits`,
`Lossy`, `RoomForAll`, `Loads`, `EndIsTold`, `CheckedIsUsed`, `EvenScan`,
`Slack < Second`. The constants of the run that checks the property satisfy them (of the two builds in `stats_overrun`,
Release satisfies `CheckedIsUsed`). The stated properties are not inductive: each
speaks of one variable at one moment, and what protects it is spread over the flags,
the notifications and the program counters.

Model-checked only: the types and NoOverrun of `RunTimeStats` in the Debug build, which
loads the count again for every write. How many entries tasks that race can take there
depends on how many they are and on their priorities (two and three tasks of different
priorities take up to three and six, three of equal priority more than six), by a count
we know no closed form of; the theorem would be about the code's ten entries and four
tasks, and these are the constants of the run, whose search is exhaustive. And the
liveness properties ImagesArrive, ShownIsClassified,
EventuallyRegistered, TransmitReturns and CapturesGoOn (liveness under fairness, and
ENABLED, are out of the prover's reach).

## 5. Order of the work, and what is open

The pipeline came first, since it is what the committed build does, then the
registry and the clock, then the controller's other half, the PMOD driver, the lidar
node and the transfer; the pipeline refines the abstract `ImageDelivery`, and
`LossyDelivery` on a bus with losses and other nodes. Worth adding next:

1. The set-up of the PMOD module and of the clock's two managers.
2. The Debug build's bound on the entries of `RunTimeStats`, as a function of the tasks
   and their priorities.

## 6. Not modelled

* Data: pixel arithmetic, JPEG and CBOR decoding beyond success or failure,
  inference, distances as numbers, bias correction (off in the configuration),
  wording and formatting of logs.
* The waits for a busy I2C bus, the lidar's test mode, the set-up of interrupts, and
  the registers written by the PMOD module's set-up: straight-line register code
  against devices that are not in the repository. Motor, GPIO and timer drivers,
  for the same reason.
* The stubs (`FusionManager`, `MatchingManager`, `DataManager`,
  `Image3DProjector`'s arithmetic) and the sensor fusion task, which is never created.
* What the committed build leaves out is modelled and marked so: `FAKE_VALUES` keeps
  the lidar out of the sweep, and `splitCborToCanMsgs` with the vector `sendData`, the
  clock's slave and the PMOD driver have no caller in its tasks.
* The clock's reference and timer are read one after the other in
  `getAbsotuleTime`; that matters only with a slave's task that sets them, which
  this build does not create.
* Memory safety below the level of values, such as the nine-byte FUP message in
  eight-byte buffers, heap use in the interrupt, or the missing sensorFusionTask
  handle that `createPoolTasks` dereferences (`SystemTaskManager.cpp:439`).
