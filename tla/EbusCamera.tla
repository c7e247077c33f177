----------------------------- MODULE EbusCamera -----------------------------
(***************************************************************************)
(* One eBUS camera from Init to Shutdown: EbusCameraDriver::Impl of        *)
(* ebus_driver/src/camera_driver.cpp with the parts of RawRecorder and     *)
(* BoundedQueue that it calls.                                             *)
(*                                                                         *)
(* Threads: the thread that runs Init, Run and Shutdown in turn (pc; the   *)
(* coordinator never overlaps them, see TeardownIsOrdered of module        *)
(* SessionRunner), the receive worker (rpc) and the write worker (wpc).    *)
(* External: the camera, the network, the SDK's buffer queue, the operator *)
(* and the other participants of the SensorSync session.                   *)
(*                                                                         *)
(* A block is its number in the order of emission and what is wrong with   *)
(* its buffer.  Time is abstract: a time-out may expire whenever what it   *)
(* waits for is absent.                                                    *)
(***************************************************************************)
EXTENDS BlockIds, Sequences, FiniteSets

CONSTANTS
    Frames,      \* bound: blocks the camera emits at most
    FirstId,     \* identifier of the first block
    Kinds,       \* what may be wrong with a buffer
    Capacity,    \* queue_capacity; the pool has two slots more
    SdkBuffers,  \* buffers handed to the SDK
    MaxFrames,   \* options.max_frames, 0 = no limit
    SyncMode,    \* "none", "freerun" (pulse_hz = 0) or "pulsed"
    ExpectData   \* options.expect_data

AllKinds == {"image", "other", "error", "partial", "unsafe"}

ASSUME BoundsAssumption == Frames \in Nat /\ FirstId \in 1 .. Cycle
ASSUME KindsAssumption == Kinds \subseteq AllKinds
(* Allocate leaves at least two queued images and four SDK buffers. *)
ASSUME BuffersAssumption == /\ Capacity \in Nat /\ Capacity >= 2
                            /\ SdkBuffers \in Nat /\ SdkBuffers >= 4
ASSUME OptionsAssumption == /\ MaxFrames \in Nat
                            /\ SyncMode \in {"none", "freerun", "pulsed"}
                            /\ ExpectData \in BOOLEAN

VARIABLES
    pc,             \* Init, Run, StopWorkers and Shutdown
    initialized, runCalled, startAttempted, acquisitionStarted, workersStopped,
    device,         \* the control connection
    stream,         \* the SDK stream
    stop,           \* stop_requested
    term,           \* TerminateFlag, or the external stop predicate
    failed,         \* IDriverApp::failed_
    gate,           \* start_gate
    sourceStopped,  \* source_stopped
    acquiring,      \* acquiring: the no-data watchdog is on
    registered, armed, hubStarted, hubEnded, hubOk,
    cameraOn,       \* the camera is acquiring
    emitted,        \* blocks emitted so far
    wire,           \* blocks on the network
    dropped,        \* the SDK has counted dropped blocks
    sdkFree,        \* empty buffers queued in the SDK
    sdkDone,        \* completed buffers, in the order they completed
    arrived,        \* history: how many buffers completed
    requeueErrors,
    rpc, draining,
    rbuf, rvalid,   \* the block in Process's hands and its valid
    taken,          \* history: blocks retrieved; retrieved is its length
    last, gaps, validObserved, validAdmitted, admitted,
    excluded,       \* blocks not recorded because of max_frames
    free,           \* number of slots in free_slots
    queue, closed,
    wpc, wslot, ioFailed, unconfirmed,
    recorder, recFailed,
    written,        \* records in the segments; RecordsWritten is its length
    marker          \* the session_end row of events.jsonl

mainVars == <<pc, initialized, runCalled, startAttempted, acquisitionStarted,
              workersStopped, device>>
verdictVars == <<stop, failed>>
startVars == <<gate, sourceStopped>>
hubVars == <<registered, armed, hubStarted, hubEnded, hubOk>>
cameraVars == <<cameraOn, emitted, wire, dropped>>
sdkVars == <<stream, sdkFree, sdkDone, arrived, requeueErrors>>
receiveVars == <<rpc, rbuf, rvalid, draining, taken, last, gaps, validObserved,
                 validAdmitted, admitted, excluded>>
queueVars == <<free, queue, closed>>
writeVars == <<wpc, wslot, ioFailed, unconfirmed>>
recorderVars == <<recorder, recFailed, written, marker>>
vars == <<mainVars, verdictVars, startVars, term, acquiring, hubVars, cameraVars,
          sdkVars, receiveVars, queueVars, writeVars, recorderVars>>

----------------------------------------------------------------------------
Blocks == [n: Nat, kind: AllKinds]
NoBlock == [n |-> 0, kind |-> "other"]

BlockId(b) == IdAfter(FirstId, b.n - 1)

Stopping == stop \/ term

(* Fail (bad) and Stop (ending): both latch stop_requested, Fail the driver. *)
Verdict(bad, ending) ==
    /\ failed' = (failed \/ bad)
    /\ stop' = (stop \/ bad \/ ending)

MainPCs == {"connect", "openStream", "allocate", "record", "register", "ready",
            "beforeStart", "startCommand", "openGate", "arm", "report", "monitor", "disarm",
            "stopSource", "joinReceiver", "joinWriter", "returned", "finalChecks",
            "closeStream", "disconnect", "closeRecorder", "done"}
ReceiverPCs == {"none", "wait", "top", "retrieve", "slot", "push", "count",
                "closing", "done"}
WriterPCs == {"none", "pop", "append", "release", "abandon", "discard", "done"}

ControlTypeOK ==
    /\ pc \in MainPCs
    /\ initialized \in BOOLEAN /\ runCalled \in BOOLEAN
    /\ startAttempted \in BOOLEAN /\ acquisitionStarted \in BOOLEAN
    /\ workersStopped \in BOOLEAN
    /\ device \in {"none", "connected", "released"}
    /\ stop \in BOOLEAN /\ term \in BOOLEAN /\ failed \in BOOLEAN
    /\ gate \in BOOLEAN /\ sourceStopped \in BOOLEAN /\ acquiring \in BOOLEAN

OutsideTypeOK ==
    /\ registered \in BOOLEAN /\ armed \in BOOLEAN
    /\ hubStarted \in BOOLEAN /\ hubEnded \in BOOLEAN /\ hubOk \in BOOLEAN
    /\ cameraOn \in BOOLEAN /\ emitted \in Nat /\ dropped \in BOOLEAN
    /\ wire \in Seq(Nat)
    /\ stream \in {"none", "open", "closed"}
    /\ sdkFree \in Nat /\ sdkDone \in Seq(Blocks) /\ arrived \in Nat
    /\ requeueErrors \in Nat

ReceiverTypeOK ==
    /\ rpc \in ReceiverPCs /\ rbuf \in Blocks /\ rvalid \in BOOLEAN
    /\ draining \in BOOLEAN
    /\ taken \in Seq(Blocks) /\ last \in Nat /\ gaps \in Nat
    /\ validObserved \in Nat /\ validAdmitted \in Nat /\ admitted \in Nat
    /\ excluded \in SUBSET Nat

StorageTypeOK ==
    /\ free \in Nat /\ queue \in Seq(Blocks) /\ closed \in BOOLEAN
    /\ wpc \in WriterPCs /\ wslot \in Blocks /\ ioFailed \in BOOLEAN
    /\ unconfirmed \in Nat
    /\ recorder \in {"none", "open", "closed"} /\ recFailed \in BOOLEAN
    /\ written \in Seq(Blocks)
    /\ marker \in {"none", "incomplete", "complete"}

(* The values the variables of the camera driver may take. *)
TypeOK == ControlTypeOK /\ OutsideTypeOK /\ ReceiverTypeOK /\ StorageTypeOK

Init ==
    /\ pc = "connect" /\ initialized = FALSE /\ runCalled = FALSE
    /\ startAttempted = FALSE /\ acquisitionStarted = FALSE /\ workersStopped = FALSE
    /\ device = "none" /\ stream = "none"
    /\ stop = FALSE /\ term = FALSE /\ failed = FALSE
    /\ gate = FALSE /\ sourceStopped = FALSE /\ acquiring = FALSE
    /\ registered = FALSE /\ armed = FALSE
    /\ hubStarted = FALSE /\ hubEnded = FALSE /\ hubOk = TRUE
    /\ cameraOn = FALSE /\ emitted = 0 /\ wire = << >> /\ dropped = FALSE
    /\ sdkFree = 0 /\ sdkDone = << >> /\ arrived = 0 /\ requeueErrors = 0
    /\ rpc = "none" /\ rbuf = NoBlock /\ rvalid = FALSE /\ draining = FALSE /\ taken = << >>
    /\ last = NoId /\ gaps = 0 /\ validObserved = 0 /\ validAdmitted = 0
    /\ admitted = 0 /\ excluded = {}
    /\ free = 0 /\ queue = << >> /\ closed = FALSE
    /\ wpc = "none" /\ wslot = NoBlock /\ ioFailed = FALSE /\ unconfirmed = 0
    /\ recorder = "none" /\ recFailed = FALSE /\ written = << >> /\ marker = "none"

----------------------------------------------------------------------------
(* Init: a stage goes on, is interrupted where it calls CheckStop, or throws. *)

InitStage(here, following, checks) ==
    /\ pc = here
    /\ \/ ~(checks /\ Stopping) /\ pc' = following /\ UNCHANGED verdictVars
       \/ checks /\ Stopping /\ pc' = "returned" /\ Verdict(FALSE, TRUE)
       \/ pc' = "returned" /\ Verdict(TRUE, TRUE)
    /\ UNCHANGED <<initialized, registered>>

(* What a stage leaves behind when it does not go on may or may not exist. *)
Leaves(following, new, old) == IF pc' = following THEN {new} ELSE {new, old}

InitFrame == UNCHANGED <<runCalled, startAttempted, acquisitionStarted, workersStopped,
                         startVars, term, acquiring, armed, hubStarted, hubEnded,
                         cameraVars, arrived, requeueErrors, receiveVars, writeVars,
                         sdkDone, queue, closed, written>>

Connect ==
    /\ InitStage("connect", "openStream", TRUE)
    /\ device' \in Leaves("openStream", "connected", device)
    /\ InitFrame
    /\ UNCHANGED <<hubOk, stream, sdkFree, free, recorder, recFailed, marker>>

OpenStream ==
    /\ InitStage("openStream", "allocate", TRUE)
    /\ stream' \in Leaves("allocate", "open", stream)
    /\ InitFrame
    /\ UNCHANGED <<device, hubOk, sdkFree, free, recorder, recFailed, marker>>

(* The pool has a slot for every place in the queue, one for the receiver's
   and one for the writer's hand. *)
Allocate ==
    /\ InitStage("allocate", "record", FALSE)
    /\ free' \in Leaves("record", Capacity + 2, free)
    /\ sdkFree' \in Leaves("record", SdkBuffers, sdkFree)
    /\ InitFrame
    /\ UNCHANGED <<device, hubOk, stream, recorder, recFailed, marker>>

(* RawRecorder::Open closes itself with complete = false when it throws. *)
OpenRecorder ==
    /\ InitStage("record", "register", FALSE)
    /\ recorder' = IF pc' = "register" THEN "open" ELSE "closed"
    /\ recFailed' = (recorder' = "closed")
    /\ marker' \in IF recorder' = "closed" THEN {"none", "incomplete"} ELSE {marker}
    /\ InitFrame
    /\ UNCHANGED <<device, hubOk, stream, sdkFree, free>>

(* Register with the hub, the last CheckStop and the event "prepared", which
   may throw after initialized was set. *)
RegisterAndPrepare ==
    /\ pc = "register"
    /\ \/ /\ SyncMode # "none" /\ pc' = "returned" /\ Verdict(TRUE, TRUE)
          /\ hubOk' \in {hubOk, FALSE}
          /\ UNCHANGED <<registered, initialized, recFailed>>
       \/ /\ registered' = (SyncMode # "none") /\ UNCHANGED hubOk
          /\ \/ /\ ~Stopping /\ pc' = "ready" /\ initialized' = TRUE
                /\ UNCHANGED <<verdictVars, recFailed>>
             \/ /\ Stopping /\ pc' = "returned"
                /\ \E bad \in BOOLEAN : Verdict(bad, TRUE) /\ recFailed' = (recFailed \/ bad)
                /\ UNCHANGED initialized
             \/ /\ ~Stopping /\ pc' = "returned" /\ initialized' = TRUE
                /\ Verdict(TRUE, TRUE) /\ recFailed' = TRUE
    /\ InitFrame
    /\ UNCHANGED <<device, stream, sdkFree, free, recorder, marker>>

----------------------------------------------------------------------------
(* Run.                                                                    *)

RunFrame == UNCHANGED <<initialized, device, term, stream, sdkFree, sdkDone, arrived,
                        requeueErrors, queueVars, recorder, written, marker>>
WorkerFrame == UNCHANGED <<receiveVars, writeVars>>

(* CheckStop, then the writer and the receiver are started; std::thread may
   throw before either of them. *)
StartWorkers ==
    /\ pc = "ready"
    /\ runCalled' = TRUE
    /\ \/ /\ ~Stopping /\ pc' = "beforeStart"
          /\ wpc' = "pop" /\ rpc' = "wait" /\ UNCHANGED verdictVars
       \/ /\ ~Stopping /\ pc' = "disarm" /\ Verdict(TRUE, TRUE)
          /\ wpc' \in {"none", "pop"} /\ UNCHANGED rpc
       \/ /\ Stopping /\ pc' = "disarm" /\ Verdict(FALSE, TRUE)
          /\ UNCHANGED <<wpc, rpc>>
    /\ RunFrame
    /\ UNCHANGED <<startAttempted, acquisitionStarted, workersStopped, startVars,
                   acquiring, hubVars, cameraVars, recFailed, rbuf, rvalid, draining, taken,
                   last, gaps, validObserved, validAdmitted, admitted, excluded,
                   wslot, ioFailed, unconfirmed>>

(* before_start and its event, the payload-size check, StreamEnable and the
   two CheckStops round them. *)
BeforeStart ==
    /\ pc = "beforeStart"
    /\ \/ ~Stopping /\ pc' = "startCommand" /\ UNCHANGED <<verdictVars, recFailed>>
       \/ Stopping /\ pc' = "disarm" /\ Verdict(FALSE, TRUE) /\ UNCHANGED recFailed
       \/ pc' = "disarm" /\ Verdict(TRUE, TRUE) /\ recFailed' \in {recFailed, TRUE}
    /\ RunFrame /\ WorkerFrame
    /\ UNCHANGED <<runCalled, startAttempted, acquisitionStarted, workersStopped,
                   startVars, acquiring, hubVars, cameraVars>>

(* AcquisitionStart: a command that reports an error may have been executed. *)
StartCommand ==
    /\ pc = "startCommand"
    /\ startAttempted' = TRUE
    /\ \/ /\ pc' = "openGate" /\ cameraOn' = TRUE /\ acquisitionStarted' = TRUE
          /\ acquiring' = TRUE /\ UNCHANGED verdictVars
       \/ /\ pc' = "disarm" /\ cameraOn' \in BOOLEAN /\ Verdict(TRUE, TRUE)
          /\ UNCHANGED <<acquisitionStarted, acquiring>>
    /\ RunFrame /\ WorkerFrame
    /\ UNCHANGED <<runCalled, workersStopped, startVars, hubVars, emitted, wire,
                   dropped, recFailed>>

OpenGate ==
    /\ pc = "openGate" /\ pc' = "arm"
    /\ gate' = TRUE
    /\ RunFrame /\ WorkerFrame
    /\ UNCHANGED <<runCalled, startAttempted, acquisitionStarted, workersStopped,
                   verdictVars, sourceStopped, acquiring, hubVars, cameraVars, recFailed>>

(* SensorSyncHub::Arm refuses an ended or failed session; the last of the
   participants to arm starts the pulses, which may fail. *)
Arm ==
    /\ pc = "arm"
    /\ \/ /\ ~registered /\ pc' = "report"
          /\ UNCHANGED <<verdictVars, armed, hubStarted, hubOk>>
       \/ /\ registered /\ (hubEnded \/ ~hubOk) /\ pc' = "disarm" /\ Verdict(TRUE, TRUE)
          /\ UNCHANGED <<armed, hubStarted, hubOk>>
       \/ /\ registered /\ ~hubEnded /\ hubOk /\ armed' = TRUE
          /\ \/ pc' = "report" /\ hubStarted' \in BOOLEAN /\ UNCHANGED <<verdictVars, hubOk>>
             \/ pc' = "disarm" /\ Verdict(TRUE, TRUE) /\ hubOk' = FALSE /\ UNCHANGED hubStarted
    /\ RunFrame /\ WorkerFrame
    /\ UNCHANGED <<runCalled, startAttempted, acquisitionStarted, workersStopped,
                   startVars, acquiring, registered, hubEnded, cameraVars, recFailed>>

(* The event acquisition_started and Sample("start"). *)
ReportStart ==
    /\ pc = "report"
    /\ \/ pc' = "monitor" /\ UNCHANGED <<verdictVars, recFailed>>
       \/ pc' = "disarm" /\ Verdict(TRUE, TRUE) /\ recFailed' \in {recFailed, TRUE}
    /\ RunFrame /\ WorkerFrame
    /\ UNCHANGED <<runCalled, startAttempted, acquisitionStarted, workersStopped,
                   startVars, acquiring, hubVars, cameraVars>>

MonitorFrame ==
    /\ RunFrame /\ WorkerFrame
    /\ UNCHANGED <<pc, runCalled, startAttempted, acquisitionStarted, workersStopped,
                   startVars, acquiring, hubVars, cameraVars>>

(* A pass of the monitor loop: dropped blocks and a dead hub fail the camera,
   the end of the shared session stops it. *)
MonitorPass ==
    /\ pc = "monitor" /\ ~Stopping
    /\ dropped \/ (registered /\ (~hubOk \/ hubEnded))
    /\ Verdict(dropped \/ (registered /\ ~hubOk), TRUE)
    /\ UNCHANGED recFailed
    /\ MonitorFrame

(* The rest of a pass: a lost link, a stalled or waiting hub, a failed sample
   or event; or the duration limit. *)
MonitorTrouble ==
    /\ pc = "monitor" /\ ~Stopping
    /\ \E bad \in BOOLEAN : Verdict(bad, TRUE) /\ recFailed' \in {recFailed, recFailed \/ bad}
    /\ MonitorFrame

MonitorExit ==
    /\ pc = "monitor" /\ Stopping
    /\ pc' = "disarm" /\ Verdict(FALSE, TRUE)
    /\ RunFrame /\ WorkerFrame
    /\ UNCHANGED <<runCalled, startAttempted, acquisitionStarted, workersStopped,
                   startVars, acquiring, hubVars, cameraVars, recFailed>>

----------------------------------------------------------------------------
(* StopWorkers, called at the end of Run and by Shutdown.                  *)

(* The hub's first Disarm ends the session and stops the board. *)
Disarm ==
    /\ pc = "disarm" /\ pc' = "stopSource"
    /\ workersStopped' = TRUE
    /\ Verdict(FALSE, TRUE)
    /\ hubEnded' = (hubEnded \/ registered)
    /\ hubOk' \in {hubOk, hubOk /\ ~(registered /\ hubStarted /\ ~hubEnded)}
    /\ RunFrame /\ WorkerFrame
    /\ UNCHANGED <<runCalled, startAttempted, acquisitionStarted, startVars, acquiring,
                   registered, armed, hubStarted, cameraVars, recFailed>>

(* AcquisitionStop may go unacknowledged; then the receiver is told. *)
StopSource ==
    /\ pc = "stopSource" /\ pc' = "joinReceiver"
    /\ \/ ~startAttempted /\ UNCHANGED <<verdictVars, cameraOn>>
       \/ startAttempted /\ cameraOn' = FALSE /\ UNCHANGED verdictVars
       \/ startAttempted /\ cameraOn' \in {FALSE, cameraOn} /\ Verdict(TRUE, TRUE)
    /\ sourceStopped' = TRUE
    /\ RunFrame /\ WorkerFrame
    /\ UNCHANGED <<runCalled, startAttempted, acquisitionStarted, workersStopped, gate,
                   acquiring, hubVars, emitted, wire, dropped, recFailed>>

JoinReceiver ==
    /\ pc = "joinReceiver" /\ pc' = "joinWriter"
    /\ rpc \in {"none", "done"}
    /\ closed' = TRUE
    /\ WorkerFrame
    /\ UNCHANGED <<initialized, runCalled, startAttempted, acquisitionStarted, workersStopped,
                   device, verdictVars, startVars, term, acquiring, hubVars, cameraVars,
                   sdkVars, free, queue, recorderVars>>

JoinWriter ==
    /\ pc = "joinWriter" /\ wpc \in {"none", "done"}
    /\ pc' = IF runCalled THEN "returned" ELSE "finalChecks"
    /\ acquiring' = FALSE
    /\ RunFrame /\ WorkerFrame
    /\ UNCHANGED <<runCalled, startAttempted, acquisitionStarted, workersStopped,
                   verdictVars, startVars, hubVars, cameraVars, recFailed>>

----------------------------------------------------------------------------
(* Shutdown.                                                               *)

(* The coordinator calls it after Run returned, after a failed Init, or
   instead of Run when another driver failed to initialise. *)
Shutdown ==
    /\ pc \in {"ready", "returned"}
    /\ pc' = IF workersStopped THEN "finalChecks" ELSE "disarm"
    /\ RunFrame /\ WorkerFrame
    /\ UNCHANGED <<runCalled, startAttempted, acquisitionStarted, workersStopped,
                   verdictVars, startVars, acquiring, hubVars, cameraVars, recFailed>>

(* InspectSensorSync on an intact log of a pulsed session: the exposures it
   counts are the frames the camera was triggered for. *)
QualityOk == validObserved # 0 /\ gaps = 0 /\ emitted = validObserved + gaps

(* Mutant: exposures are not compared with the frames observed. *)
SyncAccounting_NoCounts ==
    /\ registered /\ acquisitionStarted
    /\ ~hubStarted \/ ~hubOk

(* The SensorSync part of the final checks finds a fault. *)
SyncAccounting ==
    /\ registered /\ acquisitionStarted
    /\ \/ ~hubStarted
       \/ ~hubOk
       \/ SyncMode = "pulsed" /\ ~QualityOk

(* Sample("stop"): the camera's trigger counter, if it can be read, is
   compared with the frames emitted to the host. *)
TriggerAccounting ==
    /\ acquisitionStarted /\ registered /\ hubStarted /\ hubOk
    /\ SyncMode = "pulsed" /\ emitted # validObserved + gaps

(* Expected data, the last sample, the stream statistics and the SensorSync
   accounting; bad stands for device, log or event errors. *)
FinalChecks ==
    /\ pc = "finalChecks" /\ pc' = "closeStream"
    /\ \E bad \in BOOLEAN, counter \in BOOLEAN :
          /\ Verdict(\/ bad
                     \/ acquisitionStarted /\ ExpectData /\ validObserved = 0
                     \/ counter /\ TriggerAccounting
                     \/ dropped /\ stream = "open"
                     \/ SyncAccounting, FALSE)
          /\ recFailed' \in {recFailed, recFailed \/ bad}
    /\ RunFrame /\ WorkerFrame
    /\ UNCHANGED <<runCalled, startAttempted, acquisitionStarted, workersStopped,
                   startVars, acquiring, hubVars, cameraVars>>

(* Mutant: completed buffers found at the abort are thrown away silently. *)
CloseStream_IgnoresLeftovers ==
    /\ pc = "closeStream" /\ pc' = "disconnect"
    /\ \E bad \in BOOLEAN : Verdict(stream = "open" /\ bad, FALSE)
    /\ stream' = IF stream = "open" THEN "closed" ELSE stream
    /\ sdkFree' = 0 /\ sdkDone' = << >>
    /\ WorkerFrame
    /\ UNCHANGED <<initialized, runCalled, startAttempted, acquisitionStarted,
                   workersStopped, device, startVars, term, acquiring, hubVars,
                   cameraVars, arrived, requeueErrors, queueVars, recorderVars>>

(* StreamDisable, AbortQueuedBuffers, retrieval of what is left, Close. *)
CloseStream ==
    /\ pc = "closeStream" /\ pc' = "disconnect"
    /\ \E bad \in BOOLEAN :
          Verdict(stream = "open" /\ (bad \/ sdkDone # << >>), FALSE)
    /\ stream' = IF stream = "open" THEN "closed" ELSE stream
    /\ sdkFree' = 0 /\ sdkDone' = << >>
    /\ WorkerFrame
    /\ UNCHANGED <<initialized, runCalled, startAttempted, acquisitionStarted,
                   workersStopped, device, startVars, term, acquiring, hubVars,
                   cameraVars, arrived, requeueErrors, queueVars, recorderVars>>

Disconnect ==
    /\ pc = "disconnect" /\ pc' = "closeRecorder"
    /\ device' = IF device = "connected" THEN "released" ELSE device
    /\ \E bad \in BOOLEAN : Verdict(device = "connected" /\ bad, FALSE)
    /\ WorkerFrame
    /\ UNCHANGED <<initialized, runCalled, startAttempted, acquisitionStarted,
                   workersStopped, startVars, term, acquiring, hubVars, cameraVars,
                   sdkVars, queueVars, recorderVars>>

RecordMismatch == Len(written) # admitted \/ unconfirmed # 0

(* The capture_final event and RawRecorder::Close.  eventOk: the event was
   written; closeOk: segment and directory were finalised; markerOk: the
   session_end row was written; closedOk: the event file closed. *)
CloseRecorder ==
    /\ pc = "closeRecorder" /\ pc' = "done"
    /\ IF recorder = "open"
       THEN \E eventOk, closeOk, markerOk, closedOk \in BOOLEAN :
              LET bad == RecordMismatch \/ ~eventOk
                  complete == initialized /\ acquisitionStarted /\ ~(failed \/ bad)
              IN  /\ recorder' = "closed"
                  /\ recFailed' = (recFailed \/ ~eventOk \/ ~closeOk \/ ~markerOk \/ ~closedOk)
                  /\ marker' = IF ~markerOk THEN "none"
                               ELSE IF complete /\ ~recFailed /\ eventOk /\ closeOk
                                    THEN "complete" ELSE "incomplete"
                  /\ Verdict(bad \/ ~closeOk \/ ~markerOk \/ ~closedOk, FALSE)
       ELSE UNCHANGED <<recorder, recFailed, marker, verdictVars>>
    /\ WorkerFrame
    /\ UNCHANGED <<initialized, runCalled, startAttempted, acquisitionStarted,
                   workersStopped, device, startVars, term, acquiring, hubVars,
                   cameraVars, sdkVars, queueVars, written>>

MainStep ==
    \/ Connect \/ OpenStream \/ Allocate \/ OpenRecorder \/ RegisterAndPrepare
    \/ StartWorkers \/ BeforeStart \/ StartCommand \/ OpenGate \/ Arm \/ ReportStart
    \/ MonitorPass \/ MonitorExit \/ Disarm \/ StopSource \/ JoinReceiver \/ JoinWriter
    \/ Shutdown \/ FinalChecks \/ CloseStream \/ Disconnect \/ CloseRecorder

----------------------------------------------------------------------------
(* The receive worker.                                                     *)

(* What Receive and Process leave to the other threads. *)
ReceiverFrame ==
    UNCHANGED <<mainVars, startVars, term, hubVars, cameraVars, stream, arrived,
                writeVars, recorder, written, marker>>

(* Requeue: the SDK takes the buffer back, or refuses it and the camera fails. *)
Requeue(ok) ==
    /\ sdkFree' = IF ok THEN sdkFree + 1 ELSE sdkFree
    /\ requeueErrors' = IF ok THEN requeueErrors ELSE requeueErrors + 1

(* The start gate, or a stop before it opened. *)
ReceiverWait ==
    /\ rpc = "wait" /\ (gate \/ sourceStopped)
    /\ rpc' = IF gate THEN "top" ELSE "closing"
    /\ ReceiverFrame
    /\ UNCHANGED <<verdictVars, acquiring, sdkVars, queueVars, recFailed, rbuf, rvalid, draining,
                   taken, last, gaps, validObserved, validAdmitted, admitted, excluded>>

(* Mutant: the drain has no budget. *)
ReceiverTop_Endless ==
    /\ rpc = "top" /\ rpc' = "retrieve"
    /\ draining' = (draining \/ sourceStopped)
    /\ ReceiverFrame
    /\ UNCHANGED <<verdictVars, acquiring, sdkVars, queueVars, recFailed, rbuf, rvalid, taken,
                   last, gaps, validObserved, validAdmitted, admitted, excluded>>

(* The head of the loop: draining begins once the source has stopped, and
   fails the camera when it exceeds its five-second budget. *)
ReceiverTop ==
    /\ rpc = "top"
    /\ draining' = (draining \/ sourceStopped)
    /\ \/ rpc' = "retrieve" /\ UNCHANGED verdictVars
       \/ draining /\ rpc' = "closing" /\ Verdict(TRUE, TRUE)
    /\ ReceiverFrame
    /\ UNCHANGED <<acquiring, sdkVars, queueVars, recFailed, rbuf, rvalid, taken, last, gaps,
                   validObserved, validAdmitted, admitted, excluded>>

(* RetrieveBuffer timed out. *)
ReceiverTimeout ==
    /\ rpc = "retrieve" /\ sdkDone = << >> /\ rpc' = "top"
    /\ ReceiverFrame
    /\ UNCHANGED <<verdictVars, acquiring, sdkVars, queueVars, recFailed, rbuf, rvalid, draining,
                   taken, last, gaps, validObserved, validAdmitted, admitted, excluded>>

(* RetrieveBuffer reported success without a buffer: Process fails the camera
   and the loop goes on. *)
ReceiverNull ==
    /\ rpc = "retrieve" /\ rpc' = "top"
    /\ Verdict(TRUE, FALSE)
    /\ ReceiverFrame
    /\ UNCHANGED <<acquiring, sdkVars, queueVars, recFailed, rbuf, rvalid, draining, taken, last,
                   gaps, validObserved, validAdmitted, admitted, excluded>>

(* A time-out when nothing had arrived for a second of draining. *)
ReceiverQuiet ==
    /\ rpc = "retrieve" /\ sdkDone = << >> /\ draining /\ rpc' = "closing"
    /\ ReceiverFrame
    /\ UNCHANGED <<verdictVars, acquiring, sdkVars, queueVars, recFailed, rbuf, rvalid, draining,
                   taken, last, gaps, validObserved, validAdmitted, admitted, excluded>>

(* RetrieveBuffer failed; only an abort after the stop is no failure. *)
ReceiverError ==
    /\ rpc = "retrieve" /\ rpc' = "closing"
    /\ \/ sourceStopped /\ UNCHANGED verdictVars
       \/ Verdict(TRUE, TRUE)
    /\ ReceiverFrame
    /\ UNCHANGED <<acquiring, sdkVars, queueVars, recFailed, rbuf, rvalid, draining, taken, last,
                   gaps, validObserved, validAdmitted, admitted, excluded>>

Observed == Observe(last, BlockId(Head(sdkDone)))

Valid == Head(sdkDone).kind = "image" /\ ~Observed.anomaly

(* Process calls Fail for this buffer whether or not it is recorded. *)
Suspect == \/ Head(sdkDone).kind \in {"error", "partial", "unsafe"}
           \/ Observed.gap # 0 \/ Observed.anomaly

OverLimit == Valid /\ MaxFrames # 0 /\ validAdmitted >= MaxFrames

(* The first half of Process, common to every buffer. *)
Account ==
    /\ rpc = "retrieve" /\ sdkDone # << >>
    /\ sdkDone' = Tail(sdkDone)
    /\ taken' = Append(taken, Head(sdkDone))
    /\ last' = Observed.last
    /\ gaps' = gaps + Observed.gap
    /\ validObserved' = IF Valid THEN validObserved + 1 ELSE validObserved
    /\ ReceiverFrame
    /\ UNCHANGED <<acquiring, queueVars, draining, validAdmitted, admitted>>

(* An extent that cannot be trusted, or a frame beyond max_frames, is only
   reported as an event. *)
RejectBuffer ==
    /\ Account /\ rpc' = "top"
    /\ Head(sdkDone).kind = "unsafe" \/ OverLimit
    /\ excluded' = IF Head(sdkDone).kind = "unsafe" THEN excluded
                   ELSE excluded \cup {Head(sdkDone).n}
    /\ \E requeued, eventOk \in BOOLEAN :
          /\ Requeue(requeued)
          /\ Verdict(Suspect \/ ~requeued \/ ~eventOk, FALSE)
          /\ recFailed' = (recFailed \/ ~eventOk)
    /\ UNCHANGED <<rbuf, rvalid>>

AcceptBuffer ==
    /\ Account /\ rpc' = "slot"
    /\ Head(sdkDone).kind # "unsafe" /\ ~OverLimit
    /\ rbuf' = Head(sdkDone) /\ rvalid' = Valid
    /\ Verdict(Suspect, FALSE)
    /\ UNCHANGED <<excluded, sdkFree, requeueErrors, recFailed>>

(* AcquireSlot, the copy of the payload, and the buffer goes back to the SDK. *)
FillSlot ==
    /\ rpc = "slot"
    /\ \E requeued, eventOk \in BOOLEAN :
          /\ Requeue(requeued)
          /\ IF free = 0
             THEN /\ rpc' = "top" /\ Verdict(TRUE, TRUE) /\ UNCHANGED free
                  /\ recFailed' = (recFailed \/ ~eventOk)
             ELSE /\ rpc' = "push" /\ free' = free - 1
                  /\ Verdict(~requeued, FALSE) /\ UNCHANGED recFailed
    /\ ReceiverFrame
    /\ UNCHANGED <<acquiring, sdkDone, queue, closed, rbuf, rvalid, draining, taken, last, gaps,
                   validObserved, validAdmitted, admitted, excluded>>

(* try_push. *)
PushSlot ==
    /\ rpc = "push"
    /\ IF closed \/ Len(queue) >= Capacity
       THEN /\ rpc' = "top" /\ free' = free + 1 /\ UNCHANGED queue
            /\ Verdict(TRUE, TRUE) /\ recFailed' \in {recFailed, TRUE}
       ELSE /\ rpc' = "count" /\ queue' = Append(queue, rbuf)
            /\ UNCHANGED <<free, verdictVars, recFailed>>
    /\ ReceiverFrame
    /\ UNCHANGED <<acquiring, sdkFree, sdkDone, requeueErrors, closed, rbuf, rvalid, draining,
                   taken, last, gaps, validObserved, validAdmitted, admitted, excluded>>

(* The counters, and the stop at max_frames. *)
CountAdmitted ==
    /\ rpc = "count" /\ rpc' = "top"
    /\ admitted' = admitted + 1
    /\ validAdmitted' = IF rvalid THEN validAdmitted + 1 ELSE validAdmitted
    /\ Verdict(FALSE, rvalid /\ MaxFrames # 0 /\ validAdmitted' >= MaxFrames)
    /\ ReceiverFrame
    /\ UNCHANGED <<acquiring, sdkFree, sdkDone, requeueErrors, queueVars, recFailed, rbuf, rvalid,
                   draining, taken, last, gaps, validObserved, excluded>>

(* Mutant: the SDK buffer is not given back on the way out. *)
ReceiverThrows_KeepsBuffer ==
    /\ rpc \in {"slot", "push"} /\ rpc' = "closing"
    /\ UNCHANGED <<sdkFree, requeueErrors>>
    /\ Verdict(TRUE, TRUE)
    /\ ReceiverFrame
    /\ UNCHANGED <<acquiring, sdkDone, queueVars, recFailed, rbuf, rvalid, draining, taken, last,
                   gaps, validObserved, validAdmitted, admitted, excluded>>

(* An exception in Process: ReturnBuffer gives the SDK buffer back if it is
   still held; a slot in hand is freed, not returned to the pool. *)
ReceiverThrows ==
    /\ rpc \in {"slot", "push"} /\ rpc' = "closing"
    /\ \E requeued \in BOOLEAN : IF rpc = "slot" THEN Requeue(requeued)
                                 ELSE UNCHANGED <<sdkFree, requeueErrors>>
    /\ Verdict(TRUE, TRUE)
    /\ ReceiverFrame
    /\ UNCHANGED <<acquiring, sdkDone, queueVars, recFailed, rbuf, rvalid, draining, taken, last,
                   gaps, validObserved, validAdmitted, admitted, excluded>>

(* The end of Receive: the watchdog is switched off and the queue closed. *)
ReceiverClose ==
    /\ rpc = "closing" /\ rpc' = "done"
    /\ acquiring' = FALSE
    /\ closed' = TRUE
    /\ ReceiverFrame
    /\ UNCHANGED <<verdictVars, sdkVars, free, queue, recFailed, rbuf, rvalid, draining, taken,
                   last, gaps, validObserved, validAdmitted, admitted, excluded>>

ReceiverStep ==
    \/ ReceiverWait \/ ReceiverTop \/ ReceiverTimeout \/ ReceiverNull \/ ReceiverQuiet
    \/ ReceiverError \/ RejectBuffer \/ AcceptBuffer \/ FillSlot \/ PushSlot \/ CountAdmitted
    \/ ReceiverThrows \/ ReceiverClose

----------------------------------------------------------------------------
(* The write worker.                                                       *)

WriterFrame == UNCHANGED <<mainVars, startVars, term, acquiring, hubVars, cameraVars,
                           sdkVars, receiveVars, recorder, marker>>

(* Mutant: pop gives up on a closed queue that still holds items. *)
PopSlot_ClosedFirst ==
    /\ wpc = "pop"
    /\ \/ /\ queue # << >> /\ ~closed /\ wpc' = "append"
          /\ wslot' = Head(queue) /\ queue' = Tail(queue)
       \/ /\ closed /\ wpc' = "done"
          /\ UNCHANGED <<wslot, queue>>
    /\ WriterFrame
    /\ UNCHANGED <<verdictVars, free, closed, ioFailed, unconfirmed, recFailed, written>>

(* BoundedQueue::pop waits for an item or for a closed and drained queue. *)
PopSlot ==
    /\ wpc = "pop"
    /\ \/ /\ queue # << >> /\ wpc' = "append"
          /\ wslot' = Head(queue) /\ queue' = Tail(queue)
       \/ /\ queue = << >> /\ closed /\ wpc' = "done"
          /\ UNCHANGED <<wslot, queue>>
    /\ WriterFrame
    /\ UNCHANGED <<verdictVars, free, closed, ioFailed, unconfirmed, recFailed, written>>

(* RawRecorder::Append.  A failed recorder refuses; an I/O error rolls the
   record back, unless it comes from the sync that follows the count. *)
AppendRecord ==
    /\ wpc = "append" /\ wpc' = "release"
    /\ \/ /\ ~ioFailed /\ ~recFailed
          /\ written' = Append(written, wslot)
          /\ UNCHANGED <<ioFailed, unconfirmed, verdictVars, recFailed>>
       \/ /\ ~ioFailed
          /\ written' \in {written} \cup (IF recFailed THEN {} ELSE {Append(written, wslot)})
          /\ ioFailed' = TRUE /\ recFailed' = TRUE
          /\ unconfirmed' = unconfirmed + 1
          /\ Verdict(TRUE, TRUE)
       \/ /\ ioFailed /\ unconfirmed' = unconfirmed + 1
          /\ UNCHANGED <<ioFailed, verdictVars, recFailed, written>>
    /\ WriterFrame
    /\ UNCHANGED <<wslot, queueVars>>

(* ReleaseSlot; an exception in it ends the worker's normal loop. *)
ReleaseSlot ==
    /\ wpc = "release"
    /\ \/ wpc' = "pop" /\ free' = free + 1 /\ UNCHANGED verdictVars
       \/ wpc' = "abandon" /\ Verdict(TRUE, TRUE) /\ UNCHANGED free
    /\ WriterFrame
    /\ UNCHANGED <<wslot, queue, closed, ioFailed, unconfirmed, recFailed, written>>

AbandonQueue ==
    /\ wpc = "abandon" /\ wpc' = "discard"
    /\ closed' = TRUE
    /\ WriterFrame
    /\ UNCHANGED <<verdictVars, wslot, free, queue, ioFailed, unconfirmed, recFailed, written>>

(* What is still queued is counted as unconfirmed and freed. *)
DiscardSlot ==
    /\ wpc = "discard"
    /\ \/ queue # << >> /\ queue' = Tail(queue) /\ unconfirmed' = unconfirmed + 1 /\ UNCHANGED wpc
       \/ queue = << >> /\ wpc' = "done" /\ UNCHANGED <<queue, unconfirmed>>
    /\ WriterFrame
    /\ UNCHANGED <<verdictVars, wslot, free, closed, ioFailed, recFailed, written>>

WriterStep == PopSlot \/ AppendRecord \/ ReleaseSlot \/ AbandonQueue \/ DiscardSlot

----------------------------------------------------------------------------
(* The camera, the network, the SDK, the operator, the other participants. *)

OutsideFrame == UNCHANGED <<mainVars, verdictVars, startVars, acquiring, receiveVars,
                            queueVars, writeVars, recorderVars, requeueErrors, stream>>

(* A camera in pulsed mode exposes only while the board sends pulses. *)
EmitBlock ==
    /\ cameraOn /\ emitted < Frames
    /\ SyncMode = "pulsed" => hubStarted /\ ~hubEnded
    /\ emitted' = emitted + 1
    /\ wire' = Append(wire, emitted + 1)
    /\ OutsideFrame
    /\ UNCHANGED <<cameraOn, dropped, term, hubVars, sdkFree, sdkDone, arrived>>

Without(s, i) == SubSeq(s, 1, i - 1) \o SubSeq(s, i + 1, Len(s))

CompleteBuffer ==
    /\ stream = "open" /\ sdkFree > 0
    /\ \E i \in 1 .. Len(wire), kind \in Kinds :
          /\ wire' = Without(wire, i)
          /\ sdkDone' = Append(sdkDone, [n |-> wire[i], kind |-> kind])
    /\ sdkFree' = sdkFree - 1
    /\ arrived' = arrived + 1
    /\ OutsideFrame
    /\ UNCHANGED <<cameraOn, emitted, dropped, term, hubVars>>

(* A block is lost, with or without the SDK counting it as dropped. *)
LoseBlock ==
    /\ \E i \in 1 .. Len(wire) : wire' = Without(wire, i)
    /\ dropped' \in {dropped, TRUE}
    /\ OutsideFrame
    /\ UNCHANGED <<cameraOn, emitted, term, hubVars, sdkFree, sdkDone, arrived>>

RequestStop ==
    /\ ~term /\ term' = TRUE
    /\ OutsideFrame
    /\ UNCHANGED <<cameraVars, hubVars, sdkFree, sdkDone, arrived>>

(* Another participant arms last, ends the session, or the board fails. *)
HubChanges ==
    /\ registered
    /\ \/ /\ armed /\ ~hubStarted /\ ~hubEnded /\ hubOk /\ hubStarted' = TRUE
          /\ UNCHANGED <<hubEnded, hubOk>>
       \/ ~hubEnded /\ hubEnded' = TRUE /\ UNCHANGED <<hubStarted, hubOk>>
       \/ hubOk /\ hubOk' = FALSE /\ UNCHANGED <<hubStarted, hubEnded>>
    /\ OutsideFrame
    /\ UNCHANGED <<registered, armed, cameraVars, term, sdkFree, sdkDone, arrived>>

OutsideStep == EmitBlock \/ CompleteBuffer \/ LoseBlock \/ RequestStop \/ HubChanges

(* Shutdown has returned and both workers are gone. *)
Terminated == pc = "done" /\ UNCHANGED vars

Next == MainStep \/ MonitorTrouble \/ ReceiverStep \/ WriterStep \/ OutsideStep \/ Terminated

(* Every thread is scheduled; the five seconds that a drain may take pass,
   whatever RetrieveBuffer answers meanwhile. *)
Fairness ==
    /\ WF_vars(MainStep)
    /\ WF_vars(ReceiverStep)
    /\ SF_vars(ReceiverTop /\ rpc' = "closing")
    /\ WF_vars(WriterStep)

Spec == Init /\ [][Next]_vars /\ Fairness

----------------------------------------------------------------------------
(* Properties.                                                             *)

(* Whenever Process asks for a slot the pool has one: queue_capacity + 2
   slots are enough for the queue and the two workers, even on the paths
   where an exception frees a slot without giving it back. *)
PoolNeverExhausted == rpc = "slot" => free > 0

(* While the stream is open every SDK buffer is queued empty, completed, in
   Process's hands, or its requeue was refused and counted: no path of
   Process, exceptions included, keeps one (ReturnBuffer). *)
SdkBuffersReturned ==
    stream = "open" /\ recorder # "none" =>
       sdkFree + Len(sdkDone) + requeueErrors + (IF rpc = "slot" THEN 1 ELSE 0) = SdkBuffers

(* Once both workers are joined every admitted buffer is on disk or counted
   as unconfirmed, and no record is on disk that was not admitted. *)
NothingVanishes ==
    pc \in {"finalChecks", "closeStream", "disconnect", "closeRecorder", "done"} =>
       /\ queue = << >>
       /\ Len(written) <= admitted
       /\ admitted <= Len(written) + unconfirmed

Elements(s) == {s[i] : i \in 1 .. Len(s)}
Ascending(s) == \A i, j \in 1 .. Len(s) : i < j => s[i].n < s[j].n

(* A session_end row that says complete: every buffer that completed in the
   SDK was retrieved and, unless max_frames excluded it, is on disk, in order;
   the blocks are consecutive and no buffer was damaged. *)
CompleteMeansGapless ==
    marker = "complete" =>
       /\ Len(taken) = arrived
       /\ \A i \in 1 .. Len(taken) : /\ taken[i].n = taken[1].n + i - 1
                                     /\ taken[i].kind \in {"image", "other"}
       /\ Ascending(written)
       /\ Elements(written) = {b \in Elements(taken) : b.n \notin excluded}

(* In a pulsed SensorSync session the same row means that no block the camera
   emitted was lost, not even the first or the last. *)
CompletePulsedMeansAll ==
    marker = "complete" /\ SyncMode = "pulsed" =>
       /\ Len(taken) = emitted
       /\ \A i \in 1 .. emitted : taken[i] = [n |-> i, kind |-> "image"]

(* Unless blocks overtook each other the lost-frame counter is exact. *)
GapsAreExact ==
    LET k == Len(taken)
    IN  k > 0 /\ Ascending(taken) => gaps = taken[k].n - taken[1].n + 1 - k

(* What the recording says of itself is so: its last row and its lost-frame
   counter (Shutdown, BlockIds::Observe). *)
RecordingIsHonest == CompleteMeansGapless /\ GapsAreExact

(* The workers are gone before Shutdown frees the stream, releases the device
   or closes the recorder that they use. *)
WorkersOutlived ==
    stream = "closed" \/ device = "released" \/ (recorder = "closed" /\ runCalled) =>
       rpc \in {"none", "done"} /\ wpc \in {"none", "done"}

(* The no-data watchdog is on only while a receive worker lives to feed it. *)
WatchdogHasFeeder == acquiring => rpc \notin {"none", "done"}

(* What the two workers share is neither leaked nor used after its end: slots,
   SDK buffers, the stream and the recorder, and the watchdog they feed. *)
WorkersShareSafely ==
    PoolNeverExhausted /\ SdkBuffersReturned /\ WorkersOutlived /\ WatchdogHasFeeder

(* A stop request, a failure of any thread, or the end of the shared SensorSync
   session leads to the end of Shutdown. *)
ShutdownCompletes == Stopping \/ (registered /\ hubEnded) ~> pc = "done"

=============================================================================
