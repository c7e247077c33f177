# A verification project for amiga_drivers

`AmigaDrivers` records one survey run of a field robot: GoX and FX10 cameras
(over the eBUS SDK), LMS4xxx laser scanners and an AsteRx GNSS receiver, under
one process that starts them, watches them, stops them together and leaves a
manifest saying whether the recording can be trusted.  A Python console starts
and stops that process and shows its state.  The repository's rule is fail-fast:
a recording is complete or it is reported as failed, and *a recording or close
failure takes precedence over an operator stop* (repository README).

This directory holds TLA+ models of that program, TLC configurations that check
them on small instances, and TLAPS proofs of the main invariants for every value
of the constants.  `PROJECT.json` maps each definition to the source lines it
models and lists runs, mutants, hazards and theorems.

To check everything in one place:

    tlc -workers 2 -config SessionRunner.cfg MCSessionRunner   # one run
    tlapm EbusCameraProofs.tla                                  # one proof module

## 1. Inventory

| Component | State | Operations | Talks to | What is hard |
|---|---|---|---|---|
| Run coordinator (`main.cpp`, `session_runner.cpp`) | driver slots, lifecycle flags, first cause of the stop | prepare, Init loop, spawn, poll, stop, join, shut down, collect results, finalize | every driver through `IDriverApp`, the manifest, the hub | Run threads, driver workers and the signal handler interleave; an exception anywhere; failure against stop |
| Driver contract (`driver_app.h`) | `terminate_`, `failed_` | Init, Run, Shutdown, RequestFailure | coordinator | two flags set one after the other from any thread |
| Signal handler | terminate flag, signal number | Handler | coordinator | two stores |
| Manifest (`drivers_json.cpp`) | one document, two files | WriteRunning, UpdateLifecycle, AddDriverResult, Finalize | console | a write may fail half-way, between the two files |
| Run guards (`run_guards.cpp`) | warning latches | CheckDisk, CheckSensor | coordinator poll | episodes over long sequences of readings |
| SensorSync hub (`sensor_sync_hub.cpp`) | participants, armed, started, ended, failed, rates on the board | Register, Arm, Disarm, Ok | the cameras, the trigger board | all cameras must be ready before the first pulse; the first to leave ends the session |
| Camera driver (`ebus_driver/camera_driver.cpp`) | stage flags, slot pool, queue, counters, SDK buffers | Init, Run, receive worker, write worker, StopWorkers, Shutdown | SDK, hub, recorder | three threads, buffer and slot ownership, drain after stop, late frames |
| Block identifiers (`block_ids.h`) | last identifier | Observe | receive worker | wrap of a 16-bit counter that skips 0 |
| Camera recorder (`raw_recorder.cpp`) | segment files, counts, marker | Open, Append, Close | write worker | roll-back of a failed append |
| Bounded queue, file writer (`common/include`) | items, limits, closed flag, current file | push, pop, close, write, rotate | drivers | limits, close against waiters |
| AsteRx session (`session.cpp`, `asterx_driver_app.cpp`) | session state, six timers, warm-up gate, bring-up outcome | connect, configure, warm up, record, recover, stop | receiver over TCP, write queue, coordinator | deadlines across retries, late replies, signals from inside a handler, two threads publishing one outcome |
| AsteRx write queue (`sbf_write_queue.cpp`, `sbf_writer.cpp`) | blocks, pending bytes, failure flags | Enqueue, writer loop, Close | session, disk | byte budget, overflow against drain, rotation |
| LMS4xxx driver (`driver*.cpp`, `command_channel.cpp`, `lms4xxx_driver_app.cpp`) | connection, trust in it, measurement shutdown, stream flags, receive and NTP threads | Connect, Configure, StartScanning, receive loop, NTP watch, StopScanning, assessment | scanner over TCP, recorder | lost and late answers, stop after a failed start, one reader of the socket, time quality |
| LMS4xxx frame receiver (`frame_receiver.cpp`) | buffer, scan position, reported prefix | Feed, Finish | receive loop | telegrams cut anywhere, overlapping markers, garbage counted once |
| LMS4xxx recorder (`raw_recorder.cpp`) | queue, splits, counters | Start, OnFrame, writer loop, Stop | receive loop, disk | queue at its limit, failure at any file operation, power loss |
| AsteRx command list (`commands.cpp`, `app_config.cpp`) | none; the receiver's configuration | load the file, build the list, judge answers, compare read-backs | session, receiver | what the receiver accepted is not what was asked; leftovers of its boot configuration |
| AsteRx live rows (`sbf_live_recorder.cpp`, `sbf_parsers.cpp`) | one CSV channel per kind of block | Record, Flush, Close | session, console | padding that looks like data; failures that must stay outside the recording |
| LMS4xxx monitor (`scan_data_parser.cpp`, `scan_verify.cpp`, `clock_quality.h`, `scan_time.cpp`) | clock tracker, lock gate, counters | parse, verify, assess, judge | receive loop, recorder | wraps, clock steps behind damaged telegrams, a lock deadline |
| Camera configuration (`app_config.cpp` of both cameras, `main_config.cpp`, `wavelengths.cpp`) | none | load, validate, derive options | main, hub, camera driver | constraints over several files |
| GoX and FX10 control (`gox_config.cpp`, `fx10_config.cpp`, `camera_controller.cpp`, `camera_control.cpp`, `ptp_manager.cpp`) | device registers, PTP state, trigger counter, SDK time-outs | factory load, apply plan, raw overrides, PTP lock and health, shutter, sample | SDK, camera driver | registers that move by themselves, read-back, re-checks against a stop |
| Camera address (`ip_config.cpp`, `discovery.cpp`, `ipv4.cpp`) | current and persistent address of the camera | ebus_set_ip, FindCamera | SDK, operator | a write half done, power cycles, several adapters |
| Console services (`app/services`) | acquisition state, tool journal, configurations | start, stop, watch, reattach; tool launch; save | the acquisition process | tasks on one event loop that use state across awaits; restart of the server |
| Decoders, pages, command-line tools | none that lasts | | | not state machines |

What makes them correct, in one sentence each: the coordinator tears down in
order on every path and its verdict is never better than the drivers' own; the
manifest never overclaims; the hub sends pulses only while all participants
acquire; the camera driver loses no buffer without noticing, and what it calls
complete is gapless; the AsteRx session never
waits without a deadline and a lost block fails the driver; a clean Close of the
write queue means every accepted block is in a file; the scanner is off when its
driver says so, the driver never goes on because of another command's answer, and a late
refusal taken for the present command's only ever ends in a failure; a split marked clean survives a
power loss; the frame receiver finds the same telegrams however the bytes arrive; the
scanner's recording is judged good exactly when its stream was; the receiver records only
over a configuration it has proved; no camera captures off its contract, and its trigger
count is exact or absent; a success of ebus_set_ip survives a power cycle.

## 2. Modules

| Module | Models | Extended by |
|---|---|---|
| `SessionRunner` | coordinator, driver contract, manifest, signal handler | `MCSessionRunner`, `SessionRunnerProofs` |
| `BlockIds` | gap accounting, pure operators | `EbusCamera` |
| `EbusCamera` | one camera driver with its two workers, the SDK stream, the queue and the recorder | `MCEbusCamera`, `EbusCameraProofs` |
| `SensorSyncHub` | the shared trigger session and the board | `TriggerRig`, `TriggerRigProofs` |
| `ConfigUtil` | the helpers that read a key of a document | the configuration modules |
| `GoxConfig`, `Fx10Config` | the camera files: validation, derived values, wavelengths | `RigConfig` |
| `RigConfig` | the main file, engine options and buffer memory over all camera files | `TriggerRig` |
| `TriggerRig` | the cameras of an accepted or refused rig on one hub, under the coordinator | `MCTriggerRig`, `TriggerRigProofs` |
| `CameraProfiles` | the GoX and FX10 hooks of the engine, the camera's registers, PTP servo and trigger counter | `CameraBringUp` |
| `Ipv4` | parsing of addresses, subnets | `CameraAddress`, `LmsConfig` |
| `CameraAddress` | ebus_set_ip, FindCamera, the camera's stored address and power cycles | `CameraBringUp` |
| `CameraBringUp` | composes `CameraAddress` and `CameraProfiles` | `MCCameraProfiles`, `CameraBringUpProofs` |
| `RecordLog` | abstract: what a recording promises to whoever hands it items | instantiated by `SbfWriteQueue` |
| `RotatingFile` | the size-capped file writer, operators over its state | `SbfWriteQueue` |
| `SbfWriteQueue` | the AsteRx write queue, its writer thread and its caller | `AsterxRecording` |
| `SbfLive` | the live rows and the block parsers under them | `AsterxRecording` |
| `AsterxRecording` | composes the write queue and the live rows as `OnSbfBlock` does | `MCAsterxRecording`, `AsterxRecordingProofs` |
| `AsterxCommands` | the AsteRx file, the command list, answers and read-backs | `AsterxSession` |
| `AsterxSession` | the AsteRx session on the Qt thread, `AsterxDriverApp` on the coordinator's, the receiver's configuration | `MCAsterxSession`, `AsterxSessionProofs` |
| `LmsDriver` | one scanner driver, its two threads, the socket and the scanner | `MCLmsDriver`, `LmsDriverProofs` |
| `ScanTelegram` | both parsers of a scan telegram and the check of the first scan | `ScanMonitor` |
| `ScanMonitor` | clock tracker, assessment of each telegram, verdict | `LmsRecording` |
| `LmsConfig` | the scanner file | `LmsRecording` |
| `LmsRecorder` | the scanner's raw recorder with its queue and its files | `LmsRecording` |
| `LmsRecording` | composes configuration, monitor and recorder | `MCLmsRecording`, `LmsRecorderProofs` |
| `FrameReceiver` | cutting the byte stream into telegrams | `MCFrameReceiver`, `LmsRecorderProofs` |

A definition whose name ends in `_Something`, or that is commented *Mutant*, is
a deliberately wrong form of the definition that follows it.  It is no part of
the specification; `PROJECT.json` says which property it breaks.

### SessionRunner

`pc` is the place of the main thread in `RunAcquisition`, `Execute`,
`Cleanup::Stop` and `RunSession`; `mode` tells which of the paths through
`RunSession` is being taken (normal, exception, failed pre-flight).  Each driver
has `failed_` and `terminate_`, a Run thread, and one abstract worker thread that
lives from Init to Shutdown and may fail at any moment; `RequestFailure`, the
thread body's exit and the signal handler are two steps each, because the code
stores two flags.  `doc` is the document in memory, `disk` and `control` the two
files.  `Write` is `WriteJsonAtomic` on both: it fails before either is replaced,
after the first, or after both (directory sync), and each outcome is explored.
Verdicts of the disk and no-data guards are free choices of the poll.

### EbusCamera

`pc` is the thread that executes Init, Run and Shutdown one after the other;
`rpc` and `wpc` are the receive and the write worker.  `wire`, `sdkFree`,
`sdkDone` are the network and the SDK's buffers: a block can be delayed,
overtaken, damaged or lost, with or without the SDK noticing.  `Process` is split
where another thread can observe it: account for the block and decide
(`RejectBuffer`, `AcceptBuffer`), fill a slot, push it, count it.  `Allocate`,
`OpenStream` and the recorder succeed or fail.  `StopWorkers` is one action per
effect, in the code's order: disarm, AcquisitionStop, join the receiver, close the
queue and join the writer.  Time is abstract: a time-out can expire whenever what
it waits for is absent.

Not in the model: pixel contents, telemetry, statistics lines, event rows other
than `session_end`.

### SensorSyncHub and TriggerRig

The hub runs under one mutex, so each call is one action.  `board` is what the
trigger board really sends: a START or STOP that is answered with an error may or
may not have taken effect (`ArmThrows`, `Disarm`).  `TriggerRig` puts any number
of cameras on the hub; a camera is its sequence of hub calls, AcquisitionStart and
AcquisitionStop, and a source of failures at every stage.  The rates, channels and
buffer sizes of its cameras come out of `RigConfig`, which loads the main file and the
camera files of a rig; a document is a record of the keys the checks look at, a key may
be absent, and a rig that any check refuses never reaches the hub.  A camera is known to the
hub by its kind and its identifier, so a GoX may have the identifier of the FX10.

### CameraProfiles, CameraAddress and CameraBringUp

One thread runs the hooks in the order in which the engine calls them (prepare, stream,
configure, metadata, before_start, samples); what interleaves is the camera.  `reg` is the
GenICam map; nodes which the plans write and nothing reads again are represented by one of
their group, and the plan is a sequence of such writes, in the code's order, then the raw
overrides, then the read-back of the contract registers.  A *fault* is an SDK call that does
not do what it was asked; when it is the call that restores a raised time-out, `comm` is
"stuck", since the code only warns and the next guard takes what it finds for the original.  The PTP servo may lose and regain its lock, the trigger counter
counts, wraps, restarts or loses its binding between two samples, and `since` is
what the camera really saw.  `CameraAddress` has one action per step of `SetDeviceIp`; a discovery may
miss the camera on any adapter, FORCEIP takes effect late or never, a node write fails
with or without its effect, and a power cycle brings the camera up with what it has stored.
`CameraBringUp` lets the tool, `FindCamera` and the hooks follow one another.

### RotatingFile and SbfWriteQueue

A step of `SbfWriteQueue` is one critical section of `mu_` or the file operation
between two of them; `cpc` is the caller inside Enqueue or Close, `wpc` the writer
thread.  The thread may not come into being (Open fails), and then Close drains the
queue itself (`rest`).  `RotatingFile` gives for each operation the set of states it may
leave, since open, write, flush and close can each fail; rotation by age may happen at
any append.  `accepted` and `written` are histories.  `Log == INSTANCE RecordLog WITH ...`
maps them to the abstract log, where neither threads nor a queue nor files are visible.

### SbfLive and AsterxRecording

A frame is reduced to what decides about its row: bytes delivered, declared length, optional
groups and sub-blocks, whether its row fits the line buffer.  The parsers are the readings of
the code, `WellFormed` is the reference they are compared with.  `AsterxRecording` does with a
block what `OnSbfBlock` does: first the queue, then the rows; a refused block ends both.

### AsterxSession

A Session handler runs to its end on the Qt event loop and is one action over the record
`s` (state, armed timers, socket, place in the command list, gate).  The handlers are
composed from operators on that record, in the code's order, so that a failure handled
while another is being handled is visible (`nested`).  What the Qt thread shares with the
coordinator (outcome of the bring-up, `terminate_`, `failed_`, the no-data slot) is
written in steps of its own, `qpc`; `mpc` is the coordinator in Init, Run and Shutdown.
Timers are a set: an armed timer may expire at any moment, a stopped one never.  The
write queue appears as its caller sees it: it may fail, and it posts the failure once,
as an event that others may overtake.  SsnRx is vendored and is the source of signals
(`rx`); it emits `connectionClosed` from within `close`, as the code expects.

`AsterxCommands` builds the list of commands from a document; a command is its kind with its
arguments.  The receiver holds a configuration of its own: it executes commands, may refuse
one, may bend an argument of an accepted one, and comes back from a reset with its boot
configuration.  What is read back is compared as in the code.

### LmsDriver

`pc` with `stack` is the owner (Init, Run, Shutdown); commands are executed by one small
interpreter over scripts (`job`, `i`), each entry with what it checks and tolerates, in
the order of the code.  `link` is the socket, `inbox` the commands that the scanner has
not executed, `dev` the scanner.  An answer carries the command it belongs to and whether
that command has been given up; the driver's own decisions use only what it can see (the
name, the status, a mismatch).  Two history variables record confusions: `mixed`, that the
driver went on because of an answer whose command had been given up, be it an answer under
the present command's name or a refusal where one is tolerated; `misread`, which sequences of
commands ended because of a late refusal.  The code allows the second: an sFA names no
command and counts as the answer to whatever is waited for, on the command channel as in
the slot that the receive thread fills for `CallMethodStreaming`.  `AnswersMatch` (part of
`DriverInv`) says that the first never happens, `RefusalsFail` what the second can lead to.  The
scanner executes commands in the order they were written, over all connections: this is
an assumption about the device.  An answer may be late, refused, damaged, cut short or
absent, and the connection may break.  `rpc` and `npc` are the receive and the NTP watch
thread.  The recorder is what its callers see of it; counters are reduced to whether they
are zero, which is all the verdict looks at.  The three reads of one telemetry round are
one action.

### LmsRecorder

OnFrame, the writer and the owner interleave at every atomic and every call of the queue.
A split remembers what a power loss could leave of it: how much of the data and of the
index has been synced, and the set of contents that its manifest may have, `torn`
included.  So the question whether a clean manifest implies complete data is an invariant
of every state, with no crash action needed.

### ScanTelegram, ScanMonitor, LmsConfig and LmsRecording

A telegram is a record of the fields that decide how it is read: which optional parts it
has, how long its channels are, where it ends, its times and counters.  Both parsers walk it
in the order of the code; the light one stops at the time.  `ScanMonitor` keeps the monitor's
state and gives the next one for a telegram.  `LmsRecording` loads a file, sends the telegrams
of a stream through the monitor into the recorder while any file operation may fail, and
judges the final counters.  The references it is compared with look at the stream itself.

### FrameReceiver

One action per chunk handed to Feed and one per iteration of its loop.  Marker and length
field are scaled to two bytes and one, the checksum is the XOR of two-bit bytes; as
in the original, marker bytes read as a length are out of range.  `TelegramsFrom` is the
reference: it reads the whole stream at once, from a given position on, by recursion over the
positions ahead.

## 3. Runs

| Run | Instance | Checks |
|---|---|---|
| `session` | 2 drivers, second copy of the manifest | `SuccessIsClean`, `ManifestNeverOverclaims`, `TeardownIsOrdered`, `SensorStatesAgree`, `StopIsNotFailure`, `StopIsServed` |
| `session_manifest_finalized` | 1 driver | `FinalizedOnEveryExit`, violated, see Findings |
| `ebus_pulsed` | pulsed session, extended identifiers, 2 blocks | `NothingVanishes`, `CompletePulsedMeansAll`, `ShutdownCompletes` |
| `ebus_queue` | no SensorSync, 3 blocks from identifier 65534, `max_frames` 2, buffers whole or of an extent that cannot be trusted | `RecordingIsHonest`, `WorkersShareSafely` |
| `rig` | up to 3 cameras, about 70 rigs of accepted and refused files | `RigInv`, `PulsesFindEveryCamera`, `ArmedIsAnswered`, `EndStopsEveryone` |
| `camera_profiles` | GoX and FX10 configurations, 2 faults, counter up to 2, sensor of width 3; 23 requests to ebus_set_ip in 5 networks | `BringUpInv`, `TriggerCountExact`, `FailureHasCause`, `CaptureOnContract`, `LostClockEndsCapture` |
| `asterx_recording` | blocks of 1, 2 and 4 bytes, cap 3, budget 5, 3 blocks, 5 kinds of frame | `RecordingInv`, `ImplementsLog`, `CloseReturns` |
| `asterx` | 24 documents, 3 receivers, 2 up-times, 1 bent argument | `SessionInv`, `OutcomeIsHonest`, `ConfigurationProven`, `RecoveryEnds`, `StopCompletes` |
| `lms` | short tables, NTP watch, 1 telegram | `DriverInv`, `StoppedMeansOff`, `CleanMeansRecorded`, `RefusalsFail` |
| `lms_stop` | empty tables, NTP watch with 2 failures, no telegram | `StopCompletes` |
| `lms_recorder` | about 80 pairs of a file and a stream of at most 4 telegrams, splits of 2 bytes, queue of 2, up-time modulo 64 | `RecorderInv`, `CleanIsDurable`, `MonitorInv`, `JudgedFairly`, `StopReturns` |
| `frame_receiver` | every stream up to 11 bytes over three byte values | `ReceiverInv`, `ChunksDoNotMatter` |

A name that ends in `Inv` is the conjunction of a module's type invariant with the
relations its variables keep at every step; each part is defined and explained on its
own.  Invariants of `SessionRunner`, `SensorSyncHub` and `EbusCamera` that do not appear
here are proved for every instance instead (section 5).

**Bounds.** Two drivers give every relation the coordinator distinguishes: a driver
before and after the one that fails, a Run thread that exists while the next is refused.
Three blocks with an identifier before, at and after the wrap, a queue of two and a
limit of two reach a full queue, an exclusion by `max_frames`, an overtaking block and a
lost one in the middle; `Cycle` is the code's 65535.  Capacity 2 and 4 SDK buffers are
the least that `Allocate` accepts.  Three cameras on two pairs of outputs give a pair
that shares its rate and one that does not; each refused rig breaks one check of one
file, or a check over several.  All runs check for deadlock.  In `camera_profiles` a
counter that wraps after 2 shows every difference of two samples (forwards, across the
wrap, backwards, none); two faults let a repair fail as well.  A camera the tool has
worked on is looked for and not used, and a camera the tool has not touched is reachable:
the hooks do not depend on the address.  The block sizes of `asterx_recording` fill a
file exactly, pass its cap together and exceed it alone, and three blocks exceed the
budget; one of the frames has its optional group in the padding and one a row too long.
In `asterx` two up-times show a restart of the receiver; the number of recoveries is not
bounded, because only whether a second window was opened is kept; an argument is bent in
one command, since the first deviation ends the configuration.  In `lms` the parameter
table has a strict and a tolerant row, enough for every outcome of a command before, at
and after the start of the measurement; one late answer per command can pile up.
`lms_stop` leaves the tables and the telegrams out, which `lms` covers, to afford the
check of liveness.  The sizes in `lms_recorder` make a split that holds one telegram, one
that holds two and a telegram larger than a split; its streams put a clock step, a wrap,
a damaged or an undated telegram at the start, in the middle and at the end.  Eleven
bytes hold two telegrams with a garbage run between them and a false marker before one.

**Fairness.**  Weak fairness of each thread (the operating system schedules it) and
of the second half of two-store steps.  A Run thread whose flag is set returns:
that is what `IDriverApp::Run` demands.  No fairness for failures, signals, frames,
operator stops, or for a camera's start, which may hang in the SDK.  In `EbusCamera`
the five seconds that the receiver's drain may take have strong fairness: other turns of
the loop interleave with their expiry, but the code compares against a fixed point in time.
The second of silence that usually ends the drain earlier has none.  In
`TriggerRig` the 30 s limit on waiting is weakly fair: time passes.  In `CameraBringUp`
only the thread of the hooks is weakly fair; camera, operator and tool owe nothing.  In
`AsterxSession` both threads and every timer that is armed and not stopped are weakly
fair, except the watchdog, which the properties do not need; the receiver owes nothing.
In `LmsDriver` the owner, both workers and the recorder's writer are weakly fair and the
60 s deadline on a ready device is strongly fair, since polls interleave with it; the
scanner owes nothing.  In `AsterxRecording` and `LmsRecording` only the writer and the
closing thread are fair.

## 4. Findings

*Manifest not finalized* (`session_manifest_finalized`).  `main.cpp:78` says of the
manifest: "finalized on every exit path below".  When `WriteRunning` fails,
`RunAcquisition` returns without `Finalize`; if the write failed after the rename
(directory sync, or the second copy), `raw/drivers.json` stays on disk with status
running.

**Observations** that no run checks, met while modelling:

- Coordinator and cameras.  `run_guards.h:24-26` orders the rig-wide no-data limit after
  "the AsteRx session's own 30 s SBF watchdog, which triggers a RECONNECT"; in
  `session.cpp` that watchdog takes 3 s and, in the recording state, its expiry stops the
  rig.  A stop while a camera is being prepared leaves the hooks as a plain
  `std::runtime_error` (`gox_config.cpp:44`, `fx10_config.cpp:31,82`,
  `camera_controller.cpp:140`), so the run is a failed one, while the repository's
  README (93-94) has a run interrupted by a signal end with 0.
- Camera registers.  The selector of the GoX telemetry may stay moved when a read fails
  (`camera_controller.cpp:754-768`); the binding of the FX10 counter is checked when it is
  configured and not again; a raw override of `GevIEEE1588` is noticed by the first health
  check only; `features.raw` of a GoX does not ban `AcquisitionStart`.
- Rigs.  A GoX pair of which one runs free and one is triggered passes
  `CheckSensorTriggerRig` (`test_config.cpp:319`) and is refused by the hub at Register;
  clashes between two files and a missing port are noticed there too.  An FX10 file may
  leave both mac and ip empty.
- ebus_set_ip.  After a persistent write that failed half-way (exit 6) the stored address
  and its flag may already be the new ones, although the message (`ip_config.cpp:309-311`)
  says the address is not persisted and a power cycle restores the previous one.  With
  `--allow-foreign-subnet` the wait can succeed only if the SDK calls the configuration
  valid, and a success can leave a camera the driver refuses as foreign.  The wait
  compares the address, not the mask.  A camera seen by two adapters is taken at the
  first by the tool and refused as ambiguous by `FindCamera`.
- AsteRx.  The list starts from `exeCopyConfigFile, Boot, Current` (`commands.cpp:462`),
  where `docs/DEVICE_CONFIG.md:15,109`, `test_commands.cpp:129` and `test_session.cpp:362`
  have `RxDefault, Current`: what the boot configuration says under a name that the list
  does not set survives.  `DEVICE_CONFIG.md:62-64` calls every documented key required,
  `app_config.cpp` reads most of them as optional.  A stray prompt after the header of a
  listing completes it early (`session.cpp:142-148`).  Credentials may contain spaces
  although they are sent unquoted.  A live row longer than its buffer is dropped
  uncounted, and the last flush of the live files is unchecked.
- Scanner.  An audit read that is answered late makes the next command of StartScanning
  fail with a mismatch, so an unanswered audit can cost the start and not only metadata.
  An sFA names no command (`command_channel.cpp:108-114`, `driver_stream.cpp:65-72,137`), so a
  late refusal of a telemetry read, of the stop-stream command or of an audit read is taken
  for the refusal of the command that waits.  When that is the SetAccessMode of a stop while
  streaming, LMCstopmeas is never sent; `MeasurementShutdown::Stop` attempts a cleanup once
  (`measurement_shutdown.h:30-50`), so the laser may stay on.  The driver reports the stop as
  unconfirmed and the run as failed (`RefusalsFail`), and never takes the laser for off
  (`StoppedMeansOff`).
  A run with NTP that ends before `lock_timeout` and has seen no plausible date is judged
  good, with `time_quality_degraded`.  The light parser has none of the limits of the full
  one on channels, samples and names.

## 5. Proofs

All proofs are about the same modules that TLC checks and hold for every value of
the constants under the named assumptions of those modules.  Each proof module has
one inductive invariant, which TLC checked on small instances before it was proved, and
its theorems follow from that.

**SessionRunnerProofs** (any number of drivers, from `NAssumption` and
`HasControlAssumption`).  `TypeCorrect` needs one fact that types do not give, that
the Init loop stops at the last driver (`InitInRange`).  The safety theorems rest on
`IInv`: which pc values go with which path (`ModeInv`), that `stopped_` tells whether
`Cleanup::Stop` has begun (`StopInv`), the loop indexes of join and shutdown with the
drivers they have passed (`TeardownInv`), which results are already in the document
(`ResultInv`), which sensors it shows as stopped (`SensorInv`), what a clean verdict in
the document or in either file implies about the drivers (`VerdictInv`), and what an
exit code of 0 implies (`ExitInv`).  `FinishedInv` adds where the main thread can be
once the document is finished: past the point where a driver can still fail, which is
why its two sections cannot come to disagree afterwards.  `QuietInv` adds what has not
happened as long as nothing went wrong, in every place of the thread and not only at the
exit.  Proved: `TeardownCorrect`, `ExitCorrect`, `ResultsCorrect`, `ManifestCorrect`,
`SuccessCorrect`, `SensorsCorrect`, `StopCorrect`.

**TriggerRigProofs** (any set of rigs with any number of cameras, from `ConfigAssumption` and
`RigsAssumption`: the FX10 has a name, the cameras of every rig have names, and what should be a
number is one).  About the hub alone, with any set of participants: `HubInv` adds that two
participants of one pair of outputs asked for the same rate and that channels are valid; without
it the planned rates need not be the ones a participant asked for.  Proved: `StartCorrect`,
`BoardCorrect`, `NoRestartCorrect`.  About the rig, with a lemma for each call of the hub: `RigIInv` adds to
`HubInv` what the phase of the coordinator says of the hub and the options (`PhaseInv`) and one
fact list per camera (`CameraInv`): a camera with SensorSync that has got past Init is a
participant, with the channel and the rate of its file; it acquires from before it arms until
the session has ended; once it has stopped its source the session has ended.  `PulsesFindEveryCamera`
is not inductive without the last two: StopSource turns a camera off and is right only because
somebody has ended the session by then, perhaps another camera.  The rest is about the files:
what each check of `GoxConfig` and `Fx10Config` leaves possible for a channel, a rate and an
exposure (`DefinitionsExpose`, `DefinitionsRegister`), for two cameras (`DefinitionsShare`), that
cameras on different channels always leave a place for the next (`PlaceIsLeft`), and the
arithmetic of the buffers (`AllocateFits`).  Proved: `PulsesCorrect`, `RigCorrect`.

**AsterxRecordingProofs** (any blocks, sizes, cap, budget and frames, from the assumptions of
`SbfWriteQueue`, `RotatingFile` and `SbfLive`).  `LogCorrect` is the refinement: `Spec => ImplementsLog`,
every step of the queue, its writer and its caller is a step of `RecordLog` or leaves the
mapped state alone.  It needs `LogInv` (`LogInvCorrect`): the types; which flags go with which
places of the two threads (`PhasesAgree`); that what is written is a prefix of what was
accepted (`StoredIsPrefix`); that, as long as no write has failed, what is written, the block
in the writer's hands and the queue are together what was accepted, in this order (`Lined`);
and that a failure is latched or in the hands of exactly one thread (`FailureLatched`).
Without `Lined` a stored block need not be the next one, and without `FailureLatched` Close
could return true over a failure that is still on its way.  `QueueCorrect` (`QueueInv`) adds
`Books`: that the byte count is the size of the queue and of the block in hand, where the size
of a sequence is the number of its bytes, so that taking a block off is a difference of finite
sets; that an accepted block has been offered; that only a block whose write failed is not
counted and no file exceeds its cap; and who has still to run the failure callback.
`RecordingCorrect` (`RecordingInv`) adds the live rows.  `ChannelShows` relates a channel to the
rows due so far, also while it is not yet open or has failed.  It rests on `ParsedMeans`: a
parser succeeds exactly on a well-formed frame, proved by following its cursor through any
number of groups and sub-blocks (`TakeAllPasses`, `TakeTimesPasses`).  That needs induction
over the naturals with the property given as a set (`Induct`), which follows from the
well-foundedness of the strict subset ordering on finite sets.

**EbusCameraProofs** (any number of blocks, buffers and slots, any limit, from the
assumptions of `EbusCamera` and `BlockIds`).  `Inv` is the conjunction of: types; which
flags are set at which stage (`StagesAgree`); what has been torn down
(`TeardownAgrees`); the watchdog fact; where each slot is (`SlotsAccounted`: an exception
may lose a slot, but then the loop that could lose another one has ended); where each
SDK buffer is (`BuffersAccounted`); where each admitted block is (`RecordsAccounted`);
and that the queue is empty once the writer is joined (`QueueDrained`).  Proved:
`CameraTypeCorrect`, `PoolCorrect`, `BuffersCorrect`, `RecordsCorrect`, `TeardownCorrect`,
`WatchdogCorrect`, and `WorkersCorrect`, which is four of them together as the run checks
them.

That a recording is honest about itself rests on a second invariant, `HonestInv`.
`Continuity` says what the identifiers tell of the blocks: the identifier remembered is the
last block's, the gaps add up while blocks arrive in order, and until the camera fails the
blocks are consecutive; the lemmas under it (`ObserveForward`, `ObserveNext`) say what
`Observe` finds between two blocks of a cycle of any length.  `RecordKept` follows the blocks
from the receiver's hand through the queue and the writer's hand to the disk (`Pipeline`):
one step puts a block in, the others only hand it on, as long as nobody failed.
`ArrivalsCounted` accounts for what the SDK completed, `SessionEnded` and `FramesCompared` for
what the final checks compared and why nothing can change afterwards, though the recorder is
closed two steps later.  All of it holds while `ShortOutages` does: 16-bit identifiers cannot
tell an outage of half a cycle (32768 blocks) from a block that comes late, nor one of a full
cycle from none, and neither can the code.  `HonestUnlessOutage` says so for sessions of any
length; `RecordingHonest` and `PulsedComplete` state the two properties of the runs for extended
identifiers, or for sessions that are too short for such an outage.

**LmsRecorderProofs** (telegrams of any sizes, any queue capacity, any limit of a file, any
number of telegrams, from `RecorderAssumption`).  `IInv` says where the three threads are,
relative to each other and to the files (`Places`); which telegram is in whose hands
(`Hand`); that a telegram is refused only after a failure (`Refusals`); for each split what
has been written, synced and may be marked (`Files`, `CurrentFiles`); that identifiers grow
along the files, the hands and the queue (`Order`); and that sent telegrams are those written,
dropped, queued or in a hand (`Counts`).  `CleanIsDurable` alone is not inductive: the mark is
set some steps after the syncs it relies on, with every failure in between possible.
Proved: `DurableCorrect`, `RecorderCorrect`, and `RecordingCorrect`: the composition with the
monitor and the configuration takes only steps of the recorder, so both hold of `LmsRecording`.

The same module proves the receiver that feeds the recorder, for any sizes of the marker and of
the longest telegram, any stream and any reads, from `ReceiverAssumption` alone.  `SearchDefined` shows that the recursive
reference `TelegramsFrom` has a solution, by induction over the positions still ahead, and
`SearchSteps` what it finds at one position.  `ReceiverIInv` needs two facts the properties do
not show.  `Accounts` says up to where bytes are accounted for while a candidate is rejected
(`covered` may reach beyond the buffer by the missing checksum, but never past the telegram the
search might find next, which is why garbage is never counted twice).  `FirstTelegrams` compares
with every continuation of the stream, not with the stream alone: the telegrams delivered so far
are the first ones of whatever stream begins with these bytes, and the others begin where the
search stands.  Only in that form does it survive the next read.  Proved: `ReceiverCorrect` and
`ChunksCorrect`.

**AsterxSessionProofs** (any configuration files, receivers, up-times and number of bent
arguments, from `UpTimesAssumption`, `DescriptorsAssumption` and `DocumentsAssumption`, which say
that up-times are positive, that the name of a connection has a length, and that the reader of
the file makes sequences of its lists of streams).  A handler is a composition of functions from one value
of the Session to the next, so the proofs are one lemma per operation about every value that
it may return; a handler then combines a few of them.  The invariant is about the Session
between two handlers (`Whole`: its state goes with its link, its timers, its announcement and
its slot), the write queue as its caller sees it (`Queue`), and how far the Qt thread has come
in publishing what happened (`QtThreadAt`, `Published`).  Proved: `SessionCorrect` and
`OutcomeCorrect`, for which it does not matter what `BuildCommandList` returns.

`ConfigurationCorrect` (`ConfigurationProven`) is about that list and about the receiver, whoever
has used it before.  The list is joined from eleven parts, and each of them, for every
configuration of its group, is shown to be a `Part`: every setting is followed by the question
whether it was taken, which names every argument but those in `UncheckedArguments`, and no
setting is made twice but for the modes of a port.  `PartJoin` keeps this over the concatenation
of parts about different names, and the streams, of which there may be any number, go by
induction over them (`Induct`).  Hence `ListIsListed`: for every file that loads the list resets
the configuration first, lists it before it ends, and asks for the antennas where one is named.
`ConfigIInv` then follows the receiver through the list.  `Achieved` says what the commands
before the present one have made of it: their settings are in its lines; an argument it took
otherwise is one whose question is still to come, or that nobody compares; a line that is not of
this connection is permanent, or one it boots with, and after the listing only under a name the
driver has set itself; the antennas are known once they were listed.  The property itself is
not inductive: nothing in it speaks of a half-configured receiver.  After the last command
`AchievedProven` turns this into `Proven`; that the settings and their lines are equally many is
an injection between the two sets.  `Stays` says which operations of the Session leave the
connection alone or give it up, which is all but those that move on to the next command, and
`NeverThrows` that the validation of the file covers what `BuildCommandList` may throw for.

**LmsDriverProofs** (any tables of parameters and variables, with and without NTP, any number of
telegrams and of tolerated probe failures, from `BoundsAssumption`, `NtpAssumption`,
`TablesAssumption` and `NamesAssumption`).  `NamesAssumption` says that no variable is read twice
in the rounds of reads that survive a failure and that none has the name of a method; this holds
of the two lists in `driver_configuration.cpp` and is needed: two reads of one name in a row
could not tell a late answer to the first from the answer to the second.  The invariant has six
parts.  `Places`: which script the owner is in and which threads live then.  `Ordered`: of all
that the scanner still executes or answers, only the last command has not been given up, and
nothing but scan data follows its answer.  `Line`: for each place of the owner, which answers
this connection may still deliver; where reads survive their failures, those of reads that lie
before the present one, elsewhere none but the one that is waited for; and the slot that the two
threads share never holds a late one under the name of the present method.  `Laser`: unless a
measurement has been requested, and once its stop has been confirmed, the scanner is off and no
start is under way; a stop that is answered well was written after every start.  `Recorder`: what
a good verdict says about the counters.  `Refusals`: in which sequences a late refusal can have
been taken for the present command's, and that from then on the driver has failed, has an
unconfirmed stop, or is at a place from where every way leads to a failure (`WillFail`).  The driver's own variables would not do: what the
scanner has still to execute and what was given up is nowhere among them.  Proved:
`DriverCorrect`, `StoppedCorrect`, `RecordedCorrect`, `RefusalsCorrect`.

**CameraBringUpProofs** (any set of accepted configurations of either camera, any networks and
requests, any sizes of the sensor and the counter, any number of failing calls, from
`ConfigsAssumption`, `CounterAssumption` and `NetworksAssumption`; features.raw is one of the seven
lists of `RawLists`).  The order of the two apply
plans is a lemma about lists that are joined from optional parts (`GoxEntries`, `Fx10Entries`,
`PlanOrdered`): which entry stands where, whatever the configuration includes.  On it rests
`ProfileIInv`.  `Staged` and `FactoryLoaded` say which hook may run when and that the factory
state is in the registers before the plan is; `PlanApplied` carries through the plan that a
register holds the last word said about it so far (`InForce`), and, where nothing was said yet,
the factory value; without the second half the camera could refuse the next write.
`StillVerified` keeps the contract from its check to the start of the capture, through the
moved selectors and the shutter pulse.  `GoxCounted` relates the counter, its wrap and its
binding to a reading which may be several triggers old when it is judged; `Fx10Counted` does
so for a counter that is never read for a wrap; `Quiet` says what is not flagged as long as
nothing goes wrong, which `FailureHasCause` needs.  `AddressIInv` follows ebus_set_ip: a write
without errors has stored what was asked for, node by node, at the address that was
asked for.  A stronger form, that a success also means a camera its driver will find, is not
invariant: a camera that loses power before the write, and already had the address stored
under another mask, answers at the right address under that mask, which the tool does not look
at again; `SetIpServesTheDriver` therefore speaks of a camera that has the mask, and the fifth
network of `MCCameraProfiles` is of that kind.  Proved: `BringUpSafe`, `TriggersCounted`,
`FailuresCaused`, and the action property `CapturesStartWell`.

**Only model-checked.**

- All liveness properties (fairness and ENABLED are beyond the prover).
- `MonitorInv` and `JudgedFairly` of `LmsRecording`, about what one step of `ScanMonitor`
  computes from a telegram.

An induction over a natural number is within reach when it is stated over a set (`Induct` in
`AsterxRecordingProofs`, on which the sums of the live queue rest, and in `LmsRecorderProofs`,
where it shows that a function defined by recursion exists); what a RECURSIVE operator computes
for every input is not, so operators of that kind are checked over bounded inputs.

`Ipv4` masks an address bit by bit, as a sum over the bits that two octets share, so that the
modules which rest on it can be used in proofs.

## 6. Not modelled, and the plan

Left out for good: logging, the thresholds of the run guards, numeric decoding of SBF
and scan telegrams, the bytes of a command, image processing, page layout, the listing
tool, the ring buffer (only its tests use it), the trigger board's serial protocol (its
sources are in a submodule that is not part of the repository).

Planned, in this order:

1. Camera `RawRecorder` (segments, roll-back, marker) as what `EbusCamera` assumes of it;
   `BoundedQueue` against an abstract FIFO; the crash-atomicity of `WriteJsonAtomic`.
2. Console: acquisition controller, tool jobs and journal, configuration store.  The two
   hazards listed for it have no property until then.
3. The reference and snapshot tools of the cameras.
4. Refinements: `LmsRecorder` as a `RecordLog`; the hub as `EbusCamera` sees it implemented
   by `SensorSyncHub`; a camera as `TriggerRig` sees it implemented by `EbusCamera`; the hooks
   as `EbusCamera` sees them implemented by `CameraProfiles`.
5. Proofs: `MonitorInv` in `LmsRecorderProofs`, from the exactness of `Observe` for one step.
