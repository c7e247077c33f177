----------------------------- MODULE TriggerRig -----------------------------
(***************************************************************************)
(* All cameras of a rig on one SensorSync hub: what each EbusCameraDriver  *)
(* (ebus_driver/src/camera_driver.cpp) does with the hub of module         *)
(* SensorSyncHub and with its camera, one Run thread per camera, under the *)
(* coordinator of common/src/session_runner.cpp, which initialises and     *)
(* shuts down one camera after the other.  The cameras are those of the    *)
(* configuration files (module RigConfig), some without the hub.  The      *)
(* image pipeline inside a camera is module EbusCamera; here it is only a  *)
(* source of failures.                                                     *)
(***************************************************************************)
EXTENDS SensorSyncHub, RigConfig, Sequences

(* Rigs[r]: the main, FX10 and Go-X files, the files they name, and the
   devices: a payload and a queue limit per camera, the FX10's geometry. *)
CONSTANT Rigs

ASSUME RigsAssumption ==
    /\ Fx10Owner \in Owners
    /\ \A k \in DOMAIN Rigs : NumbersOk(Rigs[k]) /\ DOMAIN Definitions(Rigs[k]) \subseteq Owners

VARIABLES
    rig,       \* the one of them that this run has
    options,   \* the options of each camera, once the files are loaded
    phase,     \* the coordinator: "load", "init", "run", then "down"; or "refused"
    pc,        \* pc[c]: where camera c is between Init and the end of Shutdown
    acquired,  \* acquisition_started
    cameraOn,  \* the camera executes AcquisitionStart .. AcquisitionStop
    faulty,    \* the driver's failed_
    stop,      \* stop_requested
    term       \* the coordinator has told every driver to stop

camVars == <<rig, options, phase, pc, acquired, cameraOn, faulty, stop, term>>
vars == <<hubVars, camVars>>

CameraPCs == {"absent", "init", "ready", "start", "arm", "monitor", "disarm", "stopSource",
              "returned", "finalChecks", "done"}

(* The values of the hub's and the cameras' variables. *)
TypeOK ==
    /\ HubTypeOK
    /\ rig \in DOMAIN Rigs /\ DOMAIN options \subseteq Owners
    /\ phase \in {"load", "refused", "init", "run", "down"}
    /\ pc \in [Owners -> CameraPCs]
    /\ acquired \in [Owners -> BOOLEAN] /\ cameraOn \in [Owners -> BOOLEAN]
    /\ faulty \in [Owners -> BOOLEAN] /\ stop \in [Owners -> BOOLEAN]
    /\ term \in BOOLEAN

Init ==
    /\ rig \in DOMAIN Rigs /\ options = << >>
    /\ HubInit /\ port = PortGiven(Rigs[rig].main)
    /\ phase = "load"
    /\ pc = [c \in Owners |-> "absent"]
    /\ acquired = [c \in Owners |-> FALSE] /\ cameraOn = [c \in Owners |-> FALSE]
    /\ faulty = [c \in Owners |-> FALSE] /\ stop = [c \in Owners |-> FALSE]
    /\ term = FALSE

Stopping(c) == stop[c] \/ term

Goto(c, where) == pc' = [pc EXCEPT ![c] = where]

(* Fail and Stop. *)
Fails(c) == faulty' = [faulty EXCEPT ![c] = TRUE] /\ stop' = [stop EXCEPT ![c] = TRUE]
Stops(c) == stop' = [stop EXCEPT ![c] = TRUE] /\ UNCHANGED faulty

Sync(c) == options[c].sensor_sync

(* RunAcquisition loads the files and makes the drivers. *)
Load ==
    /\ phase = "load"
    /\ IF LoadFails(Rigs[rig])
       THEN phase' = "refused" /\ UNCHANGED <<options, pc>>
       ELSE /\ phase' = "init" /\ options' = Definitions(Rigs[rig])
            /\ pc' = [c \in Owners |-> IF c \in DOMAIN options' THEN "init" ELSE "absent"]
    /\ UNCHANGED <<rig, hubVars, acquired, cameraOn, faulty, stop, term>>

(* What the files ask of the device: an address, room for the buffers, and for
   the FX10's wavelengths the image they were measured for. *)
Preparable(c) ==
    LET r == Rigs[rig]
    IN  /\ options[c].addressed /\ AllocateOk(options[c], r.devices[c])
        /\ c = Fx10Owner => Fx10!ResolveForGeometry(r.fx10.output.wavelengths, r.files, r.geometry,
                                                 r.fx10.acquisition.status_line)

RegisterCamera(c) == Register(c, options[c].channel, options[c].pulse_hz)

(* The coordinator calls Init of one driver after the other; the first that
   does not succeed ends the start-up. *)
InitCamera(c) ==
    /\ phase = "init" /\ pc[c] = "init" /\ ~term /\ Preparable(c)
    /\ IF Sync(c) THEN RegisterCamera(c) ELSE UNCHANGED hubVars
    /\ Goto(c, "ready")
    /\ UNCHANGED <<rig, options, phase, acquired, cameraOn, faulty, stop, term>>

InitFails(c) ==
    /\ phase = "init" /\ pc[c] = "init"
    /\ \/ /\ Sync(c) /\ Preparable(c) /\ Fails(c)
          /\ \/ RegisterThrows(c, options[c].channel, options[c].pulse_hz)
             \/ RegisterCamera(c)
       \/ Fails(c) /\ UNCHANGED hubVars
       \/ /\ term /\ Stops(c)
          /\ UNCHANGED hubVars \/ (Sync(c) /\ Preparable(c) /\ RegisterCamera(c))
    /\ phase' = "down" /\ term' = TRUE
    /\ Goto(c, "ready")
    /\ UNCHANGED <<rig, options, acquired, cameraOn>>

(* Execute checks for a stop before each Init and before it starts the threads. *)
BeginRun ==
    /\ phase = "init" /\ \A c \in Owners : pc[c] \in {"absent", "ready"}
    /\ phase' = IF term THEN "down" ELSE "run"
    /\ UNCHANGED <<rig, options, hubVars, pc, acquired, cameraOn, faulty, stop, term>>

RunCamera(c) ==
    /\ phase = "run" /\ pc[c] = "ready"
    /\ IF Stopping(c) THEN Goto(c, "disarm") /\ Stops(c)
       ELSE Goto(c, "start") /\ UNCHANGED <<faulty, stop>>
    /\ UNCHANGED <<rig, options, phase, hubVars, acquired, cameraOn, term>>

(* before_start, StreamEnable and AcquisitionStart. *)
StartCamera(c) ==
    /\ pc[c] = "start"
    /\ \/ /\ ~Stopping(c) /\ Goto(c, "arm") /\ UNCHANGED <<faulty, stop>>
          /\ acquired' = [acquired EXCEPT ![c] = TRUE]
          /\ cameraOn' = [cameraOn EXCEPT ![c] = TRUE]
       \/ /\ Stopping(c) /\ Goto(c, "disarm") /\ Stops(c) /\ UNCHANGED <<acquired, cameraOn>>
       \/ /\ Goto(c, "disarm") /\ Fails(c) /\ UNCHANGED acquired
          /\ cameraOn' \in {cameraOn, [cameraOn EXCEPT ![c] = TRUE]}
    /\ UNCHANGED <<rig, options, phase, hubVars, term>>

ArmCamera(c) ==
    /\ pc[c] = "arm"
    /\ \/ /\ IF Sync(c) THEN Arm(c) ELSE UNCHANGED hubVars
          /\ Goto(c, "monitor") /\ UNCHANGED <<faulty, stop>>
       \/ Sync(c) /\ ArmThrows(c) /\ Goto(c, "disarm") /\ Fails(c)
    /\ UNCHANGED <<rig, options, phase, acquired, cameraOn, term>>

(* The monitor loop's look at the hub. *)
MonitorHub(c) ==
    /\ pc[c] = "monitor" /\ ~Stopping(c) /\ Sync(c)
    /\ \/ ~HubOk /\ Fails(c)
       \/ HubOk /\ ended /\ Stops(c)
    /\ UNCHANGED <<rig, options, phase, hubVars, pc, acquired, cameraOn, term>>

(* Mutant: the wait is only measured in a session that has started. *)
WaitedTooLong_Started(c) ==
    /\ pc[c] = "monitor" /\ ~Stopping(c) /\ c \in armed /\ started /\ ~ended
    /\ Fails(c)
    /\ UNCHANGED <<rig, options, phase, hubVars, pc, acquired, cameraOn, term>>

(* WaitingSeconds exceeded 30 s: somebody else has not armed. *)
WaitedTooLong(c) ==
    /\ pc[c] = "monitor" /\ ~Stopping(c) /\ c \in armed /\ ~started /\ ~ended
    /\ Fails(c)
    /\ UNCHANGED <<rig, options, phase, hubVars, pc, acquired, cameraOn, term>>

(* Anything else that stops or fails a camera: a stalled log, a damaged
   frame, a lost link, a limit. *)
CameraTrouble(c) ==
    /\ pc[c] = "monitor" /\ ~Stopping(c)
    /\ Fails(c) \/ Stops(c)
    /\ UNCHANGED <<rig, options, phase, hubVars, pc, acquired, cameraOn, term>>

(* Mutant: the loop is left only for the camera's own stop request. *)
LeaveMonitor_OwnStop(c) ==
    /\ pc[c] = "monitor" /\ Stopping(c)
    /\ IF stop[c] THEN Goto(c, "disarm") /\ Stops(c) ELSE UNCHANGED <<pc, faulty, stop>>
    /\ UNCHANGED <<rig, options, phase, hubVars, acquired, cameraOn, term>>

(* The monitor loop ends with Run's call of StopWorkers. *)
LeaveMonitor(c) ==
    /\ pc[c] = "monitor" /\ Stopping(c)
    /\ Goto(c, "disarm") /\ Stops(c)
    /\ UNCHANGED <<rig, options, phase, hubVars, acquired, cameraOn, term>>

(* Mutant: the camera stops acquiring before the pulses stop. *)
DisarmCamera_SourceFirst(c) ==
    /\ pc[c] = "disarm" /\ Goto(c, "stopSource")
    /\ cameraOn' = [cameraOn EXCEPT ![c] = FALSE]
    /\ UNCHANGED <<rig, options, phase, hubVars, acquired, faulty, stop, term>>

(* StopWorkers: the hub first, ... *)
DisarmCamera(c) ==
    /\ pc[c] = "disarm" /\ Goto(c, "stopSource")
    /\ IF c \in participants THEN Disarm(c) ELSE UNCHANGED hubVars
    /\ Stops(c)
    /\ UNCHANGED <<rig, options, phase, acquired, cameraOn, term>>

(* ... then AcquisitionStop, which may go unacknowledged; then the workers. *)
StopSource(c) ==
    /\ pc[c] = "stopSource" /\ Goto(c, "returned")
    /\ \/ cameraOn' = [cameraOn EXCEPT ![c] = FALSE] /\ UNCHANGED <<faulty, stop>>
       \/ cameraOn[c] /\ UNCHANGED cameraOn /\ Fails(c)
    /\ UNCHANGED <<rig, options, phase, hubVars, acquired, term>>

OperatorStop ==
    /\ ~term /\ term' = TRUE
    /\ UNCHANGED <<rig, options, hubVars, phase, pc, acquired, cameraOn, faulty, stop>>

(* The coordinator's poll finds a driver that failed or returned. *)
StopAll ==
    /\ phase = "run" /\ ~term /\ \E c \in Owners : faulty[c] \/ pc[c] = "returned"
    /\ term' = TRUE
    /\ UNCHANGED <<rig, options, hubVars, phase, pc, acquired, cameraOn, faulty, stop>>

JoinAll ==
    /\ phase = "run" /\ term /\ \A c \in Owners : pc[c] \in {"absent", "returned"}
    /\ phase' = "down"
    /\ UNCHANGED <<rig, options, hubVars, pc, acquired, cameraOn, faulty, stop, term>>

(* Mutant: Shutdown leaves the hub to the cameras that ran. *)
ShutdownCamera_NoDisarm(c) ==
    /\ phase = "down" /\ pc[c] \in {"ready", "returned"}
    /\ Stops(c) /\ Goto(c, "finalChecks")
    /\ UNCHANGED <<rig, options, phase, hubVars, acquired, cameraOn, term>>

(* Shutdown: a camera whose Run never stopped its workers, because its Init or
   another's failed, disarms the hub here. *)
ShutdownCamera(c) ==
    /\ phase = "down" /\ pc[c] \in {"ready", "returned"}
    /\ IF pc[c] = "ready" /\ c \in participants THEN Disarm(c) ELSE UNCHANGED hubVars
    /\ Stops(c) /\ Goto(c, "finalChecks")
    /\ UNCHANGED <<rig, options, phase, acquired, cameraOn, term>>

SyncFault(c) == Sync(c) /\ acquired[c] /\ (~started \/ ~HubOk)

(* The SensorSync part of Shutdown; the counts may disagree as well. *)
FinalChecks(c) ==
    /\ pc[c] = "finalChecks" /\ Goto(c, "done")
    /\ \/ Fails(c)
       \/ ~SyncFault(c) /\ UNCHANGED <<faulty, stop>>
    /\ UNCHANGED <<rig, options, phase, hubVars, acquired, cameraOn, term>>

AllDone ==
    \/ phase = "refused"
    \/ phase = "down" /\ \A c \in Owners : pc[c] \in {"absent", "init", "done"}

Terminated == AllDone /\ UNCHANGED vars

CameraStep(c) ==
    \/ InitCamera(c) \/ InitFails(c) \/ RunCamera(c) \/ ArmCamera(c) \/ MonitorHub(c)
    \/ LeaveMonitor(c) \/ DisarmCamera(c) \/ StopSource(c) \/ ShutdownCamera(c)
    \/ FinalChecks(c)

CoordinatorStep == Load \/ BeginRun \/ StopAll \/ JoinAll

Next ==
    \/ \E c \in Owners : CameraStep(c) \/ StartCamera(c) \/ WaitedTooLong(c) \/ CameraTrouble(c)
    \/ CoordinatorStep \/ OperatorStop
    \/ BackendFails /\ UNCHANGED camVars
    \/ Terminated

(* Threads are scheduled and the 30 s limit expires; nothing forces a camera
   through before_start and AcquisitionStart, which may hang. *)
Fairness ==
    /\ WF_vars(CoordinatorStep)
    /\ \A c \in Owners : WF_vars(CameraStep(c)) /\ WF_vars(WaitedTooLong(c))

Spec == Init /\ [][Next]_vars /\ Fairness

----------------------------------------------------------------------------
(* Properties.                                                             *)

(* Pulses are on the wires only while every participant's camera is
   acquiring, and no faster than its exposure allows with a tenth of the period
   to spare, so no trigger is sent that a camera cannot answer: cameras start
   before they arm and disarm before they stop, and the files' checks
   (ParseAcquisition, CheckSensorTriggerRig) hold for the rate that the pair
   runs at.  A board that ignored STOP has failed the hub. *)
PulsesFindEveryCamera ==
    board # Off /\ HubOk =>
       \A c \in participants :
          /\ cameraOn[c]
          /\ \A ms \in options[c].exposure_ms : ms * board[Group(channel[c])] < 900

(* A camera that acquired and ends without failure took part in a session that
   started, ended and passed its integrity checks. *)
CleanCameraHadSession ==
    \A c \in Owners :
       pc[c] = "done" /\ acquired[c] /\ Sync(c) /\ ~faulty[c] => started /\ ended /\ HubOk

(* When the rig is down no session is left open. *)
SessionClosed ==
    AllDone /\ participants # {} =>
       ended /\ (HubOk => board = Off)

(* One trigger mode on the Go-X pair, which the FX10 leaves alone, and a port. *)
Compatible(r) ==
    /\ PortGiven(r.main)
    /\ \A i, k \in Gox!EnabledCameras(r.gox) :
          Gox!External(r.gox.cameras[i]) = Gox!External(r.gox.cameras[k])
    /\ r.fx10.sensor_trigger.trigger_channel \in 0 .. 1

(* The files of a compatible rig were checked well enough for the hub: it
   refuses none of their cameras, in whatever order they register. *)
AcceptedRegisters ==
    phase = "init" /\ ~failed /\ Compatible(Rigs[rig]) =>
       \A c \in DOMAIN options :
          pc[c] = "init" /\ Sync(c) => Registrable(c, options[c].channel, options[c].pulse_hz)

(* The buffers of a prepared camera fit its memory, the workers' two included,
   and each side has what it needs to make progress (Allocate). *)
PoolsFit ==
    phase = "init" =>
       \A c \in DOMAIN options :
          LET device == Rigs[rig].devices[c]
              pool == Pool(options[c], device)
          IN  pc[c] = "ready" =>
                 /\ pool.sdk >= 4 /\ (device.sdk_max > 0 => pool.sdk <= device.sdk_max)
                 /\ pool.queue >= 2
                 /\ (pool.sdk + pool.queue + 2) * device.payload_kb
                       <= options[c].max_buffer_memory_mb * 1024

(* A band gets a wavelength only in an image of the calibrated geometry. *)
AxisMatches ==
    phase = "init" /\ pc[Fx10Owner] = "ready" =>
       LET r == Rigs[rig]
           w == r.fx10.output.wavelengths
           axis == Fx10!Axis(w, r.files, r.geometry)
       IN  axis # Fx10!NoAxis =>
              /\ Len(axis.nm) = r.geometry.bands /\ Len(axis.fwhm) \in {0, Len(axis.nm)}
              /\ r.geometry.serial = w.calibration.device_serial
              /\ \A side \in {"samples", "bands", "offset_x", "offset_y"} :
                    r.geometry[side] = w.calibration[side]

(* The variables have their types; what the files' checks let through can be
   registered, fits the memory and has the right wavelengths; the last camera
   to shut down has ended the session and with it the pulses; and a camera that
   is clean had a session (Shutdown, SensorSyncHub::Disarm). *)
RigInv ==
    /\ TypeOK /\ AcceptedRegisters /\ PoolsFit /\ AxisMatches
    /\ SessionClosed /\ CleanCameraHadSession

(* No camera waits for ever for the others: once one is armed the session
   starts or is called off, even if another camera hangs in its start. *)
ArmedIsAnswered == \A c \in Owners : c \in armed ~> started \/ ended

(* The first camera to leave the session takes the others with it. *)
EndStopsEveryone ==
    \A c \in Owners : ended /\ pc[c] = "monitor" ~> pc[c] \in {"returned", "done"}

=============================================================================
