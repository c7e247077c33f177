--------------------------- MODULE SessionRunner ---------------------------
(***************************************************************************)
(* One run of the acquisition program: RunAcquisition of main.cpp and the  *)
(* session coordinator it hands the drivers to (Execute, Cleanup,          *)
(* CollectResults and RunSession of common/src/session_runner.cpp), the    *)
(* run manifest drivers.json (common/src/drivers_json.cpp) and the signal  *)
(* handler (common/src/signal_handler.cpp).                                *)
(*                                                                         *)
(* Processes that interleave: the coordinator (the main thread, program    *)
(* counter pc), one Run thread per driver, the worker threads a driver may *)
(* start in Init and joins in Shutdown (one abstract worker per driver),   *)
(* and the signal handler, whose two stores are two steps.                 *)
(*                                                                         *)
(* A driver is what IDriverApp promises: Init returns true, returns false  *)
(* or throws; Run returns or throws at any time and returns once its       *)
(* TerminateFlag is set; a worker may fail or ask for a stop at any time   *)
(* until Shutdown has joined it; Shutdown and FinalStatistics may fail.    *)
(* Verdicts of the disk guard and of the no-data watchdog are free inputs. *)
(***************************************************************************)
EXTENDS Integers

CONSTANTS
    N,           \* number of driver slots, in creation order 1..N
    HasControl   \* TRUE iff AMIGA_STATUS_FILE names a second copy of the manifest

ASSUME NAssumption == N \in Nat \ {0}
ASSUME HasControlAssumption == HasControl \in BOOLEAN

Drivers == 1 .. N

VARIABLES
    pc,           \* where the coordinator is
    mode,         \* "main" before RunSession, then the path RunSession takes
    exitCode,     \* what the process returns once pc = "done"
    initialized,  \* drivers whose Init returned true
    next,         \* index of the loop the coordinator is in
    published,    \* published[d]: the result of d is already in the manifest
    lifecycleOk,  \* no lifecycle write has failed
    first,        \* first_to_terminate, by who stopped the rig
    stopped,      \* Cleanup::stopped_
    sensors,      \* sensor_states, the coordinator's own copy
    gTerminate,   \* the process-wide terminate flag
    signal,       \* progress of the signal handler
    doc,          \* doc_, the manifest in memory
    disk,         \* raw/drivers.json
    control,      \* the copy at AMIGA_STATUS_FILE
    failed,       \* IDriverApp::failed_
    terminate,    \* IDriverApp::terminate_
    thread,       \* the Run thread of each driver
    worker,       \* the threads a driver owns between Init and Shutdown
    shut,         \* Shutdown has been called and has returned or thrown
    hubEnded,     \* the SensorSync hub was told that the session is over
    trouble       \* history: something other than a stop request happened

mainVars   == <<pc, mode, exitCode>>
coordVars  == <<initialized, next, published, lifecycleOk, first, stopped, sensors>>
fileVars   == <<doc, disk, control>>
driverVars == <<failed, terminate, thread, worker, shut>>
vars == <<mainVars, coordVars, gTerminate, signal, fileVars, driverVars,
          hubEnded, trouble>>

----------------------------------------------------------------------------
(* The values of the state.                                                *)

Phases == {"none", "initializing", "running", "stopping", "finished"}

FailedStatuses == {"failed configuration", "failed disk", "failed drivers",
                   "failed watchdog", "failed status", "failed coordinator"}
CleanStatuses  == {"completed", "interrupted"}
Statuses       == {"none", "running"} \cup CleanStatuses \cup FailedStatuses

SensorStates == {"none", "waiting", "running", "failed", "stopped"}
Results      == {"none", "ok", "failed", "duplicate"}

Documents == [phase: Phases, status: Statuses,
              sensors: [Drivers -> SensorStates], results: [Drivers -> Results]]

PCs == {"prepare", "stopLidars", "build", "writeRunning", "preflight",
        "publishInit", "initCheck", "init", "publishReady", "spawn",
        "publishRunning", "poll", "disk", "watch", "publishStopping",
        "raise", "terminateAll", "join", "shutdown", "disarm", "publishStopped",
        "disarmMain", "results", "publishResults", "finalize", "report", "done"}

(* Where Execute calls code that may throw outside any handler of its own. *)
ThrowPoints == {"publishInit", "publishReady", "spawn", "watch",
                "publishStopping", "publishStopped", "disarmMain", "results",
                "publishResults", "report"}

CoordinatorTypeOK ==
    /\ mode \in {"main", "execute", "catch", "preflight"}
    /\ exitCode \in {0, 1}
    /\ initialized \in 0 .. N
    /\ next \in 0 .. N
    /\ published \in [Drivers -> BOOLEAN]
    /\ lifecycleOk \in BOOLEAN
    /\ first \in {"", "driver", "disk", "watchdog"}
    /\ stopped \in BOOLEAN
    /\ sensors \in [Drivers -> SensorStates]

ManifestTypeOK == doc \in Documents /\ disk \in Documents /\ control \in Documents

DriverTypeOK ==
    /\ failed \in [Drivers -> BOOLEAN]
    /\ terminate \in [Drivers -> BOOLEAN]
    /\ thread \in [Drivers -> {"none", "running", "returned", "exited"}]
    /\ worker \in [Drivers -> {"none", "active", "failing"}]
    /\ shut \in [Drivers -> BOOLEAN]

FlagTypeOK ==
    /\ gTerminate \in BOOLEAN
    /\ signal \in {"none", "raised", "stored"}
    /\ hubEnded \in BOOLEAN
    /\ trouble \in BOOLEAN

TypeOK ==
    /\ pc \in PCs
    /\ CoordinatorTypeOK
    /\ ManifestTypeOK
    /\ DriverTypeOK
    /\ FlagTypeOK

NoDocument == [phase |-> "none", status |-> "none",
               sensors |-> [d \in Drivers |-> "none"],
               results |-> [d \in Drivers |-> "none"]]

Init ==
    /\ pc = "prepare" /\ mode = "main" /\ exitCode = 0
    /\ initialized = 0 /\ next = 0
    /\ published = [d \in Drivers |-> FALSE]
    /\ lifecycleOk = TRUE /\ first = "" /\ stopped = FALSE
    /\ sensors = [d \in Drivers |-> "waiting"]
    /\ gTerminate = FALSE /\ signal = "none"
    /\ doc = [NoDocument EXCEPT !.phase = "initializing", !.status = "running"]
    /\ disk = NoDocument /\ control = NoDocument
    /\ failed = [d \in Drivers |-> FALSE]
    /\ terminate = [d \in Drivers |-> FALSE]
    /\ thread = [d \in Drivers |-> "none"]
    /\ worker = [d \in Drivers |-> "none"]
    /\ shut = [d \in Drivers |-> FALSE]
    /\ hubEnded = FALSE
    /\ trouble = FALSE

----------------------------------------------------------------------------
(* drivers.json.                                                           *)

(* DriversJson::Write_ of document d: the canonical file is replaced       *)
(* atomically, then the control copy.  Each replacement can fail before    *)
(* its rename or after it (the directory sync), so a failed write may have *)
(* replaced neither file, the first or both.                               *)
Write(d, ok) ==
    /\ doc' = d
    /\ \/ ok /\ disk' = d /\ control' = (IF HasControl THEN d ELSE control)
       \/ ~ok /\ UNCHANGED <<disk, control>>
       \/ ~ok /\ disk' = d /\ UNCHANGED control
       \/ ~ok /\ HasControl /\ disk' = d /\ control' = d

(* publish_lifecycle with sensor states s: failed drivers are marked, the  *)
(* phase is written and a failed write stops the rig.                      *)
PublishLifecycle(phase, s) ==
    /\ sensors' = [d \in Drivers |-> IF failed[d] THEN "failed" ELSE s[d]]
    /\ \E ok \in BOOLEAN :
          /\ Write([doc EXCEPT !.phase = phase, !.sensors = sensors'], ok)
          /\ lifecycleOk' = (lifecycleOk /\ ok)
          /\ gTerminate' = (gTerminate \/ ~ok)
          /\ trouble' = (trouble \/ ~ok)

(* DriversJson::Finalize.                                                  *)
Finalize(status, ok) == Write([doc EXCEPT !.phase = "finished", !.status = status], ok)

----------------------------------------------------------------------------
(* RunAcquisition of main.cpp, up to the call of RunSession.               *)

unchangedByMain == <<coordVars, gTerminate, signal, driverVars, hubEnded>>

(* Every early exit finalizes the manifest; only the signal path may       *)
(* return 0, and only if that write succeeded.                             *)
FinishBeforeInit(status) ==
    /\ pc' = "done"
    /\ \E ok \in BOOLEAN :
          /\ Finalize(status, ok)
          /\ exitCode' = IF ok /\ status = "interrupted" THEN 0 ELSE 1
          /\ trouble' = (trouble \/ exitCode' = 1)
    /\ UNCHANGED mode

(* The main configuration is copied and the LiDAR configuration loaded.    *)
PrepareConfiguration ==
    /\ pc = "prepare"
    /\ pc' = "stopLidars"
    /\ UNCHANGED <<mode, exitCode, fileVars, trouble, unchangedByMain>>

(* The copy or the parse fails, before the LiDARs or while building slots. *)
ConfigurationFails ==
    /\ pc \in {"prepare", "build"}
    /\ FinishBeforeInit("failed configuration")
    /\ UNCHANGED unchangedByMain

(* StopConfiguredLidars, then the first look at the terminate flag.        *)
StopConfiguredLidars ==
    /\ pc = "stopLidars"
    /\ IF gTerminate
       THEN FinishBeforeInit("interrupted")
       ELSE pc' = "build" /\ UNCHANGED <<mode, exitCode, fileVars, trouble>>
    /\ UNCHANGED unchangedByMain

(* The driver slots are created in their fixed order.                      *)
BuildDrivers ==
    /\ pc = "build"
    /\ pc' = "writeRunning"
    /\ UNCHANGED <<mode, exitCode, fileVars, trouble, unchangedByMain>>

(* WriteRunning; a failure returns 1 at once.                              *)
WriteRunning ==
    /\ pc = "writeRunning"
    /\ \E ok \in BOOLEAN :
          /\ Write([doc EXCEPT !.status = "running"], ok)
          /\ trouble' = (trouble \/ ~ok)
          /\ IF ok THEN pc' = "preflight" /\ mode' = "execute" /\ UNCHANGED exitCode
                   ELSE pc' = "done" /\ exitCode' = 1 /\ UNCHANGED mode
    /\ UNCHANGED unchangedByMain

----------------------------------------------------------------------------
(* Execute: bring-up.                                                      *)

(* external_stop: what Init polls, and what the coordinator checks.        *)
ExternalStop == gTerminate \/ \E d \in Drivers : failed[d]

(* IDriverApp::RequestFailure, where one thread makes both stores with     *)
(* nothing of interest in between (the coordinator).                       *)
RequestFailure(d) ==
    /\ failed' = [failed EXCEPT ![d] = TRUE]
    /\ terminate' = [terminate EXCEPT ![d] = TRUE]
    /\ trouble' = TRUE

(* The disk guard before bring-up: a stop finalizes the run at once; the   *)
(* destructor of Cleanup still shuts every driver down.                    *)
Preflight ==
    /\ pc = "preflight"
    /\ \/ pc' = "publishInit" /\ UNCHANGED <<mode, exitCode, fileVars, trouble>>
       \/ /\ pc' = "terminateAll" /\ mode' = "preflight" /\ exitCode' = 1
          /\ trouble' = TRUE
          /\ \E ok \in BOOLEAN : Finalize("failed disk", ok)
    /\ UNCHANGED <<coordVars, gTerminate, signal, driverVars, hubEnded>>

(* A coordinator step that only publishes the lifecycle and moves on.      *)
Publish(from, to, phase, s) ==
    /\ pc = from
    /\ pc' = to
    /\ PublishLifecycle(phase, s)
    /\ UNCHANGED <<mode, exitCode, initialized, next, published, first, stopped,
                   signal, driverVars, hubEnded>>

PublishInitializing == Publish("publishInit", "initCheck", "initializing", sensors)

(* Head of the Init loop: stop, or call Init of the next driver.  Init may *)
(* start workers before it returns.                                        *)
InitCheck ==
    /\ pc = "initCheck"
    /\ IF initialized < N /\ ~ExternalStop
       THEN /\ pc' = "init"
            /\ worker' = [worker EXCEPT ![initialized + 1] = "active"]
            /\ UNCHANGED gTerminate
       ELSE /\ pc' = "spawn"
            /\ gTerminate' = (gTerminate \/ initialized < N)
            /\ UNCHANGED worker
    /\ UNCHANGED <<mode, exitCode, coordVars, signal, fileVars, failed, terminate,
                   thread, shut, hubEnded, trouble>>

(* Init returns true.                                                      *)
InitReady ==
    /\ pc = "init"
    /\ pc' = "publishReady"
    /\ initialized' = initialized + 1
    /\ sensors' = [sensors EXCEPT ![initialized + 1] = "running"]
    /\ UNCHANGED <<mode, exitCode, next, published, lifecycleOk, first, stopped,
                   gTerminate, signal, fileVars, driverVars, hubEnded, trouble>>

(* Mutant: a bring-up that was interrupted is charged to the driver.       *)
InitFalseAlwaysFails(fault) ==
    /\ pc = "init"
    /\ fault \/ ExternalStop
    /\ pc' = "spawn"
    /\ gTerminate' = TRUE
    /\ failed' = [failed EXCEPT ![initialized + 1] = TRUE]
    /\ terminate' = [terminate EXCEPT ![initialized + 1] = TRUE]
    /\ trouble' = (trouble \/ fault)
    /\ UNCHANGED <<mode, exitCode, coordVars, signal, fileVars, thread, worker,
                   shut, hubEnded>>

(* Init returns false because it saw the stop predicate, or on a fault of  *)
(* its own; only a fault without a stop request is charged to the driver.  *)
InitFalse(fault) ==
    /\ pc = "init"
    /\ fault \/ ExternalStop
    /\ pc' = "spawn"
    /\ gTerminate' = TRUE
    /\ IF ExternalStop
       THEN UNCHANGED <<failed, terminate>> /\ trouble' = (trouble \/ fault)
       ELSE RequestFailure(initialized + 1)
    /\ UNCHANGED <<mode, exitCode, coordVars, signal, fileVars, thread, worker,
                   shut, hubEnded>>

(* Init throws: the driver has failed, which is an external stop.          *)
InitThrows ==
    /\ pc = "init"
    /\ pc' = "spawn"
    /\ RequestFailure(initialized + 1)
    /\ gTerminate' = TRUE
    /\ UNCHANGED <<mode, exitCode, coordVars, signal, fileVars, thread, worker,
                   shut, hubEnded>>

PublishReady == Publish("publishReady", "initCheck", "initializing", sensors)

(* One Run thread per initialized driver, until a stop is requested.       *)
SpawnThread ==
    /\ pc = "spawn"
    /\ ~gTerminate /\ next < initialized
    /\ next' = next + 1
    /\ thread' = [thread EXCEPT ![next + 1] = "running"]
    /\ UNCHANGED <<mainVars, initialized, published, lifecycleOk, first, stopped,
                   sensors, gTerminate, signal, fileVars, failed, terminate, worker,
                   shut, hubEnded, trouble>>

(* std::thread could not be created.                                       *)
SpawnFails ==
    /\ pc = "spawn"
    /\ ~gTerminate /\ next < initialized
    /\ pc' = "publishRunning"
    /\ RequestFailure(next + 1)
    /\ gTerminate' = TRUE
    /\ UNCHANGED <<mode, exitCode, coordVars, signal, fileVars, thread, worker,
                   shut, hubEnded>>

SpawnDone ==
    /\ pc = "spawn"
    /\ gTerminate \/ next = initialized
    /\ pc' = "publishRunning"
    /\ UNCHANGED <<mode, exitCode, coordVars, gTerminate, signal, fileVars,
                   driverVars, hubEnded, trouble>>

PublishRunning ==
    \/ ~gTerminate /\ Publish("publishRunning", "poll", "running", sensors)
    \/ /\ gTerminate /\ pc = "publishRunning" /\ pc' = "poll"
       /\ UNCHANGED <<mode, exitCode, coordVars, gTerminate, signal, fileVars,
                      driverVars, hubEnded, trouble>>

----------------------------------------------------------------------------
(* Execute: the monitor loop.                                              *)

(* A step of the loop that leaves it (or goes on) and changes no driver.   *)
Monitor(from, to, who) ==
    /\ pc = from
    /\ pc' = to
    /\ first' = who
    /\ UNCHANGED <<mode, exitCode, initialized, next, published, lifecycleOk,
                   stopped, sensors, gTerminate, signal, fileVars, hubEnded>>

(* Mutant: only the first driver's flag is looked at.                      *)
PollFirstDriverOnly ==
    /\ IF gTerminate THEN Monitor("poll", "publishStopping", first)
       ELSE IF terminate[1] THEN Monitor("poll", "publishStopping", "driver")
            ELSE Monitor("poll", "disk", first)
    /\ UNCHANGED <<driverVars, trouble>>

(* Loop head: the process-wide flag, then the flags of the drivers.        *)
Poll ==
    /\ IF gTerminate THEN Monitor("poll", "publishStopping", first)
       ELSE IF \E d \in Drivers : terminate[d]
            THEN Monitor("poll", "publishStopping", "driver")
            ELSE Monitor("poll", "disk", first)
    /\ UNCHANGED <<driverVars, trouble>>

(* The disk guard: fine or a warning, or below the hard floor.             *)
CheckDisk ==
    /\ \/ Monitor("disk", "watch", first) /\ UNCHANGED trouble
       \/ Monitor("disk", "publishStopping", "disk") /\ trouble' = TRUE
    /\ UNCHANGED driverVars

(* The no-data watchdog over the initialized drivers.                      *)
CheckSensors ==
    \/ Monitor("watch", "poll", first) /\ UNCHANGED <<driverVars, trouble>>
    \/ \E d \in 1 .. initialized :
          /\ Monitor("watch", "publishStopping", "watchdog")
          /\ RequestFailure(d)
          /\ UNCHANGED <<thread, worker, shut>>

PublishStopping == Publish("publishStopping", "raise", "stopping", sensors)

----------------------------------------------------------------------------
(* Cleanup::Stop, reached from Execute, from the catch of RunSession and   *)
(* from the destructor after a failed pre-flight.                          *)

(* Execute raises every TerminateFlag before it calls Stop.                *)
RaiseTerminate ==
    /\ pc = "raise"
    /\ pc' = "terminateAll"
    /\ terminate' = [d \in Drivers |-> TRUE]
    /\ UNCHANGED <<mode, exitCode, coordVars, gTerminate, signal, fileVars, failed,
                   thread, worker, shut, hubEnded, trouble>>

TerminateAll ==
    /\ pc = "terminateAll"
    /\ pc' = "join"
    /\ stopped' = TRUE
    /\ terminate' = [d \in Drivers |-> TRUE]
    /\ UNCHANGED <<mode, exitCode, initialized, next, published, lifecycleOk, first,
                   sensors, gTerminate, signal, fileVars, failed, thread, worker,
                   shut, hubEnded, trouble>>

(* Mutant: the first thread is joined, the others are forgotten.           *)
JoinFirstOnly ==
    /\ pc = "join"
    /\ thread[1] \in {"none", "exited"}
    /\ pc' = "shutdown"
    /\ next' = N
    /\ UNCHANGED <<mode, exitCode, initialized, published, lifecycleOk, first,
                   stopped, sensors, gTerminate, signal, fileVars, driverVars,
                   hubEnded, trouble>>

(* Joining the threads one after the other blocks until the last exits.    *)
Join ==
    /\ pc = "join"
    /\ \A d \in Drivers : thread[d] \in {"none", "exited"}
    /\ pc' = "shutdown"
    /\ next' = N
    /\ UNCHANGED <<mode, exitCode, initialized, published, lifecycleOk, first,
                   stopped, sensors, gTerminate, signal, fileVars, driverVars,
                   hubEnded, trouble>>

(* Shutdown of driver next, in reverse order: it joins the workers of the  *)
(* driver; it may find or cause a failure, or throw, which is recorded.    *)
Shutdown ==
    /\ pc = "shutdown"
    /\ next > 0
    /\ worker[next] # "failing"
    /\ worker' = [worker EXCEPT ![next] = "none"]
    /\ shut' = [shut EXCEPT ![next] = TRUE]
    /\ next' = next - 1
    /\ \/ UNCHANGED <<failed, terminate, trouble>>
       \/ RequestFailure(next)
    /\ UNCHANGED <<mainVars, initialized, published, lifecycleOk, first, stopped,
                   sensors, gTerminate, signal, fileVars, thread, hubEnded>>

ShutdownDone ==
    /\ pc = "shutdown"
    /\ next = 0
    /\ pc' = "disarm"
    /\ UNCHANGED <<mode, exitCode, coordVars, gTerminate, signal, fileVars,
                   driverVars, hubEnded, trouble>>

(* hub.Disarm("session") ends Stop; what follows depends on the caller.    *)
DisarmSession ==
    /\ pc = "disarm"
    /\ hubEnded' = TRUE
    /\ pc' = CASE mode = "execute" -> "publishStopped"
               [] mode = "catch" -> "results"
               [] OTHER -> "done"
    /\ UNCHANGED <<mode, exitCode, coordVars, gTerminate, signal, fileVars,
                   driverVars, trouble>>

----------------------------------------------------------------------------
(* Execute: results and classification, and RunSession's handler.          *)

PublishStopped ==
    Publish("publishStopped", "disarmMain", "stopping", [d \in Drivers |-> "stopped"])

(* hub.Disarm("main"), a second time: the session has already ended.       *)
DisarmMain ==
    /\ pc = "disarmMain"
    /\ pc' = "results"
    /\ next' = 0
    /\ hubEnded' = TRUE
    /\ UNCHANGED <<mode, exitCode, initialized, published, lifecycleOk, first,
                   stopped, sensors, gTerminate, signal, fileVars, driverVars,
                   trouble>>

(* DriversJson::AddDriverResult appends to an array in memory.             *)
AddDriverResult(d, hasFailed) ==
    doc' = [doc EXCEPT !.results[d] =
              IF @ # "none" THEN "duplicate" ELSE IF hasFailed THEN "failed" ELSE "ok"]

(* One driver of CollectResults.  FinalStatistics may throw, which fails   *)
(* the driver before its result is appended; a published one is skipped.   *)
CollectResult ==
    /\ pc = "results"
    /\ next < N
    /\ next' = next + 1
    /\ LET d == next + 1 IN
         \/ published[d] /\ UNCHANGED <<doc, published, failed, terminate, trouble>>
         \/ /\ ~published[d]
            /\ published' = [published EXCEPT ![d] = TRUE]
            /\ \/ /\ AddDriverResult(d, failed[d])
                  /\ UNCHANGED <<failed, terminate, trouble>>
               \/ AddDriverResult(d, TRUE) /\ RequestFailure(d)
    /\ UNCHANGED <<mainVars, initialized, lifecycleOk, first, stopped, sensors,
                   gTerminate, signal, disk, control, thread, worker, shut, hubEnded>>

CollectDone ==
    /\ pc = "results"
    /\ next = N
    /\ pc' = IF mode = "execute" THEN "publishResults" ELSE "finalize"
    /\ UNCHANGED <<mode, exitCode, coordVars, gTerminate, signal, fileVars,
                   driverVars, hubEnded, trouble>>

(* Mutant: no publication after the results were collected.                *)
PublishResultsSkipped ==
    /\ pc = "publishResults"
    /\ pc' = "finalize"
    /\ UNCHANGED <<mode, exitCode, coordVars, gTerminate, signal, fileVars,
                   driverVars, hubEnded, trouble>>

PublishResults == Publish("publishResults", "finalize", "stopping", sensors)

(* Mutant: the operator's signal is looked at before the failures.         *)
OutcomeSignalFirst ==
    IF mode = "catch" THEN "failed coordinator"
    ELSE IF signal = "stored" THEN "interrupted"
    ELSE IF ~lifecycleOk THEN "failed status"
    ELSE IF \E d \in Drivers : failed[d] THEN "failed drivers"
    ELSE IF first = "disk" THEN "failed disk"
    ELSE IF first = "watchdog" THEN "failed watchdog"
    ELSE "completed"

(* The outcome of the run, most severe first.                              *)
Outcome ==
    IF mode = "catch" THEN "failed coordinator"
    ELSE IF ~lifecycleOk THEN "failed status"
    ELSE IF \E d \in Drivers : failed[d] THEN "failed drivers"
    ELSE IF first = "disk" THEN "failed disk"
    ELSE IF first = "watchdog" THEN "failed watchdog"
    ELSE IF signal = "stored" THEN "interrupted"
    ELSE "completed"

(* Mutant: the result of the last write is ignored.                        *)
FinalizeRunIgnoringWrite ==
    /\ pc = "finalize"
    /\ pc' = IF mode = "catch" THEN "done" ELSE "report"
    /\ \E ok \in BOOLEAN :
          /\ Finalize(Outcome, ok)
          /\ exitCode' = IF Outcome \in CleanStatuses THEN 0 ELSE 1
          /\ trouble' = (trouble \/ ~ok)
    /\ UNCHANGED <<mode, coordVars, gTerminate, signal, driverVars, hubEnded>>

FinalizeRun ==
    /\ pc = "finalize"
    /\ pc' = IF mode = "catch" THEN "done" ELSE "report"
    /\ \E ok \in BOOLEAN :
          /\ Finalize(Outcome, ok)
          /\ exitCode' = IF Outcome \in CleanStatuses /\ ok THEN 0 ELSE 1
          /\ trouble' = (trouble \/ ~ok)
    /\ UNCHANGED <<mode, coordVars, gTerminate, signal, driverVars, hubEnded>>

(* The closing log lines of Execute.                                       *)
Report ==
    /\ pc = "report"
    /\ pc' = "done"
    /\ UNCHANGED <<mode, exitCode, coordVars, gTerminate, signal, fileVars,
                   driverVars, hubEnded, trouble>>

(* An exception leaves Execute: RunSession runs Cleanup::Stop unless that  *)
(* is done, collects the missing results and finalizes as failed.          *)
ExecuteThrows ==
    /\ mode = "execute"
    /\ pc \in ThrowPoints
    /\ mode' = "catch"
    /\ pc' = IF stopped THEN "results" ELSE "terminateAll"
    /\ next' = 0
    /\ trouble' = TRUE
    /\ UNCHANGED <<exitCode, initialized, published, lifecycleOk, first, stopped,
                   sensors, gTerminate, signal, fileVars, driverVars, hubEnded>>

(* The second CollectResults throws as well; its exception is swallowed.   *)
CollectThrows ==
    /\ mode = "catch"
    /\ pc = "results"
    /\ pc' = "finalize"
    /\ UNCHANGED <<mode, exitCode, coordVars, gTerminate, signal, fileVars,
                   driverVars, hubEnded, trouble>>

----------------------------------------------------------------------------
(* The signal handler: two stores, on whatever thread it runs.             *)

unchangedBySignal == <<mainVars, coordVars, fileVars, driverVars, hubEnded, trouble>>

SignalRaised ==
    /\ signal = "none" /\ pc # "done"
    /\ signal' = "raised"
    /\ gTerminate' = TRUE
    /\ UNCHANGED unchangedBySignal

SignalStored ==
    /\ signal = "raised"
    /\ signal' = "stored"
    /\ UNCHANGED <<gTerminate, unchangedBySignal>>

----------------------------------------------------------------------------
(* The drivers.                                                            *)

unchangedByDriver == <<mainVars, coordVars, gTerminate, signal, fileVars, shut,
                       hubEnded>>

(* Run returns, as it must once the TerminateFlag is set.                  *)
RunReturns(d) ==
    /\ thread[d] = "running"
    /\ thread' = [thread EXCEPT ![d] = "returned"]
    /\ UNCHANGED <<failed, terminate, worker, trouble, unchangedByDriver>>

(* Run throws: the thread body stores failed_, then terminate_.            *)
RunThrows(d) ==
    /\ thread[d] = "running"
    /\ thread' = [thread EXCEPT ![d] = "returned"]
    /\ failed' = [failed EXCEPT ![d] = TRUE]
    /\ trouble' = TRUE
    /\ UNCHANGED <<terminate, worker, unchangedByDriver>>

(* The end of the thread body raises the TerminateFlag.                    *)
ThreadExits(d) ==
    /\ thread[d] = "returned"
    /\ thread' = [thread EXCEPT ![d] = "exited"]
    /\ terminate' = [terminate EXCEPT ![d] = TRUE]
    /\ UNCHANGED <<failed, worker, trouble, unchangedByDriver>>

(* A worker calls RequestFailure: MarkFailed, then terminate_.             *)
WorkerMarksFailed(d) ==
    /\ worker[d] = "active" /\ ~failed[d]
    /\ worker' = [worker EXCEPT ![d] = "failing"]
    /\ failed' = [failed EXCEPT ![d] = TRUE]
    /\ trouble' = TRUE
    /\ UNCHANGED <<terminate, thread, unchangedByDriver>>

WorkerTerminates(d) ==
    /\ worker[d] = "failing"
    /\ worker' = [worker EXCEPT ![d] = "active"]
    /\ terminate' = [terminate EXCEPT ![d] = TRUE]
    /\ UNCHANGED <<failed, thread, trouble, unchangedByDriver>>

(* A worker ends the recording without a failure (a frame limit).          *)
WorkerRequestsStop(d) ==
    /\ worker[d] = "active" /\ ~terminate[d]
    /\ terminate' = [terminate EXCEPT ![d] = TRUE]
    /\ UNCHANGED <<failed, thread, worker, trouble, unchangedByDriver>>

----------------------------------------------------------------------------
Coordinator ==
    \/ PrepareConfiguration \/ ConfigurationFails \/ StopConfiguredLidars
    \/ BuildDrivers \/ WriteRunning
    \/ Preflight \/ PublishInitializing \/ InitCheck \/ InitReady
    \/ (\E fault \in BOOLEAN : InitFalse(fault)) \/ InitThrows \/ PublishReady
    \/ SpawnThread \/ SpawnFails \/ SpawnDone \/ PublishRunning
    \/ Poll \/ CheckDisk \/ CheckSensors \/ PublishStopping
    \/ RaiseTerminate \/ TerminateAll \/ Join \/ Shutdown \/ ShutdownDone
    \/ DisarmSession \/ PublishStopped \/ DisarmMain
    \/ CollectResult \/ CollectDone \/ PublishResults \/ FinalizeRun \/ Report
    \/ ExecuteThrows \/ CollectThrows

Signal == SignalRaised \/ SignalStored

Driver(d) ==
    \/ RunReturns(d) \/ RunThrows(d) \/ ThreadExits(d)
    \/ WorkerMarksFailed(d) \/ WorkerTerminates(d) \/ WorkerRequestsStop(d)

(* The process has exited.                                                 *)
Exited == pc = "done" /\ UNCHANGED vars

Next == Coordinator \/ Signal \/ (\E d \in Drivers : Driver(d)) \/ Exited

(* The coordinator runs (its blocking calls return: IDriverApp asks that   *)
(* Init polls the stop predicate and that Shutdown ends); a Run thread     *)
(* whose TerminateFlag is set returns and exits; a thread that has begun   *)
(* RequestFailure or the signal handler finishes it.                       *)
Fairness ==
    /\ WF_vars(Coordinator)
    /\ WF_vars(SignalStored)
    /\ \A d \in Drivers :
          /\ WF_vars(terminate[d] /\ RunReturns(d))
          /\ WF_vars(ThreadExits(d))
          /\ WF_vars(WorkerTerminates(d))

Spec == Init /\ [][Next]_vars /\ Fairness

----------------------------------------------------------------------------
(* Properties.                                                             *)

Clean(d) == failed[d] = FALSE /\ shut[d] /\ thread[d] \in {"none", "exited"}

(* A process that entered RunSession and exits 0 leaves nothing behind: no *)
(* driver failed, every Run thread was joined and every driver was shut    *)
(* down, the SensorSync session is over, and both copies of the manifest   *)
(* on disk say so, with one good result per driver (the exit code computed *)
(* at the end of Execute, session_runner.cpp).                             *)
SuccessIsClean ==
    (pc = "done" /\ exitCode = 0 /\ mode # "main") =>
        /\ mode = "execute" /\ hubEnded
        /\ \A d \in Drivers : Clean(d)
        /\ disk.phase = "finished" /\ disk.status \in CleanStatuses
        /\ disk.sensors = [d \in Drivers |-> "stopped"]
        /\ disk.results = [d \in Drivers |-> "ok"]
        /\ HasControl => control = disk

(* No copy of the manifest that a reader may ever find, whatever writes    *)
(* failed or were half done, calls a run completed or interrupted while a  *)
(* driver has failed or is still open (README: a reported failure is a     *)
(* failed run).                                                            *)
ManifestNeverOverclaims ==
    \A file \in {disk, control} :
        file.status \in CleanStatuses =>
            /\ file.phase = "finished"
            /\ mode # "main" => \A d \in Drivers : Clean(d) /\ file.results[d] = "ok"

(* Teardown: a driver is shut down only when no Run thread is alive and    *)
(* every driver created after it is shut down (Cleanup::Stop, and the      *)
(* contract of IDriverApp::Shutdown).                                      *)
TeardownIsOrdered ==
    \A d \in Drivers : shut[d] =>
        /\ \A e \in Drivers : thread[e] \in {"none", "exited"}
        /\ \A e \in Drivers : e > d => shut[e]

(* On every way out of RunSession, the pre-flight and the exception path   *)
(* included, all drivers are shut down and the trigger session has ended.  *)
ExitReleasesEverything ==
    (pc = "done" /\ mode # "main") => hubEnded /\ \A d \in Drivers : shut[d] /\ worker[d] = "none"

(* Each driver has one result in the manifest, never two, and a result     *)
(* agrees with the final verdict on its driver although Execute may be cut *)
(* short while it collects them (CollectResults is called again).          *)
ResultsAreFinal ==
    \A d \in Drivers :
        /\ doc.results[d] # "duplicate"
        /\ doc.results[d] # "none" => (doc.results[d] = "failed") = failed[d]

(* A finished manifest written by Execute shows the same failures in the   *)
(* lifecycle section as in the results, so that the two views of the       *)
(* control panel cannot disagree.                                          *)
SensorStatesAgree ==
    (doc.phase = "finished" /\ mode = "execute") =>
        \A d \in Drivers : /\ doc.sensors[d] = "failed" <=> failed[d]
                            /\ doc.sensors[d] \in {"failed", "stopped"}

(* A run on which nothing but stop requests happened (a signal, a driver   *)
(* that is done) is a success, also when the signal arrives during         *)
(* bring-up and Init returns false because of it.                          *)
StopIsNotFailure == (pc = "done" /\ ~trouble) => exitCode = 0

(* Every stop request is served: a signal, a failed manifest write, a      *)
(* failed driver or one that raised its TerminateFlag brings the whole     *)
(* process down, through every join and Shutdown.                          *)
StopIsServed ==
    (gTerminate \/ \E d \in Drivers : failed[d] \/ terminate[d]) ~> (pc = "done")

(* "Run-level summary at the data folder root; finalized on every exit     *)
(* path below" (main.cpp): the process never exits without having          *)
(* finalized the manifest.                                                 *)
FinalizedOnEveryExit == (pc = "done") => doc.phase = "finished"
=============================================================================
