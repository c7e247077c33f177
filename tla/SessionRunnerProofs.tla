------------------------- MODULE SessionRunnerProofs -------------------------
(***************************************************************************)
(* Proofs about SessionRunner for every number of drivers, with or without *)
(* a control copy of the manifest.  The type invariant is proved part by   *)
(* part; each part has a frame lemma that lists the actions which may      *)
(* change its variables.                                                   *)
(***************************************************************************)
EXTENDS SessionRunner, TLAPS

USE NAssumption, HasControlAssumption

----------------------------------------------------------------------------
(* Frame lemmas: which steps leave a group of variables alone.             *)

(* Only these steps touch the drivers: Init and thread creation, a failure *)
(* charged by the coordinator, teardown, results and the drivers' threads. *)
DriverStep ==
    \/ InitCheck \/ (\E fault \in BOOLEAN : InitFalse(fault)) \/ InitThrows
    \/ SpawnThread \/ SpawnFails \/ CheckSensors
    \/ RaiseTerminate \/ TerminateAll \/ Shutdown \/ CollectResult
    \/ \E d \in Drivers : Driver(d)

LEMMA DriverFrame == [Next]_vars => DriverStep \/ UNCHANGED driverVars
BY DEF DriverStep, Next, Coordinator, Signal, SignalRaised, SignalStored, Exited, vars,
   PrepareConfiguration, ConfigurationFails, StopConfiguredLidars, BuildDrivers, WriteRunning,
   Preflight, PublishInitializing, InitReady, PublishReady, SpawnDone, PublishRunning,
   Publish, Poll, CheckDisk, Monitor, PublishStopping, Join, ShutdownDone, DisarmSession,
   PublishStopped, DisarmMain, CollectDone, PublishResults, FinalizeRun, Report,
   ExecuteThrows, CollectThrows, unchangedByMain, unchangedBySignal

(* Only these steps touch the loop state of the coordinator.               *)
LoopStep ==
    \/ PublishInitializing \/ InitReady \/ PublishReady \/ SpawnThread
    \/ PublishRunning \/ Poll \/ CheckDisk \/ CheckSensors \/ PublishStopping
    \/ TerminateAll \/ Join \/ Shutdown \/ PublishStopped \/ DisarmMain
    \/ CollectResult \/ PublishResults \/ ExecuteThrows

LEMMA LoopFrame == [Next]_vars => LoopStep \/ UNCHANGED coordVars
BY DEF LoopStep, Next, Coordinator, Signal, SignalRaised, SignalStored, Exited, vars,
   PrepareConfiguration, ConfigurationFails, StopConfiguredLidars, BuildDrivers, WriteRunning,
   Preflight, InitCheck, InitFalse, InitThrows, SpawnFails, SpawnDone, RaiseTerminate,
   ShutdownDone, DisarmSession, CollectDone, FinalizeRun, Report, CollectThrows,
   Driver, RunReturns, RunThrows, ThreadExits, WorkerMarksFailed, WorkerTerminates,
   WorkerRequestsStop, unchangedByMain, unchangedBySignal, unchangedByDriver

(* Only these steps touch the manifest, in memory or on disk.              *)
ManifestStep ==
    \/ ConfigurationFails \/ StopConfiguredLidars \/ WriteRunning \/ Preflight
    \/ PublishInitializing \/ PublishReady \/ PublishRunning \/ PublishStopping
    \/ PublishStopped \/ CollectResult \/ PublishResults \/ FinalizeRun

LEMMA ManifestFrame == [Next]_vars => ManifestStep \/ UNCHANGED fileVars
BY DEF ManifestStep, Next, Coordinator, Signal, SignalRaised, SignalStored, Exited, vars,
   PrepareConfiguration, BuildDrivers, InitCheck, InitReady, InitFalse, InitThrows,
   SpawnThread, SpawnFails, SpawnDone, Poll, CheckDisk, CheckSensors, Monitor,
   RaiseTerminate, TerminateAll, Join, Shutdown, ShutdownDone, DisarmSession, DisarmMain,
   CollectDone, Report, ExecuteThrows, CollectThrows, Driver, RunReturns, RunThrows,
   ThreadExits, WorkerMarksFailed, WorkerTerminates, WorkerRequestsStop,
   unchangedBySignal, unchangedByDriver

----------------------------------------------------------------------------
(* Type correctness.                                                       *)

LEMMA PcTyped == pc \in PCs /\ [Next]_vars => pc' \in PCs
BY ZenonT(90) DEF Next, vars, mainVars, PCs, Coordinator, Signal, SignalRaised, SignalStored, Exited,
   PrepareConfiguration, ConfigurationFails, StopConfiguredLidars, BuildDrivers, WriteRunning,
   FinishBeforeInit, Preflight, PublishInitializing, InitCheck, InitReady, InitFalse,
   InitThrows, PublishReady, Publish, SpawnThread, SpawnFails, SpawnDone, PublishRunning,
   Poll, CheckDisk, CheckSensors, Monitor, PublishStopping, RaiseTerminate, TerminateAll,
   Join, Shutdown, ShutdownDone, DisarmSession, PublishStopped, DisarmMain, CollectResult,
   CollectDone, PublishResults, FinalizeRun, Report, ExecuteThrows, CollectThrows,
   Driver, RunReturns, RunThrows, ThreadExits, WorkerMarksFailed, WorkerTerminates,
   WorkerRequestsStop, unchangedBySignal, unchangedByDriver

LEMMA DriverTyped == CoordinatorTypeOK /\ DriverTypeOK /\ [Next]_vars => DriverTypeOK'
<1>. SUFFICES ASSUME CoordinatorTypeOK, DriverTypeOK, [Next]_vars PROVE DriverTypeOK'
  OBVIOUS
<1>1. CASE UNCHANGED driverVars
  BY <1>1 DEF DriverTypeOK, driverVars
<1>2. CASE InitCheck
  BY <1>2 DEF InitCheck, DriverTypeOK
<1>3. CASE \E fault \in BOOLEAN : InitFalse(fault)
  BY <1>3 DEF InitFalse, RequestFailure, DriverTypeOK
<1>4. CASE InitThrows \/ SpawnThread \/ SpawnFails
  BY <1>4 DEF InitThrows, SpawnThread, SpawnFails, RequestFailure, DriverTypeOK
<1>5. CASE CheckSensors
  BY <1>5 DEF CheckSensors, RequestFailure, driverVars, DriverTypeOK
<1>6. CASE RaiseTerminate \/ TerminateAll
  BY <1>6 DEF RaiseTerminate, TerminateAll, DriverTypeOK
<1>7. CASE Shutdown
  BY <1>7 DEF Shutdown, RequestFailure, DriverTypeOK
<1>8. CASE CollectResult
  BY <1>8 DEF CollectResult, RequestFailure, DriverTypeOK
<1>9. ASSUME NEW d \in Drivers, Driver(d) PROVE DriverTypeOK'
  BY <1>9 DEF Driver, RunReturns, RunThrows, ThreadExits, WorkerMarksFailed,
     WorkerTerminates, WorkerRequestsStop, unchangedByDriver, DriverTypeOK
<1>. QED
  BY <1>1, <1>2, <1>3, <1>4, <1>5, <1>6, <1>7, <1>8, <1>9, DriverFrame DEF DriverStep
(* The mode and the exit code, over all steps at once.                     *)
LEMMA MainTyped ==
    ASSUME CoordinatorTypeOK, [Next]_vars
    PROVE  mode' \in {"main", "execute", "catch", "preflight"} /\ exitCode' \in {0, 1}
BY DEF CoordinatorTypeOK, Next, vars, mainVars, Coordinator, Signal, SignalRaised, SignalStored,
   Exited, PrepareConfiguration, ConfigurationFails, StopConfiguredLidars, BuildDrivers,
   WriteRunning, FinishBeforeInit, Preflight, PublishInitializing, InitCheck, InitReady,
   InitFalse, InitThrows, PublishReady, Publish, SpawnThread, SpawnFails, SpawnDone,
   PublishRunning, Poll, CheckDisk, CheckSensors, Monitor, PublishStopping, RaiseTerminate,
   TerminateAll, Join, Shutdown, ShutdownDone, DisarmSession, PublishStopped, DisarmMain,
   CollectResult, CollectDone, PublishResults, FinalizeRun, Report, ExecuteThrows,
   CollectThrows, Driver, RunReturns, RunThrows, ThreadExits, WorkerMarksFailed,
   WorkerTerminates, WorkerRequestsStop, unchangedBySignal, unchangedByDriver

LoopTypeOK ==
    /\ initialized \in 0 .. N
    /\ next \in 0 .. N
    /\ published \in [Drivers -> BOOLEAN]
    /\ lifecycleOk \in BOOLEAN
    /\ first \in {"", "driver", "disk", "watchdog"}
    /\ stopped \in BOOLEAN
    /\ sensors \in [Drivers -> SensorStates]

LEMMA LoopRange == LoopTypeOK => initialized \in 0 .. N /\ next \in 0 .. N
BY DEF LoopTypeOK

(* A publication changes the sensor states and the lifecycle flag only.    *)
LEMMA PublishLoopTyped ==
    ASSUME LoopTypeOK, NEW from, NEW to, NEW phase,
           NEW s \in [Drivers -> SensorStates], Publish(from, to, phase, s)
    PROVE  LoopTypeOK'
<1>1. sensors' \in [Drivers -> SensorStates]
  BY DEF Publish, PublishLifecycle, SensorStates
<1>2. lifecycleOk' \in BOOLEAN
  BY DEF Publish, PublishLifecycle, LoopTypeOK
<1>. QED
  BY <1>1, <1>2 DEF Publish, LoopTypeOK

(* Init is called only for a driver that exists.                           *)
InitInRange == pc = "init" => initialized < N

LEMMA InitInRangeStep == InitInRange /\ [Next]_vars => InitInRange'
BY DEF InitInRange, Next, vars, mainVars, coordVars, Coordinator, Signal, SignalRaised,
   SignalStored, Exited, PrepareConfiguration, ConfigurationFails, StopConfiguredLidars,
   BuildDrivers, WriteRunning, FinishBeforeInit, Preflight, PublishInitializing, InitCheck,
   InitReady, InitFalse, InitThrows, PublishReady, Publish, SpawnThread, SpawnFails,
   SpawnDone, PublishRunning, Poll, CheckDisk, CheckSensors, Monitor, PublishStopping,
   RaiseTerminate, TerminateAll, Join, Shutdown, ShutdownDone, DisarmSession,
   PublishStopped, DisarmMain, CollectResult, CollectDone, PublishResults, FinalizeRun,
   Report, ExecuteThrows, CollectThrows, Driver, RunReturns, RunThrows, ThreadExits,
   WorkerMarksFailed, WorkerTerminates, WorkerRequestsStop, unchangedBySignal,
   unchangedByDriver

LEMMA LoopTyped == InitInRange /\ LoopTypeOK /\ [Next]_vars => LoopTypeOK'
<1>. SUFFICES ASSUME InitInRange, LoopTypeOK, [Next]_vars PROVE LoopTypeOK'
  OBVIOUS
<1>1. CASE UNCHANGED coordVars
  BY <1>1 DEF LoopTypeOK, coordVars
<1>2. CASE PublishInitializing \/ PublishReady \/ PublishStopping \/ PublishResults
  BY <1>2, PublishLoopTyped DEF PublishInitializing, PublishReady, PublishStopping,
     PublishResults, LoopTypeOK
<1>3. CASE PublishStopped
  BY <1>3, PublishLoopTyped DEF PublishStopped, SensorStates
<1>4. CASE PublishRunning
  BY <1>1, <1>4, PublishLoopTyped DEF PublishRunning, LoopTypeOK
<1>5. CASE InitReady
  <2>0. initialized < N
    BY <1>5 DEF InitReady, InitInRange
  <2>1. initialized + 1 \in 0 .. N
    BY <2>0, LoopRange
  <2>. QED
    BY <1>5, <2>1 DEF InitReady, LoopTypeOK, SensorStates
<1>6. CASE SpawnThread
  <2>0. next' = next + 1 /\ next < initialized
    BY <1>6 DEF SpawnThread
  <2>1. next' \in 0 .. N
    BY <2>0, LoopRange
  <2>. QED
    BY <1>6, <2>1 DEF SpawnThread, LoopTypeOK
<1>7. CASE Poll \/ CheckDisk \/ CheckSensors
  BY <1>7 DEF Poll, CheckDisk, CheckSensors, Monitor, LoopTypeOK
<1>8. CASE TerminateAll \/ ExecuteThrows
  <2>1. 0 \in 0 .. N
    OBVIOUS
  <2>. QED
    BY <1>8, <2>1 DEF TerminateAll, ExecuteThrows, LoopTypeOK
<1>9. CASE Join \/ DisarmMain
  <2>1. next' \in 0 .. N
    BY <1>9 DEF Join, DisarmMain
  <2>. QED
    BY <1>9, <2>1 DEF Join, DisarmMain, LoopTypeOK
<1>10. CASE Shutdown
  <2>0. next' = next - 1 /\ next > 0
    BY <1>10 DEF Shutdown
  <2>1. next' \in 0 .. N
    BY <2>0, LoopRange
  <2>. QED
    BY <1>10, <2>1 DEF Shutdown, LoopTypeOK
<1>11. CASE CollectResult
  <2>0. next' = next + 1 /\ next < N
    BY <1>11 DEF CollectResult
  <2>1. next' \in 0 .. N
    BY <2>0, LoopRange
  <2>. QED
    BY <1>11, <2>1 DEF CollectResult, LoopTypeOK
<1>. QED
  BY <1>1, <1>2, <1>3, <1>4, <1>5, <1>6, <1>7, <1>8, <1>9, <1>10, <1>11, LoopFrame DEF LoopStep

(* Every document that a step writes is well formed.                       *)
LEMMA WriteTyped ==
    ASSUME ManifestTypeOK, NEW d \in Documents, NEW ok \in BOOLEAN, Write(d, ok)
    PROVE  ManifestTypeOK'
BY DEF Write, ManifestTypeOK

LEMMA FinalizeTyped ==
    ASSUME ManifestTypeOK, NEW status \in CleanStatuses \cup FailedStatuses,
           NEW ok \in BOOLEAN, Finalize(status, ok)
    PROVE  ManifestTypeOK'
<1>1. [doc EXCEPT !.phase = "finished", !.status = status] \in Documents
  BY DEF ManifestTypeOK, Documents, Phases, Statuses
<1>. QED
  BY <1>1, WriteTyped DEF Finalize

LEMMA PublishManifestTyped ==
    ASSUME ManifestTypeOK, NEW from, NEW to, NEW phase \in Phases,
           NEW s \in [Drivers -> SensorStates], Publish(from, to, phase, s)
    PROVE  ManifestTypeOK'
<1>1. sensors' \in [Drivers -> SensorStates]
  BY DEF Publish, PublishLifecycle, SensorStates
<1>2. [doc EXCEPT !.phase = phase, !.sensors = sensors'] \in Documents
  BY <1>1 DEF ManifestTypeOK, Documents
<1>. QED
  BY <1>2, WriteTyped DEF Publish, PublishLifecycle

LEMMA OutcomeTyped == Outcome \in CleanStatuses \cup FailedStatuses
BY DEF Outcome, CleanStatuses, FailedStatuses

LEMMA ManifestTyped ==
    LoopTypeOK /\ DriverTypeOK /\ ManifestTypeOK /\ [Next]_vars => ManifestTypeOK'
<1>. SUFFICES ASSUME LoopTypeOK, DriverTypeOK, ManifestTypeOK, [Next]_vars
              PROVE  ManifestTypeOK'
  OBVIOUS
<1>1. CASE UNCHANGED fileVars
  BY <1>1 DEF ManifestTypeOK, fileVars
<1>2. CASE ConfigurationFails \/ StopConfiguredLidars \/ Preflight
  <2>1. {"failed configuration", "failed disk", "interrupted"} \subseteq CleanStatuses \cup FailedStatuses
    BY DEF CleanStatuses, FailedStatuses
  <2>. QED
    BY <1>1, <1>2, <2>1, FinalizeTyped DEF ConfigurationFails, StopConfiguredLidars,
       FinishBeforeInit, Preflight, fileVars
<1>3. CASE WriteRunning
  <2>1. [doc EXCEPT !.status = "running"] \in Documents
    BY DEF ManifestTypeOK, Documents, Statuses
  <2>. QED
    BY <1>3, <2>1, WriteTyped DEF WriteRunning
<1>4. CASE PublishInitializing \/ PublishReady \/ PublishStopping \/ PublishResults
  BY <1>4, PublishManifestTyped DEF PublishInitializing, PublishReady, PublishStopping,
     PublishResults, LoopTypeOK, Phases
<1>5. CASE PublishStopped
  <2>1. [d \in Drivers |-> "stopped"] \in [Drivers -> SensorStates]
    BY DEF SensorStates
  <2>. QED
    BY <1>5, <2>1, PublishManifestTyped DEF PublishStopped, Phases
<1>6. CASE PublishRunning
  BY <1>1, <1>6, PublishManifestTyped DEF PublishRunning, LoopTypeOK, Phases
<1>7. CASE CollectResult
  <2>1. \A d \in Drivers, b \in BOOLEAN : AddDriverResult(d, b) => doc' \in Documents
    BY DEF AddDriverResult, ManifestTypeOK, Documents, Results
  <2>2. next < N
    BY <1>7 DEF CollectResult
  <2>3. next + 1 \in Drivers
    BY <2>2, LoopRange DEF Drivers
  <2>4. PICK b \in BOOLEAN : AddDriverResult(next + 1, b) \/ UNCHANGED doc
    BY <1>7, <2>3 DEF CollectResult, DriverTypeOK
  <2>5. doc' \in Documents
    BY <2>1, <2>3, <2>4 DEF ManifestTypeOK
  <2>. QED
    BY <1>7, <2>5 DEF CollectResult, ManifestTypeOK
<1>8. CASE FinalizeRun
  BY <1>8, FinalizeTyped, OutcomeTyped DEF FinalizeRun
<1>. QED
  BY <1>1, <1>2, <1>3, <1>4, <1>5, <1>6, <1>7, <1>8, ManifestFrame DEF ManifestStep

LEMMA FlagsTyped ==
    ASSUME FlagTypeOK, [Next]_vars
    PROVE  FlagTypeOK'
BY ZenonT(90) DEF FlagTypeOK, Next, vars, Coordinator, Signal, SignalRaised, SignalStored,
   Exited, PrepareConfiguration, ConfigurationFails, StopConfiguredLidars, BuildDrivers,
   WriteRunning, FinishBeforeInit, Preflight, PublishInitializing, InitCheck, InitReady,
   InitFalse, InitThrows, PublishReady, Publish, PublishLifecycle, SpawnThread, SpawnFails,
   SpawnDone, PublishRunning, Poll, CheckDisk, CheckSensors, Monitor, PublishStopping,
   RaiseTerminate, TerminateAll, Join, Shutdown, ShutdownDone, DisarmSession,
   PublishStopped, DisarmMain, CollectResult, CollectDone, PublishResults, FinalizeRun,
   Report, ExecuteThrows, CollectThrows, RequestFailure, Driver, RunReturns, RunThrows,
   ThreadExits, WorkerMarksFailed, WorkerTerminates, WorkerRequestsStop, unchangedByMain,
   unchangedBySignal, unchangedByDriver

TypeInv == TypeOK /\ InitInRange

LEMMA TypeInvStep == TypeInv /\ [Next]_vars => TypeInv'
<1>. SUFFICES ASSUME TypeInv, [Next]_vars PROVE TypeInv'
  OBVIOUS
<1>1. LoopTypeOK
  BY DEF TypeInv, TypeOK, CoordinatorTypeOK, LoopTypeOK
<1>2. LoopTypeOK' /\ InitInRange'
  BY <1>1, LoopTyped, InitInRangeStep DEF TypeInv
<1>3. CoordinatorTypeOK'
  BY <1>2, MainTyped DEF TypeInv, TypeOK, CoordinatorTypeOK, LoopTypeOK
<1>4. DriverTypeOK' /\ ManifestTypeOK' /\ FlagTypeOK' /\ pc' \in PCs
  BY <1>1, DriverTyped, ManifestTyped, FlagsTyped, PcTyped DEF TypeInv, TypeOK
<1>. QED
  BY <1>2, <1>3, <1>4 DEF TypeInv, TypeOK

LEMMA TypeInvInit == Init => TypeInv
<1>. SUFFICES ASSUME Init PROVE TypeInv
  OBVIOUS
<1>1. ManifestTypeOK
  BY DEF Init, ManifestTypeOK, NoDocument, Documents, Phases, Statuses, SensorStates, Results
<1>2. DriverTypeOK /\ FlagTypeOK
  BY DEF Init, DriverTypeOK, FlagTypeOK
<1>3. CoordinatorTypeOK
  <2>0. initialized = 0 /\ next = 0
    BY DEF Init
  <2>1. initialized \in 0 .. N /\ next \in 0 .. N
    BY <2>0
  <2>. QED
    BY <2>1 DEF Init, CoordinatorTypeOK, SensorStates
<1>4. pc \in PCs /\ InitInRange
  BY DEF Init, PCs, InitInRange
<1>. QED
  BY <1>1, <1>2, <1>3, <1>4 DEF TypeInv, TypeOK

(* Every reachable state is well typed, for any number of drivers: on no   *)
(* path does a loop index leave its range, Init run for a driver that does *)
(* not exist, or the manifest take a phase, status, sensor state or result *)
(* outside the vocabulary its readers know.                                *)
THEOREM TypeCorrect == Spec => []TypeOK
<1>1. TypeInv => TypeOK
  BY DEF TypeInv
<1>. QED
  BY <1>1, TypeInvInit, TypeInvStep, PTL DEF Spec

----------------------------------------------------------------------------
(* Safety.  The inductive invariant says what each stage of the teardown   *)
(* has already established.                                                *)

MainPCs == {"prepare", "stopLidars", "build", "writeRunning"}

(* The part of RunSession that runs after Cleanup::Stop.                   *)
AfterStop ==
    \/ pc \in {"publishStopped", "disarmMain", "results", "publishResults",
               "finalize", "report"}
    \/ pc = "done" /\ mode # "main"

(* Which modes a stage can run in.                                         *)
ModeInv ==
    /\ mode = "main" => pc \in MainPCs \cup {"done"}
    /\ mode # "main" => pc \notin MainPCs
    /\ mode = "preflight" => pc \in {"terminateAll", "join", "shutdown", "disarm", "done"}
    /\ mode = "catch" => pc \in {"terminateAll", "join", "shutdown", "disarm",
                                 "results", "finalize", "done"}

(* Cleanup::Stop is entered once: an exception goes back to it only before *)
(* it has run.                                                             *)
StopInv == stopped = (pc \in {"join", "shutdown", "disarm"} \/ AfterStop)

(* Threads are joined before the first Shutdown, drivers are shut down     *)
(* from the last to the first, and the hub is told before Stop returns.    *)
TeardownInv ==
    /\ pc \in {"shutdown", "disarm"} \/ AfterStop =>
          \A d \in Drivers : thread[d] \in {"none", "exited"}
    /\ \A d \in Drivers :
          shut[d] <=> (pc = "shutdown" /\ d > next) \/ pc = "disarm" \/ AfterStop
    /\ \A d \in Drivers : shut[d] => worker[d] = "none"
    /\ AfterStop => hubEnded

(* Results: a driver's result is its final verdict, since results are      *)
(* collected only when nothing can fail any more; Execute collects all.    *)
ResultInv ==
    /\ ~AfterStop => \A d \in Drivers : ~published[d]
    /\ \A d \in Drivers :
          doc.results[d] = IF ~published[d] THEN "none"
                           ELSE IF failed[d] THEN "failed" ELSE "ok"
    /\ (mode = "execute" /\ pc = "results") => \A d \in Drivers : d <= next => published[d]
    /\ (mode = "execute" /\ pc \in {"publishResults", "finalize", "report", "done"})
          => \A d \in Drivers : published[d]

(* Sensor states: from the second "stopping" on, what Execute publishes    *)
(* agrees with the drivers, and exactly so in its last publication.        *)
SensorInv ==
    /\ (mode = "execute" /\ pc \in {"disarmMain", "results", "publishResults"}) =>
          \A d \in Drivers : sensors[d] = "stopped" \/ (sensors[d] = "failed" /\ failed[d])
    /\ (mode = "execute" /\ pc \in {"finalize", "report", "done"}) =>
          \A d \in Drivers : doc.sensors[d] = IF failed[d] THEN "failed" ELSE "stopped"

(* Verdicts: a copy of the manifest with a clean status was written when   *)
(* no driver had failed, and none can fail afterwards.                     *)
VerdictPlace ==
    \/ mode = "main" /\ pc = "done"
    \/ mode = "execute" /\ pc \in {"report", "done"}
    \/ mode = "catch" /\ pc \in {"results", "finalize", "done"}

NoFailure == \A d \in Drivers : ~failed[d] /\ published[d]

CleanVerdict(file) ==
    file.status \in CleanStatuses =>
        /\ file.phase = "finished"
        /\ VerdictPlace
        /\ mode # "main" => NoFailure /\ \A d \in Drivers : file.results[d] = "ok"

VerdictInv == CleanVerdict(doc) /\ CleanVerdict(disk) /\ CleanVerdict(control)

(* The exit code: 0 only if the clean verdict reached every copy.          *)
ExitInv ==
    /\ mode = "preflight" => exitCode = 1
    /\ (mode # "main" /\ pc \in {"report", "done"} /\ exitCode = 0) =>
          /\ mode = "execute"
          /\ doc.status \in CleanStatuses
          /\ disk = doc
          /\ HasControl => control = doc

SafetyInv ==
    /\ ModeInv /\ StopInv /\ TeardownInv
    /\ ResultInv /\ SensorInv /\ VerdictInv /\ ExitInv

LEMMA ModeStep == ModeInv /\ [Next]_vars => ModeInv'
BY ZenonT(90) DEF ModeInv, MainPCs, AfterStop, ThrowPoints, Next, vars, mainVars, coordVars, Coordinator, Signal,
   SignalRaised, SignalStored, Exited, PrepareConfiguration, ConfigurationFails,
   StopConfiguredLidars, BuildDrivers, WriteRunning, FinishBeforeInit, Preflight,
   PublishInitializing, InitCheck, InitReady, InitFalse, InitThrows, PublishReady, Publish,
   SpawnThread, SpawnFails, SpawnDone, PublishRunning, Poll, CheckDisk, CheckSensors,
   Monitor, PublishStopping, RaiseTerminate, TerminateAll, Join, Shutdown, ShutdownDone,
   DisarmSession, PublishStopped, DisarmMain, CollectResult, CollectDone, PublishResults,
   FinalizeRun, Report, ExecuteThrows, CollectThrows, Driver, RunReturns, RunThrows,
   ThreadExits, WorkerMarksFailed, WorkerTerminates, WorkerRequestsStop, unchangedByMain,
   unchangedBySignal, unchangedByDriver
(* Only these steps move the coordinator into, through or out of Stop, or  *)
(* change what Stop has established.                                       *)
LEMMA StopStep == ModeInv /\ StopInv /\ stopped \in BOOLEAN /\ [Next]_vars => StopInv'
BY ZenonT(90) DEF ModeInv, StopInv, MainPCs, AfterStop, ThrowPoints, Next, vars, mainVars, coordVars,
   Coordinator, Signal, SignalRaised, SignalStored, Exited, PrepareConfiguration,
   ConfigurationFails, StopConfiguredLidars, BuildDrivers, WriteRunning, FinishBeforeInit,
   Preflight, PublishInitializing, InitCheck, InitReady, InitFalse, InitThrows,
   PublishReady, Publish, SpawnThread, SpawnFails, SpawnDone, PublishRunning, Poll,
   CheckDisk, CheckSensors, Monitor, PublishStopping, RaiseTerminate, TerminateAll, Join,
   Shutdown, ShutdownDone, DisarmSession, PublishStopped, DisarmMain, CollectResult,
   CollectDone, PublishResults, FinalizeRun, Report, ExecuteThrows, CollectThrows, Driver,
   RunReturns, RunThrows, ThreadExits, WorkerMarksFailed, WorkerTerminates,
   WorkerRequestsStop, unchangedByMain, unchangedBySignal, unchangedByDriver
(* The four steps of Stop that change its stage; all others keep it.       *)
LEMMA ShutdownStage ==
    ASSUME [Next]_vars, ~Join, ~ShutdownDone, ~DisarmSession
    PROVE  (pc' = "shutdown" <=> pc = "shutdown") /\ (pc' = "disarm" <=> pc = "disarm")
BY DEF ThrowPoints, Next, vars, mainVars, Shutdown, Coordinator, Signal, SignalRaised, SignalStored, Exited, PrepareConfiguration,
   ConfigurationFails, StopConfiguredLidars, BuildDrivers, WriteRunning, FinishBeforeInit,
   Preflight, PublishInitializing, InitCheck, InitReady, InitFalse, InitThrows,
   PublishReady, Publish, SpawnThread, SpawnFails, SpawnDone, PublishRunning, Poll,
   CheckDisk, CheckSensors, Monitor, PublishStopping, RaiseTerminate, TerminateAll,
   PublishStopped, DisarmMain, CollectResult,
   CollectDone, PublishResults, FinalizeRun, Report, ExecuteThrows, CollectThrows, Driver,
   RunReturns, RunThrows, ThreadExits, WorkerMarksFailed, WorkerTerminates,
   WorkerRequestsStop, unchangedByMain, unchangedBySignal, unchangedByDriver

LEMMA AfterStopStage ==
    ASSUME ModeInv, StopInv, stopped \in BOOLEAN, [Next]_vars, ~DisarmSession
    PROVE  AfterStop' <=> AfterStop
BY ZenonT(90) DEF ModeInv, StopInv, MainPCs, AfterStop, ThrowPoints, Next, vars, mainVars,
   Shutdown, ShutdownDone, Join, Coordinator, Signal, SignalRaised, SignalStored, Exited, PrepareConfiguration,
   ConfigurationFails, StopConfiguredLidars, BuildDrivers, WriteRunning, FinishBeforeInit,
   Preflight, PublishInitializing, InitCheck, InitReady, InitFalse, InitThrows,
   PublishReady, Publish, SpawnThread, SpawnFails, SpawnDone, PublishRunning, Poll,
   CheckDisk, CheckSensors, Monitor, PublishStopping, RaiseTerminate, TerminateAll,
   PublishStopped, DisarmMain, CollectResult,
   CollectDone, PublishResults, FinalizeRun, Report, ExecuteThrows, CollectThrows, Driver,
   RunReturns, RunThrows, ThreadExits, WorkerMarksFailed, WorkerTerminates,
   WorkerRequestsStop, unchangedByMain, unchangedBySignal, unchangedByDriver

(* The loop index and the hub keep their place in the other steps.         *)
LEMMA ShutdownIndex ==
    ASSUME [Next]_vars, pc = "shutdown", ~Shutdown
    PROVE  next' = next
BY DEF Next, vars, coordVars, Coordinator, Signal, SignalRaised, SignalStored, Exited,
   PrepareConfiguration, ConfigurationFails, StopConfiguredLidars, BuildDrivers, WriteRunning,
   Preflight, PublishInitializing, InitCheck, InitReady, InitFalse, InitThrows,
   PublishReady, Publish, SpawnThread, SpawnFails, SpawnDone, PublishRunning, Poll,
   CheckDisk, CheckSensors, Monitor, PublishStopping, RaiseTerminate, TerminateAll, Join,
   ShutdownDone, DisarmSession, PublishStopped, DisarmMain, CollectResult, CollectDone,
   PublishResults, FinalizeRun, Report, ExecuteThrows, CollectThrows, ThrowPoints, Driver,
   RunReturns, RunThrows, ThreadExits, WorkerMarksFailed, WorkerTerminates,
   WorkerRequestsStop, unchangedByMain, unchangedBySignal, unchangedByDriver

LEMMA HubStaysEnded ==
    ASSUME [Next]_vars
    PROVE  hubEnded' = hubEnded \/ hubEnded' = TRUE
BY DEF Next, vars, Coordinator, Signal, SignalRaised, SignalStored, Exited,
   PrepareConfiguration, ConfigurationFails, StopConfiguredLidars, BuildDrivers, WriteRunning,
   Preflight, PublishInitializing, InitCheck, InitReady, InitFalse, InitThrows,
   PublishReady, Publish, SpawnThread, SpawnFails, SpawnDone, PublishRunning, Poll,
   CheckDisk, CheckSensors, Monitor, PublishStopping, RaiseTerminate, TerminateAll, Join,
   Shutdown, ShutdownDone, DisarmSession, PublishStopped, DisarmMain, CollectResult,
   CollectDone, PublishResults, FinalizeRun, Report, ExecuteThrows, CollectThrows, Driver,
   RunReturns, RunThrows, ThreadExits, WorkerMarksFailed, WorkerTerminates,
   WorkerRequestsStop, unchangedByMain, unchangedBySignal, unchangedByDriver

(* Once the threads are joined and a driver is shut down, no step starts a *)
(* thread or a worker of it: those are created in earlier stages only.     *)
LEMMA QuietFrame ==
    ASSUME TypeInv, ModeInv, StopInv, TeardownInv, [Next]_vars, ~Join, ~Shutdown
    PROVE  /\ shut' = shut
           /\ pc \in {"shutdown", "disarm"} \/ AfterStop => thread' = thread
           /\ \A d \in Drivers : shut[d] => worker'[d] = "none"
<1>. DEFINE Late == pc \in {"shutdown", "disarm"} \/ AfterStop
<1>. USE DEF AfterStop
<1>0. \A d \in Drivers : shut[d] => Late /\ worker[d] = "none"
  BY DEF TeardownInv
<1>1. CASE UNCHANGED driverVars
  BY <1>0, <1>1 DEF driverVars
<1>2. CASE InitCheck \/ SpawnThread
  BY <1>0, <1>2 DEF InitCheck, SpawnThread
<1>3. CASE \/ (\E fault \in BOOLEAN : InitFalse(fault)) \/ InitThrows \/ SpawnFails
           \/ CheckSensors \/ RaiseTerminate \/ TerminateAll \/ CollectResult
  BY <1>0, <1>3 DEF InitFalse, InitThrows, SpawnFails, CheckSensors, RaiseTerminate,
     TerminateAll, CollectResult, driverVars
<1>4. ASSUME NEW e \in Drivers, Driver(e)
      PROVE  /\ shut' = shut
             /\ Late => thread' = thread
             /\ \A d \in Drivers : shut[d] => worker'[d] = "none"
  <2>1. shut' = shut
    BY <1>4 DEF Driver, RunReturns, RunThrows, ThreadExits, WorkerMarksFailed,
       WorkerTerminates, WorkerRequestsStop, unchangedByDriver
  <2>2. Late => thread' = thread
    BY <1>4 DEF Driver, RunReturns, RunThrows, ThreadExits, WorkerMarksFailed,
       WorkerTerminates, WorkerRequestsStop, unchangedByDriver, TeardownInv
  <2>3. worker' = worker \/ (worker[e] # "none" /\ worker' = [worker EXCEPT ![e] = worker'[e]])
    BY <1>4 DEF Driver, RunReturns, RunThrows, ThreadExits, WorkerMarksFailed,
       WorkerTerminates, WorkerRequestsStop, unchangedByDriver, TypeInv, TypeOK, DriverTypeOK
  <2>4. \A d \in Drivers : shut[d] => worker'[d] = "none"
    BY <1>0, <2>3 DEF TypeInv, TypeOK, DriverTypeOK
  <2>. QED
    BY <2>1, <2>2, <2>4
<1>. QED
  BY <1>1, <1>2, <1>3, <1>4, DriverFrame DEF DriverStep

LEMMA TeardownStep ==
    TypeInv /\ ModeInv /\ StopInv /\ TeardownInv /\ [Next]_vars => TeardownInv'
<1>. SUFFICES ASSUME TypeInv, ModeInv, StopInv, TeardownInv, [Next]_vars
              PROVE  TeardownInv'
  OBVIOUS
<1>0. /\ next \in 0 .. N
      /\ \A d \in Drivers : d \in Nat /\ d > 0 /\ d <= N
  <2>1. next \in 0 .. N
    BY DEF TypeInv, TypeOK, CoordinatorTypeOK
  <2>2. \A d \in Drivers : d \in Nat /\ d > 0 /\ d <= N
    BY DEF Drivers
  <2>. QED
    BY <2>1, <2>2
<1>1. CASE Join
  <2>1. \A d \in Drivers : ~shut[d]
    BY <1>1 DEF Join, TeardownInv, AfterStop
  <2>2. \A d \in Drivers : ~(d > N)
    BY <1>0
  <2>. QED
    BY <1>1, <2>1, <2>2 DEF Join, TeardownInv, AfterStop, driverVars
<1>2. CASE Shutdown
  <2>0. next > 0
    BY <1>2 DEF Shutdown
  <2>1. next \in Drivers
    BY <1>0, <2>0 DEF Drivers
  <2>2. \A d \in Drivers : d > next - 1 <=> d > next \/ d = next
    BY <1>0
  <2>3. \A d \in Drivers : shut'[d] <=> d > next'
    BY <1>2, <2>1, <2>2 DEF Shutdown, TeardownInv, AfterStop, TypeInv, TypeOK, DriverTypeOK
  <2>4. \A d \in Drivers : shut'[d] => worker'[d] = "none"
    BY <1>2, <2>1 DEF Shutdown, TeardownInv, TypeInv, TypeOK, DriverTypeOK
  <2>. QED
    BY <1>2, <2>3, <2>4 DEF Shutdown, TeardownInv, AfterStop, mainVars
<1>3. CASE ShutdownDone
  <2>1. \A d \in Drivers : d > next
    BY <1>0, <1>3 DEF ShutdownDone
  <2>. QED
    BY <1>3, <2>1 DEF ShutdownDone, TeardownInv, AfterStop, driverVars
<1>4. CASE DisarmSession
  BY <1>4 DEF DisarmSession, TeardownInv, AfterStop, ModeInv, MainPCs, driverVars
<1>5. CASE ~Join /\ ~Shutdown /\ ~ShutdownDone /\ ~DisarmSession
  <2>1. hubEnded \in BOOLEAN /\ stopped \in BOOLEAN
    BY DEF TypeInv, TypeOK, FlagTypeOK, CoordinatorTypeOK
  <2>. QED
    BY <1>5, <2>1, ShutdownStage, AfterStopStage, ShutdownIndex, HubStaysEnded, QuietFrame DEF TeardownInv
<1>. QED
  BY <1>1, <1>2, <1>3, <1>4, <1>5
----------------------------------------------------------------------------
(* Results.                                                                *)

LastPCs == {"publishResults", "finalize", "report", "done"}

(* How Execute enters the results loop and leaves it.                      *)
LEMMA ExecuteStage ==
    ASSUME ModeInv, [Next]_vars, mode' = "execute"
    PROVE  /\ pc' \in LastPCs => CollectDone \/ (pc \in LastPCs /\ mode = "execute")
           /\ pc' = "results" => DisarmMain \/ (pc = "results" /\ mode = "execute")
BY ZenonT(90) DEF LastPCs, ModeInv, MainPCs, ThrowPoints, Next, vars, mainVars, Coordinator, Signal, SignalRaised, SignalStored, Exited, PrepareConfiguration,
   ConfigurationFails, StopConfiguredLidars, BuildDrivers, WriteRunning, FinishBeforeInit,
   Preflight, PublishInitializing, InitCheck, InitReady, InitFalse, InitThrows,
   PublishReady, Publish, SpawnThread, SpawnFails, SpawnDone, PublishRunning, Poll,
   CheckDisk, CheckSensors, Monitor, PublishStopping, RaiseTerminate, TerminateAll, Join,
   Shutdown, ShutdownDone, DisarmSession, PublishStopped, DisarmMain, CollectResult,
   CollectDone, PublishResults, FinalizeRun, Report, ExecuteThrows, CollectThrows, Driver,
   RunReturns, RunThrows, ThreadExits, WorkerMarksFailed, WorkerTerminates,
   WorkerRequestsStop, unchangedByMain, unchangedBySignal, unchangedByDriver

(* The results are touched by CollectResult alone.                         *)
LEMMA PublishedFrame == ASSUME [Next]_vars, ~CollectResult PROVE published' = published
BY DEF Next, vars, coordVars, Coordinator, Signal, SignalRaised, SignalStored, Exited, PrepareConfiguration,
   ConfigurationFails, StopConfiguredLidars, BuildDrivers, WriteRunning, FinishBeforeInit,
   Preflight, PublishInitializing, InitCheck, InitReady, InitFalse, InitThrows,
   PublishReady, Publish, SpawnThread, SpawnFails, SpawnDone, PublishRunning, Poll,
   CheckDisk, CheckSensors, Monitor, PublishStopping, RaiseTerminate, TerminateAll, Join,
   Shutdown, ShutdownDone, DisarmSession, PublishStopped, DisarmMain, CollectResult,
   CollectDone, PublishResults, FinalizeRun, Report, ExecuteThrows, CollectThrows, Driver,
   RunReturns, RunThrows, ThreadExits, WorkerMarksFailed, WorkerTerminates,
   WorkerRequestsStop, unchangedByMain, unchangedBySignal, unchangedByDriver

LEMMA WriteResults ==
    ASSUME NEW d, NEW ok, Write(d, ok) PROVE doc' = d
BY DEF Write

LEMMA ResultsFrame ==
    ASSUME ManifestTypeOK, [Next]_vars, ~CollectResult
    PROVE  doc'.results = doc.results
<1>1. ASSUME NEW phase, NEW s
      PROVE  [doc EXCEPT !.phase = phase, !.sensors = s].results = doc.results
  BY DEF ManifestTypeOK, Documents
<1>2. ASSUME NEW status
      PROVE  /\ [doc EXCEPT !.phase = "finished", !.status = status].results = doc.results
             /\ [doc EXCEPT !.status = status].results = doc.results
  BY DEF ManifestTypeOK, Documents
<1>3. ASSUME NEW from, NEW to, NEW phase, NEW s, Publish(from, to, phase, s)
      PROVE  doc'.results = doc.results
  BY <1>1, <1>3, WriteResults DEF Publish, PublishLifecycle
<1>4. ASSUME NEW status, NEW ok, Finalize(status, ok)
      PROVE  doc'.results = doc.results
  BY <1>2, <1>4, WriteResults DEF Finalize
<1>5. CASE UNCHANGED fileVars
  BY <1>5 DEF fileVars
<1>6. CASE ConfigurationFails \/ StopConfiguredLidars \/ Preflight \/ FinalizeRun
  BY <1>4, <1>5, <1>6 DEF ConfigurationFails, StopConfiguredLidars, FinishBeforeInit,
     Preflight, FinalizeRun, fileVars
<1>7. CASE WriteRunning
  BY <1>2, <1>7, WriteResults DEF WriteRunning
<1>8. CASE \/ PublishInitializing \/ PublishReady \/ PublishStopping \/ PublishResults
           \/ PublishStopped
  BY <1>3, <1>8 DEF PublishInitializing, PublishReady, PublishStopping, PublishResults,
     PublishStopped
<1>9. CASE PublishRunning
  BY <1>3, <1>5, <1>9 DEF PublishRunning, fileVars
<1>. QED
  BY <1>5, <1>6, <1>7, <1>8, <1>9, ManifestFrame DEF ManifestStep

(* After Stop nothing but CollectResult can fail a driver any more.        *)
LEMMA FailedFrame ==
    ASSUME TypeInv, TeardownInv, AfterStop, [Next]_vars, ~CollectResult
    PROVE  failed' = failed
<1>1. \A d \in Drivers : thread[d] \in {"none", "exited"} /\ worker[d] = "none"
  BY DEF TeardownInv
<1>2. CASE UNCHANGED driverVars
  BY <1>2 DEF driverVars
<1>3. CASE \/ InitCheck \/ (\E fault \in BOOLEAN : InitFalse(fault)) \/ InitThrows
           \/ SpawnThread \/ SpawnFails \/ CheckSensors
           \/ RaiseTerminate \/ TerminateAll \/ Shutdown
  BY <1>3 DEF AfterStop, InitCheck, InitFalse, InitThrows, SpawnThread, SpawnFails,
     CheckSensors, Monitor, RaiseTerminate, TerminateAll, Shutdown
<1>4. ASSUME NEW e \in Drivers, Driver(e) PROVE failed' = failed
  BY <1>1, <1>4 DEF Driver, RunReturns, RunThrows, ThreadExits, WorkerMarksFailed,
     WorkerTerminates, WorkerRequestsStop
<1>. QED
  BY <1>2, <1>3, <1>4, DriverFrame DEF DriverStep
(* What one iteration of CollectResults does to driver next + 1.           *)
LEMMA CollectEffect ==
    ASSUME TypeInv, ResultInv, CollectResult
    PROVE  /\ next + 1 \in Drivers
           /\ published' = [published EXCEPT ![next + 1] = TRUE]
           /\ \A d \in Drivers : d # next + 1 => failed'[d] = failed[d]
           /\ published[next + 1] => failed' = failed
           /\ \A d \in Drivers : d # next + 1 => doc'.results[d] = doc.results[d]
           /\ doc'.results[next + 1] = IF failed'[next + 1] THEN "failed" ELSE "ok"
<1>. DEFINE d == next + 1
<1>0. next < N
  BY DEF CollectResult
<1>1. next \in 0 .. N
  BY DEF TypeInv, TypeOK, CoordinatorTypeOK
<1>2. d \in Drivers
  BY <1>0, <1>1 DEF Drivers
<1>3. published \in [Drivers -> BOOLEAN]
  BY DEF TypeInv, TypeOK, CoordinatorTypeOK
<1>4. failed \in [Drivers -> BOOLEAN]
  BY DEF TypeInv, TypeOK, DriverTypeOK
<1>5. /\ doc = [doc EXCEPT !.results = doc.results]
      /\ doc.results \in [Drivers -> Results]
  BY DEF TypeInv, TypeOK, ManifestTypeOK, Documents
<1>6. CASE published[d] /\ UNCHANGED <<doc, published, failed, terminate, trouble>>
  <2>1. doc.results[d] = IF failed[d] THEN "failed" ELSE "ok"
    BY <1>2, <1>6 DEF ResultInv
  <2>. QED
    BY <1>2, <1>3, <1>6, <2>1
<1>7. CASE /\ ~published[d]
           /\ published' = [published EXCEPT ![d] = TRUE]
           /\ \/ AddDriverResult(d, failed[d]) /\ UNCHANGED <<failed, terminate, trouble>>
              \/ AddDriverResult(d, TRUE) /\ RequestFailure(d)
  <2>1. doc.results[d] = "none"
    BY <1>2, <1>7 DEF ResultInv
  <2>2. /\ failed' \in [Drivers -> BOOLEAN]
        /\ \A e \in Drivers : e # d => failed'[e] = failed[e]
        /\ AddDriverResult(d, failed'[d])
    BY <1>2, <1>4, <1>7 DEF RequestFailure
  <2>3. doc'.results = [doc.results EXCEPT ![d] = IF failed'[d] THEN "failed" ELSE "ok"]
    BY <1>2, <1>5, <2>1, <2>2 DEF AddDriverResult, TypeInv, TypeOK, ManifestTypeOK, Documents
  <2>. QED
    BY <1>2, <1>5, <1>7, <2>2, <2>3
<1>. QED
  BY <1>6, <1>7 DEF CollectResult

LEMMA ResultsIndex ==
    ASSUME [Next]_vars, ~CollectResult, pc = "results", pc' = "results", mode' = "execute"
    PROVE  next' = next
BY DEF Next, vars, mainVars, coordVars, Coordinator, Signal, SignalRaised, SignalStored, Exited, PrepareConfiguration,
   ConfigurationFails, StopConfiguredLidars, BuildDrivers, WriteRunning, FinishBeforeInit,
   Preflight, PublishInitializing, InitCheck, InitReady, InitFalse, InitThrows,
   PublishReady, Publish, SpawnThread, SpawnFails, SpawnDone, PublishRunning, Poll,
   CheckDisk, CheckSensors, Monitor, PublishStopping, RaiseTerminate, TerminateAll, Join,
   Shutdown, ShutdownDone, DisarmSession, PublishStopped, DisarmMain, CollectResult,
   CollectDone, PublishResults, FinalizeRun, Report, ExecuteThrows, CollectThrows, Driver,
   RunReturns, RunThrows, ThreadExits, WorkerMarksFailed, WorkerTerminates,
   WorkerRequestsStop, unchangedByMain, unchangedBySignal, unchangedByDriver

LEMMA ResultStep ==
    /\ TypeInv /\ ModeInv /\ StopInv /\ TeardownInv /\ ResultInv
    /\ [Next]_vars
    => ResultInv'
<1>. SUFFICES ASSUME TypeInv, ModeInv, StopInv, TeardownInv, ResultInv, [Next]_vars
              PROVE  ResultInv'
  OBVIOUS
<1>0. /\ next \in 0 .. N
      /\ \A d \in Drivers : d \in Nat /\ d > 0 /\ d <= N
  <2>1. next \in 0 .. N
    BY DEF TypeInv, TypeOK, CoordinatorTypeOK
  <2>2. \A d \in Drivers : d \in Nat /\ d > 0 /\ d <= N
    BY DEF Drivers
  <2>. QED
    BY <2>1, <2>2
<1>1. CASE CollectResult
  <2>1. pc' = pc /\ pc = "results" /\ mode' = mode /\ next' = next + 1
    BY <1>1 DEF CollectResult, mainVars
  <2>2. \A d \in Drivers : doc'.results[d] = IF ~published'[d] THEN "none"
                                             ELSE IF failed'[d] THEN "failed" ELSE "ok"
    <3>1. published \in [Drivers -> BOOLEAN]
      BY DEF TypeInv, TypeOK, CoordinatorTypeOK
    <3>2. /\ next + 1 \in Drivers
          /\ published' = [published EXCEPT ![next + 1] = TRUE]
          /\ \A d \in Drivers : d # next + 1 => failed'[d] = failed[d]
          /\ \A d \in Drivers : d # next + 1 => doc'.results[d] = doc.results[d]
          /\ doc'.results[next + 1] = IF failed'[next + 1] THEN "failed" ELSE "ok"
      BY <1>1, CollectEffect
    <3>3. /\ published'[next + 1]
          /\ \A d \in Drivers : d # next + 1 => published'[d] = published[d]
      BY <3>1, <3>2
    <3>4. \A d \in Drivers : doc.results[d] = IF ~published[d] THEN "none"
                                              ELSE IF failed[d] THEN "failed" ELSE "ok"
      BY DEF ResultInv
    <3>. QED
      BY Zenon, <3>2, <3>3, <3>4
  <2>3. \A d \in Drivers : d <= next + 1 => d <= next \/ d = next + 1
    BY <1>0
  <2>4. published \in [Drivers -> BOOLEAN]
    BY DEF TypeInv, TypeOK, CoordinatorTypeOK
  <2>5. (mode = "execute") => \A d \in Drivers : d <= next' => published'[d]
    BY <1>1, <2>1, <2>3, <2>4, CollectEffect DEF ResultInv
  <2>. QED
    BY <2>1, <2>2, <2>5 DEF ResultInv, AfterStop
<1>2. CASE ~CollectResult
  <2>1. published' = published /\ doc'.results = doc.results
    BY <1>2, PublishedFrame, ResultsFrame DEF TypeInv, TypeOK
  <2>2. AfterStop => failed' = failed
    BY <1>2, FailedFrame
  <2>3. AfterStop => AfterStop'
    <3>1. stopped \in BOOLEAN
      BY DEF TypeInv, TypeOK, CoordinatorTypeOK
    <3>2. DisarmSession => ~AfterStop
      BY DEF DisarmSession, AfterStop
    <3>. QED
      BY <3>1, <3>2, AfterStopStage
  <2>4. \A d \in Drivers : doc'.results[d] = IF ~published'[d] THEN "none"
                                             ELSE IF failed'[d] THEN "failed" ELSE "ok"
    BY <2>1, <2>2 DEF ResultInv
  <2>5. (mode' = "execute" /\ pc' = "results") => \A d \in Drivers : d <= next' => published'[d]
    <3>. SUFFICES ASSUME mode' = "execute", pc' = "results"
                  PROVE  \A d \in Drivers : d <= next' => published'[d]
      OBVIOUS
    <3>1. CASE DisarmMain
      BY <1>0, <3>1 DEF DisarmMain
    <3>2. CASE pc = "results" /\ mode = "execute"
      <4>1. next' = next
        BY <1>2, <3>2, ResultsIndex
      <4>. QED
        BY <2>1, <3>2, <4>1 DEF ResultInv
    <3>. QED
      BY <3>1, <3>2, ExecuteStage
  <2>6. (mode' = "execute" /\ pc' \in LastPCs) => \A d \in Drivers : published'[d]
    <3>. SUFFICES ASSUME mode' = "execute", pc' \in LastPCs
                  PROVE  \A d \in Drivers : published'[d]
      OBVIOUS
    <3>1. CASE CollectDone
      BY <1>0, <2>1, <3>1 DEF CollectDone, ResultInv
    <3>2. CASE pc \in LastPCs /\ mode = "execute"
      BY <2>1, <3>2 DEF ResultInv, LastPCs
    <3>. QED
      BY <3>1, <3>2, ExecuteStage
  <2>. QED
    BY <2>1, <2>3, <2>4, <2>5, <2>6 DEF ResultInv, LastPCs
<1>. QED
  BY <1>1, <1>2

----------------------------------------------------------------------------
(* Sensor states.                                                          *)

(* Failures are sticky.                                                    *)
LEMMA FailedSticky ==
    ASSUME TypeInv, [Next]_vars PROVE \A d \in Drivers : failed[d] => failed'[d]
<1>0. failed \in [Drivers -> BOOLEAN]
  BY DEF TypeInv, TypeOK, DriverTypeOK
<1>1. CASE UNCHANGED driverVars
  BY <1>1 DEF driverVars
<1>2. CASE \/ InitCheck \/ (\E fault \in BOOLEAN : InitFalse(fault)) \/ InitThrows
           \/ SpawnThread \/ SpawnFails \/ CheckSensors
           \/ RaiseTerminate \/ TerminateAll \/ Shutdown \/ CollectResult
  BY <1>0, <1>2 DEF InitCheck, InitFalse, InitThrows, SpawnThread, SpawnFails, CheckSensors,
     RaiseTerminate, TerminateAll, Shutdown, CollectResult, RequestFailure, driverVars
<1>3. ASSUME NEW e \in Drivers, Driver(e) PROVE \A d \in Drivers : failed[d] => failed'[d]
  BY <1>0, <1>3 DEF Driver, RunReturns, RunThrows, ThreadExits, WorkerMarksFailed,
     WorkerTerminates, WorkerRequestsStop
<1>. QED
  BY <1>1, <1>2, <1>3, DriverFrame DEF DriverStep

StoppedPCs == {"disarmMain", "results", "publishResults"}
FinalPCs   == {"finalize", "report", "done"}

LEMMA SensorStage ==
    ASSUME ModeInv, [Next]_vars, mode' = "execute"
    PROVE  /\ pc' \in StoppedPCs => PublishStopped \/ (pc \in StoppedPCs /\ mode = "execute")
           /\ pc' \in FinalPCs => PublishResults \/ (pc \in FinalPCs /\ mode = "execute")
BY ZenonT(90) DEF StoppedPCs, FinalPCs, ModeInv, MainPCs, ThrowPoints, Next, vars, mainVars, Coordinator, Signal, SignalRaised, SignalStored, Exited, PrepareConfiguration,
   ConfigurationFails, StopConfiguredLidars, BuildDrivers, WriteRunning, FinishBeforeInit,
   Preflight, PublishInitializing, InitCheck, InitReady, InitFalse, InitThrows,
   PublishReady, Publish, SpawnThread, SpawnFails, SpawnDone, PublishRunning, Poll,
   CheckDisk, CheckSensors, Monitor, PublishStopping, RaiseTerminate, TerminateAll, Join,
   Shutdown, ShutdownDone, DisarmSession, PublishStopped, DisarmMain, CollectResult,
   CollectDone, PublishResults, FinalizeRun, Report, ExecuteThrows, CollectThrows, Driver,
   RunReturns, RunThrows, ThreadExits, WorkerMarksFailed, WorkerTerminates,
   WorkerRequestsStop, unchangedByMain, unchangedBySignal, unchangedByDriver

LEMMA SensorsFrame ==
    ASSUME [Next]_vars, pc \in StoppedPCs, pc' \in StoppedPCs PROVE sensors' = sensors
BY DEF StoppedPCs, Next, vars, mainVars, coordVars, Coordinator, Signal, SignalRaised, SignalStored, Exited, PrepareConfiguration,
   ConfigurationFails, StopConfiguredLidars, BuildDrivers, WriteRunning, FinishBeforeInit,
   Preflight, PublishInitializing, InitCheck, InitReady, InitFalse, InitThrows,
   PublishReady, Publish, SpawnThread, SpawnFails, SpawnDone, PublishRunning, Poll,
   CheckDisk, CheckSensors, Monitor, PublishStopping, RaiseTerminate, TerminateAll, Join,
   Shutdown, ShutdownDone, DisarmSession, PublishStopped, DisarmMain, CollectResult,
   CollectDone, PublishResults, FinalizeRun, Report, ExecuteThrows, CollectThrows, Driver,
   RunReturns, RunThrows, ThreadExits, WorkerMarksFailed, WorkerTerminates,
   WorkerRequestsStop, unchangedByMain, unchangedBySignal, unchangedByDriver

(* What a publication writes.                                              *)
LEMMA PublishEffect ==
    ASSUME TypeInv, NEW from, NEW to, NEW phase, NEW s, Publish(from, to, phase, s)
    PROVE  /\ sensors' = [d \in Drivers |-> IF failed[d] THEN "failed" ELSE s[d]]
           /\ doc'.sensors = sensors' /\ doc'.status = doc.status
           /\ failed' = failed
<1>1. /\ [doc EXCEPT !.phase = phase, !.sensors = sensors'].sensors = sensors'
      /\ [doc EXCEPT !.phase = phase, !.sensors = sensors'].status = doc.status
  BY DEF TypeInv, TypeOK, ManifestTypeOK, Documents
<1>2. doc' = [doc EXCEPT !.phase = phase, !.sensors = sensors']
  BY DEF Publish, PublishLifecycle, Write
<1>. QED
  BY <1>1, <1>2 DEF Publish, PublishLifecycle, driverVars

LEMMA FinalizeEffect ==
    ASSUME TypeInv, NEW status, NEW ok, Finalize(status, ok)
    PROVE  /\ doc'.sensors = doc.sensors /\ doc'.results = doc.results
           /\ doc'.status = status /\ doc'.phase = "finished"
<1>1. LET d == [doc EXCEPT !.phase = "finished", !.status = status]
      IN  /\ d.sensors = doc.sensors /\ d.results = doc.results
          /\ d.status = status /\ d.phase = "finished"
  BY DEF TypeInv, TypeOK, ManifestTypeOK, Documents
<1>. QED
  BY <1>1 DEF Finalize, Write

LEMMA SensorStep ==
    /\ TypeInv /\ ModeInv /\ TeardownInv /\ SensorInv
    /\ [Next]_vars
    => SensorInv'
<1>. SUFFICES ASSUME TypeInv, ModeInv, TeardownInv, SensorInv, [Next]_vars, mode' = "execute"
              PROVE  SensorInv'
  BY DEF SensorInv
<1>1. ASSUME pc' \in StoppedPCs
      PROVE  \A d \in Drivers : sensors'[d] = "stopped" \/ (sensors'[d] = "failed" /\ failed'[d])
  <2>1. CASE PublishStopped
    BY <2>1, PublishEffect DEF PublishStopped
  <2>2. CASE pc \in StoppedPCs /\ mode = "execute"
    BY <1>1, <2>2, SensorsFrame, FailedSticky DEF SensorInv, StoppedPCs
  <2>. QED
    BY <1>1, <2>1, <2>2, SensorStage
<1>2. ASSUME pc' \in FinalPCs
      PROVE  \A d \in Drivers : doc'.sensors[d] = IF failed'[d] THEN "failed" ELSE "stopped"
  <2>1. CASE PublishResults
    <3>1. mode = "execute" /\ pc = "publishResults"
      BY <2>1 DEF PublishResults, Publish
    <3>2. Publish("publishResults", "finalize", "stopping", sensors)
      BY <2>1 DEF PublishResults
    <3>. QED
      BY <3>1, <3>2, PublishEffect DEF SensorInv
  <2>2. CASE pc \in FinalPCs /\ mode = "execute"
    <3>1. failed' = failed
      <4>1. AfterStop /\ ~CollectResult
        BY <2>2 DEF FinalPCs, AfterStop, CollectResult
      <4>. QED
        BY <4>1, FailedFrame
    <3>2. doc'.sensors = doc.sensors
      <4>1. CASE FinalizeRun
        BY <4>1, FinalizeEffect DEF FinalizeRun
      <4>2. CASE ~FinalizeRun
        BY <2>2, <4>2, ManifestFrame DEF ManifestStep, FinalPCs, fileVars, ConfigurationFails,
           StopConfiguredLidars, WriteRunning, Preflight, PublishInitializing, PublishReady,
           PublishRunning, PublishStopping, PublishStopped, CollectResult, PublishResults,
           Publish
      <4>. QED
        BY <4>1, <4>2
    <3>. QED
      BY <2>2, <3>1, <3>2 DEF SensorInv, FinalPCs
  <2>. QED
    BY <1>2, <2>1, <2>2, SensorStage
<1>. QED
  BY <1>1, <1>2 DEF SensorInv, StoppedPCs, FinalPCs

----------------------------------------------------------------------------
(* Verdicts.                                                               *)

LEMMA PlaceStep ==
    ASSUME ModeInv, StopInv, stopped \in BOOLEAN, VerdictPlace, [Next]_vars
    PROVE  VerdictPlace' /\ (mode' = "main" <=> mode = "main")
BY ZenonT(90) DEF VerdictPlace, ModeInv, StopInv, MainPCs, AfterStop, ThrowPoints, Next, vars, mainVars,
   Coordinator, Signal, SignalRaised, SignalStored, Exited, PrepareConfiguration,
   ConfigurationFails, StopConfiguredLidars, BuildDrivers, WriteRunning, FinishBeforeInit,
   Preflight, PublishInitializing, InitCheck, InitReady, InitFalse, InitThrows,
   PublishReady, Publish, SpawnThread, SpawnFails, SpawnDone, PublishRunning, Poll,
   CheckDisk, CheckSensors, Monitor, PublishStopping, RaiseTerminate, TerminateAll, Join,
   Shutdown, ShutdownDone, DisarmSession, PublishStopped, DisarmMain, CollectResult,
   CollectDone, PublishResults, FinalizeRun, Report, ExecuteThrows, CollectThrows, Driver,
   RunReturns, RunThrows, ThreadExits, WorkerMarksFailed, WorkerTerminates,
   WorkerRequestsStop, unchangedByMain, unchangedBySignal, unchangedByDriver

(* In a place where a clean verdict may exist, drivers that are clean and  *)
(* published stay so.                                                      *)
LEMMA NoFailureStep ==
    ASSUME TypeInv, TeardownInv, ResultInv, VerdictPlace, mode # "main", NoFailure,
           [Next]_vars
    PROVE  NoFailure'
<1>1. AfterStop
  BY DEF VerdictPlace, AfterStop
<1>2. CASE CollectResult
  <2>1. published' = published /\ failed' = failed
    BY <1>2, CollectEffect DEF NoFailure, TypeInv, TypeOK, CoordinatorTypeOK
  <2>. QED
    BY <2>1 DEF NoFailure
<1>3. CASE ~CollectResult
  <2>1. published' = published /\ failed' = failed
    BY <1>1, <1>3, PublishedFrame, FailedFrame
  <2>. QED
    BY <2>1 DEF NoFailure
<1>. QED
  BY <1>2, <1>3

(* A file that a step leaves alone keeps its verdict.                      *)
LEMMA VerdictKept ==
    ASSUME TypeInv, ModeInv, StopInv, TeardownInv, ResultInv, [Next]_vars,
           NEW file, CleanVerdict(file)
    PROVE  file.status \in CleanStatuses =>
              /\ file.phase = "finished"
              /\ VerdictPlace'
              /\ mode' # "main" => NoFailure' /\ \A d \in Drivers : file.results[d] = "ok"
<1>1. stopped \in BOOLEAN
  BY DEF TypeInv, TypeOK, CoordinatorTypeOK
<1>. QED
  BY <1>1, PlaceStep, NoFailureStep DEF CleanVerdict

(* A copy on disk is left alone or replaced by the document in memory.     *)
LEMMA CopyFrame ==
    ASSUME [Next]_vars
    PROVE  /\ disk' = disk \/ disk' = doc'
           /\ control' = control \/ control' = doc'
<1>1. ASSUME NEW d, NEW ok, Write(d, ok)
      PROVE  (disk' = disk \/ disk' = doc') /\ (control' = control \/ control' = doc')
  BY <1>1 DEF Write
<1>2. CASE UNCHANGED fileVars
  BY <1>2 DEF fileVars
<1>3. CASE \/ ConfigurationFails \/ StopConfiguredLidars \/ WriteRunning \/ Preflight
           \/ FinalizeRun
  BY <1>1, <1>2, <1>3 DEF ConfigurationFails, StopConfiguredLidars, WriteRunning, Preflight,
     FinalizeRun, FinishBeforeInit, Finalize, fileVars
<1>4. CASE \/ PublishInitializing \/ PublishReady \/ PublishRunning \/ PublishStopping
           \/ PublishStopped \/ PublishResults
  BY <1>1, <1>2, <1>4 DEF PublishInitializing, PublishReady, PublishRunning,
     PublishStopping, PublishStopped, PublishResults, Publish, PublishLifecycle, fileVars
<1>5. CASE CollectResult
  BY <1>5 DEF CollectResult
<1>. QED
  BY <1>2, <1>3, <1>4, <1>5, ManifestFrame DEF ManifestStep

(* The document in memory.  Only three steps give it a clean status or     *)
(* change one that has it.                                                 *)
LEMMA DocVerdictStep ==
    ASSUME TypeInv, ModeInv, StopInv, TeardownInv, ResultInv, CleanVerdict(doc), [Next]_vars
    PROVE  CleanVerdict(doc)'
<1>1. CASE UNCHANGED doc
  BY <1>1, VerdictKept DEF CleanVerdict
<1>2. CASE ConfigurationFails \/ StopConfiguredLidars
  <2>1. CASE \E status : FinishBeforeInit(status)
    <3>1. mode' = "main" /\ pc' = "done" /\ doc'.phase = "finished"
      BY <1>2, <2>1, FinalizeEffect DEF ConfigurationFails, StopConfiguredLidars,
         FinishBeforeInit, ModeInv, MainPCs
    <3>. QED
      BY <3>1 DEF CleanVerdict, VerdictPlace
  <2>2. CASE UNCHANGED doc
    BY <1>1, <2>2
  <2>. QED
    BY <1>2, <2>1, <2>2 DEF ConfigurationFails, StopConfiguredLidars, fileVars
<1>3. CASE WriteRunning
  <2>1. doc'.status = "running"
    BY <1>3 DEF WriteRunning, Write, TypeInv, TypeOK, ManifestTypeOK, Documents
  <2>. QED
    BY <2>1 DEF CleanVerdict, CleanStatuses
<1>4. CASE Preflight
  <2>1. UNCHANGED doc \/ doc'.status = "failed disk"
    BY <1>4, FinalizeEffect DEF Preflight, fileVars
  <2>. QED
    BY <1>1, <2>1 DEF CleanVerdict, CleanStatuses
<1>5. ASSUME NEW from, NEW to, NEW phase, NEW s, Publish(from, to, phase, s),
             from \notin {"report", "done", "results", "finalize"}
      PROVE  CleanVerdict(doc)'
  <2>1. ~VerdictPlace
    BY <1>5 DEF Publish, VerdictPlace
  <2>2. doc.status \notin CleanStatuses
    BY <2>1 DEF CleanVerdict
  <2>3. doc'.status \notin CleanStatuses
    BY <1>5, <2>2, PublishEffect
  <2>. QED
    BY <2>3 DEF CleanVerdict
<1>6. CASE \/ PublishInitializing \/ PublishReady \/ PublishStopping
           \/ PublishStopped \/ PublishResults
  BY <1>5, <1>6 DEF PublishInitializing, PublishReady, PublishStopping,
     PublishStopped, PublishResults
<1>7. CASE PublishRunning
  BY <1>1, <1>5, <1>7 DEF PublishRunning, fileVars
<1>8. CASE CollectResult
  <2>1. CASE doc.status \in CleanStatuses
    <3>1. next + 1 \in Drivers
      BY <1>8, CollectEffect
    <3>2. mode # "main" /\ published[next + 1]
      BY <1>8, <2>1, <3>1 DEF CollectResult, ModeInv, MainPCs, CleanVerdict, NoFailure
    <3>. QED
      BY <1>1, <1>8, <3>2 DEF CollectResult
  <2>2. CASE doc.status \notin CleanStatuses
    <3>1. doc'.status = doc.status
      BY <1>8 DEF CollectResult, AddDriverResult, TypeInv, TypeOK, ManifestTypeOK, Documents
    <3>. QED
      BY <2>2, <3>1 DEF CleanVerdict
  <2>. QED
    BY <2>1, <2>2
<1>9. CASE FinalizeRun
  <2>1. /\ doc'.status = Outcome /\ doc'.phase = "finished" /\ doc'.results = doc.results
        /\ failed' = failed /\ published' = published /\ mode' = mode
        /\ pc = "finalize"
    BY <1>9, FinalizeEffect DEF FinalizeRun, driverVars, coordVars
  <2>2. CASE Outcome \in CleanStatuses
    <3>1. mode # "catch" /\ \A d \in Drivers : ~failed[d]
      BY <2>2 DEF Outcome, CleanStatuses
    <3>2. mode = "execute" /\ pc' = "report"
      BY <1>9, <2>1, <3>1 DEF FinalizeRun, ModeInv, MainPCs, TypeInv, TypeOK,
         CoordinatorTypeOK
    <3>3. \A d \in Drivers : published[d] /\ doc.results[d] = "ok"
      BY <2>1, <3>1, <3>2 DEF ResultInv
    <3>. QED
      BY <2>1, <3>1, <3>2, <3>3 DEF CleanVerdict, VerdictPlace, NoFailure
  <2>3. CASE Outcome \notin CleanStatuses
    BY <2>1, <2>3 DEF CleanVerdict
  <2>. QED
    BY <2>2, <2>3
<1>10. UNCHANGED fileVars => UNCHANGED doc
  BY DEF fileVars
<1>. QED
  BY <1>1, <1>2, <1>3, <1>4, <1>6, <1>7, <1>8, <1>9, <1>10, ManifestFrame DEF ManifestStep

LEMMA VerdictStep ==
    /\ TypeInv /\ ModeInv /\ StopInv /\ TeardownInv /\ ResultInv /\ VerdictInv
    /\ [Next]_vars
    => VerdictInv'
<1>. SUFFICES ASSUME TypeInv, ModeInv, StopInv, TeardownInv, ResultInv, VerdictInv,
                     [Next]_vars
              PROVE  VerdictInv'
  OBVIOUS
<1>1. CleanVerdict(doc)'
  BY DocVerdictStep DEF VerdictInv
<1>2. CleanVerdict(disk)'
  BY <1>1, CopyFrame, VerdictKept DEF VerdictInv, CleanVerdict
<1>3. CleanVerdict(control)'
  BY <1>1, CopyFrame, VerdictKept DEF VerdictInv, CleanVerdict
<1>. QED
  BY <1>1, <1>2, <1>3 DEF VerdictInv

----------------------------------------------------------------------------
(* The exit code.                                                          *)

EndPCs == {"report", "done"}

(* A session reaches its end through FinalizeRun or, after a failed        *)
(* pre-flight, through the destructor of Cleanup.                          *)
LEMMA EndStage ==
    ASSUME mode \in {"main", "execute", "catch", "preflight"}, ModeInv, [Next]_vars,
           mode' # "main", pc' \in EndPCs
    PROVE  \/ FinalizeRun
           \/ mode' = "preflight"
           \/ /\ pc \in EndPCs /\ mode # "main" /\ mode' = mode
              /\ exitCode' = exitCode
BY ZenonT(90) DEF EndPCs, ModeInv, MainPCs, ThrowPoints, Next, vars, mainVars, Coordinator, Signal, SignalRaised, SignalStored, Exited, PrepareConfiguration,
   ConfigurationFails, StopConfiguredLidars, BuildDrivers, WriteRunning, FinishBeforeInit,
   Preflight, PublishInitializing, InitCheck, InitReady, InitFalse, InitThrows,
   PublishReady, Publish, SpawnThread, SpawnFails, SpawnDone, PublishRunning, Poll,
   CheckDisk, CheckSensors, Monitor, PublishStopping, RaiseTerminate, TerminateAll, Join,
   Shutdown, ShutdownDone, DisarmSession, PublishStopped, DisarmMain, CollectResult,
   CollectDone, PublishResults, FinalizeRun, Report, ExecuteThrows, CollectThrows, Driver,
   RunReturns, RunThrows, ThreadExits, WorkerMarksFailed, WorkerTerminates,
   WorkerRequestsStop, unchangedByMain, unchangedBySignal, unchangedByDriver

LEMMA PreflightExit ==
    ASSUME mode = "preflight" => exitCode = 1, ModeInv, [Next]_vars
    PROVE  mode' = "preflight" => exitCode' = 1
BY DEF ModeInv, MainPCs, Next, vars, mainVars, Coordinator, Signal, SignalRaised, SignalStored, Exited, PrepareConfiguration,
   ConfigurationFails, StopConfiguredLidars, BuildDrivers, WriteRunning, FinishBeforeInit,
   Preflight, PublishInitializing, InitCheck, InitReady, InitFalse, InitThrows,
   PublishReady, Publish, SpawnThread, SpawnFails, SpawnDone, PublishRunning, Poll,
   CheckDisk, CheckSensors, Monitor, PublishStopping, RaiseTerminate, TerminateAll, Join,
   Shutdown, ShutdownDone, DisarmSession, PublishStopped, DisarmMain, CollectResult,
   CollectDone, PublishResults, FinalizeRun, Report, ExecuteThrows, CollectThrows, Driver,
   RunReturns, RunThrows, ThreadExits, WorkerMarksFailed, WorkerTerminates,
   WorkerRequestsStop, unchangedByMain, unchangedBySignal, unchangedByDriver

LEMMA ExitStep == TypeInv /\ ModeInv /\ ExitInv /\ [Next]_vars => ExitInv'
<1>. SUFFICES ASSUME TypeInv, ModeInv, ExitInv, [Next]_vars PROVE ExitInv'
  OBVIOUS
<1>1. mode' = "preflight" => exitCode' = 1
  BY PreflightExit DEF ExitInv
<1>2. ASSUME mode' # "main", pc' \in EndPCs, exitCode' = 0
      PROVE  /\ mode' = "execute"
             /\ doc'.status \in CleanStatuses
             /\ disk' = doc'
             /\ HasControl => control' = doc'
  <2>1. CASE FinalizeRun
    <3>1. PICK ok \in BOOLEAN :
            /\ Finalize(Outcome, ok)
            /\ exitCode' = IF Outcome \in CleanStatuses /\ ok THEN 0 ELSE 1
      BY <2>1 DEF FinalizeRun
    <3>2. Outcome \in CleanStatuses /\ ok
      BY <1>2, <3>1
    <3>3. mode = "execute" /\ mode' = mode
      BY <2>1, <3>2 DEF FinalizeRun, Outcome, CleanStatuses, ModeInv, MainPCs, TypeInv,
         TypeOK, CoordinatorTypeOK
    <3>4. doc'.status = Outcome
      BY <3>1, FinalizeEffect
    <3>5. disk' = doc' /\ (HasControl => control' = doc')
      BY <3>1, <3>2 DEF Finalize, Write
    <3>. QED
      BY <3>2, <3>3, <3>4, <3>5
  <2>2. CASE mode' = "preflight"
    BY <1>1, <1>2, <2>2
  <2>3. CASE ~FinalizeRun /\ pc \in EndPCs /\ mode # "main" /\ mode' = mode /\ exitCode' = exitCode
    <3>1. UNCHANGED fileVars
      BY <2>3, ManifestFrame DEF ManifestStep, EndPCs, fileVars, ConfigurationFails,
         StopConfiguredLidars, WriteRunning, Preflight, PublishInitializing, PublishReady,
         PublishRunning, PublishStopping, PublishStopped, CollectResult, PublishResults,
         Publish
    <3>. QED
      BY <1>2, <2>3, <3>1 DEF ExitInv, EndPCs, fileVars
  <2>. QED
    BY <1>2, <2>1, <2>2, <2>3, EndStage DEF TypeInv, TypeOK, CoordinatorTypeOK
<1>. QED
  BY <1>1, <1>2 DEF ExitInv, EndPCs

----------------------------------------------------------------------------
(* The finished manifest.                                                  *)

(* Where the coordinator can be once the document is finished.             *)
FinishedPlace ==
    \/ mode = "main" /\ pc = "done"
    \/ mode = "execute" /\ pc \in {"report", "done"}
    \/ mode \in {"catch", "preflight"}

FinishedInv == doc.phase = "finished" => FinishedPlace

LEMMA FinishedPlaceStep ==
    ASSUME ModeInv, FinishedPlace, [Next]_vars
    PROVE  FinishedPlace'
BY ZenonT(90) DEF FinishedPlace, ModeInv, MainPCs, ThrowPoints, Next, vars, mainVars, Coordinator,
   Signal, SignalRaised, SignalStored, Exited, unchangedByMain,
   PrepareConfiguration, ConfigurationFails, StopConfiguredLidars, BuildDrivers, WriteRunning,
   FinishBeforeInit, Preflight, PublishInitializing, InitCheck, InitReady, InitFalse,
   InitThrows, PublishReady, Publish, SpawnThread, SpawnFails, SpawnDone, PublishRunning,
   Poll, CheckDisk, CheckSensors, Monitor, PublishStopping, RaiseTerminate, TerminateAll,
   Join, Shutdown, ShutdownDone, DisarmSession, PublishStopped, DisarmMain, CollectResult,
   CollectDone, PublishResults, FinalizeRun, Report, ExecuteThrows, CollectThrows,
   Driver, RunReturns, RunThrows, ThreadExits, WorkerMarksFailed, WorkerTerminates,
   WorkerRequestsStop, unchangedBySignal, unchangedByDriver

LEMMA FinishedStep ==
    ASSUME TypeInv, ModeInv, ResultInv, FinishedInv, [Next]_vars
    PROVE  FinishedInv'
<1>1. CASE doc'.phase = doc.phase
  BY <1>1, FinishedPlaceStep DEF FinishedInv
<1>2. CASE ConfigurationFails \/ StopConfiguredLidars
  <2>1. CASE \E status : FinishBeforeInit(status)
    <3>1. mode' = "main" /\ pc' = "done"
      BY <1>2, <2>1 DEF ConfigurationFails, StopConfiguredLidars, FinishBeforeInit, ModeInv,
         MainPCs
    <3>. QED
      BY <3>1 DEF FinishedInv, FinishedPlace
  <2>2. CASE UNCHANGED doc
    BY <1>1, <2>2
  <2>. QED
    BY <1>2, <2>1, <2>2 DEF ConfigurationFails, StopConfiguredLidars, fileVars
<1>3. CASE WriteRunning \/ CollectResult
  <2>1. [doc EXCEPT !.status = "running"].phase = doc.phase
    BY DEF TypeInv, TypeOK, ManifestTypeOK, Documents
  <2>2. \A d \in Drivers, b \in BOOLEAN : AddDriverResult(d, b) => doc'.phase = doc.phase
    BY DEF AddDriverResult, TypeInv, TypeOK, ManifestTypeOK, Documents
  <2>3. CollectResult => doc'.phase = doc.phase
    <3>. SUFFICES ASSUME CollectResult PROVE doc'.phase = doc.phase
      OBVIOUS
    <3>1. next + 1 \in Drivers
      BY CollectEffect
    <3>2. UNCHANGED doc \/ \E b \in BOOLEAN : AddDriverResult(next + 1, b)
      BY <3>1 DEF CollectResult, TypeInv, TypeOK, DriverTypeOK
    <3>. QED
      BY <2>2, <3>1, <3>2
  <2>. QED
    BY <1>1, <1>3, <2>1, <2>3 DEF WriteRunning, Write
<1>4. CASE Preflight
  <2>1. UNCHANGED doc \/ mode' = "preflight"
    BY <1>4 DEF Preflight, fileVars
  <2>. QED
    BY <1>1, <2>1 DEF FinishedInv, FinishedPlace
<1>5. ASSUME NEW from, NEW to, NEW phase, NEW s, Publish(from, to, phase, s),
             phase \in {"initializing", "running", "stopping"}
      PROVE  FinishedInv'
  <2>1. [doc EXCEPT !.phase = phase, !.sensors = sensors'].phase = phase
    BY DEF TypeInv, TypeOK, ManifestTypeOK, Documents
  <2>2. doc'.phase = phase
    BY <1>5, <2>1 DEF Publish, PublishLifecycle, Write
  <2>. QED
    BY <1>5, <2>2 DEF FinishedInv
<1>6. CASE \/ PublishInitializing \/ PublishReady \/ PublishStopping
           \/ PublishStopped \/ PublishResults
  BY <1>5, <1>6 DEF PublishInitializing, PublishReady, PublishStopping, PublishStopped,
     PublishResults
<1>7. CASE PublishRunning
  BY <1>1, <1>5, <1>7 DEF PublishRunning, fileVars
<1>8. CASE FinalizeRun
  <2>1. mode' = mode /\ pc = "finalize" /\ pc' = IF mode = "catch" THEN "done" ELSE "report"
    BY <1>8 DEF FinalizeRun
  <2>2. mode \in {"execute", "catch"}
    BY <2>1 DEF ModeInv, MainPCs, TypeInv, TypeOK, CoordinatorTypeOK
  <2>. QED
    BY <2>1, <2>2 DEF FinishedInv, FinishedPlace
<1>9. UNCHANGED fileVars => doc'.phase = doc.phase
  BY DEF fileVars
<1>. QED
  BY <1>1, <1>2, <1>3, <1>4, <1>6, <1>7, <1>8, <1>9, ManifestFrame DEF ManifestStep

----------------------------------------------------------------------------
(* Stops that are no failures.                                             *)

(* What a run without trouble looks like at every step: nothing has        *)
(* failed, whoever asked it to stop.                                       *)
QuietInv ==
    ~trouble =>
        /\ mode \in {"main", "execute"} /\ exitCode = 0
        /\ lifecycleOk /\ first \in {"", "driver"}
        /\ \A d \in Drivers : ~failed[d]

LEMMA TroubleSticky == ASSUME [Next]_vars, trouble PROVE trouble'
BY ZenonT(90) DEF Next, vars, Coordinator,
   Signal, SignalRaised, SignalStored, Exited, unchangedByMain, PublishLifecycle, RequestFailure,
   PrepareConfiguration, ConfigurationFails, StopConfiguredLidars, BuildDrivers, WriteRunning,
   FinishBeforeInit, Preflight, PublishInitializing, InitCheck, InitReady, InitFalse,
   InitThrows, PublishReady, Publish, SpawnThread, SpawnFails, SpawnDone, PublishRunning,
   Poll, CheckDisk, CheckSensors, Monitor, PublishStopping, RaiseTerminate, TerminateAll,
   Join, Shutdown, ShutdownDone, DisarmSession, PublishStopped, DisarmMain, CollectResult,
   CollectDone, PublishResults, FinalizeRun, Report, ExecuteThrows, CollectThrows,
   Driver, RunReturns, RunThrows, ThreadExits, WorkerMarksFailed, WorkerTerminates,
   WorkerRequestsStop, unchangedBySignal, unchangedByDriver

(* Only a step that is trouble charges a driver with a failure.            *)
LEMMA QuietDrivers == ASSUME [Next]_vars, ~trouble' PROVE failed' = failed
<1>1. CASE UNCHANGED driverVars
  BY <1>1 DEF driverVars
<1>2. CASE InitCheck \/ SpawnThread \/ RaiseTerminate \/ TerminateAll
  BY <1>2 DEF InitCheck, SpawnThread, RaiseTerminate, TerminateAll
<1>3. CASE (\E fault \in BOOLEAN : InitFalse(fault)) \/ InitThrows \/ SpawnFails \/ Shutdown
  BY <1>3 DEF InitFalse, InitThrows, SpawnFails, Shutdown, RequestFailure
<1>4. CASE CheckSensors \/ CollectResult
  BY <1>4 DEF CheckSensors, CollectResult, RequestFailure, driverVars
<1>5. CASE \E d \in Drivers : Driver(d)
  BY <1>5 DEF Driver, RunReturns, RunThrows, ThreadExits, WorkerMarksFailed,
     WorkerTerminates, WorkerRequestsStop
<1>. QED
  BY <1>1, <1>2, <1>3, <1>4, <1>5, DriverFrame DEF DriverStep

LEMMA QuietLoop ==
    ASSUME TypeInv, QuietInv, [Next]_vars, ~trouble, ~trouble'
    PROVE  lifecycleOk' /\ first' \in {"", "driver"}
<1>0. lifecycleOk /\ first \in {"", "driver"}
  BY DEF QuietInv
<1>1. CASE UNCHANGED coordVars
  BY <1>0, <1>1 DEF coordVars
<1>2. ASSUME NEW from, NEW to, NEW phase, NEW s, Publish(from, to, phase, s)
      PROVE  lifecycleOk' /\ first' \in {"", "driver"}
  BY <1>0, <1>2 DEF Publish, PublishLifecycle
<1>3. CASE \/ PublishInitializing \/ PublishReady \/ PublishRunning \/ PublishStopping
           \/ PublishStopped \/ PublishResults
  BY <1>1, <1>2, <1>3 DEF PublishInitializing, PublishReady, PublishRunning,
     PublishStopping, PublishStopped, PublishResults
<1>4. CASE Poll \/ CheckDisk \/ CheckSensors
  BY <1>0, <1>4 DEF Poll, CheckDisk, CheckSensors, Monitor, RequestFailure
<1>5. CASE InitReady \/ SpawnThread \/ TerminateAll \/ Join \/ Shutdown
  BY <1>0, <1>5 DEF InitReady, SpawnThread, TerminateAll, Join, Shutdown
<1>6. CASE DisarmMain \/ CollectResult \/ ExecuteThrows
  BY <1>0, <1>6 DEF DisarmMain, CollectResult, ExecuteThrows
<1>. QED
  BY <1>1, <1>3, <1>4, <1>5, <1>6, LoopFrame DEF LoopStep

(* Without a failure the outcome is a clean one.                           *)
LEMMA QuietOutcome ==
    ASSUME QuietInv, ~trouble PROVE Outcome \in CleanStatuses
BY DEF QuietInv, Outcome, CleanStatuses

LEMMA QuietMain ==
    ASSUME TypeInv, QuietInv, [Next]_vars, ~trouble, ~trouble'
    PROVE  mode' \in {"main", "execute"} /\ exitCode' = 0
<1>0. mode \in {"main", "execute"} /\ exitCode = 0
  BY DEF QuietInv
<1>1. CASE UNCHANGED <<mode, exitCode>>
  BY <1>0, <1>1
<1>2. CASE ConfigurationFails \/ StopConfiguredLidars
  BY <1>0, <1>2 DEF ConfigurationFails, StopConfiguredLidars, FinishBeforeInit
<1>3. CASE WriteRunning
  BY <1>0, <1>3 DEF WriteRunning
<1>4. CASE Preflight \/ ExecuteThrows
  BY <1>0, <1>4 DEF Preflight, ExecuteThrows
<1>5. CASE FinalizeRun
  BY <1>0, <1>5, QuietOutcome DEF FinalizeRun
<1>6. \/ UNCHANGED <<mode, exitCode>> \/ ConfigurationFails \/ StopConfiguredLidars
      \/ WriteRunning \/ Preflight \/ ExecuteThrows \/ FinalizeRun
  BY DEF Next, vars, mainVars, Coordinator, Signal, SignalRaised, SignalStored, Exited,
     PrepareConfiguration, BuildDrivers, PublishInitializing, InitCheck, InitReady, InitFalse,
     InitThrows, PublishReady, Publish, SpawnThread, SpawnFails, SpawnDone, PublishRunning,
     Poll, CheckDisk, CheckSensors, Monitor, PublishStopping, RaiseTerminate, TerminateAll,
     Join, Shutdown, ShutdownDone, DisarmSession, PublishStopped, DisarmMain, CollectResult,
     CollectDone, PublishResults, Report, CollectThrows, Driver, RunReturns, RunThrows,
     ThreadExits, WorkerMarksFailed, WorkerTerminates, WorkerRequestsStop, unchangedBySignal,
     unchangedByDriver
<1>. QED
  BY <1>1, <1>2, <1>3, <1>4, <1>5, <1>6

LEMMA QuietStep == ASSUME TypeInv, QuietInv, [Next]_vars PROVE QuietInv'
<1>. SUFFICES ASSUME ~trouble'
              PROVE  /\ mode' \in {"main", "execute"} /\ exitCode' = 0
                     /\ lifecycleOk' /\ first' \in {"", "driver"}
                     /\ \A d \in Drivers : ~failed'[d]
  BY DEF QuietInv
<1>1. ~trouble
  BY TroubleSticky
<1>. QED
  BY <1>1, QuietDrivers, QuietLoop, QuietMain DEF QuietInv

----------------------------------------------------------------------------
(* The theorems.                                                           *)

IInv == TypeInv /\ SafetyInv /\ FinishedInv /\ QuietInv

LEMMA IInvInit == Init => IInv
<1>. SUFFICES ASSUME Init PROVE SafetyInv /\ FinishedInv /\ QuietInv
  BY TypeInvInit DEF IInv
<1>1. ModeInv /\ ~AfterStop
  BY DEF Init, ModeInv, MainPCs, AfterStop
<1>2. StopInv /\ TeardownInv /\ SensorInv /\ ExitInv
  BY <1>1 DEF Init, StopInv, TeardownInv, SensorInv, ExitInv
<1>3. /\ doc.results = [d \in Drivers |-> "none"] /\ doc.status = "running"
      /\ doc.phase = "initializing" /\ disk.status = "none" /\ control.status = "none"
  BY DEF Init, NoDocument
<1>4. ResultInv /\ VerdictInv
  BY <1>1, <1>3 DEF Init, ResultInv, VerdictInv, CleanVerdict, CleanStatuses
<1>5. FinishedInv /\ QuietInv
  BY <1>3 DEF Init, FinishedInv, QuietInv
<1>. QED
  BY <1>1, <1>2, <1>4, <1>5 DEF SafetyInv

LEMMA IInvStep == IInv /\ [Next]_vars => IInv'
<1>. SUFFICES ASSUME IInv, [Next]_vars PROVE IInv'
  OBVIOUS
<1>1. TypeInv' /\ ModeInv'
  BY TypeInvStep, ModeStep DEF IInv, SafetyInv
<1>2. StopInv'
  BY StopStep DEF IInv, SafetyInv, TypeInv, TypeOK, CoordinatorTypeOK
<1>3. TeardownInv' /\ ResultInv' /\ SensorInv' /\ VerdictInv' /\ ExitInv'
  BY TeardownStep, ResultStep, SensorStep, VerdictStep, ExitStep DEF IInv, SafetyInv
<1>4. FinishedInv' /\ QuietInv'
  BY FinishedStep, QuietStep DEF IInv, SafetyInv
<1>. QED
  BY <1>1, <1>2, <1>3, <1>4 DEF IInv, SafetyInv

LEMMA IInvCorrect == Spec => []IInv
BY IInvInit, IInvStep, PTL DEF Spec

(* Drivers are shut down only when every Run thread has ended, from the    *)
(* last to the first, whatever made the coordinator stop.                  *)
THEOREM TeardownCorrect == Spec => []TeardownIsOrdered
<1>1. IInv => TeardownIsOrdered
  <2>. SUFFICES ASSUME IInv PROVE TeardownIsOrdered
    OBVIOUS
  <2>1. \A d \in Drivers, e \in Drivers : d > next /\ e > d => e > next
    <3>1. next \in 0 .. N
      BY DEF IInv, TypeInv, TypeOK, CoordinatorTypeOK
    <3>. QED
      BY <3>1 DEF Drivers
  <2>. QED
    BY <2>1 DEF IInv, SafetyInv, TeardownInv, TeardownIsOrdered
<1>. QED
  BY <1>1, IInvCorrect, PTL

(* Every way out of RunSession has released every driver and ended the     *)
(* trigger session.                                                        *)
THEOREM ExitCorrect == Spec => []ExitReleasesEverything
<1>1. IInv => ExitReleasesEverything
  BY DEF IInv, SafetyInv, TeardownInv, AfterStop, ExitReleasesEverything
<1>. QED
  BY <1>1, IInvCorrect, PTL

(* No driver has two results, and a result is the final verdict on it.     *)
THEOREM ResultsCorrect == Spec => []ResultsAreFinal
<1>1. IInv => ResultsAreFinal
  BY DEF IInv, SafetyInv, ResultInv, ResultsAreFinal, TypeInv, TypeOK, DriverTypeOK
<1>. QED
  BY <1>1, IInvCorrect, PTL

(* No copy of the manifest, through any sequence of failed or partial      *)
(* writes, calls a run clean on which a driver failed or is still open.    *)
THEOREM ManifestCorrect == Spec => []ManifestNeverOverclaims
<1>1. IInv => ManifestNeverOverclaims
  <2>. SUFFICES ASSUME IInv, NEW file \in {disk, control}, file.status \in CleanStatuses
                PROVE  /\ file.phase = "finished"
                       /\ mode # "main" => \A d \in Drivers : Clean(d) /\ file.results[d] = "ok"
    BY DEF ManifestNeverOverclaims
  <2>1. CleanVerdict(file)
    BY DEF IInv, SafetyInv, VerdictInv
  <2>2. mode # "main" => AfterStop
    BY <2>1 DEF CleanVerdict, VerdictPlace, AfterStop
  <2>3. failed \in [Drivers -> BOOLEAN]
    BY DEF IInv, TypeInv, TypeOK, DriverTypeOK
  <2>. QED
    BY <2>1, <2>2, <2>3 DEF CleanVerdict, NoFailure, Clean, IInv, SafetyInv, TeardownInv
<1>. QED
  BY <1>1, IInvCorrect, PTL

(* Exit code 0 means that everything is clean, and says so on disk.        *)
THEOREM SuccessCorrect == Spec => []SuccessIsClean
<1>1. IInv => SuccessIsClean
  <2>. SUFFICES ASSUME IInv, pc = "done", exitCode = 0, mode # "main"
                PROVE  /\ mode = "execute" /\ hubEnded
                       /\ \A d \in Drivers : Clean(d)
                       /\ disk.phase = "finished" /\ disk.status \in CleanStatuses
                       /\ disk.sensors = [d \in Drivers |-> "stopped"]
                       /\ disk.results = [d \in Drivers |-> "ok"]
                       /\ HasControl => control = disk
    BY DEF SuccessIsClean
  <2>1. /\ mode = "execute" /\ doc.status \in CleanStatuses
        /\ disk = doc /\ (HasControl => control = doc)
    BY DEF IInv, SafetyInv, ExitInv
  <2>2. doc.phase = "finished" /\ \A d \in Drivers : ~failed[d] /\ doc.results[d] = "ok"
    BY <2>1 DEF IInv, SafetyInv, VerdictInv, CleanVerdict, NoFailure
  <2>3. \A d \in Drivers : doc.sensors[d] = "stopped"
    BY <2>1, <2>2 DEF IInv, SafetyInv, SensorInv
  <2>4. /\ doc.sensors \in [Drivers -> SensorStates] /\ doc.results \in [Drivers -> Results]
        /\ failed \in [Drivers -> BOOLEAN]
    BY DEF IInv, TypeInv, TypeOK, ManifestTypeOK, Documents, DriverTypeOK
  <2>5. /\ doc.sensors = [d \in Drivers |-> "stopped"]
        /\ doc.results = [d \in Drivers |-> "ok"]
    BY <2>2, <2>3, <2>4
  <2>6. hubEnded /\ \A d \in Drivers : Clean(d)
    BY <2>2, <2>4 DEF IInv, SafetyInv, TeardownInv, AfterStop, Clean
  <2>. QED
    BY <2>1, <2>2, <2>5, <2>6
<1>. QED
  BY <1>1, IInvCorrect, PTL

(* A finished manifest of Execute shows the same failures in its lifecycle *)
(* section as in its results, for any number of drivers and whatever fails *)
(* while the results are collected.                                        *)
THEOREM SensorsCorrect == Spec => []SensorStatesAgree
<1>1. IInv => SensorStatesAgree
  <2>. SUFFICES ASSUME IInv, doc.phase = "finished", mode = "execute", NEW d \in Drivers
                PROVE  /\ doc.sensors[d] = "failed" <=> failed[d]
                       /\ doc.sensors[d] \in {"failed", "stopped"}
    BY DEF SensorStatesAgree
  <2>1. pc \in {"report", "done"}
    BY DEF IInv, FinishedInv, FinishedPlace
  <2>2. doc.sensors[d] = IF failed[d] THEN "failed" ELSE "stopped"
    BY <2>1 DEF IInv, SafetyInv, SensorInv
  <2>3. failed[d] \in BOOLEAN
    BY DEF IInv, TypeInv, TypeOK, DriverTypeOK
  <2>. QED
    BY <2>2, <2>3
<1>. QED
  BY <1>1, IInvCorrect, PTL

(* A run on which nothing but stop requests happened exits with 0, for any *)
(* number of drivers and at whatever moment the requests came.             *)
THEOREM StopCorrect == Spec => []StopIsNotFailure
<1>1. IInv => StopIsNotFailure
  BY DEF IInv, QuietInv, StopIsNotFailure
<1>. QED
  BY <1>1, IInvCorrect, PTL
=============================================================================
