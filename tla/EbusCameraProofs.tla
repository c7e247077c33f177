-------------------------- MODULE EbusCameraProofs --------------------------
(***************************************************************************)
(* Theorems about module EbusCamera, for every queue capacity, number of   *)
(* SDK buffers, number of frames, identifier cycle and mode.               *)
(*                                                                         *)
(* The strengthenings say where the threads can be: the workers exist only *)
(* after Init (StagesAgree), nothing is freed before they are joined       *)
(* (TeardownAgrees), and how many slots, buffers and records are on their  *)
(* way through the pipeline (SlotsAccounted, BuffersAccounted,             *)
(* RecordsAccounted).  That a recording is honest rests on what the        *)
(* identifiers tell of the blocks (Continuity), on the order of the blocks *)
(* between the SDK and the disk (RecordKept), and on what Shutdown has     *)
(* compared by the time it closes the recorder (FramesCompared).           *)
(***************************************************************************)
EXTENDS EbusCamera, SequenceTheorems, TLAPS

Early == {"connect", "openStream", "allocate", "record", "register", "ready"}
Starting == {"beforeStart", "startCommand", "openGate"}

(* Before the gate opens no worker has moved and no block has been emitted. *)
StagesAgree ==
    /\ pc \in Early => rpc = "none" /\ wpc = "none" /\ ~runCalled
    /\ pc \in Starting => rpc = "wait"
    /\ pc \in Early \cup Starting => ~gate /\ ~sourceStopped
    /\ ~runCalled => rpc = "none" /\ wpc = "none"
    /\ rpc # "none" => wpc # "none"

(* What Shutdown frees, it frees after both joins. *)
TeardownAgrees ==
    /\ pc = "joinWriter" => rpc \in {"none", "done"}
    /\ pc \in {"returned", "finalChecks", "closeStream", "disconnect", "closeRecorder", "done"}
          => rpc \in {"none", "done"} /\ wpc \in {"none", "done"}
    /\ stream = "closed" => pc \in {"disconnect", "closeRecorder", "done"}
    /\ device = "released" => pc \in {"closeRecorder", "done"}
    /\ recorder = "closed" => pc \notin Early
    /\ recorder = "closed" /\ runCalled => pc = "done"

----------------------------------------------------------------------------
(* What the steps of each thread leave alone, and how its control moves.   *)

LEMMA OutsideLeaves == OutsideStep => OutsideFrame
BY DEF OutsideStep, EmitBlock, CompleteBuffer, LoseBlock, RequestStop, HubChanges

LEMMA WriterMoves ==
    WriterStep => /\ WriterFrame
                  /\ wpc \notin {"none", "done"} /\ wpc' # "none"
<1>. USE DEF writeVars
<1>. SUFFICES ASSUME WriterStep
              PROVE  WriterFrame /\ wpc \notin {"none", "done"} /\ wpc' # "none"
  OBVIOUS
<1>1. CASE PopSlot \/ AppendRecord
  BY <1>1 DEF PopSlot, AppendRecord
<1>2. CASE ReleaseSlot \/ AbandonQueue \/ DiscardSlot
  BY <1>2 DEF ReleaseSlot, AbandonQueue, DiscardSlot
<1>. QED BY <1>1, <1>2 DEF WriterStep

InitStep == Connect \/ OpenStream \/ Allocate \/ OpenRecorder \/ RegisterAndPrepare
RunStep == \/ BeforeStart \/ StartCommand \/ OpenGate \/ Arm \/ ReportStart
           \/ MonitorPass \/ MonitorTrouble \/ MonitorExit
StopStep == Disarm \/ StopSource \/ JoinReceiver \/ JoinWriter \/ Shutdown
ShutdownStep == FinalChecks \/ CloseStream \/ Disconnect \/ CloseRecorder

LEMMA NextCases ==
    [Next]_vars => \/ InitStep \/ StartWorkers \/ RunStep \/ StopStep \/ ShutdownStep
                   \/ ReceiverStep \/ WriterStep \/ OutsideStep \/ UNCHANGED vars
BY DEF Next, MainStep, InitStep, RunStep, StopStep, ShutdownStep, Terminated

LEMMA InitMoves ==
    InitStep => /\ pc \in Early \ {"ready"} /\ pc' \in Early \cup {"returned"}
                /\ InitFrame
                /\ stream' \in {stream, "open"} /\ device' \in {device, "connected"}
                /\ recorder' = "closed" => recorder = "closed" \/ pc' = "returned"
<1>. USE DEF Early, Leaves, InitStage
<1>1. CASE Connect
  BY <1>1 DEF Connect
<1>2. CASE OpenStream
  BY <1>2 DEF OpenStream
<1>3. CASE Allocate
  BY <1>3 DEF Allocate
<1>4. CASE OpenRecorder
  BY <1>4 DEF OpenRecorder
<1>5. CASE RegisterAndPrepare
  BY <1>5 DEF RegisterAndPrepare
<1>. QED BY <1>1, <1>2, <1>3, <1>4, <1>5 DEF InitStep

LEMMA RunMoves ==
    RunStep => /\ pc \in Starting \cup {"arm", "report", "monitor"}
               /\ pc' \in Starting \cup {"arm", "report", "monitor", "disarm"}
               /\ pc' \in Starting => pc \in Starting /\ UNCHANGED gate
               /\ RunFrame /\ WorkerFrame
               /\ UNCHANGED <<runCalled, sourceStopped, wire>>
<1>. USE DEF Starting, startVars, cameraVars
<1>1. CASE BeforeStart \/ StartCommand \/ OpenGate
  BY <1>1 DEF BeforeStart, StartCommand, OpenGate
<1>2. CASE Arm \/ ReportStart
  BY <1>2 DEF Arm, ReportStart
<1>3. CASE MonitorPass \/ MonitorTrouble \/ MonitorExit
  BY <1>3 DEF MonitorPass, MonitorTrouble, MonitorExit, MonitorFrame
<1>. QED BY <1>1, <1>2, <1>3 DEF RunStep

LEMMA StopMoves ==
    StopStep => /\ pc' \in {"disarm", "stopSource", "joinReceiver", "joinWriter",
                            "returned", "finalChecks"}
                /\ pc \notin {"disconnect", "closeRecorder", "done"} \cup Starting
                /\ pc' = "joinWriter" => rpc \in {"none", "done"}
                /\ pc' \in {"returned", "finalChecks"} =>
                      \/ pc = "joinWriter" /\ wpc \in {"none", "done"}
                      \/ pc \in {"ready", "returned"}
                /\ WorkerFrame
                /\ UNCHANGED <<runCalled, stream, device, recorder, sdkFree, sdkDone,
                               requeueErrors, free, queue, written, wire>>
<1>. USE DEF RunFrame, sdkVars, queueVars, recorderVars, cameraVars, Starting
<1>1. CASE Disarm \/ StopSource
  BY <1>1 DEF Disarm, StopSource
<1>2. CASE JoinReceiver
  BY <1>2 DEF JoinReceiver
<1>3. CASE JoinWriter \/ Shutdown
  BY <1>3 DEF JoinWriter, Shutdown
<1>. QED BY <1>1, <1>2, <1>3 DEF StopStep

LEMMA ShutdownMoves ==
    ShutdownStep => /\ pc \in {"finalChecks", "closeStream", "disconnect", "closeRecorder"}
                    /\ pc' \in {"closeStream", "disconnect", "closeRecorder", "done"}
                    /\ stream' \in {stream, "closed"}
                    /\ stream' = "closed" => stream = "closed" \/ pc' = "disconnect"
                    /\ device' = "released" => device = "released" \/ pc' = "closeRecorder"
                    /\ recorder' = "closed" => recorder = "closed" \/ pc' = "done"
                    /\ pc = "disconnect" => pc' = "closeRecorder"
                    /\ pc = "closeRecorder" => pc' = "done"
                    /\ recorder = "none" => recorder' = "none"
                    /\ stream' = "open" => UNCHANGED <<sdkFree, sdkDone, requeueErrors>>
                    /\ WorkerFrame
                    /\ UNCHANGED <<runCalled, startVars, queueVars, written, wire>>
<1>. USE DEF RunFrame, sdkVars, recorderVars, cameraVars
<1>1. CASE FinalChecks
  BY <1>1 DEF FinalChecks
<1>2. CASE CloseStream
  BY <1>2 DEF CloseStream
<1>3. CASE Disconnect
  BY <1>3 DEF Disconnect
<1>4. CASE CloseRecorder
  BY <1>4 DEF CloseRecorder
<1>. QED BY <1>1, <1>2, <1>3, <1>4 DEF ShutdownStep

LEMMA ReceiverMoves ==
    ReceiverStep => /\ ReceiverFrame
                    /\ rpc \notin {"none", "done"} /\ rpc' \notin {"none", "wait"}
                    /\ rpc = "wait" => gate \/ sourceStopped
BY DEF ReceiverStep, ReceiverWait, ReceiverTop, ReceiverTimeout, ReceiverNull, ReceiverQuiet,
   ReceiverError, RejectBuffer, AcceptBuffer, FillSlot, PushSlot, CountAdmitted,
   ReceiverThrows, ReceiverClose, Account

----------------------------------------------------------------------------
(* Types.                                                                  *)

(* Observe (block_ids.h) counts with natural numbers and keeps one. *)
LEMMA ObserveType ==
    ASSUME NEW l \in Nat, NEW id \in Nat
    PROVE  /\ Observe(l, id).last \in Nat /\ Observe(l, id).gap \in Nat
           /\ Observe(l, id).anomaly \in BOOLEAN
<1>1. Distance(l, id) \in Nat
  BY CycleAssumption DEF Distance
<1>. QED BY <1>1 DEF Observe, Anomaly

LEMMA BlockIdType ==
    ASSUME NEW n \in Nat PROVE IdAfter(FirstId, n - 1) \in Nat
BY CycleAssumption, BoundsAssumption DEF IdAfter

(* Taking one element out leaves a sequence over the same set, one shorter. *)
LEMMA WithoutType ==
    ASSUME NEW S, NEW s \in Seq(S), NEW i \in 1 .. Len(s)
    PROVE  Without(s, i) \in Seq(S)
<1>1. SubSeq(s, 1, i - 1) \in Seq(S)
  BY SubSeqProperties
<1>2. SubSeq(s, i + 1, Len(s)) \in Seq(S)
  BY SubSeqProperties
<1>. QED BY <1>1, <1>2, ConcatProperties DEF Without

LEMMA TypeInit == Init => TypeOK
<1>. SUFFICES ASSUME Init PROVE TypeOK
  OBVIOUS
<1>0. << >> \in Seq(Nat) /\ << >> \in Seq(Blocks) /\ NoBlock \in Blocks
  BY DEF Blocks, NoBlock, AllKinds
<1>1. ControlTypeOK
  BY DEF Init, ControlTypeOK, MainPCs
<1>2. OutsideTypeOK
  BY <1>0 DEF Init, OutsideTypeOK
<1>3. ReceiverTypeOK
  BY <1>0 DEF Init, ReceiverTypeOK, ReceiverPCs, NoId
<1>4. StorageTypeOK
  BY <1>0 DEF Init, StorageTypeOK, WriterPCs
<1>. QED BY <1>1, <1>2, <1>3, <1>4 DEF TypeOK

(* The control variables only ever latch, apart from the watchdog's. *)
ControlChange ==
    /\ pc' \in MainPCs \cup {pc}
    /\ initialized' \in {initialized, TRUE} /\ runCalled' \in {runCalled, TRUE}
    /\ startAttempted' \in {startAttempted, TRUE}
    /\ acquisitionStarted' \in {acquisitionStarted, TRUE}
    /\ workersStopped' \in {workersStopped, TRUE}
    /\ device' \in {device, "connected", "released"}
    /\ gate' \in {gate, TRUE} /\ sourceStopped' \in {sourceStopped, TRUE}
    /\ term' \in {term, TRUE} /\ acquiring' \in {acquiring, TRUE, FALSE}

LEMMA ControlChanges == [Next]_vars => ControlChange
<1>. SUFFICES ASSUME [Next]_vars PROVE ControlChange
  OBVIOUS
<1>. USE DEF ControlChange, MainPCs, mainVars, startVars
<1>1. CASE InitStep
  <2>. USE DEF InitFrame, InitStage, Leaves
  <2>1. CASE Connect
    BY <2>1 DEF Connect
  <2>2. CASE OpenStream
    BY <2>2 DEF OpenStream
  <2>3. CASE Allocate
    BY <2>3 DEF Allocate
  <2>4. CASE OpenRecorder
    BY <2>4 DEF OpenRecorder
  <2>5. CASE RegisterAndPrepare
    BY <2>5 DEF RegisterAndPrepare
  <2>. QED BY <1>1, <2>1, <2>2, <2>3, <2>4, <2>5 DEF InitStep
<1>2. CASE StartWorkers
  BY <1>2 DEF StartWorkers, RunFrame
<1>3. CASE RunStep
  <2>. USE DEF RunFrame, MonitorFrame
  <2>1. CASE BeforeStart \/ StartCommand
    BY <2>1 DEF BeforeStart, StartCommand
  <2>2. CASE OpenGate \/ Arm
    BY <2>2 DEF OpenGate, Arm
  <2>3. CASE ReportStart \/ MonitorPass
    BY <2>3 DEF ReportStart, MonitorPass
  <2>4. CASE MonitorTrouble \/ MonitorExit
    BY <2>4 DEF MonitorTrouble, MonitorExit
  <2>. QED BY <1>3, <2>1, <2>2, <2>3, <2>4 DEF RunStep
<1>4. CASE StopStep
  <2>. USE DEF RunFrame
  <2>1. CASE Disarm \/ StopSource
    BY <2>1 DEF Disarm, StopSource
  <2>2. CASE JoinReceiver
    BY <2>2 DEF JoinReceiver
  <2>3. CASE JoinWriter \/ Shutdown
    BY <2>3 DEF JoinWriter, Shutdown
  <2>. QED BY <1>4, <2>1, <2>2, <2>3 DEF StopStep
<1>5. CASE ShutdownStep
  <2>. USE DEF RunFrame
  <2>1. CASE FinalChecks \/ CloseStream
    BY <2>1 DEF FinalChecks, CloseStream
  <2>2. CASE Disconnect \/ CloseRecorder
    BY <2>2 DEF Disconnect, CloseRecorder
  <2>. QED BY <1>5, <2>1, <2>2 DEF ShutdownStep
<1>6. CASE ReceiverStep
  <2>1. UNCHANGED <<mainVars, startVars, term>>
    BY <1>6, ReceiverMoves DEF ReceiverFrame
  <2>2. acquiring' \in {acquiring, FALSE}
    BY <1>6 DEF ReceiverStep, ReceiverWait, ReceiverTop, ReceiverTimeout, ReceiverNull, ReceiverQuiet,
       ReceiverError, RejectBuffer, AcceptBuffer, FillSlot, PushSlot, CountAdmitted,
       ReceiverThrows, ReceiverClose, Account
  <2>. QED BY <2>1, <2>2
<1>7. CASE WriterStep
  BY <1>7, WriterMoves DEF WriterFrame
<1>8. CASE OutsideStep
  <2>1. UNCHANGED <<mainVars, startVars, acquiring>>
    BY <1>8, OutsideLeaves DEF OutsideFrame
  <2>2. term' \in {term, TRUE}
    BY <1>8 DEF OutsideStep, EmitBlock, CompleteBuffer, LoseBlock, RequestStop, HubChanges
  <2>. QED BY <2>1, <2>2
<1>9. CASE UNCHANGED vars
  BY <1>9 DEF vars
<1>. QED BY <1>1, <1>2, <1>3, <1>4, <1>5, <1>6, <1>7, <1>8, <1>9, NextCases

LEMMA VerdictChanges ==
    [Next]_vars => UNCHANGED <<stop, failed>> \/ (stop' \in BOOLEAN /\ failed' \in BOOLEAN)
<1>. SUFFICES ASSUME [Next]_vars
              PROVE  UNCHANGED <<stop, failed>> \/ (stop' \in BOOLEAN /\ failed' \in BOOLEAN)
  OBVIOUS
<1>. USE DEF verdictVars, Verdict
<1>1. CASE InitStep
  BY <1>1 DEF InitStep, Connect, OpenStream, Allocate, OpenRecorder, RegisterAndPrepare,
     InitStage
<1>2. CASE StartWorkers \/ RunStep
  BY <1>2 DEF StartWorkers, RunStep, BeforeStart, StartCommand, OpenGate, Arm, ReportStart,
     MonitorPass, MonitorTrouble, MonitorExit
<1>3. CASE StopStep \/ ShutdownStep
  BY <1>3 DEF StopStep, ShutdownStep, Disarm, StopSource, JoinReceiver, JoinWriter, Shutdown,
     FinalChecks, CloseStream, Disconnect, CloseRecorder
<1>4. CASE ReceiverStep
  BY <1>4 DEF ReceiverStep, ReceiverWait, ReceiverTop, ReceiverTimeout, ReceiverNull, ReceiverQuiet,
     ReceiverError, RejectBuffer, AcceptBuffer, FillSlot, PushSlot, CountAdmitted,
     ReceiverThrows, ReceiverClose
<1>5. CASE WriterStep
  BY <1>5 DEF WriterStep, PopSlot, AppendRecord, ReleaseSlot, AbandonQueue, DiscardSlot
<1>6. CASE OutsideStep
  BY <1>6, OutsideLeaves DEF OutsideFrame
<1>7. CASE UNCHANGED vars
  BY <1>7 DEF vars
<1>. QED BY <1>1, <1>2, <1>3, <1>4, <1>5, <1>6, <1>7, NextCases

LEMMA ControlStep == ControlTypeOK /\ [Next]_vars => ControlTypeOK'
<1>. SUFFICES ASSUME ControlTypeOK, [Next]_vars PROVE ControlTypeOK'
  OBVIOUS
<1>1. ControlChange
  BY ControlChanges
<1>2. pc' \in MainPCs
  BY <1>1 DEF ControlChange, ControlTypeOK
<1>3. stop' \in BOOLEAN /\ failed' \in BOOLEAN
  BY VerdictChanges DEF ControlTypeOK
<1>4. /\ initialized' \in BOOLEAN /\ runCalled' \in BOOLEAN
      /\ startAttempted' \in BOOLEAN /\ acquisitionStarted' \in BOOLEAN
      /\ workersStopped' \in BOOLEAN
  BY <1>1 DEF ControlChange, ControlTypeOK
<1>5. device' \in {"none", "connected", "released"}
  BY <1>1 DEF ControlChange, ControlTypeOK
<1>6. /\ gate' \in BOOLEAN /\ sourceStopped' \in BOOLEAN /\ acquiring' \in BOOLEAN
      /\ term' \in BOOLEAN
  BY <1>1 DEF ControlChange, ControlTypeOK
<1>. QED BY <1>2, <1>3, <1>4, <1>5, <1>6 DEF ControlTypeOK

(* The flags of the camera, the hub and the SDK. *)
OutsideChange ==
    /\ registered' \in {registered} \cup BOOLEAN /\ armed' \in {armed} \cup BOOLEAN
    /\ hubStarted' \in {hubStarted} \cup BOOLEAN /\ hubEnded' \in {hubEnded} \cup BOOLEAN
    /\ hubOk' \in {hubOk} \cup BOOLEAN
    /\ cameraOn' \in {cameraOn} \cup BOOLEAN /\ dropped' \in {dropped} \cup BOOLEAN
    /\ stream' \in {stream, "open", "closed"}

LEMMA OutsideChanges == [Next]_vars => OutsideChange
<1>. SUFFICES ASSUME [Next]_vars PROVE OutsideChange
  OBVIOUS
<1>. USE DEF OutsideChange, hubVars, cameraVars, sdkVars
<1>1. CASE InitStep
  <2>. USE DEF InitFrame, InitStage, Leaves
  <2>1. CASE Connect \/ OpenStream
    BY <2>1 DEF Connect, OpenStream
  <2>2. CASE Allocate \/ OpenRecorder
    BY <2>2 DEF Allocate, OpenRecorder
  <2>3. CASE RegisterAndPrepare
    BY <2>3 DEF RegisterAndPrepare
  <2>. QED BY <1>1, <2>1, <2>2, <2>3 DEF InitStep
<1>2. CASE StartWorkers
  BY <1>2 DEF StartWorkers, RunFrame
<1>3. CASE RunStep
  <2>. USE DEF RunFrame, MonitorFrame
  <2>1. CASE BeforeStart \/ StartCommand
    BY <2>1 DEF BeforeStart, StartCommand
  <2>2. CASE OpenGate \/ Arm
    BY <2>2 DEF OpenGate, Arm
  <2>3. CASE ReportStart \/ MonitorPass
    BY <2>3 DEF ReportStart, MonitorPass
  <2>4. CASE MonitorTrouble \/ MonitorExit
    BY <2>4 DEF MonitorTrouble, MonitorExit
  <2>. QED BY <1>3, <2>1, <2>2, <2>3, <2>4 DEF RunStep
<1>4. CASE StopStep
  <2>. USE DEF RunFrame
  <2>1. CASE Disarm
    BY <2>1 DEF Disarm
  <2>2. CASE StopSource
    BY <2>2 DEF StopSource
  <2>3. CASE JoinReceiver \/ JoinWriter \/ Shutdown
    BY <2>3 DEF JoinReceiver, JoinWriter, Shutdown
  <2>. QED BY <1>4, <2>1, <2>2, <2>3 DEF StopStep
<1>5. CASE ShutdownStep
  BY <1>5 DEF ShutdownStep, FinalChecks, CloseStream, Disconnect, CloseRecorder, RunFrame
<1>6. CASE ReceiverStep
  BY <1>6, ReceiverMoves DEF ReceiverFrame
<1>7. CASE WriterStep
  BY <1>7, WriterMoves DEF WriterFrame
<1>8. CASE OutsideStep
  BY <1>8 DEF OutsideStep, EmitBlock, CompleteBuffer, LoseBlock, RequestStop, HubChanges,
     OutsideFrame
<1>9. CASE UNCHANGED vars
  BY <1>9 DEF vars
<1>. QED BY <1>1, <1>2, <1>3, <1>4, <1>5, <1>6, <1>7, <1>8, <1>9, NextCases

(* The counters and queues of the camera and the SDK. *)
OutsideData ==
    /\ emitted \in Nat /\ wire \in Seq(Nat)
    /\ sdkFree \in Nat /\ sdkDone \in Seq(Blocks) /\ arrived \in Nat
    /\ requeueErrors \in Nat

LEMMA OutsideDataStep == OutsideData /\ [Next]_vars => OutsideData'
<1>. SUFFICES ASSUME OutsideData, [Next]_vars PROVE OutsideData'
  OBVIOUS
<1>. USE DEF OutsideData, cameraVars, sdkVars
<1>1. CASE InitStep
  <2>1. sdkFree' \in {sdkFree, SdkBuffers}
    BY <1>1 DEF InitStep, Connect, OpenStream, Allocate, OpenRecorder, RegisterAndPrepare,
       Leaves
  <2>2. UNCHANGED <<emitted, wire, sdkDone, arrived, requeueErrors>>
    BY <1>1, InitMoves DEF InitFrame
  <2>. QED BY <2>1, <2>2, BuffersAssumption
<1>2. CASE StartWorkers \/ RunStep \/ StopStep
  BY <1>2 DEF RunStep, StopStep, StartWorkers, BeforeStart, StartCommand, OpenGate, Arm,
     ReportStart, MonitorPass, MonitorTrouble, MonitorExit, MonitorFrame, Disarm, StopSource,
     JoinReceiver, JoinWriter, Shutdown, RunFrame
<1>3. CASE ShutdownStep
  <2>1. CASE CloseStream
    <3>1. << >> \in Seq(Blocks)
      OBVIOUS
    <3>. QED BY <2>1, <3>1 DEF CloseStream
  <2>. QED BY <1>3, <2>1 DEF ShutdownStep, FinalChecks, Disconnect, CloseRecorder, RunFrame
<1>4. CASE ReceiverStep
  <2>1. UNCHANGED <<emitted, wire, arrived>>
    BY <1>4, ReceiverMoves DEF ReceiverFrame
  <2>2. sdkDone' = sdkDone \/ (sdkDone # << >> /\ sdkDone' = Tail(sdkDone))
    BY <1>4 DEF ReceiverStep, ReceiverWait, ReceiverTop, ReceiverTimeout, ReceiverNull, ReceiverQuiet,
       ReceiverError, RejectBuffer, AcceptBuffer, FillSlot, PushSlot, CountAdmitted,
       ReceiverThrows, ReceiverClose, Account
  <2>3. /\ sdkFree' \in {sdkFree, sdkFree + 1}
        /\ requeueErrors' \in {requeueErrors, requeueErrors + 1}
    BY <1>4 DEF ReceiverStep, ReceiverWait, ReceiverTop, ReceiverTimeout, ReceiverNull, ReceiverQuiet,
       ReceiverError, RejectBuffer, AcceptBuffer, FillSlot, PushSlot, CountAdmitted,
       ReceiverThrows, ReceiverClose, Requeue
  <2>4. sdkDone' \in Seq(Blocks)
    BY <2>2, HeadTailProperties
  <2>5. sdkFree' \in Nat /\ requeueErrors' \in Nat
    BY <2>3
  <2>. QED BY <2>1, <2>4, <2>5
<1>5. CASE WriterStep
  BY <1>5, WriterMoves DEF WriterFrame
<1>6. CASE OutsideStep
  <2>0. UNCHANGED requeueErrors
    BY <1>6, OutsideLeaves DEF OutsideFrame
  <2>1. CASE EmitBlock
    BY <2>1, <2>0 DEF EmitBlock
  <2>2. CASE CompleteBuffer
    <3>1. PICK i \in 1 .. Len(wire), kind \in Kinds :
             /\ wire' = Without(wire, i)
             /\ sdkDone' = Append(sdkDone, [n |-> wire[i], kind |-> kind])
      BY <2>2 DEF CompleteBuffer
    <3>2. [n |-> wire[i], kind |-> kind] \in Blocks
      BY KindsAssumption DEF Blocks
    <3>3. wire' \in Seq(Nat)
      BY <3>1, WithoutType
    <3>4. sdkDone' \in Seq(Blocks)
      BY <3>1, <3>2
    <3>. QED BY <2>0, <2>2, <3>3, <3>4 DEF CompleteBuffer
  <2>3. CASE LoseBlock
    <3>1. PICK i \in 1 .. Len(wire) : wire' = Without(wire, i)
      BY <2>3 DEF LoseBlock
    <3>2. wire' \in Seq(Nat)
      BY <3>1, WithoutType
    <3>. QED BY <2>0, <2>3, <3>2 DEF LoseBlock
  <2>4. CASE RequestStop \/ HubChanges
    BY <2>4, <2>0 DEF RequestStop, HubChanges
  <2>. QED BY <1>6, <2>1, <2>2, <2>3, <2>4 DEF OutsideStep
<1>7. CASE UNCHANGED vars
  BY <1>7 DEF vars
<1>. QED BY <1>1, <1>2, <1>3, <1>4, <1>5, <1>6, <1>7, NextCases

LEMMA OutsideTypeStep == OutsideTypeOK /\ [Next]_vars => OutsideTypeOK'
<1>. SUFFICES ASSUME OutsideTypeOK, [Next]_vars PROVE OutsideTypeOK'
  OBVIOUS
<1>1. OutsideChange /\ OutsideData'
  BY OutsideChanges, OutsideDataStep DEF OutsideTypeOK, OutsideData
<1>2. /\ registered' \in BOOLEAN /\ armed' \in BOOLEAN
      /\ hubStarted' \in BOOLEAN /\ hubEnded' \in BOOLEAN /\ hubOk' \in BOOLEAN
      /\ cameraOn' \in BOOLEAN /\ dropped' \in BOOLEAN
  BY <1>1 DEF OutsideChange, OutsideTypeOK
<1>3. stream' \in {"none", "open", "closed"}
  BY <1>1 DEF OutsideChange, OutsideTypeOK
<1>. QED BY <1>1, <1>2, <1>3 DEF OutsideTypeOK, OutsideData

LEMMA ReceiverTypeStep ==
    OutsideTypeOK /\ ReceiverTypeOK /\ [Next]_vars => ReceiverTypeOK'
<1>. SUFFICES ASSUME OutsideTypeOK, ReceiverTypeOK, [Next]_vars PROVE ReceiverTypeOK'
  OBVIOUS
<1>. USE DEF receiveVars
<1>1. CASE UNCHANGED receiveVars
  BY <1>1 DEF ReceiverTypeOK
<1>2. CASE InitStep \/ RunStep \/ StopStep \/ ShutdownStep \/ WriterStep \/ OutsideStep
  BY <1>1, <1>2, InitMoves, RunMoves, StopMoves, ShutdownMoves, WriterMoves, OutsideLeaves
     DEF InitFrame, WorkerFrame, WriterFrame, OutsideFrame
<1>3. CASE StartWorkers
  BY <1>3 DEF StartWorkers, ReceiverTypeOK, ReceiverPCs
<1>4. CASE ReceiverStep
  <2>1. rpc' \in ReceiverPCs
    BY <1>4 DEF ReceiverStep, ReceiverWait, ReceiverTop, ReceiverTimeout, ReceiverNull, ReceiverQuiet,
       ReceiverError, RejectBuffer, AcceptBuffer, FillSlot, PushSlot, CountAdmitted,
       ReceiverThrows, ReceiverClose, ReceiverPCs
  <2>2. CASE RejectBuffer \/ AcceptBuffer
    <3>1. Head(sdkDone) \in Blocks
      BY <2>2, HeadTailProperties DEF RejectBuffer, AcceptBuffer, Account, OutsideTypeOK
    <3>2. Head(sdkDone).n \in Nat
      BY <3>1 DEF Blocks
    <3>3. BlockId(Head(sdkDone)) \in Nat
      BY <3>2, BlockIdType DEF BlockId
    <3>4. Observed.last \in Nat /\ Observed.gap \in Nat
      BY <3>3, ObserveType DEF Observed, ReceiverTypeOK
    <3>5. Account
      BY <2>2 DEF RejectBuffer, AcceptBuffer
    <3>6. last' \in Nat /\ gaps' \in Nat
      BY <3>4, <3>5 DEF Account, ReceiverTypeOK
    <3>7. taken' \in Seq(Blocks)
      BY <3>1, <3>5 DEF Account, ReceiverTypeOK
    <3>8. validObserved' \in {validObserved, validObserved + 1}
      BY <3>5 DEF Account
    <3>9. UNCHANGED <<draining, validAdmitted, admitted>>
      BY <3>5 DEF Account
    <3>10. excluded' \in SUBSET Nat
      BY <2>2, <3>2 DEF RejectBuffer, AcceptBuffer, ReceiverTypeOK
    <3>11. rbuf' \in {rbuf, Head(sdkDone)}
      BY <2>2 DEF RejectBuffer, AcceptBuffer
    <3>12. rvalid' \in {rvalid} \cup BOOLEAN
      BY <2>2 DEF RejectBuffer, AcceptBuffer, Valid
    <3>13. rvalid' \in BOOLEAN /\ draining' \in BOOLEAN
      BY <3>9, <3>12 DEF ReceiverTypeOK
    <3>14. rbuf' \in Blocks
      BY <3>1, <3>11 DEF ReceiverTypeOK
    <3>15. validObserved' \in Nat
      BY <3>8 DEF ReceiverTypeOK
    <3>. QED BY <2>1, <3>6, <3>7, <3>9, <3>10, <3>13, <3>14, <3>15 DEF ReceiverTypeOK
  <2>3. CASE ReceiverTop
    <3>1. UNCHANGED <<rbuf, rvalid, taken, last, gaps, validObserved, validAdmitted,
                      admitted, excluded>>
      BY <2>3 DEF ReceiverTop
    <3>2. draining' \in BOOLEAN
      BY <2>3 DEF ReceiverTop
    <3>. QED BY <2>1, <3>1, <3>2 DEF ReceiverTypeOK
  <2>4. CASE CountAdmitted
    <3>1. UNCHANGED <<rbuf, rvalid, draining, taken, last, gaps, validObserved, excluded>>
      BY <2>4 DEF CountAdmitted
    <3>2. admitted' \in Nat /\ validAdmitted' \in Nat
      BY <2>4 DEF CountAdmitted, ReceiverTypeOK
    <3>. QED BY <2>1, <3>1, <3>2 DEF ReceiverTypeOK
  <2>5. CASE ~(RejectBuffer \/ AcceptBuffer \/ ReceiverTop \/ CountAdmitted)
    <3>1. UNCHANGED <<rbuf, rvalid, draining, taken, last, gaps, validObserved,
                      validAdmitted, admitted, excluded>>
      BY <1>4, <2>5 DEF ReceiverStep, ReceiverWait, ReceiverTimeout, ReceiverNull, ReceiverQuiet,
         ReceiverError, FillSlot, PushSlot, ReceiverThrows, ReceiverClose
    <3>. QED BY <2>1, <3>1 DEF ReceiverTypeOK
  <2>. QED BY <2>2, <2>3, <2>4, <2>5
<1>5. CASE UNCHANGED vars
  BY <1>1, <1>5 DEF vars
<1>. QED BY <1>2, <1>3, <1>4, <1>5, NextCases

LEMMA StorageTypeStep ==
    ReceiverTypeOK /\ StorageTypeOK /\ [Next]_vars => StorageTypeOK'
<1>. SUFFICES ASSUME ReceiverTypeOK, StorageTypeOK, [Next]_vars PROVE StorageTypeOK'
  OBVIOUS
<1>. USE DEF queueVars, writeVars, recorderVars
<1>1. free' \in Nat
  <2>1. free' \in {free, Capacity + 2, free + 1} \/ (free # 0 /\ free' = free - 1)
    <3>1. CASE InitStep
      BY <3>1 DEF InitStep, Connect, OpenStream, Allocate, OpenRecorder, RegisterAndPrepare,
         Leaves
    <3>2. CASE StartWorkers \/ RunStep \/ StopStep \/ ShutdownStep
      BY <3>2, RunMoves, StopMoves, ShutdownMoves DEF StartWorkers, RunFrame
    <3>3. CASE ReceiverStep
      BY <3>3 DEF ReceiverStep, ReceiverWait, ReceiverTop, ReceiverTimeout, ReceiverNull, ReceiverQuiet,
         ReceiverError, RejectBuffer, AcceptBuffer, FillSlot, PushSlot, CountAdmitted,
         ReceiverThrows, ReceiverClose, Account
    <3>4. CASE WriterStep
      BY <3>4 DEF WriterStep, PopSlot, AppendRecord, ReleaseSlot, AbandonQueue, DiscardSlot
    <3>5. CASE OutsideStep \/ UNCHANGED vars
      BY <3>5, OutsideLeaves DEF OutsideFrame, vars
    <3>. QED BY <3>1, <3>2, <3>3, <3>4, <3>5, NextCases
  <2>. QED BY <2>1, BuffersAssumption DEF StorageTypeOK
<1>2. closed' \in BOOLEAN
  <2>1. closed' \in {closed, TRUE}
    <3>1. CASE InitStep \/ StartWorkers \/ RunStep \/ ShutdownStep
      BY <3>1, InitMoves, RunMoves, ShutdownMoves DEF InitFrame, StartWorkers, RunFrame
    <3>2. CASE StopStep
      BY <3>2 DEF StopStep, Disarm, StopSource, JoinReceiver, JoinWriter, Shutdown, RunFrame
    <3>3. CASE ReceiverStep
      BY <3>3 DEF ReceiverStep, ReceiverWait, ReceiverTop, ReceiverTimeout, ReceiverNull, ReceiverQuiet,
         ReceiverError, RejectBuffer, AcceptBuffer, FillSlot, PushSlot, CountAdmitted,
         ReceiverThrows, ReceiverClose, Account
    <3>4. CASE WriterStep
      BY <3>4 DEF WriterStep, PopSlot, AppendRecord, ReleaseSlot, AbandonQueue, DiscardSlot
    <3>5. CASE OutsideStep \/ UNCHANGED vars
      BY <3>5, OutsideLeaves DEF OutsideFrame, vars
    <3>. QED BY <3>1, <3>2, <3>3, <3>4, <3>5, NextCases
  <2>. QED BY <2>1 DEF StorageTypeOK
<1>3. queue' \in Seq(Blocks)
  <2>1. \/ queue' = queue
        \/ queue # << >> /\ queue' = Tail(queue)
        \/ queue' = Append(queue, rbuf)
    <3>1. CASE InitStep \/ StartWorkers \/ RunStep \/ StopStep \/ ShutdownStep
      BY <3>1, InitMoves, RunMoves, StopMoves, ShutdownMoves
         DEF InitFrame, StartWorkers, RunFrame
    <3>2. CASE ReceiverStep
      BY <3>2 DEF ReceiverStep, ReceiverWait, ReceiverTop, ReceiverTimeout, ReceiverNull, ReceiverQuiet,
         ReceiverError, RejectBuffer, AcceptBuffer, FillSlot, PushSlot, CountAdmitted,
         ReceiverThrows, ReceiverClose, Account
    <3>3. CASE WriterStep
      BY <3>3 DEF WriterStep, PopSlot, AppendRecord, ReleaseSlot, AbandonQueue, DiscardSlot
    <3>4. CASE OutsideStep \/ UNCHANGED vars
      BY <3>4, OutsideLeaves DEF OutsideFrame, vars
    <3>. QED BY <3>1, <3>2, <3>3, <3>4, NextCases
  <2>2. queue \in Seq(Blocks) /\ rbuf \in Blocks
    BY DEF StorageTypeOK, ReceiverTypeOK
  <2>. QED BY <2>1, <2>2, HeadTailProperties, AppendProperties
<1>4. wpc' \in WriterPCs /\ wslot' \in Blocks /\ ioFailed' \in BOOLEAN /\ unconfirmed' \in Nat
  <2>1. CASE UNCHANGED writeVars
    BY <2>1 DEF StorageTypeOK
  <2>2. CASE StartWorkers
    BY <2>2 DEF StartWorkers, StorageTypeOK, WriterPCs
  <2>3. CASE InitStep \/ RunStep \/ StopStep \/ ShutdownStep \/ ReceiverStep \/ OutsideStep
    BY <2>1, <2>3, InitMoves, RunMoves, StopMoves, ShutdownMoves, ReceiverMoves, OutsideLeaves
       DEF InitFrame, WorkerFrame, ReceiverFrame, OutsideFrame
  <2>4. CASE WriterStep
    <3>1. wpc' \in WriterPCs \cup {wpc}
      BY <2>4 DEF WriterStep, PopSlot, AppendRecord, ReleaseSlot, AbandonQueue, DiscardSlot,
         WriterPCs
    <3>2. wslot' = wslot \/ (queue # << >> /\ wslot' = Head(queue))
      BY <2>4 DEF WriterStep, PopSlot, AppendRecord, ReleaseSlot, AbandonQueue, DiscardSlot
    <3>3. ioFailed' \in {ioFailed, TRUE}
      BY <2>4 DEF WriterStep, PopSlot, AppendRecord, ReleaseSlot, AbandonQueue, DiscardSlot
    <3>4. unconfirmed' \in {unconfirmed, unconfirmed + 1}
      BY <2>4 DEF WriterStep, PopSlot, AppendRecord, ReleaseSlot, AbandonQueue, DiscardSlot
    <3>5. wpc' \in WriterPCs
      BY <3>1 DEF StorageTypeOK
    <3>6. wslot' \in Blocks
      BY <3>2, HeadTailProperties DEF StorageTypeOK
    <3>7. ioFailed' \in BOOLEAN
      BY <3>3 DEF StorageTypeOK
    <3>8. unconfirmed' \in Nat
      BY <3>4 DEF StorageTypeOK
    <3>. QED BY <3>5, <3>6, <3>7, <3>8
  <2>5. CASE UNCHANGED vars
    BY <2>1, <2>5 DEF vars
  <2>. QED BY <2>2, <2>3, <2>4, <2>5, NextCases
<1>5. written' \in Seq(Blocks)
  <2>1. written' \in {written, Append(written, wslot)}
    <3>1. CASE InitStep \/ StartWorkers \/ RunStep \/ StopStep \/ ShutdownStep
      BY <3>1, InitMoves, RunMoves, StopMoves, ShutdownMoves
         DEF InitFrame, StartWorkers, RunFrame
    <3>2. CASE ReceiverStep
      BY <3>2, ReceiverMoves DEF ReceiverFrame
    <3>3. CASE WriterStep
      BY <3>3 DEF WriterStep, PopSlot, AppendRecord, ReleaseSlot, AbandonQueue, DiscardSlot
    <3>4. CASE OutsideStep \/ UNCHANGED vars
      BY <3>4, OutsideLeaves DEF OutsideFrame, vars
    <3>. QED BY <3>1, <3>2, <3>3, <3>4, NextCases
  <2>. QED BY <2>1 DEF StorageTypeOK
<1>6. /\ recorder' \in {"none", "open", "closed"}
      /\ marker' \in {"none", "incomplete", "complete"}
  <2>1. /\ recorder' \in {recorder, "open", "closed"}
        /\ marker' \in {marker, "none", "incomplete", "complete"}
    <3>1. CASE InitStep
      BY <3>1 DEF InitStep, Connect, OpenStream, Allocate, OpenRecorder, RegisterAndPrepare
    <3>2. CASE StartWorkers \/ RunStep
      BY <3>2, RunMoves DEF StartWorkers, RunFrame
    <3>3. CASE StopStep
      BY <3>3 DEF StopStep, Disarm, StopSource, JoinReceiver, JoinWriter, Shutdown, RunFrame
    <3>4. CASE ShutdownStep
      BY <3>4 DEF ShutdownStep, FinalChecks, CloseStream, Disconnect, CloseRecorder, RunFrame
    <3>5. CASE ReceiverStep \/ WriterStep \/ OutsideStep \/ UNCHANGED vars
      BY <3>5, ReceiverMoves, WriterMoves, OutsideLeaves
         DEF ReceiverFrame, WriterFrame, OutsideFrame, vars
    <3>. QED BY <3>1, <3>2, <3>3, <3>4, <3>5, NextCases
  <2>. QED BY <2>1 DEF StorageTypeOK
<1>7. recFailed' \in BOOLEAN
  <2>1. recFailed' \in {recFailed} \cup BOOLEAN
    <3>1. CASE InitStep
      BY <3>1 DEF InitStep, Connect, OpenStream, Allocate, OpenRecorder, RegisterAndPrepare
    <3>2. CASE StartWorkers \/ RunStep
      BY <3>2 DEF StartWorkers, RunStep, BeforeStart, StartCommand, OpenGate, Arm,
         ReportStart, MonitorPass, MonitorTrouble, MonitorExit
    <3>3. CASE StopStep
      BY <3>3 DEF StopStep, Disarm, StopSource, JoinReceiver, JoinWriter, Shutdown
    <3>4. CASE ShutdownStep
      BY <3>4 DEF ShutdownStep, FinalChecks, CloseStream, Disconnect, CloseRecorder
    <3>5. CASE ReceiverStep
      BY <3>5 DEF ReceiverStep, ReceiverWait, ReceiverTop, ReceiverTimeout, ReceiverNull, ReceiverQuiet,
         ReceiverError, RejectBuffer, AcceptBuffer, FillSlot, PushSlot, CountAdmitted,
         ReceiverThrows, ReceiverClose
    <3>6. CASE WriterStep
      BY <3>6 DEF WriterStep, PopSlot, AppendRecord, ReleaseSlot, AbandonQueue, DiscardSlot
    <3>7. CASE OutsideStep \/ UNCHANGED vars
      BY <3>7, OutsideLeaves DEF OutsideFrame, vars
    <3>. QED BY <3>1, <3>2, <3>3, <3>4, <3>5, <3>6, <3>7, NextCases
  <2>. QED BY <2>1 DEF StorageTypeOK
<1>. QED BY <1>1, <1>2, <1>3, <1>4, <1>5, <1>6, <1>7 DEF StorageTypeOK

LEMMA TypeStep == TypeOK /\ [Next]_vars => TypeOK'
BY ControlStep, OutsideTypeStep, ReceiverTypeStep, StorageTypeStep DEF TypeOK

----------------------------------------------------------------------------
(* The stages of the threads.                                              *)

LEMMA StagesInit == Init => StagesAgree /\ TeardownAgrees /\ WatchdogHasFeeder
BY DEF Init, StagesAgree, TeardownAgrees, WatchdogHasFeeder, Early, Starting

LEMMA StagesStep == StagesAgree /\ [Next]_vars => StagesAgree'
<1>. SUFFICES ASSUME StagesAgree, [Next]_vars PROVE StagesAgree'
  OBVIOUS
<1>. USE DEF StagesAgree, Early, Starting, mainVars, startVars, receiveVars, writeVars
<1>1. CASE InitStep
  BY <1>1, InitMoves DEF InitFrame
<1>2. CASE StartWorkers
  BY <1>2 DEF StartWorkers
<1>3. CASE RunStep
  BY <1>3, RunMoves DEF WorkerFrame
<1>4. CASE StopStep
  BY <1>4, StopMoves DEF WorkerFrame
<1>5. CASE ShutdownStep
  BY <1>5, ShutdownMoves DEF WorkerFrame
<1>6. CASE ReceiverStep
  BY <1>6, ReceiverMoves DEF ReceiverFrame
<1>7. CASE WriterStep
  BY <1>7, WriterMoves DEF WriterFrame
<1>8. CASE OutsideStep
  BY <1>8, OutsideLeaves DEF OutsideFrame
<1>9. CASE UNCHANGED vars
  BY <1>9 DEF vars
<1>. QED BY <1>1, <1>2, <1>3, <1>4, <1>5, <1>6, <1>7, <1>8, <1>9, NextCases

LEMMA TeardownStep == StagesAgree /\ TeardownAgrees /\ [Next]_vars => TeardownAgrees'
<1>. SUFFICES ASSUME StagesAgree, TeardownAgrees, [Next]_vars PROVE TeardownAgrees'
  OBVIOUS
<1>. USE DEF TeardownAgrees, Early, Starting, mainVars, receiveVars, writeVars, sdkVars,
             recorderVars
<1>1. CASE InitStep
  BY <1>1, InitMoves DEF InitFrame, StagesAgree
<1>2. CASE StartWorkers
  BY <1>2 DEF StartWorkers, RunFrame, StagesAgree
<1>3. CASE RunStep
  BY <1>3, RunMoves DEF WorkerFrame, RunFrame
<1>4. CASE StopStep
  BY <1>4, StopMoves DEF WorkerFrame, StagesAgree
<1>5. CASE ShutdownStep
  BY <1>5, ShutdownMoves DEF WorkerFrame
<1>6. CASE ReceiverStep
  BY <1>6, ReceiverMoves DEF ReceiverFrame
<1>7. CASE WriterStep
  BY <1>7, WriterMoves DEF WriterFrame
<1>8. CASE OutsideStep
  BY <1>8, OutsideLeaves DEF OutsideFrame
<1>9. CASE UNCHANGED vars
  BY <1>9 DEF vars
<1>. QED BY <1>1, <1>2, <1>3, <1>4, <1>5, <1>6, <1>7, <1>8, <1>9, NextCases

(* The counts of slots.  As long as the receiver may ask for one, none is lost;
   a writer that gave up (abandon) has dropped the one in its hand and those
   it found in the queue, and then the queue is closed to new ones. *)
InHand == IF rpc = "push" THEN 1 ELSE 0

SlotsAccounted ==
    /\ pc \in {"record", "register", "ready"} => free = Capacity + 2
    /\ pc \in Early => queue = << >>
    /\ rpc \in {"wait", "top", "retrieve", "slot", "push", "count"} =>
          /\ Len(queue) <= Capacity
          /\ wpc = "pop" => free + Len(queue) + InHand = Capacity + 2
          /\ wpc \in {"append", "release"} => free + Len(queue) + InHand = Capacity + 1
          /\ wpc = "abandon" => free + Len(queue) + InHand = Capacity + 1
          /\ wpc \in {"discard", "done"} => closed /\ free + InHand >= 1

(* The counts of SDK buffers. *)
BuffersAccounted ==
    /\ pc \in Early \cup {"beforeStart", "startCommand"} => wire = << >> /\ ~cameraOn
    /\ pc \in Early => sdkDone = << >> /\ requeueErrors = 0
    /\ pc = "record" => sdkFree = SdkBuffers
    /\ pc \in {"connect", "openStream", "allocate", "record"} => recorder = "none"
    /\ SdkBuffersReturned

(* The counts of records: what was admitted is queued, in the writer's hand, on
   disk or unconfirmed. *)
Admitted == admitted + (IF rpc = "count" THEN 1 ELSE 0)
InFlight == Len(queue) + (IF wpc = "append" THEN 1 ELSE 0)

RecordsAccounted ==
    /\ Len(written) + InFlight <= Admitted
    /\ Admitted <= Len(written) + unconfirmed + InFlight

(* The writer gives up only on a closed queue and leaves it empty. *)
QueueDrained ==
    /\ wpc = "none" => queue = << >>
    /\ wpc \in {"discard", "done"} => closed
    /\ wpc = "done" => queue = << >>

LEMMA WatchdogStep ==
    ASSUME StagesAgree, WatchdogHasFeeder, acquiring \in BOOLEAN, [Next]_vars
    PROVE  WatchdogHasFeeder'
<1>. USE DEF WatchdogHasFeeder, receiveVars
<1>1. CASE MainStep \/ MonitorTrouble
  <2>1. CASE StartWorkers \/ StartCommand
    BY <2>1 DEF StartWorkers, StartCommand, WorkerFrame, StagesAgree, Early, Starting
  <2>2. CASE Shutdown
    BY <2>2 DEF Shutdown, WorkerFrame
  <2>. QED
    BY <1>1, <2>1, <2>2 DEF MainStep, MonitorTrouble, Connect, OpenStream, Allocate,
       OpenRecorder, RegisterAndPrepare, BeforeStart, OpenGate, Arm, ReportStart,
       MonitorPass, MonitorExit, Disarm, StopSource, JoinReceiver, JoinWriter, FinalChecks,
       CloseStream, Disconnect, CloseRecorder, InitFrame, WorkerFrame, MonitorFrame
<1>2. CASE ReceiverStep
  BY <1>2 DEF ReceiverStep, ReceiverWait, ReceiverTop, ReceiverTimeout, ReceiverNull, ReceiverQuiet,
     ReceiverError, RejectBuffer, AcceptBuffer, FillSlot, PushSlot, CountAdmitted,
     ReceiverThrows, ReceiverClose, Account
<1>3. CASE WriterStep
  BY <1>3, WriterMoves DEF WriterFrame
<1>4. CASE OutsideStep
  BY <1>4, OutsideLeaves DEF OutsideFrame
<1>5. CASE UNCHANGED vars
  BY <1>5 DEF vars
<1>. QED BY <1>1, <1>2, <1>3, <1>4, <1>5 DEF Next, Terminated

----------------------------------------------------------------------------
(* Slots.                                                                  *)

Receiving == {"wait", "top", "retrieve", "slot", "push", "count"}

LEMMA SlotsStep ==
    ASSUME TypeOK, StagesAgree, TeardownAgrees, SlotsAccounted, [Next]_vars
    PROVE  SlotsAccounted'
<1>. USE DEF SlotsAccounted, InHand
<1>0. free \in Nat /\ queue \in Seq(Blocks) /\ Len(queue) \in Nat /\ Capacity \in Nat
  BY BuffersAssumption DEF TypeOK, StorageTypeOK
<1>1. CASE InitStep
  <2>1. rpc' = "none" /\ queue' = queue
    BY <1>1, InitMoves DEF InitFrame, receiveVars, StagesAgree
  <2>2. pc' \in {"record", "register", "ready"} => free' = Capacity + 2
    BY <1>1 DEF InitStep, Connect, OpenStream, Allocate, OpenRecorder, RegisterAndPrepare,
       InitStage, Leaves
  <2>3. pc' \in Early => queue' = << >>
    BY <1>1, <2>1, InitMoves
  <2>. QED BY <2>1, <2>2, <2>3
<1>2. CASE StartWorkers
  <2>1. free' = Capacity + 2 /\ queue' = << >> /\ rpc' \in {"none", "wait"} /\ pc' \notin Early
    BY <1>2 DEF StartWorkers, RunFrame, queueVars, Early, StagesAgree
  <2>2. rpc' = "wait" => wpc' = "pop"
    BY <1>2 DEF StartWorkers, Early, StagesAgree
  <2>. QED BY <1>0, <2>1, <2>2 DEF Early
<1>3. CASE RunStep \/ ShutdownStep
  <2>1. UNCHANGED <<rpc, wpc, free, queue, closed>> /\ pc' \notin Early
    BY <1>3, RunMoves, ShutdownMoves
       DEF WorkerFrame, RunFrame, receiveVars, writeVars, queueVars, Early, Starting
  <2>. QED BY <2>1 DEF Early
<1>4. CASE StopStep
  <2>1. UNCHANGED <<rpc, wpc, free, queue>> /\ pc' \notin Early
    BY <1>4, StopMoves DEF WorkerFrame, receiveVars, writeVars, Early
  <2>2. closed' \in {closed, TRUE}
    BY <1>4 DEF StopStep, Disarm, StopSource, JoinReceiver, JoinWriter, Shutdown, RunFrame,
       queueVars
  <2>. QED BY <2>1, <2>2 DEF Early
<1>5. CASE ReceiverStep
  <2>0. UNCHANGED <<pc, wpc>> /\ pc \notin Early
    BY <1>5, ReceiverMoves DEF ReceiverFrame, mainVars, writeVars, StagesAgree
  <2>1. CASE FillSlot
    <3>1. /\ rpc = "slot" /\ UNCHANGED <<queue, closed>>
          /\ \/ free = 0 /\ rpc' = "top" /\ free' = free
             \/ free # 0 /\ rpc' = "push" /\ free' = free - 1
      BY <2>1 DEF FillSlot
    <3>. QED BY <1>0, <2>0, <3>1 DEF Early
  <2>2. CASE PushSlot
    <3>1. /\ rpc = "push" /\ UNCHANGED closed
          /\ \/ rpc' = "top" /\ free' = free + 1 /\ queue' = queue
             \/ /\ ~closed /\ Len(queue) < Capacity
                /\ rpc' = "count" /\ free' = free /\ queue' = Append(queue, rbuf)
      <4>1. CASE closed \/ Len(queue) >= Capacity
        BY <2>2, <4>1 DEF PushSlot
      <4>2. CASE ~(closed \/ Len(queue) >= Capacity)
        <5>1. ~closed /\ Len(queue) < Capacity
          BY <1>0, <4>2
        <5>. QED BY <2>2, <4>2, <5>1 DEF PushSlot
      <4>. QED BY <4>1, <4>2
    <3>2. CASE rpc' = "top"
      <4>1. UNCHANGED <<queue, closed>> /\ free' = free + 1
        BY <3>1, <3>2
      <4>. QED BY <1>0, <2>0, <3>1, <3>2, <4>1 DEF Early
    <3>3. CASE rpc' = "count"
      <4>1. /\ ~closed /\ ~closed' /\ Len(queue) < Capacity /\ free' = free
            /\ queue' = Append(queue, rbuf)
        BY <3>1, <3>3
      <4>2. Len(queue') = Len(queue) + 1
        BY <1>0, <4>1, AppendProperties DEF TypeOK, ReceiverTypeOK
      <4>. HIDE DEF SlotsAccounted
      <4>3. /\ Len(queue) + 1 <= Capacity
            /\ wpc = "pop" => free + Len(queue) + 1 = Capacity + 2
            /\ wpc \in {"append", "release", "abandon"} => free + Len(queue) + 1 = Capacity + 1
            /\ wpc \notin {"discard", "done"}
        BY <1>0, <3>1, <4>1 DEF SlotsAccounted
      <4>4. /\ Len(queue') <= Capacity
            /\ wpc = "pop" => free' + Len(queue') = Capacity + 2
            /\ wpc \in {"append", "release", "abandon"} => free' + Len(queue') = Capacity + 1
        BY <1>0, <4>1, <4>2, <4>3
      <4>5. InHand' = 0
        BY <3>3
      <4>6. free' \in Nat /\ Len(queue') \in Nat
        BY <1>0, <4>1, <4>2
      <4>. HIDE DEF InHand
      <4>7. /\ wpc' = "pop" => free' + Len(queue') + InHand' = Capacity + 2
            /\ wpc' \in {"append", "release"} => free' + Len(queue') + InHand' = Capacity + 1
            /\ wpc' = "abandon" => free' + Len(queue') + InHand' = Capacity + 1
        BY <2>0, <4>4, <4>5, <4>6
      <4>8. pc' \notin {"record", "register", "ready"} /\ pc' \notin Early
        BY <2>0 DEF Early
      <4>9. wpc' \notin {"discard", "done"}
        BY <2>0, <4>3
      <4>10. Len(queue') <= Capacity
        BY <4>4
      <4>. QED BY Zenon, <4>7, <4>8, <4>9, <4>10 DEF SlotsAccounted
    <3>. QED BY <3>1, <3>2, <3>3
  <2>3. CASE ReceiverClose \/ ReceiverThrows
    <3>1. rpc' \in {"closing", "done"}
      BY <2>3 DEF ReceiverClose, ReceiverThrows
    <3>. QED BY <2>0, <3>1 DEF Early
  <2>4. CASE ~(FillSlot \/ PushSlot \/ ReceiverClose \/ ReceiverThrows)
    <3>1. UNCHANGED <<free, queue, closed>> /\ rpc # "push" /\ rpc' # "push"
      BY <1>5, <2>4 DEF ReceiverStep, ReceiverWait, ReceiverTop, ReceiverTimeout, ReceiverNull,
         ReceiverQuiet, ReceiverError, RejectBuffer, AcceptBuffer, CountAdmitted, Account,
         queueVars
    <3>2. rpc' \in Receiving => rpc \in Receiving
      BY <1>5, <2>4 DEF ReceiverStep, ReceiverWait, ReceiverTop, ReceiverTimeout, ReceiverNull,
         ReceiverQuiet, ReceiverError, RejectBuffer, AcceptBuffer, CountAdmitted, Account,
         Receiving
    <3>. QED BY <2>0, <3>1, <3>2 DEF Early, Receiving
  <2>. QED BY <2>1, <2>2, <2>3, <2>4
<1>6. CASE WriterStep
  <2>0. UNCHANGED <<pc, rpc>> /\ pc \notin Early
    BY <1>6, WriterMoves DEF WriterFrame, mainVars, receiveVars, StagesAgree
  <2>1. CASE PopSlot
    <3>1. /\ wpc = "pop" /\ UNCHANGED <<free, closed>>
          /\ \/ queue # << >> /\ wpc' = "append" /\ queue' = Tail(queue)
             \/ queue = << >> /\ closed /\ wpc' = "done" /\ queue' = queue
      BY <2>1 DEF PopSlot
    <3>2. queue # << >> => Len(Tail(queue)) = Len(queue) - 1
      BY <1>0, HeadTailProperties
    <3>3. queue = << >> => Len(queue) = 0
      BY <1>0, EmptySeq
    <3>. QED BY <1>0, <2>0, <3>1, <3>2, <3>3 DEF Early
  <2>2. CASE AppendRecord
    <3>1. wpc = "append" /\ wpc' = "release" /\ UNCHANGED <<free, queue, closed>>
      BY <2>2 DEF AppendRecord, queueVars
    <3>. QED BY <2>0, <3>1 DEF Early
  <2>3. CASE ReleaseSlot
    <3>1. /\ wpc = "release" /\ UNCHANGED <<queue, closed>>
          /\ \/ wpc' = "pop" /\ free' = free + 1
             \/ wpc' = "abandon" /\ free' = free
      BY <2>3 DEF ReleaseSlot
    <3>. QED BY <1>0, <2>0, <3>1 DEF Early
  <2>4. CASE AbandonQueue
    <3>1. wpc = "abandon" /\ wpc' = "discard" /\ closed' = TRUE /\ UNCHANGED <<free, queue>>
      BY <2>4 DEF AbandonQueue
    <3>. QED BY <1>0, <2>0, <3>1 DEF Early
  <2>5. CASE DiscardSlot
    <3>1. /\ wpc = "discard" /\ wpc' \in {"discard", "done"} /\ UNCHANGED <<free, closed>>
          /\ queue' = queue \/ (queue # << >> /\ queue' = Tail(queue))
      BY <2>5 DEF DiscardSlot
    <3>2. queue # << >> => Len(Tail(queue)) = Len(queue) - 1
      BY <1>0, HeadTailProperties
    <3>. QED BY <1>0, <2>0, <3>1, <3>2 DEF Early
  <2>. QED BY <1>6, <2>1, <2>2, <2>3, <2>4, <2>5 DEF WriterStep
<1>7. CASE OutsideStep \/ UNCHANGED vars
  BY <1>7, OutsideLeaves
     DEF OutsideFrame, vars, mainVars, receiveVars, writeVars, queueVars, Early
<1>. QED BY <1>1, <1>2, <1>3, <1>4, <1>5, <1>6, <1>7, NextCases

LEMMA SlotsSuffice ==
    ASSUME TypeOK, StagesAgree, SlotsAccounted PROVE PoolNeverExhausted
<1>. SUFFICES ASSUME rpc = "slot" PROVE free > 0
  BY DEF PoolNeverExhausted
<1>1. free \in Nat /\ queue \in Seq(Blocks) /\ Len(queue) \in Nat /\ Capacity \in Nat
  BY BuffersAssumption DEF TypeOK, StorageTypeOK
<1>2. wpc \in {"pop", "append", "release", "abandon", "discard", "done"}
  BY DEF StagesAgree, TypeOK, StorageTypeOK, WriterPCs
<1>. QED BY <1>1, <1>2 DEF SlotsAccounted, InHand

----------------------------------------------------------------------------
(* SDK buffers.                                                            *)

LEMMA BuffersStep ==
    ASSUME TypeOK, StagesAgree, TeardownAgrees, BuffersAccounted, [Next]_vars
    PROVE  BuffersAccounted'
<1>. USE DEF BuffersAccounted, SdkBuffersReturned
<1>0. /\ sdkFree \in Nat /\ requeueErrors \in Nat /\ SdkBuffers \in Nat
      /\ sdkDone \in Seq(Blocks) /\ Len(sdkDone) \in Nat
  BY BuffersAssumption DEF TypeOK, OutsideTypeOK
<1>1. CASE InitStep
  <2>1. /\ rpc = "none" /\ rpc' = "none"
        /\ UNCHANGED <<wire, cameraOn, sdkDone, requeueErrors>>
    BY <1>1, InitMoves DEF InitFrame, cameraVars, receiveVars, StagesAgree
  <2>2. /\ pc' = "record" => sdkFree' = SdkBuffers
        /\ pc' \in {"connect", "openStream", "allocate", "record"} => recorder' = recorder
        /\ pc' \in {"connect", "openStream", "allocate", "record"} => 
              pc \in {"connect", "openStream", "allocate", "record"}
    BY <1>1 DEF InitStep, Connect, OpenStream, Allocate, OpenRecorder, RegisterAndPrepare,
       InitStage, Leaves
  <2>3. recorder' # "none" => \/ pc = "record" /\ UNCHANGED <<stream, sdkFree>>
                              \/ recorder # "none" /\ UNCHANGED <<stream, sdkFree>>
    BY <1>1 DEF InitStep, Connect, OpenStream, Allocate, OpenRecorder, RegisterAndPrepare,
       InitStage, Leaves
  <2>4. pc \in Early /\ pc' \in Early \cup {"returned"}
    BY <1>1, InitMoves
  <2>5. Len(<< >>) = 0
    BY EmptySeq
  <2>6. SdkBuffersReturned'
    BY <1>0, <2>1, <2>3, <2>4, <2>5
  <2>. QED BY <2>1, <2>2, <2>4, <2>6 DEF Early
<1>2. CASE StartWorkers
  <2>1. /\ UNCHANGED <<wire, cameraOn, sdkDone, requeueErrors, sdkFree, stream, recorder>>
        /\ pc \in Early /\ pc' \in {"beforeStart", "disarm"}
        /\ rpc = "none" /\ rpc' # "slot"
    BY <1>2 DEF StartWorkers, RunFrame, cameraVars, StagesAgree, Early
  <2>. QED BY <2>1 DEF Early
<1>3. CASE RunStep
  <2>1. /\ UNCHANGED <<rpc, wire, sdkDone, requeueErrors, sdkFree, stream, recorder>>
        /\ pc' \notin Early
    BY <1>3, RunMoves DEF RunFrame, WorkerFrame, receiveVars, Early, Starting
  <2>2. pc' \in {"beforeStart", "startCommand"} =>
           pc \in {"beforeStart", "startCommand"} /\ cameraOn' = cameraOn
    BY <1>3 DEF RunStep, BeforeStart, StartCommand, OpenGate, Arm, ReportStart, MonitorPass,
       MonitorTrouble, MonitorExit, MonitorFrame, cameraVars
  <2>. QED BY <2>1, <2>2 DEF Early
<1>4. CASE StopStep
  <2>1. /\ UNCHANGED <<rpc, sdkDone, requeueErrors, sdkFree, stream, recorder>>
        /\ pc' \notin Early \cup {"beforeStart", "startCommand"}
    BY <1>4, StopMoves DEF WorkerFrame, receiveVars, Early
  <2>. QED BY <2>1 DEF Early
<1>5. CASE ShutdownStep
  <2>1. /\ UNCHANGED rpc /\ pc' \notin Early \cup {"beforeStart", "startCommand"}
        /\ recorder' # "none" => recorder # "none"
        /\ stream' = "open" => stream = "open" /\ UNCHANGED <<sdkFree, sdkDone, requeueErrors>>
    BY <1>5, ShutdownMoves DEF WorkerFrame, receiveVars, Early
  <2>. QED BY <2>1 DEF Early
<1>6. CASE ReceiverStep
  <2>0. /\ UNCHANGED <<pc, stream, recorder, wire, cameraOn>>
        /\ pc \notin Early
    BY <1>6, ReceiverMoves DEF ReceiverFrame, mainVars, cameraVars, StagesAgree
  <2>1. CASE RejectBuffer
    <3>1. /\ rpc = "retrieve" /\ rpc' = "top" /\ sdkDone # << >> /\ sdkDone' = Tail(sdkDone)
          /\ \/ sdkFree' = sdkFree + 1 /\ requeueErrors' = requeueErrors
             \/ sdkFree' = sdkFree /\ requeueErrors' = requeueErrors + 1
      BY <2>1 DEF RejectBuffer, Account, Requeue
    <3>2. Len(sdkDone') = Len(sdkDone) - 1
      BY <1>0, <3>1, HeadTailProperties
    <3>. QED BY <1>0, <2>0, <3>1, <3>2 DEF Early
  <2>2. CASE AcceptBuffer
    <3>1. /\ rpc = "retrieve" /\ rpc' = "slot" /\ sdkDone # << >> /\ sdkDone' = Tail(sdkDone)
          /\ sdkFree' = sdkFree /\ requeueErrors' = requeueErrors
      BY <2>2 DEF AcceptBuffer, Account
    <3>2. Len(sdkDone') = Len(sdkDone) - 1
      BY <1>0, <3>1, HeadTailProperties
    <3>. QED BY <1>0, <2>0, <3>1, <3>2 DEF Early
  <2>3. CASE FillSlot \/ (ReceiverThrows /\ rpc = "slot")
    <3>1. /\ rpc = "slot" /\ rpc' # "slot" /\ sdkDone' = sdkDone
          /\ \/ sdkFree' = sdkFree + 1 /\ requeueErrors' = requeueErrors
             \/ sdkFree' = sdkFree /\ requeueErrors' = requeueErrors + 1
      BY <2>3 DEF FillSlot, ReceiverThrows, Requeue
    <3>. QED BY <1>0, <2>0, <3>1 DEF Early
  <2>4. CASE ~(RejectBuffer \/ AcceptBuffer \/ FillSlot \/ (ReceiverThrows /\ rpc = "slot"))
    <3>1. /\ rpc # "slot" /\ rpc' # "slot"
          /\ UNCHANGED <<sdkDone, sdkFree, requeueErrors>>
      BY <1>6, <2>4 DEF ReceiverStep, ReceiverWait, ReceiverTop, ReceiverTimeout, ReceiverNull,
         ReceiverQuiet, ReceiverError, PushSlot, CountAdmitted, ReceiverThrows,
         ReceiverClose, sdkVars
    <3>. QED BY <2>0, <3>1 DEF Early
  <2>. QED BY <2>1, <2>2, <2>3, <2>4
<1>7. CASE WriterStep
  <2>1. UNCHANGED <<pc, rpc, stream, recorder, wire, cameraOn, sdkDone, sdkFree, requeueErrors>>
    BY <1>7, WriterMoves DEF WriterFrame, mainVars, receiveVars, cameraVars, sdkVars
  <2>. QED BY <2>1
<1>8. CASE OutsideStep
  <2>0. UNCHANGED <<pc, rpc, stream, recorder, requeueErrors>>
    BY <1>8, OutsideLeaves DEF OutsideFrame, mainVars, receiveVars, recorderVars
  <2>1. CASE EmitBlock
    <3>1. cameraOn /\ UNCHANGED <<cameraOn, sdkDone, sdkFree>>
      BY <2>1 DEF EmitBlock
    <3>. QED BY <2>0, <3>1
  <2>2. CASE CompleteBuffer
    <3>1. PICK i \in 1 .. Len(wire), kind \in Kinds :
             sdkDone' = Append(sdkDone, [n |-> wire[i], kind |-> kind])
      BY <2>2 DEF CompleteBuffer
    <3>2. [n |-> wire[i], kind |-> kind] \in Blocks
      BY KindsAssumption DEF Blocks, TypeOK, OutsideTypeOK
    <3>3. Len(sdkDone') = Len(sdkDone) + 1
      BY <1>0, <3>1, <3>2, AppendProperties
    <3>4. wire # << >>
      BY EmptySeq
    <3>5. sdkFree > 0 /\ sdkFree' = sdkFree - 1
      BY <2>2 DEF CompleteBuffer
    <3>6. pc \notin Early \cup {"beforeStart", "startCommand"}
      BY <3>4
    <3>. QED BY <1>0, <2>0, <3>3, <3>5, <3>6 DEF Early
  <2>3. CASE LoseBlock
    <3>1. UNCHANGED <<cameraOn, sdkDone, sdkFree>> /\ \E i : i \in 1 .. Len(wire)
      BY <2>3 DEF LoseBlock
    <3>2. wire # << >>
      BY <3>1, EmptySeq
    <3>. QED BY <2>0, <3>1, <3>2
  <2>4. CASE RequestStop \/ HubChanges
    <3>1. UNCHANGED <<cameraOn, wire, sdkDone, sdkFree>>
      BY <2>4 DEF RequestStop, HubChanges, cameraVars
    <3>. QED BY <2>0, <3>1
  <2>. QED BY <1>8, <2>1, <2>2, <2>3, <2>4 DEF OutsideStep
<1>9. CASE UNCHANGED vars
  BY <1>9 DEF vars, mainVars, receiveVars, cameraVars, sdkVars, recorderVars
<1>. QED BY <1>1, <1>2, <1>3, <1>4, <1>5, <1>6, <1>7, <1>8, <1>9, NextCases

----------------------------------------------------------------------------
(* Records.                                                                *)

LEMMA RecordsStep ==
    ASSUME TypeOK, StagesAgree, RecordsAccounted, [Next]_vars
    PROVE  RecordsAccounted'
<1>. USE DEF RecordsAccounted
<1>0. /\ admitted \in Nat /\ unconfirmed \in Nat
      /\ queue \in Seq(Blocks) /\ Len(queue) \in Nat
      /\ written \in Seq(Blocks) /\ Len(written) \in Nat
      /\ rbuf \in Blocks /\ wslot \in Blocks
  BY DEF TypeOK, ReceiverTypeOK, StorageTypeOK
<1>. Admitted \in Nat /\ InFlight \in Nat
  BY <1>0 DEF Admitted, InFlight
<1>1. CASE InitStep \/ RunStep \/ ShutdownStep
  BY <1>1, InitMoves, RunMoves, ShutdownMoves
     DEF Admitted, InFlight, InitFrame, RunFrame, WorkerFrame, receiveVars, writeVars, queueVars
<1>2. CASE StartWorkers
  <2>1. /\ rpc = "none" /\ wpc = "none" /\ rpc' # "count" /\ wpc' \in {"none", "pop"}
        /\ UNCHANGED <<admitted, unconfirmed, queue, written>>
    BY <1>2 DEF StartWorkers, RunFrame, queueVars, StagesAgree, Early
  <2>. QED BY <2>1 DEF Admitted, InFlight
<1>3. CASE StopStep
  <2>1. UNCHANGED <<rpc, wpc, admitted, unconfirmed, queue, written>>
    BY <1>3, StopMoves DEF WorkerFrame, receiveVars, writeVars
  <2>. QED BY <2>1 DEF Admitted, InFlight
<1>4. CASE ReceiverStep
  <2>0. UNCHANGED <<wpc, unconfirmed, written>>
    BY <1>4, ReceiverMoves DEF ReceiverFrame, writeVars
  <2>1. CASE PushSlot
    <3>1. /\ rpc = "push" /\ UNCHANGED admitted
          /\ \/ rpc' = "top" /\ queue' = queue
             \/ rpc' = "count" /\ queue' = Append(queue, rbuf)
      BY <2>1 DEF PushSlot
    <3>2. Len(Append(queue, rbuf)) = Len(queue) + 1
      BY <1>0, AppendProperties
    <3>3. \/ Admitted' = Admitted /\ InFlight' = InFlight
          \/ Admitted' = Admitted + 1 /\ InFlight' = InFlight + 1
      BY <1>0, <2>0, <3>1, <3>2 DEF Admitted, InFlight
    <3>. QED BY <1>0, <2>0, <3>3
  <2>2. CASE CountAdmitted
    <3>1. /\ rpc = "count" /\ rpc' = "top" /\ admitted' = admitted + 1
          /\ UNCHANGED queue
      BY <2>2 DEF CountAdmitted, queueVars
    <3>2. Admitted' = Admitted
      BY <1>0, <3>1 DEF Admitted
    <3>3. InFlight' = InFlight
      BY <2>0, <3>1 DEF InFlight
    <3>. QED BY <2>0, <3>2, <3>3
  <2>3. CASE ~(PushSlot \/ CountAdmitted)
    <3>1. UNCHANGED <<queue, admitted>> /\ rpc # "count" /\ rpc' # "count"
      BY <1>4, <2>3 DEF ReceiverStep, ReceiverWait, ReceiverTop, ReceiverTimeout, ReceiverNull,
         ReceiverQuiet, ReceiverError, RejectBuffer, AcceptBuffer, FillSlot, ReceiverThrows,
         ReceiverClose, Account, queueVars
    <3>. QED BY <2>0, <3>1 DEF Admitted, InFlight
  <2>. QED BY <2>1, <2>2, <2>3
<1>5. CASE WriterStep
  <2>0. UNCHANGED <<rpc, admitted>>
    BY <1>5, WriterMoves DEF WriterFrame, receiveVars
  <2>1. CASE PopSlot
    <3>1. /\ wpc = "pop" /\ UNCHANGED <<unconfirmed, written>>
          /\ \/ queue # << >> /\ wpc' = "append" /\ queue' = Tail(queue)
             \/ queue = << >> /\ wpc' = "done" /\ queue' = queue
      BY <2>1 DEF PopSlot
    <3>2. queue # << >> => Len(Tail(queue)) = Len(queue) - 1
      BY <1>0, HeadTailProperties
    <3>3. InFlight' = InFlight
      BY <1>0, <3>1, <3>2 DEF InFlight
    <3>4. Admitted' = Admitted
      BY <2>0 DEF Admitted
    <3>. QED BY <3>1, <3>3, <3>4
  <2>2. CASE AppendRecord
    <3>1. /\ wpc = "append" /\ wpc' = "release" /\ UNCHANGED queue
          /\ \/ written' = Append(written, wslot) /\ unconfirmed' \in {unconfirmed, unconfirmed + 1}
             \/ written' = written /\ unconfirmed' = unconfirmed + 1
      BY <2>2 DEF AppendRecord, queueVars
    <3>2. Len(Append(written, wslot)) = Len(written) + 1
      BY <1>0, AppendProperties
    <3>3. InFlight' = InFlight - 1
      BY <1>0, <3>1 DEF InFlight
    <3>4. Admitted' = Admitted
      BY <2>0 DEF Admitted
    <3>5. \/ Len(written') = Len(written) + 1 /\ unconfirmed' \in {unconfirmed, unconfirmed + 1}
          \/ Len(written') = Len(written) /\ unconfirmed' = unconfirmed + 1
      BY <3>1, <3>2
    <3>. QED BY <1>0, <3>3, <3>4, <3>5
  <2>3. CASE ReleaseSlot \/ AbandonQueue
    <3>1. /\ wpc \notin {"append", "done"} /\ wpc' \in {"pop", "abandon", "discard"}
          /\ UNCHANGED <<queue, unconfirmed, written>>
      BY <2>3 DEF ReleaseSlot, AbandonQueue
    <3>. QED BY <2>0, <3>1 DEF Admitted, InFlight
  <2>4. CASE DiscardSlot
    <3>1. /\ wpc = "discard" /\ UNCHANGED written
          /\ \/ /\ queue # << >> /\ wpc' = "discard" /\ queue' = Tail(queue)
                /\ unconfirmed' = unconfirmed + 1
             \/ queue = << >> /\ wpc' = "done" /\ queue' = queue /\ unconfirmed' = unconfirmed
      BY <2>4 DEF DiscardSlot
    <3>2. queue # << >> => Len(Tail(queue)) = Len(queue) - 1
      BY <1>0, HeadTailProperties
    <3>3. \/ InFlight' = InFlight - 1 /\ unconfirmed' = unconfirmed + 1
          \/ InFlight' = InFlight /\ unconfirmed' = unconfirmed
      BY <1>0, <3>1, <3>2 DEF InFlight
    <3>4. Admitted' = Admitted
      BY <2>0 DEF Admitted
    <3>. QED BY <1>0, <3>1, <3>3, <3>4
  <2>. QED BY <1>5, <2>1, <2>2, <2>3, <2>4 DEF WriterStep
<1>6. CASE OutsideStep \/ UNCHANGED vars
  BY <1>6, OutsideLeaves DEF OutsideFrame, Admitted, InFlight, vars, receiveVars, writeVars, queueVars, recorderVars
<1>. QED BY <1>1, <1>2, <1>3, <1>4, <1>5, <1>6, NextCases

LEMMA DrainedStep ==
    ASSUME TypeOK, StagesAgree, QueueDrained, [Next]_vars
    PROVE  QueueDrained'
<1>. USE DEF QueueDrained
<1>0. queue \in Seq(Blocks) /\ closed \in BOOLEAN
  BY DEF TypeOK, StorageTypeOK
<1>1. CASE InitStep \/ RunStep \/ ShutdownStep
  BY <1>1, InitMoves, RunMoves, ShutdownMoves
     DEF InitFrame, RunFrame, WorkerFrame, writeVars, queueVars
<1>2. CASE StartWorkers
  BY <1>2 DEF StartWorkers, RunFrame, queueVars, StagesAgree, Early
<1>3. CASE StopStep
  <2>1. UNCHANGED <<wpc, queue>>
    BY <1>3, StopMoves DEF WorkerFrame, writeVars
  <2>2. closed' \in {closed, TRUE}
    BY <1>3 DEF StopStep, Disarm, StopSource, JoinReceiver, JoinWriter, Shutdown, RunFrame,
       queueVars
  <2>. QED BY <2>1, <2>2
<1>4. CASE ReceiverStep
  <2>0. UNCHANGED wpc /\ wpc # "none"
    BY <1>4, ReceiverMoves DEF ReceiverFrame, writeVars, StagesAgree
  <2>1. closed' \in {closed, TRUE}
    BY <1>4 DEF ReceiverStep, ReceiverWait, ReceiverTop, ReceiverTimeout, ReceiverNull,
       ReceiverQuiet, ReceiverError, RejectBuffer, AcceptBuffer, FillSlot, PushSlot,
       CountAdmitted, ReceiverThrows, ReceiverClose, Account, queueVars
  <2>2. closed => queue' = queue
    BY <1>4 DEF ReceiverStep, ReceiverWait, ReceiverTop, ReceiverTimeout, ReceiverNull,
       ReceiverQuiet, ReceiverError, RejectBuffer, AcceptBuffer, FillSlot, PushSlot,
       CountAdmitted, ReceiverThrows, ReceiverClose, Account, queueVars
  <2>. QED BY <1>0, <2>0, <2>1, <2>2
<1>5. CASE WriterStep
  <2>1. CASE PopSlot \/ AppendRecord
    BY <2>1, <1>0 DEF PopSlot, AppendRecord, queueVars
  <2>2. CASE ReleaseSlot \/ AbandonQueue \/ DiscardSlot
    BY <2>2, <1>0 DEF ReleaseSlot, AbandonQueue, DiscardSlot
  <2>. QED BY <1>5, <2>1, <2>2 DEF WriterStep
<1>6. CASE OutsideStep \/ UNCHANGED vars
  BY <1>6, OutsideLeaves DEF OutsideFrame, vars, writeVars, queueVars
<1>. QED BY <1>1, <1>2, <1>3, <1>4, <1>5, <1>6, NextCases

----------------------------------------------------------------------------
(* The theorems.                                                           *)

Inv == /\ TypeOK /\ StagesAgree /\ TeardownAgrees /\ WatchdogHasFeeder
       /\ SlotsAccounted /\ BuffersAccounted /\ RecordsAccounted /\ QueueDrained

LEMMA InvInit == Init => Inv
<1>. SUFFICES ASSUME Init PROVE Inv
  OBVIOUS
<1>1. Len(<< >>) = 0
  BY EmptySeq
<1>2. SlotsAccounted /\ QueueDrained
  BY DEF Init, SlotsAccounted, QueueDrained
<1>3. BuffersAccounted
  BY DEF Init, BuffersAccounted, SdkBuffersReturned
<1>4. RecordsAccounted
  BY <1>1 DEF Init, RecordsAccounted, Admitted, InFlight
<1>. QED BY TypeInit, StagesInit, <1>2, <1>3, <1>4 DEF Inv

LEMMA InvStep == Inv /\ [Next]_vars => Inv'
<1>. SUFFICES ASSUME Inv, [Next]_vars PROVE Inv'
  OBVIOUS
<1>1. acquiring \in BOOLEAN
  BY DEF Inv, TypeOK, ControlTypeOK
<1>. QED BY <1>1, TypeStep, StagesStep, TeardownStep, WatchdogStep, SlotsStep, BuffersStep,
            RecordsStep, DrainedStep DEF Inv

LEMMA InvAlways == Spec => []Inv
BY InvInit, InvStep, PTL DEF Spec

(* The variables of the camera driver keep their types. *)
THEOREM CameraTypeCorrect == Spec => []TypeOK
BY InvAlways, PTL DEF Inv

(* For every queue_capacity, two slots more are enough: Process never finds
   the pool of Allocate empty, whichever worker throws. *)
THEOREM PoolCorrect == Spec => []PoolNeverExhausted
<1>1. Inv => PoolNeverExhausted
  BY SlotsSuffice DEF Inv
<1>. QED BY <1>1, InvAlways, PTL

(* No path of Process, Receive or Shutdown leaks a buffer of the SDK while the
   stream is open. *)
THEOREM BuffersCorrect == Spec => []SdkBuffersReturned
<1>1. Inv => SdkBuffersReturned
  BY DEF Inv, BuffersAccounted
<1>. QED BY <1>1, InvAlways, PTL

(* When the workers are joined, every admitted buffer is on disk or counted as
   unconfirmed, and nothing is on disk that was not admitted. *)
THEOREM RecordsCorrect == Spec => []NothingVanishes
<1>1. Inv => NothingVanishes
  <2>. SUFFICES ASSUME Inv,
                       pc \in {"finalChecks", "closeStream", "disconnect", "closeRecorder",
                               "done"}
                PROVE  /\ queue = << >>
                       /\ Len(written) <= admitted
                       /\ admitted <= Len(written) + unconfirmed
    BY DEF NothingVanishes
  <2>1. rpc \in {"none", "done"} /\ wpc \in {"none", "done"}
    BY DEF Inv, TeardownAgrees
  <2>2. queue = << >>
    BY <2>1 DEF Inv, QueueDrained
  <2>3. admitted \in Nat /\ unconfirmed \in Nat /\ Len(written) \in Nat
    BY DEF Inv, TypeOK, ReceiverTypeOK, StorageTypeOK
  <2>4. Admitted = admitted /\ InFlight = 0
    <3>1. Len(<< >>) = 0
      BY EmptySeq
    <3>. QED BY <2>1, <2>2, <2>3, <3>1 DEF Admitted, InFlight
  <2>. QED BY <2>2, <2>3, <2>4 DEF Inv, RecordsAccounted
<1>. QED BY <1>1, InvAlways, PTL

(* The stream, the device and the recorder outlive both workers. *)
THEOREM TeardownCorrect == Spec => []WorkersOutlived
<1>1. Inv => WorkersOutlived
  BY DEF Inv, TeardownAgrees, WorkersOutlived
<1>. QED BY <1>1, InvAlways, PTL

(* The no-data watchdog never runs without a receive worker. *)
THEOREM WatchdogCorrect == Spec => []WatchdogHasFeeder
BY InvAlways, PTL DEF Inv

(* Whatever the receive worker, the write worker and the teardown do in
   whichever order, for every queue_capacity: the pool of Allocate suffices,
   every buffer goes back to the SDK, nothing is closed under a worker and the
   watchdog has its feeder. *)
THEOREM WorkersCorrect == Spec => []WorkersShareSafely
BY PoolCorrect, BuffersCorrect, TeardownCorrect, WatchdogCorrect, PTL DEF WorkersShareSafely

----------------------------------------------------------------------------
(* Identifiers: what Observe finds between two blocks.                     *)

(* What the prover knows of %, for a cycle that is not a number it knows. *)
LEMMA Remainder ==
    ASSUME NEW C \in Nat, C > 0, NEW q \in Int, NEW r \in 0 .. C - 1, NEW a \in Nat, a = C * q + r
    PROVE  a % C = r
OBVIOUS

LEMMA RemainderAfter ==
    ASSUME NEW C \in Nat, C > 0, NEW a \in Nat, NEW k \in 0 .. C - 1
    PROVE  (a + k) % C = IF (a % C) + k < C THEN (a % C) + k ELSE (a % C) + k - C
<1> DEFINE r == a % C
           q == a \div C
<1>1. q \in Int /\ r \in 0 .. C - 1 /\ a = C * q + r
  OBVIOUS
<1>2. C * (q + 1) = C * q + C
  BY <1>1
<1> HIDE DEF q, r
<1>3. CASE r + k < C
  <2>1. a + k = C * q + (r + k) /\ r + k \in 0 .. C - 1
    BY <1>1, <1>3
  <2>2. a + k \in Nat
    OBVIOUS
  <2>3. (a + k) % C = r + k
    BY <1>1, <2>1, <2>2, Remainder
  <2>. QED BY <1>3, <2>3 DEF r
<1>4. CASE ~(r + k < C)
  <2> DEFINE p == q + 1
             u == r + k - C
             b == a + k
  <2>1. b = C * p + u /\ u \in 0 .. C - 1
    BY <1>1, <1>2, <1>4
  <2>2. b \in Nat /\ p \in Int
    BY <1>1
  <2> HIDE DEF p, u, b
  <2>3. b % C = u
    BY <2>1, <2>2, Remainder
  <2>. USE DEF u, b
  <2>. QED BY <1>4, <2>3 DEF r
<1>. QED BY <1>3, <1>4

LEMMA SmallRemainder ==
    ASSUME NEW C \in Nat, C > 0, NEW a \in 0 .. 2 * C - 1
    PROVE  a % C = IF a < C THEN a ELSE a - C
OBVIOUS

LEMMA HalfIsHalf == Half \in Nat /\ Half >= 1 /\ Cycle = 2 * Half + 1
BY CycleAssumption DEF Half

(* Distance, between the identifiers of two blocks. *)
LEMMA DistanceForward ==
    ASSUME ~Extended, NEW m \in Nat \ {0}, NEW d \in 1 .. Half + 1
    PROVE  Distance(IdAfter(FirstId, m - 1), IdAfter(FirstId, m + d - 1)) = d - 1
<1> DEFINE a == FirstId - 1 + (m - 1)
           r == a % Cycle
           s == (a + d) % Cycle
<1>1. a \in Nat /\ d \in 0 .. Cycle - 1 /\ Cycle \in Nat /\ Cycle > 0
  BY HalfIsHalf, CycleAssumption, BoundsAssumption
<1>2. r \in 0 .. Cycle - 1 /\ s = IF r + d < Cycle THEN r + d ELSE r + d - Cycle
  <2> HIDE DEF a
  <2>1. r \in 0 .. Cycle - 1
    BY <1>1
  <2>. QED BY <1>1, <2>1, RemainderAfter
<1>3. IdAfter(FirstId, m - 1) = r + 1 /\ IdAfter(FirstId, m + d - 1) = s + 1
  <2>1. FirstId - 1 + (m + d - 1) = a + d
    BY BoundsAssumption
  <2>. QED BY <2>1 DEF IdAfter
<1> HIDE DEF a, r, s
<1> DEFINE e == IF r + 1 = Cycle THEN 1 ELSE r + 2
           x == s + 1 + Cycle - e
<1>4. x \in 0 .. 2 * Cycle - 1 /\ (IF x < Cycle THEN x ELSE x - Cycle) = d - 1
  BY <1>1, <1>2
<1>5. Distance(r + 1, s + 1) = x % Cycle
  BY <1>1, <1>2 DEF Distance
<1> HIDE DEF x
<1>. QED BY <1>1, <1>3, <1>4, <1>5, SmallRemainder

LEMMA DistanceBack ==
    ASSUME ~Extended, NEW m \in Nat \ {0}, NEW d \in 0 .. Half
    PROVE  Distance(IdAfter(FirstId, m + d - 1), IdAfter(FirstId, m - 1)) = Cycle - 1 - d
<1> DEFINE a == FirstId - 1 + (m - 1)
           r == a % Cycle
           s == (a + d) % Cycle
<1>1. a \in Nat /\ d \in 0 .. Cycle - 1 /\ Cycle \in Nat /\ Cycle > 0
  BY HalfIsHalf, CycleAssumption, BoundsAssumption
<1>2. r \in 0 .. Cycle - 1 /\ s = IF r + d < Cycle THEN r + d ELSE r + d - Cycle
  <2> HIDE DEF a
  <2>1. r \in 0 .. Cycle - 1
    BY <1>1
  <2>. QED BY <1>1, <2>1, RemainderAfter
<1>3. IdAfter(FirstId, m - 1) = r + 1 /\ IdAfter(FirstId, m + d - 1) = s + 1
  <2>1. FirstId - 1 + (m + d - 1) = a + d
    BY BoundsAssumption
  <2>. QED BY <2>1 DEF IdAfter
<1> HIDE DEF a, r, s
<1> DEFINE e == IF s + 1 = Cycle THEN 1 ELSE s + 2
           x == r + 1 + Cycle - e
<1>4. x \in 0 .. 2 * Cycle - 1 /\ (IF x < Cycle THEN x ELSE x - Cycle) = Cycle - 1 - d
  BY <1>1, <1>2
<1>5. Distance(s + 1, r + 1) = x % Cycle
  BY <1>1, <1>2 DEF Distance
<1> HIDE DEF x
<1>. QED BY <1>1, <1>3, <1>4, <1>5, SmallRemainder
LEMMA IdRange ==
    ASSUME NEW m \in Nat \ {0}
    PROVE  /\ IdAfter(FirstId, m - 1) \in Nat \ {0}
           /\ ~Extended => IdAfter(FirstId, m - 1) <= Cycle
           /\ Extended => IdAfter(FirstId, m - 1) = FirstId + m - 1
<1> DEFINE a == FirstId - 1 + (m - 1)
<1>1. a \in Nat /\ Cycle \in Nat /\ Cycle > 0
  BY CycleAssumption, BoundsAssumption
<1>2. a % Cycle \in 0 .. Cycle - 1
  <2> HIDE DEF a
  <2>. QED BY <1>1
<1>. QED BY <1>1, <1>2, BoundsAssumption DEF IdAfter

(* Block n observed after block m: *)
LEMMA ObserveForward ==
    ASSUME NEW m \in Nat \ {0}, NEW n \in Nat, m < n, Extended \/ n - m <= Half
    PROVE  Observe(IdAfter(FirstId, m - 1), IdAfter(FirstId, n - 1))
              = [gap |-> n - m - 1, anomaly |-> FALSE, last |-> IdAfter(FirstId, n - 1)]
<1> DEFINE x == IdAfter(FirstId, m - 1)
           y == IdAfter(FirstId, n - 1)
<1>1. /\ x \in Nat \ {0} /\ y \in Nat \ {0}
      /\ ~Extended => y <= Cycle
      /\ Extended => x = FirstId + m - 1 /\ y = FirstId + n - 1
  BY IdRange
<1>2. ~Extended => Distance(x, y) = n - m - 1 /\ n - m - 1 <= Half
  <2>1. ASSUME ~Extended PROVE Distance(x, y) = n - m - 1 /\ n - m - 1 <= Half
    <3> DEFINE d == n - m
    <3>1. d \in 1 .. Half + 1 /\ m + d - 1 = n - 1
      BY <2>1, HalfIsHalf
    <3> HIDE DEF d
    <3>2. Distance(x, IdAfter(FirstId, m + d - 1)) = d - 1
      BY <2>1, <3>1, DistanceForward
    <3>. QED BY <2>1, <3>1, <3>2, HalfIsHalf DEF d
  <2>. QED BY <2>1
<1> HIDE DEF x, y
<1>3. Observe(x, y) = [gap |-> n - m - 1, anomaly |-> FALSE, last |-> y]
  <2>1. CASE Extended
    <3>1. ~(y <= x) /\ x # 0 /\ y # 0 /\ y - x - 1 = n - m - 1
      BY <1>1, <2>1, BoundsAssumption
    <3>. QED BY <2>1, <3>1 DEF Observe, NoId
  <2>2. CASE ~Extended
    <3>1. ~(Distance(x, y) > Half) /\ ~(y > Cycle) /\ x # 0 /\ y # 0
      BY <1>1, <1>2, <2>2, HalfIsHalf
    <3>. QED BY <1>2, <2>2, <3>1 DEF Observe, NoId
  <2>. QED BY <2>1, <2>2
<1>. QED BY <1>3 DEF x, y

LEMMA ObserveNext ==
    ASSUME NEW m \in Nat \ {0}, NEW n \in Nat \ {0}, Extended \/ n - m \in -Half .. Half,
           Observe(IdAfter(FirstId, m - 1), IdAfter(FirstId, n - 1)).gap = 0,
           ~Observe(IdAfter(FirstId, m - 1), IdAfter(FirstId, n - 1)).anomaly
    PROVE  n = m + 1
<1>1. CASE m < n
  <2>1. Extended \/ n - m <= Half
    BY HalfIsHalf
  <2>2. n \in Nat
    OBVIOUS
  <2>3. Observe(IdAfter(FirstId, m - 1), IdAfter(FirstId, n - 1))
           = [gap |-> n - m - 1, anomaly |-> FALSE, last |-> IdAfter(FirstId, n - 1)]
    BY <1>1, <2>1, <2>2, ObserveForward
  <2>4. n - m - 1 = 0
    BY ONLY <2>3, Observe(IdAfter(FirstId, m - 1), IdAfter(FirstId, n - 1)).gap = 0
  <2>. QED BY <2>4
<1>2. CASE n <= m
  <2> DEFINE x == IdAfter(FirstId, m - 1)
             y == IdAfter(FirstId, n - 1)
  <2>1. /\ x \in Nat \ {0} /\ y \in Nat \ {0}
        /\ Extended => x = FirstId + m - 1 /\ y = FirstId + n - 1
    BY IdRange
  <2>2. ~Extended => Distance(x, y) \in Nat /\ Distance(x, y) # 0
    <3>1. ASSUME ~Extended PROVE Distance(x, y) \in Nat /\ Distance(x, y) # 0
      <4> DEFINE d == m - n
      <4>1. d \in 0 .. Half /\ n + d - 1 = m - 1
        BY <1>2, <3>1, HalfIsHalf
      <4> HIDE DEF d
      <4>2. Distance(IdAfter(FirstId, n + d - 1), y) = Cycle - 1 - d
        BY <3>1, <4>1, DistanceBack
      <4>. QED BY <3>1, <4>1, <4>2, HalfIsHalf
    <3>. QED BY <3>1
  <2>3. Observe(x, y).gap = 0 /\ ~Observe(x, y).anomaly
    OBVIOUS
  <2> HIDE DEF x, y
  <2>4. CASE Extended
    <3>1. y <= x
      BY <1>2, <2>1, <2>4, BoundsAssumption
    <3>. QED BY <2>1, <2>3, <2>4, <3>1 DEF Observe, NoId, Anomaly
  <2>5. CASE ~Extended
    BY <2>1, <2>2, <2>3, <2>5 DEF Observe, NoId, Anomaly
  <2>. QED BY <2>4, <2>5
<1>. QED BY <1>1, <1>2

LEMMA ObserveFirst ==
    ASSUME NEW n \in Nat \ {0}
    PROVE  Observe(NoId, IdAfter(FirstId, n - 1))
              = [gap |-> 0, anomaly |-> FALSE, last |-> IdAfter(FirstId, n - 1)]
<1> DEFINE y == IdAfter(FirstId, n - 1)
<1>1. y \in Nat \ {0} /\ (~Extended => y <= Cycle)
  BY IdRange
<1> HIDE DEF y
<1>2. Observe(NoId, y) = [gap |-> 0, anomaly |-> FALSE, last |-> y]
  BY <1>1, CycleAssumption DEF Observe, NoId
<1>. QED BY <1>2 DEF y

----------------------------------------------------------------------------
(* Sequences of blocks.                                                    *)

(* Blocks in the order of their emission, none left out. *)
Consecutive(s) == \A i \in 1 .. Len(s) : s[i].n = s[1].n + i - 1

LEMMA BlockNumbers ==
    ASSUME NEW s \in Seq(Blocks)
    PROVE  /\ Len(s) \in Nat
           /\ \A i \in 1 .. Len(s) : s[i] \in Blocks /\ s[i].n \in Nat
           /\ \A b \in Elements(s) : b \in Blocks /\ b.n \in Nat
<1>1. \A b \in Blocks : b.n \in Nat
  BY DEF Blocks
<1>2. Len(s) \in Nat /\ \A i \in 1 .. Len(s) : s[i] \in Blocks
  BY ElementOfSeq
<1>. QED BY <1>1, <1>2 DEF Elements

LEMMA ConsecutiveAscends ==
    ASSUME NEW s \in Seq(Blocks), Consecutive(s)
    PROVE  /\ Ascending(s)
           /\ s # << >> => \A b \in Elements(s) : s[1].n <= b.n /\ b.n <= s[Len(s)].n
           /\ s # << >> => s[Len(s)].n = s[1].n + Len(s) - 1
<1>1. Len(s) \in Nat /\ \A i \in 1 .. Len(s) : s[i].n \in Nat
  BY BlockNumbers
<1>2. s # << >> => Len(s) \in 1 .. Len(s) /\ 1 \in 1 .. Len(s)
  BY <1>1, EmptySeq
<1>. QED BY <1>1, <1>2 DEF Consecutive, Ascending, Elements

LEMMA AppendElements ==
    ASSUME NEW S, NEW s \in Seq(S), NEW e \in S
    PROVE  Elements(Append(s, e)) = Elements(s) \cup {e}
<1>1. Len(s) \in Nat
  OBVIOUS
<1>2. /\ Len(Append(s, e)) = Len(s) + 1
      /\ \A i \in 1 .. Len(s) : Append(s, e)[i] = s[i]
      /\ Append(s, e)[Len(s) + 1] = e
  BY AppendProperties
<1>3. 1 .. Len(s) + 1 = (1 .. Len(s)) \cup {Len(s) + 1}
  BY <1>1
<1>. QED BY <1>2, <1>3 DEF Elements

LEMMA AppendAscends ==
    ASSUME NEW s \in Seq(Blocks), NEW b \in Blocks
    PROVE  Ascending(Append(s, b)) <=> Ascending(s) /\ \A x \in Elements(s) : x.n < b.n
<1>1. Len(s) \in Nat
  OBVIOUS
<1>2. /\ Len(Append(s, b)) = Len(s) + 1
      /\ \A i \in 1 .. Len(s) : Append(s, b)[i] = s[i]
      /\ Append(s, b)[Len(s) + 1] = b
  BY AppendProperties
<1>3. ASSUME Ascending(Append(s, b))
      PROVE  Ascending(s) /\ \A x \in Elements(s) : x.n < b.n
  BY <1>1, <1>2, <1>3 DEF Ascending, Elements
<1>4. ASSUME Ascending(s), \A x \in Elements(s) : x.n < b.n
      PROVE  Ascending(Append(s, b))
  BY <1>1, <1>2, <1>4 DEF Ascending, Elements
<1>. QED BY <1>3, <1>4

LEMMA AppendConsecutive ==
    ASSUME NEW s \in Seq(Blocks), NEW b \in Blocks, Consecutive(s),
           s # << >> => b.n = s[Len(s)].n + 1
    PROVE  Consecutive(Append(s, b))
<1>1. Len(s) \in Nat /\ b.n \in Nat /\ \A i \in 1 .. Len(s) : s[i].n \in Nat
  BY BlockNumbers DEF Blocks
<1>2. /\ Len(Append(s, b)) = Len(s) + 1
      /\ \A i \in 1 .. Len(s) : Append(s, b)[i] = s[i]
      /\ Append(s, b)[Len(s) + 1] = b
  BY AppendProperties
<1>3. CASE s = << >>
  <2>1. Len(s) = 0
    BY <1>3, EmptySeq
  <2>. QED BY <1>1, <1>2, <2>1 DEF Consecutive
<1>4. CASE s # << >>
  <2>1. Len(s) # 0 /\ s[Len(s)].n = s[1].n + Len(s) - 1
    BY <1>4, EmptySeq, ConsecutiveAscends
  <2>2. 1 \in 1 .. Len(s) /\ Append(s, b)[1] = s[1] /\ s[1].n \in Nat
    BY <1>1, <1>2, <2>1
  <2> SUFFICES ASSUME NEW i \in 1 .. Len(s) + 1
               PROVE  Append(s, b)[i].n = Append(s, b)[1].n + i - 1
    BY <1>2 DEF Consecutive
  <2>3. CASE i \in 1 .. Len(s)
    BY <1>2, <2>2, <2>3 DEF Consecutive
  <2>4. CASE i = Len(s) + 1
    <3>1. Append(s, b)[i].n = b.n /\ b.n = s[1].n + Len(s) - 1 + 1
      BY <1>2, <1>4, <2>1, <2>4
    <3>. QED BY <1>1, <2>2, <2>4, <3>1
  <2>. QED BY <1>1, <2>3, <2>4
<1>. QED BY <1>3, <1>4

----------------------------------------------------------------------------
(* Which steps touch what is observed, what completed and what was emitted. *)

LEMMA FailureLatches == [Next]_vars /\ failed => failed'
<1>. SUFFICES ASSUME [Next]_vars, failed PROVE failed'
  OBVIOUS
<1>. USE DEF verdictVars, Verdict
<1>1. CASE InitStep
  BY <1>1 DEF InitStep, Connect, OpenStream, Allocate, OpenRecorder, RegisterAndPrepare,
     InitStage
<1>2. CASE StartWorkers \/ RunStep
  BY <1>2 DEF StartWorkers, RunStep, BeforeStart, StartCommand, OpenGate, Arm, ReportStart,
     MonitorPass, MonitorTrouble, MonitorExit
<1>3. CASE StopStep \/ ShutdownStep
  BY <1>3 DEF StopStep, ShutdownStep, Disarm, StopSource, JoinReceiver, JoinWriter, Shutdown,
     FinalChecks, CloseStream, Disconnect, CloseRecorder
<1>4. CASE ReceiverStep
  BY <1>4 DEF ReceiverStep, ReceiverWait, ReceiverTop, ReceiverTimeout, ReceiverNull, ReceiverQuiet,
     ReceiverError, RejectBuffer, AcceptBuffer, FillSlot, PushSlot, CountAdmitted,
     ReceiverThrows, ReceiverClose
<1>5. CASE WriterStep
  BY <1>5 DEF WriterStep, PopSlot, AppendRecord, ReleaseSlot, AbandonQueue, DiscardSlot
<1>6. CASE OutsideStep
  BY <1>6, OutsideLeaves DEF OutsideFrame
<1>7. CASE UNCHANGED vars
  BY <1>7 DEF vars
<1>. QED BY <1>1, <1>2, <1>3, <1>4, <1>5, <1>6, <1>7, NextCases

(* Only Process observes a block, and only Process takes one from the SDK
   before the stream is closed. *)
Process == RejectBuffer \/ AcceptBuffer

LEMMA ObservationSteps ==
    [Next]_vars => Process \/ UNCHANGED <<taken, last, gaps, validObserved, excluded>>
<1>. SUFFICES ASSUME [Next]_vars, ~Process
              PROVE  UNCHANGED <<taken, last, gaps, validObserved, excluded>>
  OBVIOUS
<1>. USE DEF receiveVars
<1>1. CASE InitStep
  BY <1>1, InitMoves DEF InitFrame
<1>2. CASE StartWorkers
  BY <1>2 DEF StartWorkers
<1>3. CASE RunStep \/ StopStep \/ ShutdownStep
  BY <1>3, RunMoves, StopMoves, ShutdownMoves DEF WorkerFrame
<1>4. CASE ReceiverStep
  BY <1>4 DEF Process, ReceiverStep, ReceiverWait, ReceiverTop, ReceiverTimeout, ReceiverNull, ReceiverQuiet,
     ReceiverError, FillSlot, PushSlot, CountAdmitted, ReceiverThrows, ReceiverClose
<1>5. CASE WriterStep \/ OutsideStep
  BY <1>5, WriterMoves, OutsideLeaves DEF WriterFrame, OutsideFrame
<1>6. CASE UNCHANGED vars
  BY <1>6 DEF vars
<1>. QED BY <1>1, <1>2, <1>3, <1>4, <1>5, <1>6, NextCases

LEMMA SdkSteps ==
    [Next]_vars => \/ Process \/ CompleteBuffer
                   \/ CloseStream /\ UNCHANGED arrived
                   \/ UNCHANGED <<sdkDone, arrived>>
<1>. SUFFICES ASSUME [Next]_vars, ~Process, ~CompleteBuffer
              PROVE  (CloseStream /\ UNCHANGED arrived) \/ UNCHANGED <<sdkDone, arrived>>
  OBVIOUS
<1>. USE DEF sdkVars
<1>1. CASE InitStep
  BY <1>1, InitMoves DEF InitFrame
<1>2. CASE StartWorkers \/ RunStep
  BY <1>2, RunMoves DEF StartWorkers, RunFrame
<1>3. CASE StopStep
  BY <1>3 DEF StopStep, Disarm, StopSource, JoinReceiver, JoinWriter, Shutdown, RunFrame
<1>4. CASE ShutdownStep
  BY <1>4 DEF ShutdownStep, FinalChecks, CloseStream, Disconnect, CloseRecorder, RunFrame
<1>5. CASE ReceiverStep
  BY <1>5 DEF Process, ReceiverStep, ReceiverWait, ReceiverTop, ReceiverTimeout, ReceiverNull, ReceiverQuiet,
     ReceiverError, FillSlot, PushSlot, CountAdmitted, ReceiverThrows, ReceiverClose,
     ReceiverFrame
<1>6. CASE WriterStep
  BY <1>6, WriterMoves DEF WriterFrame
<1>7. CASE OutsideStep
  BY <1>7 DEF OutsideStep, EmitBlock, LoseBlock, RequestStop, HubChanges
<1>8. CASE UNCHANGED vars
  BY <1>8 DEF vars
<1>. QED BY <1>1, <1>2, <1>3, <1>4, <1>5, <1>6, <1>7, <1>8, NextCases

LEMMA NetworkSteps ==
    [Next]_vars => \/ EmitBlock
                   \/ UNCHANGED emitted /\ (CompleteBuffer \/ LoseBlock \/ UNCHANGED wire)
<1>. SUFFICES ASSUME [Next]_vars, ~EmitBlock
              PROVE  UNCHANGED emitted /\ (CompleteBuffer \/ LoseBlock \/ UNCHANGED wire)
  OBVIOUS
<1>. USE DEF cameraVars
<1>1. CASE InitStep
  BY <1>1, InitMoves DEF InitFrame
<1>2. CASE StartWorkers
  BY <1>2 DEF StartWorkers
<1>3. CASE RunStep
  BY <1>3 DEF RunStep, BeforeStart, StartCommand, OpenGate, Arm, ReportStart,
     MonitorPass, MonitorTrouble, MonitorExit, MonitorFrame
<1>4. CASE StopStep
  BY <1>4 DEF StopStep, Disarm, StopSource, JoinReceiver, JoinWriter, Shutdown
<1>5. CASE ShutdownStep
  BY <1>5 DEF ShutdownStep, FinalChecks, CloseStream, Disconnect, CloseRecorder
<1>6. CASE ReceiverStep \/ WriterStep
  BY <1>6, ReceiverMoves, WriterMoves DEF ReceiverFrame, WriterFrame
<1>7. CASE OutsideStep
  BY <1>7 DEF OutsideStep, RequestStop, HubChanges, CompleteBuffer, LoseBlock
<1>8. CASE UNCHANGED vars
  BY <1>8 DEF vars
<1>. QED BY <1>1, <1>2, <1>3, <1>4, <1>5, <1>6, <1>7, <1>8, NextCases

LEMMA ProcessTakes ==
    Process => /\ rpc = "retrieve" /\ sdkDone # << >>
               /\ sdkDone' = Tail(sdkDone) /\ taken' = Append(taken, Head(sdkDone))
               /\ last' = Observed.last /\ gaps' = gaps + Observed.gap
               /\ validObserved' = IF Valid THEN validObserved + 1 ELSE validObserved
               /\ excluded' \in {excluded, excluded \cup {Head(sdkDone).n}}
               /\ ~failed' => ~failed /\ ~Suspect
               /\ UNCHANGED <<stream, arrived, emitted, wire, pc>>
BY DEF Process, RejectBuffer, AcceptBuffer, Account, ReceiverFrame, Verdict, cameraVars, mainVars

(* Every block on the network, in the SDK or retrieved was emitted. *)
BlocksEmitted ==
    /\ emitted <= Frames
    /\ Elements(wire) \subseteq 1 .. emitted
    /\ \A b \in Elements(sdkDone) \cup Elements(taken) : b.n \in 1 .. emitted

LEMMA WithoutElements ==
    ASSUME NEW S, NEW s \in Seq(S), NEW i \in 1 .. Len(s)
    PROVE  Elements(Without(s, i)) \subseteq Elements(s)
<1>0. Len(s) \in Nat /\ \A k \in 1 .. Len(s) : s[k] \in Elements(s)
  BY DEF Elements
<1>1. /\ SubSeq(s, 1, i - 1) \in Seq(Elements(s))
      /\ SubSeq(s, i + 1, Len(s)) \in Seq(Elements(s))
  <2>1. \A k \in 1 .. i - 1 : s[k] \in Elements(s)
    BY <1>0
  <2>2. \A k \in i + 1 .. Len(s) : s[k] \in Elements(s)
    BY <1>0
  <2>. QED BY <1>0, <2>1, <2>2, SubSeqProperties
<1>2. Without(s, i) \in Seq(Elements(s))
  BY <1>1, ConcatProperties DEF Without
<1>3. \A k \in 1 .. Len(Without(s, i)) : Without(s, i)[k] \in Elements(s)
  BY <1>2, ElementOfSeq
<1>. QED BY <1>3 DEF Elements

LEMMA TailElements ==
    ASSUME NEW S, NEW s \in Seq(S), s # << >>
    PROVE  Elements(Tail(s)) \subseteq Elements(s) /\ Head(s) \in Elements(s)
<1>1. Len(s) \in Nat /\ Len(s) # 0 /\ Head(s) = s[1]
  BY EmptySeq
<1>2. /\ Len(Tail(s)) = Len(s) - 1
      /\ \A i \in 1 .. Len(Tail(s)) : Tail(s)[i] = s[i + 1]
  BY HeadTailProperties
<1>. QED BY <1>1, <1>2 DEF Elements

LEMMA EmittedStep ==
    ASSUME TypeOK, BlocksEmitted, [Next]_vars
    PROVE  BlocksEmitted'
<1>0. /\ emitted \in Nat /\ Frames \in Nat /\ wire \in Seq(Nat)
      /\ sdkDone \in Seq(Blocks) /\ taken \in Seq(Blocks)
  BY BoundsAssumption DEF TypeOK, OutsideTypeOK, ReceiverTypeOK
<1>1. /\ emitted' \in Nat /\ emitted <= emitted' /\ emitted' <= Frames
      /\ Elements(wire') \subseteq 1 .. emitted'
  <2>1. CASE EmitBlock
    <3>1. emitted < Frames /\ emitted' = emitted + 1 /\ wire' = Append(wire, emitted + 1)
      BY <2>1 DEF EmitBlock
    <3>2. Elements(wire') = Elements(wire) \cup {emitted + 1}
      BY <1>0, <3>1, AppendElements
    <3>. QED BY <1>0, <3>1, <3>2 DEF BlocksEmitted
  <2>2. CASE UNCHANGED emitted /\ (CompleteBuffer \/ LoseBlock \/ UNCHANGED wire)
    <3>1. wire' = wire \/ \E i \in 1 .. Len(wire) : wire' = Without(wire, i)
      BY <2>2 DEF CompleteBuffer, LoseBlock
    <3>2. Elements(wire') \subseteq Elements(wire)
      BY <1>0, <3>1, WithoutElements
    <3>. QED BY <1>0, <2>2, <3>2 DEF BlocksEmitted
  <2>. QED BY <2>1, <2>2, NetworkSteps
<1>2. \A b \in Elements(sdkDone') \cup Elements(taken') : b.n \in 1 .. emitted
  <2>1. CASE Process
    <3>1. sdkDone # << >> /\ sdkDone' = Tail(sdkDone) /\ taken' = Append(taken, Head(sdkDone))
      BY <2>1, ProcessTakes
    <3>2. /\ Elements(sdkDone') \subseteq Elements(sdkDone)
          /\ Head(sdkDone) \in Elements(sdkDone)
      BY <1>0, <3>1, TailElements
    <3>3. Elements(taken') = Elements(taken) \cup {Head(sdkDone)}
      <4>1. Head(sdkDone) \in Blocks
        BY <1>0, <3>1, HeadTailProperties
      <4>. QED BY <1>0, <3>1, <4>1, AppendElements
    <3>. QED BY <3>2, <3>3 DEF BlocksEmitted
  <2>2. CASE CompleteBuffer
    <3>1. PICK i \in 1 .. Len(wire), kind \in Kinds :
             sdkDone' = Append(sdkDone, [n |-> wire[i], kind |-> kind])
      BY <2>2 DEF CompleteBuffer
    <3>2. wire[i] \in Elements(wire) /\ wire[i] \in Nat
      BY <1>0, ElementOfSeq DEF Elements
    <3>3. [n |-> wire[i], kind |-> kind] \in Blocks
      BY <3>2, KindsAssumption DEF Blocks
    <3>4. Elements(sdkDone') = Elements(sdkDone) \cup {[n |-> wire[i], kind |-> kind]}
      BY <1>0, <3>1, <3>3, AppendElements
    <3>5. taken' = taken
      BY <2>2 DEF CompleteBuffer, OutsideFrame, receiveVars
    <3>. QED BY <3>2, <3>4, <3>5 DEF BlocksEmitted
  <2>3. CASE ~Process /\ ~CompleteBuffer
    <3>1. taken' = taken /\ (sdkDone' = sdkDone \/ sdkDone' = << >>)
      BY <2>3, ObservationSteps, SdkSteps DEF CloseStream
    <3>2. Elements(<< >>) = {}
      BY DEF Elements
    <3>. QED BY <3>1, <3>2 DEF BlocksEmitted
  <2>. QED BY <2>1, <2>2, <2>3
<1>3. 1 .. emitted \subseteq 1 .. emitted'
  BY <1>0, <1>1
<1>. QED BY <1>1, <1>2, <1>3 DEF BlocksEmitted

(* No two successive blocks are half a cycle of identifiers or more apart: what
   BlockIds needs to tell a gap from a block that comes late. *)
ShortOutages ==
    Extended \/ \A i \in 1 .. Len(taken) - 1 : taken[i + 1].n - taken[i].n \in -Half .. Half

Continuity ==
    /\ taken = << >> => last = NoId /\ gaps = 0
    /\ taken # << >> /\ Ascending(taken) =>
          /\ last = BlockId(taken[Len(taken)])
          /\ gaps = taken[Len(taken)].n - taken[1].n + 1 - Len(taken)
    /\ ~failed => /\ Consecutive(taken)
                  /\ \A b \in Elements(taken) : b.kind \in {"image", "other"}

LEMMA ProcessOne ==
    ASSUME TypeOK, BlocksEmitted, Process
    PROVE  /\ sdkDone # << >> /\ Head(sdkDone) \in Blocks /\ Head(sdkDone).n \in Nat \ {0}
           /\ Head(sdkDone).n \in 1 .. emitted
           /\ Len(taken') = Len(taken) + 1 /\ taken'[Len(taken) + 1] = Head(sdkDone)
           /\ \A i \in 1 .. Len(taken) : taken'[i] = taken[i]
           /\ Elements(taken') = Elements(taken) \cup {Head(sdkDone)}
           /\ taken' \in Seq(Blocks) /\ taken' # << >>
<1>0. sdkDone \in Seq(Blocks) /\ taken \in Seq(Blocks) /\ emitted \in Nat
  BY DEF TypeOK, OutsideTypeOK, ReceiverTypeOK
<1>1. sdkDone # << >> /\ taken' = Append(taken, Head(sdkDone))
  BY ProcessTakes
<1>2. Head(sdkDone) \in Blocks
  BY <1>0, <1>1, HeadTailProperties
<1>3. Head(sdkDone).n \in 1 .. emitted
  <2>1. Head(sdkDone) \in Elements(sdkDone)
    BY <1>0, <1>1, TailElements
  <2>. QED BY <2>1 DEF BlocksEmitted
<1>. QED BY <1>0, <1>1, <1>2, <1>3, AppendProperties, AppendElements

LEMMA OutagesGrow ==
    ASSUME TypeOK, BlocksEmitted, [Next]_vars, ShortOutages'
    PROVE  /\ ShortOutages
           /\ Process /\ taken # << >> =>
                 Extended \/ Head(sdkDone).n - taken[Len(taken)].n \in -Half .. Half
<1>1. CASE ~Process
  BY <1>1, ObservationSteps DEF ShortOutages
<1>2. CASE Process
  <2>1. /\ Len(taken') = Len(taken) + 1 /\ taken'[Len(taken) + 1] = Head(sdkDone)
        /\ \A i \in 1 .. Len(taken) : taken'[i] = taken[i]
    BY <1>2, ProcessOne
  <2>2. taken \in Seq(Blocks) /\ Len(taken) \in Nat /\ (taken # << >> => Len(taken) # 0)
    BY EmptySeq DEF TypeOK, ReceiverTypeOK
  <2>3. ~Extended => \A i \in 1 .. Len(taken) : taken'[i + 1].n - taken'[i].n \in -Half .. Half
    BY <2>1, <2>2 DEF ShortOutages
  <2>4. ShortOutages
    BY <2>1, <2>2, <2>3 DEF ShortOutages
  <2>5. ASSUME taken # << >>, ~Extended
        PROVE  Head(sdkDone).n - taken[Len(taken)].n \in -Half .. Half
    <3>1. Len(taken) \in 1 .. Len(taken)
      BY <2>2, <2>5
    <3>. QED BY <2>1, <2>3, <2>5, <3>1
  <2>. QED BY <2>4, <2>5
<1>. QED BY <1>1, <1>2

LEMMA ContinuityStep ==
    ASSUME TypeOK, BlocksEmitted, [Next]_vars, ShortOutages => Continuity
    PROVE  ShortOutages' => Continuity'
<1>. SUFFICES ASSUME ShortOutages' PROVE Continuity'
  OBVIOUS
<1>0. ShortOutages /\ Continuity
  BY OutagesGrow
<1>1. CASE ~Process
  <2>1. UNCHANGED <<taken, last, gaps>> /\ (~failed' => ~failed)
    BY <1>1, ObservationSteps, FailureLatches
  <2>. QED BY <1>0, <2>1 DEF Continuity, BlockId
<1>2. CASE Process
  <2> DEFINE b == Head(sdkDone)
             k == Len(taken)
             prev == taken[k]
  <2>0. /\ taken \in Seq(Blocks) /\ k \in Nat /\ gaps \in Nat
        /\ taken # << >> => k # 0 /\ prev.n \in Nat \ {0} /\ taken[1].n \in Nat
        /\ taken = << >> => k = 0
    <3>1. taken \in Seq(Blocks) /\ gaps \in Nat
      BY DEF TypeOK, ReceiverTypeOK
    <3>2. ASSUME taken # << >>
          PROVE  k # 0 /\ prev.n \in Nat \ {0} /\ taken[1].n \in Nat
      <4>1. k \in Nat /\ k # 0
        BY <3>1, <3>2, EmptySeq
      <4>2. prev \in Elements(taken) /\ taken[1] \in Elements(taken)
        BY <4>1 DEF Elements
      <4>. QED BY <4>1, <4>2 DEF BlocksEmitted
    <3>. QED BY <3>1, <3>2, EmptySeq
  <2>1. /\ b \in Blocks /\ b.n \in Nat \ {0}
        /\ Len(taken') = k + 1 /\ taken'[k + 1] = b
        /\ \A i \in 1 .. k : taken'[i] = taken[i]
        /\ Elements(taken') = Elements(taken) \cup {b}
        /\ taken' # << >>
    BY <1>2, ProcessOne
  <2>2. /\ taken' = Append(taken, b) /\ last' = Observe(last, BlockId(b)).last
        /\ gaps' = gaps + Observe(last, BlockId(b)).gap
        /\ ~failed' => ~failed /\ ~Suspect
    BY <1>2, ProcessTakes DEF Observed
  <2>3. taken # << >> => Extended \/ b.n - prev.n \in -Half .. Half
    BY <1>2, OutagesGrow
  <2> HIDE DEF b, k, prev
  <2>4. ASSUME Ascending(taken')
        PROVE  /\ last' = BlockId(taken'[Len(taken')])
               /\ gaps' = taken'[Len(taken')].n - taken'[1].n + 1 - Len(taken')
    <3>1. CASE taken = << >>
      <4>1. Observe(last, BlockId(b)) = [gap |-> 0, anomaly |-> FALSE, last |-> BlockId(b)]
        BY <1>0, <2>1, <3>1, ObserveFirst DEF Continuity, BlockId
      <4>2. last' = BlockId(b) /\ gaps' = 0
        BY <1>0, <2>2, <3>1, <4>1 DEF Continuity
      <4>. QED BY <2>0, <2>1, <3>1, <4>2
    <3>2. CASE taken # << >>
      <4>1. Ascending(taken) /\ prev.n < b.n
        <5>1. Ascending(taken) /\ \A x \in Elements(taken) : x.n < b.n
          BY <2>0, <2>1, <2>2, <2>4, AppendAscends
        <5>2. prev \in Elements(taken)
          BY <2>0, <3>2 DEF Elements, prev, k
        <5>. QED BY <5>1, <5>2
      <4>2. last = BlockId(prev) /\ gaps = prev.n - taken[1].n + 1 - k
        BY <1>0, <3>2, <4>1 DEF Continuity, prev, k
      <4>3. Observe(last, BlockId(b))
               = [gap |-> b.n - prev.n - 1, anomaly |-> FALSE, last |-> BlockId(b)]
        <5>1. prev.n \in Nat \ {0} /\ b.n \in Nat /\ (Extended \/ b.n - prev.n <= Half)
          BY <2>0, <2>1, <2>3, <3>2, HalfIsHalf
        <5>. QED BY <4>1, <4>2, <5>1, ObserveForward DEF BlockId
      <4>4. last' = BlockId(b) /\ gaps' = gaps + (b.n - prev.n - 1)
        BY <2>2, <4>3
      <4>5. taken'[1] = taken[1]
        BY <2>0, <2>1, <3>2
      <4>. QED BY <2>0, <2>1, <3>2, <4>2, <4>4, <4>5
    <3>. QED BY <3>1, <3>2
  <2>5. ASSUME ~failed'
        PROVE  /\ Consecutive(taken')
               /\ \A x \in Elements(taken') : x.kind \in {"image", "other"}
    <3>1. /\ ~failed /\ b.kind \notin {"error", "partial", "unsafe"}
          /\ Observe(last, BlockId(b)).gap = 0 /\ ~Observe(last, BlockId(b)).anomaly
      BY <2>2, <2>5 DEF Suspect, Observed, b
    <3>2. Consecutive(taken) /\ \A x \in Elements(taken) : x.kind \in {"image", "other"}
      BY <1>0, <3>1 DEF Continuity
    <3>3. taken # << >> => b.n = prev.n + 1
      <4> SUFFICES ASSUME taken # << >> PROVE b.n = prev.n + 1
        OBVIOUS
      <4>1. last = BlockId(prev)
        BY <1>0, <2>0, <3>2, ConsecutiveAscends DEF Continuity, prev, k
      <4>. QED BY <2>0, <2>1, <2>3, <3>1, <4>1, ObserveNext DEF BlockId
    <3>4. Consecutive(taken')
      BY <2>0, <2>1, <2>2, <3>2, <3>3, AppendConsecutive DEF prev, k
    <3>5. b.kind \in {"image", "other"}
      BY <2>1, <3>1 DEF Blocks, AllKinds
    <3>. QED BY <2>1, <3>2, <3>4, <3>5
  <2>. QED BY <2>1, <2>4, <2>5 DEF Continuity
<1>. QED BY <1>1, <1>2

(* The writer gives a block up only after it has failed the camera. *)
WriterFaults == ioFailed \/ wpc \in {"abandon", "discard"} => failed

LEMMA WriterFaultsStep ==
    ASSUME WriterFaults, [Next]_vars PROVE WriterFaults'
<1>. USE DEF WriterFaults, writeVars
<1>1. CASE ~WriterStep
  <2>1. ioFailed' = ioFailed /\ (wpc' = wpc \/ wpc' \in {"none", "pop"})
    <3>1. CASE InitStep \/ RunStep \/ StopStep \/ ShutdownStep
      BY <3>1, InitMoves, RunMoves, StopMoves, ShutdownMoves DEF InitFrame, WorkerFrame
    <3>2. CASE StartWorkers
      BY <3>2 DEF StartWorkers
    <3>3. CASE ReceiverStep \/ OutsideStep
      BY <3>3, ReceiverMoves, OutsideLeaves DEF ReceiverFrame, OutsideFrame
    <3>4. CASE UNCHANGED vars
      BY <3>4 DEF vars
    <3>. QED BY <1>1, <3>1, <3>2, <3>3, <3>4, NextCases
  <2>. QED BY <2>1, FailureLatches
<1>2. CASE WriterStep
  BY <1>2, FailureLatches DEF WriterStep, PopSlot, AppendRecord, ReleaseSlot, AbandonQueue,
     DiscardSlot, Verdict
<1>. QED BY <1>1, <1>2

(* Every buffer that completed is retrieved or waits in the SDK. *)
ArrivalsCounted ==
    /\ ~failed => arrived = Len(taken) + Len(sdkDone)
    /\ stream # "open" => sdkDone = << >>
    /\ pc \in {"disconnect", "closeRecorder", "done"} => stream # "open"

LEMMA StreamSteps ==
    [Next]_vars => /\ stream' \in {stream, "open", "closed"}
                   /\ stream' # "open" => stream # "open" \/ CloseStream
                   /\ pc' \in {"disconnect", "closeRecorder", "done"} =>
                         \/ CloseStream /\ stream' # "open"
                         \/ pc \in {"disconnect", "closeRecorder", "done"} /\ UNCHANGED stream
<1>. SUFFICES ASSUME [Next]_vars
              PROVE  /\ stream' \in {stream, "open", "closed"}
                     /\ stream' # "open" => stream # "open" \/ CloseStream
                     /\ pc' \in {"disconnect", "closeRecorder", "done"} =>
                           \/ CloseStream /\ stream' # "open"
                           \/ pc \in {"disconnect", "closeRecorder", "done"} /\ UNCHANGED stream
  OBVIOUS
<1>. USE DEF sdkVars, mainVars
<1>1. CASE InitStep
  BY <1>1, InitMoves DEF Early
<1>2. CASE StartWorkers
  BY <1>2 DEF StartWorkers, RunFrame
<1>3. CASE RunStep \/ StopStep
  BY <1>3, RunMoves, StopMoves DEF RunFrame, Starting
<1>4. CASE ShutdownStep
  BY <1>4 DEF ShutdownStep, FinalChecks, CloseStream, Disconnect, CloseRecorder, RunFrame
<1>5. CASE ReceiverStep \/ WriterStep \/ OutsideStep
  BY <1>5, ReceiverMoves, WriterMoves, OutsideLeaves DEF ReceiverFrame, WriterFrame, OutsideFrame
<1>6. CASE UNCHANGED vars
  BY <1>6 DEF vars
<1>. QED BY <1>1, <1>2, <1>3, <1>4, <1>5, <1>6, NextCases

LEMMA ArrivalsStep ==
    ASSUME TypeOK, BlocksEmitted, ArrivalsCounted, [Next]_vars
    PROVE  ArrivalsCounted'
<1>0. /\ sdkDone \in Seq(Blocks) /\ taken \in Seq(Blocks) /\ wire \in Seq(Nat) /\ arrived \in Nat
      /\ Len(sdkDone) \in Nat /\ Len(taken) \in Nat /\ Len(<< >>) = 0
  BY EmptySeq DEF TypeOK, OutsideTypeOK, ReceiverTypeOK
<1>1. CASE Process
  <2>1. /\ sdkDone' = Tail(sdkDone) /\ sdkDone # << >> /\ UNCHANGED <<stream, arrived, pc>>
        /\ ~failed' => ~failed
    BY <1>1, ProcessTakes
  <2>2. Len(taken') = Len(taken) + 1
    BY <1>1, ProcessOne
  <2>3. Len(sdkDone') = Len(sdkDone) - 1
    BY <1>0, <2>1, HeadTailProperties
  <2>4. Len(taken') + Len(sdkDone') = Len(taken) + Len(sdkDone)
    BY <1>0, <2>2, <2>3
  <2>5. stream = "open"
    BY <2>1 DEF ArrivalsCounted
  <2>. QED BY <2>1, <2>4, <2>5 DEF ArrivalsCounted
<1>2. CASE CompleteBuffer
  <2>1. PICK i \in 1 .. Len(wire), kind \in Kinds :
           sdkDone' = Append(sdkDone, [n |-> wire[i], kind |-> kind])
    BY <1>2 DEF CompleteBuffer
  <2>2. [n |-> wire[i], kind |-> kind] \in Blocks
    BY <1>0, ElementOfSeq, KindsAssumption DEF Blocks
  <2>3. Len(sdkDone') = Len(sdkDone) + 1
    BY <1>0, <2>1, <2>2, AppendProperties
  <2>4. arrived' = arrived + 1 /\ stream = "open" /\ UNCHANGED <<stream, pc, taken, failed>>
    BY <1>2 DEF CompleteBuffer, OutsideFrame, receiveVars, mainVars, verdictVars
  <2>5. Len(taken') + Len(sdkDone') = Len(taken) + Len(sdkDone) + 1
    BY <1>0, <2>3, <2>4
  <2>. QED BY <2>4, <2>5 DEF ArrivalsCounted
<1>3. CASE CloseStream
  <2>1. /\ sdkDone' = << >> /\ UNCHANGED <<arrived, taken>>
        /\ ~failed' => ~failed /\ ~(stream = "open" /\ sdkDone # << >>)
        /\ stream' # "open"
    BY <1>3 DEF CloseStream, WorkerFrame, receiveVars, Verdict
  <2>. QED BY <1>0, <2>1 DEF ArrivalsCounted
<1>4. CASE ~Process /\ ~CompleteBuffer /\ ~CloseStream
  <2>1. UNCHANGED <<taken, sdkDone, arrived>> /\ (~failed' => ~failed)
    BY <1>4, ObservationSteps, SdkSteps, FailureLatches
  <2>. QED BY <1>4, <2>1, StreamSteps DEF ArrivalsCounted
<1>. QED BY <1>1, <1>2, <1>3, <1>4

(* Only images in order are counted as valid. *)
ValidCounted ==
    /\ validObserved <= Len(taken)
    /\ validObserved = Len(taken) => \A b \in Elements(taken) : b.kind = "image"

LEMMA ValidStep ==
    ASSUME TypeOK, BlocksEmitted, ValidCounted, [Next]_vars
    PROVE  ValidCounted'
<1>0. validObserved \in Nat /\ taken \in Seq(Blocks) /\ Len(taken) \in Nat
  BY DEF TypeOK, ReceiverTypeOK
<1>1. CASE Process
  <2>1. /\ validObserved' = IF Valid THEN validObserved + 1 ELSE validObserved
        /\ Valid => Head(sdkDone).kind = "image"
    BY <1>1, ProcessTakes DEF Valid
  <2>2. /\ Len(taken') = Len(taken) + 1
        /\ Elements(taken') = Elements(taken) \cup {Head(sdkDone)}
    BY <1>1, ProcessOne
  <2>. HIDE DEF Valid
  <2>. QED BY <1>0, <2>1, <2>2 DEF ValidCounted
<1>2. CASE ~Process
  BY <1>2, ObservationSteps DEF ValidCounted
<1>. QED BY <1>1, <1>2

----------------------------------------------------------------------------
(* From the receiver to the disk.                                          *)

(* Admitted blocks on their way: written, in the writer's hand, queued, in the
   receiver's hand. *)
Behind == IF wpc = "append" THEN <<wslot>> ELSE << >>
Ahead == IF rpc \in {"slot", "push"} THEN <<rbuf>> ELSE << >>
Pipeline == (written \o Behind) \o (queue \o Ahead)

LEMMA PipelineType ==
    ASSUME TypeOK
    PROVE  /\ written \in Seq(Blocks) /\ queue \in Seq(Blocks)
           /\ Behind \in Seq(Blocks) /\ Ahead \in Seq(Blocks)
           /\ written \o Behind \in Seq(Blocks) /\ queue \o Ahead \in Seq(Blocks)
           /\ Pipeline \in Seq(Blocks)
           /\ wslot \in Blocks /\ rbuf \in Blocks
<1>1. /\ written \in Seq(Blocks) /\ queue \in Seq(Blocks) /\ wslot \in Blocks /\ rbuf \in Blocks
  BY DEF TypeOK, StorageTypeOK, ReceiverTypeOK
<1>2. Behind \in Seq(Blocks) /\ Ahead \in Seq(Blocks)
  BY <1>1 DEF Behind, Ahead
<1>3. written \o Behind \in Seq(Blocks) /\ queue \o Ahead \in Seq(Blocks)
  BY <1>1, <1>2, ConcatProperties
<1>. QED BY <1>1, <1>2, <1>3, ConcatProperties DEF Pipeline

(* Moving a block along, and putting one in. *)
LEMMA HandOver ==
    ASSUME NEW S, NEW u \in Seq(S), NEW v \in Seq(S), NEW b \in S
    PROVE  /\ u \o (<<b>> \o v) = (u \o <<b>>) \o v
           /\ u \o (v \o <<b>>) = Append(u \o v, b)
           /\ u \o <<b>> = Append(u, b)
           /\ u \o << >> = u
<1>1. <<b>> \in Seq(S)
  OBVIOUS
<1>2. u \o (<<b>> \o v) = (u \o <<b>>) \o v /\ u \o (v \o <<b>>) = (u \o v) \o <<b>>
  BY <1>1, ConcatAssociative
<1>3. u \o v \in Seq(S)
  BY ConcatProperties
<1>. QED BY <1>2, <1>3, AppendIsConcat, ConcatEmptySeq

LEMMA ReceiverPipeline ==
    ASSUME TypeOK, ReceiverStep, ~failed'
    PROVE  /\ UNCHANGED <<written, Behind>>
           /\ IF AcceptBuffer THEN Pipeline' = Append(Pipeline, Head(sdkDone))
              ELSE queue' \o Ahead' = queue \o Ahead
<1>0. UNCHANGED <<written, Behind>>
  BY ReceiverMoves DEF ReceiverFrame, writeVars, Behind
<1>1. CASE AcceptBuffer
  <2>1. /\ Ahead = << >> /\ Ahead' = <<Head(sdkDone)>> /\ UNCHANGED queue
        /\ sdkDone # << >>
    BY <1>1 DEF AcceptBuffer, Account, Ahead, queueVars
  <2>2. Head(sdkDone) \in Blocks
    BY <2>1, HeadTailProperties DEF TypeOK, OutsideTypeOK
  <2>3. Pipeline' = (written \o Behind) \o (queue \o <<Head(sdkDone)>>)
    BY <1>0, <2>1 DEF Pipeline
  <2>4. Pipeline = (written \o Behind) \o queue
    BY <2>1, PipelineType, ConcatEmptySeq DEF Pipeline
  <2>5. /\ written \o Behind \in Seq(Blocks) /\ queue \in Seq(Blocks)
    BY PipelineType
  <2>6. (written \o Behind) \o (queue \o <<Head(sdkDone)>>)
           = Append((written \o Behind) \o queue, Head(sdkDone))
    BY <2>2, <2>5, HandOver
  <2>. QED BY ONLY <1>0, <1>1, <2>3, <2>4, <2>6
<1>2. CASE PushSlot
  <2>1. rpc = "push" /\ rpc' = "count" /\ queue' = Append(queue, rbuf)
    BY <1>2 DEF PushSlot, Verdict
  <2>2. Ahead = <<rbuf>> /\ Ahead' = << >>
    BY <2>1 DEF Ahead
  <2>3. Append(queue, rbuf) \in Seq(Blocks)
    BY PipelineType, AppendProperties
  <2>4. queue' \o Ahead' = Append(queue, rbuf)
    BY <2>1, <2>2, <2>3, ConcatEmptySeq
  <2>5. queue \o Ahead = Append(queue, rbuf)
    BY <2>2, PipelineType, HandOver
  <2>6. ~AcceptBuffer
    BY <2>1 DEF AcceptBuffer, Account
  <2>. QED BY <1>0, <2>4, <2>5, <2>6
<1>3. CASE FillSlot
  <2>1. rpc = "slot" /\ rpc' = "push" /\ UNCHANGED <<queue, rbuf>>
    BY <1>3 DEF FillSlot, Verdict
  <2>. QED BY <1>0, <2>1 DEF Ahead, AcceptBuffer, Account
<1>4. CASE ReceiverThrows
  BY <1>4 DEF ReceiverThrows, Verdict
<1>5. CASE ~(AcceptBuffer \/ PushSlot \/ FillSlot \/ ReceiverThrows)
  <2>1. rpc \notin {"slot", "push"} /\ rpc' \notin {"slot", "push"} /\ UNCHANGED queue
    BY <1>5 DEF ReceiverStep, ReceiverWait, ReceiverTop, ReceiverTimeout, ReceiverNull, ReceiverQuiet,
       ReceiverError, RejectBuffer, CountAdmitted, ReceiverClose, Account, queueVars
  <2>. QED BY <1>0, <1>5, <2>1 DEF Ahead
<1>. QED BY <1>1, <1>2, <1>3, <1>4, <1>5

LEMMA WriterPipeline ==
    ASSUME TypeOK, WriterFaults, WriterStep, ~failed'
    PROVE  Pipeline' = Pipeline
<1>0. UNCHANGED Ahead /\ ~failed /\ ~ioFailed /\ wpc \notin {"abandon", "discard"}
  <2>1. ~failed
    BY FailureLatches DEF Next
  <2>. QED BY <2>1, WriterMoves DEF WriterFrame, receiveVars, Ahead, WriterFaults
<1>1. CASE PopSlot
  <2>1. CASE queue = << >>
    <3>1. UNCHANGED <<queue, written>> /\ wpc = "pop" /\ wpc' = "done"
      BY <1>1, <2>1 DEF PopSlot
    <3>. QED BY <1>0, <3>1 DEF Pipeline, Behind
  <2>2. CASE queue # << >>
    <3>1. /\ wpc = "pop" /\ wpc' = "append" /\ wslot' = Head(queue) /\ queue' = Tail(queue)
          /\ written' = written
      BY <1>1, <2>2 DEF PopSlot
    <3>2. Head(queue) \in Blocks /\ Tail(queue) \in Seq(Blocks)
      BY <2>2, PipelineType, HeadTailProperties
    <3>3. queue = <<Head(queue)>> \o Tail(queue)
      <4>1. Len(queue) \in Nat /\ Len(queue) # 0 /\ queue \in Seq(Blocks)
        BY <2>2, PipelineType, EmptySeq
      <4>2. /\ queue = SubSeq(queue, 1, Len(queue))
            /\ SubSeq(queue, 1, Len(queue)) = <<queue[1]>> \o SubSeq(queue, 2, Len(queue))
        <5>1. 1 \in 1 .. Len(queue) /\ Len(queue) \in 1 .. Len(queue)
          BY <4>1
        <5>. QED BY <4>1, <5>1, SubSeqFull, SubSeqRecursiveFirst
      <4>. QED BY <2>2, <4>1, <4>2, TailIsSubSeq
    <3>4. queue \o Ahead = <<Head(queue)>> \o (Tail(queue) \o Ahead)
      <4>1. <<Head(queue)>> \in Seq(Blocks)
        BY <3>2
      <4>. QED BY <3>2, <3>3, <4>1, PipelineType, ConcatAssociative
    <3>5. Tail(queue) \o Ahead \in Seq(Blocks)
      BY <3>2, PipelineType, ConcatProperties
    <3>6. /\ Pipeline = (written \o << >>) \o (<<Head(queue)>> \o (Tail(queue) \o Ahead))
          /\ Pipeline' = (written \o <<Head(queue)>>) \o (Tail(queue) \o Ahead)
      BY <1>0, <3>1, <3>4 DEF Pipeline, Behind
    <3>7. written \in Seq(Blocks)
      BY PipelineType
    <3>8. /\ written \o << >> = written
          /\ written \o (<<Head(queue)>> \o (Tail(queue) \o Ahead))
                = (written \o <<Head(queue)>>) \o (Tail(queue) \o Ahead)
      <4> DEFINE h == Head(queue)
                 t == Tail(queue) \o Ahead
      <4>1. h \in Blocks /\ t \in Seq(Blocks)
        BY <3>2, <3>5
      <4> HIDE DEF h, t
      <4>2. written \o << >> = written
        BY <3>7, ConcatEmptySeq
      <4>3. written \o (<<h>> \o t) = (written \o <<h>>) \o t
        BY <3>7, <4>1, HandOver
      <4>. QED BY <4>2, <4>3 DEF h, t
    <3>. QED BY ONLY <3>6, <3>8
  <2>. QED BY <2>1, <2>2
<1>2. CASE AppendRecord
  <2>1. /\ wpc = "append" /\ wpc' = "release" /\ written' = Append(written, wslot)
        /\ UNCHANGED queue
    BY <1>0, <1>2 DEF AppendRecord, Verdict, queueVars
  <2>2. Behind = <<wslot>> /\ Behind' = << >>
    BY <2>1 DEF Behind
  <2>3. Append(written, wslot) \in Seq(Blocks)
    BY PipelineType, AppendProperties
  <2>4. written \o Behind = Append(written, wslot)
    BY <2>2, PipelineType, HandOver
  <2>5. written' \o Behind' = Append(written, wslot)
    BY <2>1, <2>2, <2>3, ConcatEmptySeq
  <2>. QED BY <1>0, <2>1, <2>4, <2>5 DEF Pipeline
<1>3. CASE ReleaseSlot
  BY <1>0, <1>3 DEF ReleaseSlot, Pipeline, Behind
<1>. QED BY <1>0, <1>1, <1>2, <1>3 DEF WriterStep, AbandonQueue, DiscardSlot

LEMMA PipelineSteps ==
    ASSUME TypeOK, StagesAgree, WriterFaults, [Next]_vars, ~failed'
    PROVE  IF AcceptBuffer THEN Pipeline' = Append(Pipeline, Head(sdkDone))
           ELSE Pipeline' = Pipeline
<1>1. CASE ReceiverStep
  BY <1>1, ReceiverPipeline DEF Pipeline
<1>2. CASE WriterStep
  <2>1. ~AcceptBuffer
    BY <1>2, WriterMoves DEF WriterFrame, receiveVars, AcceptBuffer, Account
  <2>. QED BY <1>2, <2>1, WriterPipeline
<1>3. CASE ~ReceiverStep /\ ~WriterStep
  <2>1. ~AcceptBuffer
    BY <1>3 DEF ReceiverStep
  <2>2. UNCHANGED <<queue, written, Ahead, Behind>>
    <3>. USE DEF receiveVars, writeVars, queueVars, recorderVars, Ahead, Behind
    <3>1. CASE InitStep
      BY <3>1, InitMoves DEF InitFrame
    <3>2. CASE RunStep \/ StopStep \/ ShutdownStep
      BY <3>2, RunMoves, StopMoves, ShutdownMoves DEF WorkerFrame, RunFrame
    <3>3. CASE StartWorkers
      <4>1. /\ UNCHANGED <<queue, written>> /\ rpc = "none" /\ wpc = "none"
            /\ rpc' \in {"none", "wait"} /\ wpc' \in {"none", "pop"}
        BY <3>3 DEF StartWorkers, RunFrame, StagesAgree, Early
      <4>. QED BY <4>1
    <3>4. CASE OutsideStep
      BY <3>4, OutsideLeaves DEF OutsideFrame
    <3>5. CASE UNCHANGED vars
      BY <3>5 DEF vars
    <3>. QED BY <1>3, <3>1, <3>2, <3>3, <3>4, <3>5, NextCases
  <2>. QED BY <2>1, <2>2 DEF Pipeline
<1>. QED BY <1>1, <1>2, <1>3

(* Until the camera fails, what is written or on its way is what was retrieved
   and not excluded, in order. *)
ExcludedTaken == \A x \in excluded : \E b \in Elements(taken) : b.n = x
RecordKept ==
    ~failed => /\ Ascending(Pipeline)
               /\ Elements(Pipeline) = {b \in Elements(taken) : b.n \notin excluded}

LEMMA ExcludedStep ==
    ASSUME TypeOK, BlocksEmitted, ExcludedTaken, [Next]_vars
    PROVE  ExcludedTaken'
<1>1. CASE Process
  <2>1. /\ Elements(taken') = Elements(taken) \cup {Head(sdkDone)}
        /\ excluded' \in {excluded, excluded \cup {Head(sdkDone).n}}
    BY <1>1, ProcessOne, ProcessTakes
  <2>. QED BY <2>1 DEF ExcludedTaken
<1>2. CASE ~Process
  BY <1>2, ObservationSteps DEF ExcludedTaken
<1>. QED BY <1>1, <1>2

LEMMA KeptStep ==
    ASSUME TypeOK, StagesAgree, BlocksEmitted, WriterFaults, ExcludedTaken, [Next]_vars,
           ShortOutages => Continuity, ShortOutages => RecordKept
    PROVE  ShortOutages' => RecordKept'
<1>. SUFFICES ASSUME ShortOutages', ~failed'
              PROVE  /\ Ascending(Pipeline')
                     /\ Elements(Pipeline') = {x \in Elements(taken') : x.n \notin excluded'}
  BY DEF RecordKept
<1>1. /\ ~failed /\ Continuity' /\ Ascending(Pipeline)
      /\ Elements(Pipeline) = {x \in Elements(taken) : x.n \notin excluded}
  BY FailureLatches, OutagesGrow, ContinuityStep DEF RecordKept
<1>2. CASE ~Process
  <2>1. UNCHANGED <<taken, excluded>>
    BY <1>2, ObservationSteps
  <2>2. Pipeline' = Pipeline
    BY <1>2, PipelineSteps DEF Process
  <2>. QED BY <1>1, <2>1, <2>2
<1>3. CASE Process
  <2> DEFINE b == Head(sdkDone)
  <2>1. /\ b \in Blocks /\ Elements(taken') = Elements(taken) \cup {b}
        /\ taken \in Seq(Blocks) /\ taken' \in Seq(Blocks)
    BY <1>3, ProcessOne DEF TypeOK, ReceiverTypeOK
  <2>2. taken' = Append(taken, b) /\ ~Suspect
    BY <1>3, ProcessTakes
  <2>3. \A x \in Elements(taken) : x.n < b.n /\ x.n \in Nat
    <3>1. Ascending(taken')
      BY <1>1, <2>1, ConsecutiveAscends DEF Continuity
    <3>. QED BY <2>1, <2>2, <3>1, AppendAscends, BlockNumbers
  <2>4. b.n \in Nat
    BY <2>1 DEF Blocks
  <2> HIDE DEF b
  <2>5. CASE AcceptBuffer
    <3>1. excluded' = excluded /\ Pipeline' = Append(Pipeline, b)
      BY <2>5, PipelineSteps DEF AcceptBuffer, b
    <3>2. b.n \notin excluded
      BY <2>3, <2>4 DEF ExcludedTaken
    <3>3. Elements(Pipeline') = Elements(Pipeline) \cup {b}
      BY <2>1, <3>1, PipelineType, AppendElements
    <3>4. Ascending(Pipeline')
      BY <1>1, <2>1, <2>3, <3>1, PipelineType, AppendAscends
    <3>. QED BY <1>1, <2>1, <3>1, <3>2, <3>3, <3>4
  <2>6. CASE ~AcceptBuffer
    <3>1. Pipeline' = Pipeline
      BY <2>6, PipelineSteps
    <3>2. excluded' = excluded \cup {b.n}
      BY <1>3, <2>2, <2>6 DEF Process, RejectBuffer, Suspect, b
    <3>3. \A x \in Elements(taken) : x.n # b.n
      BY <2>3, <2>4
    <3>. QED BY <1>1, <2>1, <3>1, <3>2, <3>3
  <2>. QED BY <2>5, <2>6
<1>. QED BY <1>2, <1>3

----------------------------------------------------------------------------
(* The end of the session, and of the recording.                           *)

Late == {"closeStream", "disconnect", "closeRecorder", "done"}

(* When Shutdown checks the session, it has ended for every participant. *)
SessionEnded ==
    /\ initialized /\ SyncMode # "none" => registered
    /\ workersStopped /\ registered => hubEnded
    /\ pc \in {"stopSource", "joinReceiver", "joinWriter", "finalChecks"} \cup Late
          => workersStopped
    /\ workersStopped => pc \notin Early

LEMMA SessionEndedStep ==
    ASSUME SessionEnded, registered \in BOOLEAN, [Next]_vars PROVE SessionEnded'
<1>. USE DEF SessionEnded, mainVars, hubVars, Late
<1>1. CASE InitStep
  <2>0. /\ pc \in Early /\ pc' \in Early \cup {"returned"}
        /\ UNCHANGED <<workersStopped, hubEnded>>
    BY <1>1, InitMoves DEF InitFrame
  <2>1. initialized' /\ SyncMode # "none" => registered'
    BY <1>1 DEF InitStep, Connect, OpenStream, Allocate, OpenRecorder, RegisterAndPrepare,
       InitStage
  <2>. QED BY <2>0, <2>1 DEF Early
<1>2. CASE StartWorkers
  BY <1>2 DEF StartWorkers, RunFrame, Early
<1>3. CASE RunStep
  <2>1. UNCHANGED <<initialized, workersStopped, registered, hubEnded>>
    BY <1>3 DEF RunStep, BeforeStart, StartCommand, OpenGate, Arm, ReportStart,
       MonitorPass, MonitorTrouble, MonitorExit, MonitorFrame, RunFrame
  <2>. QED BY <1>3, <2>1, RunMoves DEF Starting, Early
<1>4. CASE StopStep
  <2>. USE DEF RunFrame, Early
  <2>1. CASE Disarm
    BY <2>1 DEF Disarm
  <2>2. CASE StopSource
    BY <2>2 DEF StopSource
  <2>3. CASE JoinReceiver
    BY <2>3 DEF JoinReceiver
  <2>4. CASE JoinWriter
    BY <2>4 DEF JoinWriter
  <2>5. CASE Shutdown
    BY <2>5 DEF Shutdown
  <2>. QED BY <1>4, <2>1, <2>2, <2>3, <2>4, <2>5 DEF StopStep
<1>5. CASE ShutdownStep
  <2>1. UNCHANGED <<initialized, registered, hubEnded, workersStopped>>
    BY <1>5 DEF ShutdownStep, FinalChecks, CloseStream, Disconnect, CloseRecorder, RunFrame
  <2>. QED BY <1>5, <2>1, ShutdownMoves DEF Early
<1>6. CASE ReceiverStep \/ WriterStep
  BY <1>6, ReceiverMoves, WriterMoves DEF ReceiverFrame, WriterFrame
<1>7. CASE OutsideStep
  <2>1. UNCHANGED <<registered, mainVars>> /\ (hubEnded => hubEnded')
    BY <1>7, OutsideLeaves
       DEF OutsideStep, OutsideFrame, EmitBlock, CompleteBuffer, LoseBlock, RequestStop,
       HubChanges
  <2>. QED BY <2>1
<1>8. CASE UNCHANGED vars
  BY <1>8 DEF vars
<1>. QED BY <1>1, <1>2, <1>3, <1>4, <1>5, <1>6, <1>7, <1>8, NextCases

(* After the final checks nothing that they compared changes. *)
LEMMA LateSteps ==
    ASSUME TeardownAgrees, SessionEnded, [Next]_vars, pc' \in Late
    PROVE  /\ UNCHANGED <<initialized, registered, acquisitionStarted, taken, gaps,
                          validObserved, excluded, written>>
           /\ FinalChecks \/ pc \in Late
           /\ SyncMode = "pulsed" /\ registered => UNCHANGED emitted
<1>. USE DEF mainVars, hubVars, cameraVars, receiveVars, recorderVars, Late
<1>1. CASE InitStep \/ StartWorkers \/ RunStep \/ StopStep
  BY <1>1, InitMoves, RunMoves, StopMoves DEF Early, Starting, StartWorkers
<1>2. CASE ShutdownStep
  BY <1>2 DEF ShutdownStep, FinalChecks, CloseStream, Disconnect, CloseRecorder, RunFrame,
     WorkerFrame
<1>3. CASE ReceiverStep \/ WriterStep
  BY <1>3, ReceiverMoves, WriterMoves DEF ReceiverFrame, WriterFrame, TeardownAgrees
<1>4. CASE OutsideStep
  <2>1. /\ UNCHANGED <<mainVars, registered, receiveVars, written>>
        /\ emitted' # emitted /\ SyncMode = "pulsed" => ~hubEnded
    BY <1>4, OutsideLeaves
       DEF OutsideStep, OutsideFrame, EmitBlock, CompleteBuffer, LoseBlock, RequestStop,
       HubChanges
  <2>. QED BY <2>1 DEF SessionEnded
<1>5. CASE UNCHANGED vars
  BY <1>5 DEF vars
<1>. QED BY <1>1, <1>2, <1>3, <1>4, <1>5, NextCases

(* FinalChecks fails a pulsed camera unless its frames are the exposures. *)
FramesCompared ==
    pc \in Late /\ ~failed /\ registered /\ acquisitionStarted /\ SyncMode = "pulsed" =>
       gaps = 0 /\ emitted = validObserved

LEMMA FramesStep ==
    ASSUME TypeOK, TeardownAgrees, SessionEnded, FramesCompared, [Next]_vars
    PROVE  FramesCompared'
<1>. SUFFICES ASSUME pc' \in Late, ~failed', registered', acquisitionStarted',
                     SyncMode = "pulsed"
              PROVE  gaps' = 0 /\ emitted' = validObserved'
  BY DEF FramesCompared
<1>1. /\ UNCHANGED <<registered, acquisitionStarted, gaps, validObserved, emitted>>
      /\ FinalChecks \/ pc \in Late
      /\ ~failed
  BY LateSteps, FailureLatches
<1>2. CASE FinalChecks
  <2>1. ~SyncAccounting
    BY <1>2 DEF FinalChecks, Verdict
  <2>2. QualityOk
    BY <1>1, <2>1 DEF SyncAccounting
  <2>3. emitted \in Nat /\ validObserved \in Nat
    BY DEF TypeOK, OutsideTypeOK, ReceiverTypeOK
  <2>. QED BY <1>1, <2>2, <2>3 DEF QualityOk
<1>3. CASE pc \in Late
  BY <1>1, <1>3 DEF FramesCompared
<1>. QED BY <1>1, <1>2, <1>3

(* The session_end row, once it is written. *)
MarkerHonest ==
    marker = "complete" =>
       /\ pc = "done" /\ initialized
       /\ ShortOutages => CompleteMeansGapless /\ CompletePulsedMeansAll

LEMMA MarkerSteps == [Next]_vars /\ marker' = "complete" => CloseRecorder \/ UNCHANGED marker
<1>. SUFFICES ASSUME [Next]_vars, marker' = "complete", ~CloseRecorder PROVE UNCHANGED marker
  OBVIOUS
<1>. USE DEF recorderVars
<1>1. CASE InitStep
  BY <1>1 DEF InitStep, Connect, OpenStream, Allocate, OpenRecorder, RegisterAndPrepare
<1>2. CASE StartWorkers \/ RunStep
  BY <1>2, RunMoves DEF StartWorkers, RunFrame
<1>3. CASE StopStep \/ ShutdownStep
  BY <1>3 DEF StopStep, Disarm, StopSource, JoinReceiver, JoinWriter, Shutdown, ShutdownStep,
     FinalChecks, CloseStream, Disconnect, RunFrame
<1>4. CASE ReceiverStep \/ WriterStep \/ OutsideStep
  BY <1>4, ReceiverMoves, WriterMoves, OutsideLeaves DEF ReceiverFrame, WriterFrame, OutsideFrame
<1>5. CASE UNCHANGED vars
  BY <1>5 DEF vars
<1>. QED BY <1>1, <1>2, <1>3, <1>4, <1>5, NextCases

(* What Shutdown has in its hands when it closes the recorder of a camera that
   has not failed. *)
LEMMA GaplessAtClose ==
    ASSUME TypeOK, TeardownAgrees, QueueDrained, ArrivalsCounted, Continuity, RecordKept,
           pc = "closeRecorder", ~failed
    PROVE  /\ Len(taken) = arrived
           /\ Consecutive(taken)
           /\ \A b \in Elements(taken) : b.kind \in {"image", "other"}
           /\ Ascending(written)
           /\ Elements(written) = {b \in Elements(taken) : b.n \notin excluded}
<1>1. rpc \in {"none", "done"} /\ wpc \in {"none", "done"} /\ queue = << >>
  BY DEF TeardownAgrees, QueueDrained
<1>2. sdkDone = << >> /\ arrived = Len(taken) + Len(sdkDone)
  BY DEF ArrivalsCounted
<1>3. Len(taken) \in Nat /\ Len(<< >>) = 0 /\ << >> \in Seq(Blocks)
  BY EmptySeq DEF TypeOK, ReceiverTypeOK
<1>4. Pipeline = written
  <2>1. Behind = << >> /\ Ahead = << >>
    BY <1>1 DEF Behind, Ahead
  <2>2. << >> \o << >> = << >> /\ written \o << >> = written
    BY <1>3, PipelineType, ConcatEmptySeq
  <2>. QED BY <1>1, <2>1, <2>2 DEF Pipeline
<1>. QED BY <1>2, <1>3, <1>4 DEF Continuity, RecordKept

LEMMA AllAtClose ==
    ASSUME TypeOK, BlocksEmitted, Continuity, ValidCounted, SessionEnded, FramesCompared,
           pc = "closeRecorder", ~failed, initialized, acquisitionStarted, SyncMode = "pulsed"
    PROVE  /\ Len(taken) = emitted
           /\ \A i \in 1 .. emitted : taken[i] = [n |-> i, kind |-> "image"]
<1> DEFINE k == Len(taken)
<1>1. emitted = validObserved /\ validObserved <= k
  BY DEF SessionEnded, FramesCompared, Late, ValidCounted
<1>2. taken \in Seq(Blocks) /\ k \in Nat /\ emitted \in Nat
  BY DEF TypeOK, ReceiverTypeOK, OutsideTypeOK
<1>3. \A i \in 1 .. k : /\ taken[i] \in Blocks /\ taken[i] \in Elements(taken)
                        /\ taken[i].n \in 1 .. emitted
                        /\ taken[i].n = taken[1].n + i - 1
  <2>1. Consecutive(taken)
    BY DEF Continuity
  <2>2. \A i \in 1 .. k : taken[i] \in Blocks /\ taken[i] \in Elements(taken)
    BY <1>2, BlockNumbers DEF Elements
  <2>. QED BY <2>1, <2>2 DEF BlocksEmitted, Consecutive
<1> HIDE DEF k
<1>4. k = emitted
  <2>1. CASE k = 0
    BY <1>1, <1>2, <2>1
  <2>2. CASE k # 0
    <3>1. k \in 1 .. k /\ 1 \in 1 .. k
      BY <1>2, <2>2
    <3>2. /\ taken[k].n \in 1 .. emitted /\ taken[1].n \in 1 .. emitted
          /\ taken[k].n = taken[1].n + k - 1
      BY <1>3, <3>1
    <3>. QED BY <1>1, <1>2, <3>2
  <2>. QED BY <2>1, <2>2
<1>5. ASSUME NEW i \in 1 .. k PROVE taken[i] = [n |-> i, kind |-> "image"]
  <2>1. k \in 1 .. k /\ 1 \in 1 .. k
    BY <1>2, <1>5
  <2>2. taken[1].n = 1 /\ taken[i].n = i
    <3>1. taken[k].n \in 1 .. k /\ taken[1].n \in 1 .. k /\ taken[k].n = taken[1].n + k - 1
      BY <1>3, <1>4, <2>1
    <3>2. taken[1].n = 1
      BY <1>2, <3>1
    <3>. QED BY <1>2, <1>3, <3>2
  <2>3. taken[i].kind = "image"
    BY <1>1, <1>3, <1>4 DEF ValidCounted, k
  <2>4. taken[i] \in Blocks
    BY <1>3
  <2>. QED BY <2>2, <2>3, <2>4 DEF Blocks
<1>. QED BY <1>4, <1>5 DEF k

LEMMA MarkerStep ==
    ASSUME TypeOK, TeardownAgrees, QueueDrained, BlocksEmitted, ArrivalsCounted, ValidCounted,
           SessionEnded, FramesCompared, MarkerHonest, [Next]_vars,
           ShortOutages => Continuity, ShortOutages => RecordKept
    PROVE  MarkerHonest'
<1>. SUFFICES ASSUME marker' = "complete"
              PROVE  /\ pc' = "done" /\ initialized'
                     /\ ShortOutages' => CompleteMeansGapless' /\ CompletePulsedMeansAll'
  BY DEF MarkerHonest
<1>1. CASE CloseRecorder
  <2>1. /\ pc = "closeRecorder" /\ pc' = "done" /\ UNCHANGED <<initialized, arrived>>
        /\ (initialized /\ acquisitionStarted /\ ~failed) \/ marker = "complete"
    BY <1>1 DEF CloseRecorder, sdkVars
  <2>2. initialized /\ acquisitionStarted /\ ~failed
    BY <2>1 DEF MarkerHonest
  <2>3. SyncMode # "none" => registered
    BY <2>2 DEF SessionEnded
  <2>4. UNCHANGED <<taken, excluded, written>> /\ (SyncMode = "pulsed" => UNCHANGED emitted)
    BY <2>1, <2>3, LateSteps DEF Late
  <2>5. ASSUME ShortOutages'
        PROVE  CompleteMeansGapless' /\ CompletePulsedMeansAll'
    <3>1. Continuity /\ RecordKept
      BY <2>5, OutagesGrow
    <3>2. CompleteMeansGapless'
      <4>1. /\ Len(taken) = arrived /\ Consecutive(taken) /\ Ascending(written)
            /\ \A b \in Elements(taken) : b.kind \in {"image", "other"}
            /\ Elements(written) = {b \in Elements(taken) : b.n \notin excluded}
        BY <2>1, <2>2, <3>1, GaplessAtClose
      <4>2. \A i \in 1 .. Len(taken) : /\ taken[i].n = taken[1].n + i - 1
                                       /\ taken[i].kind \in {"image", "other"}
        BY <4>1 DEF Consecutive, Elements
      <4>. QED BY <2>1, <2>4, <4>1, <4>2 DEF CompleteMeansGapless
    <3>3. CompletePulsedMeansAll'
      <4>1. SyncMode = "pulsed" => /\ Len(taken) = emitted
                                   /\ \A i \in 1 .. emitted : taken[i] = [n |-> i, kind |-> "image"]
        BY <2>1, <2>2, <3>1, AllAtClose
      <4>. QED BY <2>4, <4>1 DEF CompletePulsedMeansAll
    <3>. QED BY <3>2, <3>3
  <2>. QED BY <2>1, <2>2, <2>5
<1>2. CASE ~CloseRecorder
  <2>1. marker = "complete" /\ pc = "done" /\ initialized
    BY <1>2, MarkerSteps DEF MarkerHonest
  <2>2. pc' = "done"
    <3>1. ~(InitStep \/ StartWorkers \/ RunStep \/ StopStep \/ ShutdownStep)
      BY <2>1, InitMoves, RunMoves, StopMoves, ShutdownMoves DEF Early, Starting, StartWorkers
    <3>2. UNCHANGED mainVars
      BY <3>1, NextCases, ReceiverMoves, WriterMoves, OutsideLeaves
         DEF ReceiverFrame, WriterFrame, OutsideFrame, vars
    <3>. QED BY <2>1, <3>2 DEF mainVars
  <2>3. SyncMode # "none" => registered
    BY <2>1 DEF SessionEnded
  <2>4. /\ UNCHANGED <<initialized, taken, excluded, written>>
        /\ SyncMode = "pulsed" => UNCHANGED emitted
    BY <2>2, <2>3, LateSteps DEF Late
  <2>5. UNCHANGED arrived
    <3>1. ~CompleteBuffer /\ ~Process
      BY <2>1 DEF CompleteBuffer, ArrivalsCounted, TeardownAgrees, Process, RejectBuffer,
         AcceptBuffer, Account
    <3>. QED BY <3>1, SdkSteps
  <2>6. ShortOutages' = ShortOutages
    BY <2>4 DEF ShortOutages
  <2>7. ShortOutages => CompleteMeansGapless /\ CompletePulsedMeansAll
    BY <2>1 DEF MarkerHonest
  <2>. QED BY <2>1, <2>2, <2>4, <2>5, <2>6, <2>7
           DEF CompleteMeansGapless, CompletePulsedMeansAll
<1>. QED BY <1>1, <1>2

HonestInv ==
    /\ BlocksEmitted /\ WriterFaults /\ ExcludedTaken /\ ArrivalsCounted /\ ValidCounted
    /\ SessionEnded /\ FramesCompared /\ MarkerHonest
    /\ ShortOutages => Continuity /\ RecordKept

LEMMA HonestInit == Init => HonestInv
<1>. SUFFICES ASSUME Init PROVE HonestInv
  OBVIOUS
<1>1. Len(<< >>) = 0 /\ Elements(<< >>) = {} /\ Frames \in Nat /\ << >> \in Seq(Blocks)
  BY EmptySeq, BoundsAssumption DEF Elements
<1>2. BlocksEmitted /\ WriterFaults /\ ExcludedTaken /\ ArrivalsCounted /\ ValidCounted
  BY <1>1 DEF Init, BlocksEmitted, WriterFaults, ExcludedTaken, ArrivalsCounted, ValidCounted
<1>3. SessionEnded /\ FramesCompared /\ MarkerHonest
  BY DEF Init, SessionEnded, FramesCompared, MarkerHonest, Late
<1>4. Continuity
  BY <1>1 DEF Init, Continuity, Consecutive
<1>5. RecordKept
  <2>1. Pipeline = << >>
    <3>1. << >> \o << >> = << >>
      BY <1>1, ConcatEmptySeq
    <3>. QED BY <3>1 DEF Init, Pipeline, Behind, Ahead
  <2>. QED BY <1>1, <2>1 DEF Init, RecordKept, Ascending
<1>. QED BY <1>2, <1>3, <1>4, <1>5 DEF HonestInv

LEMMA HonestStep == Inv /\ HonestInv /\ [Next]_vars => HonestInv'
<1>. SUFFICES ASSUME Inv, HonestInv, [Next]_vars PROVE HonestInv'
  OBVIOUS
<1>1. TypeOK /\ StagesAgree /\ TeardownAgrees /\ QueueDrained /\ registered \in BOOLEAN
  BY DEF Inv, TypeOK, OutsideTypeOK
<1>2. BlocksEmitted' /\ WriterFaults' /\ ExcludedTaken' /\ ArrivalsCounted' /\ ValidCounted'
  BY <1>1, EmittedStep, WriterFaultsStep, ExcludedStep, ArrivalsStep, ValidStep DEF HonestInv
<1>3. SessionEnded' /\ FramesCompared'
  BY <1>1, SessionEndedStep, FramesStep DEF HonestInv
<1>4. MarkerHonest'
  BY <1>1, MarkerStep DEF HonestInv
<1>5. ShortOutages' => Continuity' /\ RecordKept'
  BY <1>1, ContinuityStep, KeptStep DEF HonestInv
<1>. QED BY <1>2, <1>3, <1>4, <1>5 DEF HonestInv

LEMMA HonestAlways == Spec => [](Inv /\ HonestInv)
BY InvAlways, InvInit, InvStep, HonestInit, HonestStep, PTL DEF Spec

LEMMA HonestMeans ==
    ASSUME Inv, HonestInv, ShortOutages PROVE RecordingIsHonest /\ CompletePulsedMeansAll
<1>1. CompleteMeansGapless /\ CompletePulsedMeansAll
  BY DEF HonestInv, MarkerHonest, CompleteMeansGapless, CompletePulsedMeansAll
<1>2. GapsAreExact
  <2>1. Continuity /\ taken \in Seq(Blocks) /\ Len(<< >>) = 0
    BY EmptySeq DEF HonestInv, Inv, TypeOK, ReceiverTypeOK
  <2>. QED BY <2>1 DEF GapsAreExact, Continuity
<1>. QED BY <1>1, <1>2 DEF RecordingIsHonest

(* However long a camera runs: a recording says complete, and counts its lost
   frames, truthfully, unless half a cycle of identifiers was lost in one go. *)
THEOREM HonestUnlessOutage ==
    Spec => [](ShortOutages => RecordingIsHonest /\ CompletePulsedMeansAll)
<1>1. Inv /\ HonestInv => (ShortOutages => RecordingIsHonest /\ CompletePulsedMeansAll)
  BY HonestMeans
<1>. QED BY <1>1, HonestAlways, PTL

LEMMA FewFrames ==
    ASSUME Inv, HonestInv, Extended \/ Frames <= Half + 1 PROVE ShortOutages
<1>. SUFFICES ASSUME ~Extended, Frames <= Half + 1, NEW i \in 1 .. Len(taken) - 1
              PROVE  taken[i + 1].n - taken[i].n \in -Half .. Half
  BY DEF ShortOutages
<1>1. taken \in Seq(Blocks) /\ Len(taken) \in Nat /\ emitted \in Nat /\ emitted <= Frames
  BY DEF Inv, TypeOK, ReceiverTypeOK, OutsideTypeOK, HonestInv, BlocksEmitted
<1>2. taken[i] \in Elements(taken) /\ taken[i + 1] \in Elements(taken)
  BY <1>1 DEF Elements
<1>3. taken[i].n \in 1 .. emitted /\ taken[i + 1].n \in 1 .. emitted
  BY <1>2 DEF HonestInv, BlocksEmitted
<1>. QED BY <1>1, <1>3, HalfIsHalf, BoundsAssumption

(* In extended mode, or while fewer blocks are emitted than half a cycle has
   identifiers, there are no exceptions: the row of CloseRecorder and the
   lost-frame counter of Observe are right. *)
THEOREM RecordingHonest ==
    ASSUME Extended \/ Frames <= Half + 1 PROVE Spec => []RecordingIsHonest
<1>1. Inv /\ HonestInv => RecordingIsHonest
  BY FewFrames, HonestMeans
<1>. QED BY <1>1, HonestAlways, PTL

(* And a pulsed session whose recording says complete has lost no block that
   the camera emitted: FinalChecks compares them with the pulses. *)
THEOREM PulsedComplete ==
    ASSUME Extended \/ Frames <= Half + 1 PROVE Spec => []CompletePulsedMeansAll
<1>1. Inv /\ HonestInv => CompletePulsedMeansAll
  BY FewFrames, HonestMeans
<1>. QED BY <1>1, HonestAlways, PTL

=============================================================================
