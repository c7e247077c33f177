--------------------------- MODULE AsterxSession ----------------------------
(***************************************************************************)
(* The AsteRx driver: Session (asterx_driver/src/session.cpp) on its Qt    *)
(* event loop, and AsterxDriverApp around it, whose Init and Shutdown run  *)
(* on the coordinator's thread.  A Session handler runs to its end on the  *)
(* Qt thread, so it is one step; what it shares with the coordinator (the  *)
(* bring-up outcome, terminate_, failed_ and the no-data slot) is written  *)
(* in steps of its own.  Durations are abstract: an armed timer may expire *)
(* at any moment.  The write queue is the one of module SbfWriteQueue, as  *)
(* its caller sees it; SsnRx (vendored) is the source of signals.  The     *)
(* receiver keeps the configuration the commands give it.                  *)
(***************************************************************************)
EXTENDS AsterxCommands

CONSTANTS
    Documents,        \* configuration files the driver may be given
    Descriptors,      \* names the receiver may give the connection
    Receivers,        \* receivers: boot, lines (Current), aux1, antennas
    UpTimes,          \* values of ReceiverStatus.UpTime
    Bendable,         \* settings of which the receiver may change an argument
    MaxBent           \* bound on the arguments it has changed

ASSUME UpTimesAssumption == UpTimes \subseteq Nat \ {0} /\ MaxBent \in Nat

ASSUME DescriptorsAssumption ==
    Descriptors \subseteq [text : STRING, len : Nat, chars : SUBSET STRING]

(* What the YAML reader makes of the lists of streams. *)
ASSUME DocumentsAssumption ==
    \A i \in DOMAIN Documents :
        /\ Settings(Documents[i]).sbf_streams
              \in Seq([id : Int, blocks : SUBSET STRING, interval : STRING, len : Nat])
        /\ Settings(Documents[i]).nmea_streams
              \in Seq([id : Int, descriptor : STRING, messages : SUBSET STRING,
                       interval : STRING])

VARIABLES
    doc,        \* the file, an index of Documents
    rcv,        \* the receiver: boot, lines, bent, aux1, antennas, reset
    s,          \* the Session and what it publishes, a record
    elapsed,    \* min_recording_s have passed since the first recorded block
    q,          \* the write queue: failed, closed, and a posted OnWriteFailed
    \* AsterxDriverApp
    qpc,        \* where the Qt thread is; in "loop" it runs the handlers
    exec,       \* app.exec() has begun
    quit,       \* app.quit() has reached it
    mpc,        \* where the coordinator is in Init, Run and Shutdown
    initResult, \* what Init reported
    bringUp,    \* bring_up_
    terminate,  \* terminate_
    failed,     \* failed_
    external,   \* the coordinator wants to stop
    lost        \* data that belongs to the recording is known to be missing

world == <<doc, rcv>>
appVars == <<mpc, initResult, external>>
vars == <<world, s, elapsed, q, qpc, exec, quit, appVars, bringUp, terminate, failed, lost>>

Loaded == LoadAppConfig(Documents[doc])
TheSettings == Settings(Documents[doc])
DurationGate == Documents[doc].receiver.warmup.min_recording_s > 0
RequireFinetime == Documents[doc].receiver.warmup.require_finetime

(* cmds_ *)
Commands == BuildCommandList(TheSettings, s.descriptor)
NoDescriptor == [text |-> "", len |-> 0, chars |-> {}]

Timers == {"connect", "retry", "recovery", "watchdog", "command", "warmupLog"}
States == {"idle", "connecting", "waitingDescriptor", "configuring", "warmingUp",
           "recording", "backoff", "stopping"}

(* The values of the variables. *)
TypeOK ==
    /\ s.state \in States /\ s.timers \subseteq Timers
    /\ s.rx \in {"none", "connecting", "open", "closed"}
    /\ doc \in DOMAIN Documents /\ s.descriptor \in Descriptors \cup {NoDescriptor}
    /\ s.cmd \in Nat
    /\ Cardinality(rcv.bent) <= MaxBent
    /\ s.up \in UpTimes \cup {0}
    /\ {s.everConfigured, s.lst, s.started, s.fine, s.incomplete, s.slot, s.fatal,
        s.nested} \subseteq BOOLEAN
    /\ s.windows \in Nat /\ s.opened \in Nat
    /\ q \in [failed : BOOLEAN, closed : BOOLEAN, event : BOOLEAN]
    /\ qpc \in {"none", "start", "loop", "mark", "notify", "terminate", "final", "disarm",
                "notifyEnd", "terminateEnd", "done"}
    /\ mpc \in {"init", "wait", "joinFailed", "interrupt", "joinInterrupted", "run",
                "shutdown", "join", "done"}
    /\ initResult \in {"none", "ready", "failed", "interrupted"}
    /\ bringUp \in {"pending", "recording", "failed"}
    /\ {elapsed, exec, quit, terminate, failed, external, lost} \subseteq BOOLEAN

(* `descriptor` is descriptor_; `cmd` is cmd_index_ + 1, 0 without a command list; `up` is 0 before the
   first status of a connection.  `incomplete` is recording_errors_ # 0.
   `windows` counts the starts of the recovery timer since it last stopped,
   `opened` the emissions of Configured, `fatal` says that FatalError has been
   emitted, `nested` that closing a socket re-entered the failure path. *)
NewSession ==
    [state |-> "idle", everConfigured |-> FALSE, descriptor |-> NoDescriptor, cmd |-> 0, lst |-> FALSE, timers |-> {},
     started |-> FALSE, up |-> 0, fine |-> FALSE, incomplete |-> FALSE, rx |-> "none",
     slot |-> FALSE, windows |-> 0, opened |-> 0, fatal |-> FALSE, nested |-> FALSE]

(* A receiver somebody else has used; `reset` says that it has lost what it
   was told since the last reset of its configuration. *)
Init ==
    /\ doc \in DOMAIN Documents
    /\ \E r \in Receivers :
          rcv = [boot |-> r.boot, lines |-> r.lines, bent |-> {}, aux1 |-> r.aux1,
                 antennas |-> r.antennas, reset |-> FALSE]
    /\ s = NewSession /\ elapsed = FALSE
    /\ q = [failed |-> FALSE, closed |-> FALSE, event |-> FALSE]
    /\ qpc = "none" /\ exec = FALSE /\ quit = FALSE
    /\ mpc = "init" /\ initResult = "none" /\ external = FALSE
    /\ bringUp = "pending" /\ terminate = FALSE /\ failed = FALSE /\ lost = FALSE

----------------------------------------------------------------------------
(* The Session's operations, from one value of the Session to the next.
   `clean` is the verdict of writer_.Close(), should it come to that. *)

(* SsnRx emits connectionClosed from inside closeConnection. *)
CloseConnection(x) ==
    [x EXCEPT !.rx = IF @ = "none" THEN "none" ELSE "closed",
              !.nested = @ \/ (x.rx = "open" /\ x.state \notin {"backoff", "stopping"})]

Shutdown(x, clean) ==
    IF x.state = "stopping" THEN x
    ELSE [CloseConnection([x EXCEPT !.state = "stopping"])
            EXCEPT !.slot = FALSE, !.timers = {}, !.windows = 0,
                   !.incomplete = @ \/ ~clean, !.fatal = @ \/ ~clean]

FailStartup(x, clean) ==
    IF x.state = "stopping" THEN x ELSE [Shutdown(x, clean) EXCEPT !.fatal = TRUE]

(* What a failure that must not be survived does. *)
StopRig(x, clean) ==
    IF x.state = "stopping" THEN x ELSE FailStartup([x EXCEPT !.incomplete = TRUE], clean)

(* Mutant: every failure grants another recovery window. *)
EnterBackoffAgain(x) ==
    CloseConnection([x EXCEPT !.state = "backoff", !.slot = FALSE, !.windows = @ + 1,
        !.timers = (@ \ {"connect", "command", "watchdog", "warmupLog"})
                       \cup {"recovery", "retry"}])

(* The recovery deadline is total: only its first start counts. *)
EnterBackoff(x) ==
    CloseConnection([x EXCEPT !.state = "backoff", !.slot = FALSE,
        !.windows = IF "recovery" \in x.timers THEN @ ELSE @ + 1,
        !.timers = (@ \ {"connect", "command", "watchdog", "warmupLog"})
                       \cup {"recovery", "retry"}])

HandleFailure(x, clean) ==
    IF x.state \in {"stopping", "backoff"} THEN x
    ELSE IF ~x.everConfigured \/ x.state = "recording" THEN StopRig(x, clean)
    ELSE EnterBackoff([x EXCEPT !.incomplete = TRUE])

StartConnect(x) ==
    [x EXCEPT !.state = "connecting", !.rx = "connecting", !.up = 0, !.fine = FALSE,
              !.descriptor = NoDescriptor, !.cmd = 0, !.lst = FALSE, !.timers = @ \cup {"connect"}]

(* connectToHost may report an error before it returns. *)
Connect(x, now, clean) ==
    IF now THEN HandleFailure(StartConnect(x), clean) ELSE StartConnect(x)

Ready(x) == (DurationGate => elapsed) /\ (RequireFinetime => x.fine)

EnterRecording(x, clean) ==
    IF x.state # "warmingUp" THEN x
    ELSE IF q.failed THEN StopRig(x, clean)
    ELSE [x EXCEPT !.state = "recording", !.windows = 0, !.slot = TRUE, !.opened = @ + 1,
                   !.timers = (@ \ {"recovery", "command", "warmupLog"}) \cup {"watchdog"}]

EnterWarmup(x, clean) ==
    LET y == [x EXCEPT !.state = "warmingUp", !.everConfigured = TRUE, !.up = 0,
                       !.fine = FALSE, !.slot = FALSE,
                       !.timers = (@ \ {"command"}) \cup {"watchdog"}]
    IN  IF Ready(y) THEN EnterRecording(y, clean)
        ELSE [y EXCEPT !.timers = @ \cup {"warmupLog"}]

SendCommand(x) == [x EXCEPT !.lst = FALSE, !.timers = @ \cup {"command"}]

SendCurrentCommand(x, clean) ==
    IF x.cmd > Len(Commands) THEN EnterWarmup(x, clean) ELSE SendCommand(x)

NextCommand(x, clean) == SendCurrentCommand([x EXCEPT !.cmd = @ + 1, !.lst = FALSE], clean)

(* ReceiverStatus during warm-up and recording: FINETIME, and an up-time that
   goes backwards. *)
OnReceiverStatus(x, status, clean) ==
    LET back == x.up # 0 /\ status.up < x.up
        y == [x EXCEPT !.up = status.up, !.fine = status.fine]
    IN  IF back /\ x.state = "recording" THEN StopRig(y, clean)
        ELSE [y EXCEPT !.incomplete = @ \/ back]

NoStatus == [up |-> 0, fine |-> FALSE]

(* A block the queue has accepted. *)
OnRecordedBlock(x, status, clean) ==
    LET a == [x EXCEPT !.started = TRUE]
        b == IF x.state \notin {"warmingUp", "recording"} THEN a
             ELSE LET w == [a EXCEPT !.timers = @ \cup {"watchdog"}]
                  IN  IF status = NoStatus THEN w ELSE OnReceiverStatus(w, status, clean)
        c == IF b.state = "warmingUp" /\ Ready(b) THEN EnterRecording(b, clean) ELSE b
    IN  IF c.state = "recording" THEN [c EXCEPT !.slot = TRUE] ELSE c

OnStreamDamage(x, clean) ==
    IF x.state = "stopping" THEN x
    ELSE IF x.state = "recording" THEN StopRig(x, clean)
    ELSE [x EXCEPT !.incomplete = TRUE]

----------------------------------------------------------------------------
(* Handlers on the Qt event loop. *)

(* One handler: the Session becomes Op(clean).  If that shut it down, the
   queue is closed; Configured reaches NotifyBringUp at once, FatalError is
   handled in the steps that follow. *)
Handle(Op(_), loses) ==
    /\ qpc = "loop" /\ exec
    /\ \E clean \in BOOLEAN :
          /\ q.failed => ~clean
          /\ s' = Op(clean)
          /\ IF s'.state = "stopping" /\ s.state # "stopping"
             THEN /\ q' = [q EXCEPT !.closed = TRUE, !.failed = @ \/ ~clean]
                  /\ lost' = (lost \/ loses \/ ~clean)
             ELSE UNCHANGED q /\ lost' = (lost \/ loses)
    /\ qpc' = IF s'.fatal THEN "mark" ELSE "loop"
    /\ bringUp' = IF s'.opened > s.opened /\ bringUp = "pending" THEN "recording" ELSE bringUp

(* The rest of the process during a handler. *)
appRest == <<doc, elapsed, exec, quit, appVars, terminate, failed>>
restVars == <<appRest, rcv>>

(* SsnRx: connected. *)
Connected ==
    /\ s.rx = "connecting"
    /\ Handle(LAMBDA clean :
          [s EXCEPT !.rx = "open", !.state = "waitingDescriptor",
                    !.timers = (@ \ {"connect"}) \cup {"command"}], FALSE)
    /\ UNCHANGED restVars

(* newConnectionDescriptor: BuildCommandList may throw. *)
NewConnectionDescriptor ==
    /\ s.rx \in {"open", "closed"} /\ s.state = "waitingDescriptor"
    /\ \E d \in Descriptors :
          Handle(LAMBDA clean :
             IF BuildThrows(TheSettings, d) THEN FailStartup([s EXCEPT !.descriptor = d], clean)
             ELSE SendCommand([s EXCEPT !.descriptor = d, !.cmd = 1, !.state = "configuring"]),
             FALSE)
    /\ UNCHANGED restVars

(* A reply to the outstanding command; a reply that echoes another command is
   ignored.  An error, a listing where none is expected or none where one is,
   and a read-back that does not match are failures. *)
Outstanding == s.state = "configuring" /\ s.cmd <= Len(Commands)

CommandRejected ==
    /\ s.rx = "open" /\ Outstanding
    /\ Handle(LAMBDA clean : HandleFailure([s EXCEPT !.timers = @ \ {"command"}], clean), FALSE)
    /\ UNCHANGED restVars

ListingHeader ==
    /\ s.rx = "open" /\ Outstanding /\ Commands[s.cmd].kind \in ListKinds
    /\ Handle(LAMBDA clean : [s EXCEPT !.lst = TRUE, !.timers = @ \cup {"command"}], FALSE)
    /\ UNCHANGED restVars

(* Accepted or not, the answer ends the wait for it. *)
Answered(ok) ==
    Handle(LAMBDA clean :
       LET x == [s EXCEPT !.timers = @ \ {"command"}]
       IN  IF ok THEN NextCommand(x, clean) ELSE HandleFailure(x, clean), FALSE)

(* The receiver obeys, perhaps bending an argument to what it supports. *)
NewCommandReply ==
    /\ s.rx = "open" /\ Outstanding /\ Commands[s.cmd].kind \notin ListKinds
    /\ LET cmds == Commands
           c == cmds[s.cmd]
       IN  /\ \E bent \in {0} \cup {f \in c.fields :
                                    /\ c.verb = "set" /\ c.name \in Bendable
                                    /\ Cardinality(rcv.bent) < MaxBent} :
                 rcv' = [Obey(rcv, c, bent) EXCEPT !.reset = @ /\ c.name # "CopyConfigFile"]
           /\ Answered(AnswerAccepted(rcv, c, TheSettings, DriverCommandWhitelist(cmds)))
    /\ UNCHANGED appRest

(* newPrompt completes a listing whose header has been seen. *)
NewPrompt ==
    /\ s.rx = "open" /\ Outstanding /\ s.lst
    /\ LET cmds == Commands
       IN  Answered(AnswerAccepted(rcv, cmds[s.cmd], TheSettings, DriverCommandWhitelist(cmds)))
    /\ UNCHANGED restVars

(* A receiver that was reset has the configuration it boots with. *)
Rebooted(r) ==
    [r EXCEPT !.lines = r.boot \cup {l \in @ : l.permanent}, !.bent = {}, !.reset = TRUE]

(* newSBFBlock.  SsnRx goes on emitting what it has buffered after the socket
   is closed; such a block is not recorded. *)
Statuses == [up : UpTimes, fine : BOOLEAN] \cup {NoStatus}

NewSbfBlock ==
    /\ s.rx \in {"open", "closed"}
    /\ \/ /\ s.state \in {"backoff", "stopping"}
          /\ Handle(LAMBDA clean : s, s.state = "backoff")
          /\ UNCHANGED rcv
       \/ /\ s.state \notin {"backoff", "stopping"} /\ ~q.failed
          /\ \E status \in Statuses :
                LET reset == /\ s.state \in {"warmingUp", "recording"}
                             /\ status.up # 0 /\ status.up < s.up
                IN  /\ Handle(LAMBDA clean : OnRecordedBlock(s, status, clean), reset)
                    /\ rcv' = IF reset THEN Rebooted(rcv) ELSE rcv
    /\ UNCHANGED appRest

(* The Session stops over a queue that has failed: Close is not clean. *)
HandleQueueFailure ==
    /\ qpc = "loop" /\ exec
    /\ s' = StopRig(s, FALSE)
    /\ q' = [failed |-> TRUE, closed |-> TRUE, event |-> FALSE]
    /\ qpc' = IF s'.fatal THEN "mark" ELSE "loop"
    /\ lost' = TRUE
    /\ UNCHANGED <<restVars, bringUp>>

(* Enqueue refuses a block: over budget, or failed before. *)
SbfBlockRefused ==
    /\ s.rx = "open" /\ s.state \notin {"backoff", "stopping"}
    /\ HandleQueueFailure

(* sbfCRCError, or "Invalid SBF block length". *)
StreamDamage ==
    /\ s.rx \in {"open", "closed"}
    /\ Handle(LAMBDA clean : OnStreamDamage(s, clean), s.state # "stopping")
    /\ UNCHANGED restVars

(* communicationError, then connectionClosed for a socket that was open. *)
LinkFailure ==
    /\ s.rx \in {"connecting", "open"}
    /\ Handle(LAMBDA clean : HandleFailure(s, clean), s.everConfigured)
    /\ UNCHANGED restVars

(* A single-shot timer. *)
Expires(timer, Op(_, _), loses) ==
    /\ timer \in s.timers
    /\ Handle(LAMBDA clean : Op([s EXCEPT !.timers = @ \ {timer}], clean), loses)
    /\ UNCHANGED restVars

ConnectTimeout ==
    Expires("connect", LAMBDA x, clean :
       IF x.state = "connecting" THEN HandleFailure(x, clean) ELSE x, FALSE)

CommandTimeout ==
    Expires("command", LAMBDA x, clean :
       IF x.state \in {"configuring", "waitingDescriptor"} THEN HandleFailure(x, clean) ELSE x,
       FALSE)

OnWatchdog(x, clean) ==
    IF x.state \in {"warmingUp", "recording"} THEN HandleFailure(x, clean) ELSE x

Watchdog == Expires("watchdog", OnWatchdog, s.state \in {"warmingUp", "recording"})

RetryTimeout ==
    \E now \in BOOLEAN :
       Expires("retry", LAMBDA x, clean :
          IF x.state = "backoff" THEN Connect(x, now, clean) ELSE x, FALSE)

(* Mutant: a periodic timer that only warns. *)
RecoveryWarns == "recovery" \in s.timers /\ UNCHANGED vars

RecoveryTimeout == Expires("recovery", LAMBDA x, clean : FailStartup(x, clean), FALSE)

(* Periodic: the gate may open without a new block. *)
WarmupLog ==
    /\ "warmupLog" \in s.timers
    /\ s.state = "warmingUp" /\ Ready(s)
    /\ Handle(LAMBDA clean : EnterRecording(s, clean), FALSE)
    /\ UNCHANGED restVars

(* The queue's failure callback, delivered as a queued event. *)
WriteFailedEvent == q.event /\ HandleQueueFailure

(* stop_poll: the coordinator's terminate_ ends the session. *)
StopPoll ==
    /\ terminate /\ ~quit
    /\ Handle(LAMBDA clean : Shutdown(s, clean), FALSE)
    /\ quit' = TRUE
    /\ UNCHANGED <<world, elapsed, exec, appVars, terminate, failed>>

(* The writer thread fails on its own. *)
WriterFails ==
    /\ s.started /\ ~q.failed /\ ~q.closed
    /\ q' = [q EXCEPT !.failed = TRUE, !.event = TRUE] /\ lost' = TRUE
    /\ UNCHANGED <<world, s, elapsed, qpc, exec, quit, appVars, bringUp, terminate, failed>>

(* Time since the first recorded block. *)
DurationReached ==
    /\ s.started /\ ~elapsed
    /\ elapsed' = TRUE
    /\ UNCHANGED <<world, s, q, qpc, exec, quit, appVars, bringUp, terminate, failed, lost>>

----------------------------------------------------------------------------
(* AsterxDriverApp: the Qt thread around the loop. *)

sessionVars == <<world, s, elapsed, q, lost>>

(* The Session's constructor may throw; Start connects. *)
SessionThrows ==
    /\ qpc = "start"
    /\ failed' = TRUE /\ qpc' = "disarm"
    /\ UNCHANGED <<sessionVars, exec, quit, appVars, bringUp, terminate>>

StartSession ==
    /\ qpc = "start"
    /\ \E now, clean \in BOOLEAN :
          /\ s' = Connect(s, now, clean)
          /\ q' = [q EXCEPT !.closed = now, !.failed = now /\ ~clean]
    /\ qpc' = IF s'.fatal THEN "mark" ELSE "loop"
    /\ UNCHANGED <<world, elapsed, lost, exec, quit, appVars, bringUp, terminate, failed>>

Exec ==
    /\ qpc = "loop" /\ ~exec
    /\ exec' = TRUE
    /\ UNCHANGED <<sessionVars, qpc, quit, appVars, bringUp, terminate, failed>>

(* FatalError: MarkFailed, NotifyBringUp (the first outcome wins), terminate_,
   and quit, which only a running loop hears. *)
MarkFailed ==
    /\ qpc = "mark"
    /\ failed' = TRUE /\ qpc' = "notify"
    /\ UNCHANGED <<sessionVars, exec, quit, appVars, bringUp, terminate>>

NotifyFailed ==
    /\ qpc = "notify"
    /\ bringUp' = IF bringUp = "pending" THEN "failed" ELSE bringUp
    /\ qpc' = "terminate"
    /\ UNCHANGED <<sessionVars, exec, quit, appVars, terminate, failed>>

FatalTerminates ==
    /\ qpc = "terminate"
    /\ terminate' = TRUE /\ quit' = (quit \/ exec)
    /\ s' = [s EXCEPT !.fatal = FALSE] /\ qpc' = "loop"
    /\ UNCHANGED <<world, elapsed, q, lost, exec, appVars, bringUp, failed>>

(* exec returns; the verdict of the recording becomes the driver's. *)
ExecReturns ==
    /\ qpc = "loop" /\ exec /\ quit
    /\ qpc' = "final"
    /\ UNCHANGED <<sessionVars, exec, quit, appVars, bringUp, terminate, failed>>

CollectVerdict ==
    /\ qpc = "final"
    /\ failed' = (failed \/ s.incomplete) /\ qpc' = "disarm"
    /\ UNCHANGED <<sessionVars, exec, quit, appVars, bringUp, terminate>>

DisarmSlot ==
    /\ qpc = "disarm"
    /\ s' = [s EXCEPT !.slot = FALSE] /\ qpc' = "notifyEnd"
    /\ UNCHANGED <<world, elapsed, q, lost, exec, quit, appVars, bringUp, terminate, failed>>

(* Mutant: terminate_ before the outcome. *)
TerminateBeforeNotify ==
    /\ qpc = "notifyEnd"
    /\ terminate' = TRUE /\ qpc' = "terminateEnd"
    /\ UNCHANGED <<sessionVars, exec, quit, appVars, bringUp, failed>>

NotifyEnd ==
    /\ qpc = "notifyEnd"
    /\ bringUp' = IF bringUp = "pending" THEN "failed" ELSE bringUp
    /\ qpc' = "terminateEnd"
    /\ UNCHANGED <<sessionVars, exec, quit, appVars, terminate, failed>>

TerminateEnd ==
    /\ qpc = "terminateEnd"
    /\ terminate' = TRUE /\ qpc' = "done"
    /\ UNCHANGED <<sessionVars, exec, quit, appVars, bringUp, failed>>

----------------------------------------------------------------------------
(* AsterxDriverApp: Init, Run and Shutdown on the coordinator's side. *)

(* The YAML may not load; otherwise the Qt thread starts. *)
ConfigError ==
    /\ mpc = "init" /\ ~Loaded
    /\ initResult' = "failed" /\ mpc' = "shutdown"
    /\ UNCHANGED <<sessionVars, qpc, exec, quit, bringUp, terminate, failed, external>>

StartQtThread ==
    /\ mpc = "init" /\ Loaded
    /\ qpc' = "start" /\ mpc' = "wait"
    /\ UNCHANGED <<sessionVars, exec, quit, initResult, bringUp, terminate, failed, external>>

(* Init's loop, under bring_up_mutex_: an outcome comes before terminate_. *)
BringUpSettled ==
    /\ mpc = "wait" /\ bringUp # "pending"
    /\ IF bringUp = "recording" THEN initResult' = "ready" /\ mpc' = "run"
                                ELSE mpc' = "joinFailed" /\ UNCHANGED initResult
    /\ UNCHANGED <<sessionVars, qpc, exec, quit, bringUp, terminate, failed, external>>

(* Mutant: Init does not poll the coordinator's stop predicate. *)
BringUpIgnoresStop ==
    /\ mpc = "wait" /\ bringUp = "pending" /\ terminate
    /\ mpc' = "interrupt"
    /\ UNCHANGED <<sessionVars, qpc, exec, quit, initResult, bringUp, terminate, failed, external>>

BringUpInterrupted ==
    /\ mpc = "wait" /\ bringUp = "pending" /\ (terminate \/ external)
    /\ mpc' = "interrupt"
    /\ UNCHANGED <<sessionVars, qpc, exec, quit, initResult, bringUp, terminate, failed, external>>

InterruptBringUp ==
    /\ mpc = "interrupt"
    /\ terminate' = TRUE /\ mpc' = "joinInterrupted"
    /\ UNCHANGED <<sessionVars, qpc, exec, quit, initResult, bringUp, failed, external>>

JoinInInit ==
    /\ mpc \in {"joinFailed", "joinInterrupted"} /\ qpc = "done"
    /\ initResult' = IF mpc = "joinFailed" THEN "failed" ELSE "interrupted"
    /\ mpc' = "shutdown"
    /\ UNCHANGED <<sessionVars, qpc, exec, quit, bringUp, terminate, failed, external>>

(* The coordinator may want to stop at any time before Shutdown. *)
StopRequested ==
    /\ mpc \notin {"shutdown", "join", "done"} /\ ~external
    /\ external' = TRUE
    /\ UNCHANGED <<sessionVars, qpc, exec, quit, mpc, initResult, bringUp, terminate, failed>>

(* Run returns with terminate_, set here by the coordinator or by the driver. *)
RunReturns ==
    /\ mpc = "run" /\ (external \/ terminate)
    /\ terminate' = TRUE /\ mpc' = "shutdown"
    /\ UNCHANGED <<sessionVars, qpc, exec, quit, initResult, bringUp, failed, external>>

ShutdownApp ==
    /\ mpc = "shutdown"
    /\ s' = [s EXCEPT !.slot = FALSE] /\ terminate' = TRUE /\ mpc' = "join"
    /\ UNCHANGED <<world, elapsed, q, lost, qpc, exec, quit, initResult, bringUp, failed, external>>

JoinQtThread ==
    /\ mpc = "join" /\ qpc \in {"none", "done"}
    /\ mpc' = "done"
    /\ UNCHANGED <<sessionVars, qpc, exec, quit, initResult, bringUp, terminate, failed, external>>

Done == mpc = "done" /\ UNCHANGED vars

----------------------------------------------------------------------------
Receiver ==
    \/ Connected \/ NewConnectionDescriptor \/ CommandRejected \/ ListingHeader
    \/ NewCommandReply \/ NewPrompt
    \/ NewSbfBlock \/ SbfBlockRefused \/ StreamDamage \/ LinkFailure

Deadlines ==
    \/ ConnectTimeout \/ CommandTimeout \/ Watchdog \/ RetryTimeout \/ RecoveryTimeout
    \/ WarmupLog

QtThread ==
    \/ SessionThrows \/ StartSession \/ Exec \/ MarkFailed \/ NotifyFailed \/ FatalTerminates
    \/ ExecReturns \/ CollectVerdict \/ DisarmSlot \/ NotifyEnd \/ TerminateEnd

Coordinator ==
    \/ ConfigError \/ StartQtThread \/ BringUpSettled \/ BringUpInterrupted
    \/ InterruptBringUp \/ JoinInInit \/ RunReturns \/ ShutdownApp \/ JoinQtThread

Next ==
    \/ Receiver \/ Deadlines \/ WriteFailedEvent \/ StopPoll
    \/ WriterFails \/ DurationReached
    \/ QtThread \/ Coordinator \/ StopRequested \/ Done

(* Both threads run, an armed timer expires unless it is stopped, posted
   events and the stop poll are delivered.  The receiver owes nothing, and the
   watchdog is not needed. *)
Fairness ==
    /\ WF_vars(QtThread) /\ WF_vars(Coordinator)
    /\ WF_vars(RecoveryTimeout) /\ WF_vars(WriteFailedEvent) /\ WF_vars(StopPoll)
    /\ WF_vars(ConnectTimeout) /\ WF_vars(CommandTimeout) /\ WF_vars(RetryTimeout)

Spec == Init /\ [][Next]_vars
FairSpec == Spec /\ Fairness

----------------------------------------------------------------------------
(* Properties. *)

(* In every state the Session waits in, a deadline is armed that ends the wait
   should the receiver say nothing more (SendCurrentCommand, EnterWarmup,
   HandleFailure and the timers' handlers); a stopped Session has none left. *)
AlwaysADeadline ==
    /\ s.state = "connecting" => "connect" \in s.timers
    /\ s.state \in {"waitingDescriptor", "configuring"} => "command" \in s.timers
    /\ s.state \in {"warmingUp", "recording"} => "watchdog" \in s.timers
    /\ s.state = "backoff" => "retry" \in s.timers
    /\ s.state \in {"idle", "stopping"} => s.timers = {}

(* Recovery has one total deadline: it runs from the first failure until the
   gate opens, through every retry, and no retry starts it again
   (HandleFailure, EnterRecording). *)
OneRecoveryWindow ==
    /\ s.windows <= 1
    /\ (s.windows = 1) <=> ("recovery" \in s.timers)
    /\ s.everConfigured /\ s.state \in {"backoff", "connecting", "waitingDescriptor", "configuring"}
          => "recovery" \in s.timers
    /\ s.state = "recording" => "recovery" \notin s.timers

(* Closing the socket never runs the failure path a second time: the state has
   changed before SsnRx emits connectionClosed (HandleFailure, Shutdown). *)
FailureNotReentered == ~s.nested

(* Rig readiness is announced once, over a recording that has begun and whose
   writer is known to be alive; afterwards the Session records or stops
   (EnterRecording, HandleFailure). *)
ReadyOnce ==
    /\ s.opened <= 1
    /\ s.opened = 1 => s.state \in {"recording", "stopping"}
    /\ s.opened = 1 /\ DurationGate => s.started
    /\ bringUp = "recording" => s.opened = 1

(* Whatever is known to be missing from the recording fails the driver by the
   time it is joined: refused and damaged blocks, silence, link gaps, resets,
   writes (every ++recording_errors_, QtThreadMain). *)
LossFailsTheDriver == mpc = "done" /\ lost => failed

(* The driver never ends of its own accord without marking itself failed. *)
NoSilentDeath == qpc = "done" /\ ~external /\ mpc \notin {"join", "done"} => failed

(* Init blames an interruption only when there was one: the outcome is
   published before terminate_ (FatalError handler, QtThreadMain, Init). *)
InterruptionIsExternal == initResult = "interrupted" \/ mpc = "interrupt" => external

(* What the coordinator is told of a driver that ended is what happened to it,
   although the Qt thread publishes the outcome, failed_ and terminate_ one
   after the other: a death of its own is a failure, a failed start is no
   interruption, and known loss is a failure. *)
OutcomeIsHonest == NoSilentDeath /\ InterruptionIsExternal /\ LossFailsTheDriver

(* The arguments whose echo the receiver may expand, encrypt or leave to its
   own discretion, so that nobody can tell whether they were taken. *)
UncheckedArguments ==
    {<<"DataInOut", 3>>, <<"NMEAOutput", 3>>, <<"SBFOutput", 3>>, <<"CN0Mask", 1>>,
     <<"ElevationMask", 1>>, <<"SatelliteTracking", 1>>, <<"SatelliteUsage", 1>>,
     <<"SatelliteHealthOverride", 1>>, <<"SatelliteHealthOverride", 2>>, <<"SignalTracking", 1>>,
     <<"SignalUsage", 1>>, <<"SignalUsage", 2>>, <<"NtripSettings", 6>>, <<"NtripTlsSettings", 3>>,
     <<"PVTMode", 2>>, <<"INSNavConfig", 2>>}

(* What the receiver runs with was asked for by this connection: every setting
   of the file is in force and every argument that can be checked is as it was
   sent; no command overwrote another, except for the modes of a port; what
   else there is the receiver boots with, under names that the driver uses
   itself; it has both antennas, of known types (BuildCommandList,
   HandleCommandReply, CompleteListCommand). *)
Proven ==
    LET cmds == Commands
        sets == {i \in DOMAIN cmds : cmds[i].verb = "set"}
        ours == {Line(cmds[i].name, cmds[i].target) : i \in sets}
    IN  /\ ours \subseteq rcv.lines
        /\ \A a \in rcv.bent : <<a.name, a.field>> \in UncheckedArguments
        /\ Cardinality({i \in sets : cmds[i].name # "DataInOut"})
              = Cardinality({l \in ours : l.name # "DataInOut"})
        /\ \A l \in rcv.lines \ ours :
              \/ l.permanent \/ l.name = "UserAccessLevel"
              \/ l \in rcv.boot /\ \E i \in sets : cmds[i].name = l.name
        /\ rcv.aux1 /\ VerifyAntennaTypes(rcv.antennas, TheSettings.antenna)

(* The Session waits for readiness and records only over a configuration that
   it has proved, after a reconnect too; a receiver that was reset meanwhile
   makes the recording incomplete.  A configuration is refused when it is
   loaded or never: the commands can be built for every proper connection, of
   a name as long as the one they were tried with.  While it configures the
   receiver, a command is outstanding. *)
ConfigurationProven ==
    /\ s.state = "configuring" => s.cmd \in 1 .. Len(Commands)
    /\ s.state \in {"warmingUp", "recording"} => IF rcv.reset THEN s.incomplete ELSE Proven
    /\ DescriptorOk(s.descriptor) /\ s.descriptor.len <= Placeholder.len => s.cmd # 0

(* The no-data slot is armed only while the Session records, and never after
   the driver is shut down, although both threads write it (PublishLiveness,
   AsterxDriverApp::Shutdown). *)
SlotArmedWhileRecording ==
    /\ s.slot => s.state = "recording"
    /\ mpc = "done" \/ qpc = "done" => ~s.slot

(* What holds between any two handlers of the Session: no failure runs twice,
   readiness comes once, every wait has a deadline and recovery only one. *)
SessionInv ==
    /\ TypeOK /\ FailureNotReentered /\ ReadyOnce /\ SlotArmedWhileRecording
    /\ AlwaysADeadline /\ OneRecoveryWindow

(* A link lost before readiness is recovered or given up. *)
RecoveryEnds == s.state = "backoff" ~> s.state \in {"recording", "stopping"}

(* A stop request ends Init, Run and Shutdown. *)
StopCompletes == external ~> mpc = "done"

=============================================================================
