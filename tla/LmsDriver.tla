----------------------------- MODULE LmsDriver ------------------------------
(***************************************************************************)
(* One LMS4xxx scanner: Lms4xxxDriverApp, Lms4xxxDriver with its           *)
(* CommandChannel, TcpClient and MeasurementShutdown, the receive and the  *)
(* NTP watch threads, and the scanner at the other end of the socket.      *)
(*                                                                         *)
(* Init, Run and Shutdown follow one another on the owner's side, `pc`.    *)
(* While no worker runs the owner reads the answers to its own commands;   *)
(* once the stream runs only the receive thread reads, and hands over the  *)
(* answers to methods in a slot.  The scanner executes commands in the     *)
(* order in which they were written, over all connections; its answers may *)
(* be late, refused, damaged, cut off or never come.  Durations are        *)
(* abstract: a wait may end whenever what it waits for is absent.          *)
(***************************************************************************)
EXTENDS Naturals, Sequences

CONSTANTS
    Identity,     \* variables ReadIdentity reads
    Rows,         \* the parameter table: [name, strict] records
    Audit,        \* variables ReadAudit reads
    Ntp,          \* ntp.enabled
    MaxFailures,  \* kNtpProbeMaxFailures
    MaxTelegrams  \* bound on the scans and telemetry answers of a stream

ASSUME BoundsAssumption == MaxFailures \in Nat \ {0} /\ MaxTelegrams \in Nat
ASSUME NtpAssumption == Ntp \in BOOLEAN
ASSUME TablesAssumption ==
    /\ Identity \in Seq(STRING) /\ Audit \in Seq(STRING)
    /\ Rows \in Seq([name : STRING, strict : BOOLEAN])

(* No variable is read twice in a row of reads that survive their failures, and
   none has the name of the methods that start and stop the measurement. *)
ASSUME NamesAssumption ==
    /\ \A j, k \in 1 .. Len(Identity) : Identity[j] = Identity[k] => j = k
    /\ \A j, k \in 1 .. Len(Audit) : Audit[j] = Audit[k] => j = k
    /\ \A k \in 1 .. Len(Identity) : Identity[k] \notin {"LMCstartmeas", "LMCstopmeas"}
    /\ \A k \in 1 .. Len(Audit) : Audit[k] \notin {"LMCstartmeas", "LMCstopmeas"}
    /\ \A k \in 1 .. Len(Rows) : Rows[k].name \notin {"LMCstartmeas", "LMCstopmeas"}

VARIABLES
    pc, stack,  \* the owner, and who waits for StopScanning and StopMeasurement
    job, i,     \* the command sequence being executed, and the place in it
    link,       \* the socket: conn, up, shut (receive side), wire (unread answers)
    inbox,      \* commands written and not yet executed
    dev,        \* the scanner: loggedIn, measuring, subscribed
    uncertain,  \* CommandChannel::uncertain_
    ms,         \* MeasurementShutdown: status_, and whether result_ is an error
    streamReq,  \* stream_start_requested
    slot,       \* last_method_name and its status
    scanning, running, ntpRunning, fault,
    rpc,        \* the receive thread
    npc, misses, \* the NTP watch thread
    rec,        \* the recorder as its callers see it
    stats,      \* received, loss (a FirstDataLoss counter), doubt (a counter only the final assessment looks at)
    terminate, failed, armed,
    mixed,      \* history: the driver went on because of an earlier command's answer
    misread     \* history: the sequences that a refusal of an earlier command has ended

ownerVars == <<pc, stack, job, i>>
deviceVars == <<link, inbox, dev>>
historyVars == <<mixed, misread>>
stopVars == <<uncertain, ms, streamReq, slot, historyVars>>
receiveVars == <<rpc, running>>
ntpVars == <<npc, misses, ntpRunning>>
appVars == <<terminate, failed, armed>>
vars == <<ownerVars, deviceVars, stopVars, scanning, fault, receiveVars, ntpVars, rec, stats,
          appVars>>

----------------------------------------------------------------------------
(* Commands.  `tolerates` says which failures the sequence survives, `checks`
   whether the payload of the answer matters. *)
Command(name, answer, tolerates, checks) ==
    [name |-> name, answer |-> answer, tolerates |-> tolerates, checks |-> checks]

Login == Command("SetAccessMode", "sAN", "nothing", TRUE)
StopMeas == Command("LMCstopmeas", "sAN", "nothing", TRUE)

ReadAll(names) == [k \in 1 .. Len(names) |-> Command(names[k], "sRA", "all", FALSE)]

(* ApplyParameter: read, write, read back. *)
ApplyParameters ==
    [k \in 1 .. 3 * Len(Rows) |->
        LET row == Rows[((k - 1) \div 3) + 1]
        IN  <<Command(row.name, "sRA", "sFA", FALSE),
              Command(row.name, "sWA", "nothing", FALSE),
              Command(row.name, "sRA", IF row.strict THEN "nothing" ELSE "sFA", TRUE)
            >>[((k - 1) % 3) + 1]]

Configuration ==
    ReadAll(Identity)
    \o <<Login, Command("mSCloadappdef", "sAN", "nothing", FALSE), Login>>
    \o ApplyParameters
    \o (IF Ntp THEN <<Command("probe", "none", "nothing", FALSE)>> ELSE << >>)
    \o <<Command("LMCstartmeas", "sAN", "nothing", TRUE), Command("Run", "sAN", "nothing", TRUE),
         Command("SCdevicestate", "sRA", "nothing", TRUE)>>
    \o ReadAll(Audit)

Todo ==
    CASE job = "configure" -> Configuration
      [] job = "messages"  -> <<Command("EMActiveCustomerInfo", "sRA", "all", FALSE)>>
      [] job = "subscribe" -> <<Command("LMDscandata", "sEA", "nothing", TRUE)>>
      [] job = "cleanup"   -> <<Login, StopMeas>>
      [] OTHER             -> << >>

Jobs == {"none", "configure", "messages", "subscribe", "cleanup", "streamed"}

NoSlot == [name |-> "", good |-> FALSE, stale |-> FALSE]
(* What is left of an answer whose beginning has been read. *)
Cut == [name |-> "cut", answer |-> "cut", good |-> FALSE, stale |-> TRUE]
Scan == [name |-> "scan", answer |-> "sSN", good |-> TRUE, stale |-> FALSE]

NoMeasurement == [requested |-> FALSE, cleanup |-> FALSE, attempted |-> FALSE,
                  confirmed |-> FALSE, error |-> FALSE]

Init ==
    /\ pc = "init" /\ stack = << >> /\ job = "none" /\ i = 0
    /\ link = [conn |-> 0, up |-> FALSE, shut |-> FALSE, wire |-> << >>]
    /\ inbox = << >>
    /\ dev = [loggedIn |-> 0, measuring |-> FALSE, subscribed |-> 0]
    /\ uncertain = FALSE /\ ms = NoMeasurement /\ streamReq = FALSE
    /\ slot = NoSlot /\ mixed = FALSE /\ misread = {}
    /\ scanning = FALSE /\ running = FALSE /\ ntpRunning = FALSE /\ fault = FALSE
    /\ rpc = "none" /\ npc = "none" /\ misses = 0
    /\ rec = [state |-> "none", failed |-> FALSE, queued |-> 0, written |-> 0, dropped |-> 0]
    /\ stats = [received |-> 0, loss |-> FALSE, doubt |-> FALSE]
    /\ terminate = FALSE /\ failed = FALSE /\ armed = FALSE

----------------------------------------------------------------------------
(* The socket and the scanner. *)

Stale(items) == [k \in DOMAIN items |-> [items[k] EXCEPT !.stale = TRUE]]

(* TcpClient::Write: the scanner will see the whole command, or the connection
   is given up. *)
Written(c) ==
    /\ link.up
    /\ inbox' = Append(Stale(inbox), [name |-> c.name, answer |-> c.answer,
                                     conn |-> link.conn, stale |-> FALSE])
    /\ link' = [link EXCEPT !.wire = Stale(@)]

NotWritten == inbox' = inbox /\ link' = [link EXCEPT !.up = FALSE]

(* TcpClient::Connect on a new socket. *)
NewConnection == [conn |-> link.conn + 1, up |-> TRUE, shut |-> FALSE, wire |-> << >>]
NoConnection == [conn |-> link.conn + 1, up |-> FALSE, shut |-> FALSE, wire |-> << >>]

(* What executing a command does.  Methods that change the measurement need a
   login on the same connection; Run logs out. *)
Executed(c, ok) ==
    [dev EXCEPT
       !.loggedIn = IF ok /\ c.name = "SetAccessMode" THEN c.conn
                    ELSE IF ok /\ c.name = "Run" THEN 0 ELSE @,
       !.measuring = IF ok /\ c.name = "LMCstartmeas" THEN TRUE
                     ELSE IF ok /\ c.name = "LMCstopmeas" THEN FALSE ELSE @,
       !.subscribed = IF ok /\ c.name = "LMDscandata" THEN c.conn
                      ELSE IF c.name = "stopStream" THEN 0 ELSE @]

Allowed(c) == c.name \in {"LMCstartmeas", "LMCstopmeas"} => dev.loggedIn = c.conn

(* A command is executed, or refused with a status or with sFA; the answer
   reaches the connection the command came from, if that still exists. *)
DeviceAnswers ==
    /\ inbox # << >>
    /\ \E verdict \in {"ok", "rejected", "sFA"} :
          LET c == Head(inbox)
          IN  /\ verdict # "sFA" => Allowed(c)
              /\ dev' = Executed(c, verdict = "ok")
              /\ link' = IF c.conn # link.conn \/ ~link.up THEN link
                         ELSE [link EXCEPT !.wire = Append(@,
                                 [name |-> c.name, good |-> verdict = "ok", stale |-> c.stale,
                                  answer |-> IF verdict = "sFA" THEN "sFA" ELSE c.answer])]
    /\ inbox' = Tail(inbox)
    /\ UNCHANGED <<ownerVars, stopVars, scanning, fault, receiveVars, ntpVars, rec, stats, appVars>>

Bounded == stats.received + Len(inbox) + Len(link.wire) < MaxTelegrams

DeviceScans ==
    /\ link.up /\ dev.subscribed = link.conn /\ dev.measuring /\ Bounded
    /\ link' = [link EXCEPT !.wire = Append(@, Scan)]
    /\ UNCHANGED <<inbox, dev, ownerVars, stopVars, scanning, fault, receiveVars, ntpVars, rec, stats,
                   appVars>>

----------------------------------------------------------------------------
(* Command transactions on the owner's side: CommandChannel. *)

quietVars == <<scanning, fault, receiveVars, ntpVars, rec, stats, appVars>>

Pending == ms.requested /\ ~ms.cleanup

Return == pc' = Head(stack) /\ stack' = Tail(stack) /\ job' = "none" /\ i' = 0

(* What the sequence does with the outcome of its command; m is the state of
   the measurement shutdown when the outcome is known.  A scanner that is not
   ready is asked again until the deadline. *)
After(outcome, m) ==
    LET c == Todo[i]
        survived == \/ outcome = "ok" \/ c.tolerates = "all"
                    \/ c.tolerates = "sFA" /\ outcome = "sFA"
        done == survived /\ i = Len(Todo)
        polled == job = "configure" /\ c.name = "SCdevicestate" /\ c.checks /\ outcome = "rejected"
    IN  \/ /\ survived /\ ~done
           /\ i' = i + 1 /\ pc' = "ask" /\ UNCHANGED <<stack, job>> /\ ms' = m
        \/ /\ done /\ job \in {"configure", "subscribe"}
           /\ pc' = IF job = "configure" THEN "configured" ELSE "spawn"
           /\ i' = 0 /\ job' = "none" /\ UNCHANGED stack /\ ms' = m
        \/ /\ job = "cleanup" /\ (done \/ ~survived)
           /\ ms' = [m EXCEPT !.confirmed = done, !.error = ~done] /\ Return
        \/ /\ polled
           /\ pc' = "ready" /\ UNCHANGED <<stack, job, i>> /\ ms' = m
        \/ /\ job \in {"configure", "messages"} /\ ~polled /\ (~survived \/ job = "messages")
           /\ pc' = "rollback" /\ stack' = <<"configFailed">> /\ i' = 0 /\ job' = "none" /\ ms' = m
        \/ /\ job = "subscribe" /\ ~survived
           /\ pc' = "stopScanning" /\ stack' = <<"startFailed">> /\ i' = 0 /\ job' = "none" /\ ms' = m

(* The rollback is armed before the request; so are the other marks. *)
Asked ==
    CASE Todo[i].name = "LMCstartmeas" -> [NoMeasurement EXCEPT !.requested = TRUE]
      [] Todo[i].name = "LMCstopmeas"  -> [ms EXCEPT !.attempted = TRUE]
      [] OTHER                         -> ms

AskWritten ==
    /\ pc = "ask" /\ Todo[i].name # "probe"
    /\ Written(Todo[i])
    /\ pc' = "reply" /\ ms' = Asked
    /\ streamReq' = (streamReq \/ job = "subscribe")
    /\ UNCHANGED <<stack, job, i, dev, uncertain, slot, historyVars, quietVars>>

AskNotWritten ==
    /\ pc = "ask" /\ Todo[i].name # "probe"
    /\ NotWritten /\ After("error", Asked)
    /\ uncertain' = TRUE /\ streamReq' = (streamReq \/ job = "subscribe")
    /\ UNCHANGED <<dev, slot, historyVars, quietVars>>

(* Mutant: only the type of an answer is looked at. *)
MatchesType(h, c) == h.answer = c.answer

(* ValidateResponse. *)
Matches(h, c) == h.answer = c.answer /\ h.name = c.name

(* A refusal, sFA, names no command: it is taken for the answer to whatever is
   pending.  History says what an answer to an earlier command made of the
   command c, unless only a read for the log was lost. *)
Recorded(h, c) ==
    /\ mixed' = (mixed \/ (h.stale /\ (Matches(h, c) \/ (h.answer = "sFA" /\ c.tolerates = "sFA"))))
    /\ misread' = IF h.stale /\ h.answer = "sFA" /\ c.tolerates = "nothing"
                  THEN misread \cup {job} ELSE misread

(* A complete answer.  A wrong type or name, an unusable frame: nothing more
   can be assumed about the connection. *)
ReplyRead ==
    /\ pc = "reply" /\ link.wire # << >>
    /\ LET h == Head(link.wire)
           c == Todo[i]
           matches == Matches(h, c)
       IN  \/ /\ h.answer \notin {"sFA", "cut"}
              /\ After(IF ~matches THEN "error"
                       ELSE IF c.checks /\ ~h.good THEN "rejected" ELSE "ok", ms)
              /\ uncertain' = (uncertain \/ ~matches) /\ Recorded(h, c)
              /\ link' = [link EXCEPT !.wire = Tail(@)]
           \/ /\ h.answer = "sFA"
              /\ After("sFA", ms)
              /\ Recorded(h, c)
              /\ link' = [link EXCEPT !.wire = Tail(@)] /\ UNCHANGED uncertain
           \/ /\ After("error", ms)
              /\ uncertain' = TRUE /\ UNCHANGED historyVars
              /\ link' \in {[link EXCEPT !.wire = << >>]}
                           \cup (IF h.answer = "cut" THEN {} ELSE {[link EXCEPT !.wire = Tail(@)]})
    /\ UNCHANGED <<inbox, dev, streamReq, slot, quietVars>>

(* Nothing arrives in time, or a part of the answer does: then the rest is
   drained, unless it comes later still. *)
ReplyTimesOut ==
    /\ pc = "reply" /\ link.wire = << >>
    /\ After("error", ms)
    /\ uncertain' = TRUE
    /\ \/ UNCHANGED <<link, inbox, dev>>
       \/ /\ inbox # << >> /\ Head(inbox).conn = link.conn
          /\ \E ok \in BOOLEAN :
                (ok => Allowed(Head(inbox))) /\ dev' = Executed(Head(inbox), ok)
          /\ inbox' = Tail(inbox)
          /\ link' \in {link, [link EXCEPT !.wire = <<Cut>>]}
    /\ UNCHANGED <<streamReq, slot, historyVars, quietVars>>

(* The connection breaks; only some errors clear `connected`. *)
ReplyLost ==
    /\ pc = "reply"
    /\ After("error", ms)
    /\ uncertain' = TRUE
    /\ link' \in {[link EXCEPT !.up = FALSE, !.wire = << >>], [link EXCEPT !.wire = << >>]}
    /\ inbox' \in {inbox, << >>}
    /\ UNCHANGED <<dev, streamReq, slot, historyVars, quietVars>>

(* WaitDeviceReady: poll again before the deadline; the error state or the
   deadline ends the wait, and the active messages are logged. *)
PollAgain ==
    /\ pc = "ready" /\ pc' = "ask"
    /\ UNCHANGED <<stack, job, i, deviceVars, stopVars, quietVars>>

ReadyDeadline ==
    /\ pc = "ready"
    /\ pc' = "ask" /\ job' = "messages" /\ i' = 1
    /\ UNCHANGED <<stack, deviceVars, stopVars, quietVars>>

(* The host's own probe of the NTP server. *)
Probe ==
    /\ pc = "ask" /\ Todo[i].name = "probe"
    /\ \E outcome \in {"ok", "rejected"} : After(outcome, ms)
    /\ UNCHANGED <<deviceVars, uncertain, streamReq, slot, historyVars, quietVars>>

----------------------------------------------------------------------------
(* Mutant: a failed command is forgotten. *)
ReconnectsIfDown == pc = "finalStop" \/ streamReq \/ ~link.up

(* MeasurementShutdown on the command path.  Cleanup is attempted once for
   each armed start; it needs a new connection unless this one is known to be
   in step. *)
Reconnects == pc = "finalStop" \/ streamReq \/ uncertain \/ ~link.up

StopMeasurement ==
    /\ pc \in {"rollback", "finalStop"}
    /\ IF ~Pending THEN Return /\ UNCHANGED ms
       ELSE /\ ms' = [ms EXCEPT !.cleanup = TRUE]
            /\ pc' = IF Reconnects THEN "reconnect" ELSE "ask"
            /\ job' = "cleanup" /\ i' = 1 /\ UNCHANGED stack
    /\ UNCHANGED <<deviceVars, uncertain, streamReq, slot, historyVars, quietVars>>

Reconnect ==
    /\ pc = "reconnect"
    /\ \/ /\ link' = NewConnection /\ uncertain' = FALSE
          /\ pc' = "ask" /\ UNCHANGED <<stack, job, i, ms>>
       \/ /\ link' = NoConnection /\ UNCHANGED uncertain
          /\ Return /\ ms' = [ms EXCEPT !.error = TRUE]
    /\ UNCHANGED <<inbox, dev, streamReq, slot, historyVars, quietVars>>

----------------------------------------------------------------------------
(* Lms4xxxDriver::StopScanning. *)

Joinable(t) == t \notin {"none", "joined"}

StopScanning ==
    /\ pc = "stopScanning"
    /\ pc' = IF ~Joinable(rpc) /\ ~Joinable(npc) /\ ~scanning THEN "rollback"
             ELSE IF link.up THEN "stopStream" ELSE "clear"
    /\ UNCHANGED <<stack, job, i, deviceVars, stopVars, quietVars>>

StopStream ==
    /\ pc = "stopStream"
    /\ Written(Command("stopStream", "sEA", "all", FALSE)) \/ NotWritten
    /\ pc' = IF Joinable(rpc) /\ running THEN "streamedStop" ELSE "clear"
    /\ UNCHANGED <<stack, job, i, dev, stopVars, quietVars>>

(* MeasurementShutdown while the receive thread owns the socket. *)
StreamedStop ==
    /\ pc = "streamedStop"
    /\ IF ~Pending THEN pc' = "clear" /\ UNCHANGED <<job, i, ms>>
       ELSE pc' = "method" /\ job' = "streamed" /\ i' = 1 /\ ms' = [ms EXCEPT !.cleanup = TRUE]
    /\ UNCHANGED <<stack, deviceVars, uncertain, streamReq, slot, historyVars, quietVars>>

Method == <<Login, StopMeas>>[i]

(* CallMethodStreaming has an outcome. *)
MethodDone(ok) ==
    /\ IF ok /\ i = 1
       THEN pc' = "method" /\ i' = 2 /\ ms' = [ms EXCEPT !.attempted = TRUE] /\ UNCHANGED job
       ELSE /\ pc' = "clear" /\ i' = 0 /\ job' = "none"
            /\ ms' = [ms EXCEPT !.confirmed = ok, !.error = ~ok]
    /\ UNCHANGED stack

ClearSlot ==
    /\ pc = "method" /\ link.up
    /\ slot' = NoSlot /\ pc' = "writeMethod"
    /\ UNCHANGED <<stack, job, i, deviceVars, uncertain, ms, streamReq, historyVars, quietVars>>

(* What is in the slot by now answers something else; the driver cannot know. *)
WriteMethod ==
    /\ pc = "writeMethod"
    /\ Written(Method) /\ pc' = "awaitMethod"
    /\ slot' = [slot EXCEPT !.stale = TRUE]
    /\ UNCHANGED <<stack, job, i, dev, uncertain, ms, streamReq, historyVars, quietVars>>

MethodNotSent ==
    /\ \/ pc = "method" /\ ~link.up
       \/ pc = "writeMethod"
    /\ NotWritten /\ MethodDone(FALSE)
    /\ UNCHANGED <<dev, uncertain, streamReq, slot, historyVars, quietVars>>

(* The same of the slot: every sFA refuses the method. *)
SlotRecorded ==
    /\ mixed' = (mixed \/ (slot.name = Method.name /\ slot.stale))
    /\ misread' = IF slot.name = "sFA" /\ slot.stale THEN misread \cup {job} ELSE misread

(* Mutant: any answer to the method confirms it. *)
MethodAnsweredAnyStatus ==
    /\ pc = "awaitMethod" /\ slot.name \in {Method.name, "sFA"}
    /\ MethodDone(slot.name = Method.name)
    /\ SlotRecorded
    /\ UNCHANGED <<deviceVars, uncertain, streamReq, slot, quietVars>>

MethodAnswered ==
    /\ pc = "awaitMethod" /\ slot.name \in {Method.name, "sFA"}
    /\ MethodDone(slot.name = Method.name /\ slot.good)
    /\ SlotRecorded
    /\ UNCHANGED <<deviceVars, uncertain, streamReq, slot, quietVars>>

MethodTimesOut ==
    /\ pc = "awaitMethod" /\ slot.name \notin {Method.name, "sFA"}
    /\ MethodDone(FALSE)
    /\ UNCHANGED <<deviceVars, uncertain, streamReq, slot, historyVars, quietVars>>

(* The flags fall before the receive side is shut down. *)
ClearFlags ==
    /\ pc = "clear"
    /\ running' = FALSE /\ scanning' = FALSE /\ pc' = "shut"
    /\ UNCHANGED <<stack, job, i, deviceVars, stopVars, fault, rpc, ntpVars, rec, stats, appVars>>

(* Mutant: the NTP watch is joined and not told to stop. *)
ShutdownReceiveOnly ==
    /\ pc = "shut"
    /\ link' = [link EXCEPT !.shut = link.up] /\ pc' = "joinNtp"
    /\ UNCHANGED <<stack, job, i, inbox, dev, stopVars, scanning, fault, receiveVars, ntpVars,
                   rec, stats, appVars>>

ShutdownReceive ==
    /\ pc = "shut"
    /\ link' = [link EXCEPT !.shut = link.up] /\ ntpRunning' = FALSE /\ pc' = "joinNtp"
    /\ UNCHANGED <<stack, job, i, inbox, dev, stopVars, scanning, fault, receiveVars, npc, misses,
                   rec, stats, appVars>>

JoinNtp ==
    /\ pc = "joinNtp" /\ npc \in {"none", "exit", "joined"}
    /\ npc' = IF npc = "none" THEN npc ELSE "joined"
    /\ pc' = "joinReceive"
    /\ UNCHANGED <<stack, job, i, deviceVars, stopVars, scanning, fault, receiveVars, misses,
                   ntpRunning, rec, stats, appVars>>

(* FrameReceiver::Finish: a telegram may have been cut off. *)
JoinReceive ==
    /\ pc = "joinReceive" /\ rpc \in {"none", "exit", "joined"}
    /\ rpc' = IF rpc = "none" THEN rpc ELSE "joined"
    /\ \E cut \in BOOLEAN :
          (cut => rpc = "exit" /\ link.wire # << >>) /\ stats' = [stats EXCEPT !.loss = @ \/ cut]
    /\ pc' = "finalStop"
    /\ UNCHANGED <<stack, job, i, deviceVars, stopVars, scanning, fault, running, ntpVars, rec, appVars>>

----------------------------------------------------------------------------
(* The receive thread. *)

receiveFrame == <<ownerVars, inbox, dev, uncertain, ms, streamReq, historyVars, scanning, ntpVars, appVars>>

CheckRunning ==
    /\ rpc = "check"
    /\ rpc' = IF running THEN "read" ELSE "leave"
    /\ UNCHANGED <<receiveFrame, link, slot, fault, running, rec, stats>>

(* RawRecorder::OnFrame. *)
OnFrame(r) ==
    IF r.state # "open" THEN {[r EXCEPT !.dropped = @ + 1]}
    ELSE {[r EXCEPT !.queued = @ + 1],
          [r EXCEPT !.dropped = @ + 1, !.failed = TRUE, !.state = "refusing"]}

(* HandleFrame: every complete telegram is counted and goes to the recorder,
   whatever its monitoring says. *)
HandleFrame(what) ==
    /\ stats' = [received |-> stats.received + 1, loss |-> stats.loss \/ what \in {"parse", "crc"},
                 doubt |-> stats.doubt \/ what = "doubt"]
    /\ fault' = (fault \/ what = "fault")
    /\ rec' \in OnFrame(rec)

(* Bytes that belong to no telegram; a long run of them is a fault. *)
Garbage ==
    /\ stats' = [stats EXCEPT !.loss = TRUE]
    /\ fault' \in {fault, TRUE} /\ UNCHANGED rec

ReceiveFrame ==
    /\ rpc = "read" /\ link.up /\ link.wire # << >>
    /\ link' = [link EXCEPT !.wire = Tail(@)] /\ rpc' = "check"
    /\ LET h == Head(link.wire)
       IN  \/ Garbage /\ UNCHANGED slot
           \/ h.answer # "cut" /\ HandleFrame("crc") /\ UNCHANGED slot
           \/ /\ h.answer = "sSN"
              /\ \E what \in {"good", "parse", "fault", "doubt"} : HandleFrame(what)
              /\ UNCHANGED slot
           \/ /\ h.answer \in {"sAN", "sFA"}
              /\ HandleFrame("good")
              /\ slot' = [name |-> IF h.answer = "sFA" THEN "sFA" ELSE h.name,
                          good |-> h.good, stale |-> h.stale]
           \/ /\ h.answer \in {"sRA", "sEA"}
              /\ \E what \in {"good"} \cup (IF Ntp /\ h.name = "telemetry" THEN {"doubt"} ELSE {}) :
                    HandleFrame(what)
              /\ UNCHANGED slot
    /\ UNCHANGED <<receiveFrame, running>>

ReceiveNothing ==
    /\ rpc = "read" /\ link.up /\ link.wire = << >> /\ ~link.shut
    /\ rpc' = "check"
    /\ UNCHANGED <<receiveFrame, link, slot, fault, running, rec, stats>>

(* The link breaks, has been given up by a writer, or was shut down here; it is
   a fault only as long as the driver wants to receive. *)
ReceiveError ==
    /\ rpc = "read"
    /\ link' \in {link, [link EXCEPT !.up = FALSE]}
    /\ fault' = (fault \/ running) /\ rpc' = "leave"
    /\ UNCHANGED <<receiveFrame, slot, running, rec, stats>>

LeaveReceive ==
    /\ rpc = "leave"
    /\ running' = FALSE /\ rpc' = "exit"
    /\ UNCHANGED <<receiveFrame, link, slot, fault, rec, stats>>

----------------------------------------------------------------------------
(* The NTP watch thread: three misses in a row are a fault. *)

ntpFrame == <<ownerVars, deviceVars, stopVars, scanning, receiveVars, ntpRunning, rec, stats, appVars>>

(* The pause between two probes; after a miss there is none. *)
NtpSleep ==
    /\ npc = "sleep"
    /\ npc' = IF ntpRunning THEN "probe" ELSE "exit"
    /\ UNCHANGED <<ntpFrame, misses, fault>>

NtpProbe ==
    /\ npc = "probe"
    /\ npc' \in {"hit", "miss"}
    /\ UNCHANGED <<ntpFrame, misses, fault>>

(* A probe that ends after the stop was requested says nothing. *)
NtpJudge ==
    /\ npc \in {"hit", "miss"}
    /\ IF ~ntpRunning THEN npc' = "exit" /\ UNCHANGED misses
       ELSE /\ misses' = IF npc = "hit" THEN 0 ELSE misses + 1
            /\ npc' = IF misses' < MaxFailures THEN "sleep" ELSE "latch"
    /\ UNCHANGED <<ntpFrame, fault>>

NtpFault ==
    /\ npc = "latch"
    /\ fault' = TRUE /\ npc' = "exit"
    /\ UNCHANGED <<ntpFrame, misses>>

----------------------------------------------------------------------------
(* The recorder's writer, as its callers see it. *)

recorderFrame == <<ownerVars, deviceVars, stopVars, scanning, fault, receiveVars, ntpVars, stats,
                   appVars>>

RecorderWrites ==
    /\ rec.state \in {"open", "refusing"} /\ rec.written < rec.queued
    /\ rec' = [rec EXCEPT !.written = @ + 1]
    /\ UNCHANGED recorderFrame

(* A write fails: what is queued is dropped and counted. *)
RecorderFails ==
    /\ rec.state \in {"open", "refusing"}
    /\ rec' = [rec EXCEPT !.failed = TRUE, !.state = "broken",
                          !.dropped = @ + rec.queued - rec.written]
    /\ UNCHANGED recorderFrame

----------------------------------------------------------------------------
(* Lms4xxxDriverApp. *)

appFrame == <<deviceVars, stopVars, scanning, fault, receiveVars, ntpVars, stats>>
Enter(p) == pc' = p /\ UNCHANGED <<stack, job, i>>
Call(p, back) == pc' = p /\ stack' = <<back>> /\ UNCHANGED <<job, i>>

(* Init returns false when a stop is seen between two phases; before the first
   there is no driver to shut down. *)
InitStopped ==
    /\ pc \in {"init", "connected", "configured"} /\ terminate
    /\ Enter(IF pc = "init" THEN "done" ELSE "idle")
    /\ UNCHANGED <<appFrame, rec, appVars>>

Connect ==
    /\ pc = "init" /\ ~terminate
    /\ \/ link' = NewConnection /\ Enter("connected")
       \/ link' = NoConnection /\ Enter("idle")
    /\ UNCHANGED <<inbox, dev, stopVars, scanning, fault, receiveVars, ntpVars, stats, rec, appVars>>

Configure ==
    /\ pc = "connected" /\ ~terminate
    /\ pc' = "ask" /\ job' = "configure" /\ i' = 1 /\ UNCHANGED stack
    /\ UNCHANGED <<appFrame, rec, appVars>>

(* Configure has rolled back; Disconnect calls StopScanning again. *)
ConfigureFailed ==
    /\ pc = "configFailed"
    /\ failed' = TRUE
    /\ Call("stopScanning", "initDisconnect")
    /\ UNCHANGED <<appFrame, rec, terminate, armed>>

InitDisconnect ==
    /\ pc = "initDisconnect"
    /\ link' = [link EXCEPT !.up = FALSE, !.wire = << >>] /\ Enter("idle")
    /\ UNCHANGED <<inbox, dev, stopVars, scanning, fault, receiveVars, ntpVars, stats, rec, appVars>>

(* The session's configuration copy may be unreadable. *)
InitEnds ==
    /\ pc = "configured" /\ ~terminate
    /\ \/ rec' = [rec EXCEPT !.state = "made"] /\ Enter("initialized")
       \/ Enter("idle") /\ UNCHANGED rec
    /\ UNCHANGED <<appFrame, terminate, failed, armed>>

(* Run, unless another driver has failed to initialize. *)
RunRefused ==
    /\ pc = "initialized" /\ Enter("idle")
    /\ UNCHANGED <<appFrame, rec, appVars>>

StartRecorder ==
    /\ pc = "initialized"
    /\ \/ /\ rec' = [rec EXCEPT !.state = "open"] /\ Enter("startScanning")
          /\ UNCHANGED <<terminate, failed>>
       \/ /\ rec' = [rec EXCEPT !.state = "closed", !.failed = TRUE] /\ Enter("idle")
          /\ failed' = TRUE /\ terminate' = TRUE
    /\ UNCHANGED <<appFrame, armed>>

StartScanning ==
    /\ pc = "startScanning"
    /\ IF link.up THEN pc' = "ask" /\ job' = "subscribe" /\ i' = 1 /\ UNCHANGED stack
                  ELSE Call("stopScanning", "startFailed")
    /\ UNCHANGED <<appFrame, rec, appVars>>

(* Creating a thread may fail after the flags are set. *)
SpawnReceive ==
    /\ pc = "spawn"
    /\ scanning' = TRUE /\ running' = TRUE
    /\ \/ rpc' = "check" /\ Enter(IF Ntp THEN "spawnNtp" ELSE "arm")
       \/ UNCHANGED rpc /\ Call("stopScanning", "startFailed")
    /\ UNCHANGED <<deviceVars, stopVars, fault, ntpVars, stats, rec, appVars>>

SpawnNtp ==
    /\ pc = "spawnNtp"
    /\ ntpRunning' = TRUE
    /\ \/ npc' = "sleep" /\ Enter("arm")
       \/ UNCHANGED npc /\ Call("stopScanning", "startFailed")
    /\ UNCHANGED <<deviceVars, stopVars, scanning, fault, receiveVars, misses, stats, rec, appVars>>

(* The recorder is stopped before the failure is made known. *)
StartFailed ==
    /\ pc = "startFailed" /\ Call("stopRecorder", "giveUp")
    /\ UNCHANGED <<appFrame, rec, appVars>>

GiveUp ==
    /\ pc = "giveUp"
    /\ failed' = TRUE /\ terminate' = TRUE /\ Enter("idle")
    /\ UNCHANGED <<appFrame, rec, armed>>

(* RawRecorder::Stop joins the writer, which drains the queue; closing the
   last split may fail. *)
StopRecorder ==
    /\ pc = "stopRecorder"
    /\ rec.state \in {"open", "refusing"} => rec.written = rec.queued
    /\ IF rec.state \in {"none", "made", "closed"} THEN UNCHANGED rec
       ELSE \E f \in BOOLEAN : rec' = [rec EXCEPT !.state = "closed", !.failed = @ \/ f]
    /\ Return
    /\ UNCHANGED <<appFrame, appVars>>

(* scan_start_us_ arms the no-data watchdog. *)
Arm ==
    /\ pc = "arm"
    /\ armed' = TRUE /\ Enter("loop")
    /\ UNCHANGED <<appFrame, rec, terminate, failed>>

(* RequestTelemetry; the answers come through the receive thread. *)
Telemetry ==
    /\ pc = "loop" /\ ~terminate /\ link.up
    /\ Bounded
    /\ Written(Command("telemetry", "sRA", "all", FALSE)) \/ NotWritten
    /\ UNCHANGED <<ownerVars, dev, stopVars, scanning, fault, receiveVars, ntpVars, stats, rec, appVars>>

FirstDataLoss == stats.loss \/ rec.dropped # 0

LoopEnds ==
    /\ pc = "loop"
    /\ \/ terminate /\ UNCHANGED <<failed, terminate>>
       \/ /\ ~scanning \/ fault \/ rec.failed \/ FirstDataLoss
          /\ failed' = TRUE /\ terminate' = TRUE
    /\ armed' = FALSE /\ Enter("idle")
    /\ UNCHANGED <<appFrame, rec>>

Shutdown ==
    /\ pc = "idle"
    /\ armed' = FALSE /\ Call("stopScanning", "stopped")
    /\ UNCHANGED <<appFrame, rec, terminate, failed>>

Stopped ==
    /\ pc = "stopped"
    /\ failed' = (failed \/ ms.error) /\ Call("stopRecorder", "disconnect")
    /\ UNCHANGED <<appFrame, rec, terminate, armed>>

Disconnect ==
    /\ pc = "disconnect" /\ Call("stopScanning", "assess")
    /\ UNCHANGED <<appFrame, rec, appVars>>

(* Mutant: a loss would have ended the run. *)
RecordingBadButLoss ==
    \/ stats.doubt \/ rec.dropped # 0 \/ rec.failed \/ fault
    \/ stats.received # rec.queued \/ rec.queued # rec.written

(* AssessRecording, over counters that no longer move. *)
RecordingBad ==
    \/ stats.loss \/ stats.doubt \/ rec.dropped # 0 \/ rec.failed \/ fault
    \/ stats.received # rec.queued \/ rec.queued # rec.written

Assess ==
    /\ pc = "assess"
    /\ link' = [link EXCEPT !.up = FALSE, !.wire = << >>]
    /\ failed' = (failed \/ ms.error \/ RecordingBad) /\ Enter("done")
    /\ UNCHANGED <<inbox, dev, stopVars, scanning, fault, receiveVars, ntpVars, stats, rec,
                   terminate, armed>>

(* The coordinator may want to stop at any time. *)
StopRequested ==
    /\ pc # "done" /\ ~terminate
    /\ terminate' = TRUE
    /\ UNCHANGED <<ownerVars, appFrame, rec, failed, armed>>

Done == pc = "done" /\ inbox = << >> /\ UNCHANGED vars

----------------------------------------------------------------------------
Device == DeviceAnswers \/ DeviceScans

Commands ==
    \/ AskWritten \/ AskNotWritten \/ ReplyRead \/ ReplyTimesOut \/ ReplyLost
    \/ PollAgain \/ ReadyDeadline \/ Probe \/ StopMeasurement \/ Reconnect

Stopping ==
    \/ StopScanning \/ StopStream \/ StreamedStop \/ ClearSlot \/ WriteMethod
    \/ MethodNotSent \/ MethodAnswered \/ MethodTimesOut \/ ClearFlags \/ ShutdownReceive
    \/ JoinNtp \/ JoinReceive

Receive ==
    \/ CheckRunning \/ ReceiveFrame \/ ReceiveNothing \/ ReceiveError \/ LeaveReceive

NtpWatch == NtpSleep \/ NtpProbe \/ NtpJudge \/ NtpFault

App ==
    \/ InitStopped \/ Connect \/ Configure \/ ConfigureFailed \/ InitDisconnect \/ InitEnds
    \/ RunRefused \/ StartRecorder \/ StartScanning \/ SpawnReceive \/ SpawnNtp
    \/ StartFailed \/ GiveUp \/ StopRecorder \/ Arm \/ LoopEnds \/ Shutdown \/ Stopped
    \/ Disconnect \/ Assess

Next ==
    \/ Device \/ Commands \/ Stopping \/ Receive \/ NtpWatch \/ App \/ Telemetry
    \/ RecorderWrites \/ RecorderFails \/ StopRequested \/ Done

(* The threads run, waits end and the 60 s deadline passes.  The scanner owes
   nothing. *)
Fairness ==
    /\ WF_vars(Commands \/ Stopping \/ App) /\ SF_vars(ReadyDeadline)
    /\ WF_vars(Receive) /\ WF_vars(NtpWatch) /\ WF_vars(RecorderWrites)

Spec == Init /\ [][Next]_vars
FairSpec == Spec /\ Fairness

----------------------------------------------------------------------------
(* Properties. *)

OwnerPlaces ==
    {"init", "connected", "ask", "reply", "ready", "configured", "initialized", "configFailed",
     "initDisconnect", "idle", "rollback", "reconnect", "finalStop", "stopScanning", "stopStream",
     "streamedStop", "method", "writeMethod", "awaitMethod", "clear", "shut", "joinNtp",
     "joinReceive", "startScanning", "spawn", "spawnNtp", "startFailed", "giveUp", "stopRecorder",
     "arm", "loop", "stopped", "disconnect", "assess", "done"}

(* The values of the variables. *)
TypeOK ==
    /\ pc \in OwnerPlaces /\ Len(stack) <= 1 /\ job \in Jobs /\ i \in 0 .. Len(Configuration)
    /\ link.conn \in 0 .. 2 /\ dev.loggedIn \in 0 .. link.conn
    /\ rpc \in {"none", "check", "read", "leave", "exit", "joined"}
    /\ npc \in {"none", "sleep", "probe", "hit", "miss", "latch", "exit", "joined"}
    /\ misses \in 0 .. MaxFailures
    /\ rec.state \in {"none", "made", "open", "refusing", "broken", "closed"}
    /\ rec.written <= rec.queued

(* The scanner is off when the driver says so, by a confirmed stop or by ending
   without failure: laser and motor are off and no earlier start is left to be
   executed, also when the start was cancelled or its answer was lost
   (MeasurementShutdown::Stop, Configure's fail, StopScanning, Shutdown). *)
StoppedMeansOff ==
    ms.confirmed \/ (pc = "done" /\ ~failed) =>
        ~dev.measuring /\ \A k \in DOMAIN inbox : inbox[k].name # "LMCstartmeas"

(* The driver never goes on because of the answer to an earlier command, although
   an answer that was given up may still arrive: neither an answer that names the
   command, nor a refusal where ApplyParameter tolerates one, is a late one
   (SendAndReceive, ValidateResponse, IsTolerableSfa, CallMethodStreaming).  A
   refusal that ends the command instead is RefusalsFail's. *)
AnswersMatch == ~mixed

(* The owner never reads or replaces the socket while the receive thread may
   be reading it (CommandChannel, StopScanning). *)
OneReader == pc \in {"reply", "reconnect"} => ~Joinable(rpc)

(* A refusal names no command, so a late one can be taken for the answer to the
   present command and end it.  That is always reported: the driver ends as failed,
   and a stop refused in this way through the receive thread, after which
   LMCstopmeas may never be sent, stays unconfirmed.  The stop over the command
   channel is not exposed to it, since it takes a new connection whenever an answer
   may be outstanding (SendAndReceive, HandleNonScanFrame, CallMethodStreaming,
   StopMeasurement, Shutdown). *)
RefusalsFail ==
    /\ misread \subseteq {"configure", "subscribe", "streamed"}
    /\ "streamed" \in misread => ms.error /\ ~ms.confirmed
    /\ pc = "done" /\ misread # {} => failed

(* What the driver calls a good recording holds every telegram it took off the
   socket, each of them undamaged, and no thread has latched a fault, not even
   after the loop's last look at it (HandleFrame, NtpWatchLoop, AssessRecording). *)
CleanMeansRecorded ==
    pc = "done" /\ ~failed => rec.written = stats.received /\ ~stats.loss /\ ~fault

(* The no-data watchdog is armed only while a stream is being received, so the
   silence of a start or of a shutdown never trips it (Run, Shutdown). *)
ArmedWhileScanning == armed => scanning /\ Joinable(rpc)

(* A start that fails half way leaves no thread behind: whenever a command is
   sent to confirm the stop, and when the driver is gone, both have been joined
   (StartScanning's handlers, StopScanning). *)
WatchEndsWithStream ==
    pc \in {"finalStop", "reconnect", "assess", "done"} => ~Joinable(rpc) /\ ~Joinable(npc)

(* What holds at every step of the three threads: types, one reader of the
   socket, no thread left behind, no watchdog without a stream, no step taken on
   another command's answer. *)
DriverInv ==
    TypeOK /\ OneReader /\ WatchEndsWithStream /\ ArmedWhileScanning /\ AnswersMatch

(* Every stop request ends the driver, whatever the scanner does. *)
StopCompletes == terminate ~> pc = "done"
=============================================================================
